----------------------------- MODULE PortalsProofs -----------------------------
(***************************************************************************)
(* Proofs about a portal, its pool and its spreadsheet imports.            *)
(*                                                                         *)
(* The three parts keep invariants of their own.  Those of the pool and of *)
(* the imports do not mention the tabs: a step of the composition is one   *)
(* of theirs, or the drawing of their tab, or leaves them alone.  Those of *)
(* the tabs rest on what each action does to the jobs of the loop and the  *)
(* threads (SwitchEffect and the lemmas after it); then the buttons, the   *)
(* drawings that are kept, the screen and the rings each have an inductive *)
(* invariant, proved action by action.                                     *)
(***************************************************************************)
EXTENDS Portals, FiniteSetTheorems, SequenceTheorems, TLAPS

-----------------------------------------------------------------------------
(* The steps of the composition, as each part sees them.                   *)

LEMMA PoolActs ==
  ASSUME [PortalsNext]_allVars
  PROVE  \/ UNCHANGED poolVars
         \/ PoolDrawn
         \/ PoolClicks
         \/ \E here \in BOOLEAN : ImportEnds(here)
         \/ PoolBackground
BY DEF PortalsNext, TabSteps, DrawTab, PoolSteps, PoolUser, poolParts, allVars

LEMMA ImportActs ==
  ASSUME [PortalsNext]_allVars
  PROVE  \/ UNCHANGED importVars
         \/ CardDrawn
         \/ ImportClicks
         \/ \E chooser \in Choosers : Import(chooser)
         \/ ImportBackground
BY DEF PortalsNext, TabSteps, DrawTab, PoolSteps, PoolUser, poolParts, allVars

LEMMA TabActs ==
  ASSUME [PortalsNext]_allVars
  PROVE  UNCHANGED vars \/ UserSteps \/ HandlerSteps \/ LoadSteps \/ \E a \in Actors : Draw(a)
BY DEF PortalsNext, TabSteps, DrawTab, PoolSteps, allVars

-----------------------------------------------------------------------------
(* The roll-number pool.                                                   *)

-----------------------------------------------------------------------------
(* The invariants.                                                         *)

Reader == [step : {"idle", "read", "set", "keep"}, force : BOOLEAN, rows : Lists,
           current : BOOLEAN]

PoolShaped ==
  /\ rolls \in 1..MaxRolls /\ entry \in Entries /\ recordsFresh \in BOOLEAN
  /\ table \in Lists /\ added \in 0..rolls /\ poolError \in BOOLEAN
  /\ reader \in [Readers -> Reader] /\ \A r \in Readers : reader[r].rows <= rolls
  /\ entry # NoEntry => entry.v <= rolls
  /\ mishaps \subseteq {"crowded", "failed", "old"}
  /\ turns \in 0..MaxTurns

\* Without a mishap one thread reads at a time; what it has read, and what the
\* cache holds, has the last addition; so has the table, unless the thread is
\* going to fill it or the error is on the screen.
PoolCurrent ==
  mishaps = {} =>
    /\ \A r, s \in Readers : reader[r].step # "idle" /\ reader[s].step # "idle" => r = s
    /\ entry # NoEntry => entry.v >= added
    /\ \A r \in Readers : reader[r].step \in {"set", "keep"} => reader[r].rows >= added
    /\ \/ \E r \in Readers : reader[r].step # "idle" /\ reader[r].current
       \/ poolError
       \/ table >= added

PoolInv == PoolShaped /\ PoolCurrent

LEMMA PoolBegins ==
  ASSUME PoolAssumption, NEW spent \in 0..MaxTurns, PoolInit(spent)
  PROVE  PoolInv
<1>1. entry \in Entries /\ (entry # NoEntry => entry.v = 1)
  <2>1. 1 \in Lists /\ (entry = NoEntry \/ entry = [v |-> 1, fresh |-> TRUE])
    BY DEF PoolAssumption, PoolInit, Lists
  <2>2. CASE entry = NoEntry
    BY <2>2 DEF Entries
  <2>3. CASE entry = [v |-> 1, fresh |-> TRUE]
    BY <2>1, <2>3 DEF Entries
  <2>. QED BY <2>1, <2>2, <2>3
<1>2. reader = [r \in Readers |-> NotReading]
  BY DEF PoolInit
<1>3. PoolShaped
  <2>1. NotReading \in Reader /\ NotReading.rows = 0
    BY DEF NotReading, Reader, Lists, PoolAssumption
  <2>2. reader \in [Readers -> Reader] /\ \A r \in Readers : reader[r].rows <= rolls
    BY <1>2, <2>1 DEF PoolInit
  <2>3. /\ rolls \in 1..MaxRolls /\ table \in Lists /\ added \in 0..rolls
        /\ entry # NoEntry => entry.v <= rolls
        /\ turns \in 0..MaxTurns
    BY <1>1 DEF PoolAssumption, PoolInit, Lists
  <2>4. recordsFresh \in BOOLEAN /\ poolError \in BOOLEAN
        /\ mishaps \subseteq {"crowded", "failed", "old"}
    BY DEF PoolInit
  <2>. QED BY <1>1, <2>2, <2>3, <2>4 DEF PoolShaped
<1>4. PoolCurrent
  BY <1>1, <1>2 DEF PoolInit, PoolCurrent, NotReading
<1>. QED BY <1>3, <1>4 DEF PoolInv

\* What trigger_load does to the table, when the cache and the other threads
\* are as they should be.
LEMMA TriggerKeeps ==
  ASSUME PoolAssumption, PoolInv,
         NEW force \in BOOLEAN, NEW here \in BOOLEAN, here \/ force,
         NEW threads, NEW before \in Lists,
         threads \in [Readers -> Reader],
         \A r \in Readers : threads[r].step = reader[r].step /\ threads[r].rows = reader[r].rows,
         ~here => threads = reader,
         Trigger(force, here, threads, before),
         rolls' \in 1..MaxRolls /\ rolls' >= rolls, added' \in 0..rolls',
         added' # added => force /\ entry' = NoEntry,
         entry' = entry \/ entry' = NoEntry, recordsFresh' \in BOOLEAN, turns' \in 0..MaxTurns
  PROVE  PoolInv'
<1>1. CASE ~force /\ Fresh /\ recordsFresh
  <2>1. /\ table' = entry.v /\ reader' = threads /\ mishaps' = mishaps /\ added' = added
        /\ poolError' = FALSE /\ entry # NoEntry
    BY <1>1 DEF Trigger, Fresh, PoolInv, PoolShaped, Reader, Entries, Lists, PoolAssumption
  <2>2. entry.v \in Lists
    BY <2>1 DEF PoolInv, PoolShaped, Entries, Reader, Lists, PoolAssumption
  <2>3. PoolShaped'
    <3>1. reader' \in [Readers -> Reader] /\ \A r \in Readers : reader'[r].rows <= rolls'
      BY <2>1 DEF PoolInv, PoolShaped, Reader, Lists, PoolAssumption
    <3>2. entry' \in Entries /\ (entry' # NoEntry => entry'.v <= rolls')
      BY <2>2 DEF PoolInv, PoolShaped, Entries, Lists, PoolAssumption
    <3>. QED BY <2>1, <2>2, <3>1, <3>2 DEF PoolInv, PoolShaped
  <2>4. PoolCurrent'
    BY <2>1, <2>2 DEF PoolInv, PoolCurrent
  <2>. QED BY <2>3, <2>4 DEF PoolInv
<1>2. CASE ~(~force /\ Fresh /\ recordsFresh)
  <2>1. PICK r \in Readers :
          /\ threads[r].step = "idle"
          /\ reader' = [threads EXCEPT ![r] =
               [NotReading EXCEPT !.step = "read", !.force = force, !.current = here]]
    BY <1>2 DEF Trigger
  <2>2. /\ table' = before
        /\ mishaps' = mishaps \cup (IF Reading THEN {"crowded"} ELSE {})
                              \cup (IF here THEN {} ELSE {"old"})
        /\ poolError' = (poolError /\ ~here)
    BY <1>2 DEF Trigger
  <2>3. /\ reader' \in [Readers -> Reader]
        /\ \A q \in Readers : reader'[q].rows <= rolls'
    <3>1. PICK new \in Reader :
            /\ new = [NotReading EXCEPT !.step = "read", !.force = force, !.current = here]
            /\ new.rows = 0
      <4>1. NotReading \in Reader /\ NotReading.rows = 0
        BY DEF NotReading, Reader, Lists, PoolAssumption
      <4>2. ASSUME NEW k \in Reader
            PROVE  /\ [k EXCEPT !.step = "read", !.force = force, !.current = here] \in Reader
                   /\ [k EXCEPT !.step = "read", !.force = force, !.current = here].rows = k.rows
        BY DEF Reader
      <4>. QED BY <4>1, <4>2
    <3>2. reader' = [threads EXCEPT ![r] = new]
      BY <2>1, <3>1
    <3>3. \A q \in Readers : threads[q].rows <= rolls'
      BY DEF PoolInv, PoolShaped, Reader, Lists, PoolAssumption
    <3>. QED BY <3>1, <3>2, <3>3
  <2>4. PoolShaped'
    <3>1. entry' \in Entries /\ (entry' # NoEntry => entry'.v <= rolls')
      BY DEF PoolInv, PoolShaped, Entries, Lists, PoolAssumption
    <3>2. poolError' \in BOOLEAN /\ mishaps' \subseteq {"crowded", "failed", "old"}
      BY <2>2 DEF PoolInv, PoolShaped
    <3>. QED BY <2>2, <2>3, <3>1, <3>2 DEF PoolInv, PoolShaped
  <2>5. ASSUME mishaps' = {}
        PROVE  /\ \A q \in Readers : reader'[q].step # "idle" => q = r
               /\ entry' # NoEntry => entry'.v >= added'
               /\ \A q \in Readers : reader'[q].step \notin {"set", "keep"}
               /\ reader'[r].step # "idle" /\ reader'[r].current
    <3>1. ~Reading /\ here /\ mishaps = {}
      BY <2>2, <2>5
    <3>2. \A q \in Readers : q # r => reader'[q].step = "idle"
      BY <2>1, <3>1 DEF Reading
    <3>3. reader'[r].step = "read" /\ reader'[r].current
      BY <2>1, <3>1 DEF NotReading
    <3>4. entry' # NoEntry => entry'.v >= added'
      <4>1. CASE entry' = entry /\ added' = added
        BY <3>1, <4>1 DEF PoolInv, PoolCurrent
      <4>. QED BY <4>1
    <3>. QED BY <3>2, <3>3, <3>4
  <2>6. PoolCurrent'
    BY <2>5 DEF PoolCurrent
  <2>. QED BY <2>4, <2>6 DEF PoolInv
<1>. QED BY <1>1, <1>2

LEMMA ReadPoolKeeps ==
  ASSUME PoolAssumption, PoolInv, NEW r \in Readers, ReadPool(r)
  PROVE  PoolInv'
<1>1. PICK step \in {"keep", "set"}, many \in 0..rolls :
        /\ reader' = [reader EXCEPT ![r].step = step, ![r].rows = many]
        /\ mishaps' \in {mishaps, mishaps \cup {"failed"}}
        /\ mishaps' = {} /\ mishaps = {} => many >= added
  <2>1. entry # NoEntry => entry.v \in 0..rolls
    BY DEF PoolInv, PoolShaped, Entries, Lists, Reader, PoolAssumption
  <2>2. CASE ~reader[r].force /\ Fresh
    <3>1. /\ reader' = [reader EXCEPT ![r].step = "keep", ![r].rows = entry.v]
          /\ mishaps' = mishaps /\ entry # NoEntry
      BY <2>2 DEF ReadPool, Fresh
    <3>. QED BY <2>1, <3>1 DEF PoolInv, PoolCurrent
  <2>3. CASE ~(~reader[r].force /\ Fresh)
    <3>1. CASE /\ reader' = [reader EXCEPT ![r].step = "set", ![r].rows = rolls]
               /\ mishaps' = mishaps
      <4>1. rolls \in 0..rolls /\ rolls >= added
        BY DEF PoolInv, PoolShaped, PoolAssumption
      <4>. QED BY <3>1, <4>1
    <3>2. CASE /\ reader' = [reader EXCEPT ![r].step = "keep",
                               ![r].rows = IF entry = NoEntry THEN 0 ELSE entry.v]
               /\ mishaps' = mishaps \cup {"failed"}
      <4>1. (IF entry = NoEntry THEN 0 ELSE entry.v) \in 0..rolls
        BY <2>1 DEF PoolInv, PoolShaped, PoolAssumption, Reader, Entries, Lists
      <4>. QED BY <3>2, <4>1
    <3>. QED BY <2>3, <3>1, <3>2 DEF ReadPool
  <2>. QED BY <2>2, <2>3
<1>2. UNCHANGED <<rolls, entry, recordsFresh, table, poolError, added, turns>>
      /\ reader[r].step = "read"
  BY DEF ReadPool
<1>3. /\ \A q \in Readers : /\ reader'[q].step # "idle" => reader[q].step # "idle"
                            /\ reader[q].step # "idle" => reader'[q].step # "idle"
                            /\ reader'[q].current = reader[q].current
                            /\ q # r => reader'[q] = reader[q]
      /\ reader'[r].rows = many
  BY <1>1, <1>2 DEF PoolInv, PoolShaped, Reader, Entries, Lists, PoolAssumption
<1>4. PoolShaped'
  <2>1. reader[r] \in Reader /\ many \in Lists
    BY DEF PoolInv, PoolShaped, PoolAssumption, Lists
  <2>2. [reader[r] EXCEPT !.step = step, !.rows = many] \in Reader
    BY <2>1 DEF Reader
  <2>3. reader' = [reader EXCEPT ![r] = [reader[r] EXCEPT !.step = step, !.rows = many]]
    BY <1>1 DEF PoolInv, PoolShaped
  <2>4. reader' \in [Readers -> Reader]
    BY <2>2, <2>3 DEF PoolInv, PoolShaped
  <2>. QED BY <1>1, <1>2, <2>4 DEF PoolInv, PoolShaped, Reader, Lists, PoolAssumption
<1>5. PoolCurrent'
  <2>. SUFFICES ASSUME mishaps' = {}
                PROVE  PoolCurrent'
    BY DEF PoolCurrent
  <2>1. mishaps = {} /\ many >= added
    BY <1>1
  <2>2. /\ \A q, s \in Readers : reader[q].step # "idle" /\ reader[s].step # "idle" => q = s
        /\ entry # NoEntry => entry.v >= added
        /\ \A q \in Readers : reader[q].step \in {"set", "keep"} => reader[q].rows >= added
        /\ \/ \E q \in Readers : reader[q].step # "idle" /\ reader[q].current
           \/ poolError
           \/ table >= added
    BY <2>1 DEF PoolInv, PoolCurrent
  <2>3. \A q \in Readers : reader'[q].step \in {"set", "keep"} => reader'[q].rows >= added
    BY <1>3, <2>1, <2>2
  <2>. QED BY <1>2, <1>3, <2>2, <2>3 DEF PoolCurrent
<1>. QED BY <1>4, <1>5 DEF PoolInv

LEMMA SetPoolKeeps ==
  ASSUME PoolAssumption, PoolInv, NEW r \in Readers, SetPool(r)
  PROVE  PoolInv'
<1>1. /\ entry' = [v |-> reader[r].rows, fresh |-> TRUE] /\ reader[r].step = "set"
      /\ reader' = [reader EXCEPT ![r].step = "keep"]
      /\ UNCHANGED <<rolls, recordsFresh, table, poolError, added, mishaps, turns>>
  BY DEF SetPool
<1>2. reader[r].rows \in 0..rolls /\ rolls \in Nat /\ reader[r].rows \in Lists
  BY DEF PoolInv, PoolShaped, Lists, Reader, Entries, PoolAssumption
<1>3. \A q \in Readers : /\ reader'[q].step # "idle" <=> reader[q].step # "idle"
                         /\ reader'[q].step \in {"set", "keep"} <=> reader[q].step \in {"set", "keep"}
                         /\ reader'[q].current = reader[q].current
                         /\ reader'[q].rows = reader[q].rows
  BY <1>1 DEF PoolInv, PoolShaped, Reader, Entries, Lists, PoolAssumption
<1>4. PoolShaped'
  BY <1>1, <1>2 DEF PoolInv, PoolShaped, Entries, Reader, Lists, PoolAssumption
<1>5. PoolCurrent'
  BY <1>1, <1>2, <1>3 DEF PoolInv, PoolCurrent
<1>. QED BY <1>4, <1>5 DEF PoolInv

LEMMA KeepKeeps ==
  ASSUME PoolAssumption, PoolInv, NEW r \in Readers, NEW students \in BOOLEAN, Keep(r, students)
  PROVE  PoolInv'
<1>1. /\ reader[r].step = "keep" /\ reader' = [reader EXCEPT ![r] = NotReading]
      /\ UNCHANGED <<rolls, added, mishaps, turns>>
      /\ poolError' = IF reader[r].current THEN ~students ELSE poolError
      /\ IF students
         THEN /\ entry' = [v |-> reader[r].rows, fresh |-> TRUE]
              /\ recordsFresh' = TRUE
              /\ table' = IF reader[r].current THEN reader[r].rows ELSE table
         ELSE UNCHANGED <<entry, recordsFresh, table>>
  BY DEF Keep
<1>2. /\ reader[r].rows \in 0..rolls /\ rolls \in Nat /\ reader[r].rows \in Lists
      /\ table \in Lists /\ added \in Nat
  BY DEF PoolInv, PoolShaped, Lists, Reader, Entries, PoolAssumption
<1>3. /\ \A q \in Readers : q # r => reader'[q] = reader[q]
      /\ reader'[r].step = "idle"
  BY <1>1 DEF PoolInv, PoolShaped, NotReading, Reader, Entries, Lists, PoolAssumption
<1>4. PoolShaped'
  <2>1. reader' \in [Readers -> Reader] /\ \A q \in Readers : reader'[q].rows <= rolls'
    BY <1>1, <1>2 DEF PoolInv, PoolShaped, NotReading, Reader, Entries, Lists, PoolAssumption
  <2>2. entry' \in Entries /\ (entry' # NoEntry => entry'.v <= rolls)
    <3>1. CASE students
      <4>1. entry' = [v |-> reader[r].rows, fresh |-> TRUE]
        BY <1>1, <3>1
      <4>2. entry' \in Entries
        BY <1>2, <4>1 DEF Entries
      <4>3. entry'.v <= rolls
        BY <1>2, <4>1
      <4>. QED BY <4>2, <4>3
    <3>. QED BY <1>1, <3>1 DEF PoolInv, PoolShaped
  <2>3. table' \in Lists
    BY <1>1, <1>2
  <2>. QED BY <1>1, <2>1, <2>2, <2>3 DEF PoolInv, PoolShaped
<1>5. ASSUME mishaps' = {}
      PROVE  /\ \A q \in Readers : reader'[q].step = "idle"
             /\ entry' # NoEntry => entry'.v >= added'
             /\ poolError' \/ table' >= added'
  <2>1. /\ reader[r].rows >= added
        /\ \A q \in Readers : q # r => reader[q].step = "idle"
        /\ reader[r].current \/ poolError \/ table >= added
        /\ entry # NoEntry => entry.v >= added
    BY <1>1, <1>5 DEF PoolInv, PoolCurrent
  <2>2. entry' # NoEntry => entry'.v >= added'
    BY <1>1, <2>1
  <2>3. poolError' \/ table' >= added'
    BY <1>1, <2>1
  <2>. QED BY <1>3, <2>1, <2>2, <2>3
<1>6. PoolCurrent'
  BY <1>5 DEF PoolCurrent
<1>. QED BY <1>4, <1>6 DEF PoolInv

LEMMA PoolStep ==
  ASSUME PoolAssumption, PoolInv, [PortalsNext]_allVars
  PROVE  PoolInv'
<1>. USE DEF PoolInv
<1>1. CASE UNCHANGED poolVars
  BY <1>1 DEF poolVars, PoolShaped, PoolCurrent, Reader, Entries, Lists, PoolAssumption
<1>2. CASE PoolDrawn
  <2>1. PICK threads : threads = [r \in Readers |-> [reader[r] EXCEPT !.current = FALSE]]
    OBVIOUS
  <2>2. PICK before : before = IF Fresh THEN entry.v ELSE 0
    OBVIOUS
  <2>3. Trigger(FALSE, TRUE, threads, before)
    BY <1>2, <2>1, <2>2 DEF PoolDrawn
  <2>4. before \in Lists
    BY <2>2 DEF PoolShaped, Entries, Lists, Fresh, Reader, PoolAssumption
  <2>5. /\ threads \in [Readers -> Reader]
        /\ \A r \in Readers : threads[r].step = reader[r].step /\ threads[r].rows = reader[r].rows
    <3>1. reader \in [Readers -> Reader]
      BY DEF PoolShaped
    <3>2. \A r \in Readers :
            /\ [reader[r] EXCEPT !.current = FALSE] \in Reader
            /\ [reader[r] EXCEPT !.current = FALSE].step = reader[r].step
            /\ [reader[r] EXCEPT !.current = FALSE].rows = reader[r].rows
      BY <3>1 DEF Reader
    <3>. QED BY <2>1, <3>2
  <2>6. UNCHANGED <<rolls, entry, recordsFresh, added, turns>>
    BY <1>2 DEF PoolDrawn
  <2>7. /\ rolls' \in 1..MaxRolls /\ rolls' >= rolls /\ added' \in 0..rolls'
        /\ recordsFresh' \in BOOLEAN /\ turns' \in 0..MaxTurns
    BY <2>6 DEF PoolShaped, PoolAssumption
  <2>. QED BY <2>3, <2>4, <2>5, <2>6, <2>7, TriggerKeeps
<1>3. ASSUME NEW here \in BOOLEAN, Grow(here), turns' \in 0..MaxTurns
      PROVE  PoolInv'
  <2>1. /\ Trigger(TRUE, here, reader, table) /\ rolls' = rolls + 1 /\ added' = rolls'
        /\ rolls < MaxRolls /\ entry' = NoEntry /\ recordsFresh' = FALSE
    BY <1>3 DEF Grow
  <2>2. /\ rolls' \in 1..MaxRolls /\ rolls' >= rolls /\ added' \in 0..rolls'
    BY <2>1 DEF PoolShaped, PoolAssumption, Reader, Entries, Lists
  <2>. QED BY <1>3, <2>1, <2>2, TriggerKeeps DEF PoolShaped
<1>4. ASSUME NEW here \in BOOLEAN, Reload(here), turns' \in 0..MaxTurns
      PROVE  PoolInv'
  <2>1. Trigger(TRUE, here, reader, table) /\ UNCHANGED <<rolls, entry, recordsFresh, added>>
    BY <1>4 DEF Reload
  <2>2. /\ rolls' \in 1..MaxRolls /\ rolls' >= rolls /\ added' \in 0..rolls'
        /\ recordsFresh' \in BOOLEAN
    BY <2>1 DEF PoolShaped, PoolAssumption
  <2>. QED BY <1>4, <2>1, <2>2, TriggerKeeps DEF PoolShaped
<1>5. Turn \/ turns' = turns => turns' \in 0..MaxTurns
  BY DEF Turn, PoolShaped, PoolAssumption, Reader, Entries, Lists
<1>6. CASE PoolClicks
  BY <1>3, <1>4, <1>5, <1>6 DEF PoolClicks, AddSingle, RefreshPool
<1>7. CASE \E here \in BOOLEAN : ImportEnds(here)
  BY <1>3, <1>4, <1>5, <1>7 DEF ImportEnds
<1>8. CASE OthersChange
  <2>1. PoolShaped'
    BY <1>5, <1>8 DEF OthersChange, PoolShaped, PoolAssumption, Reader, Entries, Lists
  <2>2. PoolCurrent'
    BY <1>8 DEF OthersChange, PoolCurrent
  <2>. QED BY <2>1, <2>2
<1>9. CASE Expire
  <2>1. /\ entry' = entry \/ (Fresh /\ entry' = [entry EXCEPT !.fresh = FALSE])
        /\ recordsFresh' \in BOOLEAN
        /\ UNCHANGED <<rolls, table, poolError, reader, added, mishaps>>
    BY <1>9 DEF Expire, PoolShaped, Reader, Entries, Lists, PoolAssumption
  <2>2. Fresh => /\ [entry EXCEPT !.fresh = FALSE] \in Entries
                 /\ [entry EXCEPT !.fresh = FALSE].v = entry.v
                 /\ entry # NoEntry
    BY DEF Fresh, Entries, PoolShaped, Reader, Lists, PoolAssumption
  <2>3. PoolShaped'
    <3>1. entry' \in Entries /\ (entry' # NoEntry => entry'.v <= rolls)
      BY <2>1, <2>2 DEF PoolShaped
    <3>2. turns' \in 0..MaxTurns
      BY <1>5, <1>9 DEF Expire
    <3>. QED BY <2>1, <3>1, <3>2 DEF PoolShaped
  <2>4. entry' # NoEntry => entry # NoEntry /\ entry'.v = entry.v
    BY <2>1, <2>2
  <2>5. PoolCurrent'
    BY <2>1, <2>4 DEF PoolCurrent
  <2>. QED BY <2>3, <2>5
<1>10. CASE PoolBackground
  BY <1>8, <1>9, <1>10, ReadPoolKeeps, SetPoolKeeps, KeepKeeps DEF PoolBackground
<1>. QED BY <1>1, <1>2, <1>6, <1>7, <1>10, PoolActs

LEMMA PoolInitially ==
  ASSUME PoolAssumption, SharesAssumption, PortalsInit
  PROVE  PoolInv
<1>1. MaxTurns \in 0..MaxTurns
  BY DEF PoolAssumption
<1>2. \A share \in Shares : share.turns \in 0..MaxTurns
  BY DEF SharesAssumption
<1>. QED BY <1>1, <1>2, PoolBegins DEF PortalsInit, Built, AtPool

\* What the coordinator has added is in the table once the loads are over,
\* however many threads, changes and clicks there are.
THEOREM PoolShowsOwnAddsTheorem == PortalsSpec => []PoolShowsOwnAdds
<1>1. PortalsInit => PoolInv
  BY PoolInitially, PoolAssumption, SharesAssumption
<1>2. PoolInv /\ [PortalsNext]_allVars => PoolInv'
  BY PoolStep, PoolAssumption
<1>3. PoolInv => PoolShowsOwnAdds
  BY DEF PoolInv, PoolCurrent, PoolShowsOwnAdds, Reading
<1>. QED BY <1>1, <1>2, <1>3, PTL DEF PortalsSpec

-----------------------------------------------------------------------------
(* The import of spreadsheets.                                             *)

\* The upload of pick was reported over, or that of a file of the same name.
Vouched(pick) ==
  Uploaded(pick) => pick \in reported \/ \E q \in Picks \ {pick} : name[q] = name[pick]

ImportShaped ==
  /\ invocation \in 0..MaxPicks
  /\ importQueue \in Seq(1..invocation)
  /\ by \in [Picks -> Choosers \cup {"gone"}] /\ name \in [Picks -> Names \cup {NoName}]
  /\ open \subseteq 1..invocation /\ sent \subseteq 1..invocation
  /\ chosen \in [Choosers -> 0..invocation]
  /\ dialog \in {"closed", "open", "old"}
  /\ imported \in [Picks -> 0..1]
  /\ importActive \in BOOLEAN /\ (importActive <=> importQueue # <<>>)

Unclaimed(pick) == imported[pick] = 0 /\ \A c \in Choosers : chosen[c] # pick

\* A pick that may wait in the queue.
Queueable == {p \in Picks : Unclaimed(p) /\ p \notin open}

\* What a chooser holds.
Held(c) ==
  chosen[c] # NoPick =>
    /\ imported[chosen[c]] = 0 /\ Vouched(chosen[c])
    /\ by[chosen[c]] = c \/ chosen[c] < invocation
    /\ \A d \in Choosers : chosen[d] = chosen[c] => d = c

\* A pick is open, or in the queue, or held by a chooser, or done with.
ImportOnce ==
  /\ \A p \in Picks : p > invocation => imported[p] = 0 /\ name[p] = NoName
  /\ \A p \in open : Unclaimed(p) /\ name[p] = NoName
  /\ \A i \in 1..Len(importQueue) : importQueue[i] \in Queueable
  /\ \A i, j \in 1..Len(importQueue) : importQueue[i] = importQueue[j] => i = j
  /\ \A c \in Choosers : Held(c)
  /\ \A p \in Picks : imported[p] = 1 => Vouched(p)

ImportInv == ImportShaped /\ ImportOnce

LEMMA ImportBegins ==
  ASSUME ImportAssumption, NEW before \in 0..MaxPicks, ImportInit(before)
  PROVE  ImportInv
<1>1. <<>> \in Seq(1..before) /\ Len(<<>>) = 0
  BY EmptySeq
<1>2. ImportShaped
  <2>1. chosen \in [Choosers -> 0..invocation] /\ imported \in [Picks -> 0..1]
    BY DEF ImportInit, ImportAssumption, NoPick
  <2>2. importQueue \in Seq(1..invocation) /\ (importActive <=> importQueue # <<>>)
    BY <1>1 DEF ImportInit
  <2>. QED BY <2>1, <2>2 DEF ImportInit, ImportShaped
<1>3. ImportOnce
  BY <1>1 DEF ImportInit, ImportOnce, Held
<1>. QED BY <1>2, <1>3 DEF ImportInv

\* What is taken off the queue leaves the others as they were.
LEMMA ProcessKeeps ==
  ASSUME NEW n \in Nat, NEW queue \in Seq(1..n), Process(queue), sent \subseteq 1..n,
         NEW Allowed, \A i \in 1..Len(queue) : queue[i] \in Allowed,
         \A i, j \in 1..Len(queue) : queue[i] = queue[j] => i = j
  PROVE  /\ importQueue' \in Seq(1..n) /\ sent' \subseteq 1..n
         /\ importActive' \in BOOLEAN /\ (importActive' <=> importQueue' # <<>>)
         /\ \A i \in 1..Len(importQueue') : importQueue'[i] \in Allowed
         /\ \A i, j \in 1..Len(importQueue') : importQueue'[i] = importQueue'[j] => i = j
<1>1. PICK lost \in 0..Len(queue) :
        /\ importQueue' = SubSeq(queue, lost + 1, Len(queue))
        /\ importActive' = (importQueue' # <<>>)
        /\ sent' = IF importQueue' = <<>> THEN sent ELSE sent \cup {Head(importQueue')}
  BY DEF Process
<1>2. /\ Len(queue) \in Nat /\ lost \in Nat /\ lost + 1 \in Int
      /\ \A i \in 1..Len(queue) : queue[i] \in 1..n
  BY LenProperties, ElementOfSeq
<1>3. /\ importQueue' \in Seq(1..n)
      /\ Len(importQueue') = Len(queue) - lost
      /\ \A i \in 1..(Len(queue) - lost) : importQueue'[i] = queue[lost + i]
  <2>1. \A i \in (lost + 1)..Len(queue) : queue[i] \in 1..n
    BY <1>2
  <2>2. PICK m \in Int : m = lost + 1
    BY <1>2
  <2>3. PICK l \in Int : l = Len(queue)
    BY <1>2
  <2>4. /\ SubSeq(queue, m, l) \in Seq(1..n)
        /\ Len(SubSeq(queue, m, l)) = IF m <= l THEN l - m + 1 ELSE 0
        /\ \A i \in 1..(l - m + 1) : SubSeq(queue, m, l)[i] = queue[m + i - 1]
    BY <2>1, <2>2, <2>3, SubSeqProperties
  <2>5. importQueue' = SubSeq(queue, m, l)
    BY <1>1, <2>2, <2>3
  <2>6. Len(importQueue') = Len(queue) - lost
    BY <1>2, <2>2, <2>3, <2>4, <2>5
  <2>7. ASSUME NEW i \in 1..(Len(queue) - lost)
        PROVE  importQueue'[i] = queue[lost + i]
    <3>1. i \in 1..(l - m + 1) /\ m + i - 1 = lost + i
      BY <1>2, <2>2, <2>3
    <3>. QED BY <2>4, <2>5, <3>1
  <2>. QED BY <2>4, <2>5, <2>6, <2>7
<1>4. \A i \in 1..Len(importQueue') : lost + i \in 1..Len(queue) /\ importQueue'[i] = queue[lost + i]
  BY <1>2, <1>3
<1>5. importQueue' # <<>> => Head(importQueue') \in 1..n
  BY <1>3, HeadTailProperties
<1>6. ASSUME NEW i \in 1..Len(importQueue'), NEW j \in 1..Len(importQueue'),
             importQueue'[i] = importQueue'[j]
      PROVE  i = j
  <2>1. /\ lost + i \in 1..Len(queue) /\ lost + j \in 1..Len(queue)
        /\ queue[lost + i] = queue[lost + j]
    BY <1>4, <1>6
  <2>2. lost + i = lost + j
    BY <2>1
  <2>. QED BY <1>2, <1>3, <2>2
<1>. QED BY <1>1, <1>3, <1>4, <1>5, <1>6

\* A pick that was vouched for stays so, since a name is given only once.
LEMMA VouchedStays ==
  ASSUME NEW pick \in Picks, Vouched(pick), reported \subseteq reported',
         \A q \in Picks : name'[q] = name[q] \/ name[q] = NoName,
         Uploaded(pick) \/ name'[pick] = name[pick]
  PROVE  Vouched(pick)'
<1>1. CASE ~Uploaded(pick)
  BY <1>1 DEF Vouched, Uploaded
<1>2. CASE Uploaded(pick)
  <2>1. name'[pick] = name[pick] /\ name[pick] # NoName
    BY <1>2 DEF Uploaded
  <2>2. CASE pick \in reported
    BY <2>2 DEF Vouched
  <2>3. CASE \E q \in Picks \ {pick} : name[q] = name[pick]
    <3>1. PICK q \in Picks \ {pick} : name[q] = name[pick]
      BY <2>3
    <3>2. name'[q] = name'[pick]
      BY <2>1, <3>1
    <3>. QED BY <3>1, <3>2 DEF Vouched
  <2>. QED BY <1>2, <2>2, <2>3 DEF Vouched
<1>. QED BY <1>1, <1>2

LEMMA PicksMade ==
  ASSUME ImportAssumption, ImportInv
  PROVE  /\ invocation \in Nat /\ 1..invocation \subseteq Picks
         /\ open \subseteq Picks /\ sent \subseteq Picks
         /\ \A c \in Choosers : chosen[c] # NoPick => chosen[c] \in 1..invocation
BY DEF ImportAssumption, ImportInv, ImportShaped, Picks, NoPick

\* _finish gives the chooser of the latest pick the file, which nobody has.
LEMMA FinishKeeps ==
  ASSUME ImportAssumption, ImportInv, NEW file, NEW pending, Finish(invocation, file, pending),
         invocation \in Picks,
         file = NoPick \/ (file \in 1..invocation /\ Unclaimed(file)),
         file # NoPick => Vouched(file)',
         reported \subseteq reported',
         UNCHANGED <<invocation, by, name, imported>>
  PROVE  /\ chosen' \in [Choosers -> 0..invocation]
         /\ \A c \in Choosers : Held(c)'
         /\ \A p \in Picks : Unclaimed(p) /\ p # file => Unclaimed(p)'
         /\ \A p \in Picks : imported'[p] = 1 => Vouched(p)'
<1>1. /\ chosen \in [Choosers -> 0..invocation] /\ invocation \in 1..MaxPicks /\ MaxPicks \in Nat
      /\ file \in 0..invocation /\ NoPick = 0
  BY DEF ImportInv, ImportShaped, ImportAssumption, NoPick, Picks
<1>2. PICK keeper : keeper = by[invocation]
  OBVIOUS
<1>3. keeper \in Choosers \cup {"gone"} /\ "gone" \notin Choosers
  BY <1>2 DEF ImportInv, ImportShaped, Choosers
<1>4. /\ keeper = "gone" => chosen' = chosen
      /\ keeper # "gone" => chosen' = [chosen EXCEPT ![keeper] = file]
  BY <1>2 DEF Finish
<1>5. \A p \in Picks : Vouched(p) => Vouched(p)'
  BY VouchedStays
<1>6. chosen' \in [Choosers -> 0..invocation]
  BY <1>1, <1>3, <1>4
<1>7. \A c \in Choosers : chosen'[c] = chosen[c] \/ (c = keeper /\ chosen'[c] = file)
  BY <1>1, <1>3, <1>4
<1>8. ASSUME NEW p \in Picks, Unclaimed(p), p # file
      PROVE  Unclaimed(p)'
  BY <1>7, <1>8 DEF Unclaimed
<1>9. ASSUME NEW c \in Choosers, chosen'[c] # NoPick
      PROVE  /\ imported'[chosen'[c]] = 0 /\ Vouched(chosen[c])'
             /\ by'[chosen'[c]] = c \/ chosen'[c] < invocation'
             /\ \A d \in Choosers : chosen'[d] = chosen'[c] => d = c
  <2>1. CASE chosen'[c] = chosen[c] /\ chosen[c] # file
    <3>1. Held(c) /\ chosen[c] \in Picks
      BY <1>1, <1>9, <2>1 DEF ImportInv, ImportOnce, Picks
    <3>2. Vouched(chosen[c]) /\ imported[chosen[c]] = 0
      BY <1>9, <2>1, <3>1 DEF Held
    <3>3. PICK p \in Picks : p = chosen[c]
      BY <3>1
    <3>4. Vouched(p)'
      BY <1>5, <3>2, <3>3
    <3>5. Vouched(chosen[c])'
      BY <2>1, <3>3, <3>4
    <3>6. \A d \in Choosers : chosen'[d] = chosen'[c] => d = c
      BY <1>7, <1>9, <2>1, <3>1 DEF Held
    <3>. QED BY <1>9, <2>1, <3>1, <3>2, <3>5, <3>6 DEF Held
  <2>2. CASE chosen'[c] = file /\ file # NoPick
    <3>1. Unclaimed(file) /\ file \in 1..invocation
      BY <2>2
    <3>2. c = keeper
      BY <1>7, <2>2, <3>1 DEF Unclaimed
    <3>3. \A d \in Choosers : chosen'[d] = chosen'[c] => d = c
      BY <1>7, <2>2, <3>1, <3>2 DEF Unclaimed
    <3>4. by'[file] = c \/ file < invocation'
      BY <1>1, <1>2, <3>1, <3>2
    <3>5. Vouched(chosen[c])'
      BY <2>2
    <3>. QED BY <2>2, <3>1, <3>3, <3>4, <3>5 DEF Unclaimed
  <2>. QED BY <1>7, <1>9, <2>1, <2>2
<1>10. \A c \in Choosers : Held(c)'
  BY <1>9 DEF Held
<1>11. \A p \in Picks : imported'[p] = 1 => Vouched(p)'
  BY <1>5 DEF ImportInv, ImportOnce
<1>. QED BY <1>6, <1>8, <1>10, <1>11

\* A chooser is made anew: it holds nothing, and earlier picks do not reach it.
LEMMA RenewedKeeps ==
  ASSUME ImportAssumption, ImportInv, NEW chooser \in Choosers, Renewed(chooser),
         dialog' \in {"closed", "open", "old"},
         UNCHANGED <<importPending, invocation, importQueue, importActive, name, open, sent,
                     reported, imported>>
  PROVE  ImportInv'
<1>. USE DEF ImportInv
<1>1. /\ by' \in [Picks -> Choosers \cup {"gone"}]
      /\ \A p \in Picks : by'[p] = IF by[p] = chooser THEN "gone" ELSE by[p]
  BY DEF Renewed, ImportShaped
<1>2. /\ chosen' \in [Choosers -> 0..invocation]
      /\ \A c \in Choosers : chosen'[c] = IF c = chooser THEN NoPick ELSE chosen[c]
  BY DEF Renewed, ImportShaped, NoPick
<1>3. ImportShaped'
  BY <1>1, <1>2 DEF ImportShaped
<1>4. /\ \A p \in Picks : Unclaimed(p) /\ p # NoPick => Unclaimed(p)'
      /\ \A p \in Picks : p # NoPick
      /\ \A p \in Picks : Vouched(p) => Vouched(p)'
  BY <1>2 DEF Unclaimed, Vouched, Uploaded, Picks, NoPick
<1>5. ASSUME NEW c \in Choosers, chosen'[c] # NoPick
      PROVE  Held(c)'
  <2>1. chosen'[c] = chosen[c] /\ c # chooser /\ Held(c)
    BY <1>2, <1>5 DEF ImportOnce
  <2>2. chosen[c] \in Picks
    BY <1>5, <2>1, PicksMade
  <2>3. PICK p \in Picks : p = chosen[c]
    BY <2>2
  <2>4. Vouched(p)' /\ imported'[p] = 0 /\ (by'[p] = c \/ p < invocation')
    BY <1>1, <1>4, <1>5, <2>1, <2>3 DEF Held
  <2>5. \A d \in Choosers : chosen'[d] = chosen'[c] => d = c
    BY <1>2, <1>5, <2>1 DEF Held
  <2>6. Vouched(chosen[c])'
    BY <2>1, <2>3, <2>4
  <2>. QED BY <2>1, <2>3, <2>4, <2>5, <2>6 DEF Held
<1>6. \A c \in Choosers : Held(c)'
  BY <1>5 DEF Held
<1>7. \A p \in open' : Unclaimed(p)' /\ name'[p] = NoName
  BY <1>4, PicksMade DEF ImportOnce
<1>8. \A i \in 1..Len(importQueue') : importQueue'[i] \in Queueable'
  BY <1>4 DEF ImportOnce, Queueable
<1>9. \A p \in Picks : imported'[p] = 1 => Vouched(p)'
  BY <1>4 DEF ImportOnce
<1>10. ImportOnce'
  BY <1>6, <1>7, <1>8, <1>9 DEF ImportOnce
<1>. QED BY <1>3, <1>10

LEMMA ChooseKeeps ==
  ASSUME ImportAssumption, ImportInv, NEW chooser \in Choosers, Choose(chooser)
  PROVE  ImportInv'
<1>. USE DEF ImportInv
<1>1. /\ invocation \in 0..MaxPicks /\ MaxPicks \in Nat /\ invocation < MaxPicks
      /\ invocation' = invocation + 1 /\ by' = [by EXCEPT ![invocation'] = chooser]
      /\ open' = open \cup {invocation'}
      /\ UNCHANGED <<importQueue, importActive, name, sent, chosen, dialog, reported, imported>>
  BY DEF Choose, ImportShaped, ImportAssumption
<1>2. /\ invocation' \in Picks /\ invocation' \in 1..MaxPicks /\ invocation \in Nat
      /\ \A p \in 1..invocation : p \in Picks /\ p < invocation'
  BY <1>1 DEF Picks
<1>3. importQueue' \in Seq(1..invocation')
  <2>1. 1..invocation \subseteq 1..invocation'
    BY <1>1, <1>2
  <2>. QED BY <1>1, <2>1, SeqMonotonic DEF ImportShaped
<1>4. ImportShaped'
  <2>1. open' \subseteq 1..invocation' /\ sent' \subseteq 1..invocation'
    BY <1>1, <1>2 DEF ImportShaped
  <2>2. chosen' \in [Choosers -> 0..invocation']
    BY <1>1, <1>2 DEF ImportShaped
  <2>3. by' \in [Picks -> Choosers \cup {"gone"}]
    BY <1>1, <1>2 DEF ImportShaped
  <2>4. invocation' \in 0..MaxPicks
    BY <1>2
  <2>. QED BY <1>1, <1>3, <2>1, <2>2, <2>3, <2>4 DEF ImportShaped
<1>5. /\ \A p \in Picks : Unclaimed(p) => Unclaimed(p)'
      /\ \A p \in Picks : Vouched(p) => Vouched(p)'
  BY <1>1 DEF Unclaimed, Vouched, Uploaded
<1>6. Unclaimed(invocation') /\ name[invocation'] = NoName
  <2>1. imported[invocation'] = 0
    BY <1>1, <1>2 DEF ImportOnce
  <2>2. \A c \in Choosers : chosen[c] # invocation'
    BY <1>1, <1>2 DEF ImportShaped
  <2>3. name[invocation'] = NoName
    BY <1>1, <1>2 DEF ImportOnce
  <2>. QED BY <2>1, <2>2, <2>3 DEF Unclaimed
<1>7. \A p \in open' : Unclaimed(p)' /\ name'[p] = NoName
  <2>1. \A p \in open : Unclaimed(p) /\ name[p] = NoName /\ p \in Picks
    BY <1>2 DEF ImportOnce, ImportShaped
  <2>2. Unclaimed(invocation') => Unclaimed(invocation)'
    BY <1>1 DEF Unclaimed
  <2>. QED BY <1>1, <1>5, <1>6, <2>1, <2>2
<1>8. \A i \in 1..Len(importQueue') : importQueue'[i] \in Queueable'
  <2>1. ASSUME NEW i \in 1..Len(importQueue')
        PROVE  importQueue'[i] \in Queueable'
    <3>1. /\ importQueue'[i] \in Picks /\ Unclaimed(importQueue[i])
          /\ importQueue[i] \notin open
      BY <1>1, <2>1 DEF ImportOnce, Queueable
    <3>2. importQueue[i] \in 1..invocation
      BY <1>1, <2>1, ElementOfSeq DEF ImportShaped
    <3>. QED BY <1>1, <1>2, <1>5, <3>1, <3>2 DEF Queueable
  <2>. QED BY <2>1
<1>9. ASSUME NEW c \in Choosers, chosen'[c] # NoPick
      PROVE  Held(c)'
  <2>1. Held(c) /\ chosen'[c] = chosen[c] /\ chosen[c] \in 1..invocation
    BY <1>1, <1>9 DEF ImportOnce, ImportShaped, NoPick
  <2>2. chosen[c] < invocation' /\ chosen[c] \in Picks
    BY <1>2, <2>1
  <2>3. PICK p \in Picks : p = chosen[c]
    BY <2>2
  <2>4. Vouched(p)'
    BY <1>5, <1>9, <2>1, <2>3 DEF Held
  <2>5. Vouched(chosen[c])'
    BY <2>1, <2>3, <2>4
  <2>. QED BY <1>1, <1>9, <2>1, <2>2, <2>5 DEF Held
<1>10. \A c \in Choosers : Held(c)'
  BY <1>9 DEF Held
<1>11. \A p \in Picks : p > invocation' => imported'[p] = 0 /\ name'[p] = NoName
  BY <1>1, <1>2 DEF ImportOnce, Picks
<1>12. ImportOnce'
  BY <1>1, <1>5, <1>7, <1>8, <1>10, <1>11 DEF ImportOnce
<1>. QED BY <1>4, <1>12

LEMMA PickedNothingKeeps ==
  ASSUME ImportAssumption, ImportInv, NEW pick \in Picks, PickedNothing(pick)
  PROVE  ImportInv'
<1>. USE DEF ImportInv
<1>1. /\ pick \in open /\ open' = open \ {pick}
      /\ UNCHANGED <<invocation, importQueue, importActive, by, name, sent, dialog, reported,
                     imported>>
      /\ \/ pick # invocation /\ chosen' = chosen
         \/ pick = invocation /\ Finish(invocation, NoPick, FALSE)
  BY DEF PickedNothing
<1>2. /\ chosen' \in [Choosers -> 0..invocation]
      /\ \A c \in Choosers : Held(c)'
      /\ \A p \in Picks : Unclaimed(p) => Unclaimed(p)'
      /\ \A p \in Picks : imported'[p] = 1 => Vouched(p)'
  <2>1. CASE chosen' = chosen
    BY <1>1, <2>1 DEF ImportShaped, ImportOnce, Held, Vouched, Uploaded, Unclaimed
  <2>2. CASE pick = invocation /\ Finish(invocation, NoPick, FALSE)
    <3>1. \A p \in Picks : p # NoPick
      BY DEF Picks, NoPick
    <3>. QED BY <1>1, <2>2, <3>1, FinishKeeps
  <2>. QED BY <1>1, <2>1, <2>2
<1>3. ImportShaped'
  BY <1>1, <1>2 DEF ImportShaped
<1>4. \A i \in 1..Len(importQueue') : importQueue'[i] \in Queueable'
  BY <1>1, <1>2 DEF ImportOnce, Queueable
<1>5. \A p \in open' : Unclaimed(p)' /\ name'[p] = NoName
  BY <1>1, <1>2, PicksMade DEF ImportOnce
<1>6. ImportOnce'
  BY <1>1, <1>2, <1>4, <1>5 DEF ImportOnce
<1>. QED BY <1>3, <1>6

LEMMA PickedLocalKeeps ==
  ASSUME ImportAssumption, ImportInv, NEW pick \in Picks, PickedLocal(pick)
  PROVE  ImportInv'
<1>. USE DEF ImportInv
<1>1. /\ pick \in open /\ open' = open \ {pick} /\ pick = invocation
      /\ UNCHANGED <<invocation, importQueue, importActive, by, name, sent, dialog, reported,
                     imported>>
      /\ Finish(invocation, pick, FALSE)
  BY DEF PickedLocal
<1>2. pick \in 1..invocation /\ Unclaimed(pick) /\ name[pick] = NoName
  BY <1>1 DEF ImportOnce, ImportShaped
<1>3. Vouched(pick)'
  BY <1>1, <1>2 DEF Vouched, Uploaded
<1>4. /\ chosen' \in [Choosers -> 0..invocation]
      /\ \A c \in Choosers : Held(c)'
      /\ \A p \in Picks : Unclaimed(p) /\ p # pick => Unclaimed(p)'
      /\ \A p \in Picks : imported'[p] = 1 => Vouched(p)'
  BY <1>1, <1>2, <1>3, FinishKeeps
<1>5. ImportShaped'
  BY <1>1, <1>4 DEF ImportShaped
<1>6. \A i \in 1..Len(importQueue') : importQueue'[i] \in Queueable'
  BY <1>1, <1>4 DEF ImportOnce, Queueable
<1>7. \A p \in open' : Unclaimed(p)' /\ name'[p] = NoName
  BY <1>1, <1>4, PicksMade DEF ImportOnce
<1>8. ImportOnce'
  BY <1>1, <1>4, <1>6, <1>7 DEF ImportOnce
<1>. QED BY <1>5, <1>8

LEMMA PickedWebKeeps ==
  ASSUME ImportAssumption, ImportInv, NEW pick \in Picks, NEW file \in Names,
         PickedWeb(pick, file)
  PROVE  ImportInv'
<1>. USE DEF ImportInv
<1>1. /\ pick \in open /\ open' = open \ {pick} /\ pick = invocation
      /\ name' = [name EXCEPT ![pick] = file]
      /\ UNCHANGED <<invocation, by, chosen, dialog, reported, imported>>
  BY DEF PickedWeb
<1>2. PICK queue : queue = Append(importQueue, pick)
  OBVIOUS
<1>3. \/ importQueue' = queue /\ importActive /\ UNCHANGED <<importActive, sent>>
      \/ Process(queue)
  BY <1>2 DEF PickedWeb
<1>4. /\ pick \in 1..invocation /\ invocation \in Nat /\ importQueue \in Seq(1..invocation)
      /\ Unclaimed(pick) /\ name[pick] = NoName /\ sent \subseteq 1..invocation
  BY <1>1, PicksMade DEF ImportOnce, ImportShaped
<1>5. /\ queue \in Seq(1..invocation) /\ Len(queue) = Len(importQueue) + 1
      /\ \A i \in 1..Len(importQueue) : queue[i] = importQueue[i]
      /\ queue[Len(importQueue) + 1] = pick /\ Len(importQueue) \in Nat
      /\ queue # <<>>
  <2>1. Len(importQueue) \in Nat
    BY <1>4, LenProperties
  <2>2. /\ queue \in Seq(1..invocation) /\ Len(queue) = Len(importQueue) + 1
        /\ \A i \in 1..Len(importQueue) : queue[i] = importQueue[i]
        /\ queue[Len(importQueue) + 1] = pick
    BY <1>2, <1>4, AppendProperties
  <2>3. queue # <<>>
    BY <1>4, <1>2, AppendProperties
  <2>. QED BY <2>1, <2>2, <2>3
<1>6. PICK allowed : allowed = {p \in Picks : Unclaimed(p) /\ p \notin open'}
  OBVIOUS
<1>7. \A i \in 1..Len(importQueue) : queue[i] \in allowed /\ queue[i] # pick
  BY <1>1, <1>4, <1>5, <1>6 DEF ImportOnce, Queueable
<1>8. \A i \in 1..Len(queue) : queue[i] \in allowed
  BY <1>1, <1>4, <1>5, <1>6, <1>7
<1>9. ASSUME NEW i \in 1..Len(queue), NEW j \in 1..Len(queue), queue[i] = queue[j]
      PROVE  i = j
  <2>1. CASE i \in 1..Len(importQueue) /\ j \in 1..Len(importQueue)
    BY <1>5, <1>9, <2>1 DEF ImportOnce
  <2>2. CASE i = Len(importQueue) + 1
    BY <1>5, <1>7, <1>9, <2>2
  <2>3. CASE j = Len(importQueue) + 1
    BY <1>5, <1>7, <1>9, <2>3
  <2>. QED BY <1>5, <2>1, <2>2, <2>3
<1>10. /\ importQueue' \in Seq(1..invocation) /\ sent' \subseteq 1..invocation
       /\ importActive' \in BOOLEAN /\ (importActive' <=> importQueue' # <<>>)
       /\ \A i \in 1..Len(importQueue') : importQueue'[i] \in allowed
       /\ \A i, j \in 1..Len(importQueue') : importQueue'[i] = importQueue'[j] => i = j
  <2>1. CASE importQueue' = queue /\ importActive /\ UNCHANGED <<importActive, sent>>
    BY <1>4, <1>5, <1>8, <1>9, <2>1 DEF ImportShaped
  <2>2. CASE Process(queue)
    BY <1>4, <1>5, <1>8, <1>9, <2>2, ProcessKeeps
  <2>. QED BY <1>3, <2>1, <2>2
<1>11. /\ \A p \in Picks : Unclaimed(p) => Unclaimed(p)'
       /\ \A p \in Picks : name'[p] = IF p = pick THEN file ELSE name[p]
  BY <1>1 DEF Unclaimed, ImportShaped
<1>12. ASSUME NEW p \in Picks, Vouched(p), p # pick
       PROVE  Vouched(p)'
  BY <1>1, <1>4, <1>11, <1>12, VouchedStays
<1>13. ASSUME NEW c \in Choosers, chosen'[c] # NoPick
       PROVE  Held(c)'
  <2>1. Held(c) /\ chosen'[c] = chosen[c] /\ chosen[c] # pick /\ chosen[c] \in Picks
    BY <1>1, <1>4, <1>13, PicksMade DEF ImportOnce, Unclaimed
  <2>2. PICK p \in Picks : p = chosen[c]
    BY <2>1
  <2>3. Vouched(p)'
    BY <1>12, <1>13, <2>1, <2>2 DEF Held
  <2>4. Vouched(chosen[c])'
    BY <2>1, <2>2, <2>3
  <2>. QED BY <1>1, <1>13, <2>1, <2>4 DEF Held
<1>14. \A c \in Choosers : Held(c)'
  BY <1>13 DEF Held
<1>15. \A i \in 1..Len(importQueue') : importQueue'[i] \in Queueable'
  BY <1>6, <1>10, <1>11 DEF Queueable
<1>16. \A p \in open' : Unclaimed(p)' /\ name'[p] = NoName
  BY <1>1, <1>11, PicksMade DEF ImportOnce
<1>17. \A p \in Picks : p > invocation' => imported'[p] = 0 /\ name'[p] = NoName
  BY <1>1, <1>4, <1>11 DEF ImportOnce
<1>18. \A p \in Picks : imported'[p] = 1 => Vouched(p)'
  BY <1>1, <1>4, <1>12 DEF ImportOnce, Unclaimed
<1>19. ImportShaped'
  BY <1>1, <1>10 DEF ImportShaped
<1>20. ImportOnce'
  BY <1>10, <1>14, <1>15, <1>16, <1>17, <1>18 DEF ImportOnce
<1>. QED BY <1>19, <1>20

LEMMA UploadEventKeeps ==
  ASSUME ImportAssumption, ImportInv, NEW pick \in Picks, NEW over \in BOOLEAN,
         UploadEvent(pick, over)
  PROVE  ImportInv'
<1>. USE DEF ImportInv
<1>1. /\ pick \in sent /\ reported' = IF over THEN reported \cup {pick} ELSE reported
      /\ UNCHANGED <<invocation, by, name, open, dialog, imported>>
      /\ invocation \in Picks /\ invocation \in Nat
  <2>1. pick \in 1..invocation /\ invocation \in 0..MaxPicks
    BY DEF UploadEvent, ImportShaped
  <2>. QED BY <2>1 DEF UploadEvent, Picks, ImportAssumption
<1>2. CASE ~Matches(pick)
  <2>1. UNCHANGED <<importPending, chosen, importQueue, importActive, sent>>
    BY <1>2 DEF UploadEvent
  <2>2. ImportShaped'
    BY <1>1, <2>1 DEF ImportShaped
  <2>3. \A p \in Picks : /\ Vouched(p) => Vouched(p)'
                         /\ Unclaimed(p) => Unclaimed(p)'
    BY <1>1, <2>1 DEF Vouched, Uploaded, Unclaimed
  <2>4. ASSUME NEW c \in Choosers, chosen'[c] # NoPick
        PROVE  Held(c)'
    <3>1. Held(c) /\ chosen'[c] = chosen[c] /\ chosen[c] \in Picks
      BY <2>1, <2>4, PicksMade DEF ImportOnce
    <3>2. PICK p \in Picks : p = chosen[c]
      BY <3>1
    <3>3. Vouched(p)'
      BY <2>3, <2>4, <3>1, <3>2 DEF Held
    <3>4. Vouched(chosen[c])'
      BY <3>1, <3>2, <3>3
    <3>. QED BY <1>1, <2>1, <2>4, <3>1, <3>4 DEF Held
  <2>5. \A c \in Choosers : Held(c)'
    BY <2>4 DEF Held
  <2>6. \A i \in 1..Len(importQueue') : importQueue'[i] \in Queueable'
    BY <1>1, <2>1, <2>3 DEF ImportOnce, Queueable
  <2>7. \A p \in open' : Unclaimed(p)' /\ name'[p] = NoName
    BY <1>1, <2>3, PicksMade DEF ImportOnce
  <2>8. ImportOnce'
    BY <1>1, <2>1, <2>3, <2>5, <2>6, <2>7 DEF ImportOnce
  <2>. QED BY <2>2, <2>8
<1>3. CASE Matches(pick)
  <2>1. PICK head, queue : head = Head(importQueue) /\ queue = Tail(importQueue)
    OBVIOUS
  <2>2. /\ Finish(invocation, IF over THEN head ELSE NoPick, importPending) /\ Process(queue)
        /\ importQueue # <<>> /\ name[head] = name[pick]
    BY <1>3, <2>1 DEF UploadEvent, Matches
  <2>3. /\ importQueue \in Seq(1..invocation) /\ Len(importQueue) \in Nat \ {0}
        /\ head \in 1..invocation /\ queue \in Seq(1..invocation)
        /\ Len(queue) = Len(importQueue) - 1 /\ head = importQueue[1]
        /\ \A i \in 1..Len(queue) : queue[i] = importQueue[i + 1]
    <3>1. importQueue \in Seq(1..invocation)
      BY DEF ImportShaped
    <3>2. Len(importQueue) \in Nat \ {0}
      BY <2>2, <3>1, EmptySeq
    <3>3. head = importQueue[1]
      BY <2>1
    <3>4. /\ head \in 1..invocation /\ queue \in Seq(1..invocation)
          /\ Len(queue) = Len(importQueue) - 1
          /\ \A i \in 1..Len(queue) : queue[i] = importQueue[i + 1]
      BY <2>1, <2>2, <3>1, HeadTailProperties
    <3>. QED BY <3>1, <3>2, <3>3, <3>4
  <2>4. /\ head \in Picks /\ Unclaimed(head) /\ head \notin open
        /\ \A i \in 1..Len(queue) : i + 1 \in 1..Len(importQueue) /\ queue[i] \in Queueable
                                    /\ queue[i] # head
    BY <2>3 DEF ImportOnce, Queueable
  <2>5. \A i, j \in 1..Len(queue) : queue[i] = queue[j] => i = j
    <3>1. ASSUME NEW i \in 1..Len(queue), NEW j \in 1..Len(queue), queue[i] = queue[j]
          PROVE  i = j
      <4>1. i + 1 = j + 1
        BY <2>3, <2>4, <3>1 DEF ImportOnce
      <4>. QED BY <2>3, <4>1
    <3>. QED BY <3>1
  <2>6. PICK file : file = IF over THEN head ELSE NoPick
    OBVIOUS
  <2>7. file # NoPick => Vouched(file)'
    <3>1. CASE over
      <4>1. pick \in reported' /\ file = head /\ name'[head] = name'[pick]
        BY <1>1, <2>2, <2>6, <3>1
      <4>2. file = pick => file \in reported'
        BY <4>1
      <4>3. file # pick => \E q \in Picks \ {file} : name'[q] = name'[file]
        BY <4>1
      <4>. QED BY <4>2, <4>3 DEF Vouched
    <3>. QED BY <2>6, <3>1
  <2>8. /\ chosen' \in [Choosers -> 0..invocation]
        /\ \A c \in Choosers : Held(c)'
        /\ \A p \in Picks : Unclaimed(p) /\ p # file => Unclaimed(p)'
        /\ \A p \in Picks : imported'[p] = 1 => Vouched(p)'
    <3>1. file = NoPick \/ (file \in 1..invocation /\ Unclaimed(file))
      BY <2>3, <2>4, <2>6
    <3>2. Finish(invocation, file, importPending)
      BY <2>2, <2>6
    <3>3. reported \subseteq reported'
      BY <1>1
    <3>. QED BY <1>1, <2>7, <3>1, <3>2, <3>3, FinishKeeps
  <2>9. \A p \in Picks : Unclaimed(p) /\ p # head => Unclaimed(p)'
    <3>1. \A p \in Picks : p # NoPick
      BY DEF Picks, NoPick
    <3>. QED BY <2>6, <2>8, <3>1
  <2>10. PICK allowed : allowed = {p \in Picks : Unclaimed(p) /\ p \notin open /\ p # head}
    OBVIOUS
  <2>11. \A i \in 1..Len(queue) : queue[i] \in allowed
    BY <2>4, <2>10 DEF Queueable
  <2>12. /\ importQueue' \in Seq(1..invocation) /\ sent' \subseteq 1..invocation
         /\ importActive' \in BOOLEAN /\ (importActive' <=> importQueue' # <<>>)
         /\ \A i \in 1..Len(importQueue') : importQueue'[i] \in allowed
         /\ \A i, j \in 1..Len(importQueue') : importQueue'[i] = importQueue'[j] => i = j
    <3>1. sent \subseteq 1..invocation
      BY DEF ImportShaped
    <3>. QED BY <1>1, <2>2, <2>3, <2>5, <2>11, <3>1, ProcessKeeps
  <2>13. ImportShaped'
    BY <1>1, <2>8, <2>12 DEF ImportShaped
  <2>14. \A i \in 1..Len(importQueue') : importQueue'[i] \in Queueable'
    BY <1>1, <2>9, <2>10, <2>12 DEF Queueable
  <2>15. \A p \in open' : Unclaimed(p)' /\ name'[p] = NoName
    BY <1>1, <2>4, <2>9, PicksMade DEF ImportOnce
  <2>16. ImportOnce'
    BY <1>1, <2>8, <2>12, <2>14, <2>15 DEF ImportOnce
  <2>. QED BY <2>13, <2>16
<1>. QED BY <1>2, <1>3

LEMMA ImportKeeps ==
  ASSUME ImportAssumption, ImportInv, NEW chooser \in Choosers, Import(chooser)
  PROVE  ImportInv'
<1>. USE DEF ImportInv
<1>1. PICK file : file = chosen[chooser]
  OBVIOUS
<1>2. /\ file # NoPick /\ imported' = [imported EXCEPT ![file] = @ + 1]
      /\ chosen' = [chosen EXCEPT ![chooser] = NoPick]
      /\ UNCHANGED <<importPending, invocation, importQueue, importActive, by, name, open, sent,
                     dialog, reported>>
  BY <1>1 DEF Import
<1>3. /\ file \in 1..invocation /\ file \in Picks /\ imported[file] = 0 /\ Vouched(file)
      /\ \A d \in Choosers : chosen[d] = file => d = chooser
      /\ invocation \in Nat /\ NoPick = 0
  BY <1>1, <1>2, PicksMade DEF ImportOnce, Held, NoPick
<1>4. /\ \A p \in Picks : imported'[p] = IF p = file THEN 1 ELSE imported[p]
      /\ \A c \in Choosers : chosen'[c] = IF c = chooser THEN NoPick ELSE chosen[c]
  BY <1>2, <1>3 DEF ImportShaped
<1>5. ImportShaped'
  <2>1. chosen' \in [Choosers -> 0..invocation']
    BY <1>2, <1>3 DEF ImportShaped
  <2>2. imported' \in [Picks -> 0..1]
    BY <1>2, <1>3 DEF ImportShaped
  <2>. QED BY <1>2, <2>1, <2>2 DEF ImportShaped
<1>6. \A p \in Picks : /\ Vouched(p) => Vouched(p)'
                       /\ Unclaimed(p) => Unclaimed(p)'
  <2>1. ASSUME NEW p \in Picks, Unclaimed(p)
        PROVE  Unclaimed(p)'
    <3>1. p # file /\ p # NoPick
      BY <1>1, <1>3, <2>1 DEF Unclaimed, Picks
    <3>. QED BY <1>4, <2>1, <3>1 DEF Unclaimed
  <2>2. \A p \in Picks : Vouched(p) => Vouched(p)'
    BY <1>2 DEF Vouched, Uploaded
  <2>. QED BY <2>1, <2>2
<1>7. ASSUME NEW c \in Choosers, chosen'[c] # NoPick
      PROVE  Held(c)'
  <2>1. /\ Held(c) /\ chosen'[c] = chosen[c] /\ chosen[c] \in Picks /\ c # chooser
        /\ chosen[c] # file
    BY <1>3, <1>4, <1>7, PicksMade DEF ImportOnce
  <2>2. PICK p \in Picks : p = chosen[c]
    BY <2>1
  <2>3. Vouched(p)' /\ imported'[p] = 0
    BY <1>4, <1>6, <1>7, <2>1, <2>2 DEF Held
  <2>4. Vouched(chosen[c])' /\ imported'[chosen'[c]] = 0
    BY <2>1, <2>2, <2>3
  <2>5. \A d \in Choosers : chosen'[d] = chosen'[c] => d = c
    BY <1>4, <1>7, <2>1 DEF Held
  <2>. QED BY <1>2, <1>7, <2>1, <2>4, <2>5 DEF Held
<1>8. \A c \in Choosers : Held(c)'
  BY <1>7 DEF Held
<1>9. \A i \in 1..Len(importQueue') : importQueue'[i] \in Queueable'
  BY <1>2, <1>6 DEF ImportOnce, Queueable
<1>10. \A p \in open' : Unclaimed(p)' /\ name'[p] = NoName
  BY <1>2, <1>6, PicksMade DEF ImportOnce
<1>11. \A p \in Picks : p > invocation' => imported'[p] = 0 /\ name'[p] = NoName
  BY <1>2, <1>3, <1>4 DEF ImportOnce
<1>12. \A p \in Picks : imported'[p] = 1 => Vouched(p)'
  BY <1>3, <1>4, <1>6 DEF ImportOnce
<1>13. ImportOnce'
  BY <1>2, <1>8, <1>9, <1>10, <1>11, <1>12 DEF ImportOnce
<1>. QED BY <1>5, <1>13

\* A file out of reach is claimed by nobody.
LEMMA ImportRaisesKeeps ==
  ASSUME ImportAssumption, ImportInv, NEW chooser \in Choosers, ImportRaises(chooser)
  PROVE  ImportInv'
<1>. USE DEF ImportInv
<1>1. /\ chosen' = [chosen EXCEPT ![chooser] = NoPick]
      /\ UNCHANGED <<importPending, invocation, importQueue, importActive, by, name, open, sent,
                     dialog, reported, imported>>
  BY DEF ImportRaises
<1>2. invocation \in Nat /\ NoPick = 0
  BY PicksMade DEF NoPick
<1>3. \A c \in Choosers : chosen'[c] = IF c = chooser THEN NoPick ELSE chosen[c]
  BY <1>1 DEF ImportShaped
<1>4. ImportShaped'
  <2>1. chosen' \in [Choosers -> 0..invocation']
    BY <1>1, <1>2 DEF ImportShaped
  <2>. QED BY <1>1, <2>1 DEF ImportShaped
<1>5. \A p \in Picks : /\ Vouched(p) => Vouched(p)'
                       /\ Unclaimed(p) => Unclaimed(p)'
  <2>1. ASSUME NEW p \in Picks, Unclaimed(p)
        PROVE  Unclaimed(p)'
    <3>1. p # NoPick
      BY <1>2 DEF Picks
    <3>. QED BY <1>1, <1>3, <2>1, <3>1 DEF Unclaimed
  <2>2. \A p \in Picks : Vouched(p) => Vouched(p)'
    BY <1>1 DEF Vouched, Uploaded
  <2>. QED BY <2>1, <2>2
<1>6. ASSUME NEW c \in Choosers, chosen'[c] # NoPick
      PROVE  Held(c)'
  <2>1. Held(c) /\ chosen'[c] = chosen[c] /\ chosen[c] \in Picks /\ c # chooser
    BY <1>3, <1>6, PicksMade DEF ImportOnce
  <2>2. PICK p \in Picks : p = chosen[c]
    BY <2>1
  <2>3. Vouched(p)' /\ imported'[p] = 0
    BY <1>1, <1>5, <1>6, <2>1, <2>2 DEF Held
  <2>4. Vouched(chosen[c])' /\ imported'[chosen'[c]] = 0
    BY <2>1, <2>2, <2>3
  <2>5. \A d \in Choosers : chosen'[d] = chosen'[c] => d = c
    BY <1>3, <1>6, <2>1 DEF Held
  <2>. QED BY <1>1, <1>6, <2>1, <2>4, <2>5 DEF Held
<1>7. \A c \in Choosers : Held(c)'
  BY <1>6 DEF Held
<1>8. \A i \in 1..Len(importQueue') : importQueue'[i] \in Queueable'
  BY <1>1, <1>5 DEF ImportOnce, Queueable
<1>9. \A p \in open' : Unclaimed(p)' /\ name'[p] = NoName
  BY <1>1, <1>5, PicksMade DEF ImportOnce
<1>10. \A p \in Picks : /\ p > invocation' => imported'[p] = 0 /\ name'[p] = NoName
                        /\ imported'[p] = 1 => Vouched(p)'
  BY <1>1, <1>5 DEF ImportOnce
<1>11. ImportOnce'
  BY <1>1, <1>7, <1>8, <1>9, <1>10 DEF ImportOnce
<1>. QED BY <1>4, <1>11

LEMMA ImportStep ==
  ASSUME ImportAssumption, ImportInv, [PortalsNext]_allVars
  PROVE  ImportInv'
<1>1. CASE UNCHANGED importVars
  <2>1. /\ UNCHANGED <<importPending, invocation, importQueue, importActive, by, name, open, sent>>
        /\ UNCHANGED <<chosen, dialog, reported, imported>>
    BY <1>1 DEF importVars
  <2>2. ImportShaped'
    BY <2>1 DEF ImportInv, ImportShaped
  <2>3. ImportOnce'
    BY <2>1 DEF ImportInv, ImportOnce, Held, Queueable, Unclaimed, Vouched, Uploaded
  <2>. QED BY <2>2, <2>3 DEF ImportInv
<1>2. "card" \in Choosers /\ "dialog" \in Choosers
  BY DEF Choosers
<1>3. CASE CardDrawn
  <2>1. dialog' \in {"closed", "open", "old"}
    BY <1>3 DEF CardDrawn, ImportInv, ImportShaped
  <2>. QED BY <1>2, <1>3, <2>1, RenewedKeeps DEF CardDrawn
<1>4. CASE OpenDialog \/ CloseDialog
  <2>1. dialog' \in {"closed", "open", "old"}
    BY <1>4 DEF OpenDialog, CloseDialog
  <2>. QED BY <1>2, <1>4, <2>1, RenewedKeeps DEF OpenDialog, CloseDialog
<1>5. CASE ImportClicks
  BY <1>4, <1>5, ChooseKeeps, ImportRaisesKeeps DEF ImportClicks
<1>6. CASE ImportBackground
  BY <1>6, PickedNothingKeeps, PickedLocalKeeps, PickedWebKeeps, UploadEventKeeps
     DEF ImportBackground
<1>. QED BY <1>1, <1>3, <1>5, <1>6, ImportKeeps, ImportActs

LEMMA ImportInitially ==
  ASSUME ImportAssumption, SharesAssumption, PortalsInit
  PROVE  ImportInv
<1>1. MaxPicks \in 0..MaxPicks
  BY DEF ImportAssumption
<1>2. \A share \in Shares : share.picks \in 0..MaxPicks
  BY DEF SharesAssumption
<1>. QED BY <1>1, <1>2, ImportBegins DEF PortalsInit, Built, AtPool

\* A chosen file is imported once, after its upload was reported; a chooser holds
\* what it asked for; the queue is worked on: for any names and number of picks.
THEOREM ImportsSoundTheorem == PortalsSpec => []ImportsSound
<1>1. PortalsInit => ImportInv
  BY ImportInitially, ImportAssumption, SharesAssumption
<1>2. ImportInv /\ [PortalsNext]_allVars => ImportInv'
  BY ImportStep, ImportAssumption
<1>3. ImportInv => ImportsSound
  <2>1. ImportInv => \A p \in Picks : imported[p] <= 1
    BY DEF ImportInv, ImportShaped
  <2>. QED BY <2>1 DEF ImportInv, ImportShaped, ImportOnce, ImportsSound, Held, Vouched
<1>. QED BY <1>1, <1>2, <1>3, PTL DEF PortalsSpec

-----------------------------------------------------------------------------
(* The portals and their handlers.                                         *)

TabNames == {"dashboard", "new", "complaints", "groups", "analytics", "feedback", "hostel",
             "account", "requests", "locations", "codes", "pool"}

LEMMA SubjectsAre ==
  /\ \A n \in TabNames : SubjectOf[n] \in Subjects
  /\ {"complaints", "nothing", "feedback", "hostel", "accounts", "requests", "locations"}
       \subseteq Subjects
<1>1. DOMAIN SubjectOf = TabNames
  BY DEF SubjectOf, TabNames
<1>2. \A n \in TabNames : SubjectOf[n] \in Subjects
  BY <1>1 DEF Subjects
<1>3. \A s \in {"complaints", "nothing", "feedback", "hostel", "accounts", "requests",
               "locations"} : \E n \in TabNames : SubjectOf[n] = s
  <2>1. /\ SubjectOf["complaints"] = "complaints" /\ SubjectOf["new"] = "nothing"
        /\ SubjectOf["feedback"] = "feedback" /\ SubjectOf["hostel"] = "hostel"
        /\ SubjectOf["account"] = "accounts" /\ SubjectOf["requests"] = "requests"
        /\ SubjectOf["locations"] = "locations"
    BY DEF SubjectOf
  <2>. QED BY <2>1 DEF TabNames
<1>. QED BY <1>2, <1>3

LEMMA PortalNames ==
  DOMAIN TabsOf = {"Student", "Coordinator", "HOD", "GeneralHOD", "LibraryIncharge",
                   "HostelIncharge", "Principal"}
BY DEF TabsOf

LEMMA TabNamed ==
  ASSUME NEW k \in DOMAIN TabsOf, NEW t \in Tabs
  PROVE  /\ TabsOf[k][t + 1] \in TabNames
         /\ TabsOf[k][t + 1] = "dashboard" <=> t = 0
         /\ k = "Student" => /\ TabsOf[k][t + 1] \in {"new", "complaints"} <=> t \in {1, 2}
                             /\ TabsOf[k][t + 1] = "new" <=> t = 1
                             /\ TabsOf[k][t + 1] = "feedback" => t = 3
         /\ k = "HostelIncharge" /\ TabsOf[k][t + 1] = "requests" => t = 1
<1>1. t \in {0, 1, 2, 3, 4, 5}
  BY DEF Tabs
<1>. QED BY <1>1, PortalNames DEF TabsOf, TabNames

LEMMA SubjectsOfTabs ==
  /\ \A n \in TabNames : SubjectOf[n] = "accounts" <=> n = "account"
  /\ \A n \in TabNames : SubjectOf[n] = "feedback" <=> n = "feedback"
  /\ \A n \in TabNames : SubjectOf[n] = "requests" <=> n = "requests"
BY DEF SubjectOf, TabNames

LEMMA FormNames ==
  Forms = {"SubmitComplaint", "DeleteComplaint", "DeleteInDetail",
           "SubmitFeedback", "EditFeedback", "RefreshFeedback",
           "RequestHostel", "RefreshList", "SaveProfile",
           "ChangePassword", "ResetCoordinator", "ToggleCoordinator",
           "ResetHod", "ToggleHod", "ResetHostelIncharge",
           "ToggleHostelIncharge", "ResetLibraryIncharge", "ResetGeneralHod",
           "ResetStudent", "ResetStudentOfPool", "ApplyStatus",
           "RefreshGroups", "ApproveRequest", "DenyRequest", "SaveHodCode",
           "SaveCoordinatorCode", "SaveGeneralCode", "SaveLibraryCode",
           "SaveHostelCode", "ResetCode", "AddLocation", "ToggleLocation"}
BY DEF Forms, Form

\* What the proofs need of a handler h of a form f.
Sane(f, h) ==
  /\ h.about \in Subjects /\ h.goes \in 0..7 /\ h.greys \in BOOLEAN
  /\ h.forgets => h.about # "nothing"
  /\ h.about = "complaints" => h.forgets
  /\ h.last => h.dialog /\ ~h.raises
  /\ "refused" \in h.restores
  /\ "accepted" \in h.restores \/ f \in {"SubmitComplaint", "AddLocation"}
  /\ h.greys /\ h.raises => "raised" \notin h.restores
  /\ f = "SubmitComplaint" => /\ h.drops = Tabs /\ h.on = {"new"} /\ ~h.dialog
                              /\ ~h.raises

LEMMA FormFacts ==
  ASSUME NEW f \in Forms
  PROVE  Sane(f, Form[f])
<1>1. Sane("SubmitComplaint", SubmitComplaint)
  BY SubjectsAre DEF Sane, Handler, Outcomes, Tabs, Stay, Selected, SubmitComplaint
<1>2. Sane("DeleteComplaint", DeleteComplaint)
  BY SubjectsAre DEF Sane, Handler, Outcomes, Tabs, Stay, Selected, DeleteComplaint
<1>3. Sane("DeleteInDetail", DeleteInDetail)
  BY SubjectsAre DEF Sane, Handler, Outcomes, Tabs, Stay, Selected, DeleteInDetail
<1>4. Sane("SubmitFeedback", SubmitFeedback)
  BY SubjectsAre DEF Sane, Handler, Outcomes, Tabs, Stay, Selected, SubmitFeedback
<1>5. Sane("EditFeedback", EditFeedback)
  BY SubjectsAre DEF Sane, Handler, Outcomes, Tabs, Stay, Selected,
                     EditFeedback, SubmitFeedback
<1>6. Sane("RequestHostel", RequestHostel)
  BY SubjectsAre DEF Sane, Handler, Outcomes, Tabs, Stay, Selected, RequestHostel
<1>7. Sane("SaveProfile", SaveProfile)
  BY SubjectsAre DEF Sane, Handler, Outcomes, Tabs, Stay, Selected, SaveProfile
<1>8. Sane("ChangePassword", ChangePassword)
  BY SubjectsAre DEF Sane, Handler, Outcomes, Tabs, Stay, Selected, ChangePassword
<1>9. Sane("ResetCoordinator", ResetCoordinator)
  BY SubjectsAre DEF Sane, Handler, Outcomes, Tabs, Stay, Selected, ResetCoordinator
<1>10. Sane("ToggleCoordinator", ToggleCoordinator)
  BY SubjectsAre DEF Sane, Handler, Outcomes, Tabs, Stay, Selected,
                     ToggleCoordinator, ResetCoordinator
<1>11. Sane("ResetHod", ResetHod)
  BY SubjectsAre DEF Sane, Handler, Outcomes, Tabs, Stay, Selected,
                     ResetHod, ResetCoordinator
<1>12. Sane("ToggleHod", ToggleHod)
  BY SubjectsAre DEF Sane, Handler, Outcomes, Tabs, Stay, Selected,
                     ToggleHod, ToggleCoordinator, ResetCoordinator
<1>13. Sane("ResetHostelIncharge", ResetHostelIncharge)
  BY SubjectsAre DEF Sane, Handler, Outcomes, Tabs, Stay, Selected,
                     ResetHostelIncharge, ResetCoordinator
<1>14. Sane("ToggleHostelIncharge", ToggleHostelIncharge)
  BY SubjectsAre DEF Sane, Handler, Outcomes, Tabs, Stay, Selected,
                     ToggleHostelIncharge, ToggleCoordinator, ResetCoordinator
<1>15. Sane("ResetLibraryIncharge", ResetLibraryIncharge)
  BY SubjectsAre DEF Sane, Handler, Outcomes, Tabs, Stay, Selected,
                     ResetLibraryIncharge, ResetCoordinator
<1>16. Sane("ResetGeneralHod", ResetGeneralHod)
  BY SubjectsAre DEF Sane, Handler, Outcomes, Tabs, Stay, Selected,
                     ResetGeneralHod, ResetCoordinator
<1>17. Sane("ResetStudent", ResetStudent)
  BY SubjectsAre DEF Sane, Handler, Outcomes, Tabs, Stay, Selected, ResetStudent
<1>18. Sane("ResetStudentOfPool", ResetStudentOfPool)
  BY SubjectsAre DEF Sane, Handler, Outcomes, Tabs, Stay, Selected, ResetStudentOfPool
<1>19. Sane("ApplyStatus", ApplyStatus)
  BY SubjectsAre DEF Sane, Handler, Outcomes, Tabs, Stay, Selected, ApplyStatus
<1>20. Sane("RefreshGroups", RefreshGroups)
  BY SubjectsAre DEF Sane, Handler, Outcomes, Tabs, Stay, Selected, RefreshGroups
<1>21. Sane("ApproveRequest", ApproveRequest)
  BY SubjectsAre DEF Sane, Handler, Outcomes, Tabs, Stay, Selected, ApproveRequest
<1>22. Sane("DenyRequest", DenyRequest)
  BY SubjectsAre DEF Sane, Handler, Outcomes, Tabs, Stay, Selected, DenyRequest
<1>23. Sane("SaveHodCode", SaveHodCode)
  BY SubjectsAre DEF Sane, Handler, Outcomes, Tabs, Stay, Selected, SaveHodCode
<1>24. Sane("SaveCoordinatorCode", SaveCoordinatorCode)
  BY SubjectsAre DEF Sane, Handler, Outcomes, Tabs, Stay, Selected,
                     SaveCoordinatorCode, SaveHodCode
<1>25. Sane("SaveGeneralCode", SaveGeneralCode)
  BY SubjectsAre DEF Sane, Handler, Outcomes, Tabs, Stay, Selected,
                     SaveGeneralCode, SaveHodCode
<1>26. Sane("SaveLibraryCode", SaveLibraryCode)
  BY SubjectsAre DEF Sane, Handler, Outcomes, Tabs, Stay, Selected,
                     SaveLibraryCode, SaveHodCode
<1>27. Sane("SaveHostelCode", SaveHostelCode)
  BY SubjectsAre DEF Sane, Handler, Outcomes, Tabs, Stay, Selected,
                     SaveHostelCode, SaveHodCode
<1>28. Sane("ResetCode", ResetCode)
  BY SubjectsAre DEF Sane, Handler, Outcomes, Tabs, Stay, Selected, ResetCode, SaveHodCode
<1>29. Sane("AddLocation", AddLocation)
  BY SubjectsAre DEF Sane, Handler, Outcomes, Tabs, Stay, Selected, AddLocation
<1>30. Sane("ToggleLocation", ToggleLocation)
  BY SubjectsAre DEF Sane, Handler, Outcomes, Tabs, Stay, Selected, ToggleLocation
<1>31. Sane("RefreshFeedback", RefreshFeedback)
  BY SubjectsAre DEF Sane, Handler, Outcomes, Tabs, Stay, Selected, RefreshFeedback
<1>32. Sane("RefreshList", RefreshList)
  BY SubjectsAre DEF Sane, Handler, Outcomes, Tabs, Stay, Selected, RefreshList
<1>. QED BY <1>1, <1>2, <1>3, <1>4, <1>5, <1>6, <1>7, <1>8, <1>9, <1>10, <1>11, <1>12, <1>13,
            <1>14, <1>15, <1>16, <1>17, <1>18, <1>19, <1>20, <1>21, <1>22, <1>23, <1>24,
            <1>25, <1>26, <1>27, <1>28, <1>29, <1>30, <1>31, <1>32, FormNames DEF Form

\* A handler that changes what a tab shows drops that tab, or fills it anew,
\* unless it is in Keeping.
LEMMA HandlersCover ==
  ASSUME NEW k \in DOMAIN TabsOf, NEW f \in FormsOf[k] \cup CommonForms,
         NEW t \in Tabs, f \notin Keeping, Form[f].about # "nothing",
         Form[f].about = SubjectOf[TabsOf[k][t + 1]]
  PROVE  \/ t \in Form[f].drops
         \/ Form[f].rereads /\ TabsOf[k][t + 1] = "account"
<1>1. TabsOf[k][t + 1] \in TabNames
  BY TabNamed
<1>2. CASE f \in {"SubmitComplaint", "DeleteComplaint", "ApplyStatus"}
  <2>0. /\ SubmitComplaint.drops = Tabs
        /\ DeleteComplaint.drops = Tabs
        /\ ApplyStatus.drops = Tabs
    BY DEF SubmitComplaint, DeleteComplaint, ApplyStatus, Handler
  <2>1. Form[f].drops = Tabs
    BY <1>2, <2>0 DEF Form
  <2>. QED BY <2>1
<1>3. CASE f \in {"SubmitFeedback", "EditFeedback"}
  <2>0. /\ SubmitFeedback.drops = {3} /\ SubmitFeedback.about = "feedback"
        /\ EditFeedback.drops = {3} /\ EditFeedback.about = "feedback"
    BY DEF SubmitFeedback, EditFeedback, Handler
  <2>1. Form[f].drops = {3} /\ Form[f].about = "feedback"
    BY <1>3, <2>0 DEF Form
  <2>2. k = "Student"
    BY <1>3, PortalNames DEF FormsOf, CommonForms
  <2>3. TabsOf[k][t + 1] = "feedback"
    BY <1>1, <2>1, SubjectsOfTabs
  <2>4. t = 3
    BY <2>2, <2>3, TabNamed
  <2>. QED BY <2>1, <2>4
<1>4. CASE f \in {"ApproveRequest", "DenyRequest"}
  <2>0. /\ ApproveRequest.drops = {1} /\ ApproveRequest.about = "requests"
        /\ DenyRequest.drops = {1} /\ DenyRequest.about = "requests"
    BY DEF ApproveRequest, DenyRequest, Handler
  <2>1. Form[f].drops = {1} /\ Form[f].about = "requests"
    BY <1>4, <2>0 DEF Form
  <2>2. k = "HostelIncharge"
    BY <1>4, PortalNames DEF FormsOf, CommonForms
  <2>3. TabsOf[k][t + 1] = "requests"
    BY <1>1, <2>1, SubjectsOfTabs
  <2>4. t = 1
    BY <2>2, <2>3, TabNamed
  <2>. QED BY <2>1, <2>4
<1>5. CASE f = "ResetStudent"
  <2>1. Form[f].rereads /\ Form[f].about = "accounts"
    BY <1>5 DEF Form, ResetStudent, Handler
  <2>. QED BY <1>1, <2>1, SubjectsOfTabs
<1>6. CASE f \in {"RefreshFeedback", "RefreshList", "SaveProfile", "ChangePassword",
                  "ResetStudentOfPool", "RefreshGroups", "SaveHodCode",
                  "SaveCoordinatorCode", "SaveGeneralCode", "SaveLibraryCode",
                  "SaveHostelCode", "ResetCode"}
  <2>0. /\ RefreshFeedback.about = "nothing"
        /\ RefreshList.about = "nothing"
        /\ SaveProfile.about = "nothing"
        /\ ChangePassword.about = "nothing"
        /\ ResetStudentOfPool.about = "nothing"
        /\ RefreshGroups.about = "nothing"
        /\ SaveHodCode.about = "nothing"
        /\ SaveCoordinatorCode.about = "nothing"
        /\ SaveGeneralCode.about = "nothing"
        /\ SaveLibraryCode.about = "nothing"
        /\ SaveHostelCode.about = "nothing"
        /\ ResetCode.about = "nothing"
    BY DEF Handler, RefreshFeedback, RefreshList, SaveProfile, ChangePassword,
           ResetStudentOfPool, RefreshGroups, SaveHodCode, SaveCoordinatorCode,
           SaveGeneralCode, SaveLibraryCode, SaveHostelCode, ResetCode
  <2>1. Form[f].about = "nothing"
    BY <1>6, <2>0 DEF Form
  <2>. QED BY <2>1
<1>7. FormsOf[k] \cup CommonForms \subseteq Forms
  BY PortalNames, FormNames DEF FormsOf, CommonForms
<1>. QED BY <1>2, <1>3, <1>4, <1>5, <1>6, <1>7, FormNames DEF Keeping

LEMMA PortalForms ==
  ASSUME NEW k \in DOMAIN TabsOf
  PROVE  /\ FormsOf[k] \cup CommonForms \subseteq Forms
         /\ "SubmitComplaint" \in FormsOf[k] => k = "Student"
         /\ "ApplyStatus" \in FormsOf["Coordinator"]
BY PortalNames, FormNames DEF FormsOf, CommonForms

-----------------------------------------------------------------------------
(* The invariants of the tabs.                                             *)

States == {"none", "loading", "error", "ready"}

OwnForms == FormsOf[kind] \cup CommonForms

Job == [form : OwnForms \cup {NoForm},
        step : {"idle", "call", "switch", "draw", "place", "free"},
        tab : 0..6, v : 0..MaxPresses, state : States, direct : BOOLEAN, current : BOOLEAN]

\* What the loop or a thread may be doing.
Work ==
  {k \in Job : /\ k.step = "idle" => k = NoJob
               /\ k.step \in {"call", "free"} => k.form # NoForm
               /\ k.step = "free" => Form[k.form].last
               /\ k.step \in {"draw", "place"} => k.tab \in Tabs
               /\ k.direct => k.step \in {"draw", "place"} /\ k.form = NoForm
               /\ k.current => k.form # NoForm /\ Form[k.form].greys}

Drawing(a) == job[a].step \in {"draw", "place"}

Loads == [board : {"none", "running", "forgotten"}, reference : {"none", "running"},
          since : 0..MaxPresses]

\* The staff keep one list, and a student's lists share one read.
ListsShaped ==
  /\ listed \in BOOLEAN /\ rows \in 0..MaxPresses
  /\ list \subseteq 0..MaxPresses /\ \A v, w \in list : v = w
  /\ fetch \subseteq 0..MaxPresses
  /\ kind = "Student" => list = {} /\ \A v, w \in fetch : v = w

TabsShaped ==
  /\ kind \in Kinds
  /\ version \in [Subjects -> 0..MaxPresses] /\ own \in [Subjects -> 0..MaxPresses]
  /\ selected \in Tabs
  /\ shown \in [tab : Tabs, state : States]
  /\ drawn \in [Tabs -> [v : 0..MaxPresses, state : States]]
  /\ job \in [Actors -> Work]
  /\ greyed \subseteq OwnForms
  /\ ListsShaped /\ boardError \in BOOLEAN
  /\ refLoaded \in BOOLEAN /\ refError \in BOOLEAN
  /\ load \in Loads
  /\ hitches \subseteq {"crossed", "failed", "left", "retried"}
  /\ presses \in 0..MaxPresses /\ visits \in 0..MaxVisits

\* Every change was made by a press whose call has ended.
InCall == {a \in Actors : job[a].step = "call"}

Accounted ==
  /\ IsFiniteSet(InCall)
  /\ \A s \in Subjects : version[s] + Cardinality(InCall) <= presses

\* A handler in its call frees the button it has greyed, one that does it last
\* until its end.
Frees(a, f) ==
  /\ job[a].form = f /\ job[a].current
  /\ job[a].step = "call" \/ Form[f].last

ButtonInv ==
  /\ raised \subseteq greyed
  /\ \A a, b \in Actors, f \in Forms : Frees(a, f) /\ Frees(b, f) => a = b
  /\ \A a \in Actors, f \in Forms : Frees(a, f) => f \in greyed \ raised
  /\ \A f \in greyed \ raised :
       \/ \E a \in Actors : Frees(a, f)
       \/ f = "AddLocation"
       \/ f = "SubmitComplaint" /\ drawn[1].state = "none"

\* The lists that are kept, and those that are being read.
ListsCurrent ==
  /\ listed => rows >= own["complaints"]
  /\ \A v \in list \cup fetch : v >= own["complaints"]
  /\ load.board # "none" => load.since >= own["complaints"]

CacheInv ==
  /\ \A s \in Subjects : own[s] <= version[s]
  /\ own["nothing"] = 0
  /\ "crossed" \notin hitches =>
       /\ \A t \in Tabs : drawn[t].state = "ready" => drawn[t].v >= own[About(t)]
       /\ \A a \in Actors : job[a].step = "place" /\ job[a].state = "ready"
                              => job[a].v >= own[About(job[a].tab)]
       /\ ListsCurrent

ScreenInv ==
  hitches \cap {"crossed", "failed"} = {} =>
    /\ \A a, b \in Actors : Drawing(a) /\ Drawing(b) => a = b
    /\ \A a \in Actors : Drawing(a) => job[a].tab = selected
    /\ shown.tab = selected \/ \E a \in Actors : Drawing(a)

\* The load whose end will drop or draw tab has not ended.
Pending(tab) ==
  \/ tab = 0 /\ load.board # "none"
  \/ kind = "Student" /\ tab \in {1, 2} /\ load.reference # "none"

\* What a drawing without a load needs has come, or its failure has.
Answered(tab) ==
  \/ tab = 0 /\ (listed \/ boardError)
  \/ tab \in {1, 2} /\ (refLoaded \/ refError)

RingInv ==
  hitches = {} =>
    /\ \A t \in Tabs : drawn[t].state = "loading" => Pending(t)
    /\ shown.state = "loading" => Pending(shown.tab) \/ \E a \in Actors : Drawing(a)
    /\ \A a \in Actors : job[a].step = "place" /\ job[a].state = "loading"
                           => Pending(job[a].tab)
    /\ \A a \in Actors : kind = "Student" /\ job[a].step = "draw" /\ job[a].direct
                           => Answered(job[a].tab) \/ Pending(job[a].tab)
    /\ load.board # "forgotten"

-----------------------------------------------------------------------------
(* The tabs: what the loop and the threads do.                             *)

LEMMA KindGiven ==
  ASSUME TabsAssumption, TabsShaped
  PROVE  /\ kind \in DOMAIN TabsOf
         /\ \A t \in Tabs : NameOf(t) \in TabNames /\ About(t) \in Subjects
         /\ \A t \in Tabs : NameOf(t) = "dashboard" <=> t = 0
         /\ OwnForms \subseteq Forms
         /\ "SubmitComplaint" \in OwnForms => kind = "Student"
         /\ Loop \in Actors /\ Threads \subseteq Actors
<1>1. kind \in DOMAIN TabsOf
  BY DEF TabsAssumption, TabsShaped
<1>2. \A t \in Tabs : NameOf(t) \in TabNames /\ About(t) \in Subjects
  BY <1>1, TabNamed, SubjectsAre DEF NameOf, About
<1>3. \A t \in Tabs : NameOf(t) = "dashboard" <=> t = 0
  BY <1>1, TabNamed DEF NameOf
<1>4. "SubmitComplaint" \notin CommonForms
  BY DEF CommonForms
<1>. QED BY <1>1, <1>2, <1>3, <1>4, PortalForms DEF OwnForms, Actors

LEMMA NoWork ==
  ASSUME TabsAssumption
  PROVE  NoJob \in Work /\ NoJob.step = "idle" /\ ~NoJob.direct /\ ~NoJob.current
         /\ NoJob.tab = 0 /\ NoJob.form = NoForm
BY DEF TabsAssumption, NoJob, Work, Job, States, Tabs

\* The conditions on a job, one way and the other.
LEMMA WorkIs ==
  ASSUME NEW k \in Work
  PROVE  /\ k \in Job
         /\ k.step = "idle" => k = NoJob
         /\ k.step \in {"call", "free"} => k.form # NoForm
         /\ k.step = "free" => Form[k.form].last
         /\ k.step \in {"draw", "place"} => k.tab \in Tabs
         /\ k.direct => k.step \in {"draw", "place"} /\ k.form = NoForm
         /\ k.current => k.form # NoForm /\ Form[k.form].greys
BY DEF Work

LEMMA IsWork ==
  ASSUME NEW k \in Job,
         k.step = "idle" => k = NoJob,
         k.step \in {"call", "free"} => k.form # NoForm,
         k.step = "free" => Form[k.form].last,
         k.step \in {"draw", "place"} => k.tab \in Tabs,
         k.direct => k.step \in {"draw", "place"} /\ k.form = NoForm,
         k.current => k.form # NoForm /\ Form[k.form].greys
  PROVE  k \in Work
BY DEF Work

\* What the records of jobs become.
LEMMA DrawBegins ==
  ASSUME TabsAssumption, NEW k \in Work, NEW tab \in Tabs, k.step \in {"idle", "switch"}, NEW m,
         m = [k EXCEPT !.step = "draw", !.tab = tab]
  PROVE  /\ m \in Work
         /\ m.step = "draw"
         /\ m.tab = tab
         /\ m.form = k.form
         /\ m.current = k.current
         /\ ~m.direct
<1>1. k \in Job /\ tab \in 0..6 /\ ~k.direct
  BY WorkIs DEF Tabs
<1>2. m \in Job
  BY <1>1 DEF Job
<1>3. m.step = "draw" /\ m.tab = tab /\ m.form = k.form
  BY <1>1 DEF Job
<1>4. m.current = k.current /\ m.direct = k.direct
  BY <1>1 DEF Job
<1>5. m.current => m.form # NoForm /\ Form[m.form].greys
  BY <1>3, <1>4, WorkIs
<1>6. m \in Work
  BY <1>1, <1>2, <1>3, <1>4, <1>5, IsWork
<1>. QED BY <1>1, <1>3, <1>4, <1>6

LEMMA ButtonLost ==
  ASSUME TabsAssumption, NEW k \in Work
  PROVE  /\ [k EXCEPT !.current = FALSE] \in Work
         /\ [k EXCEPT !.current = FALSE].current = FALSE
         /\ [k EXCEPT !.current = FALSE].step = k.step
         /\ [k EXCEPT !.current = FALSE].form = k.form
         /\ [k EXCEPT !.current = FALSE].tab = k.tab
         /\ [k EXCEPT !.current = FALSE].v = k.v
         /\ [k EXCEPT !.current = FALSE].state = k.state
         /\ [k EXCEPT !.current = FALSE].direct = k.direct
<1>. DEFINE m == [k EXCEPT !.current = FALSE]
<1>1. k \in Job
  BY WorkIs
<1>2. m \in Job
  BY <1>1 DEF Job
<1>3. m.step = k.step /\ m.tab = k.tab /\ m.form = k.form /\ m.v = k.v /\ m.state = k.state
  BY <1>1 DEF Job
<1>4. m.current = FALSE /\ m.direct = k.direct
  BY <1>1 DEF Job
<1>5. ASSUME m.step = "idle"
      PROVE  m = NoJob
  <2>1. k = NoJob
    BY <1>3, <1>5, WorkIs
  <2>2. k.current = FALSE
    BY <2>1, NoWork
  <2>3. m = k
    BY <1>1, <2>2 DEF Job
  <2>. QED BY <2>1, <2>3
<1>. HIDE DEF m
<1>6. m \in Work
  BY <1>1, <1>2, <1>3, <1>4, <1>5, WorkIs, IsWork
<1>7. m \in Work /\ m.current = FALSE /\ m.step = k.step /\ m.form = k.form
      /\ m.tab = k.tab /\ m.v = k.v
      /\ m.state = k.state /\ m.direct = k.direct
  BY <1>3, <1>4, <1>6
<1>. QED BY <1>7 DEF m

\* A handler that has shown its tab has done, or has its button to free.
LEMMA ShownIs ==
  ASSUME TabsAssumption, NEW k \in Work, NEW m, m = Shown(k)
  PROVE  /\ m \in Work /\ m.step \in {"idle", "free"} /\ ~m.direct
         /\ \/ m = NoJob /\ (k.form = NoForm \/ ~Form[k.form].last)
            \/ m.form = k.form /\ m.current = k.current
<1>1. CASE k.form # NoForm /\ Form[k.form].last
  <2>1. k \in Job /\ NoJob \in Job /\ ~NoJob.direct
    BY WorkIs, NoWork
  <2>2. m = [NoJob EXCEPT !.form = k.form, !.step = "free", !.current = k.current]
    BY <1>1 DEF Shown
  <2>3. m \in Job /\ m.step = "free" /\ m.form = k.form
    BY <2>1, <2>2 DEF Job
  <2>4. m.current = k.current /\ ~m.direct
    BY <2>1, <2>2 DEF Job
  <2>5. m.current => m.form # NoForm /\ Form[m.form].greys
    BY <2>3, <2>4, WorkIs
  <2>6. m \in Work
    BY <1>1, <2>1, <2>3, <2>4, <2>5, IsWork
  <2>. QED BY <2>1, <2>3, <2>4, <2>6
<1>2. CASE ~(k.form # NoForm /\ Form[k.form].last)
  <2>1. m = NoJob
    BY <1>2 DEF Shown
  <2>. QED BY <1>2, <2>1, NoWork
<1>. QED BY <1>1, <1>2

LEMMA SwitchBegins ==
  ASSUME TabsAssumption, NEW k \in Work, NEW tab \in 0..6, k.step = "call", NEW m,
         m = [k EXCEPT !.step = "switch", !.tab = tab]
  PROVE  /\ m \in Work
         /\ m.step = "switch"
<1>1. k \in Job /\ ~k.direct
  BY WorkIs
<1>2. m \in Job
  BY <1>1 DEF Job
<1>3. m.step = "switch" /\ m.form = k.form
  BY <1>1 DEF Job
<1>4. m.current = k.current /\ m.direct = k.direct
  BY <1>1 DEF Job
<1>5. m.current => m.form # NoForm /\ Form[m.form].greys
  BY <1>3, <1>4, WorkIs
<1>6. m \in Work
  BY <1>1, <1>2, <1>3, <1>4, <1>5, IsWork
<1>. QED BY <1>3, <1>6

LEMMA CallBegins ==
  ASSUME TabsAssumption, FormsAssumption, NEW f \in OwnForms \cap Forms
  PROVE  /\ [NoJob EXCEPT !.form = f, !.step = "call", !.current = Form[f].greys] \in Work
         /\ [NoJob EXCEPT !.form = f, !.step = "call", !.current = Form[f].greys].step = "call"
         /\ [NoJob EXCEPT !.form = f, !.step = "call", !.current = Form[f].greys].form = f
         /\ [NoJob EXCEPT !.form = f, !.step = "call", !.current = Form[f].greys].current
              = Form[f].greys
<1>. DEFINE m == [NoJob EXCEPT !.form = f, !.step = "call", !.current = Form[f].greys]
<1>1. Form[f].greys \in BOOLEAN /\ f # NoForm
  BY FormFacts DEF FormsAssumption, Sane
<1>2. NoJob \in Job /\ ~NoJob.direct
  BY NoWork, WorkIs
<1>3. m \in Job
  BY <1>1, <1>2 DEF Job
<1>4. m.step = "call" /\ m.form = f
  BY <1>2 DEF Job
<1>5. m.current = Form[f].greys /\ m.direct = NoJob.direct
  BY <1>2 DEF Job
<1>. HIDE DEF m
<1>6. m \in Work
  BY <1>1, <1>2, <1>3, <1>4, <1>5, IsWork
<1>7. m \in Work /\ m.step = "call" /\ m.form = f /\ m.current = Form[f].greys
  BY <1>4, <1>5, <1>6
<1>. QED BY <1>7 DEF m

LEMMA DirectBegins ==
  ASSUME TabsAssumption, NEW tab \in Tabs
  PROVE  /\ [NoJob EXCEPT !.step = "draw", !.tab = tab, !.direct = TRUE] \in Work
         /\ [NoJob EXCEPT !.step = "draw", !.tab = tab, !.direct = TRUE].step = "draw"
         /\ [NoJob EXCEPT !.step = "draw", !.tab = tab, !.direct = TRUE].tab = tab
         /\ ~[NoJob EXCEPT !.step = "draw", !.tab = tab, !.direct = TRUE].current
<1>. DEFINE m == [NoJob EXCEPT !.step = "draw", !.tab = tab, !.direct = TRUE]
<1>1. NoJob \in Job /\ tab \in 0..6 /\ ~NoJob.current /\ NoJob.form = NoForm
  BY NoWork, WorkIs DEF Tabs
<1>2. m \in Job
  BY <1>1 DEF Job
<1>3. m.step = "draw" /\ m.tab = tab
  BY <1>1 DEF Job
<1>4. m.current = NoJob.current /\ m.form = NoForm
  BY <1>1 DEF Job
<1>. HIDE DEF m
<1>5. m \in Work
  BY <1>1, <1>2, <1>3, <1>4, IsWork
<1>6. m \in Work /\ m.step = "draw" /\ m.tab = tab /\ ~m.current
  BY <1>1, <1>3, <1>4, <1>5
<1>. QED BY <1>6 DEF m

LEMMA DirectBoard ==
  ASSUME TabsAssumption
  PROVE  [NoJob EXCEPT !.step = "draw", !.direct = TRUE]
           = [NoJob EXCEPT !.step = "draw", !.tab = 0, !.direct = TRUE]
<1>1. NoJob \in Job /\ NoJob.tab = 0
  BY NoWork, WorkIs
<1>. QED BY <1>1 DEF Job

LEMMA WorkSame ==
  ASSUME kind' = kind
  PROVE  Work' = Work /\ OwnForms' = OwnForms
         /\ \A t : NameOf(t)' = NameOf(t) /\ About(t)' = About(t)
BY DEF Work, Job, OwnForms, NameOf, About

-----------------------------------------------------------------------------
(* What each step does to the jobs and that it keeps the shape.            *)

LEMMA ShapedAgain ==
  ASSUME TabsShaped, kind' = kind,
         version' \in [Subjects -> 0..MaxPresses], own' \in [Subjects -> 0..MaxPresses],
         selected' \in Tabs, shown' \in [tab : Tabs, state : States],
         drawn' \in [Tabs -> [v : 0..MaxPresses, state : States]],
         job' \in [Actors -> Work], greyed' \subseteq OwnForms,
         ListsShaped', boardError' \in BOOLEAN, refLoaded' \in BOOLEAN,
         refError' \in BOOLEAN, load' \in Loads,
         hitches' \subseteq {"crossed", "failed", "left", "retried"},
         presses' \in 0..MaxPresses, visits' \in 0..MaxVisits
  PROVE  TabsShaped'
BY WorkSame DEF TabsShaped, Loads

LEMMA ListsAgain ==
  ASSUME listed' \in BOOLEAN, rows' \in 0..MaxPresses, list' \subseteq 0..MaxPresses,
         fetch' \subseteq 0..MaxPresses, \A v, w \in list' : v = w,
         kind' = "Student" => list' = {} /\ \A v, w \in fetch' : v = w
  PROVE  ListsShaped'
BY DEF ListsShaped

LEMMA ListsSame ==
  ASSUME TabsShaped, kind' = kind, UNCHANGED <<listed, rows, list, fetch>>
  PROVE  ListsShaped'
BY DEF TabsShaped, ListsShaped

\* What a read that began now would find.
LEMMA SinceIs ==
  ASSUME TabsAssumption, TabsShaped
  PROVE  Since \in 0..MaxPresses
<1>1. version["complaints"] \in 0..MaxPresses /\ load.since \in 0..MaxPresses
  BY SubjectsAre DEF TabsShaped, Loads
<1>2. fetch # {} => (CHOOSE v \in fetch : TRUE) \in 0..MaxPresses
  BY DEF TabsShaped, ListsShaped
<1>. QED BY <1>1, <1>2 DEF Since

\* The jobs of all but actor stay.
Others(actor) == \A b \in Actors \ {actor} : job'[b] = job[b]

\* A job goes on, without its button if that is one of lost.
Loses(b, lost) ==
  /\ job'[b].step = job[b].step /\ job'[b].tab = job[b].tab /\ job'[b].v = job[b].v
  /\ job'[b].state = job[b].state /\ job'[b].form = job[b].form
  /\ job'[b].direct = job[b].direct
  /\ job'[b].current => job[b].current /\ job[b].form \notin lost
  /\ job[b].form \notin lost => job'[b].current = job[b].current

LEMMA JobSet ==
  ASSUME job \in [Actors -> Work], NEW a \in Actors, NEW k \in Work, job' = [job EXCEPT ![a] = k]
  PROVE  job' \in [Actors -> Work] /\ job'[a] = k /\ Others(a)
BY DEF Others

LEMMA SwitchEffect ==
  ASSUME TabsAssumption, TabsShaped, NEW actor \in Actors, NEW tab \in Tabs,
         job[actor].step \in {"idle", "switch"}, SwitchTo(actor, tab),
         visits' \in 0..MaxVisits
  PROVE  /\ TabsShaped' /\ Others(actor)
         /\ selected' = tab
         /\ \/ /\ drawn[tab].state # "none" /\ job'[actor] = Shown(job[actor])
               /\ job'[actor].step \in {"idle", "free"}
               /\ shown'.tab = tab /\ shown'.state = drawn[tab].state
            \/ /\ drawn[tab].state = "none" /\ shown' = shown
               /\ job'[actor].step = "draw" /\ job'[actor].tab = tab
               /\ job'[actor].current = job[actor].current
               /\ job'[actor].form = job[actor].form /\ ~job'[actor].direct
         /\ hitches \subseteq hitches' /\ (Crossing(actor) => "crossed" \in hitches')
<1>1. job \in [Actors -> Work] /\ job[actor] \in Work
  BY DEF TabsShaped
<1>0. PICK j \in Work : j = job[actor]
  BY <1>1
<1>8. PICK k : k = [j EXCEPT !.step = "draw", !.tab = tab]
  OBVIOUS
<1>2. /\ k \in Work /\ k.step = "draw" /\ k.tab = tab /\ k.form = j.form
      /\ k.current = j.current /\ ~k.direct
  <2>1. j.step \in {"idle", "switch"}
    BY <1>0
  <2>2. k \in Work /\ ~k.direct
    BY <1>8, <2>1, DrawBegins, Zenon
  <2>3. k.step = "draw" /\ k.tab = tab /\ k.form = j.form
    BY <1>8 DEF Work, Job
  <2>4. k.current = j.current
    BY <1>8 DEF Work, Job
  <2>. QED BY <2>2, <2>3, <2>4
<1>3. drawn[tab].state \in States
  BY DEF TabsShaped
<1>4. hitches' = hitches \cup Hitch("crossed", Crossing(actor))
  BY DEF SwitchTo
<1>5. /\ hitches \subseteq hitches' /\ hitches' \subseteq hitches \cup {"crossed"}
      /\ (Crossing(actor) => "crossed" \in hitches')
  BY <1>4 DEF Hitch
<1>9. ListsShaped'
  BY ListsSame DEF SwitchTo, board, lists
<1>6. CASE drawn[tab].state # "none"
  <2>0. PICK m : m = Shown(j)
    OBVIOUS
  <2>1. job' = [job EXCEPT ![actor] = m] /\ shown' = [tab |-> tab, state |-> drawn[tab].state]
    BY <1>0, <1>1, <1>6, <2>0 DEF SwitchTo
  <2>2. m \in Work /\ m.step \in {"idle", "free"} /\ m = Shown(job[actor])
    BY <1>0, <2>0, ShownIs
  <2>5. job' \in [Actors -> Work] /\ job'[actor] = m /\ Others(actor)
    BY <1>1, <2>1, <2>2, JobSet
  <2>3. shown' \in [tab : Tabs, state : States]
    BY <1>3, <2>1
  <2>4. TabsShaped'
    BY <1>5, <1>9, <2>3, <2>5, ShapedAgain DEF SwitchTo, board, TabsShaped
  <2>. QED BY <1>5, <1>6, <2>1, <2>2, <2>4, <2>5 DEF SwitchTo
<1>7. CASE drawn[tab].state = "none"
  <2>1. job' = [job EXCEPT ![actor] = k] /\ shown' = shown
    BY <1>0, <1>1, <1>7, <1>8 DEF SwitchTo
  <2>2. job' \in [Actors -> Work] /\ job'[actor] = k /\ Others(actor)
    BY <1>1, <1>2, <2>1, JobSet
  <2>3. TabsShaped'
    BY <1>5, <1>9, <2>1, <2>2, ShapedAgain DEF SwitchTo, board, TabsShaped
  <2>. QED BY <1>0, <1>2, <1>5, <1>7, <2>1, <2>2, <2>3 DEF SwitchTo
<1>. QED BY <1>6, <1>7

LEMMA PressEffect ==
  ASSUME TabsAssumption, FormsAssumption, TabsShaped, NEW form, Press(form)
  PROVE  /\ TabsShaped' /\ form \in OwnForms \cap Forms
         /\ \E actor \in Actors :
              /\ Others(actor) /\ job[actor] = NoJob
              /\ job'[actor].step = "call" /\ job'[actor].form = form
              /\ job'[actor].current = Form[form].greys
         /\ form \notin greyed
         /\ greyed' = IF Form[form].greys THEN greyed \cup {form} ELSE greyed
         /\ presses' = presses + 1
<1>1. form \in OwnForms \cap Forms
  BY KindGiven DEF Press, OwnForms
<1>. DEFINE h == Form[form]
            k == [NoJob EXCEPT !.form = form, !.step = "call", !.current = h.greys]
<1>2. PICK actor \in IF h.thread THEN Threads ELSE {Loop} :
        job[actor].step = "idle" /\ job' = [job EXCEPT ![actor] = k]
  BY DEF Press
<1>3. actor \in Actors
  BY <1>2, KindGiven DEF Actors
<1>4. k \in Work /\ k.step = "call" /\ k.form = form /\ k.current = Form[form].greys
  BY <1>1, CallBegins
<1>. HIDE DEF k
<1>5. job \in [Actors -> Work] /\ job[actor] = NoJob
  BY <1>2, <1>3, WorkIs DEF TabsShaped
<1>6. job' \in [Actors -> Work] /\ job'[actor] = k /\ Others(actor)
  BY <1>2, <1>3, <1>4, <1>5, JobSet
<1>7. /\ greyed' = IF Form[form].greys THEN greyed \cup {form} ELSE greyed
      /\ form \notin greyed /\ presses' = presses + 1 /\ presses < MaxPresses
      /\ UNCHANGED <<kind, version, own, selected, shown, drawn, board, ghosts, visits>>
  BY DEF Press
<1>8. greyed' \subseteq OwnForms
  BY <1>1, <1>7 DEF TabsShaped
<1>9. presses' \in 0..MaxPresses
  BY <1>7 DEF TabsShaped, TabsAssumption
<1>11. ListsShaped'
  BY <1>7, ListsSame DEF board, lists
<1>10. TabsShaped'
  BY <1>6, <1>7, <1>8, <1>9, <1>11, ShapedAgain DEF board, ghosts, TabsShaped
<1>. QED BY <1>1, <1>3, <1>4, <1>5, <1>6, <1>7, <1>10

LEMMA ReopenEffect ==
  ASSUME TabsAssumption, TabsShaped, NEW form, Reopen(form)
  PROVE  /\ TabsShaped'
         /\ \A a \in Actors : Loses(a, {form})
         /\ greyed' = greyed \ {form} /\ raised' = raised \ {form}
<1>1. job \in [Actors -> Work]
  BY DEF TabsShaped
<1>2. job' = [a \in Actors |-> IF job[a].form = form THEN [job[a] EXCEPT !.current = FALSE]
                               ELSE job[a]]
  BY DEF Reopen
<1>3. ASSUME NEW a \in Actors
      PROVE  job'[a] \in Work /\ Loses(a, {form})
  <2>1. CASE job[a].form = form
    <3>1. job'[a] = [job[a] EXCEPT !.current = FALSE] /\ job[a] \in Work
      BY <1>1, <1>2, <2>1
    <3>. QED BY <2>1, <3>1, ButtonLost DEF Loses
  <2>2. CASE job[a].form # form
    <3>1. job'[a] = job[a] /\ job[a] \in Work
      BY <1>1, <1>2, <2>2
    <3>. QED BY <2>2, <3>1 DEF Loses
  <2>. QED BY <2>1, <2>2
<1>4. job' \in [Actors -> Work]
  BY <1>2, <1>3
<1>6. ListsShaped'
  BY ListsSame DEF Reopen, board, lists
<1>5. TabsShaped'
  BY <1>4, <1>6, ShapedAgain DEF Reopen, board, bounds, TabsShaped
<1>. QED BY <1>3, <1>5 DEF Reopen

LEMMA RetryBoardEffect ==
  ASSUME TabsAssumption, TabsShaped, RetryBoard
  PROVE  /\ TabsShaped' /\ Others(Loop) /\ job[Loop] = NoJob
         /\ job'[Loop].step = "draw" /\ job'[Loop].tab = 0 /\ ~job'[Loop].current
         /\ drawn' = [drawn EXCEPT ![0] = NotKept] /\ drawn'[0].state = "none"
         /\ \A t \in Tabs \ {0} : drawn'[t] = drawn[t]
         /\ hitches \subseteq hitches' /\ (Crossing(Loop) => "crossed" \in hitches')
<1>. DEFINE k == [NoJob EXCEPT !.step = "draw", !.tab = 0, !.direct = TRUE]
<1>1. 0 \in Tabs /\ Loop \in Actors
  BY DEF Tabs, Actors
<1>2. k \in Work /\ k.step = "draw" /\ k.tab = 0 /\ ~k.current
  BY <1>1, DirectBegins
<1>3. job' = [job EXCEPT ![Loop] = k]
  BY DirectBoard DEF RetryBoard
<1>. HIDE DEF k
<1>4. job \in [Actors -> Work] /\ job[Loop] = NoJob
  BY <1>1, WorkIs DEF TabsShaped, RetryBoard
<1>5. job' \in [Actors -> Work] /\ job'[Loop] = k /\ Others(Loop)
  BY <1>1, <1>2, <1>3, <1>4, JobSet
<1>6. NotKept \in [v : 0..MaxPresses, state : States] /\ NotKept.state = "none"
  BY DEF NotKept, States, TabsAssumption
<1>7. drawn' = [drawn EXCEPT ![0] = NotKept]
  BY DEF RetryBoard
<1>8. /\ drawn' \in [Tabs -> [v : 0..MaxPresses, state : States]]
      /\ drawn'[0].state = "none" /\ \A t \in Tabs \ {0} : drawn'[t] = drawn[t]
  BY <1>1, <1>6, <1>7 DEF TabsShaped
<1>9. /\ hitches \subseteq hitches' /\ hitches' \subseteq hitches \cup {"crossed"}
      /\ (Crossing(Loop) => "crossed" \in hitches')
  BY DEF RetryBoard, Hitch
<1>10. load' \in Loads
  <2>1. load' \in {load, [load EXCEPT !.board = "running", !.since = Since]}
    BY DEF RetryBoard
  <2>. QED BY <2>1, SinceIs DEF TabsShaped, Loads
<1>11. ListsShaped' /\ boardError' \in BOOLEAN
  <2>1. /\ rows' \in 0..MaxPresses /\ UNCHANGED <<kind, list, fetch>>
    BY DEF RetryBoard, TabsShaped, ListsShaped, TabsAssumption
  <2>2. listed' \in BOOLEAN /\ boardError' \in BOOLEAN
    BY DEF RetryBoard
  <2>. QED BY <2>1, <2>2, ListsAgain DEF TabsShaped, ListsShaped
<1>12. TabsShaped'
  BY <1>5, <1>8, <1>9, <1>10, <1>11, ShapedAgain DEF RetryBoard, bounds, TabsShaped
<1>. QED BY <1>2, <1>4, <1>5, <1>7, <1>8, <1>9, <1>12

LEMMA RetryReferenceEffect ==
  ASSUME TabsAssumption, TabsShaped, RetryReference
  PROVE  TabsShaped' /\ shown'.tab = shown.tab /\ shown'.state = "loading"
         /\ hitches \subseteq hitches' /\ (refLoaded' => "retried" \in hitches')
<1>1. shown' \in [tab : Tabs, state : States] /\ shown'.tab = shown.tab /\ shown'.state = "loading"
  BY DEF RetryReference, TabsShaped, States
<1>2. refLoaded' \in BOOLEAN /\ refError' \in BOOLEAN
  BY DEF RetryReference
<1>3. load' \in Loads /\ ListsShaped'
  BY ListsSame DEF RetryReference, TabsShaped, Loads, lists
<1>4. /\ hitches \subseteq hitches' /\ hitches' \subseteq hitches \cup {"retried"}
      /\ (refLoaded' => "retried" \in hitches')
  BY DEF RetryReference, Hitch
<1>5. TabsShaped'
  BY <1>1, <1>2, <1>3, <1>4, ShapedAgain DEF RetryReference, bounds, TabsShaped
<1>. QED BY <1>1, <1>4, <1>5

LEMMA CallsCounted ==
  ASSUME Accounted, NEW a \in InCall
  PROVE  /\ IsFiniteSet(InCall \ {a})
         /\ Cardinality(InCall) \in Nat \ {0}
         /\ Cardinality(InCall \ {a}) = Cardinality(InCall) - 1
<1>1. IsFiniteSet(InCall)
  BY DEF Accounted
<1>2. Cardinality(InCall) \in Nat
  BY <1>1, FS_CardinalityType
<1>3. IsFiniteSet(InCall \ {a}) /\ Cardinality(InCall \ {a}) = Cardinality(InCall) - 1
  BY <1>1, FS_RemoveElement
<1>4. Cardinality(InCall \ {a}) \in Nat
  BY <1>3, FS_CardinalityType
<1>. QED BY <1>2, <1>3, <1>4

\* A handler in its call has a form of the portal.
LEMMA Calling ==
  ASSUME TabsAssumption, TabsShaped, NEW actor \in Actors, job[actor].step = "call"
  PROVE  /\ job[actor] \in Work /\ job[actor].form \in OwnForms \cap Forms
         /\ Sane(job[actor].form, Form[job[actor].form])
         /\ actor \in InCall
<1>1. job[actor] \in Work
  BY DEF TabsShaped
<1>2. job[actor].form \in OwnForms
  BY <1>1, WorkIs DEF Job
<1>3. OwnForms \subseteq Forms
  BY KindGiven
<1>. QED BY <1>1, <1>2, <1>3, FormFacts DEF InCall

LEMMA ReturnVersions ==
  ASSUME TabsAssumption, TabsShaped, Accounted, NEW actor \in Actors, NEW outcome \in Outcomes,
         Return(actor, outcome)
  PROVE  /\ version' \in [Subjects -> 0..MaxPresses]
         /\ \A s \in Subjects : version[s] <= version'[s] /\ version'[s] <= version[s] + 1
         /\ own' \in [Subjects -> 0..MaxPresses]
<1>. DEFINE h == Form[job[actor].form]
            changes == outcome = "accepted" /\ h.about # "nothing"
            mine == changes /\ job[actor].form \notin Keeping
<1>1. job[actor].step = "call"
  BY DEF Return
<1>2. h.about \in Subjects /\ actor \in InCall
  BY <1>1, Calling DEF Sane
<1>3. version' = IF changes THEN [version EXCEPT ![h.about] = @ + 1] ELSE version
  BY DEF Return
<1>4. own' = IF mine THEN [own EXCEPT ![h.about] = version'[h.about]] ELSE own
  BY DEF Return
<1>. HIDE DEF h, changes, mine
<1>5. \A s \in Subjects : version[s] \in 0..MaxPresses /\ version[s] + 1 <= MaxPresses
  <2>1. Cardinality(InCall) \in Nat \ {0}
    BY <1>2, CallsCounted
  <2>2. presses \in 0..MaxPresses /\ MaxPresses \in Nat /\ version \in [Subjects -> 0..MaxPresses]
    BY DEF TabsShaped, TabsAssumption
  <2>. QED BY <2>1, <2>2 DEF Accounted
<1>6. version \in [Subjects -> 0..MaxPresses] /\ own \in [Subjects -> 0..MaxPresses]
      /\ MaxPresses \in Nat
  BY DEF TabsShaped, TabsAssumption
<1>7. /\ version' \in [Subjects -> 0..MaxPresses]
      /\ \A s \in Subjects : version[s] <= version'[s] /\ version'[s] <= version[s] + 1
  BY <1>2, <1>3, <1>5, <1>6
<1>8. own' \in [Subjects -> 0..MaxPresses]
  BY <1>2, <1>4, <1>6, <1>7
<1>. QED BY <1>7, <1>8

\* What the answer of a call does to the lists.
LEMMA ReturnLists ==
  ASSUME TabsAssumption, TabsShaped, Accounted, NEW actor \in Actors, NEW outcome \in Outcomes,
         Return(actor, outcome)
  PROVE  ListsShaped'
<1>. DEFINE h == Form[job[actor].form]
            forgets == outcome = "accepted" /\ h.forgets
            reads == /\ outcome = "accepted" /\ h.lists
                     /\ kind = "Student" => load.board = "none" /\ fetch = {}
<1>1. /\ kind' = kind
      /\ listed' = (listed /\ ~forgets)
      /\ rows' = IF forgets THEN 0 ELSE rows
      /\ list' = IF forgets THEN {} ELSE list
      /\ fetch' = IF reads THEN fetch \cup {version'["complaints"]} ELSE fetch
  BY DEF Return
<1>2. version'["complaints"] \in 0..MaxPresses /\ MaxPresses \in Nat
  BY ReturnVersions, SubjectsAre DEF TabsAssumption
<1>3. kind = "Student" /\ reads => fetch = {}
  OBVIOUS
<1>4. listed' \in BOOLEAN
  BY <1>1
<1>. HIDE DEF h, forgets, reads
<1>7. /\ rows \in 0..MaxPresses /\ list \subseteq 0..MaxPresses
      /\ fetch \subseteq 0..MaxPresses
      /\ \A v, w \in list : v = w
  BY DEF TabsShaped, ListsShaped
<1>8. rows' \in 0..MaxPresses
  BY <1>1, <1>2, <1>7
<1>5. /\ list' \subseteq 0..MaxPresses /\ fetch' \subseteq 0..MaxPresses
      /\ \A v, w \in list' : v = w
  BY <1>1, <1>2, <1>7
<1>6. kind' = "Student" => list' = {} /\ \A v, w \in fetch' : v = w
  BY <1>1, <1>3 DEF TabsShaped, ListsShaped
<1>. QED BY <1>4, <1>5, <1>6, <1>8, ListsAgain

LEMMA ReturnEffect ==
  ASSUME TabsAssumption, FormsAssumption, TabsShaped, Accounted, NEW actor \in Actors,
         NEW outcome \in Outcomes, Return(actor, outcome)
  PROVE  /\ TabsShaped' /\ Others(actor)
         /\ job'[actor].step \in {"idle", "switch"}
         /\ hitches \subseteq hitches'
<1>. DEFINE f == job[actor].form
            h == Form[f]
            accepted == outcome = "accepted"
            after == accepted \/ (h.whatever /\ outcome = "refused")
            dropped == IF ~after THEN {}
                       ELSE {t \in Tabs : t \in h.drops \/ (t = selected /\ Selected \in h.drops)}
            seen == IF after /\ h.rereads THEN {t \in Tabs : NameOf(t) = "account"} ELSE {}
            forgets == accepted /\ h.forgets
<1>1. job[actor].step = "call"
  BY DEF Return
<1>2. /\ job[actor] \in Work /\ job \in [Actors -> Work] /\ h.goes \in 0..7
  BY <1>1, Calling DEF Sane, TabsShaped
<1>3. /\ job' \in [Actors -> Work] /\ job'[actor].step \in {"idle", "switch"} /\ Others(actor)
  <2>1. CASE after /\ h.goes # Stay
    <3>1. PICK j \in Work : j = job[actor]
      BY <1>2
    <3>2. PICK k : k = [j EXCEPT !.step = "switch", !.tab = h.goes]
      OBVIOUS
    <3>3. job' = [job EXCEPT ![actor] = k]
      BY <1>2, <2>1, <3>1, <3>2 DEF Return
    <3>4. h.goes \in 0..6
      BY <1>2, <2>1 DEF Stay
    <3>5. k \in Work
      <4>1. PICK g \in 0..6 : g = h.goes
        BY <3>4
      <4>2. k = [j EXCEPT !.step = "switch", !.tab = g] /\ j.step = "call"
        BY <1>1, <3>1, <3>2, <4>1
      <4>. QED BY <4>2, SwitchBegins
    <3>6. k.step = "switch"
      BY <3>2 DEF Work, Job
    <3>7. job' \in [Actors -> Work] /\ job'[actor] = k /\ Others(actor)
      BY <1>2, <3>3, <3>5, JobSet
    <3>. QED BY <3>6, <3>7
  <2>2. CASE ~(after /\ h.goes # Stay)
    <3>1. job' = [job EXCEPT ![actor] = NoJob]
      BY <2>2 DEF Return
    <3>2. job' \in [Actors -> Work] /\ job'[actor] = NoJob /\ Others(actor)
      BY <1>2, <3>1, NoWork, JobSet
    <3>. QED BY <3>2, NoWork
  <2>. QED BY <2>1, <2>2
<1>4. drawn' \in [Tabs -> [v : 0..MaxPresses, state : States]]
  <2>1. drawn' = [t \in Tabs |-> IF t \in dropped THEN NotKept
                                 ELSE IF t \in seen /\ drawn[t].state = "ready"
                                 THEN [drawn[t] EXCEPT !.v = version'[About(t)]]
                                 ELSE drawn[t]]
    BY DEF Return
  <2>. HIDE DEF dropped, seen
  <2>2. NotKept \in [v : 0..MaxPresses, state : States]
    BY DEF NotKept, States, TabsAssumption
  <2>3. \A t \in Tabs : About(t) \in Subjects
    BY KindGiven
  <2>4. version' \in [Subjects -> 0..MaxPresses]
    BY ReturnVersions
  <2>5. \A t \in Tabs : [drawn[t] EXCEPT !.v = version'[About(t)]] \in
                          [v : 0..MaxPresses, state : States]
    <3>1. ASSUME NEW t \in Tabs
          PROVE  [drawn[t] EXCEPT !.v = version'[About(t)]] \in [v : 0..MaxPresses, state : States]
      <4>1. PICK d \in [v : 0..MaxPresses, state : States] : d = drawn[t]
        BY DEF TabsShaped
      <4>2. PICK w \in 0..MaxPresses : w = version'[About(t)]
        BY <2>3, <2>4
      <4>. QED BY <4>1, <4>2
    <3>. QED BY <3>1
  <2>. QED BY <2>1, <2>2, <2>5 DEF TabsShaped
<1>5. load' \in Loads
  <2>1. load' = load \/ load' = [load EXCEPT !.board = "forgotten"]
    BY DEF Return
  <2>. QED BY <2>1 DEF TabsShaped, Loads
<1>6. ListsShaped'
  BY ReturnLists
<1>7. hitches \subseteq hitches' /\ hitches' \subseteq {"crossed", "failed", "left", "retried"}
  BY DEF Return, Hitch, TabsShaped
<1>8. greyed' \subseteq OwnForms
  BY DEF Return, TabsShaped
<1>9. /\ UNCHANGED <<kind, selected, shown, boardError, refLoaded, refError, presses, visits>>
  BY DEF Return, bounds
<1>10. TabsShaped'
  BY <1>3, <1>4, <1>5, <1>6, <1>7, <1>8, <1>9, ReturnVersions, ShapedAgain DEF TabsShaped
<1>. QED BY <1>3, <1>7, <1>10

LEMMA DrawFailsEffect ==
  ASSUME TabsAssumption, TabsShaped, NEW actor \in Actors, DrawFails(actor)
  PROVE  /\ TabsShaped' /\ Others(actor) /\ job'[actor] = Shown(job[actor])
         /\ job'[actor].step \in {"idle", "free"}
         /\ "failed" \in hitches'
<1>0. PICK m : m = Shown(job[actor])
  OBVIOUS
<1>1. job \in [Actors -> Work] /\ job' = [job EXCEPT ![actor] = m]
  BY <1>0 DEF TabsShaped, DrawFails
<1>4. m \in Work /\ m.step \in {"idle", "free"}
  BY <1>0, <1>1, ShownIs
<1>2. job' \in [Actors -> Work] /\ job'[actor] = m /\ Others(actor)
  BY <1>1, <1>4, JobSet
<1>5. ListsShaped'
  BY ListsSame DEF DrawFails, board, lists
<1>3. TabsShaped'
  BY <1>2, <1>5, ShapedAgain DEF DrawFails, board, bounds, TabsShaped
<1>. QED BY <1>0, <1>2, <1>3, <1>4 DEF DrawFails

LEMMA FreeEffect ==
  ASSUME TabsAssumption, TabsShaped, NEW actor \in Actors, Free(actor)
  PROVE  /\ TabsShaped' /\ Others(actor) /\ job'[actor] = NoJob /\ job[actor].step = "free"
<1>1. job \in [Actors -> Work] /\ job' = [job EXCEPT ![actor] = NoJob] /\ job[actor].step = "free"
  BY DEF TabsShaped, Free
<1>2. job' \in [Actors -> Work] /\ job'[actor] = NoJob /\ Others(actor)
  BY <1>1, NoWork, JobSet
<1>3. ListsShaped'
  BY ListsSame DEF Free, board, lists
<1>4. greyed' \subseteq OwnForms
  BY DEF Free, TabsShaped
<1>5. TabsShaped'
  BY <1>2, <1>3, <1>4, ShapedAgain DEF Free, board, ghosts, bounds, TabsShaped
<1>. QED BY <1>1, <1>2, <1>5

\* Where a drawing of tab has the version v from: the database, or a list.
Source(tab, v) ==
  \/ v = version[About(tab)]
  \/ About(tab) = "nothing" /\ v = 0
  \/ About(tab) = "complaints" /\ ((listed /\ v = rows) \/ v = Since \/ v \in list)

\* A drawing may have a list read.
ListsDrawn ==
  /\ UNCHANGED <<listed, rows, list>>
  /\ fetch' = fetch \/ fetch' = fetch \cup {version["complaints"]}
  /\ \/ load'.since = load.since /\ (load'.board # "none" => load.board # "none")
     \/ load'.since = Since

\* What a drawing of actor reads of what its tab shows, and how it turns out.
Drawn(actor, state) ==
  /\ job'[actor].step = "place"
  /\ state = "ready" => Source(job[actor].tab, job'[actor].v)
  /\ job'[actor].state = state /\ job'[actor].tab = job[actor].tab
  /\ job'[actor].form = job[actor].form /\ job'[actor].current = job[actor].current

LEMMA DrawSets ==
  ASSUME TabsAssumption, TabsShaped, NEW actor \in Actors, job[actor].step = "draw",
         NEW state \in States, NEW v \in 0..MaxPresses,
         state = "ready" => Source(job[actor].tab, v),
         job' = [job EXCEPT ![actor].step = "place", ![actor].v = v, ![actor].state = state]
  PROVE  /\ job' \in [Actors -> Work] /\ Others(actor) /\ Drawn(actor, state)
         /\ job[actor].tab \in Tabs
<1>1. job \in [Actors -> Work] /\ job[actor] \in Work
  BY DEF TabsShaped
<1>2. job[actor].tab \in Tabs
  BY <1>1, WorkIs
<1>4. PICK j \in Work : j = job[actor]
  BY <1>1
<1>5. PICK k : k = [j EXCEPT !.step = "place", !.v = v, !.state = state]
  OBVIOUS
<1>6. job' = [job EXCEPT ![actor] = k]
  BY <1>1, <1>4, <1>5
<1>3. j \in Job /\ j.tab \in Tabs
  BY <1>2, <1>4, WorkIs
<1>8. /\ k.step = "place" /\ k.v = v /\ k.state = state /\ k.tab = j.tab
      /\ k.form = j.form
  BY <1>3, <1>5 DEF Job
<1>9. k.current = j.current /\ k.direct = j.direct
  BY <1>3, <1>5 DEF Job
<1>7. k \in Work
  <2>1. k \in Job
    BY <1>3, <1>5 DEF Job
  <2>2. /\ k.current => k.form # NoForm /\ Form[k.form].greys
        /\ k.direct => k.form = NoForm
    BY <1>8, <1>9, WorkIs
  <2>. QED BY <1>3, <1>8, <2>1, <2>2, IsWork
<1>10. job' \in [Actors -> Work] /\ job'[actor] = k /\ Others(actor)
  BY <1>1, <1>6, <1>7, JobSet
<1>11. Drawn(actor, state)
  BY <1>4, <1>8, <1>9, <1>10 DEF Drawn
<1>. QED BY <1>2, <1>10, <1>11

\* Why a drawing of actor is a progress ring.
Waits(actor) ==
  \/ /\ job[actor].tab = 0
     /\ \/ load'.board # "none"
        \/ kind = "Student" /\ job[actor].direct /\ ~listed /\ ~boardError
  \/ /\ kind = "Student" /\ job[actor].tab \in {1, 2}
     /\ \/ load'.reference # "none"
        \/ job[actor].direct /\ ~refLoaded /\ ~refError

\* The loads go on, and what is answered stays so unless a load begins.
LoadsGoOn ==
  /\ load.board # "none" => load'.board # "none"
  /\ load.reference # "none" => load'.reference # "none"
  /\ load'.board = "forgotten" => load.board = "forgotten"
  /\ listed => listed'
  /\ boardError => boardError' \/ load'.board # "none"
  /\ refLoaded => refLoaded'
  /\ refError => refError' \/ (kind = "Student" /\ load'.reference # "none")

LEMMA DrawBoardEffect ==
  ASSUME TabsAssumption, TabsShaped, NEW actor \in Actors, job[actor].step = "draw",
         kind' = kind, DrawBoard(actor)
  PROVE  /\ job' \in [Actors -> Work] /\ Others(actor)
         /\ \E state \in States : Drawn(actor, state) /\ (state = "loading" => Waits(actor))
         /\ LoadsGoOn
         /\ load' \in Loads /\ ListsDrawn /\ ListsShaped'
         /\ boardError' \in BOOLEAN /\ UNCHANGED <<refLoaded, refError>>
<1>. DEFINE starts == ~listed /\ load.board = "none"
                      /\ IF kind = "Student" THEN ~job[actor].direct ELSE ~boardError
            state == IF listed THEN "ready" ELSE IF boardError' THEN "error" ELSE "loading"
            v == IF listed THEN rows ELSE 0
<1>1. job[actor] \in Work /\ job[actor].tab \in Tabs
  BY WorkIs DEF TabsShaped
<1>2. job[actor].tab = 0
  <2>1. NameOf(job[actor].tab) = "dashboard"
    BY DEF DrawBoard
  <2>. QED BY <1>1, <2>1, KindGiven
<1>3. /\ load' = IF starts THEN [load EXCEPT !.board = "running", !.since = Since] ELSE load
      /\ boardError' = (boardError /\ ~starts)
      /\ UNCHANGED <<listed, rows, list, fetch, refLoaded, refError>>
  BY DEF DrawBoard, lists
<1>4. job' = [job EXCEPT ![actor].step = "place", ![actor].v = v, ![actor].state = state]
  BY DEF DrawBoard
<1>12. v \in 0..MaxPresses
  BY DEF TabsShaped, ListsShaped, TabsAssumption
<1>5. About(job[actor].tab) = "complaints"
  <2>1. NameOf(job[actor].tab) = "dashboard"
    BY DEF DrawBoard
  <2>. QED BY <2>1 DEF About, SubjectOf
<1>6. state \in States
  BY DEF States
<1>7. job' \in [Actors -> Work] /\ Others(actor) /\ Drawn(actor, state)
  <2>1. PICK s \in States : s = state
    BY <1>6
  <2>2. PICK w \in 0..MaxPresses : w = v
    BY <1>12
  <2>3. job' = [job EXCEPT ![actor].step = "place", ![actor].v = w, ![actor].state = s]
    BY <1>4, <2>1, <2>2
  <2>4. s = "ready" => Source(job[actor].tab, w)
    BY <1>5, <2>1, <2>2 DEF Source
  <2>. HIDE DEF state, v
  <2>. QED BY <2>1, <2>3, <2>4, DrawSets
<1>8. load \in Loads /\ listed \in BOOLEAN /\ boardError \in BOOLEAN
  BY DEF TabsShaped, ListsShaped
<1>9. load' \in Loads /\ boardError' \in BOOLEAN
  BY <1>3, <1>8, SinceIs DEF Loads
<1>13. ListsDrawn /\ ListsShaped'
  <2>2. (load'.since = load.since /\ load'.board = load.board) \/ load'.since = Since
    BY <1>3, <1>8 DEF Loads
  <2>. QED BY <1>3, <2>2, ListsSame DEF ListsDrawn
<1>10. LoadsGoOn
  <2>1. CASE starts
    BY <1>3, <1>8, <2>1 DEF LoadsGoOn, Loads
  <2>2. CASE ~starts
    BY <1>3, <1>8, <2>2 DEF LoadsGoOn
  <2>. QED BY <2>1, <2>2
<1>11. state = "loading" => Waits(actor)
  <2>1. CASE starts
    BY <1>2, <1>3, <1>8, <2>1 DEF Waits, Loads
  <2>2. CASE ~starts
    BY <1>2, <1>3, <1>8, <2>2 DEF Waits
  <2>. QED BY <2>1, <2>2
<1>. QED BY <1>3, <1>6, <1>7, <1>9, <1>10, <1>11, <1>13

LEMMA DrawReferenceEffect ==
  ASSUME TabsAssumption, TabsShaped, NEW actor \in Actors, job[actor].step = "draw",
         kind' = kind, NEW warm \in BOOLEAN, DrawWithReference(actor, warm)
  PROVE  /\ job' \in [Actors -> Work] /\ Others(actor)
         /\ \E state \in States : Drawn(actor, state) /\ (state = "loading" => Waits(actor))
         /\ LoadsGoOn
         /\ load' \in Loads /\ ListsDrawn /\ ListsShaped'
         /\ refLoaded' \in BOOLEAN /\ refError' \in BOOLEAN /\ UNCHANGED boardError
<1>. DEFINE waits == ~refLoaded /\ ~warm
            starts == waits /\ load.reference = "none" /\ ~job[actor].direct
            state == IF ~waits THEN "ready" ELSE IF refError' THEN "error" ELSE "loading"
            mine == ~waits /\ NameOf(job[actor].tab) = "complaints"
            asks == mine /\ ~listed /\ load.board = "none" /\ fetch = {}
            v == IF ~mine THEN 0 ELSE IF listed THEN rows ELSE Since
<1>1. job[actor] \in Work /\ job[actor].tab \in Tabs
  BY WorkIs DEF TabsShaped
<1>2. kind = "Student" /\ job[actor].tab \in {1, 2}
  <2>1. kind = "Student" /\ NameOf(job[actor].tab) \in {"new", "complaints"}
    BY DEF DrawWithReference
  <2>2. kind \in DOMAIN TabsOf
    BY KindGiven
  <2>. QED BY <1>1, <2>1, <2>2, TabNamed DEF NameOf
<1>3. /\ refLoaded' = ~waits /\ (warm => ~refLoaded)
      /\ load' = IF starts THEN [load EXCEPT !.reference = "running"] ELSE load
      /\ refError' = (refError /\ ~starts)
      /\ fetch' = IF asks THEN {version["complaints"]} ELSE fetch
      /\ UNCHANGED <<listed, rows, list, boardError>>
  BY DEF DrawWithReference
<1>4. job' = [job EXCEPT ![actor].step = "place", ![actor].v = v, ![actor].state = state]
  BY DEF DrawWithReference
<1>5. /\ mine => About(job[actor].tab) = "complaints"
      /\ ~waits /\ ~mine => About(job[actor].tab) = "nothing"
  <2>1. NameOf(job[actor].tab) \in {"new", "complaints"}
    BY DEF DrawWithReference
  <2>2. SubjectOf["complaints"] = "complaints" /\ SubjectOf["new"] = "nothing"
    BY DEF SubjectOf
  <2>. QED BY <2>1, <2>2 DEF About
<1>13. v \in 0..MaxPresses
  BY SinceIs DEF TabsShaped, ListsShaped, TabsAssumption
<1>6. state \in States
  BY DEF States
<1>7. job' \in [Actors -> Work] /\ Others(actor) /\ Drawn(actor, state)
  <2>1. PICK s \in States : s = state
    BY <1>6
  <2>2. PICK w \in 0..MaxPresses : w = v
    BY <1>13
  <2>3. job' = [job EXCEPT ![actor].step = "place", ![actor].v = w, ![actor].state = s]
    BY <1>4, <2>1, <2>2
  <2>4. s = "ready" => Source(job[actor].tab, w)
    BY <1>5, <2>1, <2>2 DEF Source
  <2>. HIDE DEF state, v
  <2>. QED BY <2>1, <2>3, <2>4, DrawSets
<1>8. load \in Loads
      /\ listed \in BOOLEAN /\ refLoaded \in BOOLEAN /\ refError \in BOOLEAN
  BY DEF TabsShaped, ListsShaped
<1>9. load' \in Loads
  BY <1>3, <1>8 DEF Loads
<1>10. refLoaded' \in BOOLEAN /\ refError' \in BOOLEAN /\ (listed => listed')
  BY <1>3, <1>8
<1>14. ListsDrawn /\ ListsShaped'
  <2>1. load'.since = load.since /\ load'.board = load.board
    BY <1>3, <1>8 DEF Loads
  <2>2. asks => fetch = {}
    OBVIOUS
  <2>3. ListsDrawn
    BY <1>3, <2>1, <2>2 DEF ListsDrawn
  <2>4. version["complaints"] \in 0..MaxPresses
    BY SubjectsAre DEF TabsShaped
  <2>. HIDE DEF asks
  <2>5. ListsShaped'
    BY <1>2, <1>3, <2>4 DEF TabsShaped, ListsShaped
  <2>. QED BY <2>3, <2>5
<1>11. LoadsGoOn
  <2>1. CASE starts
    BY <1>2, <1>3, <1>8, <1>10, <2>1 DEF LoadsGoOn, Loads
  <2>2. CASE ~starts
    BY <1>2, <1>3, <1>8, <1>10, <2>2 DEF LoadsGoOn
  <2>. QED BY <2>1, <2>2
<1>12. state = "loading" => Waits(actor)
  <2>1. CASE starts
    BY <1>2, <1>3, <1>8, <2>1 DEF Waits, Loads
  <2>2. CASE ~starts
    BY <1>2, <1>3, <1>8, <2>2 DEF Waits
  <2>. QED BY <2>1, <2>2
<1>. QED BY <1>3, <1>6, <1>7, <1>9, <1>10, <1>11, <1>12, <1>14

LEMMA DrawListEffect ==
  ASSUME TabsAssumption, TabsShaped, NEW actor \in Actors, job[actor].step = "draw",
         kind' = kind, DrawList(actor)
  PROVE  /\ job' \in [Actors -> Work] /\ Others(actor) /\ Drawn(actor, "ready")
         /\ LoadsGoOn /\ ListsDrawn /\ ListsShaped'
<1>1. About(job[actor].tab) = "complaints" /\ kind # "Student"
  BY DEF DrawList, About, SubjectOf
<1>2. version["complaints"] \in 0..MaxPresses
  BY SubjectsAre DEF TabsShaped
<1>3. PICK v \in IF list = {} THEN {version["complaints"]} ELSE list :
        job' = [job EXCEPT ![actor].step = "place", ![actor].v = v, ![actor].state = "ready"]
  BY DEF DrawList
<1>4. v \in 0..MaxPresses /\ Source(job[actor].tab, v)
  BY <1>1, <1>2, <1>3 DEF TabsShaped, ListsShaped, Source
<1>5. job' \in [Actors -> Work] /\ Others(actor) /\ Drawn(actor, "ready")
  BY <1>3, <1>4, DrawSets DEF States
<1>6. /\ fetch' = IF list = {} THEN fetch \cup {version["complaints"]} ELSE fetch
      /\ UNCHANGED <<listed, rows, list, boardError, refLoaded, refError, load>>
  BY DEF DrawList
<1>7. LoadsGoOn /\ ListsDrawn
  BY <1>6 DEF LoadsGoOn, ListsDrawn
<1>8. ListsShaped'
  BY <1>1, <1>2, <1>6 DEF TabsShaped, ListsShaped
<1>. QED BY <1>5, <1>7, <1>8

LEMMA DrawAnotherEffect ==
  ASSUME TabsAssumption, TabsShaped, NEW actor \in Actors, job[actor].step = "draw",
         kind' = kind, DrawAnother(actor)
  PROVE  /\ job' \in [Actors -> Work] /\ Others(actor) /\ Drawn(actor, "ready")
         /\ LoadsGoOn /\ ListsDrawn /\ ListsShaped'
<1>1. job' = [job EXCEPT ![actor].step = "place",
                         ![actor].v = version[About(job[actor].tab)],
                         ![actor].state = "ready"]
  BY DEF DrawAnother
<1>2. "ready" \in States
  BY DEF States
<1>3. PICK v \in 0..MaxPresses : v = version[About(job[actor].tab)]
  <2>1. job[actor].tab \in Tabs
    BY WorkIs DEF TabsShaped
  <2>2. About(job[actor].tab) \in Subjects
    BY <2>1, KindGiven
  <2>. QED BY <2>2 DEF TabsShaped
<1>4. job' = [job EXCEPT ![actor].step = "place", ![actor].v = v, ![actor].state = "ready"]
  BY <1>1, <1>3
<1>5. job' \in [Actors -> Work] /\ Others(actor) /\ Drawn(actor, "ready")
  BY <1>2, <1>3, <1>4, DrawSets DEF Source
<1>6. LoadsGoOn /\ ListsDrawn
  BY DEF DrawAnother, board, lists, LoadsGoOn, ListsDrawn
<1>7. ListsShaped'
  BY ListsSame DEF DrawAnother, board, lists
<1>. QED BY <1>5, <1>6, <1>7

LEMMA DrawEffect ==
  ASSUME TabsAssumption, TabsShaped, NEW actor \in Actors, Draw(actor)
  PROVE  /\ TabsShaped' /\ Others(actor) /\ LoadsGoOn /\ ListsDrawn
         /\ \E state \in States : Drawn(actor, state) /\ (state = "loading" => Waits(actor))
<1>1. /\ job[actor].step = "draw"
      /\ UNCHANGED <<kind, version, own, selected, shown, drawn, greyed, raised, hitches,
                     presses, visits>>
  BY DEF Draw, ghosts, bounds
<1>2. CASE DrawBoard(actor)
  <2>1. TabsShaped'
    BY <1>1, <1>2, DrawBoardEffect, ShapedAgain DEF TabsShaped
  <2>. QED BY <1>1, <1>2, <2>1, DrawBoardEffect
<1>3. CASE DrawAnother(actor)
  <2>1. "ready" \in States
    BY DEF States
  <2>2. TabsShaped'
    BY <1>1, <1>3, DrawAnotherEffect, ShapedAgain DEF TabsShaped, DrawAnother, board
  <2>. QED BY <1>1, <1>3, <2>1, <2>2, DrawAnotherEffect
<1>5. CASE DrawList(actor)
  <2>1. "ready" \in States
    BY DEF States
  <2>2. TabsShaped'
    BY <1>1, <1>5, DrawListEffect, ShapedAgain DEF TabsShaped, DrawList
  <2>. QED BY <1>1, <1>5, <2>1, <2>2, DrawListEffect
<1>4. ASSUME NEW warm \in BOOLEAN, DrawWithReference(actor, warm)
      PROVE  /\ TabsShaped' /\ Others(actor) /\ LoadsGoOn /\ ListsDrawn
             /\ \E state \in States : Drawn(actor, state) /\ (state = "loading" => Waits(actor))
  <2>1. TabsShaped'
    BY <1>1, <1>4, DrawReferenceEffect, ShapedAgain DEF TabsShaped
  <2>. QED BY <1>1, <1>4, <2>1, DrawReferenceEffect
<1>. QED BY <1>2, <1>3, <1>4, <1>5 DEF Draw

\* The forms whose button a new drawing of tab makes anew.
NewButtons(tab) == {f \in Forms : NameOf(tab) \in Form[f].on /\ ~Form[f].dialog}

LEMMA PlaceEffect ==
  ASSUME TabsAssumption, TabsShaped, NEW actor \in Actors, Place(actor)
  PROVE  /\ TabsShaped' /\ job[actor].tab \in Tabs
         /\ job'[actor] = Shown(job[actor]) /\ job'[actor].step \in {"idle", "free"}
         /\ \A b \in Actors \ {actor} : Loses(b, NewButtons(job[actor].tab))
         /\ shown'.tab = job[actor].tab /\ shown'.state = job[actor].state
         /\ \A t \in Tabs : \/ drawn'[t] = drawn[t]
                            \/ /\ t = job[actor].tab /\ ~job[actor].direct
                               /\ drawn'[t].v = job[actor].v
                               /\ drawn'[t].state = job[actor].state
<1>. DEFINE tab == job[actor].tab
            keeps == ~job[actor].direct /\ (kind = "Student" /\ tab = 0 => listed)
            put == [v |-> job[actor].v, state |-> job[actor].state]
<1>1. job \in [Actors -> Work] /\ job[actor] \in Work /\ job[actor].step = "place"
  BY DEF TabsShaped, Place
<1>2. job[actor].tab \in Tabs /\ job[actor].v \in 0..MaxPresses /\ job[actor].state \in States
  <2>1. job[actor] \in Job /\ job[actor].tab \in Tabs
    BY <1>1, WorkIs
  <2>. QED BY <2>1 DEF Job
<1>3. job' = [a \in Actors |-> IF a = actor THEN Shown(job[a])
                               ELSE IF job[a].form \in NewButtons(job[actor].tab)
                               THEN [job[a] EXCEPT !.current = FALSE]
                               ELSE job[a]]
  BY DEF Place, NewButtons
<1>4. ASSUME NEW b \in Actors \ {actor}
      PROVE  job'[b] \in Work /\ Loses(b, NewButtons(job[actor].tab))
  <2>0. job[b] \in Work
    BY <1>1
  <2>1. CASE job[b].form \in NewButtons(job[actor].tab)
    <3>1. job'[b] = [job[b] EXCEPT !.current = FALSE]
      BY <1>3, <2>1
    <3>2. job'[b] \in Work
      BY <2>0, <3>1, ButtonLost
    <3>3. /\ job'[b].step = job[b].step /\ job'[b].tab = job[b].tab
          /\ job'[b].v = job[b].v /\ job'[b].state = job[b].state
          /\ job'[b].form = job[b].form /\ job'[b].direct = job[b].direct
          /\ job'[b].current = FALSE
      BY <2>0, <3>1 DEF Work, Job
    <3>. QED BY <2>1, <3>2, <3>3 DEF Loses
  <2>2. CASE job[b].form \notin NewButtons(job[actor].tab)
    <3>1. job'[b] = job[b]
      BY <1>3, <2>2
    <3>. QED BY <2>0, <2>2, <3>1 DEF Loses
  <2>. QED BY <2>1, <2>2
<1>5. job'[actor] = Shown(job[actor])
  BY <1>3
<1>15. job'[actor] \in Work /\ job'[actor].step \in {"idle", "free"}
  BY <1>1, <1>5, ShownIs
<1>16. ListsShaped'
  BY ListsSame DEF Place, board, lists
<1>6. job' \in [Actors -> Work]
  <2>1. \A b \in Actors : job'[b] \in Work
    BY <1>4, <1>15
  <2>2. job' = [b \in Actors |-> job'[b]]
    BY <1>3
  <2>. QED BY <2>1, <2>2
<1>7. shown' = [tab |-> job[actor].tab, state |-> job[actor].state]
  BY DEF Place
<1>8. shown' \in [tab : Tabs, state : States]
  BY <1>2, <1>7
<1>9. drawn \in [Tabs -> [v : 0..MaxPresses, state : States]]
      /\ put \in [v : 0..MaxPresses, state : States]
  BY <1>2 DEF TabsShaped
<1>10. drawn' = IF keeps THEN [drawn EXCEPT ![tab] = put] ELSE drawn
  BY DEF Place
<1>11. \A t \in Tabs : \/ drawn'[t] = drawn[t]
                       \/ /\ t = job[actor].tab /\ ~job[actor].direct
                          /\ drawn'[t].v = job[actor].v
                          /\ drawn'[t].state = job[actor].state
  BY <1>2, <1>9, <1>10
<1>12. drawn' \in [Tabs -> [v : 0..MaxPresses, state : States]]
  <2>. HIDE DEF put, keeps
  <2>. QED BY <1>2, <1>9, <1>10
<1>13. greyed' \subseteq OwnForms
  BY DEF Place, TabsShaped
<1>14. TabsShaped'
  BY <1>6, <1>8, <1>12, <1>13, <1>16, ShapedAgain DEF TabsShaped, Place, board, bounds
<1>. QED BY <1>2, <1>4, <1>5, <1>7, <1>11, <1>14, <1>15

\* A thread begins to draw tab at the end of a load.
LoadDraws(tab) ==
  \E thread \in Actors : /\ Others(thread) /\ job[thread] = NoJob
                         /\ job'[thread].step = "draw" /\ job'[thread].tab = tab
                         /\ ~job'[thread].current

LEMMA ThreadDraws ==
  ASSUME TabsAssumption, TabsShaped, NEW tab \in Tabs, NEW thread \in Threads,
         job[thread].step = "idle",
         job' = [job EXCEPT ![thread] =
                   [NoJob EXCEPT !.step = "draw", !.tab = tab, !.direct = TRUE]]
  PROVE  job' \in [Actors -> Work] /\ LoadDraws(tab)
<1>. DEFINE k == [NoJob EXCEPT !.step = "draw", !.tab = tab, !.direct = TRUE]
<1>1. k \in Work /\ k.step = "draw" /\ k.tab = tab /\ ~k.current
  BY DirectBegins
<1>. HIDE DEF k
<1>2. thread \in Actors /\ job \in [Actors -> Work] /\ job[thread] = NoJob
  BY KindGiven, WorkIs DEF TabsShaped
<1>3. job' \in [Actors -> Work] /\ job'[thread] = k /\ Others(thread)
  BY <1>1, <1>2, JobSet DEF k
<1>. QED BY <1>1, <1>2, <1>3 DEF LoadDraws

LEMMA BoardLoadedEffect ==
  ASSUME TabsAssumption, TabsShaped, NEW outcome \in {"rows", "failed", "gone"},
         BoardLoaded(outcome)
  PROVE  /\ TabsShaped'
         /\ (job' = job /\ selected # 0) \/ (LoadDraws(0) /\ selected = 0)
         /\ load.board # "none" /\ load'.board = "none" /\ load'.reference = load.reference
         /\ listed' \/ boardError' \/ load.board = "forgotten"
         /\ \A t \in Tabs \ {0} : drawn'[t] = drawn[t]
         /\ \/ drawn'[0].state = "none" /\ drawn'[0].v = 0
            \/ /\ kind # "Student" /\ selected # 0 /\ drawn'[0] = drawn[0]
               /\ drawn[0].state = "loading" => "left" \in hitches'
         /\ hitches \subseteq hitches'
         /\ (\E a \in Actors : Drawing(a)) => "crossed" \in hitches'
<1>1. /\ load.board # "none" /\ (outcome = "gone" => load.board = "forgotten")
      /\ load' = [load EXCEPT !.board = "none", !.since = 0]
      /\ listed' = (listed \/ outcome = "rows") /\ boardError' = (outcome = "failed")
      /\ rows' = IF outcome = "rows" THEN load.since ELSE rows
      /\ UNCHANGED <<list, fetch, kind>>
  BY DEF BoardLoaded
<1>2. load \in Loads /\ MaxPresses \in Nat
  BY DEF TabsShaped, TabsAssumption
<1>3. /\ load' \in Loads
      /\ load'.board = "none" /\ load'.reference = load.reference
  <2>1. 0 \in 0..MaxPresses
    BY <1>2
  <2>2. PICK n \in 0..MaxPresses : n = 0
    BY <2>1
  <2>3. load' = [load EXCEPT !.board = "none", !.since = n]
    BY <1>1, <2>2
  <2>. QED BY <1>2, <2>3 DEF Loads
<1>15. ListsShaped'
  BY <1>1, <1>2 DEF TabsShaped, ListsShaped, Loads
<1>4. job' \in [Actors -> Work] /\ ((job' = job /\ selected # 0) \/ (LoadDraws(0) /\ selected = 0))
  <2>0. 0 \in Tabs /\ job \in [Actors -> Work]
    BY DEF Tabs, TabsShaped
  <2>1. CASE job' = job /\ selected # 0
    BY <2>0, <2>1
  <2>2. ASSUME selected = 0, NEW thread \in Threads, job[thread].step = "idle",
               job' = [job EXCEPT ![thread] = [NoJob EXCEPT !.step = "draw", !.direct = TRUE]]
        PROVE  job' \in [Actors -> Work] /\ LoadDraws(0)
    BY <2>0, <2>2, DirectBoard, ThreadDraws
  <2>. QED BY <2>1, <2>2 DEF BoardLoaded
<1>5. drawn' = IF kind = "Student" \/ selected = 0 THEN [drawn EXCEPT ![0] = NotKept] ELSE drawn
  BY DEF BoardLoaded
<1>6. NotKept \in [v : 0..MaxPresses, state : States] /\ NotKept.state = "none" /\ NotKept.v = 0
  BY DEF NotKept, States, TabsAssumption
<1>7. drawn \in [Tabs -> [v : 0..MaxPresses, state : States]] /\ 0 \in Tabs
  BY DEF TabsShaped, Tabs
<1>8. /\ drawn' \in [Tabs -> [v : 0..MaxPresses, state : States]]
      /\ \A t \in Tabs \ {0} : drawn'[t] = drawn[t]
      /\ \/ drawn'[0].state = "none" /\ drawn'[0].v = 0
         \/ kind # "Student" /\ selected # 0 /\ drawn'[0] = drawn[0]
  BY <1>5, <1>6, <1>7
<1>9. hitches' = hitches \cup Hitch("left", ~(kind = "Student" \/ selected = 0)
                                            /\ drawn[0].state = "loading")
                         \cup Hitch("crossed", \E a \in Actors : job[a].step \in {"draw", "place"})
  BY DEF BoardLoaded
<1>10. hitches \subseteq hitches' /\ hitches' \subseteq {"crossed", "failed", "left", "retried"}
  BY <1>9 DEF Hitch, TabsShaped
<1>11. (\E a \in Actors : Drawing(a)) => "crossed" \in hitches'
  BY <1>9 DEF Hitch, Drawing
<1>12. kind # "Student" /\ selected # 0 /\ drawn[0].state = "loading" => "left" \in hitches'
  BY <1>9 DEF Hitch
<1>13. /\ boardError' \in BOOLEAN
       /\ listed' \/ boardError' \/ load.board = "forgotten"
  BY <1>1
<1>14. TabsShaped'
  BY <1>3, <1>4, <1>8, <1>10, <1>13, <1>15, ShapedAgain DEF TabsShaped, BoardLoaded, bounds
<1>. QED BY <1>1, <1>3, <1>4, <1>8, <1>10, <1>11, <1>12, <1>13, <1>14

LEMMA ReferenceLoadedEffect ==
  ASSUME TabsAssumption, TabsShaped, NEW succeeds \in BOOLEAN, ReferenceLoaded(succeeds)
  PROVE  /\ TabsShaped'
         /\ (job' = job /\ selected \notin {1, 2}) \/ (LoadDraws(selected) /\ selected \in {1, 2})
         /\ load'.reference = "none" /\ load'.board = load.board
         /\ refLoaded' \/ refError'
         /\ \A t \in Tabs \ {1, 2} : drawn'[t] = drawn[t]
         /\ \A t \in {1, 2} : drawn'[t].state = "none" /\ drawn'[t].v = 0
         /\ hitches \subseteq hitches'
         /\ (\E a \in Actors : Drawing(a)) => "crossed" \in hitches'
<1>1. /\ load' = [load EXCEPT !.reference = "none"]
      /\ refLoaded' = (refLoaded \/ succeeds) /\ refError' = ~succeeds
  BY DEF ReferenceLoaded
<1>2. load \in Loads /\ refLoaded \in BOOLEAN
  BY DEF TabsShaped
<1>3. /\ load' \in Loads
      /\ load'.reference = "none" /\ load'.board = load.board
  BY <1>1, <1>2 DEF Loads
<1>14. ListsShaped'
  BY ListsSame DEF ReferenceLoaded, lists
<1>4. /\ job' \in [Actors -> Work]
      /\ (job' = job /\ selected \notin {1, 2}) \/ (LoadDraws(selected) /\ selected \in {1, 2})
  <2>0. selected \in Tabs /\ job \in [Actors -> Work]
    BY DEF TabsShaped
  <2>1. CASE job' = job /\ selected \notin {1, 2}
    BY <2>0, <2>1
  <2>2. ASSUME NEW tab \in Tabs, tab = selected, NEW thread \in Threads, job[thread].step = "idle",
               job' = [job EXCEPT ![thread] =
                         [NoJob EXCEPT !.step = "draw", !.tab = tab, !.direct = TRUE]]
        PROVE  job' \in [Actors -> Work] /\ LoadDraws(tab)
    BY <2>2, ThreadDraws
  <2>3. PICK tab \in Tabs : tab = selected
    BY <2>0
  <2>4. \/ job' = job /\ selected \notin {1, 2}
        \/ /\ selected \in {1, 2}
           /\ \E thread \in Threads :
                /\ job[thread].step = "idle"
                /\ job' = [job EXCEPT ![thread] =
                             [NoJob EXCEPT !.step = "draw", !.tab = tab, !.direct = TRUE]]
    BY <2>3 DEF ReferenceLoaded, Waiting
  <2>. QED BY <2>1, <2>2, <2>3, <2>4
<1>5. drawn' = [t \in Tabs |-> IF t \in {1, 2} THEN NotKept ELSE drawn[t]]
  BY DEF ReferenceLoaded, Waiting
<1>6. NotKept \in [v : 0..MaxPresses, state : States] /\ NotKept.state = "none" /\ NotKept.v = 0
  BY DEF NotKept, States, TabsAssumption
<1>7. drawn \in [Tabs -> [v : 0..MaxPresses, state : States]] /\ {1, 2} \subseteq Tabs
  BY DEF TabsShaped, Tabs
<1>8. /\ drawn' \in [Tabs -> [v : 0..MaxPresses, state : States]]
      /\ \A t \in Tabs \ {1, 2} : drawn'[t] = drawn[t]
      /\ \A t \in {1, 2} : drawn'[t].state = "none" /\ drawn'[t].v = 0
  BY <1>5, <1>6, <1>7
<1>9. hitches' = hitches \cup Hitch("crossed", \E a \in Actors : job[a].step \in {"draw", "place"})
  BY DEF ReferenceLoaded
<1>10. hitches \subseteq hitches' /\ hitches' \subseteq {"crossed", "failed", "left", "retried"}
  BY <1>9 DEF Hitch, TabsShaped
<1>11. (\E a \in Actors : Drawing(a)) => "crossed" \in hitches'
  BY <1>9 DEF Hitch, Drawing
<1>12. refLoaded' \in BOOLEAN /\ refError' \in BOOLEAN /\ (refLoaded' \/ refError')
  BY <1>1
<1>13. TabsShaped'
  BY <1>3, <1>4, <1>8, <1>10, <1>12, <1>14, ShapedAgain DEF TabsShaped, ReferenceLoaded, bounds
<1>. QED BY <1>3, <1>4, <1>8, <1>10, <1>11, <1>12, <1>13

LEMMA ListReadEffect ==
  ASSUME TabsAssumption, TabsShaped, NEW v \in fetch, NEW succeeds \in BOOLEAN,
         ListRead(v, succeeds)
  PROVE  TabsShaped' /\ fetch' \subseteq fetch /\ (listed => listed')
<1>1. /\ fetch' \subseteq fetch /\ listed' = (listed \/ (succeeds /\ kind = "Student"))
      /\ rows' = IF succeeds /\ kind = "Student" THEN v ELSE rows
      /\ list' = IF succeeds /\ kind # "Student" THEN {v} ELSE list
      /\ kind' = kind
  BY DEF ListRead
<1>2. ListsShaped'
  BY <1>1 DEF TabsShaped, ListsShaped
<1>3. TabsShaped'
  BY <1>2, ShapedAgain DEF TabsShaped, ListRead, ghosts, bounds
<1>. QED BY <1>1, <1>3

-----------------------------------------------------------------------------
(* The shape of the tabs, with the count of the presses.                   *)

LEMMA AccountsKept ==
  ASSUME Accounted, \A a \in Actors : job'[a].step = "call" <=> job[a].step = "call",
         version' = version, presses' = presses
  PROVE  Accounted'
<1>1. InCall' = InCall
  BY DEF InCall
<1>. QED BY <1>1 DEF Accounted

LEMMA PressAccounts ==
  ASSUME TabsAssumption, FormsAssumption, TabsShaped, Accounted, NEW form, Press(form)
  PROVE  Accounted'
<1>1. PICK actor \in Actors :
        Others(actor) /\ job[actor] = NoJob /\ job'[actor].step = "call"
  BY PressEffect
<1>2. InCall' = InCall \cup {actor} /\ actor \notin InCall
  BY <1>1, NoWork DEF InCall, Others
<1>3. IsFiniteSet(InCall') /\ Cardinality(InCall') = Cardinality(InCall) + 1
  BY <1>2, FS_AddElement DEF Accounted
<1>4. Cardinality(InCall) \in Nat
  BY FS_CardinalityType DEF Accounted
<1>5. version' = version /\ presses' = presses + 1 /\ version \in [Subjects -> 0..MaxPresses]
      /\ presses \in Nat /\ MaxPresses \in Nat
  BY DEF Press, TabsShaped, TabsAssumption
<1>6. PICK n \in Nat : n = Cardinality(InCall) /\ Cardinality(InCall') = n + 1
  BY <1>3, <1>4
<1>7. \A s \in Subjects : version'[s] + Cardinality(InCall') <= presses'
  BY <1>5, <1>6 DEF Accounted
<1>. QED BY <1>3, <1>7 DEF Accounted

LEMMA ReturnAccounts ==
  ASSUME TabsAssumption, FormsAssumption, TabsShaped, Accounted, NEW actor \in Actors,
         NEW outcome \in Outcomes, Return(actor, outcome)
  PROVE  Accounted'
<1>1. Others(actor) /\ job'[actor].step \in {"idle", "switch"} /\ job[actor].step = "call"
  BY ReturnEffect DEF Return
<1>2. InCall' = InCall \ {actor} /\ actor \in InCall
  BY <1>1 DEF InCall, Others
<1>3. PICK n \in Nat \ {0} : n = Cardinality(InCall) /\ Cardinality(InCall') = n - 1
  BY <1>2, CallsCounted
<1>4. IsFiniteSet(InCall')
  BY <1>2, CallsCounted
<1>5. \A s \in Subjects : version'[s] <= version[s] + 1
  BY ReturnVersions
<1>6. \A s \in Subjects : version'[s] \in Nat /\ version[s] \in Nat
  BY ReturnVersions DEF TabsShaped, TabsAssumption
<1>7. presses' = presses /\ presses \in Nat
  <2>1. presses' = presses
    BY DEF Return, bounds
  <2>2. presses \in 0..MaxPresses /\ MaxPresses \in Nat
    BY DEF TabsShaped, TabsAssumption
  <2>. QED BY <2>1, <2>2
<1>8. \A s \in Subjects : version'[s] + Cardinality(InCall') <= presses'
  BY <1>3, <1>5, <1>6, <1>7 DEF Accounted
<1>. QED BY <1>4, <1>8 DEF Accounted

\* SwitchTo as its two callers make it.
LEMMA Switches ==
  ASSUME TabsAssumption, TabsShaped,
         \/ \E tab \in Tabs : Navigate(tab)
         \/ \E actor \in Actors : SwitchView(actor)
  PROVE  \E actor \in Actors, tab \in Tabs :
           /\ job[actor].step \in {"idle", "switch"} /\ SwitchTo(actor, tab)
           /\ visits' \in 0..MaxVisits
<1>1. CASE \E tab \in Tabs : Navigate(tab)
  <2>1. PICK tab \in Tabs : Navigate(tab)
    BY <1>1
  <2>2. visits' \in 0..MaxVisits
    BY <2>1 DEF Navigate, TabsShaped, TabsAssumption
  <2>3. Loop \in Actors
    BY KindGiven
  <2>. QED BY <2>1, <2>2, <2>3 DEF Navigate
<1>2. CASE \E actor \in Actors : SwitchView(actor)
  <2>1. PICK actor \in Actors : SwitchView(actor)
    BY <1>2
  <2>2. PICK tab : tab = IF job[actor].tab = Selected THEN selected ELSE job[actor].tab
    OBVIOUS
  <2>3. job[actor].tab \in 0..6 /\ selected \in Tabs
    BY WorkIs DEF TabsShaped, Job
  <2>4. tab \in Tabs
    BY <2>2, <2>3 DEF Tabs, Selected
  <2>5. visits' \in 0..MaxVisits
    BY <2>1 DEF SwitchView, TabsShaped
  <2>. QED BY <2>1, <2>2, <2>4, <2>5 DEF SwitchView
<1>. QED BY <1>1, <1>2

LEMMA StepsOfTabs ==
  ASSUME TabsAssumption, TabsShaped, [PortalsNext]_allVars
  PROVE  \/ UNCHANGED vars
         \/ \E actor \in Actors, tab \in Tabs :
              /\ job[actor].step \in {"idle", "switch"} /\ SwitchTo(actor, tab)
              /\ visits' \in 0..MaxVisits
         \/ \E form \in Forms : Press(form)
         \/ \E form \in Forms : Reopen(form)
         \/ RetryBoard
         \/ RetryReference
         \/ \E actor \in Actors, outcome \in Outcomes : Return(actor, outcome)
         \/ \E actor \in Actors : DrawFails(actor)
         \/ \E actor \in Actors : Draw(actor)
         \/ \E actor \in Actors : Place(actor)
         \/ \E outcome \in {"rows", "failed", "gone"} : BoardLoaded(outcome)
         \/ \E succeeds \in BOOLEAN : ReferenceLoaded(succeeds)
         \/ \E actor \in Actors : Free(actor)
         \/ \E v \in fetch, succeeds \in BOOLEAN : ListRead(v, succeeds)
BY TabActs, Switches DEF UserSteps, HandlerSteps, LoadSteps

LEMMA TabsStep ==
  ASSUME TabsAssumption, FormsAssumption, TabsShaped, Accounted, [PortalsNext]_allVars
  PROVE  TabsShaped' /\ Accounted'
<1>1. CASE UNCHANGED vars
  BY <1>1 DEF vars, TabsShaped, ListsShaped, Loads, Accounted, InCall, OwnForms, Work, Job
<1>2. ASSUME NEW actor \in Actors, NEW tab \in Tabs, job[actor].step \in {"idle", "switch"},
             SwitchTo(actor, tab), visits' \in 0..MaxVisits
      PROVE  TabsShaped' /\ Accounted'
  <2>1. TabsShaped' /\ Others(actor) /\ job'[actor].step # "call"
    BY <1>2, SwitchEffect
  <2>. QED BY <1>2, <2>1, AccountsKept DEF Others, SwitchTo
<1>3. ASSUME NEW form \in Forms, Press(form)
      PROVE  TabsShaped' /\ Accounted'
  BY <1>3, PressEffect, PressAccounts
<1>4. ASSUME NEW form \in Forms, Reopen(form)
      PROVE  TabsShaped' /\ Accounted'
  <2>1. TabsShaped' /\ \A a \in Actors : Loses(a, {form})
    BY <1>4, ReopenEffect
  <2>. QED BY <1>4, <2>1, AccountsKept DEF Loses, Reopen, bounds
<1>5. CASE RetryBoard
  <2>1. TabsShaped' /\ Others(Loop) /\ job[Loop] = NoJob /\ job'[Loop].step = "draw"
    BY <1>5, RetryBoardEffect
  <2>. QED BY <1>5, <2>1, NoWork, AccountsKept DEF Others, RetryBoard, bounds
<1>6. CASE RetryReference
  <2>1. TabsShaped'
    BY <1>6, RetryReferenceEffect
  <2>. QED BY <1>6, <2>1, AccountsKept DEF RetryReference, bounds
<1>7. ASSUME NEW actor \in Actors, NEW outcome \in Outcomes, Return(actor, outcome)
      PROVE  TabsShaped' /\ Accounted'
  BY <1>7, ReturnEffect, ReturnAccounts
<1>8. ASSUME NEW actor \in Actors, DrawFails(actor)
      PROVE  TabsShaped' /\ Accounted'
  <2>1. TabsShaped' /\ Others(actor) /\ job'[actor].step # "call"
    BY <1>8, DrawFailsEffect
  <2>. QED BY <1>8, <2>1, AccountsKept DEF Others, DrawFails, bounds
<1>9. ASSUME NEW actor \in Actors, Draw(actor)
      PROVE  TabsShaped' /\ Accounted'
  <2>1. TabsShaped' /\ Others(actor) /\ job'[actor].step = "place"
    BY <1>9, DrawEffect DEF Drawn
  <2>. QED BY <1>9, <2>1, AccountsKept DEF Others, Draw, bounds
<1>10. ASSUME NEW actor \in Actors, Place(actor)
       PROVE  TabsShaped' /\ Accounted'
  <2>1. /\ TabsShaped' /\ job'[actor].step # "call"
        /\ \A b \in Actors \ {actor} : Loses(b, NewButtons(job[actor].tab))
    BY <1>10, PlaceEffect
  <2>. QED BY <1>10, <2>1, AccountsKept DEF Loses, Place, bounds
<1>11. ASSUME NEW outcome \in {"rows", "failed", "gone"}, BoardLoaded(outcome)
       PROVE  TabsShaped' /\ Accounted'
  <2>1. TabsShaped' /\ (job' = job \/ LoadDraws(0))
    BY <1>11, BoardLoadedEffect
  <2>. QED BY <1>11, <2>1, NoWork, AccountsKept DEF LoadDraws, Others, BoardLoaded, bounds
<1>12. ASSUME NEW succeeds \in BOOLEAN, ReferenceLoaded(succeeds)
       PROVE  TabsShaped' /\ Accounted'
  <2>1. TabsShaped' /\ (job' = job \/ LoadDraws(selected))
    BY <1>12, ReferenceLoadedEffect
  <2>. QED BY <1>12, <2>1, NoWork, AccountsKept DEF LoadDraws, Others, ReferenceLoaded, bounds
<1>13. ASSUME NEW actor \in Actors, Free(actor)
       PROVE  TabsShaped' /\ Accounted'
  <2>1. TabsShaped' /\ Others(actor) /\ job'[actor].step # "call" /\ job[actor].step # "call"
    BY <1>13, FreeEffect, NoWork
  <2>. QED BY <1>13, <2>1, AccountsKept DEF Others, Free, bounds
<1>14. ASSUME NEW v \in fetch, NEW succeeds \in BOOLEAN, ListRead(v, succeeds)
       PROVE  TabsShaped' /\ Accounted'
  <2>1. TabsShaped'
    BY <1>14, ListReadEffect
  <2>. QED BY <1>14, <2>1, AccountsKept DEF ListRead, bounds
<1>. QED BY <1>1, <1>2, <1>3, <1>4, <1>5, <1>6, <1>7, <1>8, <1>9, <1>10, <1>11, <1>12, <1>13,
            <1>14, StepsOfTabs

\* The start: a session restored at a tab, or the pool's tab with an update under way.
LEMMA TabsInitially ==
  ASSUME TabsAssumption, FormsAssumption, SharesAssumption, PortalsInit
  PROVE  TabsShaped /\ Accounted
<1>1. /\ MaxPresses \in Nat /\ MaxVisits \in Nat /\ FirstTabs \subseteq Tabs
      /\ 0 \in Tabs /\ PoolTab \in Tabs /\ {"none", "ready"} \subseteq States
  BY DEF TabsAssumption, Tabs, PoolTab, States
<1>2. NoJob \in Work /\ NoJob.step = "idle"
  BY NoWork
<1>3. CASE Init
  <2>1. /\ kind \in Kinds /\ selected \in Tabs
        /\ version = [s \in Subjects |-> 0] /\ own = version
        /\ shown = [tab |-> selected, state |-> "none"]
        /\ drawn = [t \in Tabs |-> NotKept]
        /\ greyed = {} /\ hitches = {} /\ listed = FALSE /\ boardError = FALSE
        /\ rows = 0 /\ list = {} /\ fetch = {}
        /\ refLoaded \in BOOLEAN /\ refError = FALSE
        /\ load = [board |-> "none", reference |-> "none", since |-> 0]
        /\ presses = 0 /\ visits = 0
    BY <1>1, <1>3 DEF Init
  <2>2. PICK k : k = [NoJob EXCEPT !.step = "switch", !.tab = selected]
    OBVIOUS
  <2>3. job = [a \in Actors |-> IF a = Loop THEN k ELSE NoJob]
    BY <1>3, <2>2 DEF Init
  <2>4. k \in Work /\ k.step = "switch"
    <3>1. NoJob \in Job /\ ~NoJob.direct /\ ~NoJob.current /\ selected \in 0..6
      BY <1>2, <2>1, NoWork, WorkIs DEF Tabs
    <3>2. k \in Job /\ k.step = "switch"
      BY <2>2, <3>1 DEF Job
    <3>3. k.direct = NoJob.direct /\ k.current = NoJob.current
      BY <2>2, <3>1 DEF Job
    <3>. QED BY <3>1, <3>2, <3>3, IsWork
  <2>5. job \in [Actors -> Work] /\ InCall = {}
    BY <1>2, <2>3, <2>4 DEF InCall
  <2>6. NotKept \in [v : 0..MaxPresses, state : States]
    BY <1>1 DEF NotKept
  <2>7. shown \in [tab : Tabs, state : States]
    BY <1>1, <2>1
  <2>8. TabsShaped
    <3>1. drawn \in [Tabs -> [v : 0..MaxPresses, state : States]]
      BY <2>1, <2>6
    <3>2. version \in [Subjects -> 0..MaxPresses] /\ own \in [Subjects -> 0..MaxPresses]
      BY <1>1, <2>1
    <3>3. load \in Loads /\ 0 \in 0..MaxPresses
      BY <1>1, <2>1 DEF Loads
    <3>6. ListsShaped
      BY <2>1, <3>3 DEF ListsShaped
    <3>4. greyed \subseteq OwnForms /\ hitches \subseteq {"crossed", "failed", "left", "retried"}
      BY <2>1
    <3>5. presses \in 0..MaxPresses /\ visits \in 0..MaxVisits
      BY <1>1, <2>1
    <3>. QED BY <3>6, <2>1, <2>5, <2>7, <3>1, <3>2, <3>3, <3>4, <3>5 DEF TabsShaped
  <2>9. Accounted
    BY <1>1, <2>1, <2>5, FS_EmptySet DEF Accounted
  <2>. QED BY <2>8, <2>9
<1>4. ASSUME NEW share \in Shares, NEW thread \in Threads, AtPool,
             job = [a \in Actors |->
                     IF a = thread /\ share.form # NoForm
                     THEN [NoJob EXCEPT !.form = share.form, !.step = "call"] ELSE NoJob]
      PROVE  TabsShaped /\ Accounted
  <2>1. /\ kind \in Kinds /\ kind = "Coordinator"
        /\ version = [s \in Subjects |-> 0] /\ own = version
        /\ selected = PoolTab /\ shown = [tab |-> PoolTab, state |-> "ready"]
        /\ drawn = [t \in Tabs |-> [v |-> 0, state |-> IF t = PoolTab THEN "ready" ELSE "none"]]
        /\ greyed = {} /\ hitches = {} /\ listed = TRUE /\ boardError = FALSE
        /\ rows = 0 /\ list = {} /\ fetch = {}
        /\ refLoaded = TRUE /\ refError = FALSE
        /\ load = [board |-> "none", reference |-> "none", since |-> 0]
        /\ presses = MaxPresses /\ visits = MaxVisits
    BY <1>4 DEF AtPool
  <2>2. /\ share.form \in {NoForm, "ApplyStatus"}
        /\ share.form # NoForm => MaxPresses > 0
    BY DEF SharesAssumption
  <2>3. PICK k : k = [NoJob EXCEPT !.form = share.form, !.step = "call"]
    OBVIOUS
  <2>4. job = [a \in Actors |-> IF a = thread /\ share.form # NoForm THEN k ELSE NoJob]
    BY <1>4, <2>3
  <2>5. share.form # NoForm => k \in Work
    <3>1. "ApplyStatus" \in OwnForms
      BY <2>1, PortalNames, PortalForms DEF OwnForms
    <3>2. NoJob \in Job /\ ~NoJob.direct /\ ~NoJob.current
      BY <1>2, NoWork, WorkIs
    <3>3. share.form # NoForm => k \in Job /\ k.step = "call" /\ k.form = share.form
      BY <2>2, <2>3, <3>1, <3>2 DEF Job
    <3>4. k.direct = NoJob.direct /\ k.current = NoJob.current
      BY <2>3, <3>2 DEF Job
    <3>. QED BY <3>2, <3>3, <3>4, IsWork
  <2>6. job \in [Actors -> Work]
    BY <1>2, <2>4, <2>5
  <2>7. shown \in [tab : Tabs, state : States]
    BY <1>1, <2>1
  <2>8. drawn \in [Tabs -> [v : 0..MaxPresses, state : States]]
    <3>1. \A t \in Tabs : [v |-> 0, state |-> IF t = PoolTab THEN "ready" ELSE "none"]
                            \in [v : 0..MaxPresses, state : States]
      BY <1>1
    <3>. QED BY <2>1, <3>1
  <2>9. TabsShaped
    <3>2. version \in [Subjects -> 0..MaxPresses] /\ own \in [Subjects -> 0..MaxPresses]
      BY <1>1, <2>1
    <3>3. load \in Loads /\ 0 \in 0..MaxPresses
      BY <1>1, <2>1 DEF Loads
    <3>8. ListsShaped
      BY <2>1, <3>3 DEF ListsShaped
    <3>4. greyed \subseteq OwnForms /\ hitches \subseteq {"crossed", "failed", "left", "retried"}
      BY <2>1
    <3>5. presses \in 0..MaxPresses /\ visits \in 0..MaxVisits
      BY <1>1, <2>1
    <3>6. selected \in Tabs /\ kind \in Kinds
      BY <1>1, <2>1
    <3>7. /\ boardError \in BOOLEAN
          /\ refLoaded \in BOOLEAN /\ refError \in BOOLEAN
      BY <2>1
    <3>. QED BY <2>6, <2>7, <2>8, <3>2, <3>3, <3>4, <3>5, <3>6, <3>7, <3>8 DEF TabsShaped
  <2>10. Accounted
    <3>1. CASE share.form = NoForm
      <4>1. InCall = {}
        BY <1>2, <2>4, <3>1 DEF InCall
      <4>. QED BY <1>1, <2>1, <4>1, FS_EmptySet DEF Accounted
    <3>2. CASE share.form # NoForm
      <4>1. InCall \subseteq {thread}
        BY <1>2, <2>4 DEF InCall
      <4>2. IsFiniteSet({thread}) /\ Cardinality({thread}) = 1
        BY FS_Singleton
      <4>3. IsFiniteSet(InCall) /\ Cardinality(InCall) <= 1 /\ Cardinality(InCall) \in Nat
        BY <4>1, <4>2, FS_Subset, FS_CardinalityType
      <4>4. PICK n \in Nat : n = Cardinality(InCall) /\ n <= 1
        BY <4>3
      <4>5. \A s \in Subjects : version[s] + n <= presses
        BY <1>1, <2>1, <2>2, <3>2, <4>4
      <4>. QED BY <4>3, <4>4, <4>5 DEF Accounted
    <3>. QED BY <3>1, <3>2
  <2>. QED BY <2>9, <2>10
<1>. QED BY <1>3, <1>4 DEF PortalsInit, Built, AtPool

-----------------------------------------------------------------------------
(* The buttons.                                                            *)

\* A step that lets every call and every button be.
LEMMA ButtonsKept ==
  ASSUME ButtonInv, \A a \in Actors, f \in Forms : Frees(a, f)' <=> Frees(a, f),
         greyed' = greyed, raised' = raised, greyed \subseteq Forms,
         drawn[1].state = "none" => drawn'[1].state = "none"
  PROVE  ButtonInv'
<1>1. \A a, b \in Actors, f \in Forms : Frees(a, f)' /\ Frees(b, f)' => a = b
  BY DEF ButtonInv
<1>2. \A a \in Actors, f \in Forms : Frees(a, f)' => f \in greyed' \ raised'
  BY DEF ButtonInv
<1>3. \A f \in greyed' \ raised' :
        \/ \E a \in Actors : Frees(a, f)'
        \/ f = "AddLocation"
        \/ f = "SubmitComplaint" /\ drawn'[1].state = "none"
  BY DEF ButtonInv
<1>4. raised' \subseteq greyed'
  BY DEF ButtonInv
<1>. QED BY <1>1, <1>2, <1>3, <1>4 DEF ButtonInv

\* A job that is in no call before or after, and keeps its button if it has one,
\* or has shown its tab.
LEMMA FreesSame ==
  ASSUME TabsAssumption, FormsAssumption, NEW actor \in Actors, Others(actor),
         job[actor] \in Work, job[actor].step # "call", job'[actor].step # "call",
         \/ job'[actor].form = job[actor].form /\ job'[actor].current = job[actor].current
         \/ job'[actor] = Shown(job[actor])
         \/ ~job[actor].current /\ ~job'[actor].current
  PROVE  \A a \in Actors, f \in Forms : Frees(a, f)' <=> Frees(a, f)
<1>1. \/ job'[actor].form = job[actor].form /\ job'[actor].current = job[actor].current
      \/ job'[actor] = NoJob /\ (job[actor].form = NoForm \/ ~Form[job[actor].form].last)
      \/ ~job[actor].current /\ ~job'[actor].current
  BY ShownIs
<1>2. ASSUME NEW a \in Actors, NEW f \in Forms
      PROVE  Frees(a, f)' <=> Frees(a, f)
  <2>1. CASE a = actor
    BY <1>1, <2>1, NoWork DEF Frees, FormsAssumption
  <2>2. CASE a # actor
    BY <2>2 DEF Frees, Others
  <2>. QED BY <2>1, <2>2
<1>. QED BY <1>2

LEMMA PressButtons ==
  ASSUME TabsAssumption, FormsAssumption, TabsShaped, ButtonInv, NEW form, Press(form)
  PROVE  ButtonInv'
<1>1. PICK actor \in Actors :
        /\ Others(actor) /\ job[actor] = NoJob /\ job'[actor].step = "call"
        /\ job'[actor].form = form /\ job'[actor].current = Form[form].greys
  BY PressEffect
<1>2. /\ form \in Forms /\ form \notin greyed
      /\ greyed' = IF Form[form].greys THEN greyed \cup {form} ELSE greyed
      /\ raised' = raised /\ drawn' = drawn
  BY PressEffect DEF Press, ghosts
<1>3. \A f \in Forms : ~Frees(actor, f)
  BY <1>1, NoWork DEF Frees
<1>4. \A a \in Actors, f \in Forms : a # actor => (Frees(a, f)' <=> Frees(a, f))
  BY <1>1 DEF Frees, Others
<1>5. \A f \in Forms : Frees(actor, f)' <=> f = form /\ Form[form].greys
  BY <1>1 DEF Frees
<1>6. \A a \in Actors : ~Frees(a, form)
  BY <1>2 DEF ButtonInv
<1>7. \A a, b \in Actors, f \in Forms : Frees(a, f)' /\ Frees(b, f)' => a = b
  BY <1>3, <1>4, <1>5, <1>6 DEF ButtonInv
<1>8. raised' \subseteq greyed'
  BY <1>2 DEF ButtonInv
<1>9. \A a \in Actors, f \in Forms : Frees(a, f)' => f \in greyed' \ raised'
  BY <1>2, <1>4, <1>5 DEF ButtonInv
<1>10. \A f \in greyed' \ raised' :
         \/ \E a \in Actors : Frees(a, f)'
         \/ f = "AddLocation"
         \/ f = "SubmitComplaint" /\ drawn'[1].state = "none"
  <2>1. ASSUME NEW f \in greyed' \ raised'
        PROVE  \/ \E a \in Actors : Frees(a, f)'
               \/ f = "AddLocation"
               \/ f = "SubmitComplaint" /\ drawn'[1].state = "none"
    <3>1. CASE f = form /\ Form[form].greys
      BY <1>2, <1>5, <3>1
    <3>2. CASE ~(f = form /\ Form[form].greys)
      <4>1. f \in greyed \ raised /\ f \in Forms
        BY <1>2, <3>2, KindGiven DEF TabsShaped
      <4>2. \A a \in Actors : Frees(a, f) => Frees(a, f)'
        BY <1>3, <1>4, <4>1
      <4>. QED BY <1>2, <4>1, <4>2 DEF ButtonInv
    <3>. QED BY <3>1, <3>2
  <2>. QED BY <2>1
<1>. QED BY <1>7, <1>8, <1>9, <1>10 DEF ButtonInv

\* New buttons take the place of those of lost.
LEMMA ButtonsRenewed ==
  ASSUME TabsShaped, ButtonInv, NEW lost, greyed \subseteq Forms,
         greyed' = greyed \ lost, raised' = raised \ lost,
         \A a \in Actors, f \in Forms : Frees(a, f)' <=> Frees(a, f) /\ f \notin lost,
         \/ drawn[1].state = "none" => drawn'[1].state = "none"
         \/ "SubmitComplaint" \in lost \/ "SubmitComplaint" \notin greyed
  PROVE  ButtonInv'
<1>1. \A a, b \in Actors, f \in Forms : Frees(a, f)' /\ Frees(b, f)' => a = b
  BY DEF ButtonInv
<1>2. \A a \in Actors, f \in Forms : Frees(a, f)' => f \in greyed' \ raised'
  BY DEF ButtonInv
<1>3. \A f \in greyed' \ raised' :
        \/ \E a \in Actors : Frees(a, f)'
        \/ f = "AddLocation"
        \/ f = "SubmitComplaint" /\ drawn'[1].state = "none"
  BY DEF ButtonInv
<1>4. raised' \subseteq greyed'
  BY DEF ButtonInv
<1>. QED BY <1>1, <1>2, <1>3, <1>4 DEF ButtonInv

LEMMA ReopenButtons ==
  ASSUME TabsAssumption, TabsShaped, ButtonInv, NEW form, Reopen(form)
  PROVE  ButtonInv'
<1>1. (\A a \in Actors : Loses(a, {form})) /\ greyed' = greyed \ {form} /\ raised' = raised \ {form}
  BY ReopenEffect
<1>2. \A a \in Actors, f \in Forms : Frees(a, f)' <=> Frees(a, f) /\ f \notin {form}
  BY <1>1 DEF Loses, Frees
<1>3. drawn' = drawn /\ greyed \subseteq Forms
  BY KindGiven DEF Reopen, TabsShaped
<1>. QED BY <1>1, <1>2, <1>3, ButtonsRenewed

LEMMA PlaceButtons ==
  ASSUME TabsAssumption, FormsAssumption, TabsShaped, ButtonInv, NEW actor \in Actors, Place(actor)
  PROVE  ButtonInv'
<1>1. PICK tab \in Tabs : tab = job[actor].tab
  BY PlaceEffect
<1>2. PICK lost : lost = NewButtons(tab)
  OBVIOUS
<1>3. /\ job'[actor] = Shown(job[actor]) /\ job[actor].step = "place"
      /\ \A b \in Actors \ {actor} : Loses(b, lost)
      /\ \A t \in Tabs : t # tab => drawn'[t] = drawn[t]
  BY <1>1, <1>2, PlaceEffect DEF Place
<1>4. greyed' = greyed \ lost /\ raised' = raised \ lost
  BY <1>1, <1>2 DEF Place, NewButtons
<1>5. \A a \in Actors, f \in Forms : Frees(a, f)' <=> Frees(a, f) /\ f \notin lost
  <2>2. /\ job'[actor].step # "call"
        /\ \/ job'[actor] = NoJob /\ (job[actor].form = NoForm \/ ~Form[job[actor].form].last)
           \/ job'[actor].form = job[actor].form /\ job'[actor].current = job[actor].current
    BY <1>3, ShownIs DEF TabsShaped
  <2>3. \A f \in Forms : Form[f].last => f \notin lost
    BY <1>2, FormFacts DEF Sane, NewButtons
  <2>1. ASSUME NEW a \in Actors, NEW f \in Forms
        PROVE  Frees(a, f)' <=> Frees(a, f) /\ f \notin lost
    <3>1. CASE a = actor
      BY <1>3, <2>2, <2>3, <3>1, NoWork DEF Frees, FormsAssumption
    <3>2. CASE a # actor
      BY <1>3, <3>2 DEF Frees, Loses
    <3>. QED BY <3>1, <3>2
  <2>. QED BY <2>1
<1>6. greyed \subseteq Forms
  BY KindGiven DEF TabsShaped
<1>7. CASE tab # 1
  <2>1. drawn'[1] = drawn[1]
    BY <1>3, <1>7 DEF Tabs
  <2>. QED BY <1>4, <1>5, <1>6, <2>1, ButtonsRenewed
<1>8. CASE tab = 1 /\ kind = "Student"
  <2>1. NameOf(tab) = "new"
    BY <1>1, <1>8, KindGiven, TabNamed DEF NameOf
  <2>2. "SubmitComplaint" \in Forms
    BY FormNames
  <2>3. NameOf(tab) \in Form["SubmitComplaint"].on /\ ~Form["SubmitComplaint"].dialog
    BY <2>1, <2>2, FormFacts DEF Sane
  <2>4. "SubmitComplaint" \in lost
    BY <1>2, <2>2, <2>3 DEF NewButtons
  <2>. QED BY <1>4, <1>5, <1>6, <2>4, ButtonsRenewed
<1>9. CASE kind # "Student"
  <2>1. "SubmitComplaint" \notin greyed
    BY <1>9, KindGiven DEF TabsShaped
  <2>. QED BY <1>4, <1>5, <1>6, <2>1, ButtonsRenewed
<1>. QED BY <1>7, <1>8, <1>9

LEMMA ReturnButtons ==
  ASSUME TabsAssumption, FormsAssumption, TabsShaped, Accounted, ButtonInv, NEW actor \in Actors,
         NEW outcome \in Outcomes, Return(actor, outcome)
  PROVE  ButtonInv'
<1>1. PICK form : form = job[actor].form
  OBVIOUS
<1>2. /\ form \in Forms /\ Sane(form, Form[form]) /\ job[actor].step = "call"
      /\ job[actor] \in Work
  BY <1>1, Calling DEF Return
<1>3. Others(actor) /\ job'[actor].step # "call"
  BY ReturnEffect
<1>. DEFINE after == outcome = "accepted" \/ (Form[form].whatever /\ outcome = "refused")
            later == after /\ Form[form].goes # Stay /\ Form[form].last
<1>4. /\ greyed' = IF job[actor].current /\ outcome \in Form[form].restores /\ ~later
                   THEN greyed \ {form} ELSE greyed
      /\ raised' = IF job[actor].current /\ outcome = "raised" THEN raised \cup {form} ELSE raised
      /\ outcome = "raised" => Form[form].raises
  BY <1>1 DEF Return
<1>5. job[actor].current => Form[form].greys
  BY <1>1, <1>2, WorkIs
<1>6. greyed \subseteq Forms
  BY KindGiven DEF TabsShaped
<1>11. IF after /\ Form[form].goes # Stay
       THEN job'[actor].form = form /\ job'[actor].current = job[actor].current
       ELSE job'[actor] = NoJob
  <2>1. PICK j \in Work : j = job[actor]
    BY <1>2
  <2>2. CASE after /\ Form[form].goes # Stay
    <3>1. PICK k : k = [j EXCEPT !.step = "switch", !.tab = Form[form].goes]
      OBVIOUS
    <3>2. job'[actor] = k
      BY <1>1, <2>1, <2>2, <3>1 DEF Return, TabsShaped
    <3>3. k.form = j.form
      BY <3>1 DEF Work, Job
    <3>4. k.current = j.current
      BY <3>1 DEF Work, Job
    <3>. QED BY <1>1, <2>1, <2>2, <3>2, <3>3, <3>4
  <2>3. CASE ~(after /\ Form[form].goes # Stay)
    BY <1>1, <2>3 DEF Return, TabsShaped
  <2>. QED BY <2>2, <2>3
<1>7. ASSUME ~later, NEW a \in Actors, NEW f \in Forms
      PROVE  Frees(a, f)' <=> a # actor /\ Frees(a, f)
  <2>1. CASE a = actor
    BY <1>3, <1>7, <1>11, <2>1, NoWork DEF Frees
  <2>2. CASE a # actor
    BY <1>3, <2>2 DEF Frees, Others
  <2>. QED BY <2>1, <2>2
<1>8. drawn[1].state = "none" => drawn'[1].state = "none"
  <2>1. 1 \in Tabs /\ NotKept.state = "none"
    BY DEF Tabs, NotKept
  <2>2. drawn[1].state # "ready" => drawn'[1] \in {NotKept, drawn[1]}
    BY <2>1 DEF Return
  <2>. QED BY <2>1, <2>2
<1>12. CASE later
  <2>1. outcome # "raised"
    BY <1>12
  <2>2. greyed' = greyed /\ raised' = raised
    BY <1>4, <1>12, <2>1
  <2>3. job'[actor].form = form /\ job'[actor].current = job[actor].current
    BY <1>11, <1>12
  <2>4. ASSUME NEW a \in Actors, NEW f \in Forms
        PROVE  Frees(a, f)' <=> Frees(a, f)
    <3>1. CASE a = actor
      BY <1>1, <1>12, <2>3, <3>1 DEF Frees
    <3>2. CASE a # actor
      BY <1>3, <3>2 DEF Frees, Others
    <3>. QED BY <3>1, <3>2
  <2>. QED BY <1>6, <1>8, <2>2, <2>4, ButtonsKept
<1>9. CASE ~later /\ ~job[actor].current
  <2>1. \A f \in Forms : ~Frees(actor, f)
    BY <1>9 DEF Frees
  <2>2. \A a \in Actors, f \in Forms : Frees(a, f)' <=> Frees(a, f)
    BY <1>7, <1>9, <2>1
  <2>. QED BY <1>4, <1>6, <1>8, <1>9, <2>2, ButtonsKept
<1>10. CASE ~later /\ job[actor].current
  <2>1. Frees(actor, form) /\ form \in greyed \ raised
    BY <1>1, <1>2, <1>10 DEF Frees, ButtonInv
  <2>2. \A a \in Actors, f \in Forms : Frees(a, f)' <=> Frees(a, f) /\ f # form
    <3>1. \A a \in Actors : Frees(a, form) => a = actor
      BY <1>2, <2>1 DEF ButtonInv
    <3>2. \A f \in Forms : Frees(actor, f) => f = form
      BY <1>1 DEF Frees
    <3>. QED BY <1>7, <1>10, <3>1, <3>2
  <2>3. CASE outcome \in Form[form].restores
    <3>1. outcome # "raised"
      BY <1>2, <1>4, <1>5, <1>10, <2>3 DEF Sane
    <3>2. greyed' = greyed \ {form} /\ raised' = raised \ {form}
      BY <1>4, <1>10, <2>1, <2>3, <3>1
    <3>3. \A a \in Actors, f \in Forms : Frees(a, f)' <=> Frees(a, f) /\ f \notin {form}
      BY <2>2
    <3>. QED BY <1>6, <1>8, <3>2, <3>3, ButtonsRenewed
  <2>4. CASE outcome \notin Form[form].restores
    <3>1. greyed' = greyed
      BY <1>4, <1>10, <2>4
    <3>2. raised \subseteq raised' /\ raised' \subseteq greyed
          /\ (outcome # "raised" => raised' = raised) /\ (outcome = "raised" => form \in raised')
          /\ raised' \subseteq raised \cup {form}
      BY <1>4, <1>10, <2>1 DEF ButtonInv
    <3>3. \A a, b \in Actors, f \in Forms : Frees(a, f)' /\ Frees(b, f)' => a = b
      BY <2>2 DEF ButtonInv
    <3>4. \A a \in Actors, f \in Forms : Frees(a, f)' => f \in greyed' \ raised'
      BY <2>2, <3>1, <3>2 DEF ButtonInv
    <3>5. outcome # "raised" =>
            \/ form = "AddLocation"
            \/ form = "SubmitComplaint" /\ drawn'[1].state = "none"
      <4>1. SUFFICES ASSUME outcome # "raised", form # "AddLocation"
                     PROVE  form = "SubmitComplaint" /\ drawn'[1].state = "none"
        OBVIOUS
      <4>2. outcome = "accepted" /\ form = "SubmitComplaint"
        BY <1>2, <2>4, <4>1 DEF Sane, Outcomes
      <4>3. Form[form].drops = Tabs
        BY <1>2, <4>2 DEF Sane
      <4>4. 1 \in Tabs
        BY DEF Tabs
      <4>5. drawn'[1] = NotKept
        BY <1>1, <4>2, <4>3, <4>4 DEF Return
      <4>. QED BY <4>2, <4>5 DEF NotKept
    <3>6. \A f \in greyed' \ raised' :
            \/ \E a \in Actors : Frees(a, f)'
            \/ f = "AddLocation"
            \/ f = "SubmitComplaint" /\ drawn'[1].state = "none"
      <4>1. ASSUME NEW f \in greyed' \ raised'
            PROVE  \/ \E a \in Actors : Frees(a, f)'
                   \/ f = "AddLocation"
                   \/ f = "SubmitComplaint" /\ drawn'[1].state = "none"
        <5>1. f \in greyed \ raised /\ f \in Forms
          BY <1>6, <3>1, <3>2
        <5>2. CASE f = form
          BY <3>2, <3>5, <5>2
        <5>3. CASE f # form
          <6>1. \A a \in Actors : Frees(a, f) => Frees(a, f)'
            BY <2>2, <5>1, <5>3
          <6>. QED BY <1>8, <5>1, <6>1 DEF ButtonInv
        <5>. QED BY <5>2, <5>3
      <4>. QED BY <4>1
    <3>. QED BY <3>1, <3>2, <3>3, <3>4, <3>6 DEF ButtonInv
  <2>. QED BY <2>3, <2>4
<1>. QED BY <1>9, <1>10, <1>12

\* The finally of a handler frees the button that nobody else frees.
LEMMA FreeButtons ==
  ASSUME TabsAssumption, FormsAssumption, TabsShaped, ButtonInv, NEW actor \in Actors, Free(actor)
  PROVE  ButtonInv'
<1>1. PICK form : form = job[actor].form
  OBVIOUS
<1>2. Others(actor) /\ job'[actor] = NoJob /\ job[actor].step = "free" /\ job[actor] \in Work
  BY FreeEffect DEF TabsShaped
<1>3. form \in Forms /\ Form[form].last
  <2>1. form \in OwnForms \cup {NoForm} /\ form # NoForm /\ Form[form].last
    BY <1>1, <1>2, WorkIs DEF Job
  <2>. QED BY <2>1, KindGiven
<1>4. /\ greyed' = IF job[actor].current THEN greyed \ {form} ELSE greyed
      /\ raised' = raised /\ drawn' = drawn
  BY <1>1 DEF Free, ghosts
<1>5. greyed \subseteq Forms
  BY KindGiven DEF TabsShaped
<1>6. \A a \in Actors, f \in Forms : Frees(a, f)' <=> a # actor /\ Frees(a, f)
  <2>1. \A f \in Forms : ~Frees(actor, f)'
    BY <1>2, NoWork DEF Frees, FormsAssumption
  <2>2. \A a \in Actors \ {actor}, f \in Forms : Frees(a, f)' <=> Frees(a, f)
    BY <1>2 DEF Frees, Others
  <2>. QED BY <2>1, <2>2
<1>7. CASE ~job[actor].current
  <2>1. \A a \in Actors, f \in Forms : Frees(a, f)' <=> Frees(a, f)
    BY <1>6, <1>7 DEF Frees
  <2>. QED BY <1>4, <1>5, <1>7, <2>1, ButtonsKept
<1>8. CASE job[actor].current
  <2>1. Frees(actor, form)
    BY <1>1, <1>3, <1>8 DEF Frees
  <2>2. form \notin raised /\ \A a \in Actors : Frees(a, form) => a = actor
    BY <1>3, <2>1 DEF ButtonInv
  <2>3. \A f \in Forms : Frees(actor, f) => f = form
    BY <1>1 DEF Frees
  <2>4. \A a \in Actors, f \in Forms : Frees(a, f)' <=> Frees(a, f) /\ f \notin {form}
    BY <1>6, <2>2, <2>3
  <2>. QED BY <1>4, <1>5, <1>8, <2>2, <2>4, ButtonsRenewed
<1>. QED BY <1>7, <1>8

LEMMA ButtonsStep ==
  ASSUME TabsAssumption, FormsAssumption, TabsShaped, Accounted, ButtonInv, [PortalsNext]_allVars
  PROVE  ButtonInv'
<1>0. greyed \subseteq Forms
  BY KindGiven DEF TabsShaped
<1>1. CASE UNCHANGED vars
  BY <1>1 DEF vars, ButtonInv, Frees
<1>2. ASSUME NEW actor \in Actors, NEW tab \in Tabs, job[actor].step \in {"idle", "switch"},
             SwitchTo(actor, tab), visits' \in 0..MaxVisits
      PROVE  ButtonInv'
  <2>1. /\ Others(actor) /\ job'[actor].step # "call" /\ job[actor] \in Work
        /\ \/ job'[actor].form = job[actor].form /\ job'[actor].current = job[actor].current
           \/ job'[actor] = Shown(job[actor])
    BY <1>2, SwitchEffect DEF TabsShaped
  <2>2. \A a \in Actors, f \in Forms : Frees(a, f)' <=> Frees(a, f)
    BY <1>2, <2>1, FreesSame
  <2>. QED BY <1>0, <1>2, <2>2, ButtonsKept DEF SwitchTo
<1>3. ASSUME NEW form \in Forms, Press(form)
      PROVE  ButtonInv'
  BY <1>3, PressButtons
<1>4. ASSUME NEW form \in Forms, Reopen(form)
      PROVE  ButtonInv'
  BY <1>4, ReopenButtons
<1>5. CASE RetryBoard
  <2>1. /\ Loop \in Actors /\ Others(Loop) /\ job[Loop] \in Work
        /\ job[Loop].step # "call" /\ job'[Loop].step # "call"
        /\ ~job[Loop].current /\ ~job'[Loop].current
    BY <1>5, RetryBoardEffect, KindGiven, NoWork
  <2>2. \A a \in Actors, f \in Forms : Frees(a, f)' <=> Frees(a, f)
    BY <2>1, FreesSame
  <2>3. drawn'[1] = drawn[1]
    BY <1>5, RetryBoardEffect DEF Tabs
  <2>. QED BY <1>0, <1>5, <2>2, <2>3, ButtonsKept DEF RetryBoard
<1>6. CASE RetryReference
  <2>1. \A a \in Actors, f \in Forms : Frees(a, f)' <=> Frees(a, f)
    BY <1>6 DEF RetryReference, Frees
  <2>. QED BY <1>0, <1>6, <2>1, ButtonsKept DEF RetryReference
<1>7. ASSUME NEW actor \in Actors, NEW outcome \in Outcomes, Return(actor, outcome)
      PROVE  ButtonInv'
  BY <1>7, ReturnButtons
<1>8. ASSUME NEW actor \in Actors, DrawFails(actor)
      PROVE  ButtonInv'
  <2>1. /\ Others(actor) /\ job'[actor].step # "call" /\ job[actor].step # "call"
        /\ job'[actor] = Shown(job[actor]) /\ job[actor] \in Work
    BY <1>8, DrawFailsEffect DEF DrawFails, TabsShaped
  <2>2. \A a \in Actors, f \in Forms : Frees(a, f)' <=> Frees(a, f)
    BY <1>8, <2>1, FreesSame
  <2>. QED BY <1>0, <1>8, <2>2, ButtonsKept DEF DrawFails
<1>9. ASSUME NEW actor \in Actors, Draw(actor)
      PROVE  ButtonInv'
  <2>1. /\ Others(actor) /\ job'[actor].step # "call" /\ job[actor].step # "call"
        /\ job'[actor].form = job[actor].form /\ job'[actor].current = job[actor].current
        /\ job[actor] \in Work
    BY <1>9, DrawEffect DEF Drawn, Draw, TabsShaped
  <2>2. \A a \in Actors, f \in Forms : Frees(a, f)' <=> Frees(a, f)
    BY <1>9, <2>1, FreesSame
  <2>. QED BY <1>0, <1>9, <2>2, ButtonsKept DEF Draw, ghosts
<1>10. ASSUME NEW actor \in Actors, Place(actor)
       PROVE  ButtonInv'
  BY <1>10, PlaceButtons
<1>11. ASSUME NEW tab, job' = job \/ LoadDraws(tab)
       PROVE  \A a \in Actors, f \in Forms : Frees(a, f)' <=> Frees(a, f)
  <2>1. CASE job' = job
    BY <2>1 DEF Frees
  <2>2. CASE LoadDraws(tab)
    <3>1. PICK thread \in Actors :
            /\ Others(thread) /\ job[thread] = NoJob /\ job'[thread].step = "draw"
            /\ ~job'[thread].current
      BY <2>2 DEF LoadDraws
    <3>2. /\ job[thread] \in Work /\ job[thread].step # "call" /\ job'[thread].step # "call"
          /\ ~job[thread].current
      BY <3>1, NoWork
    <3>. QED BY <3>1, <3>2, FreesSame
  <2>. QED BY <1>11, <2>1, <2>2
<1>12. ASSUME NEW outcome \in {"rows", "failed", "gone"}, BoardLoaded(outcome)
       PROVE  ButtonInv'
  <2>1. (job' = job \/ LoadDraws(0)) /\ drawn'[1] = drawn[1]
    BY <1>12, BoardLoadedEffect DEF Tabs
  <2>2. \A a \in Actors, f \in Forms : Frees(a, f)' <=> Frees(a, f)
    BY <1>11, <2>1
  <2>. QED BY <1>0, <1>12, <2>1, <2>2, ButtonsKept DEF BoardLoaded
<1>13. ASSUME NEW succeeds \in BOOLEAN, ReferenceLoaded(succeeds)
       PROVE  ButtonInv'
  <2>1. (job' = job \/ LoadDraws(selected)) /\ drawn'[1].state = "none"
    BY <1>13, ReferenceLoadedEffect
  <2>2. \A a \in Actors, f \in Forms : Frees(a, f)' <=> Frees(a, f)
    BY <1>11, <2>1
  <2>. QED BY <1>0, <1>13, <2>1, <2>2, ButtonsKept DEF ReferenceLoaded
<1>14. ASSUME NEW actor \in Actors, Free(actor)
       PROVE  ButtonInv'
  BY <1>14, FreeButtons
<1>15. ASSUME NEW v \in fetch, NEW succeeds \in BOOLEAN, ListRead(v, succeeds)
       PROVE  ButtonInv'
  <2>1. \A a \in Actors, f \in Forms : Frees(a, f)' <=> Frees(a, f)
    BY <1>15 DEF ListRead, Frees
  <2>. QED BY <1>0, <1>15, <2>1, ButtonsKept DEF ListRead, ghosts
<1>. QED BY <1>1, <1>2, <1>3, <1>4, <1>5, <1>6, <1>7, <1>8, <1>9, <1>10, <1>12, <1>13, <1>14,
            <1>15, StepsOfTabs

\* At first nobody draws, and a call under way has no button on the screen.
LEMMA InitialJobs ==
  ASSUME TabsAssumption, PortalsInit
  PROVE  \A a \in Actors : /\ ~job[a].current
                           /\ job[a].step \in {"idle", "switch", "call"}
<1>1. CASE Init
  <2>1. PICK k : k = [NoJob EXCEPT !.step = "switch", !.tab = selected]
    OBVIOUS
  <2>2. job = [a \in Actors |-> IF a = Loop THEN k ELSE NoJob]
    BY <1>1, <2>1 DEF Init
  <2>3. k.step = "switch" /\ ~k.current
    BY <2>1 DEF NoJob
  <2>. QED BY <2>2, <2>3, NoWork
<1>2. ASSUME NEW share \in Shares, NEW thread \in Threads,
             job = [a \in Actors |->
                     IF a = thread /\ share.form # NoForm
                     THEN [NoJob EXCEPT !.form = share.form, !.step = "call"] ELSE NoJob]
      PROVE  \A a \in Actors : ~job[a].current /\ job[a].step \in {"idle", "call"}
  <2>1. PICK k : k = [NoJob EXCEPT !.form = share.form, !.step = "call"]
    OBVIOUS
  <2>2. \A a \in Actors : job[a] \in {k, NoJob}
    BY <1>2, <2>1
  <2>3. ~k.current /\ k.step = "call"
    BY <2>1 DEF NoJob
  <2>. QED BY <2>2, <2>3, NoWork
<1>. QED BY <1>1, <1>2 DEF PortalsInit, Built, AtPool

LEMMA ButtonsInitially ==
  ASSUME TabsAssumption, PortalsInit
  PROVE  ButtonInv
<1>1. greyed = {} /\ raised = {}
  BY DEF PortalsInit, Built, AtPool, Init
<1>. QED BY <1>1, InitialJobs DEF ButtonInv, Frees

\* A button that is grey has a handler at work or one that has raised, but for the
\* two that the code leaves grey: for any portals, threads and number of presses.
THEOREM ButtonsComeBackTheorem == PortalsSpec => []ButtonsComeBack
<1>. DEFINE I == TabsShaped /\ Accounted /\ ButtonInv
<1>1. PortalsInit => I
  BY TabsInitially, ButtonsInitially, TabsAssumption, FormsAssumption, SharesAssumption
<1>2. I /\ [PortalsNext]_allVars => I'
  BY TabsStep, ButtonsStep, TabsAssumption, FormsAssumption
<1>3. I => ButtonsComeBack
  BY DEF ButtonInv, ButtonsComeBack, Frees
<1>. QED BY <1>1, <1>2, <1>3, PTL DEF PortalsSpec

-----------------------------------------------------------------------------
(* The drawings that are kept.                                             *)

\* A step that changes nothing a tab shows and begins no drawing.
LEMMA CacheKept ==
  ASSUME CacheInv, own' = own, version' = version, kind' = kind, hitches \subseteq hitches',
         \A t \in Tabs : drawn'[t] = drawn[t] \/ drawn'[t].state # "ready",
         \A a \in Actors : job'[a].step = "place" =>
           /\ job[a].step = "place" /\ job'[a].v = job[a].v /\ job'[a].tab = job[a].tab
           /\ job'[a].state = job[a].state,
         ListsCurrent => ListsCurrent'
  PROVE  CacheInv'
<1>1. (\A s \in Subjects : own'[s] <= version'[s]) /\ own'["nothing"] = 0
  BY DEF CacheInv
<1>2. ASSUME "crossed" \notin hitches', NEW t \in Tabs, drawn'[t].state = "ready"
      PROVE  drawn'[t].v >= own'[About(t)']
  <2>1. About(t)' = About(t) /\ drawn'[t] = drawn[t]
    BY <1>2, WorkSame
  <2>. QED BY <1>2, <2>1 DEF CacheInv
<1>3. ASSUME "crossed" \notin hitches', NEW a \in Actors, job'[a].step = "place",
             job'[a].state = "ready"
      PROVE  job'[a].v >= own'[About(job[a].tab)']
  <2>1. PICK tab : tab = job[a].tab
    OBVIOUS
  <2>2. /\ job[a].step = "place" /\ job'[a].v = job[a].v /\ job'[a].tab = tab
        /\ job[a].state = "ready"
    BY <1>3, <2>1
  <2>3. job[a].v >= own[About(tab)]
    BY <1>3, <2>1, <2>2 DEF CacheInv
  <2>4. About(tab)' = About(tab)
    BY WorkSame
  <2>. QED BY <2>2, <2>3, <2>4
<1>4. "crossed" \notin hitches' => ListsCurrent'
  BY DEF CacheInv
<1>. QED BY <1>1, <1>2, <1>3, <1>4 DEF CacheInv

\* Lists that stay are as current as they were.
LEMMA ListsStay ==
  ASSUME ListsCurrent, own' = own, UNCHANGED <<listed, rows, list, fetch>>,
         load'.board = load.board /\ load'.since = load.since
  PROVE  ListsCurrent'
BY DEF ListsCurrent

\* A read that begins now finds what is current.
LEMMA SinceCurrent ==
  ASSUME TabsAssumption, TabsShaped, CacheInv, ListsCurrent
  PROVE  Since >= own["complaints"]
<1>1. version["complaints"] >= own["complaints"]
  <2>1. version["complaints"] \in Nat /\ own["complaints"] \in Nat
    BY SubjectsAre DEF TabsShaped, TabsAssumption
  <2>. QED BY <2>1, SubjectsAre DEF CacheInv
<1>2. fetch # {} => (CHOOSE v \in fetch : TRUE) \in fetch
  OBVIOUS
<1>. QED BY <1>1, <1>2 DEF Since, ListsCurrent

LEMMA DrawLists ==
  ASSUME TabsAssumption, TabsShaped, CacheInv, ListsCurrent, ListsDrawn, own' = own
  PROVE  ListsCurrent'
<1>1. version["complaints"] >= own["complaints"]
  <2>1. version["complaints"] \in Nat /\ own["complaints"] \in Nat
    BY SubjectsAre DEF TabsShaped, TabsAssumption
  <2>. QED BY <2>1, SubjectsAre DEF CacheInv
<1>2. listed' => rows' >= own'["complaints"]
  BY DEF ListsCurrent, ListsDrawn
<1>3. \A v \in list' \cup fetch' : v >= own'["complaints"]
  BY <1>1 DEF ListsCurrent, ListsDrawn
<1>4. load'.board # "none" => load'.since >= own'["complaints"]
  <2>1. CASE load'.since = Since
    BY <2>1, SinceCurrent
  <2>2. CASE load'.since = load.since /\ (load'.board # "none" => load.board # "none")
    BY <2>2 DEF ListsCurrent
  <2>. QED BY <2>1, <2>2 DEF ListsDrawn
<1>. QED BY <1>2, <1>3, <1>4 DEF ListsCurrent

LEMMA DrawCaches ==
  ASSUME TabsAssumption, TabsShaped, CacheInv, NEW actor \in Actors, Draw(actor)
  PROVE  CacheInv'
<1>1. /\ kind' = kind /\ own' = own /\ version' = version /\ drawn' = drawn /\ hitches' = hitches
  BY DEF Draw, ghosts
<1>2. Others(actor) /\ ListsDrawn /\ \E state \in States : Drawn(actor, state)
  BY DrawEffect
<1>3. PICK tab : tab = job[actor].tab
  OBVIOUS
<1>4. (job'[actor].state = "ready" => Source(tab, job'[actor].v)) /\ job'[actor].tab = tab
  BY <1>2, <1>3 DEF Drawn
<1>5. tab \in Tabs /\ About(tab) \in Subjects
  <2>1. job[actor] \in Work /\ job[actor].step = "draw"
    BY DEF Draw, TabsShaped
  <2>2. tab \in Tabs
    BY <1>3, <2>1, WorkIs
  <2>. QED BY <2>2, KindGiven
<1>6. \A t : About(t)' = About(t)
  BY <1>1, WorkSame
<1>7. \A t \in Tabs : own'[About(t)'] = own[About(t)]
  BY <1>1, <1>6
<1>8. \A t \in Tabs : "crossed" \notin hitches' /\ drawn'[t].state = "ready"
                        => drawn'[t].v >= own'[About(t)']
  BY <1>1, <1>7 DEF CacheInv
<1>9. ASSUME "crossed" \notin hitches', NEW a \in Actors, job'[a].step = "place",
             job'[a].state = "ready"
      PROVE  job'[a].v >= own'[About(job[a].tab)']
  <2>1. CASE a = actor
    <3>1. version[About(tab)] >= own[About(tab)]
      <4>1. version[About(tab)] \in Nat /\ own[About(tab)] \in Nat
        BY <1>5 DEF TabsShaped, TabsAssumption
      <4>. QED BY <1>5, <4>1 DEF CacheInv
    <3>2. ListsCurrent
      BY <1>1, <1>9 DEF CacheInv
    <3>6. job'[a].v >= own[About(tab)]
      <4>1. CASE job'[a].v = version[About(tab)]
        BY <3>1, <4>1
      <4>2. CASE About(tab) = "nothing" /\ job'[a].v = 0
        <5>1. own[About(tab)] = 0
          BY <4>2 DEF CacheInv
        <5>. QED BY <4>2, <5>1
      <4>3. CASE /\ About(tab) = "complaints"
                 /\ (listed /\ job'[a].v = rows) \/ job'[a].v = Since \/ job'[a].v \in list
        BY <3>2, <4>3, SinceCurrent DEF ListsCurrent
      <4>. QED BY <1>4, <1>9, <2>1, <4>1, <4>2, <4>3 DEF Source
    <3>7. own'[About(tab)'] = own[About(tab)]
      BY <1>5, <1>7
    <3>. QED BY <1>4, <2>1, <3>6, <3>7
  <2>2. CASE a # actor
    <3>1. job'[a] = job[a]
      BY <1>2, <2>2 DEF Others
    <3>2. PICK s : s = job[a].tab
      OBVIOUS
    <3>3. job[a].v >= own[About(s)]
      BY <1>1, <1>9, <3>1, <3>2 DEF CacheInv
    <3>4. own'[About(s)'] = own[About(s)]
      BY <1>1, <1>6
    <3>. QED BY <3>1, <3>2, <3>3, <3>4
  <2>. QED BY <2>1, <2>2
<1>10. (\A s \in Subjects : own'[s] <= version'[s]) /\ own'["nothing"] = 0
  BY <1>1 DEF CacheInv
<1>11. "crossed" \notin hitches' => ListsCurrent'
  BY <1>1, <1>2, DrawLists DEF CacheInv
<1>. QED BY <1>8, <1>9, <1>10, <1>11 DEF CacheInv

LEMMA PlaceCaches ==
  ASSUME TabsAssumption, TabsShaped, CacheInv, NEW actor \in Actors, Place(actor)
  PROVE  CacheInv'
<1>1. kind' = kind /\ own' = own /\ version' = version /\ hitches' = hitches
  BY DEF Place
<1>2. PICK tab \in Tabs : tab = job[actor].tab
  BY PlaceEffect
<1>3. PICK lost : lost = NewButtons(tab)
  OBVIOUS
<1>4. /\ job'[actor].step \in {"idle", "free"} /\ job[actor].step = "place"
      /\ \A b \in Actors \ {actor} : Loses(b, lost)
      /\ \A t \in Tabs : \/ drawn'[t] = drawn[t]
                         \/ /\ t = tab /\ drawn'[t].v = job[actor].v
                            /\ drawn'[t].state = job[actor].state
  BY <1>2, <1>3, PlaceEffect DEF Place
<1>5. \A t : own'[About(t)'] = own[About(t)]
  BY <1>1, WorkSame
<1>6. ASSUME "crossed" \notin hitches', NEW t \in Tabs, drawn'[t].state = "ready"
      PROVE  drawn'[t].v >= own'[About(t)']
  <2>1. CASE drawn'[t] = drawn[t]
    BY <1>1, <1>5, <1>6, <2>1 DEF CacheInv
  <2>2. CASE t = tab /\ drawn'[t].v = job[actor].v /\ drawn'[t].state = job[actor].state
    <3>1. job[actor].v >= own[About(tab)]
      BY <1>1, <1>2, <1>4, <1>6, <2>2 DEF CacheInv
    <3>. QED BY <1>5, <2>2, <3>1
  <2>. QED BY <1>4, <2>1, <2>2
<1>7. ASSUME "crossed" \notin hitches', NEW a \in Actors, job'[a].step = "place",
             job'[a].state = "ready"
      PROVE  job'[a].v >= own'[About(job[a].tab)']
  <2>1. a # actor
    BY <1>4, <1>7
  <2>2. PICK s : s = job[a].tab
    OBVIOUS
  <2>3. /\ job[a].step = "place" /\ job'[a].v = job[a].v /\ job'[a].tab = s
        /\ job[a].state = "ready"
    BY <1>4, <1>7, <2>1, <2>2 DEF Loses
  <2>4. job[a].v >= own[About(s)]
    BY <1>1, <1>7, <2>2, <2>3 DEF CacheInv
  <2>5. own'[About(s)'] = own[About(s)]
    BY <1>5
  <2>. QED BY <2>3, <2>4, <2>5
<1>8. (\A s \in Subjects : own'[s] <= version'[s]) /\ own'["nothing"] = 0
  BY <1>1 DEF CacheInv
<1>9. "crossed" \notin hitches' => ListsCurrent'
  <2>1. UNCHANGED <<listed, rows, list, fetch>> /\ load' = load
    BY DEF Place, board, lists
  <2>. QED BY <1>1, <2>1, ListsStay DEF CacheInv
<1>. QED BY <1>6, <1>7, <1>8, <1>9 DEF CacheInv

\* A handler that changes complaints empties the lists; what is being read
\* then is a hitch.
LEMMA ReturnCurrent ==
  ASSUME TabsAssumption, FormsAssumption, TabsShaped, Accounted, CacheInv, NEW actor \in Actors,
         NEW outcome \in Outcomes, Return(actor, outcome), "crossed" \notin hitches',
         own'["complaints"] <= version'["complaints"]
  PROVE  ListsCurrent'
<1>1. PICK form : form = job[actor].form
  OBVIOUS
<1>2. form \in Forms /\ job[actor].step = "call" /\ Sane(form, Form[form])
  BY <1>1, Calling DEF Return
<1>3. PICK h : h = Form[form]
  OBVIOUS
<1>4. PICK accepted \in BOOLEAN : accepted = (outcome = "accepted")
  OBVIOUS
<1>5. PICK forgets \in BOOLEAN : forgets = (accepted /\ h.forgets)
  OBVIOUS
<1>6. /\ listed' => listed /\ ~forgets
      /\ rows' = IF forgets THEN 0 ELSE rows
      /\ list' = IF forgets THEN {} ELSE list
      /\ fetch' = fetch \/ fetch' = fetch \cup {version'["complaints"]}
  BY <1>1, <1>3, <1>4, <1>5 DEF Return
<1>7. /\ load'.board # "none" => load.board # "none"
      /\ load'.since = load.since
  <2>1. load' = IF forgets /\ load.board = "running" THEN [load EXCEPT !.board = "forgotten"]
                ELSE load
    BY <1>1, <1>3, <1>4, <1>5 DEF Return
  <2>. QED BY <2>1 DEF TabsShaped, Loads
<1>8. \E happened : /\ hitches' = hitches \cup Hitch("crossed", happened)
                    /\ forgets /\ (load.board # "none" \/ fetch # {}) => happened
  BY <1>1, <1>3, <1>4, <1>5 DEF Return
<1>9. "crossed" \notin hitches /\ (forgets => load.board = "none" /\ fetch = {})
  BY <1>8 DEF Hitch
<1>10. ListsCurrent
  BY <1>9 DEF CacheInv
<1>11. version'["complaints"] \in Nat /\ own'["complaints"] \in Nat
  BY ReturnVersions, SubjectsAre DEF TabsAssumption
<1>12. CASE forgets
  BY <1>6, <1>7, <1>9, <1>11, <1>12 DEF ListsCurrent
<1>13. CASE ~forgets
  <2>1. ~(accepted /\ h.about = "complaints")
    BY <1>2, <1>3, <1>5, <1>13 DEF Sane
  <2>2. own'["complaints"] = own["complaints"]
    <3>1. \/ own' = own
          \/ accepted /\ own' = [own EXCEPT ![h.about] = version'[h.about]]
      BY <1>1, <1>3, <1>4 DEF Return
    <3>. QED BY <2>1, <3>1, SubjectsAre DEF TabsShaped
  <2>. QED BY <1>6, <1>7, <1>10, <1>11, <1>13, <2>2 DEF ListsCurrent
<1>. QED BY <1>12, <1>13

LEMMA ReturnCaches ==
  ASSUME TabsAssumption, FormsAssumption, TabsShaped, Accounted, CacheInv, NEW actor \in Actors,
         NEW outcome \in Outcomes, Return(actor, outcome)
  PROVE  CacheInv'
<1>1. PICK form : form = job[actor].form
  OBVIOUS
<1>2. form \in OwnForms /\ form \in Forms /\ job[actor].step = "call"
  BY <1>1, Calling DEF Return
<1>. DEFINE h == Form[form]
            after == outcome = "accepted" \/ (h.whatever /\ outcome = "refused")
            changes == outcome = "accepted" /\ h.about # "nothing"
            dropped == IF ~after THEN {}
                       ELSE {t \in Tabs : t \in h.drops \/ (t = selected /\ Selected \in h.drops)}
            seen == IF after /\ h.rereads THEN {t \in Tabs : NameOf(t) = "account"} ELSE {}
<1>3. /\ kind' = kind
      /\ version' = IF changes THEN [version EXCEPT ![h.about] = @ + 1] ELSE version
      /\ own' = IF changes /\ form \notin Keeping THEN [own EXCEPT ![h.about] = version'[h.about]]
                ELSE own
      /\ drawn' = [t \in Tabs |-> IF t \in dropped THEN NotKept
                                  ELSE IF t \in seen /\ drawn[t].state = "ready"
                                  THEN [drawn[t] EXCEPT !.v = version'[About(t)]]
                                  ELSE drawn[t]]
      /\ Crossing(actor) /\ changes => "crossed" \in hitches'
      /\ hitches \subseteq hitches'
  <2>1. /\ kind' = kind
        /\ version' = IF changes THEN [version EXCEPT ![h.about] = @ + 1] ELSE version
        /\ own' = IF changes /\ form \notin Keeping THEN [own EXCEPT ![h.about] = version'[h.about]]
                  ELSE own
    BY <1>1, SMTT(30) DEF Return
  <2>2. drawn' = [t \in Tabs |-> IF t \in dropped THEN NotKept
                                 ELSE IF t \in seen /\ drawn[t].state = "ready"
                                 THEN [drawn[t] EXCEPT !.v = version'[About(t)]]
                                 ELSE drawn[t]]
    BY <1>1, SMTT(30) DEF Return
  <2>3. \E happened : /\ hitches' = hitches \cup Hitch("crossed", happened)
                      /\ Crossing(actor) /\ changes => happened
    BY <1>1 DEF Return
  <2>4. /\ Crossing(actor) /\ changes => "crossed" \in hitches'
        /\ hitches \subseteq hitches'
    BY <2>3 DEF Hitch
  <2>. QED BY <2>1, <2>2, <2>4
<1>4. Others(actor) /\ job'[actor].step \in {"idle", "switch"}
  BY ReturnEffect
<1>5. /\ version \in [Subjects -> Nat] /\ own \in [Subjects -> Nat]
      /\ version' \in [Subjects -> Nat] /\ own' \in [Subjects -> Nat]
  <2>1. 0..MaxPresses \subseteq Nat
    BY DEF TabsAssumption
  <2>2. /\ version \in [Subjects -> 0..MaxPresses] /\ own \in [Subjects -> 0..MaxPresses]
        /\ version' \in [Subjects -> 0..MaxPresses] /\ own' \in [Subjects -> 0..MaxPresses]
    BY ReturnVersions DEF TabsShaped
  <2>. QED BY <2>1, <2>2
<1>6. \A t : About(t)' = About(t)
  BY <1>3, WorkSame
<1>7. \A s \in Subjects : own'[s] <= version'[s]
  BY <1>3, <1>5 DEF CacheInv
<1>8. \A s \in Subjects : own'[s] = own[s] \/ (changes /\ form \notin Keeping /\ s = h.about)
  BY <1>3, <1>5
<1>11. own'["nothing"] = 0
  <2>1. own["nothing"] = 0
    BY DEF CacheInv
  <2>. QED BY <1>8, <2>1, SubjectsAre
<1>12. "crossed" \notin hitches' => ListsCurrent'
  BY <1>7, ReturnCurrent, SubjectsAre
<1>9. ASSUME "crossed" \notin hitches', NEW t \in Tabs, drawn'[t].state = "ready"
      PROVE  drawn'[t].v >= own'[About(t)']
  <2>1. PICK s \in Subjects : s = About(t) /\ s = About(t)'
    BY <1>6, KindGiven
  <2>2. drawn[t] \in [v : 0..MaxPresses, state : States]
    BY DEF TabsShaped
  <2>3. t \notin dropped
    BY <1>3, <1>9 DEF NotKept
  <2>4. CASE t \in seen /\ drawn[t].state = "ready"
    <3>1. drawn'[t].v = version'[s]
      <4>1. drawn'[t] = [drawn[t] EXCEPT !.v = version'[About(t)]]
        BY <1>3, <2>3, <2>4
      <4>. QED BY <2>1, <2>2, <4>1
    <3>. QED BY <1>5, <1>7, <2>1, <3>1
  <2>5. CASE ~(t \in seen /\ drawn[t].state = "ready")
    <3>1. drawn'[t] = drawn[t]
      BY <1>3, <2>3, <2>5
    <3>2. drawn[t].v >= own[s]
      BY <1>3, <1>9, <2>1, <3>1 DEF CacheInv
    <3>3. own'[s] = own[s]
      <4>1. SUFFICES ASSUME changes, form \notin Keeping, s = h.about
                     PROVE  FALSE
        BY <1>8
      <4>2. /\ kind \in DOMAIN TabsOf /\ s = SubjectOf[TabsOf[kind][t + 1]]
            /\ form \in FormsOf[kind] \cup CommonForms
        BY <1>2, <2>1, KindGiven DEF About, NameOf, OwnForms
      <4>3. t \in h.drops \/ (h.rereads /\ NameOf(t) = "account")
        BY <4>1, <4>2, HandlersCover DEF NameOf
      <4>4. t \in dropped \/ t \in seen
        BY <4>1, <4>3
      <4>. QED BY <1>9, <2>3, <2>5, <3>1, <4>4
    <3>. QED BY <2>1, <3>1, <3>2, <3>3
  <2>. QED BY <2>4, <2>5
<1>10. ASSUME "crossed" \notin hitches', NEW a \in Actors, job'[a].step = "place",
              job'[a].state = "ready"
       PROVE  job'[a].v >= own'[About(job[a].tab)']
  <2>1. a # actor
    BY <1>4, <1>10
  <2>2. job'[a] = job[a]
    BY <1>4, <2>1 DEF Others
  <2>3. ~changes
    BY <1>3, <1>10, <2>1, <2>2 DEF Crossing
  <2>4. own' = own
    BY <1>3, <2>3
  <2>5. PICK tab : tab = job[a].tab
    OBVIOUS
  <2>6. job[a].v >= own[About(tab)]
    BY <1>3, <1>10, <2>2, <2>5 DEF CacheInv
  <2>7. own'[About(tab)'] = own[About(tab)]
    BY <1>6, <2>4
  <2>. QED BY <2>2, <2>5, <2>6, <2>7
<1>. QED BY <1>7, <1>9, <1>10, <1>11, <1>12 DEF CacheInv

LEMMA CachesStep ==
  ASSUME TabsAssumption, FormsAssumption, TabsShaped, Accounted, CacheInv, [PortalsNext]_allVars
  PROVE  CacheInv'
<1>0. ASSUME own' = own, UNCHANGED <<listed, rows, list, fetch>>, load' = load, ListsCurrent
      PROVE  ListsCurrent'
  BY <1>0, ListsStay
<1>1. CASE UNCHANGED vars
  BY <1>0, <1>1, CacheKept DEF vars
<1>2. ASSUME NEW actor \in Actors, NEW tab \in Tabs, job[actor].step \in {"idle", "switch"},
             SwitchTo(actor, tab), visits' \in 0..MaxVisits
      PROVE  CacheInv'
  <2>1. /\ Others(actor) /\ job'[actor].step \in {"idle", "free", "draw"}
        /\ hitches \subseteq hitches'
    BY <1>2, SwitchEffect
  <2>. QED BY <1>0, <1>2, <2>1, CacheKept DEF SwitchTo, Others, board, lists
<1>3. ASSUME NEW form \in Forms, Press(form)
      PROVE  CacheInv'
  <2>1. PICK actor \in Actors : Others(actor) /\ job'[actor].step = "call"
    BY <1>3, PressEffect
  <2>. QED BY <1>0, <1>3, <2>1, CacheKept DEF Press, Others, ghosts, board, lists
<1>4. ASSUME NEW form \in Forms, Reopen(form)
      PROVE  CacheInv'
  <2>1. \A a \in Actors : Loses(a, {form})
    BY <1>4, ReopenEffect
  <2>. QED BY <1>0, <1>4, <2>1, CacheKept DEF Reopen, Loses, board, lists
<1>5. CASE RetryBoard
  <2>1. Others(Loop) /\ job'[Loop].step = "draw" /\ hitches \subseteq hitches'
        /\ \A t \in Tabs : drawn'[t] = drawn[t] \/ drawn'[t].state = "none"
    BY <1>5, RetryBoardEffect
  <2>2. /\ own' = own /\ version' = version /\ kind' = kind
        /\ UNCHANGED <<list, fetch>> /\ (listed' => listed /\ kind = "Student")
        /\ kind = "Student" => rows' = rows
    BY <1>5 DEF RetryBoard
  <2>3. load' = load \/ load'.since = Since
    BY <1>5 DEF RetryBoard, TabsShaped, Loads
  <2>4. ListsCurrent => ListsCurrent'
    BY <2>2, <2>3, SinceCurrent DEF ListsCurrent
  <2>. QED BY <2>1, <2>2, <2>4, CacheKept DEF Others
<1>6. CASE RetryReference
  <2>1. hitches \subseteq hitches'
    BY <1>6, RetryReferenceEffect
  <2>2. load'.board = load.board /\ load'.since = load.since
    BY <1>6 DEF RetryReference, TabsShaped, Loads
  <2>. QED BY <1>6, <2>1, <2>2, CacheKept, ListsStay DEF RetryReference, lists
<1>7. ASSUME NEW actor \in Actors, NEW outcome \in Outcomes, Return(actor, outcome)
      PROVE  CacheInv'
  BY <1>7, ReturnCaches
<1>8. ASSUME NEW actor \in Actors, DrawFails(actor)
      PROVE  CacheInv'
  <2>1. Others(actor) /\ job'[actor].step \in {"idle", "free"}
    BY <1>8, DrawFailsEffect
  <2>. QED BY <1>0, <1>8, <2>1, CacheKept DEF DrawFails, Others, board, lists
<1>9. ASSUME NEW actor \in Actors, Draw(actor)
      PROVE  CacheInv'
  BY <1>9, DrawCaches
<1>10. ASSUME NEW actor \in Actors, Place(actor)
       PROVE  CacheInv'
  BY <1>10, PlaceCaches
<1>11. ASSUME NEW tab, job' = job \/ LoadDraws(tab)
       PROVE  \A a \in Actors : job'[a].step = "place" => job'[a] = job[a]
  BY <1>11 DEF LoadDraws, Others
<1>12. ASSUME NEW outcome \in {"rows", "failed", "gone"}, BoardLoaded(outcome)
       PROVE  CacheInv'
  <2>1. /\ job' = job \/ LoadDraws(0)
        /\ hitches \subseteq hitches'
        /\ \A t \in Tabs : drawn'[t] = drawn[t] \/ drawn'[t].state = "none"
    BY <1>12, BoardLoadedEffect
  <2>2. \A a \in Actors : job'[a].step = "place" => job'[a] = job[a]
    BY <1>11, <2>1
  <2>3. ListsCurrent => ListsCurrent'
    <3>1. /\ UNCHANGED <<own, list, fetch>> /\ load.board # "none" /\ load'.board = "none"
          /\ listed' => listed \/ outcome = "rows"
          /\ rows' = IF outcome = "rows" THEN load.since ELSE rows
      BY <1>12, BoardLoadedEffect DEF BoardLoaded
    <3>. QED BY <3>1 DEF ListsCurrent
  <2>. QED BY <1>12, <2>1, <2>2, <2>3, CacheKept DEF BoardLoaded
<1>13. ASSUME NEW succeeds \in BOOLEAN, ReferenceLoaded(succeeds)
       PROVE  CacheInv'
  <2>1. /\ job' = job \/ LoadDraws(selected)
        /\ hitches \subseteq hitches'
        /\ \A t \in Tabs : drawn'[t] = drawn[t] \/ drawn'[t].state = "none"
    BY <1>13, ReferenceLoadedEffect
  <2>2. \A a \in Actors : job'[a].step = "place" => job'[a] = job[a]
    BY <1>11, <2>1
  <2>3. load'.board = load.board /\ load'.since = load.since
    BY <1>13 DEF ReferenceLoaded, TabsShaped, Loads
  <2>. QED BY <1>13, <2>1, <2>2, <2>3, CacheKept, ListsStay DEF ReferenceLoaded, lists
<1>14. ASSUME NEW actor \in Actors, Free(actor)
       PROVE  CacheInv'
  <2>1. Others(actor) /\ job'[actor] = NoJob
    BY <1>14, FreeEffect
  <2>. QED BY <1>0, <1>14, <2>1, NoWork, CacheKept DEF Free, Others, board, ghosts, lists
<1>15. ASSUME NEW v \in fetch, NEW succeeds \in BOOLEAN, ListRead(v, succeeds)
       PROVE  CacheInv'
  <2>1. /\ fetch' \subseteq fetch /\ (listed' => listed \/ (succeeds /\ kind = "Student"))
        /\ rows' = IF succeeds /\ kind = "Student" THEN v ELSE rows
        /\ list' \subseteq list \cup {v} /\ own' = own /\ load' = load
    BY <1>15, ListReadEffect DEF ListRead
  <2>2. ListsCurrent => ListsCurrent'
    BY <2>1 DEF ListsCurrent
  <2>. QED BY <1>15, <2>2, CacheKept DEF ListRead, ghosts
<1>. QED BY <1>1, <1>2, <1>3, <1>4, <1>5, <1>6, <1>7, <1>8, <1>9, <1>10, <1>12, <1>13, <1>14,
            <1>15, StepsOfTabs

LEMMA CachesInitially ==
  ASSUME TabsAssumption, PortalsInit
  PROVE  CacheInv
<1>1. own = version /\ version = [s \in Subjects |-> 0]
  BY DEF PortalsInit, Built, AtPool, Init
<1>2. \A t \in Tabs : drawn[t].v = 0
  <2>1. CASE Init
    <3>1. drawn = [t \in Tabs |-> NotKept]
      BY <2>1 DEF Init
    <3>. QED BY <3>1 DEF NotKept
  <2>2. CASE AtPool
    <3>1. drawn = [t \in Tabs |-> [v |-> 0, state |-> IF t = PoolTab THEN "ready" ELSE "none"]]
      BY <2>2 DEF AtPool
    <3>. QED BY <3>1
  <2>. QED BY <2>1, <2>2 DEF PortalsInit, Built
<1>3. \A t \in Tabs : About(t) \in Subjects
  <2>1. kind \in DOMAIN TabsOf
    BY DEF PortalsInit, Built, AtPool, Init, TabsAssumption
  <2>. QED BY <2>1, TabNamed, SubjectsAre DEF About, NameOf
<1>4. \A a \in Actors : ~Drawing(a)
  BY InitialJobs DEF Drawing
<1>5. (\A s \in Subjects : own[s] <= version[s]) /\ own["nothing"] = 0
  BY <1>1, SubjectsAre
<1>7. ListsCurrent
  <2>1. /\ rows = 0 /\ list = {} /\ fetch = {}
        /\ load = [board |-> "none", reference |-> "none", since |-> 0]
    BY DEF PortalsInit, Built, AtPool, Init
  <2>. QED BY <1>1, <2>1, SubjectsAre DEF ListsCurrent
<1>6. \A t \in Tabs : drawn[t].state = "ready" => drawn[t].v >= own[About(t)]
  BY <1>1, <1>2, <1>3
<1>. QED BY <1>4, <1>5, <1>6, <1>7 DEF CacheInv, Drawing

\* What is kept is not older than the user's last change that drops it: for any
\* portals, threads and number of presses and visits.
THEOREM CachedTabsCurrentTheorem == PortalsSpec => []CachedTabsCurrent
<1>. DEFINE I == TabsShaped /\ Accounted /\ CacheInv
<1>1. PortalsInit => I
  BY TabsInitially, CachesInitially, TabsAssumption, FormsAssumption, SharesAssumption
<1>2. I /\ [PortalsNext]_allVars => I'
  BY TabsStep, CachesStep, TabsAssumption, FormsAssumption
<1>3. I => CachedTabsCurrent
  BY DEF CacheInv, CachedTabsCurrent
<1>. QED BY <1>1, <1>2, <1>3, PTL DEF PortalsSpec

-----------------------------------------------------------------------------
(* The screen.                                                             *)

\* A step after which the same jobs draw the same tabs.
LEMMA ScreenKept ==
  ASSUME ScreenInv, hitches \subseteq hitches', selected' = selected, shown'.tab = shown.tab,
         \A a \in Actors : (Drawing(a)' <=> Drawing(a))
                           /\ (Drawing(a) => job'[a].tab = job[a].tab)
  PROVE  ScreenInv'
<1>1. SUFFICES ASSUME hitches' \cap {"crossed", "failed"} = {}
      PROVE  /\ \A a, b \in Actors : Drawing(a)' /\ Drawing(b)' => a = b
             /\ \A a \in Actors : Drawing(a)' => job'[a].tab = selected'
             /\ shown'.tab = selected' \/ \E a \in Actors : Drawing(a)'
  BY DEF ScreenInv
<1>2. hitches \cap {"crossed", "failed"} = {}
  BY <1>1
<1>3. \A a, b \in Actors : Drawing(a)' /\ Drawing(b)' => a = b
  BY <1>2 DEF ScreenInv
<1>4. \A a \in Actors : Drawing(a)' => job'[a].tab = selected'
  BY <1>2 DEF ScreenInv
<1>5. shown'.tab = selected' \/ \E a \in Actors : Drawing(a)'
  BY <1>2 DEF ScreenInv
<1>. QED BY <1>3, <1>4, <1>5

\* A step after which only actor draws, and what is selected.
LEMMA ScreenDraws ==
  ASSUME NEW actor \in Actors, \A b \in Actors \ {actor} : ~Drawing(b)',
         Drawing(actor)', job'[actor].tab = selected'
  PROVE  ScreenInv'
BY DEF ScreenInv

\* A step after which nobody draws.
LEMMA ScreenRests ==
  ASSUME \A b \in Actors : ~Drawing(b)', shown'.tab = selected'
  PROVE  ScreenInv'
BY DEF ScreenInv

LEMMA SwitchScreen ==
  ASSUME TabsAssumption, TabsShaped, ScreenInv, NEW actor \in Actors, NEW tab \in Tabs,
         job[actor].step \in {"idle", "switch"}, SwitchTo(actor, tab),
         visits' \in 0..MaxVisits
  PROVE  ScreenInv'
<1>1. CASE Crossing(actor)
  <2>1. "crossed" \in hitches'
    BY <1>1, SwitchEffect
  <2>. QED BY <2>1 DEF ScreenInv
<1>2. CASE ~Crossing(actor)
  <2>1. \A b \in Actors \ {actor} : ~Drawing(b)'
    BY <1>2, SwitchEffect DEF Crossing, Others, Drawing
  <2>2. \/ job'[actor].step \in {"idle", "free"} /\ shown'.tab = tab /\ selected' = tab
        \/ Drawing(actor)' /\ job'[actor].tab = tab /\ selected' = tab
    BY SwitchEffect DEF Drawing
  <2>3. CASE job'[actor].step \in {"idle", "free"} /\ shown'.tab = tab /\ selected' = tab
    <3>1. \A b \in Actors : ~Drawing(b)'
      BY <2>1, <2>3 DEF Drawing
    <3>. QED BY <2>3, <3>1, ScreenRests
  <2>4. CASE Drawing(actor)' /\ job'[actor].tab = tab /\ selected' = tab
    BY <2>1, <2>4, ScreenDraws
  <2>. QED BY <2>2, <2>3, <2>4
<1>. QED BY <1>1, <1>2

LEMMA RetryBoardScreen ==
  ASSUME TabsAssumption, TabsShaped, ScreenInv, RetryBoard
  PROVE  ScreenInv'
<1>0. Loop \in Actors
  BY KindGiven
<1>1. CASE hitches' \cap {"crossed", "failed"} # {}
  BY <1>1 DEF ScreenInv
<1>2. CASE hitches' \cap {"crossed", "failed"} = {}
  <2>1. /\ Others(Loop) /\ job[Loop] = NoJob /\ job'[Loop].step = "draw" /\ job'[Loop].tab = 0
        /\ ~Crossing(Loop) /\ hitches \cap {"crossed", "failed"} = {}
    BY <1>2, RetryBoardEffect
  <2>2. \A b \in Actors : ~Drawing(b)
    BY <2>1, NoWork DEF Crossing, Drawing
  <2>3. shown.tab = selected
    BY <2>1, <2>2 DEF ScreenInv
  <2>4. shown.tab = 0
    <3>1. shown.tab \in Tabs
      BY DEF TabsShaped
    <3>. QED BY <3>1, KindGiven DEF RetryBoard
  <2>5. selected' = 0
    BY <2>3, <2>4 DEF RetryBoard
  <2>6. \A b \in Actors \ {Loop} : ~Drawing(b)'
    BY <2>1, <2>2 DEF Others, Drawing
  <2>7. Drawing(Loop)'
    BY <2>1 DEF Drawing
  <2>. QED BY <1>0, <2>1, <2>5, <2>6, <2>7, ScreenDraws
<1>. QED BY <1>1, <1>2

LEMMA PlaceScreen ==
  ASSUME TabsAssumption, TabsShaped, ScreenInv, NEW actor \in Actors, Place(actor)
  PROVE  ScreenInv'
<1>1. CASE hitches' \cap {"crossed", "failed"} # {}
  BY <1>1 DEF ScreenInv
<1>2. CASE hitches' \cap {"crossed", "failed"} = {}
  <2>1. /\ hitches' = hitches /\ selected' = selected /\ job[actor].step = "place"
        /\ job'[actor].step \in {"idle", "free"} /\ shown'.tab = job[actor].tab
        /\ \A b \in Actors \ {actor} : job'[b].step = job[b].step
    BY PlaceEffect DEF Place, Loses
  <2>2. Drawing(actor)
    BY <2>1 DEF Drawing
  <2>3. job[actor].tab = selected /\ \A b \in Actors \ {actor} : ~Drawing(b)
    BY <1>2, <2>1, <2>2 DEF ScreenInv
  <2>4. \A b \in Actors : ~Drawing(b)'
    BY <2>1, <2>3 DEF Drawing
  <2>. QED BY <2>1, <2>3, <2>4, ScreenRests
<1>. QED BY <1>1, <1>2

\* The end of a load that draws what is selected, or nothing.
LEMMA LoadScreen ==
  ASSUME ScreenInv, NEW tab \in Tabs, TabsAssumption,
         job' = job \/ (LoadDraws(tab) /\ selected = tab),
         selected' = selected, shown' = shown, hitches \subseteq hitches',
         (\E a \in Actors : Drawing(a)) => "crossed" \in hitches'
  PROVE  ScreenInv'
<1>1. CASE job' = job
  BY <1>1, ScreenKept DEF Drawing
<1>2. CASE LoadDraws(tab) /\ selected = tab
  <2>1. PICK thread \in Actors :
          Others(thread) /\ job'[thread].step = "draw" /\ job'[thread].tab = tab
    BY <1>2 DEF LoadDraws
  <2>2. CASE \E a \in Actors : Drawing(a)
    BY <2>2 DEF ScreenInv
  <2>3. CASE \A a \in Actors : ~Drawing(a)
    <3>1. \A b \in Actors \ {thread} : ~Drawing(b)'
      BY <2>1, <2>3 DEF Others, Drawing
    <3>2. Drawing(thread)' /\ job'[thread].tab = selected'
      BY <1>2, <2>1 DEF Drawing
    <3>. QED BY <3>1, <3>2, ScreenDraws
  <2>. QED BY <2>2, <2>3
<1>. QED BY <1>1, <1>2

LEMMA ScreenStep ==
  ASSUME TabsAssumption, FormsAssumption, TabsShaped, Accounted, ScreenInv, [PortalsNext]_allVars
  PROVE  ScreenInv'
<1>1. CASE UNCHANGED vars
  BY <1>1, ScreenKept DEF vars, Drawing
<1>2. ASSUME NEW actor \in Actors, NEW tab \in Tabs, job[actor].step \in {"idle", "switch"},
             SwitchTo(actor, tab), visits' \in 0..MaxVisits
      PROVE  ScreenInv'
  BY <1>2, SwitchScreen
<1>3. ASSUME NEW form \in Forms, Press(form)
      PROVE  ScreenInv'
  <2>1. PICK actor \in Actors :
          Others(actor) /\ job[actor] = NoJob /\ job'[actor].step = "call"
    BY <1>3, PressEffect
  <2>2. \A a \in Actors : (Drawing(a)' <=> Drawing(a)) /\ (Drawing(a) => job'[a].tab = job[a].tab)
    BY <2>1, NoWork DEF Others, Drawing
  <2>. QED BY <1>3, <2>2, ScreenKept DEF Press, ghosts
<1>4. ASSUME NEW form \in Forms, Reopen(form)
      PROVE  ScreenInv'
  <2>1. \A a \in Actors : Loses(a, {form})
    BY <1>4, ReopenEffect
  <2>2. \A a \in Actors : (Drawing(a)' <=> Drawing(a)) /\ (Drawing(a) => job'[a].tab = job[a].tab)
    BY <2>1 DEF Loses, Drawing
  <2>. QED BY <1>4, <2>2, ScreenKept DEF Reopen
<1>5. CASE RetryBoard
  BY <1>5, RetryBoardScreen
<1>6. CASE RetryReference
  <2>1. hitches \subseteq hitches' /\ shown'.tab = shown.tab
    BY <1>6, RetryReferenceEffect
  <2>. QED BY <1>6, <2>1, ScreenKept DEF RetryReference, Drawing
<1>7. ASSUME NEW actor \in Actors, NEW outcome \in Outcomes, Return(actor, outcome)
      PROVE  ScreenInv'
  <2>1. Others(actor) /\ job'[actor].step \in {"idle", "switch"} /\ hitches \subseteq hitches'
    BY <1>7, ReturnEffect
  <2>2. job[actor].step = "call" /\ selected' = selected /\ shown' = shown
    BY <1>7 DEF Return
  <2>3. \A a \in Actors : (Drawing(a)' <=> Drawing(a)) /\ (Drawing(a) => job'[a].tab = job[a].tab)
    BY <2>1, <2>2 DEF Others, Drawing
  <2>. QED BY <2>1, <2>2, <2>3, ScreenKept
<1>8. ASSUME NEW actor \in Actors, DrawFails(actor)
      PROVE  ScreenInv'
  BY <1>8, DrawFailsEffect DEF ScreenInv
<1>9. ASSUME NEW actor \in Actors, Draw(actor)
      PROVE  ScreenInv'
  <2>1. Others(actor) /\ job'[actor].step = "place" /\ job'[actor].tab = job[actor].tab
        /\ job[actor].step = "draw"
    BY <1>9, DrawEffect DEF Drawn, Draw
  <2>2. \A a \in Actors : (Drawing(a)' <=> Drawing(a)) /\ (Drawing(a) => job'[a].tab = job[a].tab)
    BY <2>1 DEF Others, Drawing
  <2>. QED BY <1>9, <2>2, ScreenKept DEF Draw, ghosts
<1>10. ASSUME NEW actor \in Actors, Place(actor)
       PROVE  ScreenInv'
  BY <1>10, PlaceScreen
<1>11. ASSUME NEW outcome \in {"rows", "failed", "gone"}, BoardLoaded(outcome)
       PROVE  ScreenInv'
  <2>1. 0 \in Tabs
    BY DEF Tabs
  <2>2. /\ job' = job \/ (LoadDraws(0) /\ selected = 0)
        /\ hitches \subseteq hitches'
        /\ (\E a \in Actors : Drawing(a)) => "crossed" \in hitches'
    BY <1>11, BoardLoadedEffect
  <2>3. selected' = selected /\ shown' = shown
    BY <1>11 DEF BoardLoaded
  <2>. QED BY <2>1, <2>2, <2>3, LoadScreen
<1>12. ASSUME NEW succeeds \in BOOLEAN, ReferenceLoaded(succeeds)
       PROVE  ScreenInv'
  <2>1. PICK tab \in Tabs : tab = selected
    BY DEF TabsShaped
  <2>2. /\ job' = job \/ (LoadDraws(tab) /\ selected = tab)
        /\ hitches \subseteq hitches'
        /\ (\E a \in Actors : Drawing(a)) => "crossed" \in hitches'
    BY <1>12, <2>1, ReferenceLoadedEffect
  <2>3. selected' = selected /\ shown' = shown
    BY <1>12 DEF ReferenceLoaded
  <2>. QED BY <2>1, <2>2, <2>3, LoadScreen
<1>13. ASSUME NEW actor \in Actors, Free(actor)
       PROVE  ScreenInv'
  <2>1. Others(actor) /\ job'[actor] = NoJob /\ job[actor].step = "free"
    BY <1>13, FreeEffect
  <2>2. \A a \in Actors : (Drawing(a)' <=> Drawing(a)) /\ (Drawing(a) => job'[a].tab = job[a].tab)
    BY <2>1, NoWork DEF Others, Drawing
  <2>. QED BY <1>13, <2>2, ScreenKept DEF Free, ghosts
<1>14. ASSUME NEW v \in fetch, NEW succeeds \in BOOLEAN, ListRead(v, succeeds)
       PROVE  ScreenInv'
  BY <1>14, ScreenKept DEF ListRead, ghosts, Drawing
<1>. QED BY <1>1, <1>2, <1>3, <1>4, <1>5, <1>6, <1>7, <1>8, <1>9, <1>10, <1>11, <1>12, <1>13,
            <1>14, StepsOfTabs

-----------------------------------------------------------------------------
(* The progress rings.                                                     *)

\* The invariant of the rings after a step, from what the step did to each part.
LEMMA RingKept ==
  ASSUME hitches' = {} =>
           /\ \A t \in Tabs : drawn'[t].state = "loading" => Pending(t)'
           /\ shown'.state = "loading" => Pending(shown.tab)' \/ \E a \in Actors : Drawing(a)'
           /\ \A a \in Actors : job'[a].step = "place" /\ job'[a].state = "loading"
                                  => Pending(job[a].tab)'
           /\ \A a \in Actors : kind' = "Student" /\ job'[a].step = "draw" /\ job'[a].direct
                                  => Answered(job[a].tab)' \/ Pending(job[a].tab)'
           /\ load'.board # "forgotten"
  PROVE  RingInv'
BY DEF RingInv

\* The loads that run still run.
LoadsRun ==
  /\ kind' = kind
  /\ load.board # "none" => load'.board # "none"
  /\ load.reference # "none" => load'.reference # "none"
  /\ load'.board = "forgotten" => load.board = "forgotten"

LEMMA PendingKept ==
  ASSUME LoadsRun, NEW t, Pending(t)
  PROVE  Pending(t)'
BY DEF LoadsRun, Pending

LEMMA AnswersKept ==
  ASSUME LoadsRun, NEW t, kind = "Student", Answered(t) \/ Pending(t),
         listed => listed' \/ load'.board # "none",
         boardError => boardError' \/ load'.board # "none",
         refLoaded => refLoaded' \/ load'.reference # "none",
         refError => refError' \/ load'.reference # "none"
  PROVE  Answered(t)' \/ Pending(t)'
BY DEF LoadsRun, Pending, Answered

\* A step that puts up nothing, and after which a ring that is placed, and a
\* direct drawing, was one before.
LEMMA RingsSame ==
  ASSUME RingInv, hitches' = {} => hitches = {}, LoadsRun, shown' = shown,
         listed => listed' \/ load'.board # "none" \/ hitches' # {}
                   \/ \A a \in Actors : ~Drawing(a),
         boardError => boardError' \/ load'.board # "none",
         refLoaded => refLoaded' \/ load'.reference # "none",
         refError => refError' \/ load'.reference # "none",
         \A t \in Tabs : drawn'[t].state = "loading" => drawn[t].state = "loading",
         \A a \in Actors : Drawing(a) => Drawing(a)',
         \A a \in Actors : job'[a].step = "place" =>
           job[a].step = "place" /\ job'[a].tab = job[a].tab /\ job'[a].state = job[a].state,
         \A a \in Actors : job'[a].step = "draw" /\ job'[a].direct =>
           job[a].step = "draw" /\ job[a].direct /\ job'[a].tab = job[a].tab
  PROVE  RingInv'
<1>. SUFFICES ASSUME hitches' = {}
     PROVE  /\ \A t \in Tabs : drawn'[t].state = "loading" => Pending(t)'
            /\ shown'.state = "loading" => Pending(shown.tab)' \/ \E a \in Actors : Drawing(a)'
            /\ \A a \in Actors : job'[a].step = "place" /\ job'[a].state = "loading"
                                   => Pending(job[a].tab)'
            /\ \A a \in Actors : kind' = "Student" /\ job'[a].step = "draw" /\ job'[a].direct
                                   => Answered(job[a].tab)' \/ Pending(job[a].tab)'
            /\ load'.board # "forgotten"
  BY RingKept
<1>0. hitches = {}
  OBVIOUS
<1>1. \A t \in Tabs : drawn'[t].state = "loading" => Pending(t)'
  BY <1>0, PendingKept DEF RingInv
<1>2. shown'.state = "loading" => Pending(shown.tab)' \/ \E a \in Actors : Drawing(a)'
  <2>1. PICK t : t = shown.tab
    OBVIOUS
  <2>2. shown.state = "loading" => Pending(t) \/ \E a \in Actors : Drawing(a)
    BY <1>0, <2>1 DEF RingInv
  <2>3. shown'.tab = t
    BY <2>1
  <2>4. shown'.state = "loading" => Pending(t)' \/ \E a \in Actors : Drawing(a)'
    BY <2>2, PendingKept
  <2>. QED BY <2>3, <2>4
<1>3. ASSUME NEW a \in Actors, job'[a].step = "place", job'[a].state = "loading"
      PROVE  Pending(job[a].tab)'
  <2>1. PICK t : t = job[a].tab
    OBVIOUS
  <2>2. Pending(t) /\ job'[a].tab = t
    BY <1>0, <1>3, <2>1 DEF RingInv
  <2>3. Pending(t)'
    BY <2>2, PendingKept
  <2>. QED BY <2>2, <2>3
<1>4. ASSUME NEW a \in Actors, kind' = "Student", job'[a].step = "draw", job'[a].direct
      PROVE  Answered(job[a].tab)' \/ Pending(job[a].tab)'
  <2>1. PICK t : t = job[a].tab
    OBVIOUS
  <2>2. /\ kind = "Student" /\ job'[a].tab = t /\ Drawing(a)
        /\ Answered(t) \/ Pending(t)
    BY <1>0, <1>4, <2>1 DEF RingInv, LoadsRun, Drawing
  <2>3. listed => listed' \/ load'.board # "none"
    BY <2>2
  <2>4. Answered(t)' \/ Pending(t)'
    BY <2>2, <2>3, AnswersKept
  <2>. QED BY <2>2, <2>4
<1>5. load'.board # "forgotten"
  BY <1>0 DEF RingInv, LoadsRun
<1>. QED BY <1>1, <1>2, <1>3, <1>4, <1>5

LEMMA SwitchRing ==
  ASSUME TabsAssumption, TabsShaped, RingInv, NEW actor \in Actors, NEW tab \in Tabs,
         job[actor].step \in {"idle", "switch"}, SwitchTo(actor, tab),
         visits' \in 0..MaxVisits
  PROVE  RingInv'
<1>1. /\ LoadsRun /\ drawn' = drawn /\ Others(actor) /\ (hitches' = {} => hitches = {})
      /\ UNCHANGED <<listed, boardError, refLoaded, refError>>
  BY SwitchEffect DEF SwitchTo, board, lists, LoadsRun
<1>2. \/ /\ job'[actor].step \in {"idle", "free"}
         /\ shown'.tab = tab /\ shown'.state = drawn[tab].state
      \/ /\ shown' = shown /\ job'[actor].step = "draw" /\ ~job'[actor].direct
  BY SwitchEffect
<1>3. \A a \in Actors : job'[a].step = "place" => a # actor /\ job'[a] = job[a]
  BY <1>1, <1>2, NoWork DEF Others
<1>4. \A a \in Actors : job'[a].step = "draw" /\ job'[a].direct => a # actor /\ job'[a] = job[a]
  BY <1>1, <1>2, NoWork DEF Others
<1>5. \A a \in Actors : Drawing(a) => Drawing(a)'
  BY <1>1 DEF Others, Drawing
<1>6. CASE shown' = shown
  BY <1>1, <1>3, <1>4, <1>5, <1>6, RingsSame
<1>7. CASE shown'.tab = tab /\ shown'.state = drawn[tab].state
  <2>. SUFFICES ASSUME hitches' = {}
       PROVE  /\ \A t \in Tabs : drawn'[t].state = "loading" => Pending(t)'
              /\ shown'.state = "loading" => Pending(shown.tab)' \/ \E a \in Actors : Drawing(a)'
              /\ \A a \in Actors : job'[a].step = "place" /\ job'[a].state = "loading"
                                     => Pending(job[a].tab)'
              /\ \A a \in Actors : kind' = "Student" /\ job'[a].step = "draw" /\ job'[a].direct
                                     => Answered(job[a].tab)' \/ Pending(job[a].tab)'
              /\ load'.board # "forgotten"
    BY RingKept
  <2>0. hitches = {}
    BY <1>1
  <2>1. \A t \in Tabs : drawn'[t].state = "loading" => Pending(t)'
    BY <1>1, <2>0, PendingKept DEF RingInv
  <2>2. shown'.state = "loading" => Pending(shown.tab)'
    <3>1. shown'.state = "loading" => Pending(tab)'
      BY <1>1, <1>7, <2>1
    <3>. QED BY <1>7, <3>1
  <2>3. ASSUME NEW a \in Actors, job'[a].step = "place", job'[a].state = "loading"
        PROVE  Pending(job[a].tab)'
    <3>1. PICK t : t = job[a].tab
      OBVIOUS
    <3>2. Pending(t) /\ job'[a].tab = t
      BY <1>3, <2>0, <2>3, <3>1 DEF RingInv
    <3>3. Pending(t)'
      BY <1>1, <3>2, PendingKept
    <3>. QED BY <3>2, <3>3
  <2>4. ASSUME NEW a \in Actors, kind' = "Student", job'[a].step = "draw", job'[a].direct
        PROVE  Answered(job[a].tab)' \/ Pending(job[a].tab)'
    <3>1. PICK t : t = job[a].tab
      OBVIOUS
    <3>2. /\ kind = "Student" /\ job'[a].tab = t
          /\ Answered(t) \/ Pending(t)
      BY <1>1, <1>4, <2>0, <2>4, <3>1 DEF RingInv, LoadsRun
    <3>3. Answered(t)' \/ Pending(t)'
      BY <1>1, <3>2, AnswersKept
    <3>. QED BY <3>2, <3>3
  <2>5. load'.board # "forgotten"
    BY <1>1, <2>0 DEF RingInv, LoadsRun
  <2>. QED BY <2>1, <2>2, <2>3, <2>4, <2>5
<1>. QED BY <1>2, <1>6, <1>7

LEMMA RetryBoardRing ==
  ASSUME TabsAssumption, TabsShaped, RingInv, RetryBoard
  PROVE  RingInv'
<1>0. Loop \in Actors
  BY KindGiven
<1>1. /\ Others(Loop) /\ job'[Loop].step = "draw" /\ job'[Loop].tab = 0
      /\ hitches \subseteq hitches' /\ drawn'[0].state = "none"
      /\ \A t \in Tabs \ {0} : drawn'[t] = drawn[t]
  BY RetryBoardEffect
<1>2. /\ LoadsRun /\ (kind = "Student" => load'.board # "none")
      /\ UNCHANGED <<shown, refLoaded, refError>>
  <2>1. load \in Loads
    BY DEF TabsShaped
  <2>. QED BY <2>1 DEF RetryBoard, LoadsRun
<1>. SUFFICES ASSUME hitches' = {}
     PROVE  /\ \A t \in Tabs : drawn'[t].state = "loading" => Pending(t)'
            /\ shown'.state = "loading" => Pending(shown.tab)' \/ \E a \in Actors : Drawing(a)'
            /\ \A a \in Actors : job'[a].step = "place" /\ job'[a].state = "loading"
                                   => Pending(job[a].tab)'
            /\ \A a \in Actors : kind' = "Student" /\ job'[a].step = "draw" /\ job'[a].direct
                                   => Answered(job[a].tab)' \/ Pending(job[a].tab)'
            /\ load'.board # "forgotten"
  BY RingKept
<1>3. hitches = {}
  BY <1>1
<1>4. \A t \in Tabs : drawn'[t].state = "loading" => Pending(t)'
  BY <1>1, <1>2, <1>3, PendingKept DEF RingInv
<1>5. \E a \in Actors : Drawing(a)'
  BY <1>0, <1>1 DEF Drawing
<1>6. ASSUME NEW a \in Actors, job'[a].step = "place", job'[a].state = "loading"
      PROVE  Pending(job[a].tab)'
  <2>1. PICK t : t = job[a].tab
    OBVIOUS
  <2>2. Pending(t) /\ job'[a].tab = t
    BY <1>1, <1>3, <1>6, <2>1 DEF RingInv, Others
  <2>3. Pending(t)'
    BY <1>2, <2>2, PendingKept
  <2>. QED BY <2>2, <2>3
<1>7. ASSUME NEW a \in Actors, kind' = "Student", job'[a].step = "draw", job'[a].direct
      PROVE  Answered(job[a].tab)' \/ Pending(job[a].tab)'
  <2>0. kind = "Student" /\ load'.board # "none"
    BY <1>2, <1>7 DEF LoadsRun
  <2>1. CASE a = Loop
    BY <1>1, <2>0, <2>1 DEF Pending
  <2>2. CASE a # Loop
    <3>1. PICK t : t = job[a].tab
      OBVIOUS
    <3>2. job'[a].tab = t /\ (Answered(t) \/ Pending(t))
      BY <1>1, <1>3, <1>7, <2>0, <2>2, <3>1 DEF RingInv, Others
    <3>3. Answered(t)' \/ Pending(t)'
      BY <1>2, <2>0, <3>2, AnswersKept
    <3>. QED BY <3>2, <3>3
  <2>. QED BY <2>1, <2>2
<1>8. load'.board # "forgotten"
  BY <1>2, <1>3 DEF RingInv, LoadsRun
<1>. QED BY <1>4, <1>5, <1>6, <1>7, <1>8

LEMMA RetryReferenceRing ==
  ASSUME TabsAssumption, TabsShaped, RingInv, RetryReference
  PROVE  RingInv'
<1>1. /\ job' = job /\ drawn' = drawn /\ UNCHANGED <<listed, boardError>>
      /\ hitches \subseteq hitches' /\ shown'.tab = shown.tab
      /\ kind = "Student" /\ shown.tab \in Tabs
  BY RetryReferenceEffect DEF RetryReference, TabsShaped, lists
<1>2. shown.tab \in {1, 2}
  BY <1>1, KindGiven, TabNamed DEF RetryReference, NameOf
<1>. SUFFICES ASSUME hitches' = {}
     PROVE  /\ \A t \in Tabs : drawn'[t].state = "loading" => Pending(t)'
            /\ shown'.state = "loading" => Pending(shown.tab)' \/ \E a \in Actors : Drawing(a)'
            /\ \A a \in Actors : job'[a].step = "place" /\ job'[a].state = "loading"
                                   => Pending(job[a].tab)'
            /\ \A a \in Actors : kind' = "Student" /\ job'[a].step = "draw" /\ job'[a].direct
                                   => Answered(job[a].tab)' \/ Pending(job[a].tab)'
            /\ load'.board # "forgotten"
  BY RingKept
<1>3. hitches = {} /\ ~refLoaded'
  BY <1>1, RetryReferenceEffect
<1>4. LoadsRun /\ load'.reference = "running"
  <2>1. load' = [load EXCEPT !.reference = "running"] /\ kind' = kind
    BY <1>3 DEF RetryReference
  <2>2. load'.board = load.board /\ load'.reference = "running"
    BY <2>1 DEF TabsShaped, Loads
  <2>. QED BY <2>1, <2>2 DEF LoadsRun
<1>5. \A t \in Tabs : drawn'[t].state = "loading" => Pending(t)'
  BY <1>1, <1>3, <1>4, PendingKept DEF RingInv
<1>6. Pending(shown.tab)'
  BY <1>1, <1>2, <1>4 DEF Pending, LoadsRun
<1>7. ASSUME NEW a \in Actors, job'[a].step = "place", job'[a].state = "loading"
      PROVE  Pending(job[a].tab)'
  <2>1. PICK t : t = job[a].tab
    OBVIOUS
  <2>2. Pending(t) /\ job'[a].tab = t
    BY <1>1, <1>3, <1>7, <2>1 DEF RingInv
  <2>3. Pending(t)'
    BY <1>4, <2>2, PendingKept
  <2>. QED BY <2>2, <2>3
<1>8. ASSUME NEW a \in Actors, kind' = "Student", job'[a].step = "draw", job'[a].direct
      PROVE  Answered(job[a].tab)' \/ Pending(job[a].tab)'
  <2>1. PICK t : t = job[a].tab
    OBVIOUS
  <2>2. job'[a].tab = t /\ (Answered(t) \/ Pending(t))
    BY <1>1, <1>3, <1>8, <2>1 DEF RingInv
  <2>3. load'.reference # "none"
    BY <1>4
  <2>4. Answered(t)' \/ Pending(t)'
    BY <1>1, <1>4, <2>2, <2>3, AnswersKept
  <2>. QED BY <2>2, <2>4
<1>9. load'.board # "forgotten"
  BY <1>3, <1>4 DEF RingInv, LoadsRun
<1>. QED BY <1>5, <1>6, <1>7, <1>8, <1>9

LEMMA ReturnRing ==
  ASSUME TabsAssumption, FormsAssumption, TabsShaped, Accounted, RingInv, NEW actor \in Actors,
         NEW outcome \in Outcomes, Return(actor, outcome)
  PROVE  RingInv'
<1>1. PICK form : form = job[actor].form
  OBVIOUS
<1>2. job[actor].step = "call" /\ Sane(form, Form[form])
  BY <1>1, Calling DEF Return
<1>. DEFINE h == Form[form]
            forgets == outcome = "accepted" /\ h.forgets
<1>3. /\ Others(actor) /\ job'[actor].step \in {"idle", "switch"} /\ hitches \subseteq hitches'
  BY ReturnEffect
<1>4. /\ UNCHANGED <<kind, shown, boardError, refLoaded, refError>>
      /\ listed' = (listed /\ ~forgets)
      /\ load' = IF forgets /\ load.board = "running" THEN [load EXCEPT !.board = "forgotten"]
                 ELSE load
      /\ forgets /\ load.board # "none" => "crossed" \in hitches'
      /\ Crossing(actor) /\ outcome = "accepted" /\ h.about # "nothing" => "crossed" \in hitches'
  BY <1>1 DEF Return, Hitch
<1>5. \A t \in Tabs : drawn'[t].state = "loading" => drawn[t].state = "loading"
  <2>1. ASSUME NEW t \in Tabs
        PROVE  \/ drawn'[t] = NotKept
               \/ \E v : drawn'[t] = [drawn[t] EXCEPT !.v = v]
               \/ drawn'[t] = drawn[t]
    BY DEF Return
  <2>2. ASSUME NEW t \in Tabs, NEW v, drawn'[t] = [drawn[t] EXCEPT !.v = v]
        PROVE  drawn'[t].state = drawn[t].state
    <3>1. drawn[t] \in [v : 0..MaxPresses, state : States]
      BY DEF TabsShaped
    <3>. QED BY <2>2, <3>1
  <2>3. NotKept.state = "none"
    BY DEF NotKept
  <2>. QED BY <2>1, <2>2, <2>3
<1>6. \A a \in Actors : Drawing(a) => a # actor /\ job'[a] = job[a]
  BY <1>2, <1>3 DEF Drawing, Others
<1>7. \A a \in Actors : job'[a].step \in {"draw", "place"} => job'[a] = job[a]
  BY <1>3 DEF Others
<1>8. CASE hitches' # {}
  BY <1>8 DEF RingInv
<1>9. CASE hitches' = {}
  <2>1. load' = load
    BY <1>4, <1>9
  <2>2. LoadsRun
    BY <1>4, <2>1 DEF LoadsRun
  <2>3. forgets => \A a \in Actors : ~Drawing(a)
    <3>1. forgets => outcome = "accepted" /\ h.about # "nothing"
      BY <1>2 DEF Sane
    <3>2. forgets => ~Crossing(actor)
      BY <1>4, <1>9, <3>1
    <3>. QED BY <1>6, <3>2 DEF Crossing, Drawing
  <2>4. listed => listed' \/ \A a \in Actors : ~Drawing(a)
    BY <1>4, <2>3
  <2>5. hitches = {}
    BY <1>3, <1>9
  <2>6. \A a \in Actors : Drawing(a) => Drawing(a)'
    BY <1>6 DEF Drawing
  <2>. QED BY <1>4, <1>5, <1>7, <2>2, <2>4, <2>5, <2>6, RingsSame
<1>. QED BY <1>8, <1>9

LEMMA DrawRing ==
  ASSUME TabsAssumption, TabsShaped, RingInv, NEW actor \in Actors, Draw(actor)
  PROVE  RingInv'
<1>1. /\ UNCHANGED <<kind, shown, drawn, hitches>> /\ job[actor].step = "draw"
  BY DEF Draw, ghosts
<1>2. /\ Others(actor) /\ LoadsGoOn
      /\ \E state \in States : Drawn(actor, state) /\ (state = "loading" => Waits(actor))
  BY DrawEffect
<1>3. /\ job'[actor].step = "place" /\ job'[actor].tab = job[actor].tab
      /\ job'[actor].state = "loading" => Waits(actor)
  BY <1>2 DEF Drawn
<1>4. LoadsRun
  BY <1>1, <1>2 DEF LoadsGoOn, LoadsRun
<1>. SUFFICES ASSUME hitches' = {}
     PROVE  /\ \A t \in Tabs : drawn'[t].state = "loading" => Pending(t)'
            /\ shown'.state = "loading" => Pending(shown.tab)' \/ \E a \in Actors : Drawing(a)'
            /\ \A a \in Actors : job'[a].step = "place" /\ job'[a].state = "loading"
                                   => Pending(job[a].tab)'
            /\ \A a \in Actors : kind' = "Student" /\ job'[a].step = "draw" /\ job'[a].direct
                                   => Answered(job[a].tab)' \/ Pending(job[a].tab)'
            /\ load'.board # "forgotten"
  BY RingKept
<1>5. hitches = {}
  BY <1>1
<1>6. \A t \in Tabs : drawn'[t].state = "loading" => Pending(t)'
  BY <1>1, <1>4, <1>5, PendingKept DEF RingInv
<1>7. \E a \in Actors : Drawing(a)'
  BY <1>3 DEF Drawing
<1>8. ASSUME NEW a \in Actors, job'[a].step = "place", job'[a].state = "loading"
      PROVE  Pending(job[a].tab)'
  <2>1. PICK t : t = job[a].tab
    OBVIOUS
  <2>2. CASE a = actor
    <3>1. job'[a].tab = t /\ Waits(actor) /\ t = job[actor].tab
      BY <1>3, <1>8, <2>1, <2>2
    <3>2. kind = "Student" /\ job[actor].direct => Answered(t) \/ Pending(t)
      BY <1>1, <1>5, <3>1 DEF RingInv
    <3>3. Pending(t)'
      <4>1. CASE t = 0 /\ load'.board # "none"
        BY <4>1 DEF Pending
      <4>2. CASE kind = "Student" /\ t \in {1, 2} /\ load'.reference # "none"
        BY <1>1, <4>2 DEF Pending
      <4>3. CASE t = 0 /\ kind = "Student" /\ job[actor].direct /\ ~listed /\ ~boardError
        <5>1. Pending(t)
          BY <3>2, <4>3 DEF Answered
        <5>. QED BY <1>4, <5>1, PendingKept
      <4>4. CASE kind = "Student" /\ t \in {1, 2} /\ job[actor].direct /\ ~refLoaded /\ ~refError
        <5>1. Pending(t)
          BY <3>2, <4>4 DEF Answered
        <5>. QED BY <1>4, <5>1, PendingKept
      <4>. QED BY <3>1, <4>1, <4>2, <4>3, <4>4 DEF Waits
    <3>. QED BY <3>1, <3>3
  <2>3. CASE a # actor
    <3>1. Pending(t) /\ job'[a].tab = t
      BY <1>2, <1>5, <1>8, <2>1, <2>3 DEF RingInv, Others
    <3>2. Pending(t)'
      BY <1>4, <3>1, PendingKept
    <3>. QED BY <3>1, <3>2
  <2>. QED BY <2>2, <2>3
<1>9. ASSUME NEW a \in Actors, kind' = "Student", job'[a].step = "draw", job'[a].direct
      PROVE  Answered(job[a].tab)' \/ Pending(job[a].tab)'
  <2>1. PICK t : t = job[a].tab
    OBVIOUS
  <2>2. a # actor /\ kind = "Student"
    BY <1>1, <1>3, <1>9
  <2>3. job'[a].tab = t /\ (Answered(t) \/ Pending(t))
    BY <1>2, <1>5, <1>9, <2>1, <2>2 DEF RingInv, Others
  <2>4. Answered(t)' \/ Pending(t)'
    BY <1>2, <1>4, <2>2, <2>3, AnswersKept DEF LoadsGoOn
  <2>. QED BY <2>3, <2>4
<1>10. load'.board # "forgotten"
  BY <1>4, <1>5 DEF RingInv, LoadsRun
<1>. QED BY <1>6, <1>7, <1>8, <1>9, <1>10

LEMMA PlaceRing ==
  ASSUME TabsAssumption, TabsShaped, RingInv, NEW actor \in Actors, Place(actor)
  PROVE  RingInv'
<1>1. /\ UNCHANGED <<kind, hitches, listed, boardError, refLoaded, refError, load>>
  BY DEF Place, board, lists
<1>2. PICK tab \in Tabs : tab = job[actor].tab
  BY PlaceEffect
<1>3. PICK lost : lost = NewButtons(tab)
  OBVIOUS
<1>4. /\ job'[actor].step \in {"idle", "free"} /\ job[actor].step = "place"
      /\ \A b \in Actors \ {actor} : Loses(b, lost)
      /\ shown'.tab = tab /\ shown'.state = job[actor].state
      /\ \A t \in Tabs : drawn'[t] = drawn[t] \/ (t = tab /\ drawn'[t].state = job[actor].state)
  BY <1>2, <1>3, PlaceEffect DEF Place
<1>5. \A t : Pending(t)' <=> Pending(t)
  BY <1>1 DEF Pending
<1>6. \A t : Answered(t)' <=> Answered(t)
  BY <1>1 DEF Answered
<1>. SUFFICES ASSUME hitches' = {}
     PROVE  /\ \A t \in Tabs : drawn'[t].state = "loading" => Pending(t)'
            /\ shown'.state = "loading" => Pending(shown.tab)' \/ \E a \in Actors : Drawing(a)'
            /\ \A a \in Actors : job'[a].step = "place" /\ job'[a].state = "loading"
                                   => Pending(job[a].tab)'
            /\ \A a \in Actors : kind' = "Student" /\ job'[a].step = "draw" /\ job'[a].direct
                                   => Answered(job[a].tab)' \/ Pending(job[a].tab)'
            /\ load'.board # "forgotten"
  BY RingKept
<1>7. hitches = {}
  BY <1>1
<1>8. job[actor].state = "loading" => Pending(tab)'
  BY <1>2, <1>4, <1>5, <1>7 DEF RingInv
<1>9. \A t \in Tabs : drawn'[t].state = "loading" => Pending(t)'
  BY <1>4, <1>5, <1>7, <1>8 DEF RingInv
<1>10. shown'.state = "loading" => Pending(shown.tab)'
  BY <1>4, <1>8
<1>11. ASSUME NEW a \in Actors, job'[a].step = "place", job'[a].state = "loading"
       PROVE  Pending(job[a].tab)'
  <2>1. PICK t : t = job[a].tab
    OBVIOUS
  <2>2. a # actor
    BY <1>4, <1>11
  <2>3. Pending(t) /\ job'[a].tab = t
    BY <1>4, <1>7, <1>11, <2>1, <2>2 DEF RingInv, Loses
  <2>. QED BY <1>5, <2>3
<1>12. ASSUME NEW a \in Actors, kind' = "Student", job'[a].step = "draw", job'[a].direct
       PROVE  Answered(job[a].tab)' \/ Pending(job[a].tab)'
  <2>1. PICK t : t = job[a].tab
    OBVIOUS
  <2>2. a # actor /\ kind = "Student"
    BY <1>1, <1>4, <1>12
  <2>3. job'[a].tab = t /\ (Answered(t) \/ Pending(t))
    BY <1>4, <1>7, <1>12, <2>1, <2>2 DEF RingInv, Loses
  <2>. QED BY <1>5, <1>6, <2>3
<1>13. load'.board # "forgotten"
  BY <1>1, <1>7 DEF RingInv
<1>. QED BY <1>9, <1>10, <1>11, <1>12, <1>13

LEMMA BoardLoadedRing ==
  ASSUME TabsAssumption, TabsShaped, ScreenInv, RingInv, NEW outcome \in {"rows", "failed", "gone"},
         BoardLoaded(outcome)
  PROVE  RingInv'
<1>1. /\ UNCHANGED <<kind, shown, selected, refLoaded, refError>>
  BY DEF BoardLoaded
<1>2. /\ (job' = job /\ selected # 0) \/ (LoadDraws(0) /\ selected = 0)
      /\ load'.board = "none" /\ load'.reference = load.reference
      /\ listed' \/ boardError' \/ load.board = "forgotten"
      /\ \A t \in Tabs \ {0} : drawn'[t] = drawn[t]
      /\ \/ drawn'[0].state = "none"
         \/ drawn'[0] = drawn[0] /\ (drawn[0].state = "loading" => "left" \in hitches')
      /\ hitches \subseteq hitches'
      /\ (\E a \in Actors : Drawing(a)) => "crossed" \in hitches'
  BY BoardLoadedEffect
<1>. SUFFICES ASSUME hitches' = {}
     PROVE  /\ \A t \in Tabs : drawn'[t].state = "loading" => Pending(t)'
            /\ shown'.state = "loading" => Pending(shown.tab)' \/ \E a \in Actors : Drawing(a)'
            /\ \A a \in Actors : job'[a].step = "place" /\ job'[a].state = "loading"
                                   => Pending(job[a].tab)'
            /\ \A a \in Actors : kind' = "Student" /\ job'[a].step = "draw" /\ job'[a].direct
                                   => Answered(job[a].tab)' \/ Pending(job[a].tab)'
            /\ load'.board # "forgotten"
  BY RingKept
<1>3. hitches = {} /\ \A a \in Actors : ~Drawing(a)
  BY <1>2
<1>4. listed' \/ boardError'
  BY <1>2, <1>3 DEF RingInv
<1>5. \A t : t # 0 /\ Pending(t) => Pending(t)'
  BY <1>1, <1>2 DEF Pending
<1>6. \A t \in Tabs : drawn'[t].state = "loading" => Pending(t)'
  <2>1. ASSUME NEW t \in Tabs, drawn'[t].state = "loading"
        PROVE  Pending(t)'
    <3>1. t # 0
      BY <1>2, <2>1
    <3>2. Pending(t)
      BY <1>2, <1>3, <2>1, <3>1 DEF RingInv
    <3>. QED BY <1>5, <3>1, <3>2
  <2>. QED BY <2>1
<1>7. shown'.state = "loading" => Pending(shown.tab)' \/ \E a \in Actors : Drawing(a)'
  <2>1. SUFFICES ASSUME shown'.state = "loading"
        PROVE  Pending(shown.tab)' \/ \E a \in Actors : Drawing(a)'
    OBVIOUS
  <2>2. PICK t : t = shown.tab
    OBVIOUS
  <2>3. Pending(t) /\ t = selected /\ shown'.tab = t
    BY <1>1, <1>3, <2>1, <2>2 DEF RingInv, ScreenInv
  <2>4. CASE t = 0
    <3>1. LoadDraws(0)
      BY <1>2, <2>3, <2>4
    <3>. QED BY <3>1 DEF LoadDraws, Drawing
  <2>5. CASE t # 0
    <3>1. Pending(t)'
      BY <1>5, <2>3, <2>5
    <3>. QED BY <2>3, <3>1
  <2>. QED BY <2>4, <2>5
<1>8. \A a \in Actors : job'[a].step # "place"
  BY <1>2, <1>3 DEF LoadDraws, Others, Drawing
<1>9. ASSUME NEW a \in Actors, kind' = "Student", job'[a].step = "draw", job'[a].direct
      PROVE  Answered(job[a].tab)' \/ Pending(job[a].tab)'
  <2>1. job'[a].tab = 0
    BY <1>2, <1>3, <1>9 DEF LoadDraws, Others, Drawing
  <2>2. Answered(0)'
    BY <1>4 DEF Answered
  <2>. QED BY <2>1, <2>2
<1>10. load'.board # "forgotten"
  BY <1>2
<1>. QED BY <1>6, <1>7, <1>8, <1>9, <1>10

LEMMA ReferenceLoadedRing ==
  ASSUME TabsAssumption, TabsShaped, ScreenInv, RingInv, NEW succeeds \in BOOLEAN,
         ReferenceLoaded(succeeds)
  PROVE  RingInv'
<1>1. /\ UNCHANGED <<kind, shown, selected, listed, boardError>>
  BY DEF ReferenceLoaded, lists
<1>2. /\ (job' = job /\ selected \notin {1, 2}) \/ (LoadDraws(selected) /\ selected \in {1, 2})
      /\ load'.reference = "none" /\ load'.board = load.board
      /\ refLoaded' \/ refError'
      /\ \A t \in Tabs \ {1, 2} : drawn'[t] = drawn[t]
      /\ \A t \in {1, 2} : drawn'[t].state = "none"
      /\ hitches \subseteq hitches'
      /\ (\E a \in Actors : Drawing(a)) => "crossed" \in hitches'
  BY ReferenceLoadedEffect
<1>. SUFFICES ASSUME hitches' = {}
     PROVE  /\ \A t \in Tabs : drawn'[t].state = "loading" => Pending(t)'
            /\ shown'.state = "loading" => Pending(shown.tab)' \/ \E a \in Actors : Drawing(a)'
            /\ \A a \in Actors : job'[a].step = "place" /\ job'[a].state = "loading"
                                   => Pending(job[a].tab)'
            /\ \A a \in Actors : kind' = "Student" /\ job'[a].step = "draw" /\ job'[a].direct
                                   => Answered(job[a].tab)' \/ Pending(job[a].tab)'
            /\ load'.board # "forgotten"
  BY RingKept
<1>3. hitches = {} /\ \A a \in Actors : ~Drawing(a)
  BY <1>2
<1>4. \A t : t \notin {1, 2} /\ Pending(t) => Pending(t)'
  BY <1>1, <1>2 DEF Pending
<1>5. \A t \in Tabs : drawn'[t].state = "loading" => Pending(t)'
  <2>1. ASSUME NEW t \in Tabs, drawn'[t].state = "loading"
        PROVE  Pending(t)'
    <3>1. t \notin {1, 2}
      BY <1>2, <2>1
    <3>2. Pending(t)
      BY <1>2, <1>3, <2>1, <3>1 DEF RingInv
    <3>. QED BY <1>4, <3>1, <3>2
  <2>. QED BY <2>1
<1>6. shown'.state = "loading" => Pending(shown.tab)' \/ \E a \in Actors : Drawing(a)'
  <2>1. SUFFICES ASSUME shown'.state = "loading"
        PROVE  Pending(shown.tab)' \/ \E a \in Actors : Drawing(a)'
    OBVIOUS
  <2>2. PICK t : t = shown.tab
    OBVIOUS
  <2>3. Pending(t) /\ t = selected /\ shown'.tab = t
    BY <1>1, <1>3, <2>1, <2>2 DEF RingInv, ScreenInv
  <2>4. CASE t \in {1, 2}
    <3>1. LoadDraws(selected)
      BY <1>2, <2>3, <2>4
    <3>. QED BY <3>1 DEF LoadDraws, Drawing
  <2>5. CASE t \notin {1, 2}
    <3>1. Pending(t)'
      BY <1>4, <2>3, <2>5
    <3>. QED BY <2>3, <3>1
  <2>. QED BY <2>4, <2>5
<1>7. \A a \in Actors : job'[a].step # "place"
  BY <1>2, <1>3 DEF LoadDraws, Others, Drawing
<1>8. ASSUME NEW a \in Actors, kind' = "Student", job'[a].step = "draw", job'[a].direct
      PROVE  Answered(job[a].tab)' \/ Pending(job[a].tab)'
  <2>1. PICK t : t = selected
    OBVIOUS
  <2>2. job'[a].tab = t /\ t \in {1, 2}
    BY <1>2, <1>3, <1>8, <2>1 DEF LoadDraws, Others, Drawing
  <2>3. Answered(t)'
    BY <1>2, <2>2 DEF Answered
  <2>. QED BY <2>2, <2>3
<1>9. load'.board # "forgotten"
  BY <1>2, <1>3 DEF RingInv
<1>. QED BY <1>5, <1>6, <1>7, <1>8, <1>9

LEMMA RingsStep ==
  ASSUME TabsAssumption, FormsAssumption, TabsShaped, Accounted, ScreenInv, RingInv,
         [PortalsNext]_allVars
  PROVE  RingInv'
<1>1. CASE UNCHANGED vars
  <2>1. /\ LoadsRun
        /\ UNCHANGED <<listed, boardError, refLoaded, refError, shown, drawn, job, hitches>>
    BY <1>1 DEF vars, LoadsRun
  <2>. QED BY <2>1, RingsSame DEF Drawing
<1>2. ASSUME NEW actor \in Actors, NEW tab \in Tabs, job[actor].step \in {"idle", "switch"},
             SwitchTo(actor, tab), visits' \in 0..MaxVisits
      PROVE  RingInv'
  BY <1>2, SwitchRing
<1>3. ASSUME NEW form \in Forms, Press(form)
      PROVE  RingInv'
  <2>1. PICK actor \in Actors :
          Others(actor) /\ job[actor] = NoJob /\ job'[actor].step = "call"
    BY <1>3, PressEffect
  <2>2. /\ LoadsRun /\ UNCHANGED <<listed, boardError, refLoaded, refError, shown, drawn, hitches>>
    BY <1>3 DEF Press, board, lists, ghosts, LoadsRun
  <2>3. \A a \in Actors : Drawing(a) => Drawing(a)'
    BY <2>1, NoWork DEF Others, Drawing
  <2>4. \A a \in Actors : job'[a].step \in {"draw", "place"} => job'[a] = job[a]
    BY <2>1 DEF Others
  <2>. QED BY <2>2, <2>3, <2>4, RingsSame
<1>4. ASSUME NEW form \in Forms, Reopen(form)
      PROVE  RingInv'
  <2>1. \A a \in Actors : Loses(a, {form})
    BY <1>4, ReopenEffect
  <2>2. /\ LoadsRun /\ UNCHANGED <<listed, boardError, refLoaded, refError, shown, drawn, hitches>>
    BY <1>4 DEF Reopen, board, lists, LoadsRun
  <2>3. \A a \in Actors : Drawing(a) => Drawing(a)'
    BY <2>1 DEF Loses, Drawing
  <2>4. \A a \in Actors : job'[a].step = "place" =>
          job[a].step = "place" /\ job'[a].tab = job[a].tab /\ job'[a].state = job[a].state
    BY <2>1 DEF Loses
  <2>5. \A a \in Actors : job'[a].step = "draw" /\ job'[a].direct =>
          job[a].step = "draw" /\ job[a].direct /\ job'[a].tab = job[a].tab
    BY <2>1 DEF Loses
  <2>. QED BY <2>2, <2>3, <2>4, <2>5, RingsSame
<1>5. CASE RetryBoard
  BY <1>5, RetryBoardRing
<1>6. CASE RetryReference
  BY <1>6, RetryReferenceRing
<1>7. ASSUME NEW actor \in Actors, NEW outcome \in Outcomes, Return(actor, outcome)
      PROVE  RingInv'
  BY <1>7, ReturnRing
<1>8. ASSUME NEW actor \in Actors, DrawFails(actor)
      PROVE  RingInv'
  BY <1>8, DrawFailsEffect DEF RingInv
<1>9. ASSUME NEW actor \in Actors, Draw(actor)
      PROVE  RingInv'
  BY <1>9, DrawRing
<1>10. ASSUME NEW actor \in Actors, Place(actor)
       PROVE  RingInv'
  BY <1>10, PlaceRing
<1>11. ASSUME NEW outcome \in {"rows", "failed", "gone"}, BoardLoaded(outcome)
       PROVE  RingInv'
  BY <1>11, BoardLoadedRing
<1>12. ASSUME NEW succeeds \in BOOLEAN, ReferenceLoaded(succeeds)
       PROVE  RingInv'
  BY <1>12, ReferenceLoadedRing
<1>13. ASSUME NEW actor \in Actors, Free(actor)
       PROVE  RingInv'
  <2>1. Others(actor) /\ job'[actor] = NoJob /\ job[actor].step = "free"
    BY <1>13, FreeEffect
  <2>2. /\ LoadsRun /\ UNCHANGED <<listed, boardError, refLoaded, refError, shown, drawn, hitches>>
    BY <1>13 DEF Free, board, lists, ghosts, LoadsRun
  <2>3. \A a \in Actors : Drawing(a) => Drawing(a)'
    BY <2>1 DEF Others, Drawing
  <2>4. \A a \in Actors : job'[a].step \in {"draw", "place"} => job'[a] = job[a]
    BY <2>1, NoWork DEF Others
  <2>. QED BY <2>2, <2>3, <2>4, RingsSame
<1>14. ASSUME NEW v \in fetch, NEW succeeds \in BOOLEAN, ListRead(v, succeeds)
       PROVE  RingInv'
  <2>1. /\ LoadsRun /\ (listed => listed')
        /\ UNCHANGED <<boardError, refLoaded, refError, shown, drawn, job, hitches>>
    BY <1>14 DEF ListRead, ghosts, LoadsRun
  <2>. QED BY <2>1, RingsSame DEF Drawing
<1>. QED BY <1>1, <1>2, <1>3, <1>4, <1>5, <1>6, <1>7, <1>8, <1>9, <1>10, <1>11, <1>12, <1>13,
            <1>14, StepsOfTabs

LEMMA ScreenInitially ==
  ASSUME TabsAssumption, PortalsInit
  PROVE  ScreenInv /\ RingInv
<1>1. \A a \in Actors : ~Drawing(a)
  BY InitialJobs DEF Drawing
<1>2. /\ shown.tab = selected /\ shown.state # "loading" /\ load.board = "none"
      /\ \A t \in Tabs : drawn[t].state # "loading"
  <2>1. CASE Init
    <3>1. /\ drawn = [t \in Tabs |-> NotKept] /\ shown = [tab |-> selected, state |-> "none"]
          /\ load = [board |-> "none", reference |-> "none", since |-> 0]
      BY <2>1 DEF Init
    <3>. QED BY <3>1 DEF NotKept
  <2>2. CASE AtPool
    <3>1. /\ drawn = [t \in Tabs |-> [v |-> 0, state |-> IF t = PoolTab THEN "ready" ELSE "none"]]
          /\ selected = PoolTab /\ shown = [tab |-> PoolTab, state |-> "ready"]
          /\ load = [board |-> "none", reference |-> "none", since |-> 0]
      BY <2>2 DEF AtPool
    <3>. QED BY <3>1
  <2>. QED BY <2>1, <2>2 DEF PortalsInit, Built
<1>3. ScreenInv
  BY <1>1, <1>2 DEF ScreenInv
<1>4. RingInv
  BY <1>1, <1>2 DEF RingInv, Drawing
<1>. QED BY <1>3, <1>4

\* Once nothing runs the screen shows the selected tab and no ring turns: for any
\* portals, threads and number of presses and visits.
THEOREM ScreenSettlesTheorem == PortalsSpec => []ScreenSettles
<1>. DEFINE I == TabsShaped /\ Accounted /\ ScreenInv /\ RingInv
<1>1. PortalsInit => I
  BY TabsInitially, ScreenInitially, TabsAssumption, FormsAssumption, SharesAssumption
<1>2. I /\ [PortalsNext]_allVars => I'
  BY TabsStep, ScreenStep, RingsStep, TabsAssumption, FormsAssumption
<1>3. I => ScreenSettles
  <2>1. SUFFICES ASSUME I, Quiet
        PROVE  /\ hitches \cap {"crossed", "failed"} = {} => shown.tab = selected
               /\ load.board = "none" /\ load.reference = "none" /\ hitches = {}
                    => /\ shown.state # "loading"
                       /\ \A t \in Tabs : drawn[t].state # "loading"
    BY DEF ScreenSettles
  <2>2. \A a \in Actors : ~Drawing(a)
    BY <2>1 DEF Quiet, Drawing
  <2>3. hitches \cap {"crossed", "failed"} = {} => shown.tab = selected
    BY <2>1, <2>2 DEF ScreenInv
  <2>4. load.board = "none" /\ load.reference = "none" => \A t : ~Pending(t)
    BY DEF Pending
  <2>5. load.board = "none" /\ load.reference = "none" /\ hitches = {}
          => /\ shown.state # "loading"
             /\ \A t \in Tabs : drawn[t].state # "loading"
    BY <2>1, <2>2, <2>4 DEF RingInv
  <2>. QED BY <2>3, <2>5
<1>. QED BY <1>1, <1>2, <1>3, PTL DEF PortalsSpec

-----------------------------------------------------------------------------
(* The types of all variables.                                             *)

LEMMA TabTypes ==
  ASSUME TabsAssumption, TabsShaped, ButtonInv
  PROVE  TypeOK
<1>1. OwnForms \subseteq Forms
  BY KindGiven
<1>2. \A a \in Actors : /\ job[a].form \in Forms \cup {NoForm}
                        /\ job[a].step \in {"idle", "call", "switch", "draw", "place", "free"}
                        /\ job[a].step \in {"call", "free"} => job[a].form # NoForm
  <2>1. ASSUME NEW a \in Actors
        PROVE  /\ job[a].form \in OwnForms \cup {NoForm}
               /\ job[a].step \in {"idle", "call", "switch", "draw", "place", "free"}
               /\ job[a].step \in {"call", "free"} => job[a].form # NoForm
    <3>1. PICK k \in Work : k = job[a]
      BY DEF TabsShaped
    <3>2. k \in Job /\ (k.step \in {"call", "free"} => k.form # NoForm)
      BY <3>1, WorkIs
    <3>. QED BY <3>1, <3>2 DEF Job
  <2>. QED BY <1>1, <2>1
<1>3. greyed \subseteq Forms /\ raised \subseteq greyed
  BY <1>1 DEF TabsShaped, ButtonInv
<1>4. shown.tab \in Tabs /\ shown.state \in States
  BY DEF TabsShaped
<1>5. /\ kind \in Kinds /\ selected \in Tabs
      /\ version \in [Subjects -> 0..MaxPresses] /\ own \in [Subjects -> 0..MaxPresses]
      /\ drawn \in [Tabs -> [v : 0..MaxPresses, state : States]]
      /\ hitches \subseteq {"crossed", "failed", "left", "retried"}
      /\ presses \in 0..MaxPresses /\ visits \in 0..MaxVisits
  BY DEF TabsShaped
<1>6. /\ rows \in 0..MaxPresses /\ list \subseteq 0..MaxPresses /\ fetch \subseteq 0..MaxPresses
      /\ \A v, w \in list : v = w
      /\ kind = "Student" => list = {} /\ \A v, w \in fetch : v = w
  BY DEF TabsShaped, ListsShaped
<1>. QED BY <1>2, <1>3, <1>4, <1>5, <1>6 DEF TypeOK, States

LEMMA PoolTypes ==
  ASSUME PoolAssumption, PoolShaped
  PROVE  PoolTypeOK
<1>1. added \in Lists /\ \A r \in Readers : reader[r].step \in {"idle", "read", "set", "keep"}
  BY DEF PoolAssumption, PoolShaped, Lists, Reader
<1>. QED BY <1>1 DEF PoolShaped, PoolTypeOK

LEMMA ImportTypes ==
  ASSUME ImportAssumption, ImportShaped
  PROVE  ImportTypeOK
<1>1. invocation \in 0..MaxPicks /\ MaxPicks \in Nat
  BY DEF ImportAssumption, ImportShaped
<1>2. chosen \in [Choosers -> 0..MaxPicks]
  BY <1>1 DEF ImportShaped
<1>. QED BY <1>2 DEF ImportShaped, ImportTypeOK

\* The variables keep their types, however many presses, visits, turns and picks
\* there are: no subject changes more often than buttons are pressed, and no
\* handler greys or frees a button that is not of its portal.
THEOREM PortalsTypeOKTheorem == PortalsSpec => []PortalsTypeOK
<1>. DEFINE I == TabsShaped /\ Accounted /\ ButtonInv /\ PoolInv /\ ImportInv
<1>1. PortalsInit => I
  BY TabsInitially, ButtonsInitially, PoolInitially, ImportInitially, TabsAssumption,
     FormsAssumption, SharesAssumption, PoolAssumption, ImportAssumption
<1>2. I /\ [PortalsNext]_allVars => I'
  BY TabsStep, ButtonsStep, PoolStep, ImportStep, TabsAssumption, FormsAssumption,
     PoolAssumption, ImportAssumption
<1>3. I => PortalsTypeOK
  BY TabTypes, PoolTypes, ImportTypes, TabsAssumption, PoolAssumption, ImportAssumption
     DEF PoolInv, ImportInv, PortalsTypeOK
<1>. QED BY <1>1, <1>2, <1>3, PTL DEF PortalsSpec
================================================================================
