---------------------------- MODULE SharedFetch ----------------------------
(***************************************************************************)
(* The lists of complaints that views keep between two requests, and the   *)
(* threads that load them: ui/views/student_view.py and staff_view.py over *)
(* the caches of CachedReads.                                              *)
(*                                                                         *)
(* A student's list and the staff's dashboard share one fetch: the first   *)
(* thread to find no event, or one that is set, owns the next fetch, the   *)
(* others wait for its event and then read the error flag and the list.    *)
(* Nothing but the choice of the owner is under the lock.  The staff's     *)
(* list tab fetches without that.  A change made in a session makes its    *)
(* views forget their lists; other sessions are not told.                  *)
(*                                                                         *)
(* The dashboard of the staff loads metrics and complaints in two threads  *)
(* of one worker, which stores the complaints a second time.               *)
(***************************************************************************)
EXTENDS CachedReads

CONSTANTS
  View,
  Shared,      \* views with a shared fetch
  Mine,        \* the student's list
  Board,       \* the staff's dashboard
  Loader,      \* threads that load a list
  ViewOf,      \* ViewOf[l]: the view l loads for
  BoardLoader, \* the worker's two threads
  BoardCaller,
  Reads,       \* Reads[c]: the keys c reads, or writes the table of after reading
  Refreshes,   \* Refreshes[c]: the views c makes forget when its call succeeded
  Complaints,  \* the table behind the lists
  Metrics,     \* the key of the dashboard's metrics
  NoRows,
  Crews,       \* sets of threads: those of the sessions that are open
  MaxLoads     \* bound: loads and calls begun

ASSUME SharedFetchAssumption ==
  /\ Shared \subseteq View
  /\ Mine \in Shared /\ Board \in Shared \ {Mine}
  /\ ViewOf \in [Loader -> View]
  /\ \A l \in Loader : ViewOf[l] = Board <=> l = BoardLoader
  /\ BoardLoader \in Loader /\ BoardCaller \in Caller
  /\ Reads \in [Caller -> SUBSET Key]
  /\ Refreshes \in [Caller -> SUBSET View]
  /\ Complaints \in Table \ Checked
  /\ Metrics \in Key /\ TableOf[Metrics] = Complaints
  /\ Metrics \notin FailureStored
  /\ \A crew \in Crews : crew \subseteq Loader \union Caller
  /\ NoRows \notin Nat /\ NoRows # NoRecord
  /\ MaxLoads \in Nat

VARIABLES
  rows,     \* rows[v]: cached_complaints, cached_list_complaints
  flight,   \* _complaint_query_event is there and not set
  failed,   \* _complaint_query_error
  load,     \* local variables of a loading thread
  loading,  \* _dashboard_loading
  boardError, \* _dashboard_error, as the worker will set it
  metrics,  \* cached_metrics of the dashboard
  newest,   \* ghost: the last version the student's list held
  rowsDue,  \* ghost: rowsDue[v], the version when its own session last changed something
  rowsLate, \* ghost: a thread was about to bring back an older one then
  open,     \* the threads there are
  begun     \* loads and calls so far

viewVars == <<rows, flight, failed, load, loading, boardError, metrics, newest, rowsDue,
              rowsLate>>
vars == <<cacheVars, viewVars, open, begun>>

Load == [pc: {"idle", "fetch", "store", "signal", "wait", "flag", "rows", "assign"},
         got: Value,      \* what its fetch found
         fails: BOOLEAN,  \* its fetch raised
         raced: BOOLEAN]  \* ghost: flag or list changed hands since its fetch ended

NoLoad == [pc |-> "idle", got |-> NoRecord, fails |-> FALSE, raced |-> FALSE]

TypeOK ==
  /\ CacheTypeOK
  /\ rows \in [View -> Value \union {NoRows}]
  /\ flight \in [Shared -> BOOLEAN]
  /\ failed \in [Shared -> BOOLEAN]
  /\ load \in [Loader -> Load]
  /\ loading \in BOOLEAN
  /\ boardError \in BOOLEAN
  /\ metrics \in Version \union {NoEntry}
  /\ newest \in Version
  /\ rowsDue \in [View -> Version]
  /\ rowsLate \in [View -> BOOLEAN]
  /\ open \in Crews
  /\ begun \in 0..MaxLoads

Init ==
  /\ CacheInit
  /\ rows = [v \in View |-> NoRows]
  /\ flight = [v \in Shared |-> FALSE]
  /\ failed = [v \in Shared |-> FALSE]
  /\ load = [l \in Loader |-> NoLoad]
  /\ loading = FALSE
  /\ boardError = FALSE
  /\ metrics = NoEntry
  /\ newest = 0
  /\ rowsDue = [v \in View |-> 0]
  /\ rowsLate = [v \in View |-> FALSE]
  /\ open \in Crews
  /\ begun = 0

Loads(l, step) == load[l].pc = step

\* The threads whose fetch has ended, or is seen to end, and which still have
\* to read the flag or the list of v.
Reading(v) == {l \in Loader : ViewOf[l] = v /\ load[l].pc \in {"signal", "flag", "rows"}}

Raced(ld, who) == [l \in Loader |-> IF l \in who THEN [ld[l] EXCEPT !.raced = TRUE] ELSE ld[l]]

(***************************************************************************)
(* Loading a list.                                                         *)
(***************************************************************************)

\* Mutant: the error of the last fetch stays.
EnterKeepsError(l) ==
  LET v == ViewOf[l] IN
  IF v \in Shared /\ flight[v]
  THEN /\ load' = [load EXCEPT ![l] = [NoLoad EXCEPT !.pc = "wait"]]
       /\ UNCHANGED <<flight, failed>>
  ELSE /\ load' = [Raced(load, IF v \in Shared THEN Reading(v) ELSE {}) EXCEPT
                     ![l] = [NoLoad EXCEPT !.pc = "fetch"]]
       /\ flight' = [w \in Shared |-> IF w = v THEN TRUE ELSE flight[w]]
       /\ UNCHANGED failed

\* Under the lock: own the fetch or join the one under way.  A list that is
\* there is returned at once, unless the load is forced.
Enter(l) ==
  LET v == ViewOf[l] IN
  IF v \in Shared /\ flight[v]
  THEN /\ load' = [load EXCEPT ![l] = [NoLoad EXCEPT !.pc = "wait"]]
       /\ UNCHANGED <<flight, failed>>
  ELSE /\ load' = [Raced(load, IF v \in Shared THEN Reading(v) ELSE {}) EXCEPT
                     ![l] = [NoLoad EXCEPT !.pc = "fetch"]]
       /\ flight' = [w \in Shared |-> IF w = v THEN TRUE ELSE flight[w]]
       /\ failed' = [w \in Shared |-> IF w = v THEN FALSE ELSE failed[w]]

BeginLoad(l, force) ==
  /\ l # BoardLoader
  /\ Loads(l, "idle")
  /\ force \/ rows[ViewOf[l]] = NoRows
  /\ Enter(l)
  /\ UNCHANGED <<cacheVars, rows, loading, boardError, metrics, newest, rowsDue, rowsLate>>

\* Mutant: the event is set before the list is stored.
FetchRowsEarly(l) ==
  /\ Loads(l, "fetch")
  /\ load' = [load EXCEPT ![l].pc = "store", ![l].got = version[Complaints]]
  /\ flight' = [v \in Shared |-> IF v = ViewOf[l] THEN FALSE ELSE flight[v]]
  /\ UNCHANGED <<cacheVars, rows, failed, loading, boardError, metrics, newest, rowsDue,
                 rowsLate>>

FetchRows(l) ==
  /\ Loads(l, "fetch")
  /\ load' = [load EXCEPT ![l].pc = "store", ![l].got = version[Complaints]]
  /\ UNCHANGED <<cacheVars, rows, flight, failed, loading, boardError, metrics, newest,
                 rowsDue, rowsLate>>

\* Mutant: no `finally`, so that an exception leaves the event unset.
FetchRowsAbandons(l) ==
  /\ Loads(l, "fetch")
  /\ failed' = [v \in Shared |-> failed[v] \/ v = ViewOf[l]]
  /\ load' = [load EXCEPT ![l] = NoLoad]
  /\ UNCHANGED <<cacheVars, rows, flight, loading, boardError, metrics, newest, rowsDue,
                 rowsLate>>

\* The list of the staff lets the exception through; a shared fetch keeps it
\* for whoever waits.
FetchRowsFails(l) ==
  /\ Loads(l, "fetch")
  /\ IF ViewOf[l] \in Shared
     THEN /\ load' = [load EXCEPT ![l].pc = "signal", ![l].fails = TRUE]
          /\ failed' = [failed EXCEPT ![ViewOf[l]] = TRUE]
     ELSE /\ load' = [load EXCEPT ![l] = NoLoad]
          /\ UNCHANGED failed
  /\ UNCHANGED <<cacheVars, rows, flight, loading, boardError, metrics, newest, rowsDue,
                 rowsLate>>

\* rows[v] := value, under the eyes of whoever is reading them.
Keep(l, value) ==
  LET v == ViewOf[l] IN
  /\ rows' = [rows EXCEPT ![v] = value]
  /\ newest' = IF v = Mine THEN value ELSE newest

StoreRows(l) ==
  /\ Loads(l, "store")
  /\ Keep(l, load[l].got)
  /\ load' = [Raced(load, Reading(ViewOf[l])) EXCEPT
                ![l].pc = IF ViewOf[l] \in Shared THEN "signal" ELSE "rows"]
  /\ UNCHANGED <<cacheVars, flight, failed, loading, boardError, metrics, rowsDue, rowsLate>>

\* event.set(): the waiters go on.
Signal(l) ==
  /\ Loads(l, "signal")
  /\ flight' = [flight EXCEPT ![ViewOf[l]] = FALSE]
  /\ load' = [m \in Loader |->
                IF m = l \/ (Loads(m, "wait") /\ ViewOf[m] = ViewOf[l])
                THEN [load[l] EXCEPT !.pc = "flag"]
                ELSE load[m]]
  /\ UNCHANGED <<cacheVars, rows, failed, loading, boardError, metrics, newest, rowsDue,
                 rowsLate>>

\* The error flag, whoever set it last.  The worker of the dashboard notes the
\* exception.
ReadFlag(l) ==
  /\ Loads(l, "flag")
  /\ IF failed[ViewOf[l]]
     THEN /\ load' = [load EXCEPT ![l] = NoLoad]
          /\ boardError' = (boardError \/ l = BoardLoader)
     ELSE /\ load' = [load EXCEPT ![l].pc = "rows"]
          /\ UNCHANGED boardError
  /\ UNCHANGED <<cacheVars, rows, flight, failed, loading, metrics, newest, rowsDue, rowsLate>>

\* The list, or an empty one if it was forgotten meanwhile: `or []`.
ReadRows(l) ==
  /\ Loads(l, "rows")
  /\ load' = IF l = BoardLoader
             THEN [load EXCEPT ![l].pc = "assign",
                               ![l].got = IF rows[Board] = NoRows THEN NoRecord ELSE rows[Board]]
             ELSE [load EXCEPT ![l] = NoLoad]
  /\ UNCHANGED <<cacheVars, rows, flight, failed, loading, boardError, metrics, newest,
                 rowsDue, rowsLate>>

(***************************************************************************)
(* The dashboard of the staff.                                             *)
(***************************************************************************)

\* _trigger_progressive_staff_dashboard_load, from a rendering that misses
\* something and shows no error.
BeginBoard ==
  /\ ~loading
  /\ ~boardError
  /\ rows[Board] = NoRows \/ metrics = NoEntry
  /\ At(BoardCaller, "idle")
  /\ loading' = TRUE
  /\ Look(BoardCaller, Metrics, "read")
  /\ IF rows[Board] # NoRows
     THEN /\ load' = [load EXCEPT ![BoardLoader] = [NoLoad EXCEPT !.pc = "assign",
                                                                 !.got = rows[Board]]]
          /\ UNCHANGED <<flight, failed>>
     ELSE Enter(BoardLoader)
  /\ UNCHANGED <<version, entry, due, late, rows, boardError, metrics, newest, rowsDue, rowsLate>>

\* The worker takes the value of the finished thread and stores it again.
AssignRows ==
  /\ Loads(BoardLoader, "assign")
  /\ Keep(BoardLoader, load[BoardLoader].got)
  /\ load' = [load EXCEPT ![BoardLoader] = NoLoad]
  /\ UNCHANGED <<cacheVars, flight, failed, loading, boardError, metrics, rowsDue, rowsLate>>

AssignMetrics ==
  /\ At(BoardCaller, "answer")
  /\ metrics' = call[BoardCaller].got
  /\ Answer(BoardCaller)
  /\ UNCHANGED <<rows, flight, failed, load, loading, boardError, newest, rowsDue, rowsLate>>

MetricsFail ==
  /\ FetchFails(BoardCaller)
  /\ boardError' = TRUE
  /\ UNCHANGED <<rows, flight, failed, load, loading, metrics, newest, rowsDue, rowsLate>>

EndBoard ==
  /\ loading
  /\ Loads(BoardLoader, "idle")
  /\ At(BoardCaller, "idle")
  /\ loading' = FALSE
  /\ UNCHANGED <<cacheVars, rows, flight, failed, load, boardError, metrics, newest, rowsDue,
                 rowsLate>>

\* retry_dashboard: forgets both, and the rendering begins again.
Retry ==
  /\ boardError
  /\ ~loading
  /\ rows[Board] = NoRows \/ metrics = NoEntry
  /\ boardError' = FALSE
  /\ metrics' = NoEntry
  /\ rows' = [rows EXCEPT ![Board] = NoRows]
  /\ UNCHANGED <<cacheVars, flight, failed, load, loading, newest, rowsDue, rowsLate>>

(***************************************************************************)
(* The calls of services, and what the view does after its own.            *)
(***************************************************************************)

\* A thread of v that will bring back a list older than the table, or an empty
\* one: the worker of the dashboard stores whatever its thread returns.
RowsStraggler(v) ==
  \E l \in Loader :
    /\ ViewOf[l] = v
    /\ \/ Loads(l, "store") /\ load[l].got < version[Complaints]
       \/ l = BoardLoader /\ load[l].pc \in {"store", "signal", "flag", "rows", "assign"}

\* The views of the session that made the change.
Concerned(c) == IF Tabled(c) = Complaints THEN Refreshes[c] ELSE {}

\* Mutant: on_updated leaves the dashboard's list.
ForgottenButBoard(c) == Concerned(c) \ {Board}

Forgotten(c) == Concerned(c)

\* The success branches of submission and deletion, and on_updated of the two
\* views: cached_complaints = None.
Refresh(c) ==
  /\ Told(c)
  /\ rows' = [v \in View |-> IF v \in Forgotten(c) THEN NoRows ELSE rows[v]]
  /\ rowsDue' = [v \in View |-> IF v \in Concerned(c) THEN version[Complaints] ELSE rowsDue[v]]
  /\ rowsLate' = [v \in View |-> IF v \in Concerned(c) THEN RowsStraggler(v) ELSE rowsLate[v]]
  /\ load' = Raced(load, UNION {Reading(v) : v \in Forgotten(c)})
  /\ UNCHANGED <<flight, failed, loading, boardError, metrics, newest>>

BeginCall(c) ==
  /\ c # BoardCaller
  /\ BeginWrite(c, Metrics) \/ \E k \in Reads[c] : BeginRead(c, k) \/ BeginCheckedWrite(c, k)
  /\ UNCHANGED viewVars

CallStep(c) ==
  \/ Refresh(c)
  \/ /\ \/ Fetch(c)
        \/ Store(c)
        \/ Write(c)
        \/ Drop(c)
        \/ Verified(c)
        \/ c # BoardCaller /\ Answer(c)
     /\ UNCHANGED viewVars

CallFails(c) ==
  /\ WriteRaises(c) \/ (c # BoardCaller /\ FetchFails(c))
  /\ UNCHANGED viewVars

LoadStep(l) == FetchRows(l) \/ StoreRows(l) \/ Signal(l) \/ ReadFlag(l) \/ ReadRows(l)

Work ==
  \/ \E l \in Loader : LoadStep(l) \/ FetchRowsFails(l)
  \/ \E c \in Caller : CallStep(c) \/ CallFails(c)
  \/ AssignRows \/ AssignMetrics \/ MetricsFail \/ EndBoard

Begin ==
  \/ \E l \in Loader \intersect open, force \in BOOLEAN : BeginLoad(l, force)
  \/ \E c \in Caller \intersect open : BeginCall(c)
  \/ {BoardLoader, BoardCaller} \subseteq open /\ BeginBoard

Next ==
  /\ UNCHANGED open
  /\ \/ /\ Work \/ Retry \/ \E k \in Key : Expire(k) /\ UNCHANGED viewVars
        /\ UNCHANGED begun
     \/ begun < MaxLoads /\ Begin /\ begun' = begun + 1

\* A thread that was begun goes on: a request returns or raises (the HTTP
\* client has a timeout), and nobody is asked to begin anything.  Loads being
\* bounded, it is enough that one thread of those at work goes on.
Spec == Init /\ [][Next]_vars /\ WF_vars(Work /\ UNCHANGED <<open, begun>>)
-----------------------------------------------------------------------------
(***************************************************************************)
(* Properties.                                                             *)
(***************************************************************************)

\* The shared fetch keeps the student's list in order: no load, forced or not,
\* brings back what a newer load replaced.  student_view.py:117.
RowsOrder == INSTANCE OrderedRows WITH table <- version[Complaints], rows <- rows[Mine]

InOrder == RowsOrder!OrderedSpec

\* A list, or a cache entry, older than the last change its session was told
\* of was about to be stored when the change was made.  A dashboard that shows
\* no complaint although no request said so was being loaded then, too.
\* student_view.py:128, staff_view.py:227, cache_service.py:380.
StaleOnlyIfLate ==
  /\ EntriesCurrent
  /\ \A v \in View : /\ rows[v] \in Version /\ rows[v] < rowsDue[v] => rowsLate[v]
                     /\ rows[v] = NoRecord => rowsLate[v]

\* A thread answers with the outcome of the fetch it owned or joined, unless
\* flag or list changed hands before it read them: then it may raise over
\* another's failure, or show an empty list when its own fetch failed.
\* student_view.py:146.
HonestAnswer ==
  \A l \in Loader :
    ~load[l].raced =>
      /\ Loads(l, "flag") => failed[ViewOf[l]] = load[l].fails
      /\ Loads(l, "rows") => ~load[l].fails /\ rows[ViewOf[l]] = load[l].got

\* Nobody waits for ever: the loads, the calls and the dashboard's worker that
\* were begun come to an end.  student_view.py:141.
LoadsEnd ==
  []<>(/\ \A l \in Loader : Loads(l, "idle")
       /\ \A c \in Caller : At(c, "idle")
       /\ ~loading)
=============================================================================
