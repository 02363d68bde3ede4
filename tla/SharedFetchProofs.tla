------------------------- MODULE SharedFetchProofs -------------------------
(***************************************************************************)
(* The properties of SharedFetch, for any number of views, threads, keys   *)
(* and sessions.  The inductive invariant, FetchInv, has three parts: what *)
(* the cache holds (CacheInv), who owns a fetch and what its readers will  *)
(* find (Owners, Outcomes), and which lists can be old (BoardInv, Ages).   *)
(***************************************************************************)
EXTENDS SharedFetch, TLAPS

USE DEF Version

(***************************************************************************)
(* The cache.                                                              *)
(***************************************************************************)

\* What an entry, or a reader about to store one, holds: nothing older than
\* the last invalidation, unless it was late; no failure but where failures
\* are kept.
CacheInv ==
  /\ CacheTypeOK
  /\ \A k \in Key : /\ due[k] <= version[TableOf[k]]
                    /\ entry[k] \in Nat /\ entry[k] < due[k] => late[k]
                    /\ k \notin FailureStored => entry[k] # NoRecord
  /\ \A c \in Caller :
       /\ At(c, "store") /\ call[c].got \in Nat /\ call[c].got < due[call[c].key]
            => late[call[c].key]
       /\ call[c].pc \in {"store", "answer"} /\ call[c].key \notin FailureStored
            => call[c].got # NoRecord

\* The steps of CachedReads.
CacheStep ==
  \/ \E c \in Caller :
       \/ \E k \in Key : BeginRead(c, k) \/ BeginCheckedWrite(c, k) \/ BeginWrite(c, k)
       \/ Fetch(c) \/ FetchFails(c) \/ Store(c) \/ Answer(c) \/ Verified(c)
       \/ Write(c) \/ WriteRaises(c) \/ Drop(c) \/ Told(c)
  \/ \E k \in Key : Expire(k)
  \/ UNCHANGED cacheVars

LEMMA NoCallTyped == NoCall \in Call /\ NoCall.pc = "idle"
BY CachedReadsAssumption DEF NoCall, Call, Value

LEMMA CacheInitially == CacheInit => CacheInv
<1> SUFFICES ASSUME CacheInit PROVE CacheInv
  OBVIOUS
<1>1. CacheTypeOK
  BY NoCallTyped DEF CacheInit, CacheTypeOK
<1>2. \A k \in Key : entry[k] = NoEntry /\ due[k] = 0 /\ version[TableOf[k]] = 0
  BY CachedReadsAssumption DEF CacheInit
<1>3. \A c \in Caller : call[c].pc = "idle"
  BY NoCallTyped DEF CacheInit
<1> QED
  BY <1>1, <1>2, <1>3, CachedReadsAssumption DEF CacheInv, At

\* A step that only moves the call of c keeps CacheInv if its new state does.
LEMMA CallMoves ==
  ASSUME CacheInv, NEW c \in Caller, NEW r \in Call,
         call' = [call EXCEPT ![c] = r], UNCHANGED <<version, entry, due, late>>,
         r.pc = "store" /\ r.got \in Nat => ~(r.got < due[r.key]),
         r.pc \in {"store", "answer"} /\ r.key \notin FailureStored => r.got # NoRecord
  PROVE  CacheInv'
<1>1. CacheTypeOK'
  BY DEF CacheInv, CacheTypeOK
<1>2. \A d \in Caller : call'[d] = IF d = c THEN r ELSE call[d]
  BY DEF CacheInv, CacheTypeOK
<1> QED
  BY <1>1, <1>2 DEF CacheInv, At

LEMMA LookMoves ==
  ASSUME CacheInv, NEW c \in Caller, NEW k \in Key, NEW aim \in {"read", "verify", "replace"},
         Look(c, k, aim), UNCHANGED <<version, entry, due, late>>
  PROVE  /\ CacheInv'
         /\ call'[c].key = k
         /\ call'[c].pc \in {"fetch", "answer"}
         /\ k \notin FailureStored /\ call'[c].pc = "answer" => call'[c].got \in Nat
         /\ \A d \in Caller \ {c} : call'[d] = call[d]
<1>1. entry[k] \in Value \union {NoEntry}
  BY DEF CacheInv, CacheTypeOK
<1>2. CASE entry[k] # NoEntry
  <2> DEFINE r == [pc |-> "answer", key |-> k, got |-> entry[k], aim |-> aim]
  <2>1. call' = [call EXCEPT ![c] = r]
    BY <1>2 DEF Look
  <2>2. r \in Call /\ r.pc = "answer" /\ r.key = k /\ r.got = entry[k]
    BY <1>1, <1>2 DEF Call
  <2>3. k \notin FailureStored => entry[k] # NoRecord
    BY DEF CacheInv
  <2>4. CacheInv'
    BY <2>1, <2>2, <2>3, CallMoves
  <2>5. call'[c] = r /\ \A d \in Caller \ {c} : call'[d] = call[d]
    BY <2>1 DEF CacheInv, CacheTypeOK
  <2> QED
    BY <1>1, <1>2, <2>2, <2>3, <2>4, <2>5 DEF Value
<1>3. CASE entry[k] = NoEntry
  <2> DEFINE r == [pc |-> "fetch", key |-> k, got |-> NoRecord, aim |-> aim]
  <2>1. call' = [call EXCEPT ![c] = r]
    BY <1>3 DEF Look
  <2>2. r \in Call /\ r.pc = "fetch" /\ r.key = k
    BY DEF Call, Value
  <2>3. CacheInv'
    BY <2>1, <2>2, CallMoves
  <2>4. call'[c] = r /\ \A d \in Caller \ {c} : call'[d] = call[d]
    BY <2>1 DEF CacheInv, CacheTypeOK
  <2> QED
    BY <2>2, <2>3, <2>4
<1> QED
  BY <1>2, <1>3

\* Every step keeps CacheInv, and no table loses a write.
LEMMA CacheStepInv ==
  ASSUME CacheInv, CacheStep
  PROVE  CacheInv' /\ \A t \in Table : version'[t] \in Nat /\ version[t] \in Nat
                                       /\ version[t] <= version'[t]
<1> USE CachedReadsAssumption
<1> DEFINE Older == \A t \in Table : version[t] <= version'[t]
<1>0. version' = version => Older
  BY DEF CacheInv, CacheTypeOK
<1>1. ASSUME NEW c \in Caller, NEW k \in Key, BeginRead(c, k) \/ BeginCheckedWrite(c, k)
      PROVE  CacheInv' /\ version' = version
  BY <1>1, LookMoves DEF BeginRead, BeginCheckedWrite
<1>2. ASSUME NEW c \in Caller, NEW k \in Key, BeginWrite(c, k)
      PROVE  CacheInv' /\ version' = version
  <2> DEFINE r == [pc |-> "write", key |-> k, got |-> NoRecord, aim |-> "replace"]
  <2>1. r \in Call /\ r.pc = "write"
    BY DEF Call, Value
  <2> QED
    BY <1>2, <2>1, CallMoves DEF BeginWrite
<1>3. ASSUME NEW c \in Caller, Fetch(c) PROVE CacheInv' /\ version' = version
  <2> DEFINE r == [call[c] EXCEPT !.pc = "store", !.got = version[Tabled(c)]]
  <2>1. call[c] \in Call
    BY DEF CacheInv, CacheTypeOK
  <2>2. Tabled(c) \in Table /\ version[Tabled(c)] \in Nat
    BY <2>1 DEF CacheInv, CacheTypeOK, Tabled, Call
  <2>3. r \in Call /\ r.key = call[c].key /\ r.got = version[Tabled(c)]
    BY <2>1, <2>2 DEF Call, Value
  <2>4. call' = [call EXCEPT ![c] = r]
    BY <1>3 DEF Fetch
  <2>5. due[r.key] <= version[Tabled(c)] /\ due[r.key] \in Nat
    BY <2>1, <2>3 DEF CacheInv, CacheTypeOK, Tabled, Call
  <2>6. ~(r.got < due[r.key]) /\ r.got # NoRecord
    BY <2>2, <2>3, <2>5
  <2> HIDE DEF r
  <2> QED
    BY <1>3, <2>3, <2>4, <2>6, CallMoves DEF Fetch
<1>4. ASSUME NEW c \in Caller, FetchFails(c) PROVE CacheInv' /\ version' = version
  BY <1>4, NoCallTyped DEF FetchFails, End, CacheInv, CacheTypeOK, Call, Value, At
<1>5. ASSUME NEW c \in Caller, Store(c) PROVE CacheInv' /\ version' = version
  BY <1>5 DEF Store, Goto, CacheInv, CacheTypeOK, Call, Value, At
<1>6. ASSUME NEW c \in Caller, Answer(c) \/ WriteRaises(c) \/ Told(c)
      PROVE  CacheInv' /\ version' = version
  BY <1>6, NoCallTyped DEF Answer, WriteRaises, Told, Goto, End, CacheInv, CacheTypeOK, Call,
                           Value, At
<1>7. ASSUME NEW c \in Caller, Write(c) PROVE CacheInv' /\ Older
  BY <1>7 DEF Write, Goto, Tabled, CacheInv, CacheTypeOK, Call, Value, At
<1>8. ASSUME NEW c \in Caller, Drop(c) PROVE CacheInv' /\ version' = version
  <2> DEFINE D == Dropped(Tabled(c))
  <2>1. /\ version' = version
        /\ entry' = [k \in Key |-> IF k \in D THEN NoEntry ELSE entry[k]]
        /\ due' = [k \in Key |-> IF k \in D THEN version[TableOf[k]] ELSE due[k]]
        /\ late' = [k \in Key |-> IF k \in D THEN Straggler(k) ELSE late[k]]
        /\ call' = [call EXCEPT ![c].pc = "told"]
    BY <1>8 DEF Drop, Goto
  <2>2. \A d \in Caller : /\ call'[d] \in Call /\ call[d] \in Call
                          /\ call'[d].key = call[d].key /\ call'[d].got = call[d].got
                          /\ call'[d].pc = IF d = c THEN "told" ELSE call[d].pc
    BY <2>1 DEF CacheInv, CacheTypeOK, Call
  <2>3. \A k \in Key : Straggler(k) \in BOOLEAN
    BY DEF Straggler
  <2> HIDE DEF D
  <2>4. CacheTypeOK'
    <3>1. call' \in [Caller -> Call]
      BY <2>1, <2>2 DEF CacheInv, CacheTypeOK
    <3>2. late' \in [Key -> BOOLEAN]
      BY <2>1, <2>3 DEF CacheInv, CacheTypeOK
    <3> QED
      BY <2>1, <3>1, <3>2 DEF CacheInv, CacheTypeOK
  <2>5. \A k \in Key : /\ due'[k] <= version'[TableOf[k]]
                       /\ entry'[k] \in Nat /\ entry'[k] < due'[k] => late'[k]
                       /\ k \notin FailureStored => entry'[k] # NoRecord
    BY <2>1 DEF CacheInv, CacheTypeOK
  <2>6. ASSUME NEW d \in Caller, At(d, "store")', call'[d].got \in Nat,
               call'[d].got < due'[call'[d].key]
        PROVE  late'[call'[d].key]
    <3> DEFINE k == call[d].key
    <3>1. At(d, "store") /\ k \in Key /\ call[d].got \in Nat /\ call[d].got < due'[k]
      BY <2>2, <2>6 DEF At, Call
    <3>2. CASE k \in D
      BY <2>1, <2>2, <3>1, <3>2 DEF Straggler
    <3>3. CASE k \notin D
      BY <2>1, <2>2, <3>1, <3>3 DEF CacheInv
    <3> QED
      BY <3>2, <3>3
  <2>7. ASSUME NEW d \in Caller, call'[d].pc \in {"store", "answer"},
               call'[d].key \notin FailureStored
        PROVE  call'[d].got # NoRecord
    BY <2>2, <2>7 DEF CacheInv
  <2> QED
    BY <2>1, <2>4, <2>5, <2>6, <2>7 DEF CacheInv
<1>9. ASSUME NEW k \in Key, Expire(k) PROVE CacheInv' /\ version' = version
  BY <1>9 DEF Expire, CacheInv, CacheTypeOK, At
<1>10. ASSUME UNCHANGED cacheVars PROVE CacheInv' /\ version' = version
  BY <1>10 DEF cacheVars, CacheInv, CacheTypeOK, At, Call, Value
<1>12. ASSUME NEW c \in Caller, Verified(c) PROVE CacheInv' /\ version' = version
  <2>1. call[c].key \in Key
    BY DEF CacheInv, CacheTypeOK, Call
  <2> QED
    BY <1>12, <2>1, LookMoves DEF Verified
<1>11. CacheInv' /\ Older
  BY <1>0, <1>1, <1>2, <1>3, <1>4, <1>5, <1>6, <1>7, <1>8, <1>9, <1>10, <1>12 DEF CacheStep
<1> QED
  BY <1>11 DEF CacheInv, CacheTypeOK

-----------------------------------------------------------------------------
(***************************************************************************)
(* The views.                                                              *)
(***************************************************************************)

ViewTypes ==
  /\ rows \in [View -> Value \union {NoRows}]
  /\ flight \in [Shared -> BOOLEAN]
  /\ failed \in [Shared -> BOOLEAN]
  /\ load \in [Loader -> Load]
  /\ loading \in BOOLEAN
  /\ boardError \in BOOLEAN
  /\ newest \in Nat
  /\ rowsDue \in [View -> Nat]
  /\ rowsLate \in [View -> BOOLEAN]
  /\ \A l \in Loader : Loads(l, "store") => load[l].got \in Nat

\* The thread holds the fetch of its view.
Owns(l) == ViewOf[l] \in Shared /\ load[l].pc \in {"fetch", "store", "signal"}

\* A shared fetch has one owner, and its event is not set while it has.
Owners ==
  /\ \A l \in Loader : Owns(l) => flight[ViewOf[l]]
  /\ \A l, m \in Loader : Owns(l) /\ Owns(m) /\ ViewOf[l] = ViewOf[m] => l = m
  /\ \A l \in Loader : load[l].pc \in {"signal", "wait", "flag"} => ViewOf[l] \in Shared

\* What a reader will find; it was raced if the next fetch has begun.
Outcome(l) ==
  /\ load[l].pc \in {"fetch", "store"} =>
       ~load[l].fails /\ (ViewOf[l] \in Shared => ~failed[ViewOf[l]])
  /\ Loads(l, "signal") => failed[ViewOf[l]] = load[l].fails
  /\ load[l].pc \in {"flag", "rows"} /\ ViewOf[l] \in Shared /\ flight[ViewOf[l]]
       => load[l].raced
  /\ Loads(l, "flag") /\ ~load[l].raced => failed[ViewOf[l]] = load[l].fails
  /\ load[l].pc \in {"signal", "flag"} /\ ~load[l].raced /\ ~load[l].fails
       => rows[ViewOf[l]] = load[l].got
  /\ Loads(l, "rows") /\ ~load[l].raced => ~load[l].fails /\ rows[ViewOf[l]] = load[l].got

Outcomes == \A l \in Loader : Outcome(l)

\* The worker of the dashboard finds a list, or was about to bring back one
\* when it was forgotten.
BoardInv ==
  LET b == BoardLoader IN
  /\ ~loading => Loads(b, "idle")
  /\ load[b].pc \in {"signal", "flag"} =>
       failed[Board] \/ rows[Board] # NoRows \/ rowsLate[Board]
  /\ Loads(b, "rows") => rows[Board] # NoRows \/ rowsLate[Board]
  /\ Loads(b, "assign") =>
       /\ load[b].got \in Value
       /\ load[b].got \in Nat /\ load[b].got < rowsDue[Board] => rowsLate[Board]
       /\ load[b].got = NoRecord => rowsLate[Board]

\* Lists, and those about to be stored, are no older than what they were
\* forgotten for, unless they were late; the student's are in order.
Ages ==
  /\ \A v \in View :
       /\ rowsDue[v] <= version[Complaints]
       /\ rows[v] \in Nat /\ rows[v] < rowsDue[v] => rowsLate[v]
       /\ rows[v] = NoRecord => rowsLate[v]
  /\ newest <= version[Complaints]
  /\ \A l \in Loader : Loads(l, "store") =>
       /\ load[l].got <= version[Complaints]
       /\ load[l].got < rowsDue[ViewOf[l]] => rowsLate[ViewOf[l]]
       /\ ViewOf[l] = Mine => newest <= load[l].got

\* The caller of the dashboard's worker asks for the metrics only.
MetricsInv ==
  /\ metrics \in Nat \union {NoEntry}
  /\ ~At(BoardCaller, "idle") => call[BoardCaller].key = Metrics

ViewInv == ViewTypes /\ Owners /\ Outcomes /\ BoardInv /\ Ages

FetchInv == CacheInv /\ ViewInv /\ MetricsInv /\ open \in Crews /\ begun \in 0..MaxLoads

LEMMA LoaderViews ==
  /\ \A l \in Loader : ViewOf[l] \in View
  /\ Shared \subseteq View /\ Mine \in Shared /\ Board \in Shared /\ Mine # Board
  /\ BoardLoader \in Loader /\ ViewOf[BoardLoader] = Board
  /\ \A l \in Loader : ViewOf[l] = Board => l = BoardLoader
  /\ NoRows \notin Nat /\ NoRows # NoRecord /\ NoRecord \notin Nat /\ NoEntry \notin Nat
  /\ Complaints \in Table /\ BoardCaller \in Caller
BY SharedFetchAssumption, CachedReadsAssumption

LEMMA NoLoadTyped ==
  /\ NoLoad \in Load /\ NoLoad.pc = "idle" /\ ~NoLoad.fails
  /\ \A step \in {"wait", "fetch"} :
       [NoLoad EXCEPT !.pc = step] \in Load /\ [NoLoad EXCEPT !.pc = step].pc = step
       /\ ~[NoLoad EXCEPT !.pc = step].fails /\ ~[NoLoad EXCEPT !.pc = step].raced
  /\ \A value \in Value :
       LET r == [NoLoad EXCEPT !.pc = "assign", !.got = value]
       IN r \in Load /\ r.pc = "assign" /\ r.got = value
BY DEF NoLoad, Load, Value

\* Raced marks, and changes nothing else.
LEMMA RacedMarks ==
  ASSUME load \in [Loader -> Load], NEW who \in SUBSET Loader
  PROVE  /\ Raced(load, who) \in [Loader -> Load]
         /\ \A l \in Loader : LET r == Raced(load, who)[l]
                              IN /\ r.pc = load[l].pc /\ r.got = load[l].got
                                 /\ r.fails = load[l].fails
                                 /\ r.raced = (load[l].raced \/ l \in who)
BY DEF Raced, Load

LEMMA FetchInitially == Init => FetchInv
<1> SUFFICES ASSUME Init PROVE FetchInv
  OBVIOUS
<1>1. CacheInv
  BY CacheInitially DEF Init
<1>2. \A l \in Loader : load[l] = NoLoad
  BY DEF Init
<1>3. ViewTypes
  BY <1>2, NoLoadTyped DEF Init, ViewTypes, Loads
<1>4. Owners /\ Outcomes
  BY <1>2, NoLoadTyped DEF Owners, Owns, Outcomes, Outcome, Loads
<1>5. BoardInv
  BY <1>2, NoLoadTyped, LoaderViews DEF BoardInv, Loads
<1>6. version[Complaints] = 0
  BY LoaderViews DEF Init, CacheInit
<1>7. Ages
  <2>1. \A v \in View : rows[v] = NoRows /\ rowsDue[v] = 0
    BY DEF Init
  <2>2. newest = 0 /\ \A l \in Loader : load[l].pc = "idle"
    BY <1>2, NoLoadTyped DEF Init
  <2> QED
    BY <1>6, <2>1, <2>2, LoaderViews DEF Ages, Loads
<1>8. MetricsInv
  BY NoCallTyped, LoaderViews DEF Init, CacheInit, MetricsInv, At
<1>9. begun \in 0..MaxLoads
  BY SharedFetchAssumption DEF Init
<1> QED
  BY <1>1, <1>3, <1>4, <1>5, <1>7, <1>8, <1>9 DEF Init, FetchInv, ViewInv

\* A step of the cache alone: the tables grow, the lists stay.
LEMMA CacheStepView ==
  ASSUME ViewInv, UNCHANGED <<rows, flight, failed, load, loading, newest, rowsDue, rowsLate>>,
         boardError' \in BOOLEAN,
         version[Complaints] \in Nat, version'[Complaints] \in Nat,
         version[Complaints] <= version'[Complaints]
  PROVE  ViewInv'
<1>1. ViewTypes' /\ Owners' /\ Outcomes' /\ BoardInv'
  BY DEF ViewInv, ViewTypes, Owners, Owns, Outcomes, Outcome, BoardInv, Loads
<1>2. Ages'
  BY LoaderViews DEF ViewInv, ViewTypes, Ages, Loads
<1> QED
  BY <1>1, <1>2 DEF ViewInv

\* Owning a fetch or joining the one under way.
LEMMA EnterStep ==
  ASSUME ViewInv, NEW l \in Loader, Loads(l, "idle"), Enter(l), loading' \in BOOLEAN,
         l = BoardLoader => loading', l # BoardLoader => loading' = loading,
         UNCHANGED <<version, rows, boardError, newest, rowsDue, rowsLate>>
  PROVE  ViewInv'
<1> DEFINE v == ViewOf[l]
<1> USE LoaderViews
<1>1. CASE v \in Shared /\ flight[v]
  <2> DEFINE r == [NoLoad EXCEPT !.pc = "wait"]
  <2>1. /\ load' = [load EXCEPT ![l] = r] /\ UNCHANGED <<flight, failed>>
        /\ r \in Load /\ r.pc = "wait"
    BY <1>1, NoLoadTyped DEF Enter
  <2> HIDE DEF r
  <2>2. \A m \in Loader : load'[m] = IF m = l THEN r ELSE load[m]
    BY <2>1 DEF ViewInv, ViewTypes
  <2>3. ViewTypes'
    BY <2>1, <2>2 DEF ViewInv, ViewTypes, Loads
  <2>4. Owners'
    BY <1>1, <2>1, <2>2 DEF ViewInv, Owners, Owns
  <2>5. Outcomes'
    BY <2>1, <2>2 DEF ViewInv, Outcomes, Outcome, Loads
  <2>6. BoardInv'
    BY <2>1, <2>2 DEF ViewInv, BoardInv, Loads
  <2>7. Ages'
    BY <2>1, <2>2 DEF ViewInv, Ages, Loads
  <2> QED
    BY <2>3, <2>4, <2>5, <2>6, <2>7 DEF ViewInv
<1>2. CASE ~(v \in Shared /\ flight[v])
  <2> DEFINE r == [NoLoad EXCEPT !.pc = "fetch"]
             who == IF v \in Shared THEN Reading(v) ELSE {}
             marked == Raced(load, who)
  <2>1. /\ load' = [marked EXCEPT ![l] = r]
        /\ flight' = [w \in Shared |-> IF w = v THEN TRUE ELSE flight[w]]
        /\ failed' = [w \in Shared |-> IF w = v THEN FALSE ELSE failed[w]]
        /\ r \in Load /\ r.pc = "fetch" /\ ~r.fails
    BY <1>2, NoLoadTyped DEF Enter
  <2>2. who \in SUBSET Loader
    BY DEF Reading
  <2>3. marked \in [Loader -> Load]
    BY <2>2, RacedMarks DEF ViewInv, ViewTypes
  <2>4. \A m \in Loader : /\ marked[m].pc = load[m].pc /\ marked[m].got = load[m].got
                          /\ marked[m].fails = load[m].fails
                          /\ marked[m].raced = (load[m].raced \/ m \in who)
    BY <2>2, RacedMarks DEF ViewInv, ViewTypes
  <2> HIDE DEF r, marked
  <2>5. \A m \in Loader : load'[m] = IF m = l THEN r ELSE marked[m]
    BY <2>1, <2>3
  <2>6. \A m \in Loader \ {l} :
          /\ load'[m].pc = load[m].pc /\ load'[m].got = load[m].got
          /\ load'[m].fails = load[m].fails
          /\ load'[m].raced = (load[m].raced \/ m \in who)
    BY <2>4, <2>5
  <2>7. load'[l].pc = "fetch" /\ ~load'[l].fails
    BY <2>1, <2>5
  <2>8. ViewTypes'
    BY <2>1, <2>3, <2>5, <2>6, <2>7 DEF ViewInv, ViewTypes, Loads
  <2>9. Owners'
    <3>1. \A w \in Shared : flight'[w] = IF w = v THEN TRUE ELSE flight[w]
      BY <2>1
    <3>2. \A m \in Loader \ {l} : Owns(m)' => Owns(m) /\ ViewOf[m] # v
      BY <1>2, <2>6 DEF ViewInv, Owners, Owns
    <3>3. \A m \in Loader : Owns(m)' => flight'[ViewOf[m]]
      BY <3>1, <3>2 DEF ViewInv, Owners, Owns
    <3>4. \A m \in Loader : load'[m].pc \in {"signal", "wait", "flag"} => ViewOf[m] \in Shared
      BY <2>6, <2>7 DEF ViewInv, Owners
    <3> QED
      BY <3>2, <3>3, <3>4 DEF ViewInv, Owners
  <2>10. Outcomes'
    <3> SUFFICES ASSUME NEW m \in Loader
                 PROVE
           /\ load'[m].pc \in {"fetch", "store"} =>
                ~load'[m].fails /\ (ViewOf[m] \in Shared => ~failed'[ViewOf[m]])
           /\ Loads(m, "signal")' => failed'[ViewOf[m]] = load'[m].fails
           /\ load'[m].pc \in {"flag", "rows"} /\ ViewOf[m] \in Shared /\ flight'[ViewOf[m]]
                => load'[m].raced
           /\ Loads(m, "flag")' /\ ~load'[m].raced => failed'[ViewOf[m]] = load'[m].fails
           /\ load'[m].pc \in {"signal", "flag"} /\ ~load'[m].raced /\ ~load'[m].fails
                => rows'[ViewOf[m]] = load'[m].got
           /\ Loads(m, "rows")' /\ ~load'[m].raced
                => ~load'[m].fails /\ rows'[ViewOf[m]] = load'[m].got
      BY DEF Outcomes, Outcome
    <3>1. CASE m = l
      BY <2>1, <2>7, <3>1 DEF Loads
    <3>2. CASE m # l /\ ViewOf[m] = v /\ v \in Shared
      <4>1. load[m].pc # "signal"
        BY <1>2, <3>2 DEF ViewInv, Owners, Owns
      <4>2. load[m].pc \in {"flag", "rows"} => m \in who
        BY <3>2 DEF Reading
      <4>3. load[m].pc \notin {"fetch", "store"}
        BY <1>2, <3>2 DEF ViewInv, Owners, Owns
      <4> QED
        BY <2>6, <3>2, <4>1, <4>2, <4>3 DEF Loads
    <3>3. CASE m # l /\ ~(ViewOf[m] = v /\ v \in Shared)
      <4>1. m \notin who
        BY <3>3 DEF Reading
      <4>2. load[m].pc \in {"signal", "flag"} => ViewOf[m] \in Shared
        BY DEF ViewInv, Owners
      <4>3. ViewOf[m] \in Shared => /\ failed'[ViewOf[m]] = failed[ViewOf[m]]
                                    /\ flight'[ViewOf[m]] = flight[ViewOf[m]]
        BY <2>1, <3>3
      <4> HIDE DEF who
      <4> QED
        BY <2>6, <3>3, <4>1, <4>2, <4>3 DEF Loads, ViewInv, Outcomes, Outcome
    <3> QED
      BY <3>1, <3>2, <3>3
  <2>11. BoardInv'
    <3>1. CASE l = BoardLoader
      BY <2>7, <3>1 DEF BoardInv, Loads
    <3>2. CASE l # BoardLoader
      <4>1. failed'[Board] = failed[Board]
        BY <2>1, <3>2
      <4> QED
        BY <2>6, <3>2, <4>1 DEF ViewInv, BoardInv, Loads
    <3> QED
      BY <3>1, <3>2
  <2>12. Ages'
    BY <2>6, <2>7 DEF ViewInv, Ages, Loads
  <2> QED
    BY <2>8, <2>9, <2>10, <2>11, <2>12 DEF ViewInv
<1> QED
  BY <1>1, <1>2

\* A step that only moves the load of l, to a state the invariant allows it.
LEMMA LoadMoves ==
  ASSUME ViewInv, NEW l \in Loader, NEW r \in Load,
         load' = [load EXCEPT ![l] = r],
         UNCHANGED <<version, rows, flight, failed, loading, newest, rowsDue, rowsLate>>,
         boardError' \in BOOLEAN,
         ViewTypes', Owners',
         r.pc \in {"idle", "rows", "store", "assign"},
         r.pc \in {"rows", "assign"} => load[l].pc \in {"rows", "store", "flag"},
         r.pc = "rows" =>
           /\ ViewOf[l] \in Shared /\ flight[ViewOf[l]] => r.raced
           /\ ~r.raced => ~r.fails /\ rows[ViewOf[l]] = r.got
           /\ l = BoardLoader => rows[Board] # NoRows \/ rowsLate[Board],
         r.pc = "store" =>
           /\ load[l].pc # "idle"
           /\ ~r.fails /\ (ViewOf[l] \in Shared => ~failed[ViewOf[l]])
           /\ r.got = version[Complaints],
         r.pc = "assign" /\ l = BoardLoader =>
           /\ r.got \in Value
           /\ r.got \in Nat /\ r.got < rowsDue[Board] => rowsLate[Board]
           /\ r.got = NoRecord => rowsLate[Board]
  PROVE  ViewInv'
<1> USE LoaderViews
<1>1. \A m \in Loader : load'[m] = IF m = l THEN r ELSE load[m]
  BY DEF ViewInv, ViewTypes
<1>2. Outcomes'
  BY <1>1 DEF ViewInv, Outcomes, Outcome, Loads
<1>3. BoardInv'
  BY <1>1 DEF ViewInv, BoardInv, Loads
<1>4. Ages'
  BY <1>1 DEF ViewInv, ViewTypes, Ages, Loads
<1> QED
  BY <1>2, <1>3, <1>4 DEF ViewInv

LEMMA FetchRowsStep ==
  ASSUME ViewInv, NEW l \in Loader, FetchRows(l), version[Complaints] \in Nat
  PROVE  ViewInv'
<1> DEFINE r == [load[l] EXCEPT !.pc = "store", !.got = version[Complaints]]
<1>1. /\ load' = [load EXCEPT ![l] = r] /\ load[l] \in Load /\ load[l].pc = "fetch"
      /\ UNCHANGED <<version, rows, flight, failed, loading, boardError, newest, rowsDue,
                     rowsLate>>
  BY DEF FetchRows, cacheVars, ViewInv, ViewTypes, Loads
<1>2. r \in Load /\ r.pc = "store" /\ r.got = version[Complaints] /\ r.fails = load[l].fails
  BY <1>1 DEF Load, Value
<1> HIDE DEF r
<1>3. \A m \in Loader : load'[m] = IF m = l THEN r ELSE load[m]
  BY <1>1 DEF ViewInv, ViewTypes
<1>4. ViewTypes'
  BY <1>1, <1>2, <1>3 DEF ViewInv, ViewTypes, Loads
<1>5. Owners'
  BY <1>1, <1>2, <1>3 DEF ViewInv, Owners, Owns
<1>6. ~r.fails /\ (ViewOf[l] \in Shared => ~failed[ViewOf[l]])
  BY <1>1, <1>2 DEF ViewInv, Outcomes, Outcome
<1> QED
  BY <1>1, <1>2, <1>4, <1>5, <1>6, LoadMoves DEF ViewInv, ViewTypes

LEMMA FetchRowsFailsStep ==
  ASSUME ViewInv, NEW l \in Loader, FetchRowsFails(l)
  PROVE  ViewInv'
<1> DEFINE v == ViewOf[l]
<1> USE LoaderViews
<1>1. load[l].pc = "fetch" /\ load[l] \in Load
      /\ UNCHANGED <<version, rows, flight, loading, boardError, newest, rowsDue, rowsLate>>
  BY DEF FetchRowsFails, cacheVars, ViewInv, ViewTypes, Loads
<1>2. CASE v \in Shared
  <2> DEFINE r == [load[l] EXCEPT !.pc = "signal", !.fails = TRUE]
  <2>1. load' = [load EXCEPT ![l] = r] /\ failed' = [failed EXCEPT ![v] = TRUE]
    BY <1>2 DEF FetchRowsFails
  <2>2. r \in Load /\ r.pc = "signal" /\ r.fails
    BY <1>1 DEF Load
  <2> HIDE DEF r
  <2>3. \A m \in Loader : load'[m] = IF m = l THEN r ELSE load[m]
    BY <2>1 DEF ViewInv, ViewTypes
  <2>4. \A w \in Shared : failed'[w] = IF w = v THEN TRUE ELSE failed[w]
    BY <2>1 DEF ViewInv, ViewTypes
  <2>5. flight[v]
    BY <1>1, <1>2 DEF ViewInv, Owners, Owns
  <2>6. \A m \in Loader \ {l} : ViewOf[m] = v => load[m].pc \notin {"fetch", "store", "signal"}
    BY <1>1, <1>2 DEF ViewInv, Owners, Owns
  <2>7. ViewTypes'
    BY <1>1, <1>2, <2>1, <2>2, <2>3 DEF ViewInv, ViewTypes, Loads
  <2>8. Owners'
    BY <1>1, <1>2, <2>2, <2>3 DEF ViewInv, Owners, Owns
  <2>9. Outcomes'
    <3>1. \A m \in Loader \ {l} :
            ViewOf[m] = v => /\ load[m].pc \notin {"fetch", "store", "signal"}
                             /\ load[m].pc \in {"flag", "rows"} => load[m].raced
      BY <1>2, <2>5, <2>6 DEF ViewInv, Outcomes, Outcome
    <3>2. \A m \in Loader : load[m].pc \in {"signal", "flag"} => ViewOf[m] \in Shared
      BY DEF ViewInv, Owners
    <3>3. ASSUME NEW m \in Loader \ {l} PROVE Outcome(m)'
      <4>1. Outcome(m) /\ load'[m] = load[m]
        BY <2>3 DEF ViewInv, Outcomes
      <4>2. CASE ViewOf[m] = v
        BY <1>1, <3>1, <4>1, <4>2 DEF Outcome, Loads
      <4>3. CASE ViewOf[m] # v
        BY <1>1, <2>4, <3>2, <4>1, <4>3 DEF Outcome, Loads
      <4> QED
        BY <4>2, <4>3
    <3>4. Outcome(l)'
      BY <1>2, <2>2, <2>3, <2>4 DEF Outcome, Loads
    <3> QED
      BY <3>3, <3>4 DEF Outcomes
  <2>10. BoardInv'
    <3>1. failed[Board] => failed'[Board]
      BY <2>4
    <3>2. l = BoardLoader => failed'[Board]
      BY <2>4
    <3> QED
      BY <1>1, <2>2, <2>3, <3>1, <3>2 DEF ViewInv, BoardInv, Loads
  <2>11. Ages'
    BY <1>1, <2>2, <2>3 DEF ViewInv, Ages, Loads
  <2> QED
    BY <2>7, <2>8, <2>9, <2>10, <2>11 DEF ViewInv
<1>3. CASE v \notin Shared
  <2>1. load' = [load EXCEPT ![l] = NoLoad] /\ UNCHANGED failed
    BY <1>3 DEF FetchRowsFails
  <2>2. \A m \in Loader : load'[m] = IF m = l THEN NoLoad ELSE load[m]
    BY <2>1 DEF ViewInv, ViewTypes
  <2>3. ViewTypes'
    BY <1>1, <2>1, <2>2, NoLoadTyped DEF ViewInv, ViewTypes, Loads
  <2>4. Owners'
    BY <1>1, <2>2, NoLoadTyped DEF ViewInv, Owners, Owns
  <2> QED
    BY <1>1, <2>1, <2>3, <2>4, NoLoadTyped, LoadMoves DEF ViewInv, ViewTypes
<1> QED
  BY <1>2, <1>3

LEMMA StoreRowsStep ==
  ASSUME ViewInv, NEW l \in Loader, StoreRows(l), version[Complaints] \in Nat
  PROVE  ViewInv'
<1> DEFINE v == ViewOf[l]
           step == IF v \in Shared THEN "signal" ELSE "rows"
           marked == Raced(load, Reading(v))
<1> USE LoaderViews
<1>1. /\ load[l].pc = "store" /\ load[l] \in Load /\ load[l].got \in Nat
      /\ rows' = [rows EXCEPT ![v] = load[l].got]
      /\ newest' = IF v = Mine THEN load[l].got ELSE newest
      /\ load' = [marked EXCEPT ![l].pc = step]
      /\ UNCHANGED <<version, flight, failed, loading, boardError, rowsDue, rowsLate>>
  BY DEF StoreRows, Keep, cacheVars, ViewInv, ViewTypes, Loads
<1>2. Reading(v) \in SUBSET Loader
  BY DEF Reading
<1>3. marked \in [Loader -> Load]
  BY <1>2, RacedMarks DEF ViewInv, ViewTypes
<1>4. \A m \in Loader : /\ marked[m].pc = load[m].pc /\ marked[m].got = load[m].got
                        /\ marked[m].fails = load[m].fails
                        /\ marked[m].raced = (load[m].raced \/ m \in Reading(v))
  BY <1>2, RacedMarks DEF ViewInv, ViewTypes
<1> HIDE DEF marked
<1>5. step \in {"signal", "rows"}
  OBVIOUS
<1>6. \A m \in Loader : /\ load'[m] \in Load
                        /\ load'[m].pc = IF m = l THEN step ELSE load[m].pc
                        /\ load'[m].got = load[m].got /\ load'[m].fails = load[m].fails
                        /\ load'[m].raced = (load[m].raced \/ m \in Reading(v))
  BY <1>1, <1>3, <1>4, <1>5 DEF Load
<1>7. load' \in [Loader -> Load]
  BY <1>1, <1>3, <1>6
<1>8. \A w \in View : rows'[w] = IF w = v THEN load[l].got ELSE rows[w]
  BY <1>1 DEF ViewInv, ViewTypes
<1>9. ViewTypes'
  <2>1. rows' \in [View -> Value \union {NoRows}]
    BY <1>1 DEF ViewInv, ViewTypes, Value
  <2> QED
    BY <1>1, <1>5, <1>6, <1>7, <2>1 DEF ViewInv, ViewTypes, Loads
<1>10. Owners'
  <2>1. \A m \in Loader : Owns(m)' => Owns(m)
    BY <1>1, <1>6 DEF Owns
  <2>2. \A m \in Loader : load'[m].pc \in {"signal", "wait", "flag"} => ViewOf[m] \in Shared
    BY <1>6 DEF ViewInv, Owners
  <2> QED
    BY <1>1, <2>1, <2>2 DEF ViewInv, Owners
<1>11. Outcomes'
  <2>1. ~load[l].fails /\ (v \in Shared => ~failed[v])
    BY <1>1 DEF ViewInv, Outcomes, Outcome
  <2>2. \A m \in Loader : ViewOf[m] = v /\ load[m].pc \in {"signal", "flag", "rows"}
                            => m \in Reading(v)
    BY DEF Reading
  <2> HIDE DEF v, step
  <2> QED
    <3>1. \A m \in Loader : load[m].pc \in {"signal", "flag"} => ViewOf[m] \in Shared
      BY DEF ViewInv, Owners
    <3>2. ViewOf[l] = v /\ (v \notin Shared => step = "rows") /\ (v \in Shared => step = "signal")
      BY DEF v, step
    <3>3. /\ load'[l].pc = step /\ ~load'[l].fails /\ rows'[v] = load'[l].got
      BY <1>1, <1>6, <1>8, <2>1, <3>2
    <3>5. \A m \in Loader \ {l} :
            /\ load'[m].pc = load[m].pc /\ load'[m].got = load[m].got
            /\ load'[m].fails = load[m].fails
            /\ load[m].raced => load'[m].raced
            /\ ViewOf[m] = v /\ load[m].pc \in {"signal", "flag", "rows"} => load'[m].raced
            /\ ViewOf[m] # v => rows'[ViewOf[m]] = rows[ViewOf[m]]
      BY <1>6, <1>8, <2>2
    <3>6. \A m \in Loader \ {l} : Outcome(m) => Outcome(m)'
      BY <1>1, <3>1, <3>5 DEF Outcome, Loads
    <3>7. Outcome(l)'
      <4>1. v \in Shared => failed'[v] = load'[l].fails
        BY <1>1, <1>6, <2>1 DEF ViewInv, ViewTypes, Load
      <4> QED
        BY <3>2, <3>3, <4>1 DEF Outcome, Loads
    <3> QED
      BY <3>6, <3>7 DEF ViewInv, Outcomes, Outcome
<1>12. BoardInv'
  <2>1. l = BoardLoader => rows'[Board] # NoRows
    BY <1>1, <1>8
  <2>2. l # BoardLoader => rows'[Board] = rows[Board]
    BY <1>8
  <2>3. l = BoardLoader => loading
    BY <1>1 DEF ViewInv, BoardInv, Loads
  <2> QED
    BY <1>1, <1>5, <1>6, <2>1, <2>2, <2>3 DEF ViewInv, BoardInv, Loads
<1>13. Ages'
  <2>1. \A m \in Loader : Loads(m, "store")' => Loads(m, "store") /\ m # l
    BY <1>5, <1>6 DEF Loads
  <2>2. \A m \in Loader : Loads(m, "store")' /\ ViewOf[m] = Mine => v # Mine
    BY <1>1, <2>1 DEF ViewInv, Owners, Owns, Loads
  <2>3. /\ load[l].got <= version[Complaints]
        /\ load[l].got < rowsDue[v] => rowsLate[v]
    BY <1>1 DEF ViewInv, Ages, Loads
  <2>4. \A w \in View :
          /\ rowsDue'[w] <= version'[Complaints]
          /\ rows'[w] \in Nat /\ rows'[w] < rowsDue'[w] => rowsLate'[w]
          /\ rows'[w] = NoRecord => rowsLate'[w]
    BY <1>1, <1>8, <2>3 DEF ViewInv, Ages
  <2>5. newest' <= version'[Complaints]
    BY <1>1, <2>3 DEF ViewInv, Ages
  <2>6. ASSUME NEW m \in Loader, Loads(m, "store")'
        PROVE  /\ load'[m].got <= version'[Complaints]
               /\ load'[m].got < rowsDue'[ViewOf[m]] => rowsLate'[ViewOf[m]]
               /\ ViewOf[m] = Mine => newest' <= load'[m].got
    BY <1>1, <1>6, <2>1, <2>2, <2>6 DEF ViewInv, Ages
  <2> QED
    BY <2>4, <2>5, <2>6 DEF Ages
<1> QED
  BY <1>9, <1>10, <1>11, <1>12, <1>13 DEF ViewInv

LEMMA SignalStep ==
  ASSUME ViewInv, NEW l \in Loader, Signal(l)
  PROVE  ViewInv'
<1> DEFINE v == ViewOf[l]
           r == [load[l] EXCEPT !.pc = "flag"]
           gone == {m \in Loader : m = l \/ (load[m].pc = "wait" /\ ViewOf[m] = v)}
<1> USE LoaderViews
<1>1. /\ load[l].pc = "signal" /\ load[l] \in Load
      /\ flight' = [flight EXCEPT ![v] = FALSE]
      /\ UNCHANGED <<version, rows, failed, loading, boardError, newest, rowsDue, rowsLate>>
      /\ load' = [m \in Loader |-> IF m \in gone THEN r ELSE load[m]]
  BY DEF Signal, cacheVars, ViewInv, ViewTypes, Loads
<1>2. /\ r \in Load /\ r.pc = "flag" /\ r.got = load[l].got /\ r.fails = load[l].fails
      /\ r.raced = load[l].raced
  BY <1>1 DEF Load
<1>3. v \in Shared /\ flight[v]
  BY <1>1 DEF ViewInv, Owners, Owns
<1>4. \A w \in Shared : flight'[w] = IF w = v THEN FALSE ELSE flight[w]
  BY <1>1 DEF ViewInv, ViewTypes
<1>5. \A m \in gone : ViewOf[m] = v /\ load[m].pc \in {"signal", "wait"}
  BY <1>1
<1> HIDE DEF r, gone
<1>6. \A m \in Loader : load'[m] = IF m \in gone THEN r ELSE load[m]
  BY <1>1
<1>7. ViewTypes'
  BY <1>1, <1>2, <1>3, <1>6 DEF ViewInv, ViewTypes, Loads
<1>8. Owners'
  <2>1. \A m \in Loader : Owns(m)' => Owns(m) /\ m \notin gone
    BY <1>2, <1>6 DEF Owns
  <2>2. \A m \in Loader : Owns(m)' => ViewOf[m] # v
    <3>1. l \in gone /\ Owns(l)
      BY <1>1, <1>3 DEF gone, Owns
    <3> QED
      BY <2>1, <3>1 DEF ViewInv, Owners
  <2>3. \A m \in Loader : Owns(m)' => flight'[ViewOf[m]]
    BY <1>4, <2>1, <2>2 DEF ViewInv, Owners, Owns
  <2>4. \A m \in Loader : load'[m].pc \in {"signal", "wait", "flag"} => ViewOf[m] \in Shared
    BY <1>3, <1>5, <1>6 DEF ViewInv, Owners
  <2> QED
    BY <2>1, <2>3, <2>4 DEF ViewInv, Owners
<1>9. Outcomes'
  <2>1. ASSUME NEW m \in Loader, m \in gone
        PROVE  /\ failed[ViewOf[m]] = load'[m].fails
               /\ ~flight'[ViewOf[m]]
               /\ load'[m].pc = "flag"
               /\ ~load'[m].raced /\ ~load'[m].fails => rows[ViewOf[m]] = load'[m].got
    <3>1. ViewOf[m] = v /\ load'[m] = r
      BY <1>5, <1>6, <2>1
    <3>2. /\ failed[v] = load[l].fails
          /\ ~load[l].raced /\ ~load[l].fails => rows[v] = load[l].got
      BY <1>1 DEF ViewInv, Outcomes, Outcome, Loads
    <3> QED
      BY <1>2, <1>3, <1>4, <3>1, <3>2
  <2>2. \A m \in Loader \ gone : load'[m] = load[m]
    BY <1>6
  <2>3. \A m \in Loader : ViewOf[m] \in Shared /\ flight'[ViewOf[m]] => flight[ViewOf[m]]
    BY <1>4
  <2> QED
    BY <1>1, <2>1, <2>2, <2>3 DEF ViewInv, Outcomes, Outcome, Loads
<1>10. BoardInv'
  BY <1>1, <1>2, <1>5, <1>6 DEF ViewInv, BoardInv, Loads, gone
<1>11. Ages'
  BY <1>1, <1>2, <1>6 DEF ViewInv, Ages, Loads
<1> QED
  BY <1>7, <1>8, <1>9, <1>10, <1>11 DEF ViewInv

LEMMA ReadFlagStep ==
  ASSUME ViewInv, NEW l \in Loader, ReadFlag(l)
  PROVE  ViewInv'
<1> DEFINE r == IF failed[ViewOf[l]] THEN NoLoad ELSE [load[l] EXCEPT !.pc = "rows"]
<1> USE LoaderViews
<1>1. /\ load[l].pc = "flag" /\ load[l] \in Load /\ load' = [load EXCEPT ![l] = r]
      /\ UNCHANGED <<version, rows, flight, failed, loading, newest, rowsDue, rowsLate>>
      /\ boardError' \in BOOLEAN
  BY DEF ReadFlag, cacheVars, ViewInv, ViewTypes, Loads
<1>2. /\ r \in Load /\ r.pc \in {"idle", "rows"}
      /\ r.pc = "rows" => /\ ~failed[ViewOf[l]]
                          /\ r.got = load[l].got /\ r.fails = load[l].fails
                          /\ r.raced = load[l].raced
  BY <1>1, NoLoadTyped DEF Load
<1> HIDE DEF r
<1>3. \A m \in Loader : load'[m] = IF m = l THEN r ELSE load[m]
  BY <1>1 DEF ViewInv, ViewTypes
<1>4. ViewTypes'
  BY <1>1, <1>2, <1>3 DEF ViewInv, ViewTypes, Loads
<1>5. Owners'
  BY <1>1, <1>2, <1>3 DEF ViewInv, Owners, Owns
<1>6. r.pc = "rows" =>
        /\ ViewOf[l] \in Shared /\ flight[ViewOf[l]] => r.raced
        /\ ~r.raced => ~r.fails /\ rows[ViewOf[l]] = r.got
        /\ l = BoardLoader => rows[Board] # NoRows \/ rowsLate[Board]
  BY <1>1, <1>2 DEF ViewInv, Outcomes, Outcome, BoardInv, Loads
<1> QED
  BY <1>1, <1>2, <1>4, <1>5, <1>6, LoadMoves DEF ViewInv, ViewTypes

LEMMA ReadRowsStep ==
  ASSUME ViewInv, NEW l \in Loader, ReadRows(l)
  PROVE  ViewInv'
<1> DEFINE value == IF rows[Board] = NoRows THEN NoRecord ELSE rows[Board]
           r == IF l = BoardLoader THEN [load[l] EXCEPT !.pc = "assign", !.got = value]
                ELSE NoLoad
<1> USE LoaderViews
<1>1. /\ load[l].pc = "rows" /\ load[l] \in Load /\ load' = [load EXCEPT ![l] = r]
      /\ UNCHANGED <<version, rows, flight, failed, loading, boardError, newest, rowsDue,
                     rowsLate>>
  BY DEF ReadRows, cacheVars, ViewInv, ViewTypes, Loads
<1>2. value \in Value
  BY DEF ViewInv, ViewTypes, Value
<1>3. /\ r \in Load /\ r.pc \in {"idle", "assign"}
      /\ r.pc = "assign" => l = BoardLoader /\ r.got = value
  BY <1>1, <1>2, NoLoadTyped DEF Load
<1>4. l = BoardLoader => /\ value \in Nat /\ value < rowsDue[Board] => rowsLate[Board]
                         /\ value = NoRecord => rowsLate[Board]
  BY <1>1 DEF ViewInv, BoardInv, Ages, Loads
<1> HIDE DEF r, value
<1>5. \A m \in Loader : load'[m] = IF m = l THEN r ELSE load[m]
  BY <1>1 DEF ViewInv, ViewTypes
<1>6. ViewTypes'
  BY <1>1, <1>3, <1>5 DEF ViewInv, ViewTypes, Loads
<1>7. Owners'
  BY <1>1, <1>3, <1>5 DEF ViewInv, Owners, Owns
<1> QED
  BY <1>1, <1>2, <1>3, <1>4, <1>6, <1>7, LoadMoves DEF ViewInv, ViewTypes

LEMMA BeginBoardStep ==
  ASSUME ViewInv, BeginBoard
  PROVE  ViewInv'
<1> DEFINE r == [NoLoad EXCEPT !.pc = "assign", !.got = rows[Board]]
<1> USE LoaderViews
<1>1. /\ Loads(BoardLoader, "idle") /\ loading'
      /\ UNCHANGED <<version, rows, boardError, newest, rowsDue, rowsLate>>
  BY DEF BeginBoard, ViewInv, BoardInv
<1>2. CASE rows[Board] # NoRows
  <2>1. load' = [load EXCEPT ![BoardLoader] = r] /\ UNCHANGED <<flight, failed>>
    BY <1>2 DEF BeginBoard
  <2>2. rows[Board] \in Value
    BY <1>2 DEF ViewInv, ViewTypes
  <2>3. r \in Load /\ r.pc = "assign" /\ r.got = rows[Board]
    BY <2>2, NoLoadTyped
  <2> HIDE DEF r
  <2>4. \A m \in Loader : load'[m] = IF m = BoardLoader THEN r ELSE load[m]
    BY <2>1 DEF ViewInv, ViewTypes
  <2>5. ViewTypes'
    BY <1>1, <2>1, <2>3, <2>4 DEF ViewInv, ViewTypes, Loads, BeginBoard
  <2>6. Owners'
    BY <1>1, <2>1, <2>3, <2>4 DEF ViewInv, Owners, Owns
  <2>7. Outcomes'
    BY <1>1, <2>1, <2>3, <2>4 DEF ViewInv, Outcomes, Outcome, Loads
  <2>8. BoardInv'
    BY <1>1, <2>1, <2>2, <2>3, <2>4 DEF ViewInv, Ages, BoardInv, Loads
  <2>9. Ages'
    BY <1>1, <2>1, <2>3, <2>4 DEF ViewInv, Ages, Loads
  <2> QED
    BY <2>5, <2>6, <2>7, <2>8, <2>9 DEF ViewInv
<1>3. CASE rows[Board] = NoRows
  <2>1. Enter(BoardLoader) /\ loading' \in BOOLEAN
    BY <1>3 DEF BeginBoard
  <2> QED
    BY <1>1, <2>1, EnterStep
<1> QED
  BY <1>2, <1>3

LEMMA AssignRowsStep ==
  ASSUME ViewInv, AssignRows
  PROVE  ViewInv'
<1> DEFINE b == BoardLoader
<1> USE LoaderViews
<1>1. /\ load[b].pc = "assign" /\ load[b].got \in Value /\ load[b] \in Load
      /\ rows' = [rows EXCEPT ![Board] = load[b].got]
      /\ newest' = newest
      /\ load' = [load EXCEPT ![b] = NoLoad]
      /\ UNCHANGED <<version, flight, failed, loading, boardError, rowsDue, rowsLate>>
  BY DEF AssignRows, Keep, cacheVars, ViewInv, ViewTypes, BoardInv, Loads
<1>2. /\ \A m \in Loader \ {b} : load'[m] = load[m]
      /\ load'[b] = NoLoad /\ load'[b].pc = "idle"
  BY <1>1, NoLoadTyped DEF ViewInv, ViewTypes
<1>3. \A w \in View : rows'[w] = IF w = Board THEN load[b].got ELSE rows[w]
  BY <1>1 DEF ViewInv, ViewTypes
<1>4. ViewTypes'
  <2>1. rows' \in [View -> Value \union {NoRows}]
    BY <1>1 DEF ViewInv, ViewTypes
  <2> QED
    BY <1>1, <1>2, <2>1, NoLoadTyped DEF ViewInv, ViewTypes, Loads
<1>5. Owners'
  BY <1>1, <1>2 DEF ViewInv, Owners, Owns
<1>6. Outcomes'
  <2>1. ASSUME NEW m \in Loader \ {b} PROVE Outcome(m)'
    <3>1. Outcome(m) /\ load'[m] = load[m] /\ ViewOf[m] # Board
      BY <1>2 DEF ViewInv, Outcomes
    <3>2. rows'[ViewOf[m]] = rows[ViewOf[m]]
      BY <1>3, <3>1
    <3> QED
      BY <1>1, <3>1, <3>2 DEF Outcome, Loads
  <2>2. Outcome(b)'
    BY <1>2 DEF Outcome, Loads
  <2> QED
    BY <2>1, <2>2 DEF Outcomes
<1>7. BoardInv'
  BY <1>1, <1>2 DEF ViewInv, BoardInv, Loads
<1>8. Ages'
  <2>1. /\ load[b].got \in Nat /\ load[b].got < rowsDue[Board] => rowsLate[Board]
        /\ load[b].got = NoRecord => rowsLate[Board]
    BY <1>1 DEF ViewInv, BoardInv, Loads
  <2>2. \A v \in View : /\ rowsDue'[v] <= version'[Complaints]
                        /\ rows'[v] \in Nat /\ rows'[v] < rowsDue'[v] => rowsLate'[v]
                        /\ rows'[v] = NoRecord => rowsLate'[v]
    BY <1>1, <1>3, <2>1 DEF ViewInv, Ages
  <2>3. \A m \in Loader : Loads(m, "store")' => Loads(m, "store") /\ load'[m] = load[m]
    BY <1>2 DEF Loads
  <2> QED
    BY <1>1, <2>2, <2>3 DEF ViewInv, Ages
<1> QED
  BY <1>4, <1>5, <1>6, <1>7, <1>8 DEF ViewInv

LEMMA EndBoardStep ==
  ASSUME ViewInv, EndBoard
  PROVE  ViewInv'
<1>1. /\ Loads(BoardLoader, "idle") /\ loading' = FALSE
      /\ UNCHANGED <<version, rows, flight, failed, load, boardError, newest, rowsDue, rowsLate>>
  BY DEF EndBoard, cacheVars
<1> QED
  BY <1>1 DEF ViewInv, ViewTypes, Owners, Owns, Outcomes, Outcome, BoardInv, Ages, Loads

LEMMA RetryStep ==
  ASSUME ViewInv, Retry
  PROVE  ViewInv'
<1> USE LoaderViews
<1>1. /\ rows' = [rows EXCEPT ![Board] = NoRows] /\ boardError' = FALSE
      /\ load[BoardLoader].pc = "idle"
      /\ UNCHANGED <<version, flight, failed, load, loading, newest, rowsDue, rowsLate>>
  BY DEF Retry, cacheVars, ViewInv, BoardInv, Loads
<1>2. \A w \in View : rows'[w] = IF w = Board THEN NoRows ELSE rows[w]
  BY <1>1 DEF ViewInv, ViewTypes
<1>3. ViewTypes'
  BY <1>1 DEF ViewInv, ViewTypes, Loads
<1>4. Owners' /\ BoardInv'
  BY <1>1 DEF ViewInv, Owners, Owns, BoardInv, Loads
<1>5. Outcomes'
  <2>1. ASSUME NEW m \in Loader PROVE Outcome(m)'
    <3>1. Outcome(m)
      BY DEF ViewInv, Outcomes
    <3>2. m # BoardLoader => rows'[ViewOf[m]] = rows[ViewOf[m]]
      BY <1>2
    <3> QED
      BY <1>1, <3>1, <3>2 DEF Outcome, Loads
  <2> QED
    BY <2>1 DEF Outcomes
<1>6. Ages'
  BY <1>1, <1>2 DEF ViewInv, Ages, Loads
<1> QED
  BY <1>3, <1>4, <1>5, <1>6 DEF ViewInv

LEMMA RefreshStep ==
  ASSUME CacheInv, ViewInv, NEW c \in Caller, Refresh(c)
  PROVE  ViewInv'
<1> DEFINE F == Concerned(c)
           who == UNION {Reading(v) : v \in F}
<1> USE LoaderViews
<1>1. F \in SUBSET View
  BY SharedFetchAssumption DEF Concerned
<1>2. /\ rows' = [v \in View |-> IF v \in F THEN NoRows ELSE rows[v]]
      /\ rowsDue' = [v \in View |-> IF v \in F THEN version[Complaints] ELSE rowsDue[v]]
      /\ rowsLate' = [v \in View |-> IF v \in F THEN RowsStraggler(v) ELSE rowsLate[v]]
      /\ load' = Raced(load, who)
      /\ UNCHANGED <<version, flight, failed, loading, boardError, newest>>
  BY DEF Refresh, Told, Forgotten
<1>3. \A v \in View : Reading(v) \in SUBSET Loader
  BY DEF Reading
<1>4. who \in SUBSET Loader
  BY <1>1, <1>3
<1>5. load' \in [Loader -> Load]
  BY <1>2, <1>4, RacedMarks DEF ViewInv, ViewTypes
<1>6. \A m \in Loader : /\ load'[m].pc = load[m].pc /\ load'[m].got = load[m].got
                        /\ load'[m].fails = load[m].fails
                        /\ load'[m].raced = (load[m].raced \/ m \in who)
  BY <1>2, <1>4, RacedMarks DEF ViewInv, ViewTypes
<1>7. version[Complaints] \in Nat
  BY DEF CacheInv, CacheTypeOK
<1> HIDE DEF F
<1>8. \A v \in View : RowsStraggler(v) \in BOOLEAN
  BY DEF RowsStraggler
<1>9. ViewTypes'
  <2>1. rows' \in [View -> Value \union {NoRows}]
    BY <1>2 DEF ViewInv, ViewTypes
  <2>2. rowsDue' \in [View -> Nat] /\ rowsLate' \in [View -> BOOLEAN]
    BY <1>2, <1>7, <1>8 DEF ViewInv, ViewTypes
  <2> QED
    BY <1>2, <1>5, <1>6, <2>1, <2>2 DEF ViewInv, ViewTypes, Loads
<1>10. Owners'
  BY <1>2, <1>6 DEF ViewInv, Owners, Owns
<1>11. Outcomes'
  <2>1. ASSUME NEW m \in Loader PROVE Outcome(m)'
    <3>1. Outcome(m)
      BY DEF ViewInv, Outcomes
    <3>2. CASE ViewOf[m] \in F
      <4>1. load[m].pc \in {"signal", "flag", "rows"} => m \in who
        BY <3>2 DEF Reading
      <4> HIDE DEF who
      <4> QED
        BY <1>2, <1>6, <3>1, <4>1 DEF Outcome, Loads
    <3>3. CASE ViewOf[m] \notin F
      <4>1. rows'[ViewOf[m]] = rows[ViewOf[m]]
        BY <1>2, <3>3
      <4> HIDE DEF who
      <4> QED
        BY <1>2, <1>6, <3>1, <4>1 DEF Outcome, Loads
    <3> QED
      BY <3>2, <3>3
  <2> QED
    BY <2>1 DEF Outcomes
<1>12. BoardInv'
  <2>1. CASE Board \in F
    <3>1. load[BoardLoader].pc \in {"signal", "flag", "rows", "assign"} => rowsLate'[Board]
      BY <1>2, <2>1 DEF RowsStraggler
    <3> QED
      BY <1>2, <1>6, <3>1 DEF ViewInv, BoardInv, Loads
  <2>2. CASE Board \notin F
    <3>1. /\ rows'[Board] = rows[Board] /\ rowsDue'[Board] = rowsDue[Board]
          /\ rowsLate'[Board] = rowsLate[Board]
      BY <1>2, <2>2
    <3> QED
      BY <1>2, <1>6, <3>1 DEF ViewInv, BoardInv, Loads
  <2> QED
    BY <2>1, <2>2
<1>13. Ages'
  <2>1. \A v \in View : /\ rowsDue'[v] <= version'[Complaints]
                        /\ rows'[v] \in Nat /\ rows'[v] < rowsDue'[v] => rowsLate'[v]
                        /\ rows'[v] = NoRecord => rowsLate'[v]
    BY <1>2, <1>7 DEF ViewInv, Ages
  <2>2. newest' <= version'[Complaints]
    BY <1>2 DEF ViewInv, Ages
  <2>3. ASSUME NEW m \in Loader, Loads(m, "store")'
        PROVE  /\ load'[m].got <= version'[Complaints]
               /\ load'[m].got < rowsDue'[ViewOf[m]] => rowsLate'[ViewOf[m]]
               /\ ViewOf[m] = Mine => newest' <= load'[m].got
    <3>1. Loads(m, "store") /\ load'[m].got = load[m].got
      BY <1>6, <2>3 DEF Loads
    <3>2. CASE ViewOf[m] \in F
      BY <1>2, <3>1, <3>2 DEF ViewInv, Ages, RowsStraggler
    <3>3. CASE ViewOf[m] \notin F
      BY <1>2, <3>1, <3>3 DEF ViewInv, Ages
    <3> QED
      BY <3>2, <3>3
  <2> QED
    BY <2>1, <2>2, <2>3 DEF Ages
<1> QED
  BY <1>9, <1>10, <1>11, <1>12, <1>13 DEF ViewInv

\* A call of the services moves no other, and keeps its key until it ends.
LEMMA CallKeepsKey ==
  ASSUME CacheInv, NEW c \in Caller,
         \/ Fetch(c) \/ FetchFails(c) \/ Store(c) \/ Answer(c) \/ Verified(c)
         \/ Write(c) \/ WriteRaises(c) \/ Drop(c) \/ Told(c)
  PROVE  /\ \A d \in Caller \ {c} : call'[d] = call[d]
         /\ \/ call'[c].pc = "idle"
            \/ call'[c].key = call[c].key /\ ~At(c, "idle")
<1>1. call \in [Caller -> Call]
  BY DEF CacheInv, CacheTypeOK
<1>2. ASSUME call' = [call EXCEPT ![c] = NoCall]
      PROVE  (\A d \in Caller \ {c} : call'[d] = call[d]) /\ call'[c].pc = "idle"
  <2>1. call'[c] = NoCall /\ \A d \in Caller \ {c} : call'[d] = call[d]
    BY <1>1, <1>2
  <2> QED
    BY <2>1, NoCallTyped
<1>3. ASSUME NEW step, call' = [call EXCEPT ![c].pc = step]
      PROVE  /\ \A d \in Caller \ {c} : call'[d] = call[d]
             /\ call'[c].key = call[c].key
  BY <1>1, <1>3 DEF Call
<1>4. ASSUME NEW got, call' = [call EXCEPT ![c].pc = "store", ![c].got = got]
      PROVE  /\ \A d \in Caller \ {c} : call'[d] = call[d]
             /\ call'[c].key = call[c].key
  BY <1>1, <1>4 DEF Call
<1>5. ~At(c, "idle")
  BY DEF Fetch, FetchFails, Store, Answer, Verified, Write, WriteRaises, Drop, Told, At
<1>6. CASE Verified(c)
  <2>1. call[c].key \in Key
    BY <1>1 DEF Call
  <2> QED
    BY <1>5, <1>6, <2>1, LookMoves DEF Verified
<1> QED
  BY <1>2, <1>3, <1>4, <1>5, <1>6 DEF Fetch, FetchFails, Store, Answer, Write, WriteRaises, Drop,
                                Told, Goto, End

\* The metrics, while metrics stay or are those of the finished caller.
LEMMA MetricsStay ==
  ASSUME CacheInv, MetricsInv, metrics' = metrics, NEW c \in Caller,
         \/ Fetch(c) \/ FetchFails(c) \/ Store(c) \/ Answer(c) \/ Verified(c)
         \/ Write(c) \/ WriteRaises(c) \/ Drop(c) \/ Told(c)
  PROVE  MetricsInv'
BY CallKeepsKey, LoaderViews DEF MetricsInv, At

LEMMA FetchStepInv ==
  ASSUME FetchInv, [Next]_vars
  PROVE  FetchInv'
<1> USE LoaderViews
<1>1. CacheInv /\ ViewInv /\ MetricsInv /\ open \in Crews /\ begun \in 0..MaxLoads
  BY DEF FetchInv
<1>2. version[Complaints] \in Nat
  BY <1>1 DEF CacheInv, CacheTypeOK
<1>3. boardError \in BOOLEAN /\ loading \in BOOLEAN
  BY <1>1 DEF ViewInv, ViewTypes
<1> DEFINE Done == CacheInv' /\ ViewInv' /\ MetricsInv'
<1>4. UNCHANGED cacheVars => /\ CacheInv'
                             /\ metrics' = metrics => MetricsInv'
  BY <1>1, CacheStepInv DEF CacheStep, MetricsInv, cacheVars, At
<1>5. ASSUME CacheStep, boardError' \in BOOLEAN,
             UNCHANGED <<rows, flight, failed, load, loading, newest, rowsDue, rowsLate>>
      PROVE  CacheInv' /\ ViewInv'
  <2>1. CacheInv' /\ \A t \in Table : version'[t] \in Nat /\ version[t] <= version'[t]
    BY <1>1, <1>5, CacheStepInv
  <2> QED
    BY <1>1, <1>2, <1>5, <2>1, CacheStepView
<1>6. ASSUME NEW l \in Loader, LoadStep(l) \/ FetchRowsFails(l) PROVE Done
  <2>1. UNCHANGED <<cacheVars, metrics>>
    BY <1>6 DEF LoadStep, FetchRows, StoreRows, Signal, ReadFlag, ReadRows, FetchRowsFails
  <2>2. ViewInv'
    BY <1>1, <1>2, <1>6, FetchRowsStep, StoreRowsStep, SignalStep, ReadFlagStep, ReadRowsStep,
       FetchRowsFailsStep DEF LoadStep
  <2> QED
    BY <1>4, <2>1, <2>2
<1>7. ASSUME NEW c \in Caller, CallStep(c) \/ CallFails(c) PROVE Done
  <2>1. CASE Refresh(c)
    <3>1. CacheStep /\ Told(c) /\ metrics' = metrics
      BY <2>1 DEF Refresh, CacheStep
    <3> QED
      BY <1>1, <2>1, <3>1, CacheStepInv, RefreshStep, MetricsStay
  <2>2. CASE /\ Fetch(c) \/ FetchFails(c) \/ Store(c) \/ Answer(c) \/ Verified(c) \/ Write(c)
                \/ WriteRaises(c) \/ Drop(c)
             /\ UNCHANGED viewVars
    <3>1. CacheStep
      BY <2>2 DEF CacheStep
    <3>2. CacheInv' /\ ViewInv'
      BY <1>3, <1>5, <2>2, <3>1 DEF viewVars
    <3>3. MetricsInv'
      BY <1>1, <2>2, MetricsStay DEF viewVars
    <3> QED
      BY <3>2, <3>3
  <2> QED
    BY <1>7, <2>1, <2>2 DEF CallStep, CallFails
<1>8. ASSUME AssignRows \/ EndBoard \/ Retry PROVE Done
  <2>1. ViewInv'
    BY <1>1, <1>8, AssignRowsStep, EndBoardStep, RetryStep
  <2>2. UNCHANGED cacheVars
    BY <1>8 DEF AssignRows, EndBoard, Retry
  <2>3. MetricsInv'
    BY <1>1, <1>8, <2>2 DEF AssignRows, EndBoard, Retry, MetricsInv, cacheVars, At
  <2> QED
    BY <1>4, <2>1, <2>2, <2>3
<1>9. ASSUME AssignMetrics PROVE Done
  <2>1. CacheStep /\ Answer(BoardCaller)
    BY <1>9 DEF AssignMetrics, CacheStep
  <2>2. CacheInv' /\ ViewInv'
    BY <1>3, <1>5, <1>9, <2>1 DEF AssignMetrics
  <2>3. metrics' \in Nat
    <3>1. call[BoardCaller].key = Metrics /\ call[BoardCaller] \in Call
      BY <1>1, <1>9 DEF AssignMetrics, MetricsInv, At, CacheInv, CacheTypeOK
    <3>2. call[BoardCaller].got # NoRecord
      BY <1>1, <1>9, <3>1, SharedFetchAssumption DEF AssignMetrics, CacheInv, At
    <3> QED
      BY <1>9, <3>1, <3>2 DEF AssignMetrics, Call, Value
  <2>4. ~At(BoardCaller, "idle")' => call'[BoardCaller].key = Metrics
    BY <1>1, <2>1, CallKeepsKey DEF MetricsInv, At
  <2> QED
    BY <2>2, <2>3, <2>4 DEF MetricsInv
<1>10. ASSUME MetricsFail PROVE Done
  <2>1. CacheStep /\ FetchFails(BoardCaller) /\ metrics' = metrics
    BY <1>10 DEF MetricsFail, CacheStep
  <2>2. CacheInv' /\ ViewInv'
    BY <1>5, <1>10, <2>1 DEF MetricsFail
  <2> QED
    BY <1>1, <2>1, <2>2, MetricsStay
<1>11. ASSUME NEW k \in Key, Expire(k), UNCHANGED viewVars PROVE Done
  <2>1. CacheStep
    BY <1>11 DEF CacheStep
  <2> QED
    BY <1>1, <1>3, <1>5, <1>11, <2>1 DEF viewVars, Expire, MetricsInv, At
<1>12. ASSUME NEW l \in Loader, NEW force \in BOOLEAN, BeginLoad(l, force) PROVE Done
  <2>1. ViewInv'
    BY <1>1, <1>3, <1>12, EnterStep DEF BeginLoad, cacheVars
  <2> QED
    BY <1>4, <1>12, <2>1 DEF BeginLoad
<1>13. ASSUME NEW c \in Caller, BeginCall(c) PROVE Done
  <2>1. PICK k \in Key : BeginRead(c, k) \/ BeginCheckedWrite(c, k) \/ BeginWrite(c, k)
    BY <1>13, SharedFetchAssumption DEF BeginCall
  <2>2. CacheStep
    BY <2>1 DEF CacheStep
  <2>3. call'[BoardCaller] = call[BoardCaller] /\ metrics' = metrics
    BY <1>1, <1>13, <2>1 DEF BeginCall, BeginRead, BeginCheckedWrite, BeginWrite, Look,
                             viewVars, CacheInv, CacheTypeOK
  <2> QED
    BY <1>1, <1>3, <1>5, <1>13, <2>2, <2>3 DEF BeginCall, viewVars, MetricsInv, At
<1>14. ASSUME BeginBoard PROVE Done
  <2>1. BeginRead(BoardCaller, Metrics) /\ Metrics \in Key /\ metrics' = metrics
    BY <1>14, SharedFetchAssumption DEF BeginBoard, BeginRead
  <2>2. CacheInv' /\ call'[BoardCaller].key = Metrics
    BY <1>1, <2>1, LookMoves DEF BeginRead
  <2> QED
    BY <1>1, <1>14, <2>1, <2>2, BeginBoardStep DEF MetricsInv
<1>15. ASSUME UNCHANGED vars PROVE FetchInv'
  <2>1. CacheStep /\ UNCHANGED <<viewVars, open, begun>>
    BY <1>15 DEF CacheStep, vars
  <2> QED
    BY <1>1, <1>3, <1>4, <1>5, <1>15, <2>1 DEF vars, viewVars, FetchInv
<1>16. Next => Done
  BY <1>6, <1>7, <1>8, <1>9, <1>10, <1>11, <1>12, <1>13, <1>14 DEF Next, Work, Begin
<1>17. Next => open' \in Crews /\ begun' \in 0..MaxLoads
  BY <1>1, SharedFetchAssumption DEF Next
<1> QED
  BY <1>15, <1>16, <1>17 DEF FetchInv

THEOREM FetchInductive == Spec => []FetchInv
<1>1. Init => FetchInv
  BY FetchInitially
<1>2. FetchInv /\ [Next]_vars => FetchInv'
  BY FetchStepInv
<1> QED
  BY <1>1, <1>2, PTL DEF Spec

-----------------------------------------------------------------------------
(***************************************************************************)
(* What follows.                                                           *)
(***************************************************************************)

\* Types: in particular the dashboard's metrics are never a failure.
THEOREM FetchTypeCorrect == Spec => []TypeOK
<1>1. FetchInv => TypeOK
  BY DEF FetchInv, CacheInv, ViewInv, ViewTypes, MetricsInv, TypeOK
<1> QED
  BY <1>1, FetchInductive, PTL

\* Whatever threads read, store, forget and drop, a list or an entry is stale
\* only if a thread was about to store it when its session was told.
THEOREM StaleOnlyIfLateTheorem == Spec => []StaleOnlyIfLate
<1>1. FetchInv => StaleOnlyIfLate
  BY DEF FetchInv, CacheInv, ViewInv, Ages, StaleOnlyIfLate, EntriesCurrent
<1> QED
  BY <1>1, FetchInductive, PTL

\* A thread that was not raced answers with the outcome of its own fetch.
THEOREM HonestAnswerTheorem == Spec => []HonestAnswer
<1>1. FetchInv => HonestAnswer
  BY DEF FetchInv, ViewInv, Outcomes, Outcome, HonestAnswer
<1> QED
  BY <1>1, FetchInductive, PTL

\* What the view keeps of the student's list implements OrderedRows: every
\* replacement is by what the table held since the last one.
THEOREM InOrderTheorem == Spec => InOrder
<1> USE LoaderViews
<1>1. Init => RowsOrder!OrderedInit
  BY DEF Init, CacheInit, RowsOrder!OrderedInit
<1>2. ASSUME FetchInv, [Next]_vars
      PROVE  [RowsOrder!OrderedNext]_(RowsOrder!orderedVars)
  <2> USE DEF RowsOrder!OrderedNext, RowsOrder!orderedVars, RowsOrder!Forget,
              RowsOrder!Replace, RowsOrder!TableWritten
  <2>1. /\ rows \in [View -> Value \union {NoRows}]
        /\ version \in [Table -> Nat] /\ call \in [Caller -> Call]
        /\ newest \in Nat
    BY <1>2 DEF FetchInv, ViewInv, ViewTypes, CacheInv, CacheTypeOK
  <2> DEFINE Same == /\ version'[Complaints] = version[Complaints]
                     /\ rows'[Mine] = rows[Mine] /\ newest' = newest
  <2>2. Same => UNCHANGED RowsOrder!orderedVars
    OBVIOUS
  <2>3. ASSUME NEW l \in Loader, StoreRows(l), ViewOf[l] = Mine
        PROVE  /\ newest <= load[l].got /\ load[l].got <= version[Complaints]
               /\ load[l].got \in Nat
               /\ rows'[Mine] = load[l].got /\ newest' = load[l].got /\ version' = version
    BY <1>2, <2>1, <2>3 DEF FetchInv, ViewInv, ViewTypes, Ages, StoreRows, Keep, cacheVars,
                           Loads
  <2>4. ASSUME NEW l \in Loader, StoreRows(l), ViewOf[l] # Mine PROVE Same
    BY <2>1, <2>4 DEF StoreRows, Keep, cacheVars
  <2>5. ASSUME NEW l \in Loader,
               FetchRows(l) \/ Signal(l) \/ ReadFlag(l) \/ ReadRows(l) \/ FetchRowsFails(l)
        PROVE  Same
    BY <2>5 DEF FetchRows, Signal, ReadFlag, ReadRows, FetchRowsFails, cacheVars
  <2>6. ASSUME NEW c \in Caller, Refresh(c)
        PROVE  version' = version /\ newest' = newest /\ rows'[Mine] \in {rows[Mine], NoRows}
    BY <2>1, <2>6 DEF Refresh, Told
  <2>7. ASSUME NEW c \in Caller, UNCHANGED viewVars, Write(c)
        PROVE  /\ rows'[Mine] = rows[Mine] /\ newest' = newest
               /\ version'[Complaints] \in {version[Complaints], version[Complaints] + 1}
    BY <2>1, <2>7 DEF Write, viewVars
  <2>8. ASSUME NEW c \in Caller, UNCHANGED viewVars,
               \/ Fetch(c) \/ Store(c) \/ Drop(c) \/ Answer(c) \/ Verified(c)
               \/ FetchFails(c) \/ WriteRaises(c)
        PROVE  Same
    BY <2>8 DEF Fetch, Store, Drop, Answer, Verified, FetchFails, WriteRaises, viewVars
  <2>9. AssignRows => Same
    BY <2>1 DEF AssignRows, Keep, cacheVars
  <2>10. AssignMetrics \/ MetricsFail \/ EndBoard => Same
    BY DEF AssignMetrics, MetricsFail, EndBoard, Answer, FetchFails, cacheVars
  <2>11. Retry => Same
    BY <2>1 DEF Retry, cacheVars
  <2>12. ASSUME NEW k \in Key, Expire(k), UNCHANGED viewVars PROVE Same
    BY <2>12 DEF Expire, viewVars
  <2>13. Begin => Same
    BY DEF Begin, BeginLoad, BeginCall, BeginBoard, BeginWrite, BeginRead, BeginCheckedWrite,
           viewVars, cacheVars
  <2>14. UNCHANGED vars => Same
    BY DEF vars, viewVars, cacheVars
  <2>15. ASSUME NEW l \in Loader, LoadStep(l) \/ FetchRowsFails(l)
         PROVE  RowsOrder!OrderedNext \/ Same
    BY <2>3, <2>4, <2>5, <2>15 DEF LoadStep
  <2>16. ASSUME NEW c \in Caller, CallStep(c) \/ CallFails(c)
         PROVE  RowsOrder!OrderedNext \/ Same
    <3>1. CASE Refresh(c)
      BY <2>6, <3>1
    <3>2. CASE UNCHANGED viewVars /\ Write(c)
      BY <2>7, <3>2
    <3> QED
      BY <2>8, <2>16, <3>1, <3>2 DEF CallStep, CallFails
  <2>17. Next => RowsOrder!OrderedNext \/ Same
    BY <2>9, <2>10, <2>11, <2>12, <2>13, <2>15, <2>16 DEF Next, Work
  <2> QED
    BY <1>2, <2>2, <2>14, <2>17
<1> QED
  BY <1>1, <1>2, FetchInductive, PTL DEF Spec, InOrder, RowsOrder!OrderedSpec
=============================================================================
