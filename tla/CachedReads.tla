---------------------------- MODULE CachedReads ----------------------------
(***************************************************************************)
(* The tables of services/cache_service.py that answer for the database:   *)
(* dashboard metrics, department breakdown, security codes.  One lock      *)
(* guards each access, and none is held across the request that fills an   *)
(* entry: a reader looks, asks the database and stores, three steps, and a *)
(* writer writes and drops the entries, two.                               *)
(*                                                                         *)
(* A table of the database is the number of its writes, an entry the       *)
(* number its reader saw.  Expiry may strike at any moment, since only the *)
(* order of an entry's steps matters and not their dates.                  *)
(***************************************************************************)
EXTENDS Naturals, FiniteSets

CONSTANTS
  Table,         \* tables of the database
  Key,           \* entries of the cache
  TableOf,       \* TableOf[k]: the table entry k is computed from
  FailureStored, \* keys whose reader stores that it found nothing when its request failed
  Checked,       \* tables whose writer first reads, through the cache, what it replaces
  Caller,        \* threads that run a service method
  NoEntry,
  NoRecord,      \* the empty value: None, or a breakdown of zeros
  MaxVersion     \* bound: writes of a table

ASSUME CachedReadsAssumption ==
  /\ Key # {}
  /\ TableOf \in [Key -> Table]
  /\ FailureStored \subseteq Key
  /\ NoEntry \notin Nat
  /\ NoRecord \notin Nat
  /\ NoEntry # NoRecord
  /\ MaxVersion \in Nat

VARIABLES
  version, \* version[t]: how often table t was written
  entry,   \* entry[k]: what the cache answers
  call,    \* the thread's local variables
  due,     \* ghost: due[k], the version when entry k was last dropped
  late     \* ghost: late[k], a reader of k was about to store an older one then

cacheVars == <<version, entry, call, due, late>>

Version == Nat
Value == Version \union {NoRecord}

Call == [pc: {"idle", "fetch", "store", "answer", "write", "drop", "told"},
         key: Key, got: Value,
         aim: {"read", "verify", "replace"}]  \* what the look-up is for

NoCall == [pc |-> "idle", key |-> CHOOSE k \in Key : TRUE, got |-> NoRecord, aim |-> "read"]

CacheTypeOK ==
  /\ version \in [Table -> Version]
  /\ entry \in [Key -> Value \union {NoEntry}]
  /\ call \in [Caller -> Call]
  /\ due \in [Key -> Version]
  /\ late \in [Key -> BOOLEAN]

CacheInit ==
  /\ version = [t \in Table |-> 0]
  /\ entry = [k \in Key |-> NoEntry]
  /\ call = [c \in Caller |-> NoCall]
  /\ due = [k \in Key |-> 0]
  /\ late = [k \in Key |-> FALSE]

At(c, step) == call[c].pc = step

Goto(c, step) == call' = [call EXCEPT ![c].pc = step]

End(c) == call' = [call EXCEPT ![c] = NoCall]

Tabled(c) == TableOf[call[c].key]

(***************************************************************************)
(* Reading through the cache.                                              *)
(***************************************************************************)

\* The look-up: a hit answers at once.
Look(c, k, aim) ==
  call' = [call EXCEPT ![c] =
             IF entry[k] # NoEntry
             THEN [pc |-> "answer", key |-> k, got |-> entry[k], aim |-> aim]
             ELSE [pc |-> "fetch", key |-> k, got |-> NoRecord, aim |-> aim]]

BeginRead(c, k) ==
  /\ At(c, "idle")
  /\ Look(c, k, "read")
  /\ UNCHANGED <<version, entry, due, late>>

\* The bound: calls under way count.
MayWrite(t) ==
  version[t] + Cardinality({d \in Caller : call[d].aim # "read" /\ Tabled(d) = t})
    < MaxVersion

\* update_security_code: who replaces a code of his own has the old one verified
\* first, who is above its holder has not.
BeginCheckedWrite(c, k) ==
  /\ At(c, "idle")
  /\ TableOf[k] \in Checked
  /\ MayWrite(TableOf[k])
  /\ \E aim \in {"verify", "replace"} : Look(c, k, aim)
  /\ UNCHANGED <<version, entry, due, late>>

\* The request of the reader.
Fetch(c) ==
  /\ At(c, "fetch")
  /\ call' = [call EXCEPT ![c].pc = "store", ![c].got = version[Tabled(c)]]
  /\ UNCHANGED <<version, entry, due, late>>

\* It raised: metrics say so to their caller, the others go on with nothing.
FetchFails(c) ==
  /\ At(c, "fetch")
  /\ IF call[c].key \in FailureStored
     THEN call' = [call EXCEPT ![c].pc = "store", ![c].got = NoRecord]
     ELSE End(c)
  /\ UNCHANGED <<version, entry, due, late>>

\* set_cached_...: whatever happened since the request.
Store(c) ==
  /\ At(c, "store")
  /\ entry' = [entry EXCEPT ![call[c].key] = call[c].got]
  /\ Goto(c, "answer")
  /\ UNCHANGED <<version, due, late>>

\* A reader has its answer, and a code that does not match, or of which there is
\* no record, is refused.  Who has found what to replace writes: an UPDATE of the
\* record, or without one an INSERT, which the table takes where the code is kept
\* under another role (the Library's under HOD) and otherwise refuses (WriteRaises).
Answer(c) ==
  /\ At(c, "answer")
  /\ IF call[c].aim = "replace" THEN Goto(c, "write") ELSE End(c)
  /\ UNCHANGED <<version, entry, due, late>>

\* The old code matches the record it was held against, however old that is; the
\* record to replace is a look-up of its own.
Verified(c) ==
  /\ At(c, "answer")
  /\ call[c].aim = "verify"
  /\ call[c].got # NoRecord
  /\ Look(c, call[c].key, "replace")
  /\ UNCHANGED <<version, entry, due, late>>

\* Ten minutes, one minute.
Expire(k) ==
  /\ entry[k] # NoEntry
  /\ entry' = [entry EXCEPT ![k] = NoEntry]
  /\ UNCHANGED <<version, call, due, late>>

(***************************************************************************)
(* Writing and dropping.                                                   *)
(***************************************************************************)

BeginWrite(c, k) ==
  /\ At(c, "idle")
  /\ TableOf[k] \notin Checked
  /\ MayWrite(TableOf[k])
  /\ call' = [call EXCEPT ![c] = [pc |-> "write", key |-> k, got |-> NoRecord, aim |-> "replace"]]
  /\ UNCHANGED <<version, entry, due, late>>

Write(c) ==
  /\ At(c, "write")
  /\ version' = [version EXCEPT ![Tabled(c)] = @ + 1]
  /\ Goto(c, "drop")
  /\ UNCHANGED <<entry, due, late>>

\* A request raised, before the write or between it and the invalidation that
\* ends the method.
WriteRaises(c) ==
  /\ call[c].pc \in {"write", "drop"}
  /\ End(c)
  /\ UNCHANGED <<version, entry, due, late>>

Dropped(t) == {k \in Key : TableOf[k] = t}

\* A reader of k that will store what it saw before the last write.
Straggler(k) ==
  \E c \in Caller : /\ At(c, "store")
                    /\ call[c].key = k
                    /\ call[c].got \in Version
                    /\ call[c].got < version[TableOf[k]]

Drop(c) ==
  /\ At(c, "drop")
  /\ entry' = [k \in Key |-> IF k \in Dropped(Tabled(c)) THEN NoEntry ELSE entry[k]]
  /\ due' = [k \in Key |-> IF k \in Dropped(Tabled(c)) THEN version[TableOf[k]] ELSE due[k]]
  /\ late' = [k \in Key |-> IF k \in Dropped(Tabled(c)) THEN Straggler(k) ELSE late[k]]
  /\ Goto(c, "told")
  /\ UNCHANGED version

\* The caller is told that its call succeeded.
Told(c) ==
  /\ At(c, "told")
  /\ End(c)
  /\ UNCHANGED <<version, entry, due, late>>

(***************************************************************************)
(* An entry older than the last invalidation was stored by a reader whose  *)
(* request came before the write and whose store came after: nothing else  *)
(* brings back what was dropped.  cache_service.py:380, analytics_service  *)
(* .py:130.                                                                *)
(***************************************************************************)
EntriesCurrent ==
  \A k \in Key : entry[k] \in Version /\ entry[k] < due[k] => late[k]
=============================================================================
