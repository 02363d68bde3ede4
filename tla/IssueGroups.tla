---------------------------- MODULE IssueGroups ----------------------------
(***************************************************************************)
(* Issue groups: what services/complaint_service.py does after the RPC of  *)
(* a submission, and services/issue_group_service.py, on the tables        *)
(* `complaints`, `issue_groups` and `issue_group_members`.                 *)
(*                                                                         *)
(* Grouping is the longest chain of requests in the program: a submission  *)
(* inserts its complaint, looks for complaints of the same category and    *)
(* subcategory, opens a group or joins one in up to eight requests, counts *)
(* the group, and raises the priority of every member one by one.  Nothing *)
(* holds the chain together but UNIQUE(complaint_id) on                    *)
(* issue_group_members: an insert that breaks it raises and ends the call, *)
(* with everything it wrote before left in place.                          *)
(*                                                                         *)
(* A call is a process as in ComplaintLifecycle, one step per request.     *)
(* Category, subcategory, hostel and department are one value, the bucket; *)
(* edit_complaint may write another category over a complaint's, whether   *)
(* it is in a group by then or not.                                        *)
(***************************************************************************)
EXTENDS Integers, FiniteSets, PriorityRules

CONSTANTS
  Complaints,
  Groups,      \* ids of groups, as the database hands them out
  Calls,       \* service calls that can be in flight at once
  Ops,         \* operations in use: a subset of AllOps
  Asked,       \* priorities students and staff ask for
  Bucket,      \* Bucket[c]: department or hostel, category and subcategory c is filed with
  Recategory,  \* Recategory[c]: the buckets an edit can move c to, of the same department
  NoBucket,    \* of a custom category or subcategory, which is never grouped
  Managed,     \* complaints in the scope of the staff who link and unlink
  NoComplaint,
  NoGroup,     \* SQL NULL in complaints.issue_group_id
  Seeds,       \* sets of complaints that may be grouped when a behaviour begins
  SeedGroup,   \* ... and the group they are in
  MaxCalls,    \* bound: calls begun in a behaviour
  MaxFailures  \* bound: requests that raise and threads that die in a behaviour

AllOps == {"submit", "link", "unlink", "priority", "delete", "edit"}

Steps == {"idle", "match", "primary", "newGroup", "addPrimary", "setPrimary", "check",
          "addDup", "setDup", "count", "store", "size", "own", "escalate",
          "remove", "clear", "write", "edit"}

ASSUME GroupsAssumption ==
  /\ NoGroup \notin Groups
  /\ NoComplaint \notin Complaints
  /\ Ops \subseteq AllOps
  /\ Asked \subseteq PriorityLevels
  /\ Managed \subseteq Complaints
  /\ \A c \in Complaints : /\ NoBucket \notin Recategory[c]
                            /\ Bucket[c] = NoBucket => Recategory[c] = {}
  /\ IsFiniteSet(Complaints)
  /\ SeedGroup \in Groups
  /\ \A seed \in Seeds : /\ seed \subseteq Complaints
                         /\ Cardinality(seed) \in {0, 2, 3}
                         /\ \A c, d \in seed : Bucket[c] = Bucket[d] /\ Bucket[c] # NoBucket
  /\ MaxCalls \in Nat
  /\ MaxFailures \in Nat

VARIABLES
  complaint,  \* table complaints: the columns grouping and priority use
  bucket,     \* its columns department_id, is_hostel, category_id and subcategory_id
  memberOf,   \* table issue_group_members, a function since complaint_id is UNIQUE
  created,    \* table issue_groups
  dupCount,   \* its column duplicate_count
  call,       \* the calls in flight
  aborted,    \* <<complaint, group, step>>: a call died before that step (ghost)
  rejected,   \* groups in which UNIQUE(complaint_id) ended a call (ghost)
  overlapped, \* complaints whose call was in flight while another was (ghost)
  contested,  \* complaints of which two unlinkings have overlapped (ghost)
  moved,      \* complaints that an edit has moved to another bucket (ghost)
  begun       \* how many calls have begun

vars == <<complaint, bucket, memberOf, created, dupCount, call, aborted, rejected,
          overlapped, contested, moved, begun>>

tables == <<complaint, bucket, memberOf, created, dupCount>>
ghosts == <<aborted, rejected, overlapped, contested, moved, begun>>

Call == [op: AllOps \union {"none"}, step: Steps,
         c: Complaints \union {NoComplaint},        \* the complaint submitted or linked
         primary: Complaints \union {NoComplaint},  \* the one it is linked to
         g: Groups \union {NoGroup},
         level: PriorityLevels,
         seen: SUBSET Complaints]                   \* members read, or left to raise

Idle == [op |-> "none", step |-> "idle", c |-> NoComplaint, primary |-> NoComplaint,
         g |-> NoGroup, level |-> Low, seen |-> {}]

Row == [exists: BOOLEAN, deleted: BOOLEAN,
        auto: PriorityLevels,      \* auto_priority, the floor of priority
        priority: PriorityLevels,
        groupId: Groups \union {NoGroup}]

NoRow == [exists |-> FALSE, deleted |-> FALSE, auto |-> Low, priority |-> Low,
          groupId |-> NoGroup]

Buckets == {Bucket[c] : c \in Complaints} \union UNION {Recategory[c] : c \in Complaints}

Exists(c)  == complaint[c].exists
Members(g) == {c \in Complaints : memberOf[c] = g}

At(w, step)    == call[w].step = step
Become(w, k)   == call' = [call EXCEPT ![w] = k]
Goto(w, step)  == Become(w, [call[w] EXCEPT !.step = step])
Return(w)      == Become(w, Idle)

\* A call of op on c begins; the rest of its first request is the caller's.
Enter(w, op, c) ==
  LET others == {call[v].c : v \in {v \in Calls : call[v] # Idle}} IN
  /\ op \in Ops
  /\ call[w] = Idle
  /\ begun < MaxCalls
  /\ begun' = begun + 1
  /\ overlapped' = IF others = {} THEN overlapped ELSE overlapped \union others \union {c}
  /\ UNCHANGED <<aborted, rejected, moved>>

\* The complaints of a seed were submitted Low, one after the other: the first
\* keeps its priority, the others were raised to the floor of a group of two.
SeedRow(c, first) ==
  LET level == IF c = first THEN Low ELSE CalculateAutoPriority(2, Low)
  IN [NoRow EXCEPT !.exists = TRUE, !.auto = level, !.priority = level,
                   !.groupId = SeedGroup]

Init ==
  /\ \E seed \in Seeds :
       /\ \E first \in Complaints :
            /\ seed # {} => first \in seed
            /\ complaint = [c \in Complaints |->
                              IF c \in seed THEN SeedRow(c, first) ELSE NoRow]
       /\ memberOf = [c \in Complaints |-> IF c \in seed THEN SeedGroup ELSE NoGroup]
       /\ created = IF seed = {} THEN {} ELSE {SeedGroup}
       /\ dupCount = [g \in Groups |->
                        IF seed # {} /\ g = SeedGroup THEN Cardinality(seed) - 1 ELSE 0]
  /\ bucket = [c \in Complaints |-> Bucket[c]]
  /\ call = [w \in Calls |-> Idle]
  /\ aborted = {}
  /\ rejected = {}
  /\ overlapped = {}
  /\ contested = {}
  /\ moved = {}
  /\ begun = 0

-----------------------------------------------------------------------------
(* submit_complaint: the RPC, then the search for a complaint to join.     *)

SubmitAtomic(w, c, level) ==
  /\ Enter(w, "submit", c)
  /\ ~Exists(c)
  /\ complaint' = [complaint EXCEPT ![c] =
                     [NoRow EXCEPT !.exists = TRUE, !.auto = level, !.priority = level]]
  /\ Become(w, [Idle EXCEPT !.op = "submit", !.step = "match", !.c = c, !.level = level])
  /\ UNCHANGED <<bucket, memberOf, created, dupCount, contested>>

\* Mutant: the preference for a complaint with a group is a filter.
MatchesGrouped(c) ==
  {d \in Complaints \ {c} : /\ Exists(d)
                            /\ ~complaint[d].deleted
                            /\ Bucket[c] # NoBucket
                            /\ bucket[d] = Bucket[c]
                            /\ complaint[d].groupId # NoGroup}

\* Mutant: any complaint that is not of a custom category matches.
MatchesAnyCategory(c) ==
  {d \in Complaints \ {c} : /\ Exists(d)
                            /\ ~complaint[d].deleted
                            /\ Bucket[c] # NoBucket
                            /\ bucket[d] # NoBucket}

\* find_category_subcategory_matches: what c was filed with, which the call still
\* has in hand, against what the others have now.
Matches(c) ==
  {d \in Complaints \ {c} : /\ Exists(d)
                            /\ ~complaint[d].deleted
                            /\ Bucket[c] # NoBucket
                            /\ bucket[d] = Bucket[c]}

\* The first match with a group, or the first match: the SELECT has no order.
Match(w, d) ==
  LET found == Matches(call[w].c) IN
  /\ At(w, "match")
  /\ d \in found
  /\ complaint[d].groupId = NoGroup => \A e \in found : complaint[e].groupId = NoGroup
  /\ Become(w, [call[w] EXCEPT !.step = "primary", !.primary = d])
  /\ UNCHANGED <<tables, ghosts>>

NoMatch(w) ==
  /\ At(w, "match")
  /\ Matches(call[w].c) = {}
  /\ Return(w)
  /\ UNCHANGED <<tables, ghosts>>

-----------------------------------------------------------------------------
(* create_or_link_issue_group(primary, duplicate): c joins primary's group.*)

\* What the call knows once it has read the primary complaint.
KnowsPrimary(k) ==
  LET g == complaint[k.primary].groupId
  IN [k EXCEPT !.g = g, !.step = IF g = NoGroup THEN "newGroup" ELSE "check"]

ReadPrimary(w) ==
  /\ At(w, "primary")
  /\ Become(w, KnowsPrimary(call[w]))
  /\ UNCHANGED <<tables, ghosts>>

\* Staff link two complaints themselves; the scope of c is not looked at.
BeginLink(w, primary, c) ==
  /\ Enter(w, "link", c)
  /\ Exists(primary)
  /\ primary \in Managed
  /\ Become(w, KnowsPrimary([Idle EXCEPT !.op = "link", !.c = c, !.primary = primary]))
  /\ UNCHANGED <<tables, contested>>

NewGroup(w, g) ==
  /\ At(w, "newGroup")
  /\ g \notin created
  /\ created' = created \union {g}
  /\ dupCount' = [dupCount EXCEPT ![g] = 1]
  /\ Become(w, [call[w] EXCEPT !.step = "addPrimary", !.g = g])
  /\ UNCHANGED <<complaint, bucket, memberOf, ghosts>>

AddPrimary(w) ==
  LET k == call[w] IN
  /\ At(w, "addPrimary")
  /\ memberOf[k.primary] = NoGroup
  /\ memberOf' = [memberOf EXCEPT ![k.primary] = k.g]
  /\ Goto(w, "setPrimary")
  /\ UNCHANGED <<complaint, bucket, created, dupCount, ghosts>>

SetPrimary(w) ==
  LET k == call[w] IN
  /\ At(w, "setPrimary")
  /\ complaint' = [complaint EXCEPT ![k.primary].groupId = k.g]
  /\ Goto(w, "check")
  /\ UNCHANGED <<bucket, memberOf, created, dupCount, ghosts>>

CheckMember(w) ==
  /\ At(w, "check")
  /\ Goto(w, IF memberOf[call[w].c] = call[w].g THEN "count" ELSE "addDup")
  /\ UNCHANGED <<tables, ghosts>>

AddDup(w) ==
  LET k == call[w] IN
  /\ At(w, "addDup")
  /\ Exists(k.c)
  /\ memberOf[k.c] = NoGroup
  /\ memberOf' = [memberOf EXCEPT ![k.c] = k.g]
  /\ Goto(w, "setDup")
  /\ UNCHANGED <<complaint, bucket, created, dupCount, ghosts>>

\* Mutant: the exception is swallowed and the complaint pointed at the group.
InsertRejectedIgnored(w) ==
  LET k == call[w] IN
  /\ \/ At(w, "addPrimary") /\ memberOf[k.primary] # NoGroup
     \/ At(w, "addDup") /\ (memberOf[k.c] # NoGroup \/ ~Exists(k.c))
  /\ rejected' = rejected \union {k.g}
  /\ Goto(w, IF k.step = "addPrimary" THEN "setPrimary" ELSE "setDup")
  /\ UNCHANGED <<tables, aborted, overlapped, contested, moved, begun>>

\* The insert breaks UNIQUE(complaint_id), or the reference to complaints.
InsertRejected(w) ==
  LET k == call[w] IN
  /\ \/ At(w, "addPrimary") /\ memberOf[k.primary] # NoGroup
     \/ At(w, "addDup") /\ (memberOf[k.c] # NoGroup \/ ~Exists(k.c))
  /\ rejected' = rejected \union {k.g}
  /\ Return(w)
  /\ UNCHANGED <<tables, aborted, overlapped, contested, moved, begun>>

SetDup(w) ==
  LET k == call[w] IN
  /\ At(w, "setDup")
  /\ complaint' = [complaint EXCEPT ![k.c].groupId = k.g]
  /\ Goto(w, "count")
  /\ UNCHANGED <<bucket, memberOf, created, dupCount, ghosts>>

\* The tail of linking and of unlinking.
CountMembers(w) ==
  /\ At(w, "count")
  /\ Become(w, [call[w] EXCEPT !.step = "store", !.seen = Members(call[w].g)])
  /\ UNCHANGED <<tables, ghosts>>

\* Mutant: the first member is counted as a duplicate.
StoreCountAll(w) ==
  LET k == call[w] IN
  /\ At(w, "store")
  /\ dupCount' = [dupCount EXCEPT ![k.g] = Cardinality(k.seen)]
  /\ IF k.op = "submit" THEN Goto(w, "size") ELSE Return(w)
  /\ UNCHANGED <<complaint, bucket, memberOf, created, ghosts>>

StoreCount(w) ==
  LET k == call[w]  n == Cardinality(k.seen) IN
  /\ At(w, "store")
  /\ dupCount' = [dupCount EXCEPT ![k.g] = IF n = 0 THEN 0 ELSE n - 1]
  /\ IF k.op = "submit" THEN Goto(w, "size") ELSE Return(w)
  /\ UNCHANGED <<complaint, bucket, memberOf, created, ghosts>>

-----------------------------------------------------------------------------
(* submit_complaint again: priorities follow the size of the group.        *)

ReadSize(w) ==
  LET seen == Members(call[w].g) IN
  /\ At(w, "size")
  /\ Become(w, [call[w] EXCEPT !.step = "own", !.seen = seen,
                  !.level = CalculateAutoPriority(Cardinality(seen), @)])
  /\ UNCHANGED <<tables, ghosts>>

\* Mutant: the minimum is raised and the priority is not.
SetPriorityMinimum(c, level) == complaint' = [complaint EXCEPT ![c].auto = level]

SetPriority(c, level) ==
  complaint' = [complaint EXCEPT ![c].auto = level, ![c].priority = level]

\* The call's next state when the members in todo are left to raise.
Raise(w, todo) ==
  IF todo = {} THEN Return(w)
  ELSE Become(w, [call[w] EXCEPT !.step = "escalate", !.seen = todo])

\* Mutant: the members are raised only when the fourth joins.
WriteOwnAtFour(w) ==
  LET k == call[w] IN
  /\ At(w, "own")
  /\ SetPriority(k.c, k.level)
  /\ Raise(w, IF Cardinality(k.seen) = 4 THEN k.seen \ {k.c} ELSE {})
  /\ UNCHANGED <<bucket, memberOf, created, dupCount, ghosts>>

WriteOwn(w) ==
  LET k == call[w] IN
  /\ At(w, "own")
  /\ SetPriority(k.c, k.level)
  /\ Raise(w, IF Cardinality(k.seen) >= 4 THEN k.seen \ {k.c} ELSE {})
  /\ UNCHANGED <<bucket, memberOf, created, dupCount, ghosts>>

Escalate(w, m) ==
  LET k == call[w] IN
  /\ At(w, "escalate")
  /\ m \in k.seen
  /\ SetPriority(m, k.level)
  /\ Raise(w, k.seen \ {m})
  /\ UNCHANGED <<bucket, memberOf, created, dupCount, ghosts>>

Failures == Cardinality(aborted)

\* The update of one member raises and the loop goes on.
EscalationFails(w, m) ==
  LET k == call[w] IN
  /\ At(w, "escalate")
  /\ m \in k.seen
  /\ Failures < MaxFailures
  /\ Raise(w, k.seen \ {m})
  /\ aborted' = aborted \union {<<m, k.g, "escalate">>}
  /\ UNCHANGED <<tables, rejected, overlapped, contested, moved, begun>>

-----------------------------------------------------------------------------
(* unlink_complaint, change_priority, and the deletions.                   *)

BeginUnlink(w, c) ==
  /\ Enter(w, "unlink", c)
  /\ c \in Managed
  /\ complaint[c].groupId # NoGroup
  /\ Become(w, [Idle EXCEPT !.op = "unlink", !.step = "remove", !.c = c,
                            !.g = complaint[c].groupId])
  /\ contested' = IF \E v \in Calls : call[v].op = "unlink" /\ call[v].c = c
                    THEN contested \union {c} ELSE contested
  /\ UNCHANGED tables

RemoveMember(w) ==
  LET k == call[w] IN
  /\ At(w, "remove")
  /\ memberOf' = [memberOf EXCEPT ![k.c] = IF @ = k.g THEN NoGroup ELSE @]
  /\ Goto(w, "clear")
  /\ UNCHANGED <<complaint, bucket, created, dupCount, ghosts>>

\* Mutant: unlinking does not count again.
ClearGroupUncounted(w) ==
  LET k == call[w] IN
  /\ At(w, "clear")
  /\ complaint' = [complaint EXCEPT ![k.c].groupId = NoGroup]
  /\ Return(w)
  /\ UNCHANGED <<bucket, memberOf, created, dupCount, ghosts>>

ClearGroup(w) ==
  LET k == call[w] IN
  /\ At(w, "clear")
  /\ complaint' = [complaint EXCEPT ![k.c].groupId = NoGroup]
  /\ Goto(w, "count")
  /\ UNCHANGED <<bucket, memberOf, created, dupCount, ghosts>>

\* change_priority refuses what is below the automatic minimum it has read.
BeginPriority(w, c, level) ==
  /\ Enter(w, "priority", c)
  /\ Exists(c)
  /\ IsManualPriorityAllowed(level, complaint[c].auto)
  /\ Become(w, [Idle EXCEPT !.op = "priority", !.step = "write", !.c = c, !.level = level])
  /\ UNCHANGED <<tables, contested>>

WritePriority(w) ==
  LET k == call[w] IN
  /\ At(w, "write")
  /\ complaint' = [complaint EXCEPT ![k.c].priority = k.level]
  /\ Return(w)
  /\ UNCHANGED <<bucket, memberOf, created, dupCount, ghosts>>

\* edit_complaint: the complaint is read and looked at, then written.  When it may
\* be edited is ComplaintLifecycle's; here any complaint may be.
BeginEdit(w, c) ==
  /\ Enter(w, "edit", c)
  /\ Exists(c)
  /\ ~complaint[c].deleted
  /\ Become(w, [Idle EXCEPT !.op = "edit", !.step = "edit", !.c = c])
  /\ UNCHANGED <<tables, contested>>

\* A category left out is written back as it was read, so that b may also be what
\* an overlapping edit has just replaced.  Nothing looks at the group.
WriteEdit(w, b) ==
  LET c == call[w].c IN
  /\ At(w, "edit")
  /\ b \in Recategory[c] \union {Bucket[c]}
  /\ bucket' = [bucket EXCEPT ![c] = b]
  /\ moved' = IF b = bucket[c] THEN moved ELSE moved \union {c}
  /\ Return(w)
  /\ UNCHANGED <<complaint, memberOf, created, dupCount, aborted, rejected, overlapped,
                 contested, begun>>

\* The write of a soft deletion or of a student's (ComplaintLifecycle).
Delete(w, c) ==
  /\ Enter(w, "delete", c)
  /\ Exists(c)
  /\ ~complaint[c].deleted
  /\ complaint' = [complaint EXCEPT ![c].deleted = TRUE]
  /\ UNCHANGED <<bucket, memberOf, created, dupCount, call, contested>>

\* A request raises, or the thread dies: what was written stays.
Fail(w) ==
  LET k == call[w] IN
  /\ k # Idle
  /\ Failures < MaxFailures
  /\ aborted' = aborted \union {<<k.c, k.g, k.step>>}
  /\ Return(w)
  /\ UNCHANGED <<tables, rejected, overlapped, contested, moved, begun>>

-----------------------------------------------------------------------------
Begin(w) ==
  \/ \E c \in Complaints, level \in Asked :
       SubmitAtomic(w, c, level) \/ BeginPriority(w, c, level)
  \/ \E p, c \in Complaints : BeginLink(w, p, c)
  \/ \E c \in Complaints : BeginUnlink(w, c) \/ Delete(w, c) \/ BeginEdit(w, c)

Continue(w) ==
  \/ \E d \in Complaints : Match(w, d)
  \/ NoMatch(w)
  \/ ReadPrimary(w)
  \/ \E g \in Groups : NewGroup(w, g)
  \/ AddPrimary(w)
  \/ SetPrimary(w)
  \/ CheckMember(w)
  \/ AddDup(w)
  \/ InsertRejected(w)
  \/ SetDup(w)
  \/ CountMembers(w)
  \/ StoreCount(w)
  \/ ReadSize(w)
  \/ WriteOwn(w)
  \/ \E m \in Complaints : Escalate(w, m) \/ EscalationFails(w, m)
  \/ RemoveMember(w)
  \/ ClearGroup(w)
  \/ WritePriority(w)
  \/ \E b \in Buckets : WriteEdit(w, b)

Next == \E w \in Calls : Begin(w) \/ Continue(w) \/ Fail(w)

\* A thread that has begun a call runs it to its end or to an exception.
Spec == Init /\ [][Next]_vars /\ \A w \in Calls : WF_vars(Continue(w))

-----------------------------------------------------------------------------
(* What the local state of a call promises about the tables: the inductive *)
(* part of NothingHidden.                                                  *)

\* The local state of a call in flight names what its next step needs.
Shaped(k) ==
  /\ k.op # "none"
  /\ k.step # "idle"
  /\ k.c \in Complaints
  /\ k.step \in {"primary", "newGroup", "addPrimary", "setPrimary"} =>
       k.primary \in Complaints
  /\ k.step \notin {"match", "primary", "newGroup", "write", "edit"} => k.g \in Groups
  /\ k.step \in {"remove", "clear"} => k.op = "unlink"
  /\ k.op = "unlink" => k.step \in {"remove", "clear", "count", "store"}

\* Call k is about to write x's issue_group_id, having written its membership.
Sets(k, x) == \/ k.step = "setPrimary" /\ k.primary = x
              \/ k.step = "setDup" /\ k.c = x

Unlinks(k, x) == k.op = "unlink" /\ k.c = x

Clearing(x) == \E w \in Calls : At(w, "clear") /\ call[w].c = x

Excused(x) == \/ x \in contested
              \/ \E g \in Groups : <<x, g, "clear">> \in aborted

\* x's two copies of its group agree, up to the calls that are between them.
Tidy(x) ==
  /\ complaint[x].groupId \in {NoGroup, memberOf[x]} \/ Clearing(x)
  /\ \A w \in Calls :
       /\ Sets(call[w], x) => /\ memberOf[x] = call[w].g
                              /\ complaint[x].groupId = NoGroup \/ Clearing(x)
                              /\ \A v \in Calls \ {w} : ~Sets(call[v], x)
       /\ At(w, "remove") /\ call[w].c = x => /\ memberOf[x] = call[w].g
                                              /\ \A v \in Calls : ~Sets(call[v], x)
       /\ Unlinks(call[w], x) => \A v \in Calls \ {w} : ~Unlinks(call[v], x)

GroupInv ==
  /\ \A w \in Calls : call[w] = Idle \/ Shaped(call[w])
  /\ \A x \in Complaints : Excused(x) \/ Tidy(x)

-----------------------------------------------------------------------------
(* Properties.                                                             *)

\* Every variable has its type.
TypeOK ==
  /\ complaint \in [Complaints -> Row]
  /\ memberOf \in [Complaints -> Groups \union {NoGroup}]
  /\ created \subseteq Groups
  /\ dupCount \in [Groups -> Nat]
  /\ call \in [Calls -> Call]
  /\ aborted \subseteq (Complaints \union {NoComplaint}) \X (Groups \union {NoGroup}) \X Steps
  /\ rejected \subseteq Groups
  /\ overlapped \subseteq Complaints
  /\ contested \subseteq Complaints
  /\ moved \subseteq Complaints
  /\ bucket \in [Complaints -> Buckets]
  /\ begun \in Nat

\* Staff see a complaint either in their list, which leaves out every complaint
\* with a group (get_complaints_for_user, exclude_grouped), or among the members
\* of its group.  No interleaving of submissions, links and unlinks and no
\* exception makes it vanish from both, but for an unlinking between its two
\* writes or cut there, and but for two unlinkings of it that overlapped.
NothingHidden ==
  \A x \in Complaints :
    complaint[x].groupId \in {NoGroup, memberOf[x]} \/ Clearing(x) \/ Excused(x)

\* No group mixes complaints of two buckets, whichever of two submissions opens
\* the group, whichever is rejected and whichever complaint is being edited: only a
\* member that an edit has moved to another category, then or before it joined,
\* may differ, and bring in others.  (find_category_subcategory_matches)
GroupsHomogeneous ==
  \A g \in Groups :
    Members(g) \cap moved = {} =>
      \A c, d \in Members(g) : bucket[c] = bucket[d] /\ bucket[c] # NoBucket

\* Steps between the insert of a group, with duplicate_count 1, and the insert of
\* its second member.
Opening == {"addPrimary", "setPrimary", "check", "addDup"}

\* "(+N)" of a group never promises more complaints than the group has, except
\* while the call that opened it has not added the second one or died before.
CountNeverOver ==
  \A g \in created :
    \/ dupCount[g] < Cardinality(Members(g))
    \/ \E w \in Calls : call[w].g = g /\ call[w].step \in Opening
    \/ g \in rejected
    \/ \E c \in Complaints, step \in Opening : <<c, g, step>> \in aborted

\* Submissions leave every group that no edit has touched with members of one
\* bucket, and every group with a count within its size, however they interleave
\* with each other and with edits and wherever they fail.
GroupsTrue == GroupsHomogeneous /\ CountNeverOver

Quiet == \A w \in Calls : call[w] = Idle

\* Between calls that never overlapped, "(+N)" is exactly the number of members
\* beyond the first, through any sequence of submissions, links and unlinks.
CountExact ==
  Quiet /\ overlapped = {} =>
    \A g \in created :
      \/ dupCount[g] = IF Members(g) = {} THEN 0 ELSE Cardinality(Members(g)) - 1
      \/ g \in rejected
      \/ \E c \in Complaints, step \in Steps : <<c, g, step>> \in aborted

\* As long as calls do not overlap, no sequence of submissions, escalations and
\* manual changes leaves a complaint below its automatic minimum.
ManualNotBelowAutomatic ==
  overlapped = {} => \A c \in Complaints : IsManualPriorityAllowed(complaint[c].priority,
                                                                 complaint[c].auto)

\* No call has g in hand, and none that had died.
Settled(g) == /\ \A w \in Calls : call[w].g # g
              /\ \A a \in aborted : a[2] # g

\* What the members of a group of four or more are due: Urgent from six on.  Six
\* of them must have been submitted with no other call in flight: a loop of the
\* submission that counted five may end after that of the sixth, and lower it.
Due(g) == IF Cardinality(Members(g) \ overlapped) >= 6 THEN Urgent ELSE High

\* However the submissions interleave, once those of a group of four or more are
\* over its members have at least the minimum they are due: the last to join counts
\* them all.  Only a complaint whose own submission overlapped another call may be
\* below, since its last write may come from an older count.
EscalationReaches ==
  \A g \in Groups :
    Settled(g) /\ Cardinality(Members(g)) >= 4 =>
      \A c \in Members(g) \ overlapped : complaint[c].auto >= Due(g)

\* When two complaints of one bucket exist, no edit moved any and no call died, some
\* complaint of that bucket is in a group, so that staff and the next submission
\* find it: each submission looks for the others after its own insert, one of them
\* looks last, and UNIQUE(complaint_id) rejects an opening only where another has
\* got further.
DuplicatesSurface ==
  Quiet /\ aborted = {} /\ moved = {} =>
    \A c, d \in Complaints :
      /\ c # d /\ Exists(c) /\ Exists(d)
      /\ bucket[c] = bucket[d] /\ bucket[c] # NoBucket
      => \E e \in Complaints : bucket[e] = bucket[c] /\ memberOf[e] # NoGroup

\* "Automatic duplicate detection runs and links to Issue Group if found"
\* (submit_complaint): when no call died, matching complaints share a group.
DuplicatesLinked ==
  Quiet /\ aborted = {} /\ moved = {} =>
    \A c, d \in Complaints :
      /\ c # d /\ Exists(c) /\ Exists(d)
      /\ bucket[c] = bucket[d] /\ bucket[c] # NoBucket
      => memberOf[c] = memberOf[d] /\ memberOf[c] # NoGroup

\* "If group reaches High (4+) or Urgent (6+), escalate existing members"
\* (submit_complaint): no write lowers a complaint's minimum, exceptions aside.
EscalationNeverLowers ==
  [][aborted' = {} =>
       \A c \in Complaints : Exists(c) => complaint'[c].auto >= complaint[c].auto]_vars

=============================================================================
