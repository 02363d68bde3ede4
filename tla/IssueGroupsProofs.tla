------------------------- MODULE IssueGroupsProofs -------------------------
(***************************************************************************)
(* Proofs about PriorityRules and IssueGroups for any number of            *)
(* complaints, groups and concurrent calls.                                *)
(***************************************************************************)
EXTENDS IssueGroups, FiniteSetTheorems, TLAPS

-----------------------------------------------------------------------------
(* The rule that raises priorities.                                        *)

\* The two copies of the rule, calculate_auto_priority in Python and
\* calculate_minimum_priority in SQL, agree on every group size and every base.
THEOREM CopiesAgree ==
  ASSUME NEW n \in Nat, NEW base \in PriorityLevels
  PROVE  CalculateMinimumPriority(n, base) = CalculateAutoPriority(n, base)
BY DEF CalculateMinimumPriority, CalculateAutoPriority, MinimumLevel, PriorityLevels,
       Low, Medium, High, Urgent

LEMMA AutoIsLevel ==
  ASSUME NEW n \in Nat, NEW base \in PriorityLevels
  PROVE  CalculateAutoPriority(n, base) \in PriorityLevels
BY DEF CalculateAutoPriority, MinimumLevel, PriorityLevels, Low, Medium, High, Urgent

\* Escalation never goes below the base priority nor down when a group grows.
THEOREM EscalationMonotone ==
  ASSUME NEW m \in Nat, NEW n \in Nat, m <= n, NEW base \in PriorityLevels
  PROVE  /\ base <= CalculateAutoPriority(m, base)
         /\ CalculateAutoPriority(m, base) <= CalculateAutoPriority(n, base)
BY DEF CalculateAutoPriority, MinimumLevel, PriorityLevels, Low, Medium, High, Urgent

-----------------------------------------------------------------------------
(* The local state of calls.                                               *)

CallsShaped == \A w \in Calls : call[w] = Idle \/ Shaped(call[w])

LEMMA LowIsLevel == Low \in PriorityLevels
BY DEF PriorityLevels, Low, Urgent

LEMMA IdleIsCall == Idle \in Call
BY LowIsLevel DEF Idle, Call, AllOps, Steps

\* What a step of call w leaves in its place.
Moves(w) == \E k \in Call : /\ k = Idle \/ Shaped(k)
                            /\ call' = [call EXCEPT ![w] = k]

LEMMA ReturnMoves ==
  ASSUME NEW w \in Calls, Return(w)
  PROVE  Moves(w)
BY IdleIsCall DEF Moves, Return, Become

LEMMA GotoMoves ==
  ASSUME TypeOK, NEW w \in Calls, NEW step \in Steps, Goto(w, step),
         Shaped([call[w] EXCEPT !.step = step])
  PROVE  Moves(w)
<1>1. [call[w] EXCEPT !.step = step] \in Call
  BY DEF TypeOK, Call
<1>. QED BY <1>1 DEF Moves, Goto, Become

LEMMA MovesType ==
  ASSUME TypeOK, CallsShaped, NEW w \in Calls, Moves(w)
  PROVE  call' \in [Calls -> Call] /\ CallsShaped'
BY DEF TypeOK, CallsShaped, Moves

LEMMA KnowsPrimaryShaped ==
  ASSUME TypeOK, NEW k \in Call, k.op \notin {"none", "unlink"},
         k.c \in Complaints, k.primary \in Complaints
  PROVE  KnowsPrimary(k) \in Call /\ Shaped(KnowsPrimary(k))
<1>1. complaint[k.primary].groupId \in Groups \union {NoGroup}
  BY DEF TypeOK, Row
<1>2. CASE complaint[k.primary].groupId = NoGroup
  <2>1. KnowsPrimary(k) = [k EXCEPT !.g = NoGroup, !.step = "newGroup"]
    BY <1>2 DEF KnowsPrimary
  <2>. QED BY <2>1 DEF Call, Steps, Shaped
<1>3. CASE complaint[k.primary].groupId # NoGroup
  <2>1. KnowsPrimary(k) = [k EXCEPT !.g = complaint[k.primary].groupId, !.step = "check"]
    BY <1>3 DEF KnowsPrimary
  <2>. QED BY <1>1, <1>3, <2>1 DEF Call, Steps, Shaped
<1>. QED BY <1>2, <1>3

LEMMA BeginMoves ==
  ASSUME TypeOK, NEW w \in Calls,
         NEW c \in Complaints, NEW p \in Complaints, NEW level \in PriorityLevels,
         \/ SubmitAtomic(w, c, level)
         \/ BeginPriority(w, c, level)
         \/ BeginLink(w, p, c)
         \/ BeginUnlink(w, c)
         \/ BeginEdit(w, c)
  PROVE  Moves(w)
<1>1. CASE SubmitAtomic(w, c, level)
  <2>. DEFINE k == [Idle EXCEPT !.op = "submit", !.step = "match", !.c = c, !.level = level]
  <2>1. k \in Call /\ Shaped(k)
    BY LowIsLevel DEF Idle, Call, AllOps, Steps, Shaped
  <2>. QED BY <1>1, <2>1 DEF SubmitAtomic, Become, Moves
<1>2. CASE BeginPriority(w, c, level)
  <2>. DEFINE k == [Idle EXCEPT !.op = "priority", !.step = "write", !.c = c, !.level = level]
  <2>1. k \in Call /\ Shaped(k)
    BY LowIsLevel DEF Idle, Call, AllOps, Steps, Shaped
  <2>. QED BY <1>2, <2>1 DEF BeginPriority, Become, Moves
<1>3. CASE BeginLink(w, p, c)
  <2>1. PICK k \in Call : k = [Idle EXCEPT !.op = "link", !.c = c, !.primary = p]
    BY LowIsLevel DEF Idle, Call, AllOps, Steps
  <2>2. k.op = "link" /\ k.c = c /\ k.primary = p
    BY <2>1 DEF Idle
  <2>3. KnowsPrimary(k) \in Call /\ Shaped(KnowsPrimary(k))
    BY <2>2, KnowsPrimaryShaped
  <2>4. call' = [call EXCEPT ![w] = KnowsPrimary(k)]
    BY <1>3, <2>1 DEF BeginLink, Become
  <2>. QED BY <2>3, <2>4 DEF Moves
<1>4. CASE BeginUnlink(w, c)
  <2>. DEFINE k == [Idle EXCEPT !.op = "unlink", !.step = "remove", !.c = c,
                                !.g = complaint[c].groupId]
  <2>1. complaint[c].groupId \in Groups
    BY <1>4 DEF TypeOK, Row, BeginUnlink
  <2>2. k \in Call /\ Shaped(k)
    BY <2>1, LowIsLevel DEF Idle, Call, AllOps, Steps, Shaped
  <2>. QED BY <1>4, <2>2 DEF BeginUnlink, Become, Moves
<1>5. CASE BeginEdit(w, c)
  <2>. DEFINE k == [Idle EXCEPT !.op = "edit", !.step = "edit", !.c = c]
  <2>1. k \in Call /\ Shaped(k)
    BY LowIsLevel DEF Idle, Call, AllOps, Steps, Shaped
  <2>. QED BY <1>5, <2>1 DEF BeginEdit, Become, Moves
<1>. QED BY <1>1, <1>2, <1>3, <1>4, <1>5

\* What the steps that keep the call's operation and subject do to it.
LEMMA ContinueMoves ==
  ASSUME TypeOK, CallsShaped, GroupsAssumption, NEW w \in Calls, Continue(w)
  PROVE  Moves(w)
<1>. PICK k \in Call : k = call[w]
  BY DEF TypeOK
<1>1. k.step # "idle" => Shaped(k)
  BY DEF CallsShaped, Idle
<1>2. ASSUME NEW d \in Complaints, Match(w, d)
      PROVE  Moves(w)
  <2>. [k EXCEPT !.step = "primary", !.primary = d] \in Call
    BY DEF Call, Steps
  <2>. Shaped([k EXCEPT !.step = "primary", !.primary = d])
    BY <1>1, <1>2 DEF Match, At, Shaped, Call
  <2>. QED BY <1>2 DEF Match, Become, Moves
<1>3. ASSUME NoMatch(w) \/ InsertRejected(w) \/ WritePriority(w) \/ (\E b \in Buckets : WriteEdit(w, b))
      PROVE  Moves(w)
  BY <1>3, ReturnMoves DEF NoMatch, InsertRejected, WritePriority, WriteEdit
<1>4. ASSUME ReadPrimary(w)
      PROVE  Moves(w)
  <2>1. k.step = "primary"
    BY <1>4 DEF ReadPrimary, At
  <2>2. k.op \notin {"none", "unlink"} /\ k.c \in Complaints /\ k.primary \in Complaints
    BY <1>1, <2>1 DEF Shaped
  <2>3. KnowsPrimary(k) \in Call /\ Shaped(KnowsPrimary(k))
    BY <2>2, KnowsPrimaryShaped
  <2>. QED BY <1>4, <2>3 DEF ReadPrimary, Become, Moves
<1>5. ASSUME NEW g \in Groups, NewGroup(w, g)
      PROVE  Moves(w)
  <2>. [k EXCEPT !.step = "addPrimary", !.g = g] \in Call
    BY DEF Call, Steps
  <2>. Shaped([k EXCEPT !.step = "addPrimary", !.g = g])
    BY <1>1, <1>5 DEF NewGroup, At, Shaped, Call
  <2>. QED BY <1>5 DEF NewGroup, Become, Moves
<1>6. ASSUME NEW step \in Steps, Goto(w, step), k.op # "none", step # "idle",
             k.c \in Complaints,
             step \in {"setPrimary", "check", "addDup", "setDup", "count", "size", "clear"},
             k.g \in Groups,
             step = "setPrimary" => k.primary \in Complaints,
             step = "clear" => k.op = "unlink",
             k.op = "unlink" => step \in {"clear", "count"}
      PROVE  Moves(w)
  <2>. Shaped([k EXCEPT !.step = step])
    BY <1>6 DEF Shaped, Call
  <2>. QED BY <1>6, GotoMoves
<1>7. ASSUME AddPrimary(w) \/ SetPrimary(w) \/ AddDup(w) \/ SetDup(w)
      PROVE  Moves(w)
  <2>1. /\ Shaped(k)
        /\ k.g \in Groups
        /\ k.op # "unlink"
        /\ k.step = "addPrimary" => k.primary \in Complaints
    BY <1>1, <1>7 DEF Shaped, At, AddPrimary, SetPrimary, AddDup, SetDup
  <2>. QED BY <1>6, <1>7, <2>1 DEF Shaped, At, Steps, AddPrimary, SetPrimary, AddDup, SetDup
<1>8. ASSUME CheckMember(w)
      PROVE  Moves(w)
  <2>1. k.step = "check" /\ Shaped(k)
    BY <1>1, <1>8 DEF CheckMember, At
  <2>2. Goto(w, "count") \/ Goto(w, "addDup")
    BY <1>8 DEF CheckMember
  <2>. QED BY <1>6, <2>1, <2>2 DEF Shaped, Steps
<1>9. ASSUME RemoveMember(w) \/ ClearGroup(w)
      PROVE  Moves(w)
  <2>1. Shaped(k) /\ k.op = "unlink" /\ k.g \in Groups
    BY <1>1, <1>9 DEF Shaped, At, RemoveMember, ClearGroup
  <2>. QED BY <1>6, <1>9, <2>1 DEF Shaped, Steps, RemoveMember, ClearGroup
<1>10. ASSUME CountMembers(w)
       PROVE  Moves(w)
  <2>. [k EXCEPT !.step = "store", !.seen = Members(k.g)] \in Call
    BY DEF Call, Steps, Members
  <2>. Shaped([k EXCEPT !.step = "store", !.seen = Members(k.g)])
    BY <1>1, <1>10 DEF CountMembers, At, Shaped, Call
  <2>. QED BY <1>10 DEF CountMembers, Become, Moves
<1>11. ASSUME StoreCount(w)
       PROVE  Moves(w)
  <2>1. k.step = "store" /\ Shaped(k)
    BY <1>1, <1>11 DEF StoreCount, At
  <2>2. Return(w) \/ (k.op = "submit" /\ Goto(w, "size"))
    BY <1>11 DEF StoreCount
  <2>. QED BY <1>6, <2>1, <2>2, ReturnMoves DEF Shaped, Steps
<1>12. ASSUME ReadSize(w)
       PROVE  Moves(w)
  <2>1. PICK n \in Nat : n = Cardinality(Members(k.g))
    BY FS_Subset, FS_CardinalityType, GroupsAssumption DEF Members, GroupsAssumption
  <2>2. CalculateAutoPriority(n, k.level) \in PriorityLevels
    BY AutoIsLevel DEF Call
  <2>3. PICK level \in PriorityLevels : level = CalculateAutoPriority(n, k.level)
    BY <2>2
  <2>4. [k EXCEPT !.step = "own", !.seen = Members(k.g), !.level = level] \in Call
    BY DEF Call, Steps, Members
  <2>5. Shaped([k EXCEPT !.step = "own", !.seen = Members(k.g), !.level = level])
    BY <1>1, <1>12 DEF ReadSize, At, Shaped, Call
  <2>. QED BY <1>12, <2>1, <2>3, <2>4, <2>5 DEF ReadSize, Become, Moves
<1>13. ASSUME NEW todo \in SUBSET Complaints, Raise(w, todo),
              k.step \in {"own", "escalate"}
       PROVE  Moves(w)
  <2>1. [k EXCEPT !.step = "escalate", !.seen = todo] \in Call
    BY DEF Call, Steps
  <2>2. Shaped([k EXCEPT !.step = "escalate", !.seen = todo])
    BY <1>1, <1>13 DEF Shaped, Call
  <2>. QED BY <1>13, <2>1, <2>2, ReturnMoves DEF Raise, Become, Moves
<1>14. ASSUME WriteOwn(w)
       PROVE  Moves(w)
  <2>1. k.seen \subseteq Complaints /\ k.step = "own"
    BY <1>14 DEF Call, WriteOwn, At
  <2>2. Raise(w, k.seen \ {k.c}) \/ Raise(w, {})
    BY <1>14 DEF WriteOwn
  <2>. QED BY <1>13, <2>1, <2>2
<1>15. ASSUME NEW m \in Complaints, Escalate(w, m) \/ EscalationFails(w, m)
       PROVE  Moves(w)
  <2>1. k.seen \subseteq Complaints /\ k.step = "escalate"
    BY <1>15 DEF Call, Escalate, EscalationFails, At
  <2>2. Raise(w, k.seen \ {m})
    BY <1>15 DEF Escalate, EscalationFails
  <2>. QED BY <1>13, <2>1, <2>2
<1>. QED BY <1>2, <1>3, <1>4, <1>5, <1>7, <1>8, <1>9, <1>10, <1>11, <1>12, <1>14, <1>15
         DEF Continue

-----------------------------------------------------------------------------
(* Type correctness.                                                       *)

\* Cardinalities of sets of complaints are numbers.
LEMMA SizeType ==
  ASSUME GroupsAssumption, NEW S \in SUBSET Complaints
  PROVE  Cardinality(S) \in Nat
BY FS_Subset, FS_CardinalityType DEF GroupsAssumption

LEMMA NewRowType ==
  ASSUME NEW level \in PriorityLevels
  PROVE  [NoRow EXCEPT !.exists = TRUE, !.auto = level, !.priority = level] \in Row
BY LowIsLevel DEF NoRow, Row

LEMMA SeedRowType ==
  ASSUME GroupsAssumption, NEW c, NEW first
  PROVE  SeedRow(c, first) \in Row
<1>. DEFINE level == IF c = first THEN Low ELSE CalculateAutoPriority(2, Low)
<1>1. level \in PriorityLevels
  BY LowIsLevel, AutoIsLevel
<1>. HIDE DEF level
<1>2. [NoRow EXCEPT !.exists = TRUE, !.auto = level, !.priority = level,
                    !.groupId = SeedGroup] \in Row
  BY <1>1, LowIsLevel DEF NoRow, Row, GroupsAssumption
<1>. QED BY <1>2 DEF SeedRow, level

LEMMA TypeInit ==
  ASSUME GroupsAssumption, Init
  PROVE  TypeOK /\ CallsShaped
<1>1. PICK seed \in Seeds :
         /\ \E first \in Complaints :
              complaint = [c \in Complaints |-> IF c \in seed THEN SeedRow(c, first)
                                                             ELSE NoRow]
         /\ memberOf = [c \in Complaints |-> IF c \in seed THEN SeedGroup ELSE NoGroup]
         /\ created = IF seed = {} THEN {} ELSE {SeedGroup}
         /\ dupCount = [g \in Groups |->
                          IF seed # {} /\ g = SeedGroup THEN Cardinality(seed) - 1 ELSE 0]
  BY DEF Init
<1>2. complaint \in [Complaints -> Row]
  <2>1. NoRow \in Row
    BY LowIsLevel DEF NoRow, Row
  <2>. QED BY <1>1, <2>1, SeedRowType
<1>3. dupCount \in [Groups -> Nat]
  <2>1. seed # {} => Cardinality(seed) - 1 \in Nat
    <3>1. IsFiniteSet(seed) /\ Cardinality(seed) \in {0, 2, 3}
      BY FS_Subset DEF GroupsAssumption
    <3>2. seed # {} => Cardinality(seed) # 0
      BY <3>1, FS_EmptySet
    <3>. QED BY <3>1, <3>2
  <2>. QED BY <1>1, <2>1
<1>4. memberOf \in [Complaints -> Groups \union {NoGroup}] /\ created \subseteq Groups
  BY <1>1 DEF GroupsAssumption
<1>5. bucket \in [Complaints -> Buckets]
  BY DEF Init, Buckets
<1>. QED BY <1>2, <1>3, <1>4, <1>5, IdleIsCall DEF Init, TypeOK, CallsShaped

LEMMA EnterType ==
  ASSUME TypeOK, CallsShaped, GroupsAssumption,
         NEW w \in Calls, NEW op, NEW c \in Complaints, Enter(w, op, c)
  PROVE  /\ aborted' = aborted /\ rejected' = rejected /\ moved' = moved
         /\ overlapped' \subseteq Complaints
         /\ begun' \in Nat
<1>1. {call[v].c : v \in {v \in Calls : call[v] # Idle}} \subseteq Complaints
  BY DEF CallsShaped, Shaped
<1>2. /\ aborted' = aborted /\ rejected' = rejected /\ moved' = moved
      /\ begun' = begun + 1
      /\ overlapped' \subseteq overlapped \union {c} \union
                                {call[v].c : v \in {v \in Calls : call[v] # Idle}}
  BY DEF Enter
<1>. QED BY <1>1, <1>2 DEF TypeOK

LEMMA TypeBegin ==
  ASSUME TypeOK, CallsShaped, GroupsAssumption, NEW w \in Calls, Begin(w)
  PROVE  TypeOK' /\ CallsShaped'
<1>1. ASSUME NEW c \in Complaints, NEW level \in Asked, SubmitAtomic(w, c, level)
      PROVE  TypeOK' /\ CallsShaped'
  <2>1. level \in PriorityLevels
    BY DEF GroupsAssumption
  <2>2. Moves(w)
    BY <1>1, <2>1, BeginMoves
  <2>3. complaint' \in [Complaints -> Row]
    BY <1>1, <2>1, NewRowType DEF SubmitAtomic, TypeOK
  <2>4. Enter(w, "submit", c)
    BY <1>1 DEF SubmitAtomic
  <2>. QED BY <1>1, <2>2, <2>3, <2>4, EnterType, MovesType DEF SubmitAtomic, TypeOK
<1>2. ASSUME NEW c \in Complaints, NEW level \in Asked, BeginPriority(w, c, level)
      PROVE  TypeOK' /\ CallsShaped'
  <2>1. level \in PriorityLevels
    BY DEF GroupsAssumption
  <2>2. Moves(w)
    BY <1>2, <2>1, BeginMoves
  <2>3. Enter(w, "priority", c)
    BY <1>2 DEF BeginPriority
  <2>. QED BY <1>2, <2>2, <2>3, EnterType, MovesType DEF BeginPriority, TypeOK, tables
<1>3. ASSUME NEW p \in Complaints, NEW c \in Complaints, BeginLink(w, p, c)
      PROVE  TypeOK' /\ CallsShaped'
  <2>1. Moves(w)
    BY <1>3, BeginMoves, LowIsLevel
  <2>2. Enter(w, "link", c)
    BY <1>3 DEF BeginLink
  <2>. QED BY <1>3, <2>1, <2>2, EnterType, MovesType DEF BeginLink, TypeOK, tables
<1>4. ASSUME NEW c \in Complaints, BeginUnlink(w, c)
      PROVE  TypeOK' /\ CallsShaped'
  <2>1. Moves(w)
    BY <1>4, BeginMoves, LowIsLevel
  <2>2. Enter(w, "unlink", c)
    BY <1>4 DEF BeginUnlink
  <2>3. contested' = contested \/ contested' = contested \union {c}
    BY <1>4, Zenon DEF BeginUnlink
  <2>4. contested' \subseteq Complaints
    BY <2>3 DEF TypeOK
  <2>. QED BY <1>4, <2>1, <2>2, <2>4, EnterType, MovesType DEF BeginUnlink, TypeOK, tables
<1>5. ASSUME NEW c \in Complaints, Delete(w, c)
      PROVE  TypeOK' /\ CallsShaped'
  <2>1. [complaint[c] EXCEPT !.deleted = TRUE] \in Row
    <3>1. complaint[c] \in Row
      BY DEF TypeOK
    <3>. QED BY <3>1 DEF Row
  <2>2. complaint' = [complaint EXCEPT ![c] = [complaint[c] EXCEPT !.deleted = TRUE]]
    BY <1>5 DEF Delete, TypeOK
  <2>3. complaint' \in [Complaints -> Row]
    BY <2>1, <2>2 DEF TypeOK
  <2>4. Enter(w, "delete", c)
    BY <1>5 DEF Delete
  <2>. QED BY <1>5, <2>3, <2>4, EnterType DEF Delete, TypeOK, CallsShaped
<1>6. ASSUME NEW c \in Complaints, BeginEdit(w, c)
      PROVE  TypeOK' /\ CallsShaped'
  <2>1. Moves(w)
    BY <1>6, BeginMoves, LowIsLevel
  <2>2. Enter(w, "edit", c)
    BY <1>6 DEF BeginEdit
  <2>. QED BY <1>6, <2>1, <2>2, EnterType, MovesType DEF BeginEdit, TypeOK, tables
<1>. QED BY <1>1, <1>2, <1>3, <1>4, <1>5, <1>6 DEF Begin

\* The complaints table stays a table of rows when one row is updated.
LEMMA UpdateType ==
  ASSUME complaint \in [Complaints -> Row], NEW c \in Complaints, NEW r \in Row,
         complaint' = [complaint EXCEPT ![c] = r]
  PROVE  complaint' \in [Complaints -> Row]
OBVIOUS

LEMMA SetPriorityType ==
  ASSUME TypeOK, NEW c \in Complaints, NEW level \in PriorityLevels, SetPriority(c, level)
  PROVE  complaint' \in [Complaints -> Row]
<1>1. [complaint[c] EXCEPT !.auto = level, !.priority = level] \in Row
  BY DEF TypeOK, Row
<1>2. complaint' = [complaint EXCEPT ![c] =
                      [complaint[c] EXCEPT !.auto = level, !.priority = level]]
  BY DEF SetPriority, TypeOK
<1>. QED BY <1>1, <1>2, UpdateType DEF TypeOK

LEMMA SetGroupType ==
  ASSUME TypeOK, NEW c \in Complaints, NEW g \in Groups \union {NoGroup},
         complaint' = [complaint EXCEPT ![c].groupId = g]
  PROVE  complaint' \in [Complaints -> Row]
<1>1. [complaint[c] EXCEPT !.groupId = g] \in Row
  BY DEF TypeOK, Row
<1>2. complaint' = [complaint EXCEPT ![c] = [complaint[c] EXCEPT !.groupId = g]]
  BY DEF TypeOK
<1>. QED BY <1>1, <1>2, UpdateType DEF TypeOK

\* What continuing a call writes to the tables has their types.
LEMMA TypeContinue ==
  ASSUME TypeOK, CallsShaped, GroupsAssumption, NEW w \in Calls, Continue(w)
  PROVE  TypeOK' /\ CallsShaped'
<1>. PICK k \in Call : k = call[w]
  BY DEF TypeOK
<1>1. k.step # "idle" => Shaped(k)
  BY DEF CallsShaped, Idle
<1>2. call' \in [Calls -> Call] /\ CallsShaped'
  BY ContinueMoves, MovesType
<1>3. ASSUME \/ \E d \in Complaints : Match(w, d)
             \/ NoMatch(w)
             \/ ReadPrimary(w)
             \/ CheckMember(w)
             \/ CountMembers(w)
             \/ ReadSize(w)
      PROVE  TypeOK'
  BY <1>2, <1>3 DEF TypeOK, tables, ghosts, Match, NoMatch, ReadPrimary, CheckMember,
                    CountMembers, ReadSize
<1>4. ASSUME NEW g \in Groups, NewGroup(w, g)
      PROVE  TypeOK'
  BY <1>2, <1>4 DEF TypeOK, ghosts, NewGroup
<1>5. ASSUME AddPrimary(w) \/ AddDup(w) \/ RemoveMember(w)
      PROVE  TypeOK'
  <2>1. k.g \in Groups
    BY <1>1, <1>5 DEF Shaped, At, AddPrimary, AddDup, RemoveMember
  <2>2. memberOf' \in [Complaints -> Groups \union {NoGroup}]
    BY <1>5, <2>1 DEF TypeOK, AddPrimary, AddDup, RemoveMember
  <2>. QED BY <1>2, <1>5, <2>2 DEF TypeOK, ghosts, AddPrimary, AddDup, RemoveMember
<1>6. ASSUME SetPrimary(w) \/ SetDup(w) \/ ClearGroup(w)
      PROVE  TypeOK'
  <2>1. /\ k.g \in Groups
        /\ k.c \in Complaints
        /\ k.step = "setPrimary" => k.primary \in Complaints
    BY <1>1, <1>6 DEF Shaped, At, SetPrimary, SetDup, ClearGroup
  <2>2. complaint' \in [Complaints -> Row]
    BY <1>6, <2>1, SetGroupType DEF SetPrimary, SetDup, ClearGroup, At
  <2>. QED BY <1>2, <1>6, <2>2 DEF TypeOK, ghosts, SetPrimary, SetDup, ClearGroup
<1>7. ASSUME InsertRejected(w)
      PROVE  TypeOK'
  <2>1. k.g \in Groups
    BY <1>1, <1>7 DEF Shaped, At, InsertRejected
  <2>. QED BY <1>2, <1>7, <2>1 DEF TypeOK, tables, InsertRejected
<1>8. ASSUME StoreCount(w)
      PROVE  TypeOK'
  <2>1. PICK n \in Nat : n = Cardinality(k.seen)
    BY SizeType DEF Call
  <2>2. (IF n = 0 THEN 0 ELSE n - 1) \in Nat
    OBVIOUS
  <2>3. dupCount' = [dupCount EXCEPT ![k.g] = IF n = 0 THEN 0 ELSE n - 1]
    BY <1>8, <2>1 DEF StoreCount
  <2>4. dupCount' \in [Groups -> Nat]
    BY <2>2, <2>3 DEF TypeOK
  <2>. QED BY <1>2, <1>8, <2>4 DEF TypeOK, ghosts, StoreCount
<1>9. ASSUME WriteOwn(w)
      PROVE  TypeOK'
  <2>1. k.c \in Complaints /\ k.level \in PriorityLevels
    BY <1>1, <1>9 DEF Shaped, At, WriteOwn, Call
  <2>2. complaint' \in [Complaints -> Row]
    BY <1>9, <2>1, SetPriorityType DEF WriteOwn
  <2>. QED BY <1>2, <1>9, <2>2 DEF TypeOK, ghosts, WriteOwn
<1>10. ASSUME NEW m \in Complaints, Escalate(w, m)
       PROVE  TypeOK'
  <2>1. complaint' \in [Complaints -> Row]
    BY <1>10, SetPriorityType DEF Escalate, Call
  <2>. QED BY <1>2, <1>10, <2>1 DEF TypeOK, ghosts, Escalate
<1>11. ASSUME NEW m \in Complaints, EscalationFails(w, m)
       PROVE  TypeOK'
  <2>1. <<m, k.g, "escalate">> \in
          (Complaints \union {NoComplaint}) \X (Groups \union {NoGroup}) \X Steps
    BY DEF Call, Steps
  <2>. QED BY <1>2, <1>11, <2>1 DEF TypeOK, tables, EscalationFails
<1>12. ASSUME WritePriority(w)
       PROVE  TypeOK'
  <2>1. k.c \in Complaints /\ k.level \in PriorityLevels
    BY <1>1, <1>12 DEF Shaped, At, WritePriority, WriteEdit, Call
  <2>2. [complaint[k.c] EXCEPT !.priority = k.level] \in Row
    BY <2>1 DEF TypeOK, Row
  <2>3. complaint' = [complaint EXCEPT ![k.c] =
                        [complaint[k.c] EXCEPT !.priority = k.level]]
    BY <1>12 DEF WritePriority, TypeOK
  <2>4. complaint' \in [Complaints -> Row]
    BY <2>1, <2>2, <2>3, UpdateType DEF TypeOK
  <2>. QED BY <1>2, <1>12, <2>4 DEF TypeOK, ghosts, WritePriority
<1>13. ASSUME NEW b \in Buckets, WriteEdit(w, b)
       PROVE  TypeOK'
  <2>1. k.c \in Complaints
    BY <1>1, <1>13 DEF Shaped, At, WriteEdit
  <2>2. bucket' \in [Complaints -> Buckets]
    BY <1>13, <2>1 DEF WriteEdit, TypeOK
  <2>3. moved' = moved \/ moved' = moved \union {k.c}
    BY <1>13, Zenon DEF WriteEdit
  <2>4. moved' \subseteq Complaints
    BY <2>1, <2>3 DEF TypeOK
  <2>. QED BY <1>2, <1>13, <2>2, <2>4 DEF TypeOK, WriteEdit
<1>. QED BY <1>2, <1>3, <1>4, <1>5, <1>6, <1>7, <1>8, <1>9, <1>10, <1>11, <1>12, <1>13
         DEF Continue

LEMMA TypeFail ==
  ASSUME TypeOK, CallsShaped, NEW w \in Calls, Fail(w)
  PROVE  TypeOK' /\ CallsShaped'
<1>1. <<call[w].c, call[w].g, call[w].step>> \in
        (Complaints \union {NoComplaint}) \X (Groups \union {NoGroup}) \X Steps
  BY DEF TypeOK, Call
<1>2. call' \in [Calls -> Call] /\ CallsShaped'
  BY ReturnMoves, MovesType DEF Fail
<1>. QED BY <1>1, <1>2 DEF Fail, TypeOK, tables

LEMMA TypeStep ==
  ASSUME TypeOK, CallsShaped, GroupsAssumption, [Next]_vars
  PROVE  TypeOK' /\ CallsShaped'
<1>1. CASE UNCHANGED vars
  BY <1>1 DEF vars, TypeOK, CallsShaped
<1>. QED BY <1>1, TypeBegin, TypeContinue, TypeFail DEF Next

-----------------------------------------------------------------------------
(* No complaint vanishes: Excused(x) \/ Tidy(x) is inductive.              *)

LEMMA ExcusedStays ==
  ASSUME NEW x \in Complaints, Excused(x), aborted \subseteq aborted',
         contested \subseteq contested'
  PROVE  Excused(x)'
BY DEF Excused

\* A step that leaves x's membership alone, sets its issue_group_id to NULL or
\* not at all, and does not take the call to a step that is about to change them.
LEMMA AloofKeepsTidy ==
  ASSUME TypeOK, NEW x \in Complaints, Tidy(x), NEW w \in Calls, NEW k \in Call,
         call' = [call EXCEPT ![w] = k],
         memberOf'[x] = memberOf[x],
         \/ complaint'[x].groupId = NoGroup
         \/ /\ complaint'[x].groupId = complaint[x].groupId
            /\ ~(At(w, "clear") /\ call[w].c = x),
         ~Sets(k, x),
         ~(k.step = "remove" /\ k.c = x),
         Unlinks(k, x) => Unlinks(call[w], x)
  PROVE  Tidy(x)'
<1>1. call'[w] = k /\ \A v \in Calls \ {w} : call'[v] = call[v]
  BY DEF TypeOK
<1>2. complaint'[x].groupId # NoGroup /\ Clearing(x) => Clearing(x)'
  BY <1>1 DEF Clearing, At
<1>3. complaint'[x].groupId \in {NoGroup, memberOf'[x]} \/ Clearing(x)'
  BY <1>2 DEF Tidy
<1>4. ASSUME NEW v \in Calls, Sets(call'[v], x)
      PROVE  /\ memberOf'[x] = call'[v].g
             /\ complaint'[x].groupId = NoGroup \/ Clearing(x)'
             /\ \A u \in Calls \ {v} : ~Sets(call'[u], x)
  <2>1. v # w /\ call'[v] = call[v]
    BY <1>1, <1>4
  <2>. QED BY <1>1, <1>2, <1>4, <2>1 DEF Tidy
<1>5. ASSUME NEW v \in Calls, call'[v].step = "remove", call'[v].c = x
      PROVE  memberOf'[x] = call'[v].g /\ \A u \in Calls : ~Sets(call'[u], x)
  <2>1. v # w /\ call'[v] = call[v]
    BY <1>1, <1>5
  <2>. QED BY <1>1, <1>5, <2>1 DEF Tidy, At
<1>6. ASSUME NEW v \in Calls, Unlinks(call'[v], x), NEW u \in Calls \ {v}, Unlinks(call'[u], x)
      PROVE  FALSE
  BY <1>1, <1>6 DEF Tidy
<1>. QED BY <1>3, <1>4, <1>5, <1>6 DEF Tidy, At

\* The membership of x is inserted: nobody else is about to write its group.
LEMMA JoinKeepsTidy ==
  ASSUME TypeOK, CallsShaped, GroupsAssumption, NEW x \in Complaints, Tidy(x),
         NEW w \in Calls, NEW k \in Call,
         call' = [call EXCEPT ![w] = k],
         memberOf[x] = NoGroup, memberOf'[x] = k.g,
         complaint' = complaint,
         ~At(w, "clear"),
         k.step \in {"setPrimary", "setDup"}, k.op # "unlink"
  PROVE  Tidy(x)'
<1>1. call'[w] = k /\ \A v \in Calls \ {w} : call'[v] = call[v]
  BY DEF TypeOK
<1>2. \A v \in Calls : /\ ~Sets(call[v], x)
                       /\ ~(At(v, "remove") /\ call[v].c = x)
  <2>1. \A v \in Calls : At(v, "setPrimary") \/ At(v, "setDup") \/ At(v, "remove")
                           => call[v].g # NoGroup
    BY DEF CallsShaped, Shaped, Idle, At, GroupsAssumption
  <2>. QED BY <2>1 DEF Tidy, Sets, At
<1>3. complaint[x].groupId = NoGroup \/ Clearing(x)
  BY DEF Tidy
<1>4. Clearing(x) => Clearing(x)'
  BY <1>1 DEF Clearing, At
<1>5. \A v \in Calls \ {w} : /\ ~Sets(call'[v], x)
                             /\ ~(call'[v].step = "remove" /\ call'[v].c = x)
  BY <1>1, <1>2 DEF At
<1>6. ~(call'[w].step = "remove")
  BY <1>1
<1>7. ASSUME NEW v \in Calls, Unlinks(call'[v], x), NEW u \in Calls \ {v}, Unlinks(call'[u], x)
      PROVE  FALSE
  BY <1>1, <1>7 DEF Tidy, Unlinks
<1>. QED BY <1>1, <1>3, <1>4, <1>5, <1>6, <1>7 DEF Tidy, At

\* The group of x is written by a call that has inserted its membership.
LEMMA SetKeepsTidy ==
  ASSUME TypeOK, NEW x \in Complaints, Tidy(x), NEW w \in Calls, NEW k \in Call,
         call' = [call EXCEPT ![w] = k],
         Sets(call[w], x), call[w].op # "unlink",
         memberOf' = memberOf, complaint'[x].groupId = call[w].g,
         k.op = call[w].op, k.step \in {"check", "count"}
  PROVE  Tidy(x)'
<1>1. call'[w] = k /\ \A v \in Calls \ {w} : call'[v] = call[v]
  BY DEF TypeOK
<1>2. complaint'[x].groupId = memberOf'[x]
  BY DEF Tidy
<1>3. \A v \in Calls : /\ ~Sets(call'[v], x)
                       /\ ~(call'[v].step = "remove" /\ call'[v].c = x)
  <2>1. ~Sets(k, x) /\ k.step # "remove"
    BY DEF Sets
  <2>2. \A v \in Calls \ {w} : ~Sets(call[v], x) /\ ~(At(v, "remove") /\ call[v].c = x)
    BY DEF Tidy
  <2>. QED BY <1>1, <2>1, <2>2 DEF At
<1>4. ASSUME NEW v \in Calls, Unlinks(call'[v], x), NEW u \in Calls \ {v}, Unlinks(call'[u], x)
      PROVE  FALSE
  BY <1>1, <1>4 DEF Tidy, Unlinks
<1>. QED BY <1>2, <1>3, <1>4 DEF Tidy, At

\* The membership of x is deleted: its group is cleared next.
LEMMA RemoveKeepsTidy ==
  ASSUME TypeOK, CallsShaped, NEW x \in Complaints, Tidy(x),
         NEW w \in Calls, NEW k \in Call,
         call' = [call EXCEPT ![w] = k],
         At(w, "remove"), Unlinks(call[w], x),
         k.step = "clear", k.op = call[w].op, k.c = x
  PROVE  Tidy(x)'
<1>1. call'[w] = k /\ \A v \in Calls \ {w} : call'[v] = call[v]
  BY DEF TypeOK
<1>2. Clearing(x)'
  BY <1>1 DEF Clearing, At
<1>3. \A v \in Calls \ {w} : ~Unlinks(call[v], x)
  BY DEF Tidy
<1>4. \A v \in Calls : ~Sets(call'[v], x)
  <2>1. \A v \in Calls : ~Sets(call[v], x)
    BY DEF Tidy, Unlinks
  <2>2. ~Sets(k, x)
    BY DEF Sets
  <2>. QED BY <1>1, <2>1, <2>2
<1>5. \A v \in Calls : ~(call'[v].step = "remove" /\ call'[v].c = x)
  <2>1. \A v \in Calls : At(v, "remove") => call[v].op = "unlink"
    BY DEF CallsShaped, Shaped, Idle, At
  <2>. QED BY <1>1, <1>3, <2>1 DEF Unlinks, At
<1>6. ASSUME NEW v \in Calls, Unlinks(call'[v], x), NEW u \in Calls \ {v}, Unlinks(call'[u], x)
      PROVE  FALSE
  BY <1>1, <1>3, <1>6
<1>. QED BY <1>2, <1>4, <1>5, <1>6 DEF Tidy, At

\* An unlinking of x begins and no other is in flight.
LEMMA UnlinkKeepsTidy ==
  ASSUME TypeOK, CallsShaped, NEW x \in Complaints, Tidy(x),
         NEW w \in Calls, NEW k \in Call,
         call' = [call EXCEPT ![w] = k],
         call[w] = Idle,
         complaint[x].groupId # NoGroup,
         \A v \in Calls : ~Unlinks(call[v], x),
         memberOf' = memberOf, complaint' = complaint,
         k.op = "unlink", k.step = "remove", k.c = x, k.g = complaint[x].groupId
  PROVE  Tidy(x)'
<1>1. call'[w] = k /\ \A v \in Calls \ {w} : call'[v] = call[v]
  BY DEF TypeOK
<1>2. ~Clearing(x)
  <2>1. \A v \in Calls : At(v, "clear") => call[v].op = "unlink"
    BY DEF CallsShaped, Shaped, Idle, At
  <2>. QED BY <2>1 DEF Clearing, Unlinks
<1>3. memberOf[x] = complaint[x].groupId
  BY <1>2 DEF Tidy
<1>4. \A v \in Calls : ~Sets(call'[v], x)
  <2>1. \A v \in Calls : ~Sets(call[v], x)
    BY <1>2 DEF Tidy
  <2>2. ~Sets(k, x)
    BY DEF Sets
  <2>. QED BY <1>1, <2>1, <2>2
<1>5. ASSUME NEW v \in Calls, call'[v].step = "remove", call'[v].c = x
      PROVE  memberOf'[x] = call'[v].g
  <2>1. CASE v = w
    BY <1>1, <1>3, <2>1
  <2>2. CASE v # w
    <3>1. At(v, "remove") /\ call[v].c = x
      BY <1>1, <1>5, <2>2 DEF At
    <3>2. call[v].op = "unlink"
      BY <3>1 DEF CallsShaped, Shaped, Idle, At
    <3>. QED BY <3>1, <3>2 DEF Unlinks
  <2>. QED BY <2>1, <2>2
<1>6. ASSUME NEW v \in Calls, Unlinks(call'[v], x), NEW u \in Calls \ {v}, Unlinks(call'[u], x)
      PROVE  FALSE
  BY <1>1, <1>6
<1>. QED BY <1>3, <1>4, <1>5, <1>6 DEF Tidy, At

-----------------------------------------------------------------------------
(* One lemma per kind of step.                                             *)

LEMMA BeginKeepsTidy ==
  ASSUME TypeOK, CallsShaped, GroupsAssumption, NEW x \in Complaints,
         Tidy(x), NEW w \in Calls, Begin(w)
  PROVE  Excused(x)' \/ Tidy(x)'
<1>1. ASSUME NEW k \in Call, call' = [call EXCEPT ![w] = k],
             call[w] = Idle, memberOf' = memberOf,
             \/ complaint'[x].groupId = NoGroup
             \/ complaint'[x].groupId = complaint[x].groupId,
             k.step \notin {"setPrimary", "setDup", "remove"},
             k.op # "unlink"
      PROVE  Tidy(x)'
  <2>1. ~(At(w, "clear") /\ call[w].c = x)
    BY <1>1 DEF Idle, At
  <2>. QED BY <1>1, <2>1, AloofKeepsTidy DEF Sets, Unlinks
<1>2. ASSUME NEW c \in Complaints, NEW level \in Asked, SubmitAtomic(w, c, level)
      PROVE  Tidy(x)'
  <2>1. level \in PriorityLevels
    BY DEF GroupsAssumption
  <2>2. PICK k \in Call : k = [Idle EXCEPT !.op = "submit", !.step = "match", !.c = c,
                                           !.level = level]
    BY <2>1 DEF Idle, Call, AllOps, Steps
  <2>3. k.step = "match" /\ k.op = "submit"
    BY <2>2 DEF Idle
  <2>4. call' = [call EXCEPT ![w] = k] /\ call[w] = Idle /\ memberOf' = memberOf
    BY <1>2, <2>2 DEF SubmitAtomic, Become, Enter
  <2>5. complaint'[x].groupId \in {NoGroup, complaint[x].groupId}
    BY <1>2 DEF SubmitAtomic, TypeOK, NoRow
  <2>. QED BY <1>1, <2>3, <2>4, <2>5
<1>3. ASSUME NEW c \in Complaints, NEW level \in Asked, BeginPriority(w, c, level)
      PROVE  Tidy(x)'
  <2>1. level \in PriorityLevels
    BY DEF GroupsAssumption
  <2>2. PICK k \in Call : k = [Idle EXCEPT !.op = "priority", !.step = "write", !.c = c,
                                           !.level = level]
    BY <2>1 DEF Idle, Call, AllOps, Steps
  <2>3. k.step = "write" /\ k.op = "priority"
    BY <2>2 DEF Idle
  <2>4. call' = [call EXCEPT ![w] = k] /\ call[w] = Idle /\ UNCHANGED tables
    BY <1>3, <2>2 DEF BeginPriority, Become, Enter
  <2>. QED BY <1>1, <2>3, <2>4 DEF tables
<1>4. ASSUME NEW p \in Complaints, NEW c \in Complaints, BeginLink(w, p, c)
      PROVE  Tidy(x)'
  <2>1. PICK j \in Call : j = [Idle EXCEPT !.op = "link", !.c = c, !.primary = p]
    BY LowIsLevel DEF Idle, Call, AllOps, Steps
  <2>2. j.op = "link" /\ j.c = c /\ j.primary = p
    BY <2>1 DEF Idle
  <2>3. PICK k \in Call : k = KnowsPrimary(j)
    BY <2>2, KnowsPrimaryShaped
  <2>4. k.step \in {"newGroup", "check"} /\ k.op = "link"
    BY <2>2, <2>3 DEF KnowsPrimary, Call
  <2>5. call' = [call EXCEPT ![w] = k] /\ call[w] = Idle /\ UNCHANGED tables
    BY <1>4, <2>1, <2>3 DEF BeginLink, Become, Enter
  <2>. QED BY <1>1, <2>4, <2>5 DEF tables
<1>5. ASSUME NEW c \in Complaints, BeginUnlink(w, c)
      PROVE  Excused(x)' \/ Tidy(x)'
  <2>1. complaint[c].groupId \in Groups
    BY <1>5 DEF BeginUnlink, TypeOK, Row
  <2>2. PICK k \in Call : k = [Idle EXCEPT !.op = "unlink", !.step = "remove", !.c = c,
                                           !.g = complaint[c].groupId]
    BY <2>1, LowIsLevel DEF Idle, Call, AllOps, Steps
  <2>3. k.op = "unlink" /\ k.step = "remove" /\ k.c = c /\ k.g = complaint[c].groupId
    BY <2>2 DEF Idle
  <2>4. call' = [call EXCEPT ![w] = k] /\ call[w] = Idle /\ UNCHANGED tables
    BY <1>5, <2>2 DEF BeginUnlink, Become, Enter
  <2>5. CASE c # x
    <3>1. ~(At(w, "clear") /\ call[w].c = x)
      BY <2>4 DEF Idle, At
    <3>2. ~Sets(k, x) /\ ~(k.step = "remove" /\ k.c = x) /\ ~Unlinks(k, x)
      BY <2>3, <2>5 DEF Sets, Unlinks
    <3>. QED BY <2>4, <3>1, <3>2, AloofKeepsTidy DEF tables
  <2>6. CASE c = x /\ \E v \in Calls : Unlinks(call[v], x)
    <3>1. x \in contested'
      BY <1>5, <2>6 DEF BeginUnlink, Unlinks
    <3>. QED BY <3>1 DEF Excused
  <2>7. CASE c = x /\ \A v \in Calls : ~Unlinks(call[v], x)
    <3>1. complaint[x].groupId # NoGroup
      BY <1>5, <2>7 DEF BeginUnlink
    <3>. QED BY <2>3, <2>4, <2>7, <3>1, UnlinkKeepsTidy DEF tables
  <2>. QED BY <2>5, <2>6, <2>7
<1>6. ASSUME NEW c \in Complaints, Delete(w, c)
      PROVE  Tidy(x)'
  <2>1. call' = [call EXCEPT ![w] = Idle] /\ call[w] = Idle /\ memberOf' = memberOf
    BY <1>6 DEF Delete, Enter, TypeOK
  <2>2. complaint'[x].groupId = complaint[x].groupId
    BY <1>6 DEF Delete, TypeOK, Row
  <2>. QED BY <1>1, <2>1, <2>2, IdleIsCall DEF Idle
<1>7. ASSUME NEW c \in Complaints, BeginEdit(w, c)
      PROVE  Tidy(x)'
  <2>1. PICK k \in Call : k = [Idle EXCEPT !.op = "edit", !.step = "edit", !.c = c]
    BY LowIsLevel DEF Idle, Call, AllOps, Steps
  <2>2. k.step = "edit" /\ k.op = "edit"
    BY <2>1 DEF Idle
  <2>3. call' = [call EXCEPT ![w] = k] /\ call[w] = Idle /\ UNCHANGED tables
    BY <1>7, <2>1 DEF BeginEdit, Become, Enter
  <2>. QED BY <1>1, <2>2, <2>3 DEF tables
<1>. QED BY <1>2, <1>3, <1>4, <1>5, <1>6, <1>7 DEF Begin

\* The steps of a call in flight that are not about to write either copy of x's
\* group end in one that keeps the call's operation and subject, or in Idle.
LEMMA ContinueAloof ==
  ASSUME TypeOK, CallsShaped, NEW x \in Complaints, Tidy(x), NEW w \in Calls, NEW k \in Call,
         call' = [call EXCEPT ![w] = k],
         memberOf'[x] = memberOf[x],
         complaint'[x].groupId = complaint[x].groupId,
         ~(At(w, "clear") /\ call[w].c = x),
         k = Idle \/ (k.op = call[w].op /\ k.c = call[w].c),
         ~Sets(k, x),
         k.step # "remove"
  PROVE  Tidy(x)'
<1>1. Unlinks(k, x) => Unlinks(call[w], x)
  BY DEF Unlinks, Idle
<1>. QED BY <1>1, AloofKeepsTidy

LEMMA ReturnAloof ==
  ASSUME TypeOK, CallsShaped, NEW x \in Complaints, Tidy(x), NEW w \in Calls, Return(w),
         memberOf' = memberOf,
         complaint'[x].groupId = complaint[x].groupId,
         ~(At(w, "clear") /\ call[w].c = x)
  PROVE  Tidy(x)'
<1>1. ~Sets(Idle, x) /\ Idle.step # "remove"
  BY DEF Sets, Idle
<1>. QED BY <1>1, IdleIsCall, ContinueAloof DEF Return, Become

\* Continuing a call.
LEMMA ContinueKeepsTidy ==
  ASSUME TypeOK, CallsShaped, GroupsAssumption, NEW x \in Complaints,
         Tidy(x), NEW w \in Calls, Continue(w)
  PROVE  Tidy(x)'
<1>. PICK j \in Call : j = call[w]
  BY DEF TypeOK
<1>1. j.step # "idle" => Shaped(j)
  BY DEF CallsShaped, Idle
\* Steps that change neither copy of x's group and do not begin to.
<1>2. ASSUME NEW k \in Call, call' = [call EXCEPT ![w] = k],
             k.op = j.op, k.c = j.c,
             k.step \notin {"setPrimary", "setDup", "remove"},
             j.step # "clear",
             memberOf' = memberOf,
             complaint'[x].groupId = complaint[x].groupId
      PROVE  Tidy(x)'
  <2>1. ~Sets(k, x) /\ ~(At(w, "clear") /\ call[w].c = x)
    BY <1>2 DEF Sets, At
  <2>. QED BY <1>2, <2>1, ContinueAloof
<1>3. ASSUME NEW step \in Steps \ {"setPrimary", "setDup", "remove"}, Goto(w, step),
             j.step # "clear", memberOf' = memberOf,
             complaint'[x].groupId = complaint[x].groupId
      PROVE  Tidy(x)'
  <2>1. PICK k \in Call : k = [j EXCEPT !.step = step]
    BY DEF Call
  <2>2. k.op = j.op /\ k.c = j.c /\ k.step = step
    BY <2>1 DEF Call
  <2>3. call' = [call EXCEPT ![w] = k]
    BY <1>3, <2>1 DEF Goto, Become
  <2>. QED BY <1>2, <1>3, <2>2, <2>3
<1>4. ASSUME NEW d \in Complaints, Match(w, d)
      PROVE  Tidy(x)'
  <2>1. PICK k \in Call : k = [j EXCEPT !.step = "primary", !.primary = d]
    BY DEF Call, Steps
  <2>2. k.op = j.op /\ k.c = j.c /\ k.step = "primary" /\ j.step # "clear"
    BY <1>4, <2>1 DEF Call, Match, At
  <2>3. call' = [call EXCEPT ![w] = k] /\ UNCHANGED tables
    BY <1>4, <2>1 DEF Match, Become
  <2>. QED BY <1>2, <2>2, <2>3 DEF tables
<1>5. ASSUME NoMatch(w) \/ InsertRejected(w)
      PROVE  Tidy(x)'
  <2>1. ~At(w, "clear") /\ Return(w) /\ UNCHANGED tables
    BY <1>5 DEF NoMatch, InsertRejected, At
  <2>. QED BY <2>1, ReturnAloof DEF tables
<1>6. ASSUME ReadPrimary(w)
      PROVE  Tidy(x)'
  <2>1. j.op \notin {"none", "unlink"} /\ j.c \in Complaints /\ j.primary \in Complaints
        /\ j.step # "clear"
    BY <1>1, <1>6 DEF Shaped, ReadPrimary, At
  <2>2. PICK k \in Call : k = KnowsPrimary(j)
    BY <2>1, KnowsPrimaryShaped
  <2>3. k.op = j.op /\ k.c = j.c /\ k.step \in {"newGroup", "check"}
    BY <2>2 DEF KnowsPrimary, Call
  <2>4. call' = [call EXCEPT ![w] = k] /\ UNCHANGED tables
    BY <1>6, <2>2 DEF ReadPrimary, Become
  <2>. QED BY <1>2, <2>1, <2>3, <2>4 DEF tables
<1>7. ASSUME NEW g \in Groups, NewGroup(w, g)
      PROVE  Tidy(x)'
  <2>1. PICK k \in Call : k = [j EXCEPT !.step = "addPrimary", !.g = g]
    BY DEF Call, Steps
  <2>2. k.op = j.op /\ k.c = j.c /\ k.step = "addPrimary" /\ j.step # "clear"
    BY <1>7, <2>1 DEF Call, NewGroup, At
  <2>3. call' = [call EXCEPT ![w] = k] /\ memberOf' = memberOf /\ complaint' = complaint
    BY <1>7, <2>1 DEF NewGroup, Become
  <2>. QED BY <1>2, <2>2, <2>3
<1>8. ASSUME AddPrimary(w) \/ AddDup(w)
      PROVE  Tidy(x)'
  <2>. PICK step \in {"setPrimary", "setDup"} : step = IF j.step = "addPrimary" THEN "setPrimary" ELSE "setDup"
    OBVIOUS
  <2>. DEFINE y == IF j.step = "addPrimary" THEN j.primary ELSE j.c
  <2>1. /\ j.step \in {"addPrimary", "addDup"}
        /\ y \in Complaints
        /\ j.g \in Groups
        /\ j.op # "unlink"
    BY <1>1, <1>8 DEF Shaped, AddPrimary, AddDup, At
  <2>2. PICK k \in Call : k = [j EXCEPT !.step = step]
    <3>1. step \in Steps
      BY DEF Steps
    <3>2. [j EXCEPT !.step = step] \in Call
      BY <3>1 DEF Call
    <3>. QED BY <3>2
  <2>3. k.op = j.op /\ k.c = j.c /\ k.g = j.g /\ k.primary = j.primary /\ k.step = step
    BY <2>2 DEF Call
  <2>4. /\ call' = [call EXCEPT ![w] = k]
        /\ complaint' = complaint
        /\ memberOf[y] = NoGroup
        /\ memberOf' = [memberOf EXCEPT ![y] = j.g]
    BY <1>8, <2>2 DEF AddPrimary, AddDup, Goto, Become, At
  <2>5. ~At(w, "clear") /\ k.step \in {"setPrimary", "setDup"}
    BY <2>1, <2>3 DEF At
  <2>6. CASE x = y
    <3>1. memberOf'[x] = k.g
      BY <2>1, <2>3, <2>4, <2>6 DEF TypeOK
    <3>. QED BY <2>1, <2>3, <2>4, <2>5, <2>6, <3>1, JoinKeepsTidy
  <2>7. CASE x # y
    <3>1. memberOf'[x] = memberOf[x]
      BY <2>4, <2>7 DEF TypeOK
    <3>2. ~Sets(k, x) /\ k.step # "remove"
      BY <2>1, <2>3, <2>7 DEF Sets
    <3>. QED BY <2>3, <2>4, <2>5, <3>1, <3>2, ContinueAloof
  <2>. QED BY <2>6, <2>7
<1>9. ASSUME SetPrimary(w) \/ SetDup(w)
      PROVE  Tidy(x)'
  <2>. PICK step \in {"check", "count"} : step = IF j.step = "setPrimary" THEN "check" ELSE "count"
    OBVIOUS
  <2>. DEFINE y == IF j.step = "setPrimary" THEN j.primary ELSE j.c
  <2>1. /\ j.step \in {"setPrimary", "setDup"}
        /\ y \in Complaints
        /\ j.g \in Groups
        /\ j.op # "unlink"
    BY <1>1, <1>9 DEF Shaped, SetPrimary, SetDup, At
  <2>2. PICK k \in Call : k = [j EXCEPT !.step = step]
    BY DEF Call, Steps
  <2>3. k.op = j.op /\ k.c = j.c /\ k.step = step /\ k.step \in {"check", "count"}
    BY <2>2 DEF Call
  <2>4. /\ call' = [call EXCEPT ![w] = k]
        /\ memberOf' = memberOf
        /\ complaint' = [complaint EXCEPT ![y].groupId = j.g]
    BY <1>9, <2>2 DEF SetPrimary, SetDup, Goto, Become, At
  <2>5. CASE x = y
    <3>1. complaint'[x].groupId = j.g
      BY <2>1, <2>4, <2>5 DEF TypeOK, Row
    <3>2. Sets(j, x)
      BY <2>1, <2>5 DEF Sets
    <3>. QED BY <2>1, <2>3, <2>4, <3>1, <3>2, SetKeepsTidy
  <2>6. CASE x # y
    <3>1. complaint'[x].groupId = complaint[x].groupId
      BY <2>4, <2>6 DEF TypeOK
    <3>. QED BY <1>2, <2>1, <2>3, <2>4, <3>1
  <2>. QED BY <2>5, <2>6
<1>10. ASSUME CheckMember(w)
       PROVE  Tidy(x)'
  <2>1. Goto(w, "count") \/ Goto(w, "addDup")
    BY <1>10 DEF CheckMember
  <2>2. j.step # "clear" /\ UNCHANGED tables
    BY <1>10 DEF CheckMember, At
  <2>. QED BY <1>3, <2>1, <2>2 DEF Steps, tables
<1>11. ASSUME CountMembers(w)
       PROVE  Tidy(x)'
  <2>1. PICK k \in Call : k = [j EXCEPT !.step = "store", !.seen = Members(j.g)]
    BY DEF Call, Steps, Members
  <2>2. k.op = j.op /\ k.c = j.c /\ k.step = "store" /\ j.step # "clear"
    BY <1>11, <2>1 DEF Call, CountMembers, At
  <2>3. call' = [call EXCEPT ![w] = k] /\ UNCHANGED tables
    BY <1>11, <2>1 DEF CountMembers, Become
  <2>. QED BY <1>2, <2>2, <2>3 DEF tables
<1>12. ASSUME StoreCount(w)
       PROVE  Tidy(x)'
  <2>1. Goto(w, "size") \/ Return(w)
    BY <1>12 DEF StoreCount
  <2>2. j.step # "clear" /\ ~At(w, "clear") /\ memberOf' = memberOf /\ complaint' = complaint
    BY <1>12 DEF StoreCount, At
  <2>. QED BY <1>3, <2>1, <2>2, ReturnAloof DEF Steps
<1>13. ASSUME ReadSize(w)
       PROVE  Tidy(x)'
  <2>1. PICK n \in Nat : n = Cardinality(Members(j.g))
    BY SizeType DEF Members
  <2>2. PICK level \in PriorityLevels : level = CalculateAutoPriority(n, j.level)
    BY AutoIsLevel DEF Call
  <2>3. PICK k \in Call : k = [j EXCEPT !.step = "own", !.seen = Members(j.g), !.level = level]
    BY DEF Call, Steps, Members
  <2>4. k.op = j.op /\ k.c = j.c /\ k.step = "own" /\ j.step # "clear"
    BY <1>13, <2>3 DEF Call, ReadSize, At
  <2>5. call' = [call EXCEPT ![w] = k] /\ UNCHANGED tables
    BY <1>13, <2>1, <2>2, <2>3 DEF ReadSize, Become
  <2>. QED BY <1>2, <2>4, <2>5 DEF tables
<1>14. ASSUME NEW todo \in SUBSET Complaints, Raise(w, todo), j.step # "clear",
              memberOf' = memberOf,
              complaint'[x].groupId = complaint[x].groupId
       PROVE  Tidy(x)'
  <2>1. CASE Return(w)
    BY <1>14, <2>1, ReturnAloof DEF At
  <2>2. CASE Become(w, [j EXCEPT !.step = "escalate", !.seen = todo])
    <3>1. PICK k \in Call : k = [j EXCEPT !.step = "escalate", !.seen = todo]
      BY DEF Call, Steps
    <3>2. k.op = j.op /\ k.c = j.c /\ k.step = "escalate"
      BY <3>1 DEF Call
    <3>3. call' = [call EXCEPT ![w] = k]
      BY <2>2, <3>1 DEF Become
    <3>. QED BY <1>2, <1>14, <3>2, <3>3
  <2>. QED BY <1>14, <2>1, <2>2 DEF Raise
<1>15. ASSUME NEW c, NEW level, SetPriority(c, level)
       PROVE  complaint'[x].groupId = complaint[x].groupId
  BY <1>15 DEF SetPriority, TypeOK, Row
<1>16. ASSUME WriteOwn(w)
       PROVE  Tidy(x)'
  <2>1. j.seen \subseteq Complaints /\ j.step # "clear" /\ memberOf' = memberOf
    BY <1>16 DEF Call, WriteOwn, At
  <2>2. Raise(w, j.seen \ {j.c}) \/ Raise(w, {})
    BY <1>16 DEF WriteOwn
  <2>3. complaint'[x].groupId = complaint[x].groupId
    BY <1>15, <1>16 DEF WriteOwn
  <2>. QED BY <1>14, <2>1, <2>2, <2>3
<1>17. ASSUME NEW m \in Complaints, Escalate(w, m) \/ EscalationFails(w, m)
       PROVE  Tidy(x)'
  <2>1. j.seen \subseteq Complaints /\ j.step # "clear" /\ memberOf' = memberOf
    BY <1>17 DEF Call, Escalate, EscalationFails, At, tables
  <2>2. Raise(w, j.seen \ {m})
    BY <1>17 DEF Escalate, EscalationFails
  <2>3. complaint'[x].groupId = complaint[x].groupId
    BY <1>15, <1>17 DEF Escalate, EscalationFails, tables
  <2>. QED BY <1>14, <2>1, <2>2, <2>3
<1>18. ASSUME RemoveMember(w)
       PROVE  Tidy(x)'
  <2>1. j.step = "remove" /\ j.op = "unlink" /\ j.c \in Complaints
    BY <1>1, <1>18 DEF RemoveMember, At, Shaped
  <2>2. PICK k \in Call : k = [j EXCEPT !.step = "clear"]
    BY DEF Call, Steps
  <2>3. k.op = j.op /\ k.c = j.c /\ k.step = "clear"
    BY <2>2 DEF Call
  <2>4. call' = [call EXCEPT ![w] = k] /\ complaint' = complaint
    BY <1>18, <2>2 DEF RemoveMember, Goto, Become
  <2>5. CASE x = j.c
    BY <2>1, <2>3, <2>4, <2>5, RemoveKeepsTidy DEF At, Unlinks
  <2>6. CASE x # j.c
    <3>1. memberOf'[x] = memberOf[x]
      BY <1>18, <2>6 DEF RemoveMember, TypeOK
    <3>2. ~Sets(k, x) /\ ~(At(w, "clear") /\ call[w].c = x)
      BY <2>1, <2>3 DEF Sets, At
    <3>. QED BY <2>3, <2>4, <3>1, <3>2, ContinueAloof
  <2>. QED BY <2>5, <2>6
<1>19. ASSUME ClearGroup(w)
       PROVE  Tidy(x)'
  <2>1. j.step = "clear" /\ j.op = "unlink" /\ j.c \in Complaints
    BY <1>1, <1>19 DEF ClearGroup, At, Shaped
  <2>2. PICK k \in Call : k = [j EXCEPT !.step = "count"]
    BY DEF Call, Steps
  <2>3. k.op = j.op /\ k.c = j.c /\ k.step = "count"
    BY <2>2 DEF Call
  <2>4. /\ call' = [call EXCEPT ![w] = k]
        /\ memberOf' = memberOf
        /\ complaint' = [complaint EXCEPT ![j.c].groupId = NoGroup]
    BY <1>19, <2>2 DEF ClearGroup, Goto, Become
  <2>5. ~Sets(k, x) /\ k.step # "remove" /\ (Unlinks(k, x) => Unlinks(call[w], x))
    BY <2>3 DEF Sets, Unlinks
  <2>6. CASE x = j.c
    <3>1. complaint'[x].groupId = NoGroup
      BY <2>4, <2>6 DEF TypeOK, Row
    <3>. QED BY <2>4, <2>5, <3>1, AloofKeepsTidy
  <2>7. CASE x # j.c
    <3>1. complaint'[x].groupId = complaint[x].groupId
      BY <2>4, <2>7 DEF TypeOK
    <3>. QED BY <2>3, <2>4, <2>5, <2>7, <3>1, ContinueAloof
  <2>. QED BY <2>6, <2>7
<1>20. ASSUME WritePriority(w)
       PROVE  Tidy(x)'
  <2>1. ~At(w, "clear") /\ Return(w) /\ memberOf' = memberOf
    BY <1>20 DEF WritePriority, At
  <2>2. complaint'[x].groupId = complaint[x].groupId
    BY <1>20 DEF WritePriority, TypeOK, Row
  <2>. QED BY <2>1, <2>2, ReturnAloof
<1>21. ASSUME NEW b \in Buckets, WriteEdit(w, b)
       PROVE  Tidy(x)'
  <2>1. ~At(w, "clear") /\ Return(w) /\ memberOf' = memberOf /\ complaint' = complaint
    BY <1>21 DEF WriteEdit, At
  <2>. QED BY <2>1, ReturnAloof
<1>. QED BY <1>4, <1>5, <1>6, <1>7, <1>8, <1>9, <1>10, <1>11, <1>12, <1>13, <1>16, <1>17,
            <1>18, <1>19, <1>20, <1>21 DEF Continue

\* A call dies.
LEMMA FailKeepsTidy ==
  ASSUME TypeOK, CallsShaped, NEW x \in Complaints, Tidy(x), NEW w \in Calls, Fail(w)
  PROVE  Excused(x)' \/ Tidy(x)'
<1>1. Return(w) /\ UNCHANGED tables
  BY DEF Fail
<1>2. CASE At(w, "clear") /\ call[w].c = x
  <2>1. call[w].g \in Groups
    BY <1>2 DEF CallsShaped, Shaped, Idle, At
  <2>2. <<x, call[w].g, "clear">> \in aborted'
    BY <1>2 DEF Fail, At
  <2>. QED BY <2>1, <2>2 DEF Excused
<1>3. CASE ~(At(w, "clear") /\ call[w].c = x)
  BY <1>1, <1>3, ReturnAloof DEF tables
<1>. QED BY <1>2, <1>3

\* The ghosts that excuse only grow.
LEMMA GhostsGrow ==
  ASSUME TypeOK, [Next]_vars
  PROVE  aborted \subseteq aborted' /\ contested \subseteq contested'
<1>1. ASSUME NEW w \in Calls, Begin(w)
      PROVE  aborted \subseteq aborted' /\ contested \subseteq contested'
  BY <1>1 DEF Begin, SubmitAtomic, BeginPriority, BeginEdit, BeginLink, BeginUnlink, Delete, Enter
<1>2. ASSUME NEW w \in Calls, Continue(w)
      PROVE  aborted \subseteq aborted' /\ contested \subseteq contested'
  BY <1>2 DEF Continue, Match, NoMatch, ReadPrimary, NewGroup, AddPrimary, SetPrimary,
              CheckMember, AddDup, InsertRejected, SetDup, CountMembers, StoreCount,
              ReadSize, WriteOwn, Escalate, EscalationFails, RemoveMember, ClearGroup,
              WritePriority, WriteEdit, ghosts
<1>3. ASSUME NEW w \in Calls, Fail(w)
      PROVE  aborted \subseteq aborted' /\ contested \subseteq contested'
  BY <1>3 DEF Fail
<1>. QED BY <1>1, <1>2, <1>3 DEF Next, vars

LEMMA GroupStep ==
  ASSUME TypeOK, GroupInv, GroupsAssumption, [Next]_vars
  PROVE  GroupInv'
<1>1. CallsShaped
  BY DEF GroupInv, CallsShaped
<1>2. CallsShaped'
  BY <1>1, TypeStep
<1>3. ASSUME NEW x \in Complaints
      PROVE  Excused(x)' \/ Tidy(x)'
  <2>1. CASE Excused(x)
    BY <2>1, GhostsGrow, ExcusedStays
  <2>2. CASE Tidy(x)
    <3>1. CASE UNCHANGED vars
      BY <2>2, <3>1 DEF vars, Tidy, Clearing, At, Sets, Unlinks
    <3>. QED BY <1>1, <2>2, <3>1, BeginKeepsTidy, ContinueKeepsTidy, FailKeepsTidy DEF Next
  <2>. QED BY <2>1, <2>2 DEF GroupInv
<1>. QED BY <1>2, <1>3 DEF GroupInv, CallsShaped

LEMMA GroupInit ==
  ASSUME GroupsAssumption, Init
  PROVE  GroupInv
<1>1. ASSUME NEW x \in Complaints
      PROVE  complaint[x].groupId \in {NoGroup, memberOf[x]}
  <2>1. NoRow.groupId = NoGroup
    BY DEF NoRow
  <2>2. \A first : SeedRow(x, first).groupId = SeedGroup
    BY DEF SeedRow, NoRow
  <2>. QED BY <2>1, <2>2 DEF Init
<1>2. \A w \in Calls : call[w] = Idle
  BY DEF Init
<1>3. \A w \in Calls : call[w].step = "idle" /\ call[w].op = "none"
  BY <1>2 DEF Idle
<1>. QED BY <1>1, <1>2, <1>3 DEF GroupInv, Tidy, Sets, Unlinks, At

\* In every reachable state every variable has its type and the two copies of a
\* complaint's group agree up to the calls that stand between them, for any
\* number of complaints, groups and calls in flight.
THEOREM GroupsCorrect == Spec => [](TypeOK /\ GroupInv)
<1>1. Init => TypeOK /\ GroupInv
  BY TypeInit, GroupInit, GroupsAssumption
<1>2. TypeOK /\ GroupInv /\ [Next]_vars => (TypeOK /\ GroupInv)'
  <2>1. GroupInv => CallsShaped
    BY DEF GroupInv, CallsShaped
  <2>. QED BY <2>1, TypeStep, GroupStep, GroupsAssumption
<1>. QED BY <1>1, <1>2, PTL DEF Spec

\* No complaint vanishes from the staff's list and from the groups at once, but
\* for an unlinking cut between its two writes and for overlapping unlinkings.
THEOREM NothingHiddenTheorem == Spec => []NothingHidden
<1>1. GroupInv => NothingHidden
  BY DEF GroupInv, NothingHidden, Tidy
<1>. QED BY <1>1, GroupsCorrect, PTL

-----------------------------------------------------------------------------
(* Submissions that nobody's linking or unlinking disturbs: what they keep *)
(* true of the groups.                                                     *)

\* Nobody links or unlinks by hand: what is left are submissions, changes of
\* priority and deletions.
NoLinking == Ops \cap {"link", "unlink"} = {}

\* The steps of a submission that has found a complaint to join, that has a
\* group in hand, whose primary complaint is in it, and that is in it itself.
Joining   == Steps \ {"idle", "match", "write", "edit"}
HasGroup  == Joining \ {"primary", "newGroup"}
PrimaryIn == HasGroup \ {"addPrimary"}
JoinedIn  == PrimaryIn \ {"setPrimary", "check", "addDup"}

SubmitTrue(k) ==
  /\ k.op \notin {"link", "unlink"}
  /\ k.step \notin {"idle", "write", "edit"} => k.op = "submit" /\ Exists(k.c)
  /\ k.step \in Joining => /\ k.primary \in Complaints \ {k.c}
                           /\ Exists(k.primary)
                           /\ k.primary \in moved \/ Bucket[k.primary] = Bucket[k.c]
                           /\ Bucket[k.c] # NoBucket
  /\ IF k.step \in HasGroup THEN k.g \in created ELSE k.g = NoGroup
  /\ k.step \in PrimaryIn => memberOf[k.primary] = k.g
  /\ k.step \in JoinedIn => memberOf[k.c] = k.g
  /\ k.step = "store" => k.seen \subseteq Members(k.g)

\* The group a call has opened is empty, and no other call knows it.
Fresh(w) == At(w, "addPrimary") => /\ Members(call[w].g) = {}
                                   /\ \A v \in Calls \ {w} : call[v].g # call[w].g

\* x is in a group that exists, and points to no other.
Placed(x) == /\ memberOf[x] # NoGroup => Exists(x) /\ memberOf[x] \in created
             /\ complaint[x].groupId \in {NoGroup, memberOf[x]}

\* x still has the bucket it was filed with, unless an edit moved it.
Filed(x) == x \in moved \/ bucket[x] = Bucket[x]

\* The members of a group that no edit has moved any of were filed alike.
GroupsFiled ==
  \A c, d \in Complaints :
    memberOf[c] = memberOf[d] /\ memberOf[c] # NoGroup /\ Members(memberOf[c]) \cap moved = {} =>
      Bucket[c] = Bucket[d] /\ Bucket[c] # NoBucket

SubmitInv ==
  /\ \A w \in Calls : SubmitTrue(call[w]) /\ Fresh(w)
  /\ \A x \in Complaints : Placed(x) /\ Filed(x)
  /\ GroupsFiled

\* A count above one is below the size of its group.
CountInv ==
  /\ CountNeverOver
  /\ \A g \in Groups : dupCount[g] <= 1 \/ dupCount[g] < Cardinality(Members(g))

\* Call k is going to raise c, a member of its group.
WillRaise(k, c) == \/ k.step \in {"setDup", "count", "store", "size"}
                   \/ k.step = "own" /\ c \in k.seen /\ Cardinality(k.seen) >= 4
                   \/ k.step = "escalate" /\ c \in k.seen

\* A call that has counted four members, or is raising them, has a level for them
\* that is at least what the group is due.
LevelRight(k) ==
  /\ k.step \in {"own", "escalate"} => k.seen \subseteq Members(k.g)
  /\ k.step = "own" /\ Cardinality(k.seen) >= 4 => k.level >= Due(k.g)
  /\ k.step = "escalate" => k.level >= Due(k.g)

\* The call of a complaint that none has overlapped is alone, and what it has read
\* of its group is still so.
AloneRight(w) ==
  call[w] # Idle /\ call[w].c \notin overlapped =>
    /\ \A v \in Calls \ {w} : call[v] = Idle
    /\ At(w, "own") => call[w].seen = Members(call[w].g)

\* A member of four or more that no call has overlapped has the minimum it is
\* due, or a call that has not failed is going to give it that.
Raised(c, g) ==
  memberOf[c] = g /\ Cardinality(Members(g)) >= 4 /\ c \notin overlapped =>
    \/ complaint[c].auto >= Due(g)
    \/ \E w \in Calls : call[w].g = g /\ WillRaise(call[w], c)
    \/ \E a \in aborted : a[2] = g

RaiseInv ==
  /\ \A w \in Calls : LevelRight(call[w]) /\ AloneRight(w)
  /\ \A g \in Groups, c \in Complaints : Raised(c, g)

Surfaces(b) ==
  \/ \E e \in Complaints : Bucket[e] = b /\ memberOf[e] # NoGroup
  \/ \E w \in Calls : /\ call[w].step \in {"match", "primary", "newGroup", "addPrimary"}
                      /\ Bucket[call[w].c] = b

SurfaceInv ==
  /\ \A x \in Complaints : ~complaint[x].deleted
  /\ aborted = {} /\ moved = {} =>
       \A c, d \in Complaints :
         c # d /\ Exists(c) /\ Exists(d) /\ Bucket[c] = Bucket[d] /\ Bucket[c] # NoBucket
         => Surfaces(Bucket[c])

-----------------------------------------------------------------------------
(* Calls that never overlap.                                               *)
Alone == \A v, w \in Calls : call[v] # Idle /\ call[w] # Idle => v = w

FloorInv ==
  overlapped = {} =>
    /\ Alone
    /\ \A c \in Complaints : complaint[c].priority >= complaint[c].auto
    /\ \A w \in Calls : At(w, "write") => call[w].level >= complaint[call[w].c].auto

\* duplicate_count of g is what counting the members S gives.
CountsTo(g, S) == dupCount[g] = IF S = {} THEN 0 ELSE Cardinality(S) - 1

\* The steps of a call that is still going to count its group.
Counting == {"addPrimary", "setPrimary", "check", "addDup", "setDup", "remove", "clear",
             "count", "store"}

\* g has its count, or a call that has it in hand, or one that had was rejected or died.
Counted(g) ==
  \/ CountsTo(g, Members(g))
  \/ g \in rejected
  \/ \E c \in Complaints, step \in Steps : <<c, g, step>> \in aborted
  \/ \E w \in Calls : call[w].g = g /\ call[w].step \in Counting

ExactInv ==
  overlapped = {} =>
    /\ Alone
    /\ \A w \in Calls : At(w, "store") => call[w].seen = Members(call[w].g)
    /\ \A g \in created : Counted(g)

-----------------------------------------------------------------------------
LEMMA OpsUsed ==
  ASSUME NoLinking, NEW w \in Calls, NEW c, NEW p
  PROVE  ~BeginLink(w, p, c) /\ ~BeginUnlink(w, c)
BY DEF NoLinking, BeginLink, BeginUnlink, Enter

\* Only the write of an edit moves a complaint.
LEMMA EditStep ==
  ASSUME TypeOK, NEW w \in Calls, Begin(w) \/ Continue(w) \/ Fail(w)
  PROVE  \/ UNCHANGED <<bucket, moved>>
         \/ \E b \in Buckets : WriteEdit(w, b)
<1>1. ASSUME Begin(w)
      PROVE  UNCHANGED <<bucket, moved>>
  BY <1>1 DEF Begin, SubmitAtomic, BeginPriority, BeginEdit, BeginLink, BeginUnlink, Delete, Enter,
              tables
<1>2. ASSUME Continue(w) \/ Fail(w), ~\E b \in Buckets : WriteEdit(w, b)
      PROVE  UNCHANGED <<bucket, moved>>
  BY <1>2 DEF Continue, Match, NoMatch, ReadPrimary, NewGroup, AddPrimary, SetPrimary,
              CheckMember, AddDup, InsertRejected, SetDup, CountMembers, StoreCount,
              ReadSize, WriteOwn, Escalate, EscalationFails, RemoveMember, ClearGroup,
              WritePriority, tables, ghosts, Fail
<1>. QED BY <1>1, <1>2

LEMMA MovedGrows ==
  ASSUME TypeOK, NEW w \in Calls, Begin(w) \/ Continue(w) \/ Fail(w)
  PROVE  moved \subseteq moved'
BY EditStep DEF WriteEdit

LEMMA FiledStep ==
  ASSUME TypeOK, NEW w \in Calls, Begin(w) \/ Continue(w) \/ Fail(w),
         NEW x \in Complaints, Filed(x)
  PROVE  Filed(x)'
<1>1. ASSUME NEW b \in Buckets, WriteEdit(w, b)
      PROVE  Filed(x)'
  BY <1>1 DEF WriteEdit, Filed, TypeOK
<1>. QED BY <1>1, EditStep DEF Filed

\* Without unlinking, complaints, memberships and groups stay.
Kept ==
  /\ \A x \in Complaints : Exists(x) => Exists(x)'
  /\ \A x \in Complaints : memberOf[x] # NoGroup => memberOf'[x] = memberOf[x]
  /\ created \subseteq created'
  /\ moved \subseteq moved'

LEMMA BeginKeeps ==
  ASSUME TypeOK, NoLinking, NEW w \in Calls, Begin(w)
  PROVE  Kept
<1>0. moved \subseteq moved'
  BY MovedGrows
<1>1. ASSUME NEW c \in Complaints, NEW level \in Asked, SubmitAtomic(w, c, level)
      PROVE  Kept
  BY <1>1, <1>0 DEF SubmitAtomic, Kept, Exists, TypeOK
<1>2. ASSUME NEW c \in Complaints, NEW level \in Asked, BeginPriority(w, c, level)
      PROVE  Kept
  BY <1>2, <1>0 DEF BeginPriority, Kept, Exists, TypeOK, tables
<1>3. ASSUME NEW c \in Complaints, Delete(w, c)
      PROVE  Kept
  BY <1>3, <1>0 DEF Delete, Kept, Exists, TypeOK, Row
<1>4. ASSUME NEW c \in Complaints, BeginEdit(w, c)
      PROVE  Kept
  BY <1>4, <1>0 DEF BeginEdit, Kept, Exists, TypeOK, tables
<1>. QED BY <1>1, <1>2, <1>3, <1>4, OpsUsed DEF Begin

LEMMA ContinueKeeps ==
  ASSUME TypeOK, NEW w \in Calls, Continue(w) \/ Fail(w), call[w].step # "remove"
  PROVE  Kept
<1>0. moved \subseteq moved'
  BY MovedGrows
<1>1. ASSUME complaint' = complaint, memberOf' = memberOf, created \subseteq created'
      PROVE  Kept
  BY <1>0, <1>1 DEF Kept, Exists
<1>2. ASSUME NEW d \in Complaints, Match(w, d)
      PROVE  Kept
  BY <1>1, <1>2 DEF Match, tables
<1>3. ASSUME NEW g \in Groups, NewGroup(w, g)
      PROVE  Kept
  BY <1>1, <1>3 DEF NewGroup
<1>5. ASSUME AddPrimary(w) \/ AddDup(w)
      PROVE  Kept
  BY <1>0, <1>5 DEF AddPrimary, AddDup, Kept, Exists, TypeOK
<1>6. ASSUME SetPrimary(w) \/ SetDup(w) \/ ClearGroup(w)
      PROVE  Kept
  BY <1>0, <1>6 DEF SetPrimary, SetDup, ClearGroup, Kept, Exists, TypeOK, Row
<1>7. ASSUME NEW c, NEW level, SetPriority(c, level), memberOf' = memberOf, created' = created
      PROVE  Kept
  BY <1>0, <1>7 DEF SetPriority, Kept, Exists, TypeOK, Row
<1>8. ASSUME WritePriority(w)
      PROVE  Kept
  BY <1>0, <1>8 DEF WritePriority, Kept, Exists, TypeOK, Row
<1>9. ASSUME \/ NoMatch(w) \/ ReadPrimary(w) \/ CheckMember(w) \/ InsertRejected(w)
             \/ CountMembers(w) \/ StoreCount(w) \/ ReadSize(w) \/ Fail(w)
             \/ (\E m \in Complaints : EscalationFails(w, m))
             \/ \E b \in Buckets : WriteEdit(w, b)
      PROVE  Kept
  BY <1>1, <1>9 DEF NoMatch, ReadPrimary, CheckMember, InsertRejected, CountMembers,
                    StoreCount, ReadSize, Fail, EscalationFails, WriteEdit, tables
<1>10. ASSUME WriteOwn(w) \/ \E m \in Complaints : Escalate(w, m)
       PROVE  Kept
  BY <1>7, <1>10 DEF WriteOwn, Escalate
<1>11. ~RemoveMember(w)
  BY DEF RemoveMember, At
<1>. QED BY <1>2, <1>3, <1>5, <1>6, <1>8, <1>9, <1>10, <1>11 DEF Continue

\* What the other calls rely on stays.
LEMMA SubmitTrueStays ==
  ASSUME TypeOK, Kept, NEW k \in Call, k = Idle \/ Shaped(k), SubmitTrue(k), GroupsAssumption
  PROVE  SubmitTrue(k)'
<1>1. k.step \notin {"idle", "write", "edit"} => k.c \in Complaints
  BY DEF Shaped, Idle
<1>2. k.step \in HasGroup => k.g # NoGroup
  BY DEF Shaped, Idle, HasGroup, Joining, Steps, GroupsAssumption
<1>3. JoinedIn \subseteq PrimaryIn /\ PrimaryIn \subseteq HasGroup /\ HasGroup \subseteq Joining
      /\ "store" \in JoinedIn /\ Joining \subseteq Steps \ {"idle", "write", "edit"}
  BY DEF JoinedIn, PrimaryIn, HasGroup, Joining, Steps
<1>4. k.step \notin {"idle", "write", "edit"} => Exists(k.c)'
  BY <1>1 DEF SubmitTrue, Kept
<1>5. k.step \in Joining => Exists(k.primary)'
  BY DEF SubmitTrue, Kept
<1>6. k.step \in PrimaryIn => memberOf'[k.primary] = k.g
  BY <1>2, <1>3 DEF SubmitTrue, Kept
<1>7. k.step \in JoinedIn => memberOf'[k.c] = k.g
  BY <1>1, <1>2, <1>3 DEF SubmitTrue, Kept
<1>8. k.step = "store" => k.seen \subseteq Members(k.g)'
  BY <1>2, <1>3 DEF SubmitTrue, Kept, Members
<1>. QED BY <1>4, <1>5, <1>6, <1>7, <1>8 DEF SubmitTrue, Kept

LEMMA StepSets ==
  /\ JoinedIn = {"setDup", "count", "store", "size", "own", "escalate", "remove", "clear"}
  /\ PrimaryIn = {"setPrimary", "check", "addDup"} \union JoinedIn
  /\ HasGroup = {"addPrimary"} \union PrimaryIn
  /\ Joining = {"primary", "newGroup"} \union HasGroup
BY DEF Steps, JoinedIn, PrimaryIn, HasGroup, Joining

LEMMA IdleSubmitTrue == SubmitTrue(Idle)'
BY StepSets DEF SubmitTrue, Idle

\* The call that makes the step.
LEMMA ContinueSubmitTrue ==
  ASSUME TypeOK, CallsShaped, SubmitInv, GroupsAssumption, NEW w \in Calls, Continue(w)
  PROVE  SubmitTrue(call[w])'
<1>. PICK k \in Call : k = call[w]
  BY DEF TypeOK
<1>1. /\ SubmitTrue(k)
      /\ k.step # "idle" => Shaped(k)
      /\ \A x \in Complaints : Placed(x) /\ Filed(x)
      /\ k.step # "remove"
  BY DEF SubmitInv, CallsShaped, Idle, Shaped, SubmitTrue
<1>2. Kept
  BY <1>1, ContinueKeeps
<1>3. ASSUME Return(w)
      PROVE  SubmitTrue(call[w])'
  BY <1>3, IdleSubmitTrue DEF Return, Become, TypeOK
<1>4. ASSUME NEW j \in Call, call' = [call EXCEPT ![w] = j],
             j.op = k.op, j.c = k.c, j.primary = k.primary, j.g = k.g,
             k.step \in HasGroup, j.step \in HasGroup,
             j.step \in PrimaryIn => memberOf'[j.primary] = j.g,
             j.step \in JoinedIn => memberOf'[j.c] = j.g,
             j.step = "store" => j.seen \subseteq Members(j.g)'
      PROVE  SubmitTrue(call[w])'
  <2>1. Exists(k.c)' /\ Exists(k.primary)'
    BY <1>1, <1>2, <1>4, StepSets DEF SubmitTrue, Kept, Shaped
  <2>2. SubmitTrue(j)'
    BY <1>1, <1>2, <1>4, <2>1, StepSets DEF SubmitTrue, Kept
  <2>. QED BY <1>4, <2>2 DEF TypeOK
<1>5. ASSUME NEW d \in Complaints, Match(w, d)
      PROVE  SubmitTrue(call[w])'
  <2>1. PICK j \in Call : j = [k EXCEPT !.step = "primary", !.primary = d]
    BY DEF Call, Steps
  <2>2. /\ j.op = k.op /\ j.c = k.c /\ j.step = "primary" /\ j.primary = d /\ j.g = k.g
        /\ k.step = "match"
        /\ call'[w] = j
    BY <1>5, <2>1 DEF Match, At, Become, Call, TypeOK
  <2>3. /\ d \in Complaints \ {k.c}
        /\ Exists(d)
        /\ d \in moved' \/ Bucket[d] = Bucket[k.c]
        /\ Bucket[k.c] # NoBucket
    BY <1>1, <1>2, <1>5 DEF Match, Matches, Filed, Kept
  <2>4. Exists(k.c)' /\ Exists(d)'
    BY <1>1, <1>2, <2>2, <2>3 DEF SubmitTrue, Kept, Shaped
  <2>. QED BY <1>1, <2>2, <2>3, <2>4, StepSets DEF SubmitTrue
<1>6. ASSUME ReadPrimary(w)
      PROVE  SubmitTrue(call[w])'
  <2>1. k.step = "primary" /\ Shaped(k) /\ k.c \in Complaints /\ k.primary \in Complaints
    BY <1>1, <1>6 DEF ReadPrimary, At, Shaped
  <2>2. PICK g \in Groups \union {NoGroup} : g = complaint[k.primary].groupId
    BY <2>1 DEF TypeOK, Row
  <2>3. PICK j \in Call : j = [k EXCEPT !.g = g, !.step = IF g = NoGroup THEN "newGroup"
                                                                        ELSE "check"]
    BY DEF Call, Steps
  <2>4. call'[w] = j /\ memberOf' = memberOf
    BY <1>6, <2>2, <2>3 DEF ReadPrimary, KnowsPrimary, Become, TypeOK, tables
  <2>5. /\ j.op = k.op /\ j.c = k.c /\ j.primary = k.primary /\ j.g = g
        /\ j.step = IF g = NoGroup THEN "newGroup" ELSE "check"
    BY <2>3 DEF Call
  <2>6. g # NoGroup => g = memberOf[k.primary] /\ g \in created
    BY <1>1, <2>1, <2>2 DEF Placed
  <2>7. Exists(k.c)' /\ Exists(k.primary)' /\ moved \subseteq moved'
    BY <1>1, <1>2, <2>1, StepSets DEF SubmitTrue, Kept
  <2>8. created \subseteq created'
    BY <1>2 DEF Kept
  <2>9. CASE g = NoGroup
    BY <1>1, <2>1, <2>4, <2>5, <2>7, <2>9, StepSets DEF SubmitTrue
  <2>10. CASE g # NoGroup
    BY <1>1, <2>1, <2>4, <2>5, <2>6, <2>7, <2>8, <2>10, StepSets DEF SubmitTrue
  <2>. QED BY <2>9, <2>10
<1>7. ASSUME NEW g \in Groups, NewGroup(w, g)
      PROVE  SubmitTrue(call[w])'
  <2>1. PICK j \in Call : j = [k EXCEPT !.step = "addPrimary", !.g = g]
    BY DEF Call, Steps
  <2>2. /\ j.op = k.op /\ j.c = k.c /\ j.step = "addPrimary" /\ j.primary = k.primary /\ j.g = g
        /\ k.step = "newGroup"
        /\ call'[w] = j
        /\ g \in created'
    BY <1>7, <2>1 DEF NewGroup, At, Become, Call, TypeOK
  <2>3. Exists(k.c)' /\ Exists(k.primary)' /\ moved \subseteq moved'
    BY <1>1, <1>2, <2>2, StepSets DEF SubmitTrue, Kept, Shaped
  <2>. QED BY <1>1, <2>2, <2>3, StepSets DEF SubmitTrue
<1>8. ASSUME NEW step \in HasGroup, Goto(w, step), k.step \in HasGroup,
             step \in PrimaryIn => memberOf'[k.primary] = k.g,
             step \in JoinedIn => memberOf'[k.c] = k.g,
             step # "store"
      PROVE  SubmitTrue(call[w])'
  <2>1. PICK j \in Call : j = [k EXCEPT !.step = step]
    BY <1>8 DEF HasGroup, Joining, Call
  <2>2. /\ j.op = k.op /\ j.c = k.c /\ j.step = step /\ j.primary = k.primary /\ j.g = k.g
        /\ call' = [call EXCEPT ![w] = j]
    BY <1>8, <2>1 DEF Goto, Become, Call
  <2>. QED BY <1>4, <1>8, <2>2
<1>9. ASSUME AddPrimary(w)
      PROVE  SubmitTrue(call[w])'
  <2>1. k.step = "addPrimary" /\ Goto(w, "setPrimary") /\ k.primary \in Complaints
    BY <1>1, <1>9 DEF AddPrimary, At, Shaped
  <2>2. memberOf'[k.primary] = k.g
    BY <1>9, <2>1 DEF AddPrimary, TypeOK
  <2>. QED BY <1>8, <2>1, <2>2, StepSets
<1>10. ASSUME SetPrimary(w)
       PROVE  SubmitTrue(call[w])'
  <2>1. k.step = "setPrimary" /\ Goto(w, "check") /\ memberOf' = memberOf
    BY <1>10 DEF SetPrimary, At
  <2>. QED BY <1>1, <1>8, <2>1, StepSets DEF SubmitTrue
<1>11. ASSUME CheckMember(w)
       PROVE  SubmitTrue(call[w])'
  <2>1. k.step = "check" /\ memberOf' = memberOf
    BY <1>11 DEF CheckMember, At, tables
  <2>2. memberOf'[k.primary] = k.g
    BY <1>1, <2>1, StepSets DEF SubmitTrue
  <2>3. CASE memberOf[k.c] = k.g
    <3>1. Goto(w, "count")
      BY <1>11, <2>3 DEF CheckMember
    <3>. QED BY <1>8, <2>1, <2>2, <2>3, <3>1, StepSets
  <2>4. CASE memberOf[k.c] # k.g
    <3>1. Goto(w, "addDup")
      BY <1>11, <2>4 DEF CheckMember
    <3>. QED BY <1>8, <2>1, <2>2, <3>1, StepSets
  <2>. QED BY <2>3, <2>4
<1>12. ASSUME AddDup(w)
       PROVE  SubmitTrue(call[w])'
  <2>1. k.step = "addDup" /\ Goto(w, "setDup") /\ k.c \in Complaints /\ k.primary \in Complaints
    BY <1>1, <1>12, StepSets DEF AddDup, At, Shaped, SubmitTrue
  <2>2. memberOf'[k.c] = k.g
    BY <1>12, <2>1 DEF AddDup, TypeOK
  <2>3. memberOf'[k.primary] = k.g
    BY <1>1, <1>12, <2>1, StepSets DEF AddDup, TypeOK, SubmitTrue
  <2>. QED BY <1>8, <2>1, <2>2, <2>3, StepSets
<1>13. ASSUME SetDup(w)
       PROVE  SubmitTrue(call[w])'
  <2>1. k.step = "setDup" /\ Goto(w, "count") /\ memberOf' = memberOf
    BY <1>13 DEF SetDup, At
  <2>. QED BY <1>1, <1>8, <2>1, StepSets DEF SubmitTrue
<1>14. ASSUME CountMembers(w)
       PROVE  SubmitTrue(call[w])'
  <2>1. PICK j \in Call : j = [k EXCEPT !.step = "store", !.seen = Members(k.g)]
    BY DEF Call, Steps, Members
  <2>2. /\ j.op = k.op /\ j.c = k.c /\ j.step = "store" /\ j.primary = k.primary /\ j.g = k.g
        /\ j.seen = Members(k.g)
        /\ call' = [call EXCEPT ![w] = j]
        /\ k.step = "count"
        /\ memberOf' = memberOf
    BY <1>14, <2>1 DEF CountMembers, Become, Call, At, tables
  <2>3. memberOf'[j.c] = j.g /\ memberOf'[j.primary] = j.g /\ Members(j.g)' = Members(k.g)
    BY <1>1, <2>2, StepSets DEF SubmitTrue, Members
  <2>4. k.step \in HasGroup /\ j.step \in HasGroup /\ j.seen \subseteq Members(j.g)'
    BY <2>2, <2>3, StepSets
  <2>. QED BY <1>4, <2>2, <2>3, <2>4
<1>15. ASSUME StoreCount(w)
       PROVE  SubmitTrue(call[w])'
  <2>1. k.step = "store" /\ (Return(w) \/ Goto(w, "size")) /\ memberOf' = memberOf
    BY <1>15 DEF StoreCount, At
  <2>. QED BY <1>1, <1>3, <1>8, <2>1, StepSets DEF SubmitTrue
<1>16. ASSUME ReadSize(w)
       PROVE  SubmitTrue(call[w])'
  <2>1. PICK n \in Nat : n = Cardinality(Members(k.g))
    BY SizeType DEF Members
  <2>2. PICK level \in PriorityLevels : level = CalculateAutoPriority(n, k.level)
    BY AutoIsLevel DEF Call
  <2>3. PICK j \in Call : j = [k EXCEPT !.step = "own", !.seen = Members(k.g), !.level = level]
    BY DEF Call, Steps, Members
  <2>4. /\ j.op = k.op /\ j.c = k.c /\ j.step = "own" /\ j.primary = k.primary /\ j.g = k.g
        /\ k.step = "size"
        /\ memberOf' = memberOf
    BY <1>16, <2>3 DEF ReadSize, Call, At, tables
  <2>5. call' = [call EXCEPT ![w] = j]
    BY <1>16, <2>1, <2>2, <2>3 DEF ReadSize, Become
  <2>6. k.step \in HasGroup /\ j.step \in HasGroup /\ j.step # "store"
        /\ memberOf'[j.c] = j.g /\ memberOf'[j.primary] = j.g
    BY <1>1, <2>4, StepSets DEF SubmitTrue
  <2>. QED BY <1>4, <2>4, <2>5, <2>6
<1>17. ASSUME NEW todo \in SUBSET Complaints, Raise(w, todo), k.step \in {"own", "escalate"},
              memberOf' = memberOf
       PROVE  SubmitTrue(call[w])'
  <2>1. PICK j \in Call : j = [k EXCEPT !.step = "escalate", !.seen = todo]
    BY DEF Call, Steps
  <2>2. /\ j.op = k.op /\ j.c = k.c /\ j.step = "escalate" /\ j.primary = k.primary
        /\ j.g = k.g
    BY <2>1 DEF Call
  <2>3. Return(w) \/ call' = [call EXCEPT ![w] = j]
    BY <1>17, <2>1 DEF Raise, Become
  <2>. QED BY <1>1, <1>3, <1>4, <1>17, <2>2, <2>3, StepSets DEF SubmitTrue
<1>18. ASSUME WriteOwn(w)
       PROVE  SubmitTrue(call[w])'
  <2>1. k.seen \subseteq Complaints /\ k.step = "own" /\ memberOf' = memberOf
    BY <1>18 DEF Call, WriteOwn, At
  <2>2. Raise(w, k.seen \ {k.c}) \/ Raise(w, {})
    BY <1>18 DEF WriteOwn
  <2>. QED BY <1>17, <2>1, <2>2
<1>19. ASSUME NEW m \in Complaints, Escalate(w, m) \/ EscalationFails(w, m)
       PROVE  SubmitTrue(call[w])'
  <2>1. k.seen \subseteq Complaints /\ k.step = "escalate" /\ memberOf' = memberOf
    BY <1>19 DEF Call, Escalate, EscalationFails, At, tables
  <2>2. Raise(w, k.seen \ {m})
    BY <1>19 DEF Escalate, EscalationFails
  <2>. QED BY <1>17, <2>1, <2>2
<1>20. ~RemoveMember(w) /\ ~ClearGroup(w)
  BY <1>1 DEF RemoveMember, ClearGroup, At, SubmitTrue, Shaped
<1>21. NoMatch(w) \/ InsertRejected(w) \/ WritePriority(w) \/ (\E b \in Buckets : WriteEdit(w, b)) => Return(w)
  BY DEF NoMatch, InsertRejected, WritePriority, WriteEdit
<1>. QED BY <1>3, <1>5, <1>6, <1>7, <1>9, <1>10, <1>11, <1>12, <1>13, <1>14, <1>15, <1>16, <1>18,
            <1>19, <1>20, <1>21 DEF Continue

LEMMA BeginSubmitTrue ==
  ASSUME TypeOK, NoLinking, SubmitInv, GroupsAssumption, NEW w \in Calls, Begin(w)
  PROVE  SubmitTrue(call[w])'
<1>1. ASSUME NEW c \in Complaints, NEW level \in Asked, SubmitAtomic(w, c, level)
      PROVE  SubmitTrue(call[w])'
  <2>1. PICK j \in Call : j = [Idle EXCEPT !.op = "submit", !.step = "match", !.c = c,
                                           !.level = level]
    BY DEF GroupsAssumption, Idle, Call, AllOps, Steps
  <2>2. j.op = "submit" /\ j.step = "match" /\ j.c = c /\ j.g = NoGroup
    BY <2>1 DEF Idle
  <2>3. call'[w] = j /\ Exists(c)'
    BY <1>1, <2>1 DEF SubmitAtomic, Become, Exists, TypeOK, NoRow
  <2>. QED BY <2>2, <2>3, StepSets DEF SubmitTrue
<1>2. ASSUME NEW c \in Complaints, NEW level \in Asked, BeginPriority(w, c, level)
      PROVE  SubmitTrue(call[w])'
  <2>1. PICK j \in Call : j = [Idle EXCEPT !.op = "priority", !.step = "write", !.c = c,
                                           !.level = level]
    BY DEF GroupsAssumption, Idle, Call, AllOps, Steps
  <2>2. j.op = "priority" /\ j.step = "write" /\ j.g = NoGroup
    BY <2>1 DEF Idle
  <2>3. call'[w] = j
    BY <1>2, <2>1 DEF BeginPriority, Become, TypeOK
  <2>. QED BY <2>2, <2>3, StepSets DEF SubmitTrue
<1>3. ASSUME NEW c \in Complaints, Delete(w, c)
      PROVE  SubmitTrue(call[w])'
  <2>1. call'[w] = Idle
    BY <1>3 DEF Delete, Enter
  <2>. QED BY <2>1, IdleSubmitTrue
<1>4. ASSUME NEW c \in Complaints, BeginEdit(w, c)
      PROVE  SubmitTrue(call[w])'
  <2>1. PICK j \in Call : j = [Idle EXCEPT !.op = "edit", !.step = "edit", !.c = c]
    BY LowIsLevel DEF Idle, Call, AllOps, Steps
  <2>2. j.op = "edit" /\ j.step = "edit" /\ j.g = NoGroup
    BY <2>1 DEF Idle
  <2>3. call'[w] = j
    BY <1>4, <2>1 DEF BeginEdit, Become, TypeOK
  <2>. QED BY <2>2, <2>3, StepSets DEF SubmitTrue
<1>. QED BY <1>1, <1>2, <1>3, <1>4, OpsUsed DEF Begin

\* A step that inserts no member and writes no pointer leaves the tables placed.
LEMMA SamePlaces ==
  ASSUME TypeOK, SubmitInv, Kept, memberOf' = memberOf,
         \A x \in Complaints : complaint'[x].groupId \in {NoGroup, complaint[x].groupId}
  PROVE  /\ \A x \in Complaints : Placed(x)'
         /\ GroupsFiled'
<1>1. \A g : Members(g)' = Members(g)
  BY DEF Members
<1>2. GroupsFiled'
  BY <1>1 DEF SubmitInv, Kept, GroupsFiled
<1>. QED BY <1>2 DEF SubmitInv, Placed, Kept

LEMMA BeginPlaces ==
  ASSUME TypeOK, NoLinking, SubmitInv, NEW w \in Calls, Begin(w)
  PROVE  /\ memberOf' = memberOf
         /\ \A x \in Complaints : complaint'[x].groupId \in {NoGroup, complaint[x].groupId}
<1>1. ASSUME NEW c \in Complaints, NEW level \in Asked, SubmitAtomic(w, c, level)
      PROVE  /\ memberOf' = memberOf
             /\ \A x \in Complaints : complaint'[x].groupId \in {NoGroup, complaint[x].groupId}
  BY <1>1 DEF SubmitAtomic, TypeOK, NoRow
<1>2. ASSUME NEW c \in Complaints, NEW level \in Asked, BeginPriority(w, c, level)
      PROVE  memberOf' = memberOf /\ complaint' = complaint
  BY <1>2 DEF BeginPriority, tables
<1>3. ASSUME NEW c \in Complaints, Delete(w, c)
      PROVE  /\ memberOf' = memberOf
             /\ \A x \in Complaints : complaint'[x].groupId \in {NoGroup, complaint[x].groupId}
  BY <1>3 DEF Delete, TypeOK, Row
<1>4. ASSUME NEW c \in Complaints, BeginEdit(w, c)
      PROVE  memberOf' = memberOf /\ complaint' = complaint
  BY <1>4 DEF BeginEdit, tables
<1>. QED BY <1>1, <1>2, <1>3, <1>4, OpsUsed DEF Begin

\* A complaint joins a group of what it was filed with, or one that is empty, or
\* one that an edit has touched.
LEMMA JoinPlaces ==
  ASSUME TypeOK, SubmitInv, NEW y \in Complaints, NEW g \in created,
         Exists(y), memberOf[y] = NoGroup,
         y \notin moved /\ Members(g) \cap moved = {} =>
           Bucket[y] # NoBucket /\ \A x \in Members(g) : Bucket[x] = Bucket[y],
         memberOf' = [memberOf EXCEPT ![y] = g],
         UNCHANGED <<complaint, created, moved>>
  PROVE  /\ \A x \in Complaints : Placed(x)'
         /\ GroupsFiled'
<1>1. ASSUME NEW x \in Complaints
      PROVE  Placed(x)'
  BY DEF TypeOK, SubmitInv, Placed, Exists
<1>2. \A x \in Complaints : memberOf'[x] = IF x = y THEN g ELSE memberOf[x]
  BY DEF TypeOK
<1>3. ASSUME NEW c \in Complaints, NEW d \in Complaints, memberOf'[c] = memberOf'[d],
             memberOf'[c] # NoGroup, Members(memberOf[c])' \cap moved' = {}
      PROVE  Bucket[c] = Bucket[d] /\ Bucket[c] # NoBucket
  <2>1. CASE memberOf'[c] = g
    <3>1. Members(g)' = Members(g) \union {y} /\ c \in Members(g)' /\ d \in Members(g)'
      BY <1>2, <1>3, <2>1 DEF Members
    <3>2. y \notin moved /\ Members(g) \cap moved = {}
      BY <1>3, <2>1, <3>1
    <3>. QED BY <3>1, <3>2
  <2>2. CASE memberOf'[c] # g
    <3>1. c # y /\ d # y /\ memberOf[c] = memberOf[d] /\ memberOf[c] = memberOf'[c]
      BY <1>2, <1>3, <2>2
    <3>2. Members(memberOf[c])' = Members(memberOf[c])
      BY <1>2, <1>3, <2>2, <3>1 DEF Members
    <3>. QED BY <1>3, <3>1, <3>2 DEF SubmitInv, GroupsFiled
  <2>. QED BY <2>1, <2>2
<1>. QED BY <1>1, <1>3 DEF GroupsFiled

LEMMA ContinuePlaces ==
  ASSUME TypeOK, CallsShaped, SubmitInv, GroupsAssumption, NEW w \in Calls,
         Continue(w) \/ Fail(w)
  PROVE  /\ \A x \in Complaints : Placed(x)'
         /\ GroupsFiled'
<1>. PICK k \in Call : k = call[w]
  BY DEF TypeOK
<1>1. /\ SubmitTrue(k)
      /\ k.step # "idle" => Shaped(k)
      /\ k.step # "remove" /\ k.step # "clear"
      /\ GroupsFiled
  BY DEF SubmitInv, CallsShaped, Idle, Shaped, SubmitTrue
<1>2. Kept
  BY <1>1, ContinueKeeps
<1>3. ASSUME memberOf' = memberOf,
             \A x \in Complaints : complaint'[x].groupId = complaint[x].groupId
      PROVE  /\ \A x \in Complaints : Placed(x)'
             /\ GroupsFiled'
  BY <1>2, <1>3, SamePlaces
<1>4. ASSUME AddPrimary(w)
      PROVE  /\ \A x \in Complaints : Placed(x)'
             /\ GroupsFiled'
  <2>1. k.step = "addPrimary" /\ Members(k.g) = {}
    BY <1>4 DEF AddPrimary, At, SubmitInv, Fresh
  <2>2. /\ k.primary \in Complaints /\ k.g \in created
        /\ Exists(k.primary) /\ (k.primary \notin moved => Bucket[k.primary] # NoBucket)
    BY <1>1, <2>1, StepSets DEF SubmitTrue
  <2>3. /\ memberOf[k.primary] = NoGroup
        /\ memberOf' = [memberOf EXCEPT ![k.primary] = k.g]
        /\ UNCHANGED <<complaint, created, moved>>
    BY <1>4 DEF AddPrimary, ghosts
  <2>. QED BY <2>1, <2>2, <2>3, JoinPlaces
<1>5. ASSUME AddDup(w)
      PROVE  /\ \A x \in Complaints : Placed(x)'
             /\ GroupsFiled'
  <2>1. k.step = "addDup" /\ k.c \in Complaints
    BY <1>1, <1>5 DEF AddDup, At, Shaped
  <2>2. /\ k.primary \in Complaints /\ k.g \in created /\ memberOf[k.primary] = k.g
        /\ Exists(k.c) 
        /\ k.primary \in moved \/ Bucket[k.primary] = Bucket[k.c]
        /\ Bucket[k.c] # NoBucket
    BY <1>1, <2>1, StepSets DEF SubmitTrue
  <2>3. Members(k.g) \cap moved = {} => \A x \in Members(k.g) : Bucket[x] = Bucket[k.c]
    <3>1. k.primary \in Members(k.g) /\ k.g # NoGroup
      BY <1>1, <2>1, <2>2 DEF Members, Shaped, GroupsAssumption
    <3>2. \A x \in Members(k.g) : x \in Complaints /\ memberOf[x] = k.g
      BY DEF Members
    <3>. QED BY <1>1, <2>2, <3>1, <3>2 DEF GroupsFiled
  <2>4. /\ memberOf[k.c] = NoGroup
        /\ memberOf' = [memberOf EXCEPT ![k.c] = k.g]
        /\ UNCHANGED <<complaint, created, moved>>
    BY <1>5 DEF AddDup, ghosts
  <2>. QED BY <2>1, <2>2, <2>3, <2>4, JoinPlaces
<1>6. ASSUME SetPrimary(w) \/ SetDup(w)
      PROVE  /\ \A x \in Complaints : Placed(x)'
             /\ GroupsFiled'
  <2>1. PICK y \in Complaints : /\ complaint' = [complaint EXCEPT ![y].groupId = k.g]
                                /\ memberOf[y] = k.g
    BY <1>1, <1>6, StepSets DEF SetPrimary, SetDup, At, Shaped, SubmitTrue
  <2>2. memberOf' = memberOf /\ created' = created
    BY <1>6 DEF SetPrimary, SetDup
  <2>3. \A x \in Complaints : complaint'[x].groupId = IF x = y THEN k.g
                                                             ELSE complaint[x].groupId
    BY <2>1 DEF TypeOK, Row
  <2>4. \A g : Members(g)' = Members(g)
    BY <2>2 DEF Members
  <2>5. GroupsFiled'
    BY <1>2, <2>2, <2>4 DEF SubmitInv, Kept, GroupsFiled
  <2>. QED BY <1>2, <2>1, <2>2, <2>3, <2>5 DEF SubmitInv, Placed, Kept
<1>7. ASSUME NEW c, NEW level, SetPriority(c, level)
      PROVE  \A x \in Complaints : complaint'[x].groupId = complaint[x].groupId
  BY <1>7 DEF SetPriority, TypeOK, Row
<1>8. ASSUME WriteOwn(w) \/ \E m \in Complaints : Escalate(w, m)
      PROVE  /\ memberOf' = memberOf
             /\ \A x \in Complaints : complaint'[x].groupId = complaint[x].groupId
  BY <1>7, <1>8 DEF WriteOwn, Escalate
<1>9. ASSUME WritePriority(w)
      PROVE  /\ memberOf' = memberOf
             /\ \A x \in Complaints : complaint'[x].groupId = complaint[x].groupId
  BY <1>9 DEF WritePriority, TypeOK, Row
<1>10. ASSUME \/ (\E d \in Complaints : Match(w, d) \/ EscalationFails(w, d))
              \/ NoMatch(w) \/ ReadPrimary(w) \/ CheckMember(w) \/ InsertRejected(w)
              \/ (\E g \in Groups : NewGroup(w, g))
              \/ CountMembers(w) \/ StoreCount(w) \/ ReadSize(w) \/ Fail(w)
              \/ \E b \in Buckets : WriteEdit(w, b)
       PROVE  memberOf' = memberOf /\ complaint' = complaint
  BY <1>10 DEF Match, NoMatch, ReadPrimary, CheckMember, InsertRejected, CountMembers, NewGroup,
               StoreCount, ReadSize, Fail, EscalationFails, WriteEdit, tables
<1>11. ~RemoveMember(w) /\ ~ClearGroup(w)
  BY <1>1 DEF RemoveMember, ClearGroup, At
<1>. QED BY <1>3, <1>4, <1>5, <1>6, <1>8, <1>9, <1>10, <1>11 DEF Continue

\* Where a call may get a group from, and that only a call that opens one goes on
\* to add its primary complaint.
LEMMA GroupInHand ==
  ASSUME TypeOK, CallsShaped, GroupsAssumption, NoLinking, NEW w \in Calls,
         Begin(w) \/ Continue(w) \/ Fail(w)
  PROVE  \/ call'[w].g \in {NoGroup, call[w].g} /\ call'[w].step # "addPrimary"
         \/ \E g \in Groups : NewGroup(w, g)
         \/ ReadPrimary(w)
<1>. PICK k \in Call : k = call[w]
  BY DEF TypeOK
<1>. DEFINE Plain == call'[w].g \in {NoGroup, k.g} /\ call'[w].step # "addPrimary"
<1>1. ASSUME Return(w)
      PROVE  Plain
  BY <1>1 DEF Return, Become, Idle, TypeOK
<1>2. ASSUME NEW step \in Steps \ {"addPrimary"}, Goto(w, step)
      PROVE  Plain
  BY <1>2 DEF Goto, Become, TypeOK, Call
<1>3. ASSUME NEW c \in Complaints, NEW level \in Asked,
             SubmitAtomic(w, c, level) \/ BeginPriority(w, c, level)
      PROVE  Plain
  <2>1. CASE SubmitAtomic(w, c, level)
    BY <2>1 DEF SubmitAtomic, Become, Idle, TypeOK
  <2>2. CASE BeginPriority(w, c, level)
    BY <2>2 DEF BeginPriority, Become, Idle, TypeOK
  <2>. QED BY <1>3, <2>1, <2>2
<1>4. ASSUME NEW c \in Complaints, Delete(w, c)
      PROVE  Plain
  BY <1>4 DEF Delete, Enter, Idle, TypeOK
<1>5. ASSUME NEW d \in Complaints, Match(w, d)
      PROVE  Plain
  BY <1>5 DEF Match, Become, TypeOK, Call
<1>6. ASSUME CountMembers(w)
      PROVE  Plain
  BY <1>6 DEF CountMembers, Become, TypeOK, Call
<1>7. ASSUME ReadSize(w)
      PROVE  Plain
  <2>. PICK level : level = CalculateAutoPriority(Cardinality(Members(k.g)), k.level)
    OBVIOUS
  <2>1. call' = [call EXCEPT ![w] = [k EXCEPT !.step = "own", !.seen = Members(k.g),
                                              !.level = level]]
    BY <1>7 DEF ReadSize, Become
  <2>. QED BY <2>1 DEF TypeOK, Call
<1>8. ASSUME NEW todo, Raise(w, todo)
      PROVE  Plain
  <2>1. CASE call' = [call EXCEPT ![w] = [k EXCEPT !.step = "escalate", !.seen = todo]]
    BY <2>1 DEF TypeOK, Call
  <2>. QED BY <1>1, <1>8, <2>1 DEF Raise, Become
<1>9. ASSUME WriteOwn(w) \/ \E m \in Complaints : Escalate(w, m) \/ EscalationFails(w, m)
      PROVE  Plain
  BY <1>8, <1>9 DEF WriteOwn, Escalate, EscalationFails
<1>10. ASSUME \/ NoMatch(w) \/ InsertRejected(w) \/ WritePriority(w) \/ Fail(w)
              \/ (\E b \in Buckets : WriteEdit(w, b))
              \/ AddPrimary(w) \/ SetPrimary(w) \/ CheckMember(w) \/ AddDup(w) \/ SetDup(w)
              \/ StoreCount(w) \/ RemoveMember(w) \/ ClearGroup(w)
       PROVE  Plain
  <2>. {"setPrimary", "check", "count", "addDup", "setDup", "size", "clear"}
         \subseteq Steps \ {"addPrimary"}
    BY DEF Steps
  <2>. QED BY <1>1, <1>2, <1>10 DEF NoMatch, InsertRejected, WritePriority, WriteEdit, Fail, AddPrimary,
                SetPrimary, CheckMember, AddDup, SetDup, StoreCount, RemoveMember, ClearGroup
<1>11. ASSUME NEW c \in Complaints, BeginEdit(w, c)
       PROVE  Plain
  BY <1>11 DEF BeginEdit, Become, Idle, TypeOK
<1>. QED BY <1>3, <1>4, <1>5, <1>6, <1>7, <1>9, <1>10, <1>11, OpsUsed DEF Begin, Continue

\* Memberships change only by an insert into the group in hand.
LEMMA MembershipStep ==
  ASSUME TypeOK, NoLinking, NEW w \in Calls, Begin(w) \/ Continue(w) \/ Fail(w),
         call[w].step # "remove"
  PROVE  \/ memberOf' = memberOf
         \/ /\ AddPrimary(w) \/ AddDup(w)
            /\ \E y \in Complaints \union {NoComplaint} :
                 memberOf' = [memberOf EXCEPT ![y] = call[w].g]
<1>1. ASSUME Begin(w)
      PROVE  memberOf' = memberOf
  BY <1>1, OpsUsed DEF Begin, SubmitAtomic, BeginPriority, BeginEdit, Delete, tables
<1>2. ASSUME Continue(w) \/ Fail(w), ~AddPrimary(w), ~AddDup(w)
      PROVE  memberOf' = memberOf
  BY <1>2 DEF Continue, Match, NoMatch, ReadPrimary, NewGroup, SetPrimary,
              CheckMember, InsertRejected, SetDup, CountMembers, StoreCount,
              ReadSize, WriteOwn, Escalate, EscalationFails, RemoveMember, ClearGroup,
              WritePriority, WriteEdit, tables, Fail, At
<1>3. ASSUME AddPrimary(w) \/ AddDup(w)
      PROVE  \E y \in Complaints \union {NoComplaint} :
               memberOf' = [memberOf EXCEPT ![y] = call[w].g]
  BY <1>3 DEF AddPrimary, AddDup, TypeOK, Call
<1>. QED BY <1>1, <1>2, <1>3

LEMMA OneCallMoves ==
  ASSUME TypeOK, CallsShaped, GroupsAssumption, NEW w \in Calls,
         Begin(w) \/ Continue(w) \/ Fail(w)
  PROVE  \A u \in Calls \ {w} : call'[u] = call[u]
<1>1. Moves(w) \/ call' = call
  BY BeginMoves, ContinueMoves, ReturnMoves, LowIsLevel DEF Begin, Fail, Delete, GroupsAssumption
<1>. QED BY <1>1 DEF Moves, TypeOK

LEMMA FreshStep ==
  ASSUME TypeOK, CallsShaped, SubmitInv, GroupsAssumption, NoLinking, NEW w \in Calls,
         Begin(w) \/ Continue(w) \/ Fail(w), NEW v \in Calls, At(v, "addPrimary")'
  PROVE  Members(call[v].g)' = {} /\ \A u \in Calls \ {v} : call'[u].g # call'[v].g
<1>0. /\ \A u \in Calls : /\ SubmitTrue(call[u])
                          /\ call[u].g \in created \union {NoGroup}
                          /\ call[u].step # "remove"
                          /\ At(u, "addPrimary") => /\ call[u].g \in Groups
                                                    /\ call[u].g # NoGroup
      /\ \A x \in Complaints : Placed(x)
  <2>1. \A u \in Calls : SubmitTrue(call[u]) /\ (call[u] = Idle \/ Shaped(call[u]))
    BY DEF SubmitInv, CallsShaped
  <2>. QED BY <2>1, StepSets DEF SubmitInv, SubmitTrue, Shaped, Idle, At, GroupsAssumption
<1>1. \A u \in Calls \ {w} : call'[u] = call[u]
  BY OneCallMoves
<1>2. CASE v = w
  <2>1. PICK g \in Groups : NewGroup(w, g)
    <3>1. ~(call'[w].step # "addPrimary")
      BY <1>2 DEF At
    <3>2. ~ReadPrimary(w)
      <4>1. ASSUME ReadPrimary(w)
            PROVE  call'[w].step # "addPrimary"
        BY <4>1 DEF ReadPrimary, KnowsPrimary, Become, TypeOK, Call
      <4>. QED BY <3>1, <4>1
    <3>. QED BY <3>1, <3>2, GroupInHand
  <2>2. g \notin created /\ memberOf' = memberOf /\ call'[w].g = g
    BY <2>1 DEF NewGroup, Become, TypeOK, Call
  <2>3. Members(g) = {}
    BY <1>0, <2>2, GroupsAssumption DEF Members, Placed, GroupsAssumption
  <2>4. Members(call[v].g)' = {}
    BY <1>2, <2>2, <2>3 DEF Members
  <2>5. \A u \in Calls \ {v} : call'[u].g # call'[v].g
    BY <1>0, <1>1, <1>2, <2>2 DEF GroupsAssumption
  <2>. QED BY <2>4, <2>5
<1>3. CASE v # w
  <2>1. call'[v] = call[v] /\ At(v, "addPrimary")
    BY <1>1, <1>3 DEF At
  <2>2. Members(call[v].g) = {} /\ \A u \in Calls \ {v} : call[u].g # call[v].g
    BY <2>1 DEF SubmitInv, Fresh
  <2>3. PICK g \in Groups : g = call[v].g /\ g \in created /\ g # NoGroup
    BY <1>0, <2>1
  <2>4. Members(g)' = {}
    BY <1>0, <1>3, <2>2, <2>3, MembershipStep DEF Members, TypeOK
  <2>5. call'[w].g # g
    <3>1. CASE ReadPrimary(w)
      <4>1. call[w].primary \in Complaints /\ call'[w].g = complaint[call[w].primary].groupId
        BY <1>0, <3>1, StepSets
           DEF ReadPrimary, KnowsPrimary, Become, TypeOK, Call, At, SubmitTrue
      <4>. QED BY <1>0, <2>2, <2>3, <4>1 DEF Placed, Members
    <3>2. ASSUME NEW h \in Groups, NewGroup(w, h)
          PROVE  call'[w].g # g
      BY <2>3, <3>2 DEF NewGroup, Become, TypeOK, Call
    <3>. QED BY <1>3, <2>2, <2>3, <3>1, <3>2, GroupInHand
  <2>. QED BY <1>1, <2>1, <2>2, <2>3, <2>4, <2>5
<1>. QED BY <1>2, <1>3

LEMMA SubmitStep ==
  ASSUME TypeOK, CallsShaped, SubmitInv, GroupsAssumption, NoLinking, [Next]_vars
  PROVE  SubmitInv'
<1>1. CASE UNCHANGED vars
  <2>1. \A g : Members(g)' = Members(g)
    BY <1>1 DEF vars, Members
  <2>2. GroupsFiled'
    BY <1>1, <2>1 DEF vars, SubmitInv, GroupsFiled
  <2>3. \A x \in Complaints : Placed(x)' /\ Filed(x)'
    BY <1>1 DEF vars, SubmitInv, Placed, Filed, Exists
  <2>. QED BY <1>1, <2>1, <2>2, <2>3 DEF vars, SubmitInv, SubmitTrue, Fresh, Exists, At
<1>2. ASSUME NEW w \in Calls, Begin(w) \/ Continue(w) \/ Fail(w)
      PROVE  SubmitInv'
  <2>1. call[w].step # "remove"
    BY DEF SubmitInv, SubmitTrue, CallsShaped, Shaped, Idle
  <2>2. Kept
    BY <1>2, <2>1, BeginKeeps, ContinueKeeps
  <2>3. ASSUME NEW v \in Calls
        PROVE  SubmitTrue(call[v])'
    <3>1. CASE v = w
      <4>1. Fail(w) => SubmitTrue(call[w])'
        BY IdleSubmitTrue DEF Fail, Return, Become, TypeOK
      <4>. QED BY <1>2, <3>1, <4>1, BeginSubmitTrue, ContinueSubmitTrue
    <3>2. CASE v # w
      <4>1. PICK k \in Call : k = call[v]
        BY DEF TypeOK
      <4>2. call'[v] = k
        BY <1>2, <3>2, <4>1, OneCallMoves
      <4>3. SubmitTrue(k)'
        BY <2>2, <4>1, SubmitTrueStays DEF SubmitInv, CallsShaped
      <4>. QED BY <4>2, <4>3
    <3>. QED BY <3>1, <3>2
  <2>4. \A v \in Calls : Fresh(v)'
    BY <1>2, FreshStep DEF Fresh, At
  <2>5. (\A x \in Complaints : Placed(x)') /\ GroupsFiled'
    BY <1>2, <2>2, BeginPlaces, SamePlaces, ContinuePlaces
  <2>6. \A x \in Complaints : Filed(x)'
    BY <1>2, FiledStep DEF SubmitInv
  <2>. QED BY <2>3, <2>4, <2>5, <2>6 DEF SubmitInv
<1>. QED BY <1>1, <1>2 DEF Next

LEMMA SubmitInit ==
  ASSUME GroupsAssumption, Init
  PROVE  SubmitInv
<1>1. PICK seed \in Seeds :
         /\ \E first \in Complaints :
              complaint = [c \in Complaints |-> IF c \in seed THEN SeedRow(c, first)
                                                             ELSE NoRow]
         /\ memberOf = [c \in Complaints |-> IF c \in seed THEN SeedGroup ELSE NoGroup]
         /\ created = IF seed = {} THEN {} ELSE {SeedGroup}
  BY DEF Init
<1>2. \A w \in Calls : call[w] = Idle
  BY DEF Init
<1>3. \A w \in Calls : SubmitTrue(call[w]) /\ Fresh(w)
  BY <1>2, StepSets DEF SubmitTrue, Fresh, At, Idle
<1>4. ASSUME NEW x \in Complaints
      PROVE  Placed(x)
  <2>1. NoRow.groupId = NoGroup
    BY DEF NoRow
  <2>2. \A first : SeedRow(x, first).groupId = SeedGroup /\ SeedRow(x, first).exists
    BY DEF SeedRow, NoRow
  <2>. QED BY <1>1, <2>1, <2>2 DEF Placed, Exists
<1>5. GroupsFiled
  BY <1>1 DEF GroupsFiled, GroupsAssumption
<1>6. \A x \in Complaints : Filed(x)
  BY DEF Init, Filed
<1>. QED BY <1>3, <1>4, <1>5, <1>6 DEF SubmitInv

-----------------------------------------------------------------------------
(* The counts.                                                             *)

LEMMA LargerGroup ==
  ASSUME GroupsAssumption, NEW S \in SUBSET Complaints, NEW T \in SUBSET S
  PROVE  /\ Cardinality(T) \in Nat /\ Cardinality(S) \in Nat
         /\ Cardinality(T) <= Cardinality(S)
BY FS_Subset, FS_CardinalityType DEF GroupsAssumption

LEMMA PairSize ==
  ASSUME NEW c, NEW d, c # d
  PROVE  Cardinality({c, d}) = 2
<1>1. IsFiniteSet({c}) /\ Cardinality({c}) = 1
  BY FS_Singleton
<1>2. {c, d} = {c} \union {d} /\ d \notin {c}
  OBVIOUS
<1>. QED BY <1>1, <1>2, FS_AddElement

LEMMA OneSize ==
  ASSUME GroupsAssumption, NEW S \in SUBSET Complaints, NEW c \in S
  PROVE  Cardinality(S) \in Nat \ {0}
<1>1. IsFiniteSet(S)
  BY FS_Subset DEF GroupsAssumption
<1>. QED BY <1>1, FS_EmptySet, FS_CardinalityType

LEMMA CountWrites ==
  ASSUME TypeOK, NoLinking, NEW w \in Calls, Begin(w) \/ Continue(w) \/ Fail(w),
         NEW g \in Groups, ~NewGroup(w, g), ~(StoreCount(w) /\ call[w].g = g)
  PROVE  /\ dupCount'[g] = dupCount[g]
         /\ g \in created' => g \in created
<1>1. ASSUME Begin(w)
      PROVE  UNCHANGED <<dupCount, created>>
  BY <1>1, OpsUsed DEF Begin, SubmitAtomic, BeginPriority, BeginEdit, Delete, tables
<1>2. ASSUME Continue(w) \/ Fail(w), ~StoreCount(w), ~\E h \in Groups : NewGroup(w, h)
      PROVE  UNCHANGED <<dupCount, created>>
  BY <1>2 DEF Continue, Match, NoMatch, ReadPrimary, AddPrimary, SetPrimary, AddDup,
              CheckMember, InsertRejected, SetDup, CountMembers, StoreCount,
              ReadSize, WriteOwn, Escalate, EscalationFails, RemoveMember, ClearGroup,
              WritePriority, WriteEdit, tables, Fail
<1>3. ASSUME StoreCount(w)
      PROVE  dupCount'[g] = dupCount[g] /\ created' = created
  BY <1>3 DEF StoreCount, TypeOK
<1>4. ASSUME NEW h \in Groups, NewGroup(w, h)
      PROVE  dupCount'[g] = dupCount[g] /\ created' = created \union {h} /\ h # g
  BY <1>4 DEF NewGroup, TypeOK
<1>. QED BY <1>1, <1>2, <1>3, <1>4

\* A call that leaves the steps in which the group it opens may be small has
\* joined it, or has been rejected, or has died.
LEMMA OpeningEnds ==
  ASSUME TypeOK, CallsShaped, NoLinking, GroupsAssumption, NEW w \in Calls,
         Begin(w) \/ Continue(w) \/ Fail(w), call[w].step \in Opening
  PROVE  \/ call'[w].g = call[w].g /\ call'[w].step \in Opening \union JoinedIn
         \/ call[w].g \in rejected'
         \/ \E c \in Complaints, step \in Opening : <<c, call[w].g, step>> \in aborted'
<1>. PICK k \in Call : k = call[w]
  BY DEF TypeOK
<1>1. Shaped(k) /\ k # Idle
  BY DEF CallsShaped, Idle, Opening
<1>2. CASE Begin(w)
  BY <1>1, <1>2, OpsUsed DEF Begin, SubmitAtomic, BeginPriority, BeginEdit, Delete, Enter
<1>3. CASE Fail(w)
  BY <1>1, <1>3 DEF Fail, Shaped
<1>4. CASE InsertRejected(w)
  BY <1>4 DEF InsertRejected
<1>5. ASSUME NEW step \in Opening \union JoinedIn, Goto(w, step)
      PROVE  call'[w].g = k.g /\ call'[w].step \in Opening \union JoinedIn
  BY <1>5 DEF Goto, Become, TypeOK, Call
<1>6. CASE AddPrimary(w) \/ SetPrimary(w) \/ CheckMember(w) \/ AddDup(w)
  <2>1. {"setPrimary", "check", "count", "addDup", "setDup"} \subseteq Opening \union JoinedIn
    BY StepSets DEF Opening
  <2>. QED BY <1>5, <1>6, <2>1 DEF AddPrimary, SetPrimary, CheckMember, AddDup
<1>. QED BY <1>2, <1>3, <1>4, <1>6
     DEF Continue, Opening, Match, NoMatch, ReadPrimary, NewGroup, SetDup, CountMembers, StoreCount,
         ReadSize, WriteOwn, Escalate, EscalationFails, RemoveMember, ClearGroup, WritePriority, WriteEdit, At

LEMMA RejectedGrows ==
  ASSUME TypeOK, NEW w \in Calls, Begin(w) \/ Continue(w) \/ Fail(w)
  PROVE  rejected \subseteq rejected'
BY DEF Begin, SubmitAtomic, BeginPriority, BeginEdit, BeginLink, BeginUnlink, Delete, Enter,
       Continue, Match, NoMatch, ReadPrimary, NewGroup, AddPrimary, SetPrimary,
       CheckMember, AddDup, InsertRejected, SetDup, CountMembers, StoreCount,
       ReadSize, WriteOwn, Escalate, EscalationFails, RemoveMember, ClearGroup,
       WritePriority, WriteEdit, ghosts, Fail

LEMMA CountStep ==
  ASSUME TypeOK, CallsShaped, SubmitInv, CountInv, GroupsAssumption, NoLinking, [Next]_vars
  PROVE  CountInv'
<1>1. CASE UNCHANGED vars
  <2>1. \A g : Members(g)' = Members(g)
    BY <1>1 DEF vars, Members
  <2>2. CountNeverOver'
    BY <1>1, <2>1 DEF vars, CountInv, CountNeverOver
  <2>. QED BY <1>1, <2>1, <2>2 DEF vars, CountInv
<1>2. ASSUME NEW w \in Calls, Begin(w) \/ Continue(w) \/ Fail(w)
      PROVE  CountInv'
  <2>1. call[w].step # "remove"
    BY DEF SubmitInv, SubmitTrue, CallsShaped, Shaped, Idle
  <2>2. Kept
    BY <1>2, <2>1, BeginKeeps, ContinueKeeps
  <2>3. /\ TypeOK' /\ CallsShaped' /\ SubmitInv'
        /\ aborted \subseteq aborted' /\ rejected \subseteq rejected'
    BY <1>2, TypeStep, SubmitStep, GhostsGrow, RejectedGrows DEF Next
  <2>4. \A v \in Calls \ {w} : call'[v] = call[v]
    BY <1>2, OneCallMoves
  <2>5. ASSUME NEW g \in Groups
        PROVE  /\ Members(g) \subseteq Members(g)'
               /\ Cardinality(Members(g)) \in Nat /\ Cardinality(Members(g)') \in Nat
               /\ Cardinality(Members(g)) <= Cardinality(Members(g)')
    <3>1. Members(g) \subseteq Members(g)' /\ Members(g)' \in SUBSET Complaints
      BY <2>2 DEF Kept, Members, GroupsAssumption
    <3>. QED BY <3>1, LargerGroup
  <2>6. ASSUME NEW g \in Groups, StoreCount(w), call[w].g = g
        PROVE  dupCount'[g] < Cardinality(Members(g)')
    <3>1. At(w, "store") /\ call[w].seen \subseteq Members(g) /\ call[w].c \in Members(g)
      BY <2>6, StepSets
         DEF StoreCount, At, SubmitInv, SubmitTrue, CallsShaped, Shaped, Idle, Members
    <3>2. /\ Cardinality(call[w].seen) \in Nat
          /\ Cardinality(call[w].seen) <= Cardinality(Members(g))
          /\ Cardinality(Members(g)) # 0
      BY <3>1, LargerGroup, OneSize DEF Members
    <3>3. dupCount'[g] = IF Cardinality(call[w].seen) = 0 THEN 0
                                                     ELSE Cardinality(call[w].seen) - 1
      BY <2>6 DEF StoreCount, TypeOK
    <3>. QED BY <2>5, <3>2, <3>3
  <2>7. ASSUME NEW g \in Groups
        PROVE  dupCount'[g] <= 1 \/ dupCount'[g] < Cardinality(Members(g)')
    <3>1. CASE NewGroup(w, g)
      BY <3>1 DEF NewGroup, TypeOK
    <3>2. CASE ~NewGroup(w, g) /\ ~(StoreCount(w) /\ call[w].g = g)
      <4>1. dupCount'[g] = dupCount[g] /\ dupCount[g] \in Nat
        BY <1>2, <3>2, CountWrites DEF TypeOK
      <4>. QED BY <2>5, <4>1 DEF CountInv
    <3>. QED BY <2>6, <3>1, <3>2
  <2>8. ASSUME NEW g \in created'
        PROVE  \/ dupCount'[g] < Cardinality(Members(g)')
               \/ \E u \in Calls : call'[u].g = g /\ call'[u].step \in Opening
               \/ g \in rejected'
               \/ \E c \in Complaints, step \in Opening : <<c, g, step>> \in aborted'
    <3>0. g \in Groups /\ dupCount'[g] \in Nat
      BY <2>3 DEF TypeOK
    <3>1. CASE NewGroup(w, g)
      <4>1. call'[w].g = g /\ call'[w].step = "addPrimary"
        BY <3>1 DEF NewGroup, Become, TypeOK, Call
      <4>. QED BY <4>1 DEF Opening
    <3>2. CASE ~NewGroup(w, g) /\ ~(StoreCount(w) /\ call[w].g = g)
      <4>1. dupCount'[g] = dupCount[g] /\ g \in created
        BY <1>2, <3>0, <3>2, CountWrites
      <4>2. CASE dupCount[g] < Cardinality(Members(g))
        BY <2>5, <3>0, <4>1, <4>2
      <4>3. CASE g \in rejected \/ \E c \in Complaints, step \in Opening : <<c, g, step>> \in aborted
        BY <2>3, <4>3
      <4>4. ASSUME NEW u \in Calls, call[u].g = g, call[u].step \in Opening, u # w
            PROVE  call'[u].g = g /\ call'[u].step \in Opening
        BY <2>4, <4>4
      <4>5. CASE call[w].g = g /\ call[w].step \in Opening
        <5>1. CASE call'[w].g = g /\ call'[w].step \in JoinedIn
          <6>1. /\ call'[w].c \in Complaints /\ call'[w].primary \in Complaints \ {call'[w].c}
                /\ memberOf'[call'[w].c] = g /\ memberOf'[call'[w].primary] = g
            BY <2>3, <5>1, StepSets DEF SubmitInv, SubmitTrue, CallsShaped, Shaped, Idle
          <6>2. {call'[w].c, call'[w].primary} \in SUBSET (Members(g)')
                /\ Members(g)' \in SUBSET Complaints
            BY <6>1 DEF Members
          <6>3. Cardinality({call'[w].c, call'[w].primary}) = 2
            <7>. DEFINE c == call'[w].c
                        d == call'[w].primary
            <7>1. c # d
              BY <6>1
            <7>2. Cardinality({c, d}) = 2
              <8>. HIDE DEF c, d
              <8>. QED BY <7>1, PairSize
            <7>. QED BY <7>2
          <6>4. Cardinality(Members(g)') >= 2
            BY <6>2, <6>3, LargerGroup
          <6>. QED BY <2>5, <2>7, <3>0, <6>4
        <5>. QED BY <1>2, <4>5, <5>1, OpeningEnds
      <4>. QED BY <4>1, <4>2, <4>3, <4>4, <4>5 DEF CountInv, CountNeverOver
    <3>. QED BY <2>6, <3>0, <3>1, <3>2
  <2>. QED BY <2>7, <2>8 DEF CountInv, CountNeverOver
<1>. QED BY <1>1, <1>2 DEF Next

LEMMA CountInit ==
  ASSUME GroupsAssumption, Init
  PROVE  CountInv
<1>1. PICK seed \in Seeds :
         /\ memberOf = [c \in Complaints |-> IF c \in seed THEN SeedGroup ELSE NoGroup]
         /\ created = IF seed = {} THEN {} ELSE {SeedGroup}
         /\ dupCount = [g \in Groups |->
                          IF seed # {} /\ g = SeedGroup THEN Cardinality(seed) - 1 ELSE 0]
  BY DEF Init
<1>2. seed \in SUBSET Complaints /\ Cardinality(seed) \in Nat /\ SeedGroup \in Groups
  BY LargerGroup DEF GroupsAssumption
<1>3. Members(SeedGroup) = seed
  BY <1>1, <1>2 DEF Members, GroupsAssumption
<1>4. ASSUME NEW g \in Groups
      PROVE  \/ g \notin created /\ dupCount[g] = 0
             \/ dupCount[g] < Cardinality(Members(g))
  BY <1>1, <1>2, <1>3
<1>5. created \subseteq Groups
  BY <1>1, <1>2
<1>6. CountNeverOver
  BY <1>4, <1>5 DEF CountNeverOver
<1>7. \A g \in Groups : dupCount[g] <= 1 \/ dupCount[g] < Cardinality(Members(g))
  BY <1>4
<1>. QED BY <1>6, <1>7 DEF CountInv

LEMMA SubmissionsInvariant ==
  ASSUME NoLinking
  PROVE  Spec => [](TypeOK /\ CallsShaped /\ SubmitInv /\ CountInv)
<1>1. Init => TypeOK /\ CallsShaped /\ SubmitInv /\ CountInv
  BY TypeInit, SubmitInit, CountInit, GroupsAssumption
<1>2. TypeOK /\ CallsShaped /\ SubmitInv /\ CountInv /\ [Next]_vars =>
        (TypeOK /\ CallsShaped /\ SubmitInv /\ CountInv)'
  BY NoLinking, TypeStep, SubmitStep, CountStep, GroupsAssumption
<1>. QED BY <1>1, <1>2, PTL DEF Spec

\* However submissions interleave with each other and with edits, are rejected or
\* die, a group mixes buckets only if an edit has moved a member of it, and no
\* "(+N)" promises more than its group has: with any number of complaints, groups
\* and concurrent submissions, edits, changes of priority and deletions.
THEOREM GroupsTrueTheorem ==
  ASSUME NoLinking
  PROVE  Spec => []GroupsTrue
<1>1. SubmitInv => GroupsHomogeneous
  <2>1. ASSUME SubmitInv, NEW g \in Groups, Members(g) \cap moved = {},
               NEW c \in Members(g), NEW d \in Members(g)
        PROVE  bucket[c] = bucket[d] /\ bucket[c] # NoBucket
    <3>1. /\ c \in Complaints /\ d \in Complaints /\ memberOf[c] = g /\ memberOf[d] = g
          /\ c \notin moved /\ d \notin moved /\ g # NoGroup
      BY <2>1, GroupsAssumption DEF Members, GroupsAssumption
    <3>2. Bucket[c] = Bucket[d] /\ Bucket[c] # NoBucket
      BY <2>1, <3>1 DEF SubmitInv, GroupsFiled
    <3>. QED BY <2>1, <3>1, <3>2 DEF SubmitInv, Filed
  <2>. QED BY <2>1 DEF GroupsHomogeneous
<1>2. SubmitInv /\ CountInv => GroupsTrue
  BY <1>1 DEF CountInv, GroupsTrue
<1>. QED BY <1>2, SubmissionsInvariant, PTL

-----------------------------------------------------------------------------
(* Escalation reaches every member.                                        *)

\* A level calculated from a count of four or more members meets what is due.
LEMMA DueMet ==
  ASSUME GroupsAssumption, NEW g, Cardinality(Members(g)) >= 4, NEW base \in PriorityLevels
  PROVE  CalculateAutoPriority(Cardinality(Members(g)), base) >= Due(g)
<1>1. Members(g) \in SUBSET Complaints /\ IsFiniteSet(Members(g))
  BY FS_Subset DEF Members, GroupsAssumption
<1>2. PICK n \in Nat : n = Cardinality(Members(g))
  BY <1>1, SizeType
<1>3. PICK m \in Nat : m = Cardinality(Members(g) \ overlapped) /\ m <= n
  BY <1>1, <1>2, FS_Subset, FS_CardinalityType
<1>4. Due(g) = IF m >= 6 THEN Urgent ELSE High
  BY <1>3 DEF Due
<1>. QED BY <1>2, <1>3, <1>4
         DEF CalculateAutoPriority, MinimumLevel, PriorityLevels, Low, Medium, High, Urgent

\* What a group is due falls with its members whose submission nothing overlapped.
LEMMA DueFalls ==
  ASSUME GroupsAssumption, NEW g, (Members(g) \ overlapped)' \subseteq Members(g) \ overlapped
  PROVE  Due(g)' <= Due(g) /\ Due(g) \in Nat /\ Due(g)' \in Nat
<1>1. IsFiniteSet(Members(g) \ overlapped)
  BY FS_Subset DEF Members, GroupsAssumption
<1>2. PICK m \in Nat : m = Cardinality(Members(g) \ overlapped)
  BY <1>1, FS_CardinalityType
<1>3. PICK n \in Nat : n = Cardinality((Members(g) \ overlapped)') /\ n <= m
  BY <1>1, <1>2, FS_Subset, FS_CardinalityType
<1>4. Due(g) = IF m >= 6 THEN Urgent ELSE High
  BY <1>2 DEF Due
<1>5. Due(g)' = IF n >= 6 THEN Urgent ELSE High
  BY <1>3 DEF Due
<1>. QED BY <1>3, <1>4, <1>5 DEF High, Urgent

LEMMA LevelIsNat == \A level \in PriorityLevels : level \in Nat
BY DEF PriorityLevels, Low, Urgent

\* A call that begins marks what is in flight, and itself if anything is.
LEMMA Overlaps ==
  ASSUME TypeOK, NEW w \in Calls, Begin(w)
  PROVE  /\ call[w] = Idle
         /\ \A v \in Calls \ {w} : call[v] # Idle => /\ call[v].c \in overlapped'
                                                     /\ call'[w] = Idle \/ call'[w].c \in overlapped'
<1>1. ASSUME NEW c \in Complaints, NEW op, Enter(w, op, c)
      PROVE  /\ call[w] = Idle
             /\ \A v \in Calls \ {w} : call[v] # Idle => call[v].c \in overlapped' /\ c \in overlapped'
  BY <1>1 DEF Enter
<1>2. ASSUME NEW c \in Complaints, NEW level \in Asked, SubmitAtomic(w, c, level)
      PROVE  Enter(w, "submit", c) /\ call'[w].c = c
  BY <1>2 DEF SubmitAtomic, Become, TypeOK, Idle
<1>3. ASSUME NEW c \in Complaints, NEW level \in Asked, BeginPriority(w, c, level)
      PROVE  Enter(w, "priority", c) /\ call'[w].c = c
  BY <1>3 DEF BeginPriority, Become, TypeOK, Idle
<1>4. ASSUME NEW c \in Complaints, NEW p \in Complaints, BeginLink(w, p, c)
      PROVE  Enter(w, "link", c) /\ call'[w].c = c
  BY <1>4 DEF BeginLink, Become, TypeOK, Idle, KnowsPrimary
<1>5. ASSUME NEW c \in Complaints, BeginUnlink(w, c)
      PROVE  Enter(w, "unlink", c) /\ call'[w].c = c
  BY <1>5 DEF BeginUnlink, Become, TypeOK, Idle
<1>6. ASSUME NEW c \in Complaints, Delete(w, c)
      PROVE  Enter(w, "delete", c) /\ call'[w] = Idle
  BY <1>6 DEF Delete, Enter
<1>7. ASSUME NEW c \in Complaints, BeginEdit(w, c)
      PROVE  Enter(w, "edit", c) /\ call'[w].c = c
  BY <1>7 DEF BeginEdit, Become, TypeOK, Idle
<1>. QED BY <1>1, <1>2, <1>3, <1>4, <1>5, <1>6, <1>7 DEF Begin

LEMMA OverlappedGrows ==
  ASSUME TypeOK, NEW w \in Calls, Begin(w) \/ Continue(w) \/ Fail(w)
  PROVE  overlapped \subseteq overlapped'
BY DEF Begin, SubmitAtomic, BeginPriority, BeginEdit, BeginLink, BeginUnlink, Delete, Enter,
       Continue, Match, NoMatch, ReadPrimary, NewGroup, AddPrimary, SetPrimary,
       CheckMember, AddDup, InsertRejected, SetDup, CountMembers, StoreCount,
       ReadSize, WriteOwn, Escalate, EscalationFails, RemoveMember, ClearGroup,
       WritePriority, WriteEdit, ghosts, Fail

\* A call keeps its complaint until it returns.
LEMMA KeepsSubject ==
  ASSUME TypeOK, NEW w \in Calls, Continue(w) \/ Fail(w)
  PROVE  /\ call[w] # Idle
         /\ call'[w] = Idle \/ call'[w].c = call[w].c
<1>. PICK k \in Call : k = call[w]
  BY DEF TypeOK
<1>. DEFINE Plain == call'[w] = Idle \/ call'[w].c = k.c
<1>1. ASSUME Return(w)
      PROVE  Plain
  BY <1>1 DEF Return, Become, TypeOK
<1>2. ASSUME NEW step, Goto(w, step)
      PROVE  Plain
  BY <1>2 DEF Goto, Become, TypeOK, Call
<1>3. ASSUME NEW d \in Complaints, Match(w, d)
      PROVE  Plain
  BY <1>3 DEF Match, Become, TypeOK, Call
<1>4. ASSUME NEW g \in Groups, NewGroup(w, g)
      PROVE  Plain
  BY <1>4 DEF NewGroup, Become, TypeOK, Call
<1>5. ASSUME ReadPrimary(w)
      PROVE  Plain
  BY <1>5 DEF ReadPrimary, KnowsPrimary, Become, TypeOK, Call
<1>6. ASSUME CountMembers(w)
      PROVE  Plain
  BY <1>6 DEF CountMembers, Become, TypeOK, Call
<1>7. ASSUME ReadSize(w)
      PROVE  Plain
  <2>. PICK level : level = CalculateAutoPriority(Cardinality(Members(k.g)), k.level)
    OBVIOUS
  <2>1. call' = [call EXCEPT ![w] = [k EXCEPT !.step = "own", !.seen = Members(k.g),
                                              !.level = level]]
    BY <1>7 DEF ReadSize, Become
  <2>. QED BY <2>1 DEF TypeOK, Call
<1>8. ASSUME NEW todo, Raise(w, todo)
      PROVE  Plain
  <2>1. CASE call' = [call EXCEPT ![w] = [k EXCEPT !.step = "escalate", !.seen = todo]]
    BY <2>1 DEF TypeOK, Call
  <2>. QED BY <1>1, <1>8, <2>1 DEF Raise, Become
<1>9. ASSUME WriteOwn(w) \/ \E m \in Complaints : Escalate(w, m) \/ EscalationFails(w, m)
      PROVE  Plain
  BY <1>8, <1>9 DEF WriteOwn, Escalate, EscalationFails
<1>10. ASSUME \/ NoMatch(w) \/ InsertRejected(w) \/ WritePriority(w) \/ Fail(w)
              \/ (\E b \in Buckets : WriteEdit(w, b))
              \/ AddPrimary(w) \/ SetPrimary(w) \/ CheckMember(w) \/ AddDup(w) \/ SetDup(w)
              \/ StoreCount(w) \/ RemoveMember(w) \/ ClearGroup(w)
       PROVE  Plain
  BY <1>1, <1>2, <1>10 DEF NoMatch, InsertRejected, WritePriority, WriteEdit, Fail, AddPrimary,
         SetPrimary, CheckMember, AddDup, SetDup, StoreCount, RemoveMember, ClearGroup
<1>11. call[w] # Idle
  <2>1. Continue(w) => call[w].step # "idle"
    BY DEF Continue, Match, NoMatch, ReadPrimary, NewGroup, AddPrimary, SetPrimary,
           CheckMember, AddDup, InsertRejected, SetDup, CountMembers, StoreCount,
           ReadSize, WriteOwn, Escalate, EscalationFails, RemoveMember, ClearGroup,
           WritePriority, WriteEdit, At
  <2>2. Idle.step = "idle"
    BY DEF Idle
  <2>. QED BY <2>1, <2>2 DEF Fail
<1>. QED BY <1>3, <1>4, <1>5, <1>6, <1>7, <1>9, <1>10, <1>11 DEF Continue

\* Who writes the minimum of a complaint that exists.
LEMMA AutoWrites ==
  ASSUME TypeOK, NEW w \in Calls, Begin(w) \/ Continue(w) \/ Fail(w),
         NEW c \in Complaints, Exists(c)
  PROVE  \/ complaint'[c].auto = complaint[c].auto
         \/ /\ (WriteOwn(w) /\ call[w].c = c) \/ Escalate(w, c)
            /\ complaint'[c].auto = call[w].level
<1>1. ASSUME NEW d \in Complaints, NEW level \in Asked, SubmitAtomic(w, d, level)
      PROVE  complaint'[c].auto = complaint[c].auto
  BY <1>1 DEF SubmitAtomic, TypeOK, Exists
<1>2. ASSUME NEW d \in Complaints, Delete(w, d)
      PROVE  complaint'[c].auto = complaint[c].auto
  BY <1>2 DEF Delete, TypeOK, Row
<1>3. ASSUME SetPrimary(w) \/ SetDup(w) \/ ClearGroup(w)
      PROVE  complaint'[c].auto = complaint[c].auto
  BY <1>3 DEF SetPrimary, SetDup, ClearGroup, TypeOK, Row
<1>4. ASSUME WritePriority(w)
      PROVE  complaint'[c].auto = complaint[c].auto
  BY <1>4 DEF WritePriority, TypeOK, Row
<1>5. ASSUME NEW d, NEW level, SetPriority(d, level)
      PROVE  complaint'[c].auto = IF d = c THEN level ELSE complaint[c].auto
  BY <1>5 DEF SetPriority, TypeOK, Row
<1>6. ASSUME WriteOwn(w) \/ \E m \in Complaints : Escalate(w, m)
      PROVE  \/ complaint'[c].auto = complaint[c].auto
             \/ /\ (WriteOwn(w) /\ call[w].c = c) \/ Escalate(w, c)
                /\ complaint'[c].auto = call[w].level
  <2>1. CASE WriteOwn(w)
    BY <1>5, <2>1 DEF WriteOwn
  <2>2. ASSUME NEW m \in Complaints, Escalate(w, m)
        PROVE  \/ complaint'[c].auto = complaint[c].auto
               \/ m = c /\ complaint'[c].auto = call[w].level
    BY <1>5, <2>2 DEF Escalate
  <2>. QED BY <1>6, <2>1, <2>2
<1>7. ASSUME \/ (\E d \in Complaints, level \in Asked : BeginPriority(w, d, level))
             \/ (\E d \in Complaints : BeginEdit(w, d))
             \/ (\E b \in Buckets : WriteEdit(w, b))
             \/ (\E p, d \in Complaints : BeginLink(w, p, d))
             \/ (\E d \in Complaints : BeginUnlink(w, d) \/ Match(w, d) \/ EscalationFails(w, d))
             \/ (\E g \in Groups : NewGroup(w, g))
             \/ NoMatch(w) \/ ReadPrimary(w) \/ AddPrimary(w) \/ CheckMember(w) \/ AddDup(w)
             \/ InsertRejected(w) \/ CountMembers(w) \/ StoreCount(w) \/ ReadSize(w)
             \/ RemoveMember(w) \/ Fail(w)
      PROVE  complaint' = complaint
  BY <1>7 DEF WriteEdit, BeginPriority, BeginEdit, BeginLink, BeginUnlink, Match, EscalationFails, NewGroup, NoMatch,
              ReadPrimary, AddPrimary, CheckMember, AddDup, InsertRejected, CountMembers,
              StoreCount, ReadSize, RemoveMember, Fail, tables
<1>. QED BY <1>1, <1>2, <1>3, <1>4, <1>6, <1>7 DEF Begin, Continue

LEMMA LateSteps ==
  ASSUME TypeOK, NoLinking, NEW w \in Calls, Begin(w) \/ Continue(w) \/ Fail(w),
         call'[w].step \in {"own", "escalate"}
  PROVE  ReadSize(w) \/ WriteOwn(w) \/ \E m \in Complaints : Escalate(w, m) \/ EscalationFails(w, m)
<1>. PICK k \in Call : k = call[w]
  BY DEF TypeOK
<1>. DEFINE Early == call'[w].step \notin {"own", "escalate"}
<1>1. ASSUME Return(w)
      PROVE  Early
  BY <1>1 DEF Return, Become, Idle, TypeOK
<1>2. ASSUME NEW step, step \notin {"own", "escalate"}, Goto(w, step)
      PROVE  Early
  BY <1>2 DEF Goto, Become, TypeOK, Call
<1>3. ASSUME NEW c \in Complaints, NEW level \in Asked, SubmitAtomic(w, c, level)
      PROVE  Early
  BY <1>3 DEF SubmitAtomic, Become, Idle, TypeOK
<1>4. ASSUME NEW c \in Complaints, NEW level \in Asked, BeginPriority(w, c, level)
      PROVE  Early
  BY <1>4 DEF BeginPriority, Become, Idle, TypeOK
<1>5. ASSUME NEW c \in Complaints, Delete(w, c)
      PROVE  Early
  BY <1>5 DEF Delete, Enter, Idle, TypeOK
<1>6. ASSUME NEW d \in Complaints, Match(w, d)
      PROVE  Early
  BY <1>6 DEF Match, Become, TypeOK, Call
<1>7. ASSUME NEW g \in Groups, NewGroup(w, g)
      PROVE  Early
  BY <1>7 DEF NewGroup, Become, TypeOK, Call
<1>8. ASSUME ReadPrimary(w)
      PROVE  Early
  BY <1>8 DEF ReadPrimary, KnowsPrimary, Become, TypeOK, Call
<1>9. ASSUME CountMembers(w)
      PROVE  Early
  BY <1>9 DEF CountMembers, Become, TypeOK, Call
<1>10. ASSUME \/ NoMatch(w) \/ InsertRejected(w) \/ WritePriority(w) \/ Fail(w)
              \/ (\E b \in Buckets : WriteEdit(w, b))
              \/ AddPrimary(w) \/ SetPrimary(w) \/ CheckMember(w) \/ AddDup(w) \/ SetDup(w)
              \/ StoreCount(w) \/ RemoveMember(w) \/ ClearGroup(w)
       PROVE  Early
  BY <1>1, <1>2, <1>10 DEF NoMatch, InsertRejected, WritePriority, WriteEdit, Fail, AddPrimary,
         SetPrimary, CheckMember, AddDup, SetDup, StoreCount, RemoveMember, ClearGroup
<1>11. ASSUME NEW c \in Complaints, BeginEdit(w, c)
       PROVE  Early
  BY <1>11 DEF BeginEdit, Become, Idle, TypeOK
<1>. QED BY <1>3, <1>4, <1>5, <1>6, <1>7, <1>8, <1>9, <1>10, <1>11, OpsUsed DEF Begin, Continue

\* What ReadSize and Raise leave in their call.
LEMMA ReadSizeGives ==
  ASSUME TypeOK, GroupsAssumption, NEW w \in Calls, ReadSize(w)
  PROVE  /\ call'[w].step = "own" /\ call'[w].g = call[w].g /\ call'[w].c = call[w].c
         /\ call'[w].seen = Members(call[w].g)
         /\ call'[w].level =
              CalculateAutoPriority(Cardinality(Members(call[w].g)), call[w].level)
<1>. PICK level : level = CalculateAutoPriority(Cardinality(Members(call[w].g)), call[w].level)
  OBVIOUS
<1>1. call' = [call EXCEPT ![w] = [call[w] EXCEPT !.step = "own", !.seen = Members(call[w].g),
                                                  !.level = level]]
  BY DEF ReadSize, Become
<1>. QED BY <1>1 DEF TypeOK, Call

LEMMA RaiseGives ==
  ASSUME TypeOK, NEW w \in Calls, NEW todo, Raise(w, todo)
  PROVE  \/ todo = {} /\ call'[w] = Idle
         \/ /\ todo # {}
            /\ call'[w].step = "escalate" /\ call'[w].g = call[w].g
            /\ call'[w].level = call[w].level /\ call'[w].seen = todo
<1>1. CASE todo = {}
  BY <1>1 DEF Raise, Return, Become, TypeOK
<1>2. CASE todo # {}
  <2>1. call' = [call EXCEPT ![w] = [call[w] EXCEPT !.step = "escalate", !.seen = todo]]
    BY <1>2 DEF Raise, Become
  <2>. QED BY <1>2, <2>1 DEF TypeOK, Call
<1>. QED BY <1>1, <1>2

LEMMA LevelStep ==
  ASSUME TypeOK, CallsShaped, NoLinking, GroupsAssumption, NEW w \in Calls,
         Begin(w) \/ Continue(w) \/ Fail(w), LevelRight(call[w])
  PROVE  LevelRight(call[w])'
<1>. PICK k \in Call : k = call[w]
  BY DEF TypeOK
<1>0. call'[w] = Idle => LevelRight(call[w])'
  <2>1. Idle.step = "idle"
    BY DEF Idle
  <2>. QED BY <2>1 DEF LevelRight
<1>1. CASE ReadSize(w)
  <2>1. memberOf' = memberOf /\ overlapped' = overlapped
    BY <1>1 DEF ReadSize, tables, ghosts
  <2>2. k.level \in PriorityLevels
    BY DEF Call
  <2>3. /\ call'[w].step = "own" /\ call'[w].g = k.g /\ call'[w].seen = Members(k.g)
        /\ call'[w].level = CalculateAutoPriority(Cardinality(Members(k.g)), k.level)
    BY <1>1, ReadSizeGives
  <2>4. Members(k.g)' = Members(k.g) /\ Due(k.g)' = Due(k.g)
    BY <2>1 DEF Members, Due
  <2>5. Cardinality(call'[w].seen) >= 4 => call'[w].level >= Due(k.g)
    BY <2>2, <2>3, DueMet
  <2>. QED BY <2>3, <2>4, <2>5 DEF LevelRight
<1>2. ASSUME NEW todo, Raise(w, todo), todo \subseteq Members(k.g), k.level >= Due(k.g),
             memberOf' = memberOf, overlapped' = overlapped
      PROVE  LevelRight(call[w])'
  <2>1. Members(k.g)' = Members(k.g) /\ Due(k.g)' = Due(k.g)
    BY <1>2 DEF Members, Due
  <2>2. \/ call'[w] = Idle
        \/ /\ call'[w].step = "escalate" /\ call'[w].level = k.level
           /\ call'[w].g = k.g /\ call'[w].seen = todo
    BY <1>2, RaiseGives
  <2>. QED BY <1>0, <1>2, <2>1, <2>2 DEF LevelRight
<1>3. CASE WriteOwn(w)
  <2>1. /\ k.step = "own" /\ Raise(w, IF Cardinality(k.seen) >= 4 THEN k.seen \ {k.c} ELSE {})
        /\ memberOf' = memberOf /\ overlapped' = overlapped
    BY <1>3 DEF WriteOwn, At, ghosts
  <2>2. CASE Cardinality(k.seen) >= 4
    <3>1. Raise(w, k.seen \ {k.c})
      BY <2>1, <2>2
    <3>2. k.seen \subseteq Members(k.g) /\ k.level >= Due(k.g)
      BY <2>1, <2>2 DEF LevelRight
    <3>. QED BY <1>2, <2>1, <3>1, <3>2
  <2>3. CASE ~(Cardinality(k.seen) >= 4)
    <3>1. Raise(w, {})
      BY <2>1, <2>3
    <3>2. call'[w] = Idle
      BY <3>1, RaiseGives
    <3>. QED BY <1>0, <3>2
  <2>. QED BY <2>2, <2>3
<1>4. ASSUME NEW m \in Complaints, Escalate(w, m) \/ EscalationFails(w, m)
      PROVE  LevelRight(call[w])'
  <2>1. /\ k.step = "escalate" /\ Raise(w, k.seen \ {m})
        /\ memberOf' = memberOf /\ overlapped' = overlapped
    BY <1>4 DEF Escalate, EscalationFails, At, tables, ghosts
  <2>2. k.seen \subseteq Members(k.g) /\ k.level >= Due(k.g)
    BY <2>1 DEF LevelRight
  <2>. QED BY <1>2, <2>1, <2>2
<1>. QED BY <1>1, <1>3, <1>4, LateSteps DEF LevelRight

LEMMA AloneStep ==
  ASSUME TypeOK, CallsShaped, NoLinking, GroupsAssumption, NEW w \in Calls,
         Begin(w) \/ Continue(w) \/ Fail(w), \A v \in Calls : AloneRight(v),
         NEW v \in Calls
  PROVE  AloneRight(v)'
<1>1. \A u \in Calls \ {w} : call'[u] = call[u]
  BY OneCallMoves
<1>2. overlapped \subseteq overlapped'
  BY OverlappedGrows
<1>3. ASSUME call'[v] # Idle, call'[v].c \notin overlapped'
      PROVE  v = w /\ \A u \in Calls \ {w} : call'[u] = Idle
  <2>1. CASE v # w
    <3>1. call[v] # Idle /\ call[v].c \notin overlapped
      BY <1>1, <1>2, <1>3, <2>1
    <3>2. call[w] = Idle
      BY <2>1, <3>1 DEF AloneRight
    <3>3. Begin(w)
      BY <3>2, KeepsSubject
    <3>. QED BY <1>1, <1>3, <2>1, <3>1, <3>3, Overlaps
  <2>2. CASE v = w /\ Begin(w)
    BY <1>1, <1>3, <2>2, Overlaps
  <2>3. CASE v = w /\ (Continue(w) \/ Fail(w))
    <3>1. call[w] # Idle /\ call[w].c \notin overlapped
      BY <1>2, <1>3, <2>3, KeepsSubject
    <3>. QED BY <1>1, <2>3, <3>1 DEF AloneRight
  <2>. QED BY <2>1, <2>2, <2>3
<1>4. ASSUME call'[w].step = "own"
      PROVE  call'[w].seen = Members(call[w].g)'
  <2>1. ReadSize(w)
    <3>1. ASSUME NEW todo, Raise(w, todo)
          PROVE  FALSE
      BY <1>4, <3>1, RaiseGives DEF Idle
    <3>2. ~WriteOwn(w) /\ ~\E m \in Complaints : Escalate(w, m) \/ EscalationFails(w, m)
      BY <3>1 DEF WriteOwn, Escalate, EscalationFails
    <3>. QED BY <1>4, <3>2, LateSteps
  <2>2. call'[w].seen = Members(call[w].g) /\ call'[w].g = call[w].g /\ memberOf' = memberOf
    BY <2>1, ReadSizeGives DEF ReadSize, tables
  <2>. QED BY <2>2 DEF Members
<1>. QED BY <1>3, <1>4 DEF AloneRight, At

\* A call that is going to raise c does it, or is a step nearer, or dies.
LEMMA RaisingStep ==
  ASSUME TypeOK, CallsShaped, SubmitInv, RaiseInv, GroupsAssumption, NoLinking,
         NEW w \in Calls, Begin(w) \/ Continue(w) \/ Fail(w),
         NEW g \in Groups, NEW c \in Members(g),
         Cardinality(Members(g)) >= 4, c \notin overlapped,
         call[w].g = g, WillRaise(call[w], c)
  PROVE  \/ complaint'[c].auto >= Due(g)
         \/ call'[w].g = g /\ WillRaise(call[w], c)'
         \/ \E a \in aborted' : a[2] = g
<1>. PICK k \in Call : k = call[w]
  BY DEF TypeOK
<1>1. /\ SubmitTrue(k) /\ LevelRight(k)
      /\ Shaped(k) /\ k # Idle
      /\ c \in Complaints /\ memberOf[c] = g
  BY DEF SubmitInv, RaiseInv, CallsShaped, WillRaise, Idle, Members
<1>2. k.step \in {"setDup", "count", "store", "size", "own", "escalate"}
  BY DEF WillRaise
<1>3. CASE Begin(w)
  BY <1>1, <1>3, Overlaps
<1>4. CASE Fail(w)
  <2>1. <<k.c, g, k.step>> \in aborted'
    BY <1>4 DEF Fail
  <2>2. <<k.c, g, k.step>>[2] = g
    OBVIOUS
  <2>. QED BY <2>1, <2>2
<1>5. ASSUME NEW step \in {"count", "size"}, Goto(w, step)
      PROVE  call'[w].g = g /\ WillRaise(call[w], c)'
  <2>1. call'[w].g = g /\ call'[w].step = step
    BY <1>5 DEF Goto, Become, TypeOK, Call
  <2>. QED BY <2>1 DEF WillRaise
<1>6. CASE SetDup(w)
  BY <1>5, <1>6 DEF SetDup
<1>7. CASE CountMembers(w)
  <2>1. call'[w].g = g /\ call'[w].step = "store"
    BY <1>7 DEF CountMembers, Become, TypeOK, Call
  <2>. QED BY <2>1 DEF WillRaise
<1>8. CASE StoreCount(w)
  <2>1. k.op = "submit"
    BY <1>1, <1>2 DEF SubmitTrue
  <2>. QED BY <1>5, <1>8, <2>1 DEF StoreCount
<1>9. CASE ReadSize(w)
  <2>1. call'[w].step = "own" /\ call'[w].g = g /\ call'[w].seen = Members(g)
    BY <1>9, ReadSizeGives
  <2>. QED BY <2>1 DEF WillRaise
<1>10. CASE WriteOwn(w)
  <2>1. /\ k.step = "own" /\ c \in k.seen /\ Cardinality(k.seen) >= 4
        /\ k.level >= Due(g)
    BY <1>1, <1>10 DEF WriteOwn, At, WillRaise, LevelRight
  <2>2. CASE c = k.c
    <3>1. complaint'[c].auto = k.level
      BY <1>1, <1>10, <2>2 DEF WriteOwn, SetPriority, TypeOK, Row
    <3>. QED BY <2>1, <3>1
  <2>3. CASE c # k.c
    <3>1. Raise(w, k.seen \ {k.c}) /\ c \in k.seen \ {k.c}
      BY <1>10, <2>1, <2>3 DEF WriteOwn
    <3>2. call'[w].step = "escalate" /\ call'[w].g = g /\ c \in call'[w].seen
      BY <3>1, RaiseGives
    <3>. QED BY <3>2 DEF WillRaise
  <2>. QED BY <2>2, <2>3
<1>11. ASSUME NEW m \in Complaints, Escalate(w, m) \/ EscalationFails(w, m)
       PROVE  \/ complaint'[c].auto >= Due(g)
              \/ call'[w].g = g /\ WillRaise(call[w], c)'
              \/ \E a \in aborted' : a[2] = g
  <2>1. k.step = "escalate" /\ c \in k.seen /\ k.level >= Due(g) /\ Raise(w, k.seen \ {m})
    BY <1>1, <1>11 DEF Escalate, EscalationFails, At, WillRaise, LevelRight
  <2>2. CASE EscalationFails(w, m)
    <3>1. <<m, g, "escalate">> \in aborted'
      BY <2>2 DEF EscalationFails
    <3>2. <<m, g, "escalate">>[2] = g
      OBVIOUS
    <3>. QED BY <3>1, <3>2
  <2>3. CASE Escalate(w, m) /\ m = c
    <3>1. complaint'[c].auto = k.level
      BY <1>1, <2>3 DEF Escalate, SetPriority, TypeOK, Row
    <3>. QED BY <2>1, <3>1
  <2>4. CASE m # c
    <3>1. c \in k.seen \ {m}
      BY <2>1, <2>4
    <3>2. call'[w].step = "escalate" /\ call'[w].g = g /\ c \in call'[w].seen
      BY <2>1, <3>1, RaiseGives
    <3>. QED BY <3>2 DEF WillRaise
  <2>. QED BY <1>11, <2>2, <2>3, <2>4
<1>. QED BY <1>2, <1>3, <1>4, <1>6, <1>7, <1>8, <1>9, <1>10, <1>11
     DEF Continue, Match, NoMatch, ReadPrimary, NewGroup, AddPrimary, SetPrimary, CheckMember, AddDup,
         InsertRejected, RemoveMember, ClearGroup, WritePriority, WriteEdit, At

LEMMA GroupGrows ==
  ASSUME TypeOK, CallsShaped, SubmitInv, GroupsAssumption, NoLinking, NEW w \in Calls,
         Begin(w) \/ Continue(w) \/ Fail(w), NEW g \in Groups, Cardinality(Members(g)') >= 4
  PROVE  \/ Members(g)' = Members(g)
         \/ call'[w].g = g /\ call'[w].step = "setDup"
<1>. PICK k \in Call : k = call[w]
  BY DEF TypeOK
<1>1. k.step # "remove"
  BY DEF SubmitInv, SubmitTrue, CallsShaped, Shaped, Idle
<1>2. Kept
  BY <1>1, BeginKeeps, ContinueKeeps
<1>3. CASE memberOf' = memberOf
  BY <1>3 DEF Members
<1>4. CASE AddDup(w) /\ k.g = g
  BY <1>4 DEF AddDup, Goto, Become, TypeOK, Call
<1>5. CASE AddPrimary(w) /\ k.g = g
  <2>1. Members(g) = {} /\ memberOf' = [memberOf EXCEPT ![k.primary] = g]
    BY <1>5 DEF AddPrimary, SubmitInv, Fresh
  <2>2. Members(g)' \subseteq {k.primary}
    BY <2>1 DEF Members, TypeOK
  <2>3. IsFiniteSet({k.primary}) /\ Cardinality({k.primary}) = 1
    BY FS_Singleton
  <2>4. Cardinality(Members(g)') <= 1 /\ Cardinality(Members(g)') \in Nat
    BY <2>2, <2>3, FS_Subset, FS_CardinalityType
  <2>. QED BY <2>4
<1>6. ASSUME NEW y, memberOf' = [memberOf EXCEPT ![y] = k.g], k.g # g
      PROVE  Members(g)' = Members(g)
  <2>1. ASSUME NEW x \in Complaints
        PROVE  memberOf'[x] = g <=> memberOf[x] = g
    BY <1>2, <1>6 DEF Kept, TypeOK, GroupsAssumption
  <2>. QED BY <2>1 DEF Members
<1>. QED BY <1>1, <1>3, <1>4, <1>5, <1>6, MembershipStep

\* While call v has group g in hand, none joins it but one whose call overlaps v's.
LEMMA NoneJoinsAlone ==
  ASSUME TypeOK, CallsShaped, SubmitInv, GroupsAssumption, NoLinking, \A u \in Calls : AloneRight(u),
         NEW w \in Calls, Begin(w) \/ Continue(w) \/ Fail(w),
         NEW v \in Calls \ {w}, call[v] # Idle, NEW g \in Groups, call[v].g = g
  PROVE  (Members(g) \ overlapped)' \subseteq Members(g) \ overlapped
<1>1. overlapped \subseteq overlapped'
  BY OverlappedGrows
<1>2. CASE memberOf' = memberOf
  BY <1>1, <1>2 DEF Members
<1>3. CASE AddDup(w)
  <2>1. call[w] # Idle /\ memberOf' = [memberOf EXCEPT ![call[w].c] = call[w].g]
    BY <1>3 DEF AddDup, At, Idle
  <2>2. call[w].c \in overlapped
    BY <2>1 DEF AloneRight
  <2>3. \A x \in Complaints : x # call[w].c => memberOf'[x] = memberOf[x]
    BY <2>1 DEF TypeOK
  <2>. QED BY <1>1, <2>2, <2>3 DEF Members
<1>4. CASE AddPrimary(w)
  <2>1. /\ memberOf' = [memberOf EXCEPT ![call[w].primary] = call[w].g]
        /\ call[w].g # g
    BY <1>4 DEF AddPrimary, SubmitInv, Fresh
  <2>2. \A x \in Complaints : memberOf'[x] = g => memberOf[x] = g
    BY <2>1 DEF TypeOK
  <2>. QED BY <1>1, <2>2 DEF Members
<1>5. call[w].step # "remove"
  BY DEF SubmitInv, SubmitTrue, CallsShaped, Shaped, Idle
<1>. QED BY <1>2, <1>3, <1>4, <1>5, MembershipStep

LEMMA RaisedStep ==
  ASSUME TypeOK, CallsShaped, SubmitInv, RaiseInv, GroupsAssumption, NoLinking,
         NEW w \in Calls, Begin(w) \/ Continue(w) \/ Fail(w),
         NEW g \in Groups, NEW c \in Complaints
  PROVE  Raised(c, g)'
<1>. SUFFICES ASSUME memberOf'[c] = g, Cardinality(Members(g)') >= 4, c \notin overlapped'
              PROVE  \/ complaint'[c].auto >= Due(g)'
                     \/ \E u \in Calls : call'[u].g = g /\ WillRaise(call[u], c)'
                     \/ \E a \in aborted' : a[2] = g
  BY DEF Raised
<1>1. aborted \subseteq aborted' /\ overlapped \subseteq overlapped'
  BY GhostsGrow, OverlappedGrows DEF Next
<1>2. CASE call'[w].g = g /\ call'[w].step = "setDup"
  BY <1>2 DEF WillRaise
<1>3. CASE Members(g)' = Members(g)
  <2>1. c \in Members(g) /\ Cardinality(Members(g)) >= 4 /\ c \notin overlapped
    BY <1>1, <1>3 DEF Members
  <2>2. Exists(c) /\ memberOf[c] = g
    BY <2>1 DEF Members, SubmitInv, Placed, GroupsAssumption
  <2>0. /\ Due(g)' <= Due(g) /\ Due(g) \in Nat /\ Due(g)' \in Nat
        /\ \A level \in Nat : level >= Due(g) => level >= Due(g)'
    BY <1>1, <1>3, DueFalls
  <2>9. complaint[c].auto \in Nat /\ call[w].level \in Nat
    BY LevelIsNat DEF TypeOK, Row, Call
  <2>3. CASE complaint[c].auto >= Due(g)
    <3>1. CASE WriteOwn(w) /\ call[w].c = c
      <4>1. call[w].g = g /\ call[w] # Idle /\ At(w, "own")
        BY <2>2, <3>1, StepSets DEF WriteOwn, At, SubmitInv, SubmitTrue, Idle
      <4>2. call[w].seen = Members(g)
        BY <2>1, <3>1, <4>1 DEF RaiseInv, AloneRight
      <4>3. call[w].level >= Due(g)
        BY <2>1, <4>1, <4>2 DEF RaiseInv, LevelRight, At
      <4>4. complaint'[c].auto = call[w].level \/ complaint'[c].auto = complaint[c].auto
        BY <2>2, AutoWrites
      <4>. QED BY <2>0, <2>3, <2>9, <4>3, <4>4
    <3>2. CASE Escalate(w, c)
      <4>0. call[w].step = "escalate" /\ c \in call[w].seen /\ LevelRight(call[w])
        BY <3>2 DEF Escalate, RaiseInv, At
      <4>1. call[w].level >= Due(g)
        BY <2>2, <4>0 DEF LevelRight, Members
      <4>2. complaint'[c].auto = call[w].level \/ complaint'[c].auto = complaint[c].auto
        BY <2>2, AutoWrites
      <4>. QED BY <2>0, <2>3, <2>9, <4>1, <4>2
    <3>. QED BY <2>0, <2>2, <2>3, <2>9, <3>1, <3>2, AutoWrites
  <2>4. ASSUME NEW u \in Calls, call[u].g = g, WillRaise(call[u], c)
        PROVE  \/ complaint'[c].auto >= Due(g)'
               \/ call'[u].g = g /\ WillRaise(call[u], c)'
               \/ \E a \in aborted' : a[2] = g
    <3>1. CASE u = w
      <4>1. complaint'[c].auto \in Nat
        BY TypeStep, LevelIsNat DEF Next, TypeOK, Row
      <4>. QED BY <2>0, <2>1, <2>4, <3>1, <4>1, RaisingStep
    <3>2. CASE u # w
      <4>1. call'[u] = call[u]
        BY <3>2, OneCallMoves
      <4>. QED BY <2>4, <4>1 DEF WillRaise
    <3>. QED BY <3>1, <3>2
  <2>. QED BY <1>1, <2>1, <2>2, <2>3, <2>4 DEF RaiseInv, Raised
<1>. QED BY <1>2, <1>3, GroupGrows

LEMMA RaiseStep ==
  ASSUME TypeOK, CallsShaped, SubmitInv, RaiseInv, GroupsAssumption, NoLinking, [Next]_vars
  PROVE  RaiseInv'
<1>1. CASE UNCHANGED vars
  <2>1. \A g : Members(g)' = Members(g)
    BY <1>1 DEF vars, Members
  <2>4. \A g : Due(g)' = Due(g)
    BY <1>1, <2>1 DEF vars, Due
  <2>2. ASSUME NEW w \in Calls
        PROVE  LevelRight(call[w])' /\ AloneRight(w)'
    BY <1>1, <2>1, <2>4 DEF vars, RaiseInv, LevelRight, AloneRight, At
  <2>3. ASSUME NEW g \in Groups, NEW c \in Complaints
        PROVE  Raised(c, g)'
    BY <1>1, <2>1, <2>4 DEF vars, RaiseInv, Raised, WillRaise
  <2>. QED BY <2>2, <2>3 DEF RaiseInv
<1>2. ASSUME NEW w \in Calls, Begin(w) \/ Continue(w) \/ Fail(w)
      PROVE  RaiseInv'
  <2>1. ASSUME NEW v \in Calls
        PROVE  LevelRight(call[v])'
    <3>1. CASE v = w
      BY <1>2, <3>1, LevelStep DEF RaiseInv
    <3>2. CASE v # w
      <4>1. call'[v] = call[v]
        BY <1>2, <3>2, OneCallMoves
      <4>2. call[v].step # "remove" /\ call[w].step # "remove"
        BY DEF SubmitInv, SubmitTrue, CallsShaped, Shaped, Idle
      <4>3. Kept
        BY <1>2, <4>2, BeginKeeps, ContinueKeeps
      <4>. PICK k \in Call : k = call[v]
        BY DEF TypeOK
      <4>4. ASSUME k.step \in {"own", "escalate"}
            PROVE  /\ Members(k.g) \subseteq Members(k.g)'
                   /\ k.level >= Due(k.g) => k.level >= Due(k.g)'
        <5>1. k # Idle /\ k.g \in Groups
          BY <4>4 DEF CallsShaped, Shaped, Idle
        <5>2. Members(k.g) \subseteq Members(k.g)'
          BY <4>3, <5>1 DEF Kept, Members, GroupsAssumption
        <5>3. (Members(k.g) \ overlapped)' \subseteq Members(k.g) \ overlapped
          BY <1>2, <3>2, <5>1, NoneJoinsAlone DEF RaiseInv
        <5>4. k.level \in Nat
          BY LevelIsNat DEF Call
        <5>5. Due(k.g)' <= Due(k.g) /\ Due(k.g) \in Nat /\ Due(k.g)' \in Nat
          BY <5>3, DueFalls
        <5>. QED BY <5>2, <5>4, <5>5
      <4>5. LevelRight(k)
        BY DEF RaiseInv
      <4>6. LevelRight(k)'
        BY <4>4, <4>5 DEF LevelRight
      <4>. QED BY <4>1, <4>6 DEF LevelRight, Due, Members
    <3>. QED BY <3>1, <3>2
  <2>2. \A v \in Calls : AloneRight(v)'
    BY <1>2, AloneStep DEF RaiseInv
  <2>3. \A g \in Groups, c \in Complaints : Raised(c, g)'
    BY <1>2, RaisedStep
  <2>. QED BY <2>1, <2>2, <2>3 DEF RaiseInv
<1>. QED BY <1>1, <1>2 DEF Next

LEMMA RaiseInit ==
  ASSUME GroupsAssumption, Init
  PROVE  RaiseInv
<1>1. PICK seed \in Seeds :
         memberOf = [c \in Complaints |-> IF c \in seed THEN SeedGroup ELSE NoGroup]
  BY DEF Init
<1>2. \A w \in Calls : call[w] = Idle /\ Idle.step = "idle"
  BY DEF Init, Idle
<1>3. \A w \in Calls : LevelRight(call[w]) /\ AloneRight(w)
  BY <1>2 DEF LevelRight, AloneRight
<1>4. ASSUME NEW g \in Groups, NEW c \in Complaints, memberOf[c] = g
      PROVE  ~(Cardinality(Members(g)) >= 4)
  <2>1. Members(g) = seed /\ Cardinality(seed) \in {0, 2, 3}
    BY <1>1, <1>4 DEF Members, GroupsAssumption
  <2>. QED BY <2>1
<1>. QED BY <1>3, <1>4 DEF RaiseInv, Raised

\* However submissions interleave, once those of a group of four or more are over
\* its members have at least High as their minimum, and Urgent if six of them were
\* submitted with no other call in flight, but for the complaints whose own call
\* overlapped another: with any number of complaints, groups and concurrent
\* submissions, edits, changes of priority and deletions.
THEOREM EscalationReachesTheorem ==
  ASSUME NoLinking
  PROVE  Spec => []EscalationReaches
<1>1. Init => RaiseInv
  BY RaiseInit, GroupsAssumption
<1>2. TypeOK /\ CallsShaped /\ SubmitInv /\ RaiseInv /\ [Next]_vars => RaiseInv'
  BY NoLinking, RaiseStep, GroupsAssumption
<1>3. RaiseInv => EscalationReaches
  BY DEF RaiseInv, Raised, EscalationReaches, Settled, Members
<1>. QED BY <1>1, <1>2, <1>3, SubmissionsInvariant, PTL DEF Spec

-----------------------------------------------------------------------------
(* Duplicates surface.                                                     *)

\* Submissions, edits and changes of priority: no complaint is deleted either.
OnlySubmitted == Ops \subseteq {"submit", "priority", "edit"}

LEMMA OnlySubmittedFacts ==
  ASSUME OnlySubmitted
  PROVE  NoLinking /\ \A w, c : ~Delete(w, c)
BY DEF OnlySubmitted, NoLinking, Delete, Enter

LEMMA ExistenceStep ==
  ASSUME TypeOK, OnlySubmitted, NEW w \in Calls, Begin(w) \/ Continue(w) \/ Fail(w),
         NEW c \in Complaints
  PROVE  \/ complaint'[c].deleted = complaint[c].deleted /\ Exists(c)' = Exists(c)
         \/ /\ ~complaint'[c].deleted
            /\ call'[w].step = "match" /\ call'[w].c = c
<1>1. ASSUME NEW d \in Complaints, NEW level \in Asked, SubmitAtomic(w, d, level)
      PROVE  \/ complaint'[c].deleted = complaint[c].deleted /\ Exists(c)' = Exists(c)
             \/ /\ ~complaint'[c].deleted
                /\ call'[w].step = "match" /\ call'[w].c = c
  BY <1>1 DEF SubmitAtomic, Become, TypeOK, Exists, NoRow, Idle
<1>2. ASSUME SetPrimary(w) \/ SetDup(w) \/ ClearGroup(w) \/ WritePriority(w)
      PROVE  complaint'[c].deleted = complaint[c].deleted /\ Exists(c)' = Exists(c)
  BY <1>2 DEF SetPrimary, SetDup, ClearGroup, WritePriority, WriteEdit, TypeOK, Row, Exists
<1>3. ASSUME NEW d, NEW level, SetPriority(d, level)
      PROVE  complaint'[c].deleted = complaint[c].deleted /\ Exists(c)' = Exists(c)
  BY <1>3 DEF SetPriority, TypeOK, Row, Exists
<1>4. ASSUME WriteOwn(w) \/ \E m \in Complaints : Escalate(w, m)
      PROVE  complaint'[c].deleted = complaint[c].deleted /\ Exists(c)' = Exists(c)
  BY <1>3, <1>4 DEF WriteOwn, Escalate
<1>5. ASSUME \/ (\E d \in Complaints, level \in Asked : BeginPriority(w, d, level))
             \/ (\E d \in Complaints : BeginEdit(w, d))
             \/ (\E b \in Buckets : WriteEdit(w, b))
             \/ (\E d \in Complaints : Match(w, d) \/ EscalationFails(w, d))
             \/ (\E g \in Groups : NewGroup(w, g))
             \/ NoMatch(w) \/ ReadPrimary(w) \/ AddPrimary(w) \/ CheckMember(w) \/ AddDup(w)
             \/ InsertRejected(w) \/ CountMembers(w) \/ StoreCount(w) \/ ReadSize(w)
             \/ RemoveMember(w) \/ Fail(w)
      PROVE  complaint'[c].deleted = complaint[c].deleted /\ Exists(c)' = Exists(c)
  BY <1>5 DEF WriteEdit, BeginPriority, BeginEdit, Match, EscalationFails, NewGroup, NoMatch, Exists,
              ReadPrimary, AddPrimary, CheckMember, AddDup, InsertRejected, CountMembers,
              StoreCount, ReadSize, RemoveMember, Fail, tables
<1>. QED BY <1>1, <1>2, <1>4, <1>5, OpsUsed, OnlySubmittedFacts DEF Begin, Continue

\* A call that is on its way to open a group of bucket b, or join one, does not
\* end before some complaint of b is in a group, unless it dies.
LEMMA SurfacingStep ==
  ASSUME TypeOK, CallsShaped, SubmitInv, SurfaceInv, GroupsAssumption, OnlySubmitted,
         NEW w \in Calls, Begin(w) \/ Continue(w) \/ Fail(w), aborted' = {}, moved' = {},
         NEW c \in Complaints, NEW d \in Complaints, c # d, Exists(c), Exists(d),
         Bucket[c] = Bucket[d], Bucket[c] # NoBucket,
         call[w].step \in {"match", "primary", "newGroup", "addPrimary"},
         Bucket[call[w].c] = Bucket[c]
  PROVE  Surfaces(Bucket[c])'
<1>. PICK k \in Call : k = call[w]
  BY DEF TypeOK
<1>1. /\ SubmitTrue(k) /\ Shaped(k) /\ k # Idle
      /\ k.step # "match" => k.primary \in Complaints /\ Bucket[k.primary] = Bucket[c]
  <2>1. SubmitTrue(k) /\ Shaped(k) /\ k # Idle
    BY DEF SubmitInv, CallsShaped, Idle
  <2>2. moved = {}
    BY MovedGrows
  <2>. QED BY <2>1, <2>2, StepSets DEF SubmitTrue
<1>2. ASSUME call'[w].step \in {"match", "primary", "newGroup", "addPrimary"}, call'[w].c = k.c
      PROVE  Surfaces(Bucket[c])'
  BY <1>2 DEF Surfaces
<1>3. ASSUME NEW e \in Complaints, memberOf'[e] # NoGroup, Bucket[e] = Bucket[c]
      PROVE  Surfaces(Bucket[c])'
  BY <1>3 DEF Surfaces
<1>4. CASE Begin(w) \/ Fail(w)
  BY <1>1, <1>4, Overlaps DEF Fail
<1>5. ASSUME NEW e \in Complaints, Match(w, e)
      PROVE  Surfaces(Bucket[c])'
  BY <1>2, <1>5 DEF Match, Become, TypeOK, Call
<1>6. ~NoMatch(w)
  <2>1. bucket[c] = Bucket[c] /\ bucket[d] = Bucket[d]
    BY MovedGrows DEF SubmitInv, Filed
  <2>2. c \in Matches(k.c) \/ d \in Matches(k.c)
    BY <2>1 DEF Matches, SurfaceInv
  <2>. QED BY <2>2 DEF NoMatch
<1>7. CASE ReadPrimary(w)
  <2>1. k.step = "primary" /\ memberOf' = memberOf
    BY <1>7 DEF ReadPrimary, At, tables
  <2>2. CASE complaint[k.primary].groupId = NoGroup
    BY <1>2, <1>7, <2>2 DEF ReadPrimary, KnowsPrimary, Become, TypeOK, Call
  <2>3. CASE complaint[k.primary].groupId # NoGroup
    <3>1. memberOf[k.primary] # NoGroup
      BY <1>1, <2>1, <2>3 DEF SubmitInv, Placed
    <3>. QED BY <1>1, <1>3, <2>1, <3>1
  <2>. QED BY <2>2, <2>3
<1>8. ASSUME NEW g \in Groups, NewGroup(w, g)
      PROVE  Surfaces(Bucket[c])'
  BY <1>2, <1>8 DEF NewGroup, Become, TypeOK, Call
<1>9. CASE AddPrimary(w)
  <2>1. k.step = "addPrimary" /\ memberOf'[k.primary] = k.g /\ k.g \in Groups
    BY <1>1, <1>9 DEF AddPrimary, At, TypeOK, Shaped
  <2>. QED BY <1>1, <1>3, <2>1 DEF GroupsAssumption
<1>10. CASE InsertRejected(w)
  <2>1. k.step = "addPrimary" /\ memberOf[k.primary] # NoGroup /\ memberOf' = memberOf
    BY <1>10 DEF InsertRejected, At, tables
  <2>. QED BY <1>1, <1>3, <2>1
<1>. QED BY <1>4, <1>5, <1>6, <1>7, <1>8, <1>9, <1>10
     DEF Continue, SetPrimary, CheckMember, AddDup, SetDup, CountMembers, StoreCount, ReadSize,
         WriteOwn, Escalate, EscalationFails, RemoveMember, ClearGroup, WritePriority, WriteEdit, At

LEMMA SurfaceStep ==
  ASSUME TypeOK, CallsShaped, SubmitInv, SurfaceInv, GroupsAssumption, OnlySubmitted, [Next]_vars
  PROVE  SurfaceInv'
<1>1. CASE UNCHANGED vars
  BY <1>1 DEF vars, SurfaceInv, Surfaces, Exists
<1>2. ASSUME NEW w \in Calls, Begin(w) \/ Continue(w) \/ Fail(w)
      PROVE  SurfaceInv'
  <2>1. NoLinking /\ call[w].step # "remove"
    BY OnlySubmittedFacts DEF SubmitInv, SubmitTrue, CallsShaped, Shaped, Idle
  <2>2. Kept
    BY <1>2, <2>1, BeginKeeps, ContinueKeeps
  <2>3. \A x \in Complaints : ~complaint'[x].deleted
    BY <1>2, ExistenceStep DEF SurfaceInv
  <2>4. ASSUME aborted' = {}, moved' = {}, NEW c \in Complaints, NEW d \in Complaints, c # d,
               Exists(c)', Exists(d)', Bucket[c] = Bucket[d], Bucket[c] # NoBucket
        PROVE  Surfaces(Bucket[c])'
    <3>1. aborted = {} /\ moved = {}
      BY <1>2, <2>4, GhostsGrow, MovedGrows DEF Next
    <3>2. CASE Exists(c) /\ Exists(d)
      <4>1. CASE \E e \in Complaints : Bucket[e] = Bucket[c] /\ memberOf[e] # NoGroup
        BY <2>2, <4>1 DEF Kept, Surfaces
      <4>2. ASSUME NEW u \in Calls, Bucket[call[u].c] = Bucket[c],
                   call[u].step \in {"match", "primary", "newGroup", "addPrimary"}
            PROVE  Surfaces(Bucket[c])'
        <5>1. CASE u = w
          BY <1>2, <2>4, <3>2, <4>2, <5>1, SurfacingStep
        <5>2. CASE u # w
          BY <1>2, <4>2, <5>2, OneCallMoves DEF Surfaces
        <5>. QED BY <5>1, <5>2
      <4>. QED BY <2>4, <3>1, <3>2, <4>1, <4>2 DEF SurfaceInv, Surfaces
    <3>3. CASE ~Exists(c) \/ ~Exists(d)
      <4>1. PICK e \in {c, d} : call'[w].step = "match" /\ call'[w].c = e
        BY <1>2, <2>4, <3>3, ExistenceStep
      <4>. QED BY <2>4, <4>1 DEF Surfaces
    <3>. QED BY <3>2, <3>3
  <2>. QED BY <2>3, <2>4 DEF SurfaceInv
<1>. QED BY <1>1, <1>2 DEF Next

LEMMA SurfaceInit ==
  ASSUME GroupsAssumption, Init
  PROVE  SurfaceInv
<1>1. PICK seed \in Seeds, first \in Complaints :
         /\ complaint = [c \in Complaints |-> IF c \in seed THEN SeedRow(c, first) ELSE NoRow]
         /\ memberOf = [c \in Complaints |-> IF c \in seed THEN SeedGroup ELSE NoGroup]
  BY DEF Init
<1>2. ~NoRow.exists /\ ~NoRow.deleted /\ \A c : ~SeedRow(c, first).deleted
  BY DEF NoRow, SeedRow
<1>3. \A x \in Complaints : ~complaint[x].deleted
  BY <1>1, <1>2
<1>4. \A c \in Complaints : Exists(c) => memberOf[c] # NoGroup
  BY <1>1, <1>2 DEF Exists, GroupsAssumption
<1>. QED BY <1>3, <1>4 DEF SurfaceInv, Surfaces

\* When two complaints of one bucket exist, no edit moved any and no call died, some
\* complaint of that bucket is in a group, whichever of their submissions looked
\* first and whichever was rejected: with any number of complaints, groups and calls.
THEOREM DuplicatesSurfaceTheorem ==
  ASSUME OnlySubmitted
  PROVE  Spec => []DuplicatesSurface
<1>1. Init => SurfaceInv
  BY SurfaceInit, GroupsAssumption
<1>2. TypeOK /\ CallsShaped /\ SubmitInv /\ SurfaceInv /\ [Next]_vars => SurfaceInv'
  BY OnlySubmitted, SurfaceStep, GroupsAssumption
<1>3. SubmitInv /\ SurfaceInv => DuplicatesSurface
  <2>1. Idle.step = "idle"
    BY DEF Idle
  <2>2. ASSUME SubmitInv, moved = {}
        PROVE  \A x \in Complaints : bucket[x] = Bucket[x]
    BY <2>2 DEF SubmitInv, Filed
  <2>. QED BY <2>1, <2>2 DEF SurfaceInv, Surfaces, DuplicatesSurface, Quiet
<1>4. NoLinking
  BY OnlySubmittedFacts
<1>5. Spec => [](TypeOK /\ CallsShaped /\ SubmitInv /\ CountInv)
  BY <1>4, SubmissionsInvariant
<1>. QED BY <1>1, <1>2, <1>3, <1>5, PTL DEF Spec

-----------------------------------------------------------------------------
(* Calls that never overlap: every operation, one at a time.               *)

LEMMA AlonePersists ==
  ASSUME TypeOK, CallsShaped, GroupsAssumption, NEW w \in Calls,
         Begin(w) \/ Continue(w) \/ Fail(w), overlapped' = {}, overlapped = {} => Alone
  PROVE  /\ overlapped = {}
         /\ \A v \in Calls \ {w} : call[v] = Idle /\ call'[v] = Idle
         /\ Alone'
<1>1. overlapped = {}
  BY OverlappedGrows
<1>2. \A v \in Calls \ {w} : call[v] = Idle
  BY <1>1, Overlaps, KeepsSubject DEF Alone
<1>3. \A v \in Calls \ {w} : call'[v] = Idle
  BY <1>2, OneCallMoves
<1>. QED BY <1>1, <1>2, <1>3 DEF Alone

\* Where a step to write a manual priority or to store a count comes from.
LEMMA StepsReached ==
  ASSUME TypeOK, GroupsAssumption, NEW w \in Calls, Begin(w) \/ Continue(w) \/ Fail(w)
  PROVE  /\ call'[w].step = "write" =>
              call'[w] = call[w] \/ \E c \in Complaints, level \in Asked : BeginPriority(w, c, level)
         /\ call'[w].step = "store" => call'[w] = call[w] \/ CountMembers(w)
<1>. PICK k \in Call : k = call[w]
  BY DEF TypeOK
<1>. DEFINE Other == call'[w].step \notin {"write", "store"}
<1>1. ASSUME Return(w)
      PROVE  Other
  BY <1>1 DEF Return, Become, Idle, TypeOK
<1>2. ASSUME NEW step, step \notin {"write", "store"}, Goto(w, step)
      PROVE  Other
  BY <1>2 DEF Goto, Become, TypeOK, Call
<1>3. ASSUME NEW c \in Complaints, NEW level \in Asked, SubmitAtomic(w, c, level)
      PROVE  Other
  BY <1>3 DEF SubmitAtomic, Become, Idle, TypeOK
<1>4. ASSUME NEW c \in Complaints, NEW level \in Asked, BeginPriority(w, c, level)
      PROVE  call'[w].step # "store"
  BY <1>4 DEF BeginPriority, Become, Idle, TypeOK
<1>5. ASSUME NEW c \in Complaints, Delete(w, c)
      PROVE  call'[w] = call[w]
  BY <1>5 DEF Delete
<1>6. ASSUME NEW c \in Complaints, NEW p \in Complaints, BeginLink(w, p, c)
      PROVE  Other
  BY <1>6 DEF BeginLink, KnowsPrimary, Become, TypeOK, Idle
<1>7. ASSUME NEW c \in Complaints, BeginUnlink(w, c)
      PROVE  Other
  BY <1>7 DEF BeginUnlink, Become, TypeOK, Idle
<1>8. ASSUME NEW d \in Complaints, Match(w, d)
      PROVE  Other
  BY <1>8 DEF Match, Become, TypeOK, Call
<1>9. ASSUME NEW g \in Groups, NewGroup(w, g)
      PROVE  Other
  BY <1>9 DEF NewGroup, Become, TypeOK, Call
<1>10. ASSUME ReadPrimary(w)
       PROVE  Other
  BY <1>10 DEF ReadPrimary, KnowsPrimary, Become, TypeOK, Call
<1>11. ASSUME CountMembers(w)
       PROVE  call'[w].step # "write"
  BY <1>11 DEF CountMembers, Become, TypeOK, Call
<1>12. ASSUME ReadSize(w)
       PROVE  Other
  BY <1>12, ReadSizeGives
<1>13. ASSUME NEW todo, Raise(w, todo)
       PROVE  Other
  BY <1>13, RaiseGives DEF Idle
<1>14. ASSUME WriteOwn(w) \/ \E m \in Complaints : Escalate(w, m) \/ EscalationFails(w, m)
       PROVE  Other
  BY <1>13, <1>14 DEF WriteOwn, Escalate, EscalationFails
<1>15. ASSUME \/ NoMatch(w) \/ InsertRejected(w) \/ WritePriority(w) \/ Fail(w)
              \/ (\E b \in Buckets : WriteEdit(w, b))
              \/ AddPrimary(w) \/ SetPrimary(w) \/ CheckMember(w) \/ AddDup(w) \/ SetDup(w)
              \/ StoreCount(w) \/ RemoveMember(w) \/ ClearGroup(w)
       PROVE  Other
  BY <1>1, <1>2, <1>15 DEF NoMatch, InsertRejected, WritePriority, WriteEdit, Fail, AddPrimary,
         SetPrimary, CheckMember, AddDup, SetDup, StoreCount, RemoveMember, ClearGroup
<1>16. ASSUME NEW c \in Complaints, BeginEdit(w, c)
       PROVE  Other
  BY <1>16 DEF BeginEdit, Become, TypeOK, Idle
<1>. QED BY <1>3, <1>4, <1>5, <1>6, <1>7, <1>8, <1>9, <1>10, <1>11, <1>12, <1>14, <1>15, <1>16
         DEF Begin, Continue

\* Every write of a complaint keeps its priority at its minimum or above, if a
\* manual change under way does.
LEMMA FloorKept ==
  ASSUME TypeOK, CallsShaped, NEW w \in Calls, Begin(w) \/ Continue(w) \/ Fail(w),
         At(w, "write") => call[w].level >= complaint[call[w].c].auto,
         NEW c \in Complaints, complaint[c].priority >= complaint[c].auto, GroupsAssumption
  PROVE  complaint'[c].priority >= complaint'[c].auto
<1>1. ASSUME NEW d \in Complaints, NEW level \in Asked, SubmitAtomic(w, d, level)
      PROVE  complaint'[c].priority >= complaint'[c].auto
  <2>1. \/ complaint'[c].priority = level /\ complaint'[c].auto = level
        \/ complaint'[c] = complaint[c]
    BY <1>1 DEF SubmitAtomic, TypeOK, NoRow
  <2>2. level \in Nat
    BY DEF GroupsAssumption, PriorityLevels, Low, Urgent
  <2>. QED BY <2>1, <2>2
<1>2. ASSUME NEW d \in Complaints, Delete(w, d)
      PROVE  complaint'[c].priority >= complaint'[c].auto
  BY <1>2 DEF Delete, TypeOK, Row
<1>3. ASSUME SetPrimary(w) \/ SetDup(w) \/ ClearGroup(w)
      PROVE  complaint'[c].priority >= complaint'[c].auto
  BY <1>3 DEF SetPrimary, SetDup, ClearGroup, TypeOK, Row
<1>4. ASSUME WritePriority(w)
      PROVE  complaint'[c].priority >= complaint'[c].auto
  BY <1>4 DEF WritePriority, TypeOK, Row, At
<1>5. ASSUME NEW d, NEW level \in Nat, SetPriority(d, level)
      PROVE  complaint'[c].priority >= complaint'[c].auto
  BY <1>5 DEF SetPriority, TypeOK, Row
<1>6. ASSUME WriteOwn(w) \/ \E m \in Complaints : Escalate(w, m)
      PROVE  complaint'[c].priority >= complaint'[c].auto
  <2>1. call[w].level \in Nat
    BY DEF TypeOK, Call, PriorityLevels, Low, Urgent
  <2>. QED BY <1>5, <1>6, <2>1 DEF WriteOwn, Escalate
<1>7. ASSUME \/ (\E d \in Complaints, level \in Asked : BeginPriority(w, d, level))
             \/ (\E d \in Complaints : BeginEdit(w, d))
             \/ (\E b \in Buckets : WriteEdit(w, b))
             \/ (\E p, d \in Complaints : BeginLink(w, p, d))
             \/ (\E d \in Complaints : BeginUnlink(w, d) \/ Match(w, d) \/ EscalationFails(w, d))
             \/ (\E g \in Groups : NewGroup(w, g))
             \/ NoMatch(w) \/ ReadPrimary(w) \/ AddPrimary(w) \/ CheckMember(w) \/ AddDup(w)
             \/ InsertRejected(w) \/ CountMembers(w) \/ StoreCount(w) \/ ReadSize(w)
             \/ RemoveMember(w) \/ Fail(w)
      PROVE  complaint' = complaint
  BY <1>7 DEF WriteEdit, BeginPriority, BeginEdit, BeginLink, BeginUnlink, Match, EscalationFails, NewGroup, NoMatch,
              ReadPrimary, AddPrimary, CheckMember, AddDup, InsertRejected, CountMembers,
              StoreCount, ReadSize, RemoveMember, Fail, tables
<1>. QED BY <1>1, <1>2, <1>3, <1>4, <1>6, <1>7 DEF Begin, Continue

LEMMA FloorStep ==
  ASSUME TypeOK, CallsShaped, FloorInv, GroupsAssumption, [Next]_vars
  PROVE  FloorInv'
<1>1. CASE UNCHANGED vars
  BY <1>1 DEF vars, FloorInv, Alone, At
<1>2. ASSUME NEW w \in Calls, Begin(w) \/ Continue(w) \/ Fail(w), overlapped' = {}
      PROVE  /\ Alone'
             /\ \A c \in Complaints : complaint'[c].priority >= complaint'[c].auto
             /\ \A v \in Calls : At(v, "write")' => call'[v].level >= complaint'[call'[v].c].auto
  <2>1. /\ overlapped = {}
        /\ \A v \in Calls \ {w} : call[v] = Idle /\ call'[v] = Idle
        /\ Alone'
    BY <1>2, AlonePersists DEF FloorInv
  <2>2. \A c \in Complaints : complaint'[c].priority >= complaint'[c].auto
    BY <1>2, <2>1, FloorKept DEF FloorInv
  <2>3. ASSUME NEW v \in Calls, call'[v].step = "write"
        PROVE  call'[v].level >= complaint'[call'[v].c].auto
    <3>1. v = w
      BY <2>1, <2>3 DEF Idle
    <3>2. call'[w] # call[w]
      <4>1. CASE Begin(w)
        BY <2>3, <3>1, <4>1, Overlaps DEF Idle
      <4>2. CASE Continue(w) \/ Fail(w)
        <5>1. ASSUME At(w, "write")
              PROVE  call'[w].step = "idle"
          <6>1. WritePriority(w) \/ Fail(w)
            BY <4>2, <5>1
               DEF Continue, Match, NoMatch, ReadPrimary, NewGroup, AddPrimary, SetPrimary,
                   CheckMember, AddDup, InsertRejected, SetDup, CountMembers, StoreCount,
                   ReadSize, WriteOwn, Escalate, EscalationFails, RemoveMember, ClearGroup, WriteEdit, At
          <6>. QED BY <6>1 DEF WritePriority, Fail, Return, Become, Idle, TypeOK
        <5>. QED BY <2>3, <3>1, <5>1 DEF At
      <4>. QED BY <1>2, <4>1, <4>2
    <3>3. PICK c \in Complaints, level \in Asked : BeginPriority(w, c, level)
      BY <1>2, <2>3, <3>1, <3>2, StepsReached
    <3>4. /\ call'[w].level = level /\ call'[w].c = c
          /\ level >= complaint[c].auto /\ complaint' = complaint
      BY <3>3 DEF BeginPriority, Become, TypeOK, Idle, IsManualPriorityAllowed, tables
    <3>. QED BY <3>1, <3>4
  <2>. QED BY <2>1, <2>2, <2>3 DEF At
<1>. QED BY <1>1, <1>2 DEF Next, FloorInv

LEMMA FloorInit ==
  ASSUME GroupsAssumption, Init
  PROVE  FloorInv
<1>1. PICK seed \in Seeds, first \in Complaints :
         complaint = [c \in Complaints |-> IF c \in seed THEN SeedRow(c, first) ELSE NoRow]
  BY DEF Init
<1>2. NoRow.priority = NoRow.auto /\ NoRow.auto \in Nat
  BY DEF NoRow, Low
<1>3. ASSUME NEW c
      PROVE  SeedRow(c, first).priority = SeedRow(c, first).auto /\ SeedRow(c, first).auto \in Nat
  <2>1. PICK level \in Nat : level = IF c = first THEN Low ELSE CalculateAutoPriority(2, Low)
    BY AutoIsLevel, LowIsLevel DEF PriorityLevels, Low, Urgent
  <2>2. SeedRow(c, first) = [NoRow EXCEPT !.exists = TRUE, !.auto = level, !.priority = level,
                                          !.groupId = SeedGroup]
    BY <2>1 DEF SeedRow
  <2>. QED BY <2>2 DEF NoRow
<1>4. \A c \in Complaints : complaint[c].priority >= complaint[c].auto
  BY <1>1, <1>2, <1>3
<1>5. \A w \in Calls : call[w] = Idle /\ Idle.step = "idle"
  BY DEF Init, Idle
<1>. QED BY <1>4, <1>5 DEF FloorInv, Alone, At

\* As long as calls do not overlap, no sequence of submissions, escalations,
\* manual changes and exceptions leaves a complaint below its automatic minimum:
\* for any number of complaints and groups, and every operation.
THEOREM ManualNotBelowAutomaticTheorem == Spec => []ManualNotBelowAutomatic
<1>1. Init => TypeOK /\ CallsShaped /\ FloorInv
  BY TypeInit, FloorInit, GroupsAssumption
<1>2. TypeOK /\ CallsShaped /\ FloorInv /\ [Next]_vars => (TypeOK /\ CallsShaped /\ FloorInv)'
  BY TypeStep, FloorStep, GroupsAssumption
<1>3. FloorInv => ManualNotBelowAutomatic
  BY DEF FloorInv, ManualNotBelowAutomatic, IsManualPriorityAllowed
<1>. QED BY <1>1, <1>2, <1>3, PTL DEF Spec

LEMMA OtherGroups ==
  ASSUME TypeOK, NEW w \in Calls, Begin(w) \/ Continue(w) \/ Fail(w),
         NEW g \in Groups, g # call[w].g, GroupsAssumption
  PROVE  Members(g)' = Members(g)
<1>1. ASSUME memberOf' = memberOf
      PROVE  Members(g)' = Members(g)
  BY <1>1 DEF Members
<1>2. CASE Begin(w)
  BY <1>1, <1>2 DEF Begin, SubmitAtomic, BeginPriority, BeginEdit, BeginLink, BeginUnlink, Delete, tables
<1>3. CASE AddPrimary(w) \/ AddDup(w)
  <2>1. PICK y : memberOf[y] = NoGroup /\ memberOf' = [memberOf EXCEPT ![y] = call[w].g]
    BY <1>3 DEF AddPrimary, AddDup
  <2>2. \A x \in Complaints : memberOf'[x] = g <=> memberOf[x] = g
    BY <2>1 DEF TypeOK, GroupsAssumption
  <2>. QED BY <2>2 DEF Members
<1>4. CASE RemoveMember(w)
  <2>1. \A x \in Complaints : memberOf'[x] = g <=> memberOf[x] = g
    BY <1>4 DEF RemoveMember, TypeOK, GroupsAssumption
  <2>. QED BY <2>1 DEF Members
<1>5. CASE (Continue(w) \/ Fail(w)) /\ ~AddPrimary(w) /\ ~AddDup(w) /\ ~RemoveMember(w)
  <2>1. memberOf' = memberOf
    BY <1>5 DEF Continue, Match, NoMatch, ReadPrimary, NewGroup, SetPrimary,
              CheckMember, InsertRejected, SetDup, CountMembers, StoreCount,
              ReadSize, WriteOwn, Escalate, EscalationFails, ClearGroup,
              WritePriority, WriteEdit, tables, Fail
  <2>. QED BY <1>1, <2>1
<1>. QED BY <1>2, <1>3, <1>4, <1>5

\* Steps that have nothing to do with a count.
LEMMA UncountedSteps ==
  ASSUME TypeOK, CallsShaped, NEW w \in Calls, Begin(w) \/ Continue(w) \/ Fail(w),
         call[w].step \notin Counting
  PROVE  /\ memberOf' = memberOf
         /\ \/ \E g \in Groups : NewGroup(w, g)
            \/ dupCount' = dupCount /\ created' = created
<1>1. CASE Begin(w)
  BY <1>1 DEF Begin, SubmitAtomic, BeginPriority, BeginEdit, BeginLink, BeginUnlink, Delete, tables
<1>2. CASE Continue(w) \/ Fail(w)
  BY <1>2 DEF Continue, Match, NoMatch, ReadPrimary, NewGroup, AddPrimary, SetPrimary, AddDup,
              CheckMember, InsertRejected, SetDup, CountMembers, StoreCount, Counting, At,
              ReadSize, WriteOwn, Escalate, EscalationFails, RemoveMember, ClearGroup,
              WritePriority, WriteEdit, tables, Fail
<1>. QED BY <1>1, <1>2

\* The step of a call that is still going to count its group.
LEMMA CountingStep ==
  ASSUME TypeOK, CallsShaped, GroupsAssumption, NEW w \in Calls, Continue(w) \/ Fail(w),
         call[w].step \in Counting,
         At(w, "store") => call[w].seen = Members(call[w].g),
         NEW h, h = call[w].g
  PROVE  /\ h \in Groups
         /\ Counted(h)'
         /\ created' = created
         /\ \A g \in Groups : g # h => dupCount'[g] = dupCount[g]
<1>1. h \in Groups /\ call[w].c \in Complaints /\ call[w].step \in Steps
  BY DEF CallsShaped, Shaped, Idle, Counting, TypeOK, Call
<1>2. ASSUME NEW step \in Counting, Goto(w, step)
      PROVE  Counted(h)'
  <2>1. call'[w].g = h /\ call'[w].step = step
    BY <1>2 DEF Goto, Become, TypeOK, Call
  <2>. QED BY <2>1 DEF Counted
<1>3. CASE AddPrimary(w) \/ SetPrimary(w) \/ CheckMember(w) \/ AddDup(w) \/ SetDup(w)
           \/ RemoveMember(w) \/ ClearGroup(w)
  <2>1. {"setPrimary", "check", "addDup", "setDup", "clear", "count"} \subseteq Counting
    BY DEF Counting
  <2>2. Counted(h)'
    BY <1>2, <1>3, <2>1 DEF AddPrimary, SetPrimary, CheckMember, AddDup, SetDup, RemoveMember, ClearGroup
  <2>3. UNCHANGED <<created, dupCount>>
    BY <1>3 DEF AddPrimary, SetPrimary, CheckMember, AddDup, SetDup, RemoveMember, ClearGroup, tables
  <2>. QED BY <1>1, <2>2, <2>3
<1>4. CASE CountMembers(w)
  <2>1. call'[w].g = h /\ call'[w].step = "store" /\ UNCHANGED <<created, dupCount>>
    BY <1>4 DEF CountMembers, Become, TypeOK, Call, tables
  <2>2. Counted(h)'
    BY <2>1 DEF Counted, Counting
  <2>. QED BY <1>1, <2>1, <2>2
<1>5. CASE InsertRejected(w)
  <2>1. h \in rejected' /\ UNCHANGED <<created, dupCount>>
    BY <1>5 DEF InsertRejected, tables
  <2>2. Counted(h)'
    BY <2>1 DEF Counted
  <2>. QED BY <1>1, <2>1, <2>2
<1>6. CASE Fail(w)
  <2>1. <<call[w].c, h, call[w].step>> \in aborted' /\ UNCHANGED <<created, dupCount>>
    BY <1>6 DEF Fail, tables
  <2>2. Counted(h)'
    BY <1>1, <2>1 DEF Counted
  <2>. QED BY <1>1, <2>1, <2>2
<1>7. CASE StoreCount(w)
  <2>1. /\ call[w].seen = Members(h) /\ memberOf' = memberOf /\ created' = created
        /\ dupCount' = [dupCount EXCEPT ![h] = IF Cardinality(call[w].seen) = 0 THEN 0
                                               ELSE Cardinality(call[w].seen) - 1]
    BY <1>7 DEF StoreCount
  <2>2. Members(h)' = Members(h) /\ Members(h) \in SUBSET Complaints
    BY <2>1 DEF Members
  <2>3. Cardinality(Members(h)) = 0 <=> Members(h) = {}
    BY <2>2, OneSize, FS_EmptySet
  <2>4. CountsTo(h, Members(h))'
    BY <1>1, <2>1, <2>2, <2>3 DEF CountsTo, TypeOK
  <2>5. Counted(h)'
    BY <2>4 DEF Counted
  <2>6. \A g \in Groups : g # h => dupCount'[g] = dupCount[g]
    BY <2>1 DEF TypeOK
  <2>. QED BY <1>1, <2>1, <2>5, <2>6
<1>. QED BY <1>3, <1>4, <1>5, <1>6, <1>7
     DEF Continue, Counting, Match, NoMatch, ReadPrimary, NewGroup, ReadSize, WriteOwn, Escalate,
         EscalationFails, WritePriority, WriteEdit, At

LEMMA ExactStep ==
  ASSUME TypeOK, CallsShaped, ExactInv, GroupsAssumption, [Next]_vars
  PROVE  ExactInv'
<1>1. CASE UNCHANGED vars
  <2>1. \A g : Members(g)' = Members(g)
    BY <1>1 DEF vars, Members
  <2>2. \A g : Counted(g) => Counted(g)'
    BY <1>1, <2>1 DEF vars, Counted, CountsTo
  <2>. QED BY <1>1, <2>1, <2>2 DEF vars, ExactInv, Alone, At
<1>2. ASSUME NEW w \in Calls, Begin(w) \/ Continue(w) \/ Fail(w), overlapped' = {}
      PROVE  /\ Alone'
             /\ \A v \in Calls : At(v, "store")' => call'[v].seen = Members(call[v].g)'
             /\ \A g \in created' : Counted(g)'
  <2>1. /\ overlapped = {}
        /\ \A v \in Calls \ {w} : call[v] = Idle /\ call'[v] = Idle
        /\ Alone'
    BY <1>2, AlonePersists DEF ExactInv
  <2>2. /\ At(w, "store") => call[w].seen = Members(call[w].g)
        /\ \A g \in created : Counted(g)
    BY <2>1 DEF ExactInv
  <2>3. aborted \subseteq aborted' /\ rejected \subseteq rejected' /\ created' \subseteq Groups
    BY <1>2, GhostsGrow, RejectedGrows, TypeStep DEF Next, TypeOK
  <2>4. ASSUME NEW v \in Calls, call'[v].step = "store"
        PROVE  call'[v].seen = Members(call[v].g)'
    <3>1. v = w
      BY <2>1, <2>4 DEF Idle
    <3>2. call'[w] # call[w]
      <4>1. CASE Begin(w)
        BY <2>4, <3>1, <4>1, Overlaps DEF Idle
      <4>2. ASSUME Continue(w) \/ Fail(w), At(w, "store")
            PROVE  call'[w].step \in {"idle", "size"}
        <5>1. StoreCount(w) \/ Fail(w)
          BY <4>2
             DEF Continue, Match, NoMatch, ReadPrimary, NewGroup, AddPrimary, SetPrimary,
                 CheckMember, AddDup, InsertRejected, SetDup, CountMembers, WritePriority, WriteEdit,
                 ReadSize, WriteOwn, Escalate, EscalationFails, RemoveMember, ClearGroup, At
        <5>2. Return(w) \/ Goto(w, "size")
          BY <5>1 DEF StoreCount, Fail
        <5>. QED BY <5>2 DEF Return, Goto, Become, Idle, TypeOK, Call
      <4>. QED BY <1>2, <2>4, <3>1, <4>1, <4>2 DEF At
    <3>3. CountMembers(w)
      BY <1>2, <2>4, <3>1, <3>2, StepsReached
    <3>4. /\ call'[w].seen = Members(call[w].g) /\ call'[w].g = call[w].g
          /\ memberOf' = memberOf
      BY <3>3 DEF CountMembers, Become, TypeOK, Call, tables
    <3>. QED BY <3>1, <3>4 DEF Members
  <2>5. ASSUME NEW g \in Groups, Counted(g), Members(g)' = Members(g), dupCount'[g] = dupCount[g],
               call[w].g # g \/ call[w].step \notin Counting
        PROVE  Counted(g)'
    <3>1. ~\E u \in Calls : call[u].g = g /\ call[u].step \in Counting
      BY <2>1, <2>5 DEF Idle, Counting
    <3>2. CASE CountsTo(g, Members(g))
      BY <2>5, <3>2 DEF CountsTo, Counted
    <3>. QED BY <2>3, <2>5, <3>1, <3>2 DEF Counted
  <2>6. ASSUME NEW g \in created'
        PROVE  Counted(g)'
    <3>0. g \in Groups
      BY <2>3
    <3>1. CASE call[w].step \in Counting
      <4>1. Continue(w) \/ Fail(w)
        BY <1>2, <3>1, Overlaps DEF Idle, Counting
      <4>2. PICK h : h = call[w].g
        OBVIOUS
      <4>3. /\ Counted(h)' /\ created' = created
            /\ g # h => dupCount'[g] = dupCount[g]
        BY <2>2, <3>0, <3>1, <4>1, <4>2, CountingStep
      <4>4. CASE g # h
        <5>1. Members(g)' = Members(g)
          BY <1>2, <3>0, <4>2, <4>4, OtherGroups
        <5>2. Counted(g) /\ dupCount'[g] = dupCount[g]
          BY <2>2, <4>3, <4>4
        <5>. QED BY <2>5, <3>0, <4>2, <4>4, <5>1, <5>2
      <4>5. CASE g = h
        BY <4>3, <4>5
      <4>. QED BY <4>4, <4>5
    <3>2. ASSUME NEW h \in Groups, NewGroup(w, h)
          PROVE  Counted(g)'
      <4>1. /\ call'[w].g = h /\ call'[w].step = "addPrimary"
            /\ created' = created \union {h} /\ memberOf' = memberOf
            /\ g # h => dupCount'[g] = dupCount[g]
            /\ call[w].step = "newGroup"
        BY <3>0, <3>2 DEF NewGroup, Become, TypeOK, Call, At
      <4>2. CASE g = h
        BY <4>1, <4>2 DEF Counted, Counting
      <4>3. CASE g # h
        <5>1. Counted(g) /\ Members(g)' = Members(g) /\ call[w].step \notin Counting
          BY <2>2, <4>1, <4>3 DEF Members, Counting
        <5>. QED BY <2>5, <3>0, <4>1, <4>3, <5>1
      <4>. QED BY <4>2, <4>3
    <3>3. CASE call[w].step \notin Counting /\ dupCount' = dupCount /\ created' = created
      <4>1. memberOf' = memberOf
        BY <1>2, <3>3, UncountedSteps
      <4>2. Counted(g) /\ Members(g)' = Members(g)
        BY <2>2, <3>3, <4>1 DEF Members
      <4>. QED BY <2>5, <3>0, <3>3, <4>2
    <3>. QED BY <1>2, <3>1, <3>2, <3>3, UncountedSteps
  <2>. QED BY <2>1, <2>4, <2>6 DEF At
<1>. QED BY <1>1, <1>2 DEF Next, ExactInv

LEMMA ExactInit ==
  ASSUME GroupsAssumption, Init
  PROVE  ExactInv
<1>1. PICK seed \in Seeds :
         /\ memberOf = [c \in Complaints |-> IF c \in seed THEN SeedGroup ELSE NoGroup]
         /\ created = IF seed = {} THEN {} ELSE {SeedGroup}
         /\ dupCount = [g \in Groups |->
                          IF seed # {} /\ g = SeedGroup THEN Cardinality(seed) - 1 ELSE 0]
  BY DEF Init
<1>2. seed \in SUBSET Complaints /\ SeedGroup \in Groups
  BY DEF GroupsAssumption
<1>3. Members(SeedGroup) = seed
  BY <1>1, <1>2 DEF Members, GroupsAssumption
<1>4. \A g \in created : CountsTo(g, Members(g))
  BY <1>1, <1>2, <1>3 DEF CountsTo
<1>5. \A w \in Calls : call[w] = Idle /\ Idle.step = "idle"
  BY DEF Init, Idle
<1>. QED BY <1>4, <1>5 DEF ExactInv, Alone, At, Counted

\* Between calls that never overlapped, "(+N)" is exactly the number of members
\* beyond the first, unless a call on that group was rejected or died: for any
\* number of complaints and groups, and every sequence of operations.
THEOREM CountExactTheorem == Spec => []CountExact
<1>1. Init => TypeOK /\ CallsShaped /\ ExactInv
  BY TypeInit, ExactInit, GroupsAssumption
<1>2. TypeOK /\ CallsShaped /\ ExactInv /\ [Next]_vars => (TypeOK /\ CallsShaped /\ ExactInv)'
  BY TypeStep, ExactStep, GroupsAssumption
<1>3. ExactInv => CountExact
  <2>1. Idle.step \notin Counting
    BY DEF Idle, Counting
  <2>. QED BY <2>1 DEF ExactInv, CountExact, Counted, CountsTo, Quiet
<1>. QED BY <1>1, <1>2, <1>3, PTL DEF Spec
=============================================================================
