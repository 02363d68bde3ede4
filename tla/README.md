# A formal model of the Digital Complaint Box

TLA+ specifications of the program in `src/`, the TLC runs that check them on
small instances, and proofs that TLAPS checks for instances of every size.

## The system

A Flet server keeps one `page` per browser session. Views build controls; the
handlers of buttons run in threads (`page.run_thread`) and call *services*,
stateless class methods that talk to a Supabase (PostgREST) database. Each
`.execute()` is one request and one transaction. A service method is a chain of
such requests with Python between them. Only `submit_complaint_atomic`
(`005_functions.sql`) puts several statements into one transaction. No update
compares a version, so everything between two requests of a method is open to
the requests of every other session, and any request can raise.

| component | state | operations | interacts with |
|---|---|---|---|
| complaint lifecycle (`complaint_service`) | `complaints`, `anonymous_complaint_owners`, `complaint_assignments`, `complaint_history`, `notifications` | submit, edit, delete (student), update status, soft delete, assign, change priority | students' rows, issue groups, caches |
| issue groups (`issue_group_service`, `duplicate_service`) | `issue_groups`, `issue_group_members`, `complaints.issue_group_id`, priorities | link, unlink, group at submission, escalate | lifecycle, staff lists |
| routing (`get_complaints_for_user`, `_is_staff_authorized_for_complaint`) | none | filter by role; authorise | lifecycle, views |
| authentication (`auth_service`) | `students`, `staff_users`: password, attempts, lock, activity | register, log in, reset | accounts, roll pool, codes |
| accounts (`account_service`) | the same rows | deactivate, reactivate, reset by a superior | authentication |
| roll-number pool (`roll_number_service`) | `roll_number_pool` | add, import, delete, check | registration |
| security codes (`security_code_service`) | `staff_security_codes` | verify, update | caches, staff login |
| hostel (`hostel_service`) | `hostel_requests`, `students.is_hostel*` | request, review | submission |
| feedback (`feedback_service`) | `feedback` and its triggers | submit, edit once | lifecycle |
| notifications (`notification_service`) | `notifications` | insert, list, mark read | all |
| analytics (`analytics_service`) | none but a cache | metrics | caches |
| caches (`cache_service`) | per-process tables with a time to live | get, set, invalidate | every service |
| storage (`storage_service`) | bucket, `complaint_attachments` | upload, list, delete | submission |
| upload queue (`page_file_services`) | per-session queue, flags, selected files | pick, queue, progress events, remove | storage, drafts |
| drafts and sessions (`draft_recovery_service`, `app.py`) | server-side session store, browser preferences | save, restore, clear; log in and out | views |
| application state (`ui/state.py`) | current user and role per session, with a class-level fallback | set, clear | views |
| views | a cache of fetched complaints, a single-flight fetch, tab cache | load, force reload, render | services |

### What is hard

* **Two chains interleave.** An edit passes its check, review begins, the edit is
  written; two submissions look for each other; two linkings count a group.
* **A chain stops half-way.** What was written stays and nothing retries.
* **State is kept twice**: a complaint's group in `issue_group_members` and in
  `complaints.issue_group_id`; hostel approval in the request and the student.
* **Read, modify in Python, write back**: login attempts, counts, priorities.
* **Check, then insert** with no constraint behind the check.
* **Caches are filled after they were invalidated** with what was read before.
* **Threads of one session** share a fetch, a queue, a session store.

What makes each component correct: of the lifecycle, that the lock which review
puts on a complaint is final, that trail, messages and row agree, and that
anonymity survives every path; of groups, that no complaint disappears from the
lists of the staff, that counts and minimum priorities are right and that
duplicates meet; of routing, that who may see a complaint may act on it; of
authentication, that five failures lock and only a reset unlocks; of accounts,
that an active Principal and one active HOD remain; of the pool, that a number
registers once; of hostel, that student and request agree; of feedback, one per
complaint, edited once; of the caches and views, that no stale value outlives
its time; of the queue, that it keeps moving and never exceeds two files; of
drafts and sessions, that nothing cleared comes back.

## Modules

| module | what it is |
|---|---|
| `ComplaintLifecycle` | rows of `complaints` under concurrent calls of `complaint_service` |
| `ComplaintLifecycleProofs` | its type invariant and inductive invariant, lock, submission |
| `ComplaintSafetyProofs` | its other safety properties |
| `PriorityRules` | the priority levels and the rule that raises them, in its Python and SQL copies |
| `IssueGroups` | groups, counts and priorities under the same calls, one step per request |
| `IssueGroupsProofs` | types, the agreement of the two copies of a complaint's group, counts, escalation; the priority rule |
| `StaffAccounts` | rows of `staff_users`: offices, usernames, wrong passwords, under concurrent calls |
| `StaffAccountsProofs` | its inductive invariant and all of its properties |
| `StudentAccounts` | a student as the services keep one: roll-number pool, row of `students`, hostel requests |
| `StudentFeedback` | feedback on a resolved complaint, beside the calls of `StudentAccounts` |
| `StudentAccountsProofs` | types, inductive invariant and all properties of both |
| `CachedReads` | the process-wide caches: look, ask, store; write, drop |
| `SharedFetch` | lists that views keep, their shared fetch, and the dashboard's worker, over `CachedReads` |
| `OrderedRows` | abstract: a list is only replaced by one that is not older |
| `SharedFetchProofs` | all safety of `SharedFetch`, and that it implements `OrderedRows` |
| `AttachmentSlots` | abstract: two slots for attachments, of which one may wait for its file |
| `AttachmentUploads` | picker, queue and upload events of the complaint form; implements `AttachmentSlots` |
| `ClientSession` | a student in a browser: sign-in, sign-out, page loads, drafts, submission, over `AttachmentUploads` |
| `ClientSessionProofs` | that implementation, of the step and of the whole session, and all properties of both |
| `PortalTabs` | the tabs of the seven portals, drawn, kept and dropped by handlers, threads and clicks |
| `RollPoolTab` | the roll-number pool as the coordinator's tab reads, caches and shows it |
| `SpreadsheetImport` | choosing and importing a spreadsheet, with one picker for two choosers |
| `Portals` | composes the last three |
| `PortalsProofs` | types and all properties of the four |
| `MC...` | the instances that TLC checks |

In the modules of services a **call** is a process with a record of its local
variables (`call[w]`): the operation, the step that comes next, and what it has
read. Its first SELECT and the checks that depend on it are the guard of its
`Begin...` action; each later request is one action. `Fail` ends a call at any
point and keeps what it wrote. In the modules of views a step is what a handler
does between two awaits, or a thread between two accesses to what it shares.

**Ghosts** (`aborted`, `overlapped`, `contested`, `rejected`, `wrong`, `raced`,
`halfDone`, `late`, `interrupted`, `leftovers`, `hitches`, `mishaps`, ...) are read by
properties only: they let a property say "unless a request raised here" or
"unless two calls decided at once". The exceptions they name are behaviours the
code has, found by TLC as counterexamples to the property without the exception.

### ComplaintLifecycle

Texts are a revision number, the ten-minute window one Boolean that an action
closes, the scope test a constant relation `InScope`; priorities and groups are
left to `IssueGroups`. `resolved_at` is a Boolean since it is never cleared, and
the trail is a set of entries since a second equal entry says nothing new. The
submission RPC is one transaction but READ COMMITTED: its SELECT of the student
(`CheckStudent`) takes no lock, so an account may be locked or an approval
withdrawn before its INSERT (`InsertComplaint`); `SubmitRejected` is the RPC raising.

* `LockIsFinal`, `ReviewIsMarked`: the lock of review.
* `AuditComplete`, `AuditSound`, `MessageBacked`: row, trail and messages agree.
* `AnonymityPreserved`: no entry or message identifies an anonymous student.
* `BarredStaysOut` (action property): once a student is locked, or without hostel
  approval, and the submissions already past the RPC's SELECT have drained, no
  complaint of that kind of his enters the table until he is eligible again,
  although any number of submissions passed Python's check before. "Drained" is
  needed: those past the SELECT do enter.
* `ResolutionReported` (liveness): a resolution reaches the trail and the student.

### IssueGroups

Department or hostel, category and subcategory are one value, the bucket: `Bucket[c]`
as filed, `bucket[c]` as the row has it, which an edit changes within the department
(`Recategory`), whether the complaint is grouped by then or not (`moved`).
The eight requests of `create_or_link_issue_group`, the reading of the group's
size, the own write and one write per escalated member are separate steps;
`InsertRejected` is UNIQUE(complaint_id) raising. `NewGroup` writes
`duplicate_count` 1 before any member exists, as the code does.

* `NothingHidden`: staff lists leave out a complaint with an `issue_group_id`, so it
  must be a member of that group, or nobody sees it. Excused are an unlinking
  between its two writes or cut there, and complaints two unlinkings of which
  overlapped: these the code does lose.
* `GroupsTrue`: submissions and edits leave groups of one bucket but for those with a
  moved member, and no "(+N)" exceeds its group. An edit does leave groups mixed:
  `edit_complaint` changes the category and no code looks at the group.
  `CountExact`: "(+N)" is exact while calls do not overlap.
* `EscalationReaches`: members of a group of four have High, and Urgent if six of them
  were submitted with no other call in flight (`Due`). With overlaps the loop of a
  submission that counted five may end after that of the sixth and lower it.
* `DuplicatesSurface`, `ManualNotBelowAutomatic`: that matching complaints do not all
  stay out of groups, and that no change goes below the minimum.

### StaffAccounts

Registration asks whether the office is free, whether the username is free,
renames retired accounts of that username one request at a time, and inserts.
Deactivation counts the holders and writes; reactivation looks for a holder and
writes; a login reads the row and writes the counter back. Two partial unique
indexes (`IndexesAdmit`) can refuse an insert or a reactivation: active
usernames, in the form of `007_account_management.sql`, which admits more than the
`UNIQUE` of `001_schema.sql` it replaces, and active heads of a department. The
other offices have no index. Passwords and codes are right or wrong; GEN and LIB
are departments whose heads alone are `HOD` rows, and the forms offer nothing
else. A SELECT that raises is logged and ignored (`BeginRegisterBlind`,
`NamesUnsettled`), as the `except` clauses of `register_staff` do. `raced` holds the
offices and usernames that two calls decided on at once, or that a lost SELECT
left unchecked, and the accounts whose zeroed counter met an attempt not yet
written (or was zeroed while locked).

* `OfficeHeldOnce`: an office has one active holder, unless raced for; a department
  always.
* `HolderStays`: what is asked of a new holder (nobody else) and of a leaving one
  (somebody else) exclude each other. So the holder of an office nobody raced for
  is never deactivated by anybody, and no head of department ever: the message
  "Please assign another HOD first" names a step that no call can take.
* `NameUnambiguous`: a username leads to one row, although retired ones are reused
  and retired accounts come back.
* `LockEarned`: a lock stands for `MaxFailed` wrong passwords since the last zeroing.
  The other direction fails in the code: of two attempts at once one is lost.

### StudentAccounts and StudentFeedback

A student is named by the roll number. Two facts are kept twice: that a roll
number has a student (`is_registered` of the pool and the row of `students`) and
that one lives in the hostel (the request and `is_hostel`, `is_hostel_approved`).
An import inserts in chunks of `ChunkSize`, a step each.

* `RegistrationMarked`: accounts come from the pool of their department and the
  pool says so, unless the registration ended between its two writes: then it was
  reported as failed although the account exists (`halfDone`).
* `HostelAgrees`: the flag that admits hostel complaints is what the latest request
  says. Two calls at once, a failure between the writes and the review of an old
  request are excepted (`contested`, `halfDone`): there the code leaves them apart.
* `LockEarned`, as for staff, with deactivation as the other way to be locked.
* `FeedbackCloses` (action property): reopening or deleting the complaint ends its
  feedback once the INSERTs past their trigger have drained, and of the edits under
  way one changes it. The service reads all of it too early; the triggers of
  `005_functions.sql` read it again, but that of an insert takes no lock, so its check
  (`Verify`) and the row (`InsertFeedback`) are two steps. The edit's trigger looks at
  the row it has locked and is one.

### CachedReads and SharedFetch

A table is the number of its writes, an entry or a list the number its reader
saw. The caches of metrics, breakdown and security codes are filled by three steps
without a lock around them, and dropped by a writer after its write. Who updates a
code of his own looks it up twice (`aim`): to verify the old one and to find the
record to replace, between which the cache may change; without a record the code
inserts. The two keys of the Library's code, which is looked up under two roles, are
one here. A student's
list and the staff's dashboard share one fetch: the first thread owns it, the
others wait for its event and then read flag and list. The dashboard's worker
runs two threads and stores the list a second time.

* `StaleOnlyIfLate`: what is older than the last change its session was told of was
  about to be stored when the change was made. That happens in the code
  (`late`, `rowsLate`): a reader stores after the invalidation, a forced reload
  joins the fetch under way, the worker brings back what was forgotten.
* `HonestAnswer`: a thread answers with the outcome of the fetch it owned or joined.
  Excepted (`raced`): flag and list are read after the event, and when the next
  fetch has begun a waiter may raise over another's failure or show an empty list.
* `InOrder`: the student's list refines `OrderedRows`: no load brings back what a
  newer one replaced. It does not hold of the staff's list tab, whose loads are
  not shared.
* `LoadsEnd` (liveness): loads, calls and worker that began come to an end.

### AttachmentUploads and ClientSession

The picker's answer is awaited and may come after the dialog was given up and
opened again; an invocation number tells answers apart. Upload events carry a
file name and are compared to the head of the queue. `ClientSession` puts them
into a browser: the session store, which a page load starts empty, and the
browser's storage, written by tasks that start in order and overlap; a
submission is a thread. A save is launched with the list of selected files, which
picker and events go on changing in place: it writes what is in the list when it runs,
unless a submission has put a new list in its place meanwhile (`ListReplaced`, `FilesOf`).
Of the four removals at sign-out that of the tab number is left out.

* `SlotsKept`: the attachment step refines `AttachmentSlots`: never more than two files,
  none enters while another is coming. `QueueServed`: the head of the queue is one
  that the client transfers, although errors, late and duplicate events move it.
* `TextStaysWithAuthor`, `AttachmentsOfAuthor`: students who share a browser do not
  get each other's texts or files; files that sign-out leaves selected
  (`leftovers`) are the code's exception.
* `SignOutFinal`: once tasks are done a page load does not sign in again.
* `SentOnce`, `SentDraftGone`: a sent text is not sent again and its draft does not come
  back, unless the student was left with it (`interrupted`): the call failed after
  the RPC, the page was rebuilt, the removal was lost, an event came later.

### PortalTabs, RollPoolTab, SpreadsheetImport, Portals

A handler is a record: tab, thread, what it changes, which tabs it drops and
shows, after which outcomes its button comes back, before or after the tab is shown
(`Free`); `_switch_view` is several steps, which the loop and the threads interleave.
Tabs of complaints are drawn from lists that the portal keeps and the handlers
forget (`rows`, `list`), or read when there is none (`fetch`, `ListRead`): a handler that
dropped the tab and kept the list would draw the old one again. What a drawing
inside `refresh_list` shows while its own read runs, a ring and then rows or an error,
is left out: that read replaces either. The counters of a student's dashboard are
read together with the list and have its version. `Refresh` of the student's feedback
tab, of the list tabs and of groups are handlers too. An import may raise
(`ImportRaises`): its button stays disabled until another file is chosen.

* `CachedTabsCurrent`: a kept drawing is not older than the user's last change of what
  it shows. The handlers that keep what they should drop (`Keeping`: locations,
  accounts, a student's hostel request and deletion in the detail dialog) and changes
  that cross a drawing are the code's exceptions.
* `ScreenSettles`: at rest the screen shows the selected tab, and no progress ring.
  Excepted is the dashboard that is left while it loads: it is drawn again only if
  it is selected when the load ends, and the ring that was kept stays.
* `ButtonsComeBack`: a grey button's handler is at work or has raised.
* `PoolShowsOwnAdds`: additions are in the table once loads are over; a failed read
  kept as fresh, overlapping loads and an import from a dialog older than the tab
  (`mishaps`) are excepted.
* `ImportsSound`: a file is imported once, after its upload, by the chooser that
  asked for it. Each opening replaces `picker.on_upload`, so a file may be handed to
  the chooser of a later pick; events of equal names are confused.

## Runs

| run | configuration | shows |
|---|---|---|
| `lifecycle` | one complaint, two students who become locked, approved and back, a Principal, a coordinator, an outsider; two calls at once, three in all | the lifecycle's safety, and `ResolutionReported` |
| `edit_race` | as `lifecycle` | violation: an edit changes a complaint under review |
| `groups` | three complaints, a group of two to begin with; all operations, with edits between two buckets; two calls at once, three in all, of which any may fail | safety of groups |
| `grouping` | six complaints of one bucket, one of another and one of a custom category, from nothing or a group of three; submissions and edits; two calls at once, three in all, one failure | grouping and escalation to six |
| `link_race` | four complaints of one bucket, submissions only | violation: matching complaints stay in groups of one |
| `escalation` | one call at a time on a group of two with an Urgent joining | violation: Urgent lowered to High |
| `staff_accounts` | three accounts, two usernames, an academic department and the library, two wrong passwords to a lock; a table without holders or a department with a head and a coordinator; two calls at once, four in all | offices, usernames, locks |
| `principal_race` | the same, two calls in all | violation: two active Principals |
| `students` | two roll numbers, two departments; new, in the pool, or a student with a request pending or denied; two wrong passwords to a lock, chunks of two, two hostel requests; two calls at once, four in all | pool, hostel, locks, feedback |
| `views` | a student with two loading threads, staff with list, dashboard and worker, a third session; two tables, two keys, two writes of each; four loads and calls | stale lists and entries, outcomes, order, termination |
| `client` | two students in one browser, two files of one name, two dialogs, two sign-ins, a page load, two complaints, two tasks at a time, a failed call of the storage; three rare events in all (`MaxRare`) | drafts, sign-out, attachments, `AttachmentSlots` |
| `tabs` | five of the seven portals, each with one button pressed and two tabs visited, one kind of hitch; or a coordinator on the pool's tab with two turns and two picks as `Shares` divides them | kept tabs, screen, buttons, pool, imports |

Three calls are enough for a race of two and a third that finds its outcome, or
sets up its cause; a complaint is independent of another in the lifecycle, and
the two students make ownership matter. Two group ids suffice since two openings
need two calls. A second group of two would add no new relation between calls. Six
complaints are where the minimum becomes Urgent: three submissions bring a group of
three there, and a single failure (`MaxFailures`) leaves two that are whole. `groups`
and `link_race` let every call fail.

Four calls let two registrations race for an office and a third find it vacated,
or an attempt, a reset and two more attempts meet on one counter; three accounts
are two holders and one who asks. Of students, two hostel requests and two calls
that overlap give every order of their four writes, and the seeds save the calls
that would lead there.

In `views`, `Crews` are the sets of threads looked at together: those of one session,
which share lists, and one more that writes. Four begun operations are a fetch,
one that joins or forces, a write and a second fetch. In `client`, a file, a sign-in,
a page load and a failure are what the properties' exceptions are made of, and
three of them meet in every order; files of one name are the harder case. In
`tabs` one press with its load and two visits before, during or after it is the
shortest way to each exception that the properties name; a student begins at the
dashboard (`FirstTabs`), from where every tab and the way back are two visits. The two
portals left out are no new case: a head of a department has the Coordinator's tabs
with codes in place of the pool, and handlers that the records of other portals
equal; the Library's differs from that of the head of GEN in names only. The theorems
are of all seven. Type invariants of the other modules are proved instead of run.

The largest runs are `client` (2.0 million states), `tabs` (1.7), `groups` (1.8) and
`grouping` (1.1); each takes a few minutes on two cores.

Deadlock is checked in `tabs`, where the selected tab can always be clicked again;
elsewhere the system rests when no call is made.

Symmetry is used on students, calls, readers, names, complaints of one bucket that
no seed tells apart and two of the accounts (which the model does not
distinguish), and only for safety and the refinement of `client`, whose abstract
specification treats students alike. `lifecycle` and `views`, which check liveness,
use none; `lifecycle` fixes the filer in its specification instead (`FiledByFirst`), as the
students are interchangeable.

**Fairness.** In the lifecycle `WF(Continue(w))` for each call: a thread that has
begun runs on until it ends or raises. In `SharedFetch` weak fairness of `Work`, the
steps of threads that have begun: the HTTP client has timeouts, so a request
answers or raises, and the owner's `finally` sets the event. The other modules
state none and have no liveness property. No fairness is assumed of students,
staff, time, or failures: nobody has to call anything.

Where the code disagrees with what is written of it, `PROJECT.json` quotes both:

* an edit under way when a status is set still changes the row (`edit_race`);
* matching complaints submitted at once stay in groups of one (`link_race`);
* two active Principals (`principal_race`);
* escalation lowers an Urgent member (`escalation`);
* `src/README.md:18` says that students "Cannot delete complaints", but
  `delete_complaint_by_student` deletes an untouched one of their own, and the portal
  offers it. This needs no race and no run of its own: `AuditSound` and `AuditComplete`
  take such a deletion as an action of the program, with its entry in the trail, and
  do not claim the README's rule.

## Proofs

All proofs hold for any sets of complaints, students, staff, groups, calls, threads
and views (finite complaints in `IssueGroups`, for counting), any bounds, and assume
only the assumptions of the modules: `LifecycleAssumption`, `GroupsAssumption`,
`AccountsAssumption`, `StudentsAssumption`, `CachedReadsAssumption`,
`SharedFetchAssumption`, `UploadsAssumption`, `SessionAssumption`, `TabsAssumption`, `FormsAssumption`,
`PoolAssumption`, `ImportAssumption`, `SharesAssumption`.

* **Lifecycle.** The properties are not inductive, since they speak of tables while
  the threat is in the local state of a call: `CallInv` says what a call in flight
  implies about the tables (`Placed`): a call past its write has left its `Effect`,
  the actor is entitled, the complaint exists. `TypeCorrect` proves
  `TypeOK /\ CallInv`; each further property is then inductive relative to it.
  `BarredStaysOutTheorem` is of steps: a submission gets past the RPC's SELECT only
  if its student is eligible then, so nobody who is barred has one there, and only
  one that is there inserts.
* **Groups.** `GroupInv` says of each complaint, unless excused, that its two group
  columns agree up to the calls between their writes (`Tidy`): a call about to set
  the pointer is the only one, since it holds the membership that UNIQUE protects.
  `GroupsCorrect` proves it invariant; `NothingHiddenTheorem` follows. `CopiesAgree`
  proves the SQL and Python rules equal; `EscalationMonotone` that the rule itself
  never lowers: `escalation` violates its property through the loop, not the rule.
  The other properties of groups have an invariant each, added to these.
  `GroupsTrueTheorem`: `SubmitInv` (a submission that has a group in hand has one of
  its bucket, and a group just opened is empty and known to its opener alone) makes
  joining safe, unless one of the complaints was moved; `CountInv` (a count about to
  be stored, like a stored one, is below the size of the group) makes the count safe,
  since members only grow.
  `EscalationReachesTheorem`: `RaiseInv` names, for each member of a group of four that
  no call overlapped, the call that `WillRaise` it: the argument that the last to
  join counts them all. That the level it raises to is the one due (`LevelRight`) needs
  `AloneRight`: what a submission with no other in flight has counted is still so.
  `DuplicatesSurfaceTheorem`: `SurfaceInv`, that while no complaint of
  a bucket is in a group one call that has yet to look, or to insert, is on its
  way. The three assume `NoLinking`, the last `OnlySubmitted`: the properties are about
  submissions, edits, changes of priority and (but for the last) deletions, and
  linkings by hand do break them, as the run `groups` would show. Run `grouping`
  is their instance. `ManualNotBelowAutomaticTheorem` and `CountExactTheorem` hold of every
  operation: `FloorInv` and `ExactInv` say how far the only call in flight has got.
* **Staff accounts.** All properties of the module are proved. `AccountsInv` adds
  what calls in flight know: a registration that found an office (`FoundFree`) or a
  username (`FoundUntaken`) free is alone with it until it ends, unless the ghost
  marks it; nobody leaves an office that was not raced for (`RowInv`, `CallInv`),
  which needs `OfficeHeldOnce` in turn, so the two are proved together; and no count,
  stored or about to be, exceeds the wrong passwords typed (`CountInv`).
  `SafeStep` has one lemma per conjunct; `HoldersStay` is the action property.
* **Students.** `StudentsInv` is types, `CallInv` (what a call in flight was told is
  still true: the account exists, the roll number is in the pool),
  `RegistrationMarked`, `LockInv` (the counter and the attempts about to be written
  do not exceed the wrong passwords), `RowInv` (whoever has a request counts as
  living in the hostel unless the write is to come or was lost; flag and request
  agree unless contested or a call is between its writes) and `AloneInv`: a hostel
  call that no other overlapped finds what it left. Without the last, the second
  write of a review could undo a newer one. All four properties of the run are
  theorems; `FeedbackClosesTheorem` needs that only a call past its trigger inserts, and
  that none gets past it while the complaint is closed.
* **Views.** `FetchInv` is `CacheInv` (an entry, or a reader about to store one, is no
  older than the last drop unless marked late), `Owners` (a shared fetch has one
  owner, whose event is not set), `Outcomes` (what the flag and list will say to a
  thread not raced), `BoardInv`, `MetricsInv` (the worker's threads find a list, or were
  about to bring one back) and `Ages` (lists and those about to be stored are in
  order). `Owners` is what makes the rest inductive: two owners could store in
  either order. `InOrderTheorem` maps each step to a step or a stutter of
  `OrderedRows`.
* **Attachments.** `UploadsInv`: the newest dialog is answered once and, until then,
  the queue is empty (`DialogInv`); so the queue holds one file at most, which the
  client still transfers and for which a slot is free (`QueueInv`). From there
  `UploadsImplementSlots` maps every step to one of `AttachmentSlots` or a stutter, and
  `QueueIsServed` follows. `SessionUploads` shows that a step of `ClientSession` is a
  step of the attachment step or leaves it alone, so both hold of the session.
* **Session.** `SessionShaped` adds to `UploadsInv` that an open form is of the student
  who is signed in and has the hooks, that a save has a student, and that a
  submission which attaches has a complaint and a file left. Each property then
  has an invariant that says it of all places a text, a file or an identity passes
  through, of which the property names the last:
  * `TextsInv`: a text is its student's in the form, in both drafts, in each save under
    way, in each submission and complaint.
  * `FilesInv`: so are files, from the queue on, or they are among `leftovers`. A
    submission that attaches does so to a complaint of its own student: without that
    conjunct, its number alone would let it attach to another's.
  * `SignInv`: at the sign-in page, with no failed call, every sign-in has started, so
    that only its role may still be written; and a sign-out has still to start, or
    the store is empty and the browser has no user, or has no role and no sign-in left
    to write one.
  * `SendingInv` and `DraftInv`: a text with which its student was not left is being
    sent by one submission, whose form waits (`SentOnce` is not inductive without
    it: a second form could send the same text). Wherever a draft of it may still be,
    in the store, in the browser, in a save not yet run, a submission or a removal
    launched later takes it away (`Followed`, `Going`). The two need each other: a form
    whose text was sent, but not by a submission that still has it, must be closed,
    and a closed form must not be filled again by a late event of the client.

  Two assumptions were added for these proofs, and both are facts about the
  instance: `NoDraft` is no draft, and the bounds are numbers. `ValidFiles` is written
  for the two files that a form holds at most (`SlotsKept`), since what a filter over
  sequences of any length returns needs induction over data.
* **Portals.** Each part has its own invariant, and a step of the composition is one
  of its steps or leaves it alone. `PoolInv`: without a mishap one thread reads at
  a time, and what it read, what the cache holds and what the table shows have the
  last addition, unless that thread is going to fill the table (`PoolCurrent`).
  `ImportInv`: a pick waits for its answer, or is in the queue once, or is held by one
  chooser, its own unless a later opening came (`Held`), or is done with; and what is
  held or imported was reported, or shares its name (`Vouched`). The tabs need
  `TabsShaped`, which ties a handler's record to its step (`Work`), and `Accounted`: no
  more changes than presses, which bounds the versions. On these rest
  `ButtonInv` (a grey button that has not raised has exactly one handler that `Frees`
  it, in its call or past the drawing of its tab, or one of the two exceptions),
  `CacheInv` (what is kept, and what is about to be, is no older than the user's last
  change; the same of the lists the tabs are drawn from and of the reads that will
  fill them, `ListsCurrent`), `ScreenInv` (without a crossing one actor
  draws, and draws the selected tab) and `RingInv` (a drawing with a ring has a load
  that is `Pending`). `CachedTabsCurrentTheorem` and the others follow.

  Three assumptions came out of these proofs. `MaxRolls` is positive: the pool
  starts with a roll number. `NoForm` is no form. And whoever presses
  has a press to spend (`SharesAssumption`): with none, a handler that is at work to
  begin with would have a change that no press paid for. All three are facts about
  the instance, not the code.

Only model-checked: liveness (`ResolutionReported`, `LoadsEnd`), which is out of the
prover's reach, and the runs that expect a violation. Every other property that a
run checks is a theorem.

## Plan

Still to come, in this order:

1. `StaffScope`: who sees a complaint and who may act on it, as one relation, and
   its refinement by the two functions of the code.
2. Notifications: the unread count, cached and bumped, against the table.

## Not modelled

* **Text similarity**: submission does not call it. **Role routing**
  (`get_complaints_for_user`, `_is_staff_authorized_for_complaint`) keeps no state; the
  constant `InScope` stands for it.
* **Notifications** but for a student's message on a change; the drawer, its list
  and its unread count.
* **Analytics**: how the numbers are counted; the redrawing of the Principal's
  breakdown. Only the fetching, caching and failing are in `SharedFetch`.
* **Profile edits**, filters, search, the forms of authentication, the restored tab
  number, ratings and comments of feedback: data that no property tells apart.
* **Signed URLs** and the listing of attachments: reads. Reference data, since it does
  not change at run time but for locations (`PortalTabs`).
* **Application state**: the class-level fallback is used outside a session only.
* **Layout, charts, themes, row-level security** (the services connect as
  `service_role`), **migrations and seeds**.
* A scope that changes because a student changes the category (`InScope` is
  constant), and staff notifications of a submission.
