--------------------------- MODULE ClientSession ---------------------------
(***************************************************************************)
(* A student in a browser: app.py (sign-in, sign-out, page loads), the     *)
(* complaint form of ui/views/student_view.py with the attachments of      *)
(* AttachmentUploads, services/draft_recovery_service.py and the upload of *)
(* services/storage_service.py.                                            *)
(*                                                                         *)
(* The same facts are kept in two places: the session store, which a page  *)
(* load starts empty, and the browser's storage, which is written by tasks *)
(* of the event loop, one awaited call after the other.  Tasks start in    *)
(* the order they were launched and overlap from then on.  A submission is *)
(* a thread of its own.  Every change of the form, and every event of its  *)
(* uploads, saves a draft of the form built last, which the student may    *)
(* have left, sent or signed out of.                                       *)
(*                                                                         *)
(* The accounts are students; the page shown, a form's fields but for its  *)
(* text, and the tab number are left out.                                  *)
(***************************************************************************)
EXTENDS AttachmentUploads

CONSTANTS
  Threads,      \* threads that run a submission
  NoDraft,
  MaxTyped,     \* bound: changes of a form's text
  MaxLogins,    \* bound: sign-ins
  MaxSent,      \* bound: complaints registered
  MaxTasks,     \* bound: tasks at a time
  MaxFailures,  \* bound: calls to the browser's storage that fail
  MaxRare       \* bound: sign-ins, page loads, files picked and failures together

VARIABLES
  view,        \* what the page shows: sign-in, portal, or nothing while restoring
  user,        \* AppState.current_user
  storeUser,   \* SESSION_KEY_USER and SESSION_KEY_ROLE of the session store
  storeDraft,  \* SESSION_KEY_DRAFT of the session store
  browser,     \* SharedPreferences: SP_KEY_USER, SP_KEY_ROLE, SP_KEY_DRAFT
  tasks,       \* tasks of the event loop that write to it
  form,        \* the complaint form built last, to which the hooks point
  thread,      \* the submissions under way
  complaints,  \* complaints registered, with their rows of complaint_attachments
  disk,        \* temporary files in uploads/temp
  interrupted, \* texts that a student was left with after sending them (ghost)
  leftovers,   \* files selected when their student signed out (ghost)
  typed,       \* changes of a form's text so far
  logins,      \* sign-ins so far
  failures     \* failed calls to the browser's storage so far

sessionVars == <<view, user, storeUser, storeDraft, browser, tasks, form, thread, complaints,
                 disk, interrupted, leftovers, typed, logins, failures>>

allVars == <<uploadVars, sessionVars>>

\* Who wrote a text, and which one it is.
Text == [by: Students \union {NoStudent}, v: 0..MaxTyped]

NoText == [by |-> NoStudent, v |-> 0]

Draft == [owner: Students, text: Text, files: Seq(File)]

ASSUME SessionAssumption ==
  /\ NoDraft \notin Draft
  /\ {MaxTyped, MaxLogins, MaxSent, MaxTasks, MaxFailures, MaxRare} \subseteq Nat

Form == [student: Students \union {NoStudent}, text: Text,
         open: BOOLEAN,      \* in the portal, where the student can change it
         sending: BOOLEAN]   \* the submit button is disabled

NoForm == [student |-> NoStudent, text |-> NoText, open |-> FALSE, sending |-> FALSE]

Task == [kind: {"persist", "wipe", "save", "forget"}, step: 0..2,
         student: Students \union {NoStudent}, text: Text,
         replaced: BOOLEAN,  \* the list it was handed is the session's no more,
         files: Seq(File)]   \* and holds these files

Thread == [phase: {"idle", "register", "attach", "finish"},
           student: Students \union {NoStudent}, text: Text, files: Seq(File),
           c: Nat,           \* the complaint registered
           same: BOOLEAN,    \* its form is still the one built last
           page: BOOLEAN]    \* its page has not been loaded again

IdleThread == [phase |-> "idle", student |-> NoStudent, text |-> NoText, files |-> <<>>,
               c |-> 0, same |-> FALSE, page |-> FALSE]

Complaint == [student: Students, text: Text, rows: Seq(File)]

TypeOK ==
  /\ UploadsTypeOK
  /\ view \in {"auth", "restoring", "draft", "portal"}
  /\ user \in Students \union {NoStudent}
  /\ storeUser \in Students \union {NoStudent}
  /\ storeDraft \in Draft \union {NoDraft}
  /\ browser.user \in Students \union {NoStudent}
  /\ browser.role \in BOOLEAN
  /\ browser.draft \in Draft \union {NoDraft}
  /\ tasks \in Seq(Task)
  /\ form \in Form
  /\ thread \in [Threads -> Thread]
  /\ complaints \in Seq(Complaint)
  /\ disk \subseteq 1..MaxFiles
  /\ interrupted \subseteq Text
  /\ leftovers \subseteq 1..MaxFiles
  /\ typed \in 0..MaxTyped
  /\ logins \in 0..MaxLogins
  /\ failures \in 0..MaxFailures

\* How many of the rare events have happened.
Rare == session + picked + failures + logins

SessionInit ==
  /\ UploadsInit
  /\ view = "auth"
  /\ user = NoStudent
  /\ storeUser = NoStudent
  /\ storeDraft = NoDraft
  /\ browser = [user |-> NoStudent, role |-> FALSE, draft |-> NoDraft]
  /\ tasks = <<>>
  /\ form = NoForm
  /\ thread = [t \in Threads |-> IdleThread]
  /\ complaints = <<>>
  /\ disk = {}
  /\ interrupted = {}
  /\ leftovers = {}
  /\ typed = 0
  /\ logins = 0
  /\ failures = 0
-----------------------------------------------------------------------------
(* Drafts *)

\* validate_student_temp_path: only what is in the owner's own temporary
\* directory, and still there, may stay in a draft.
ValidStudentTempPath(f, owner, there) == f.temp /\ f.student = owner /\ f.n \in there

\* The valid files of a form, which holds two at most (MaxAttachments, SlotsKept).
ValidFiles(s, owner, there) ==
  LET Kept(k) == IF k <= Len(s) /\ ValidStudentTempPath(s[k], owner, there)
                 THEN <<s[k]>> ELSE <<>>
  IN Kept(1) \o Kept(2)

\* sanitize_draft_for_storage of a form
DraftOf(student, text, files, there) ==
  [owner |-> student, text |-> text, files |-> ValidFiles(files, student, there)]

NewTask(kind, student, text) == [kind |-> kind, step |-> 0, student |-> student, text |-> text,
                                 replaced |-> FALSE, files |-> <<>>]

Launch(task) == Len(tasks) < MaxTasks /\ tasks' = Append(tasks, task)

\* A save is handed the session's list of files itself, which changes in place
\* until a submission replaces it.
FilesOf(task) == IF task.replaced THEN task.files ELSE selected

ListReplaced ==
  [i \in 1..Len(tasks) |-> IF tasks[i].kind = "save" /\ ~tasks[i].replaced
                           THEN [tasks[i] EXCEPT !.replaced = TRUE, !.files = selected]
                           ELSE tasks[i]]

\* save_complaint_draft: the store now, the browser by a task.
SaveDraft(f, files, there) ==
  /\ storeDraft' = DraftOf(f.student, f.text, files, there)
  /\ Launch(NewTask("save", f.student, f.text))

\* _notify_attachment_ui: the hooks redraw the form built last, and save it.
NotifyAttachmentUI ==
  IF hookStudent # NoStudent
  THEN SaveDraft(form, selected', disk')
  ELSE UNCHANGED <<storeDraft, tasks>>
-----------------------------------------------------------------------------
(* Sign-in and sign-out *)

\* An event of the page comes over the network, in a later turn of the loop
\* than the tasks launched before it: they have begun.
AllStarted == \A i \in 1..Len(tasks) : tasks[i].step > 0

Login(s) ==
  /\ view = "auth"
  /\ AllStarted
  /\ logins < MaxLogins
  /\ Rare < MaxRare
  /\ logins' = logins + 1
  /\ user' = s
  /\ storeUser' = s
  /\ view' = "portal"
  /\ Launch(NewTask("persist", s, NoText))
  /\ BuildPortal
  /\ UNCHANGED <<storeDraft, browser, form, thread, complaints, disk, interrupted, leftovers,
                 typed, failures>>

Forgotten(ts) == [t \in Threads |-> [ts[t] EXCEPT !.same = FALSE]]

\* Texts being sent whose form the student will not see settled.
Sending == {thread[t].text : t \in {t \in Threads : thread[t].phase # "idle"}}

Logout ==
  /\ AllStarted
  /\ view = "portal"
  /\ view' = "auth"
  /\ user' = NoStudent
  /\ storeUser' = NoStudent
  /\ storeDraft' = NoDraft
  /\ Launch(NewTask("wipe", NoStudent, NoText))
  /\ form' = [form EXCEPT !.open = FALSE]
  /\ thread' = Forgotten(thread)
  /\ interrupted' = interrupted \union Sending
  /\ leftovers' = leftovers \union {selected[i].n : i \in 1..Len(selected)}
                            \union {queue[i].n : i \in 1..Len(queue)}
  /\ UNCHANGED <<uploadVars, browser, complaints, disk, typed, logins, failures>>

\* The theme or the width of the window changes: the portal is built again.
RenderPortal ==
  /\ AllStarted
  /\ view = "portal"
  /\ form.open
  /\ form' = [form EXCEPT !.open = FALSE]
  /\ thread' = Forgotten(thread)
  /\ interrupted' = interrupted \union Sending
  /\ BuildPortal
  /\ UNCHANGED <<view, user, storeUser, storeDraft, browser, tasks, complaints, disk,
                 leftovers, typed, logins, failures>>
-----------------------------------------------------------------------------
(* The form *)

\* Mutant: whose draft it is, is not asked.
CurrentDraftTextOfAnyone == IF storeDraft # NoDraft THEN storeDraft.text ELSE NoText

\* get_current_complaint_draft
CurrentDraftText ==
  IF storeDraft # NoDraft /\ storeDraft.owner = user THEN storeDraft.text ELSE NoText

BuildForm ==
  /\ AllStarted
  /\ view = "portal"
  /\ ~form.open
  /\ form' = [student |-> user, text |-> CurrentDraftText, open |-> TRUE, sending |-> FALSE]
  /\ RegisterHooks(user)
  /\ IF selected # <<>>
     THEN SaveDraft(form', selected, disk)
     ELSE UNCHANGED <<storeDraft, tasks>>
  /\ thread' = Forgotten(thread)
  /\ UNCHANGED <<view, user, storeUser, browser, complaints, disk, interrupted, leftovers,
                 typed, logins, failures>>

TypeText ==
  /\ AllStarted
  /\ form.open
  /\ typed < MaxTyped
  /\ typed' = typed + 1
  /\ form' = [form EXCEPT !.text = [by |-> user, v |-> typed + 1]]
  /\ SaveDraft(form', selected, disk)
  /\ UNCHANGED <<uploadVars, view, user, storeUser, browser, thread, complaints, disk,
                 interrupted, leftovers, logins, failures>>

Pick ==
  /\ AllStarted
  /\ \/ form.open /\ \E launches \in BOOLEAN : OpenPicker(launches)
     \/ \E i \in launched : PickNothing(i)
     \/ /\ Rare < MaxRare
        /\ \E i \in launched, name \in Names : PickLocal(i, name) \/ PickUpload(i, name)
  /\ disk' = disk
  /\ leftovers' = IF form.open \/ hookStudent = user THEN leftovers
                  ELSE leftovers \union (picked + 1)..picked'
  /\ NotifyAttachmentUI
  /\ UNCHANGED <<view, user, storeUser, browser, form, thread, complaints, interrupted,
                 typed, logins, failures>>

\* What the form does not hear of.
Unheard ==
  /\ AllStarted
  /\ \/ disk' = disk /\ PickerBecomesStale
     \/ disk' = disk /\ \E i \in launched : PickSuperseded(i)
     \/ disk' = disk /\ \E n \in 1..MaxFiles : TransferFallsSilent(n)
     \/ \E n \in 1..MaxFiles, final \in BOOLEAN :
          queue # <<>> /\ disk' = disk \union {n} /\ EventForNobody(n, final)
  /\ UNCHANGED <<view, user, storeUser, storeDraft, browser, tasks, form, thread, complaints,
                 interrupted, leftovers, typed, logins, failures>>

UploadEvent(n) ==
  /\ AllStarted
  /\ \/ \E final \in BOOLEAN : queue = <<>> /\ disk' = disk \union {n} /\ EventForNobody(n, final)
     \/ \E final \in BOOLEAN : disk' = disk \union {n} /\ UploadFinished(n, final)
     \/ disk' = disk /\ UploadFailed(n)
  /\ NotifyAttachmentUI
  /\ UNCHANGED <<view, user, storeUser, browser, form, thread, complaints, interrupted,
                 leftovers, typed, logins, failures>>

\* remove_file: the temporary file goes with the entry.
RemoveSelected ==
  /\ AllStarted
  /\ form.open
  /\ \E k \in 1..Len(selected) :
       /\ RemoveFile(k)
       /\ disk' = disk \ {selected[k].n}
  /\ SaveDraft(form, selected', disk')
  /\ UNCHANGED <<view, user, storeUser, browser, form, thread, complaints, interrupted,
                 leftovers, typed, logins, failures>>
-----------------------------------------------------------------------------
(* Submission *)

Submit(t) ==
  /\ AllStarted
  /\ form.open
  /\ ~form.sending
  /\ form.text # NoText
  /\ thread[t].phase = "idle"
  /\ Len(complaints) < MaxSent
  /\ thread' = [thread EXCEPT ![t] = [phase |-> "register", student |-> form.student,
                                      text |-> form.text, files |-> selected, c |-> 0,
                                      same |-> TRUE, page |-> TRUE]]
  /\ form' = [form EXCEPT !.sending = TRUE]
  /\ UNCHANGED <<uploadVars, view, user, storeUser, storeDraft, browser, tasks, complaints,
                 disk, interrupted, leftovers, typed, logins, failures>>

Registration(t) == [student |-> thread[t].student, text |-> thread[t].text, rows |-> <<>>]

Register(t) ==
  /\ thread[t].phase = "register"
  /\ complaints' = Append(complaints, Registration(t))
  /\ thread' = [thread EXCEPT ![t].phase = IF thread[t].files = <<>> THEN "finish" ELSE "attach",
                              ![t].c = Len(complaints) + 1]
  /\ UNCHANGED <<uploadVars, view, user, storeUser, storeDraft, browser, tasks, form, disk,
                 interrupted, leftovers, typed, logins, failures>>

\* The button is enabled again: the complaint was rejected, or registered by
\* a call that failed afterwards.
RegisterFails(t) ==
  /\ thread[t].phase = "register"
  /\ complaints' \in {complaints, Append(complaints, Registration(t))}
  /\ interrupted' = interrupted \union {thread[t].text}
  /\ form' = IF thread[t].same THEN [form EXCEPT !.sending = FALSE] ELSE form
  /\ thread' = [thread EXCEPT ![t] = IdleThread]
  /\ UNCHANGED <<uploadVars, view, user, storeUser, storeDraft, browser, tasks, disk,
                 leftovers, typed, logins, failures>>

\* upload_attachment of the next file.  A temporary file that is gone is
\* refused; whatever the upload returns, its temporary file is deleted.
Attach(t) ==
  LET file == Head(thread[t].files)
      rest == Tail(thread[t].files)
      rows == complaints[thread[t].c].rows
  IN /\ thread[t].phase = "attach"
     /\ \/ /\ file.temp => file.n \in disk
           /\ Len(rows) < MaxAttachments
           /\ complaints' = [complaints EXCEPT ![thread[t].c].rows = Append(rows, file)]
           /\ disk' = disk \ {file.n}
        \* refused, or the insert failed and the object was removed again
        \/ UNCHANGED complaints /\ disk' = disk \ {file.n}
        \* an exception: the temporary file stays
        \/ UNCHANGED <<complaints, disk>>
     /\ thread' = [thread EXCEPT ![t].files = rest,
                                 ![t].phase = IF rest = <<>> THEN "finish" ELSE "attach"]
     /\ UNCHANGED <<uploadVars, view, user, storeUser, storeDraft, browser, tasks, form,
                    interrupted, leftovers, typed, logins, failures>>

\* The client may still answer, and its answer saves the form built last.
ClientBusy == \/ launched # {}
              \/ \E n \in 1..MaxFiles : transfer[n].state \in {"running", "reported"}

Finish(t) ==
  /\ thread[t].phase = "finish"
  /\ thread[t].page
  /\ ClearSelected
  /\ storeDraft' = NoDraft
  /\ Len(tasks) < MaxTasks
  /\ tasks' = Append(ListReplaced, NewTask("forget", NoStudent, thread[t].text))
  /\ form' = IF thread[t].same THEN [form EXCEPT !.open = FALSE] ELSE form
  /\ interrupted' = IF ClientBusy THEN interrupted \union {thread[t].text} ELSE interrupted
  /\ thread' = [thread EXCEPT ![t] = IdleThread]
  /\ UNCHANGED <<view, user, storeUser, browser, complaints, disk, leftovers, typed, logins,
                 failures>>

\* The page was loaded again: the thread clears a store nobody reads.
FinishForNobody(t) ==
  /\ thread[t].phase = "finish"
  /\ ~thread[t].page
  /\ thread' = [thread EXCEPT ![t] = IdleThread]
  /\ UNCHANGED <<uploadVars, view, user, storeUser, storeDraft, browser, tasks, form,
                 complaints, disk, interrupted, leftovers, typed, logins, failures>>
-----------------------------------------------------------------------------
(* Tasks: one call to the browser's storage at a step *)

\* Mutant: the tasks start in any order.
ReadyInAnyOrder(i) == i <= Len(tasks)

Ready(i) == tasks[i].step > 0 \/ \A j \in 1..(i - 1) : tasks[j].step > 0

LastStep(kind) == CASE kind = "persist" -> 1 [] kind = "wipe" -> 2 [] OTHER -> 0

\* Mutant: the removal of a draft leaves the session's to the submission.
StoreStepBrowserOnly(task) ==
  CASE task.kind = "persist" /\ task.step = 0 ->
         storeUser' = task.student /\ UNCHANGED storeDraft
    [] task.kind = "wipe" /\ task.step = 0 ->
         storeUser' = NoStudent /\ storeDraft' = NoDraft
    [] task.kind = "save" ->
         storeDraft' = DraftOf(task.student, task.text, FilesOf(task), disk) /\ UNCHANGED storeUser
    [] OTHER -> UNCHANGED <<storeUser, storeDraft>>

\* What a task does to the session store before its first call.
StoreStep(task) ==
  CASE task.kind = "persist" /\ task.step = 0 ->
         storeUser' = task.student /\ UNCHANGED storeDraft
    [] task.kind = "wipe" /\ task.step = 0 ->
         storeUser' = NoStudent /\ storeDraft' = NoDraft
    [] task.kind = "save" ->
         storeDraft' = DraftOf(task.student, task.text, FilesOf(task), disk) /\ UNCHANGED storeUser
    [] task.kind = "forget" -> storeDraft' = NoDraft /\ UNCHANGED storeUser
    [] OTHER -> UNCHANGED <<storeUser, storeDraft>>

\* Mutant: a sign-out removes the role only.
WrittenRoleOnly(task) ==
  CASE task.kind = "persist" /\ task.step = 0 -> [browser EXCEPT !.user = task.student]
    [] task.kind = "persist" /\ task.step = 1 -> [browser EXCEPT !.role = TRUE]
    [] task.kind = "wipe" /\ task.step = 0 -> browser
    [] task.kind = "wipe" /\ task.step = 1 -> [browser EXCEPT !.role = FALSE]
    [] task.kind = "save" ->
         [browser EXCEPT !.draft = DraftOf(task.student, task.text, FilesOf(task), disk)]
    [] OTHER -> [browser EXCEPT !.draft = NoDraft]

\* Its call.
Written(task) ==
  CASE task.kind = "persist" /\ task.step = 0 -> [browser EXCEPT !.user = task.student]
    [] task.kind = "persist" /\ task.step = 1 -> [browser EXCEPT !.role = TRUE]
    [] task.kind = "wipe" /\ task.step = 0 -> [browser EXCEPT !.user = NoStudent]
    [] task.kind = "wipe" /\ task.step = 1 -> [browser EXCEPT !.role = FALSE]
    [] task.kind = "save" ->
         [browser EXCEPT !.draft = DraftOf(task.student, task.text, FilesOf(task), disk)]
    [] OTHER -> [browser EXCEPT !.draft = NoDraft]

TaskStep(i) ==
  /\ Ready(i)
  /\ StoreStep(tasks[i])
  /\ browser' = Written(tasks[i])
  /\ tasks' = IF tasks[i].step = LastStep(tasks[i].kind)
              THEN Without(tasks, i)
              ELSE [tasks EXCEPT ![i].step = tasks[i].step + 1]
  /\ UNCHANGED <<uploadVars, view, user, form, thread, complaints, disk, interrupted,
                 leftovers, typed, logins, failures>>

\* The texts that tasks were to make the browser forget.
Unforgotten(s) == {s[i].text : i \in {i \in 1..Len(s) : s[i].kind = "forget"}}

\* The call fails, or times out when the browser has carried it out: what the
\* task had left to do is not done.
TaskFails(i) ==
  /\ Ready(i)
  /\ failures < MaxFailures
  /\ Rare < MaxRare
  /\ failures' = failures + 1
  /\ StoreStep(tasks[i])
  /\ browser' \in {browser, Written(tasks[i])}
  /\ tasks' = Without(tasks, i)
  /\ interrupted' = interrupted \union Unforgotten(<<tasks[i]>>)
  /\ UNCHANGED <<uploadVars, view, user, form, thread, complaints, disk, leftovers, typed,
                 logins>>
-----------------------------------------------------------------------------
(* Page loads *)

\* The new page has a store of its own; the calls under way are lost.
LoadPage ==
  /\ Rare < MaxRare
  /\ NewSession
  /\ view' = "restoring"
  /\ user' = NoStudent
  /\ storeUser' = NoStudent
  /\ storeDraft' = NoDraft
  /\ tasks' = <<>>
  /\ form' = NoForm
  /\ interrupted' = interrupted \union Sending \union Unforgotten(tasks)
  /\ thread' = [t \in Threads |-> [thread[t] EXCEPT !.same = FALSE, !.page = FALSE]]
  /\ UNCHANGED <<browser, complaints, disk, leftovers, typed, logins, failures>>

Stored == browser.user # NoStudent /\ browser.role

\* restore_auth_session_async finds the account in the database.
RestoreAuth ==
  /\ view = "restoring"
  /\ Stored
  /\ user' = browser.user
  /\ storeUser' = browser.user
  /\ view' = "draft"
  /\ UNCHANGED <<uploadVars, storeDraft, browser, tasks, form, thread, complaints, disk,
                 interrupted, leftovers, typed, logins, failures>>

\* Nothing is stored, or an account that is gone, locked or deactivated and
\* therefore purged.
RestoreRejected ==
  /\ view = "restoring"
  /\ browser' = IF Stored THEN [browser EXCEPT !.user = NoStudent, !.role = FALSE]
                ELSE browser
  /\ view' = "auth"
  /\ UNCHANGED <<uploadVars, user, storeUser, storeDraft, tasks, form, thread, complaints,
                 disk, interrupted, leftovers, typed, logins, failures>>

\* The storage or the database does not answer: nothing is purged.
RestoreFails ==
  /\ view = "restoring"
  /\ failures < MaxFailures
  /\ Rare < MaxRare
  /\ failures' = failures + 1
  /\ view' = "auth"
  /\ UNCHANGED <<uploadVars, user, storeUser, storeDraft, browser, tasks, form, thread,
                 complaints, disk, interrupted, leftovers, typed, logins>>

\* restore_complaint_draft_async: another student's draft is discarded.
RestoreDraft ==
  /\ view = "draft"
  /\ view' = "portal"
  /\ IF browser.draft # NoDraft /\ browser.draft.owner = user
     THEN LET files == ValidFiles(browser.draft.files, user, disk)
          IN /\ storeDraft' = [browser.draft EXCEPT !.files = files]
             /\ RestoreSelected(files)
             /\ UNCHANGED browser
     ELSE /\ browser' = [browser EXCEPT !.draft = NoDraft]
          /\ UNCHANGED <<uploadVars, storeDraft>>
  /\ UNCHANGED <<user, storeUser, tasks, form, thread, complaints, disk, interrupted,
                 leftovers, typed, logins, failures>>

RestoreDraftFails ==
  /\ view = "draft"
  /\ failures < MaxFailures
  /\ Rare < MaxRare
  /\ failures' = failures + 1
  /\ view' = "portal"
  /\ UNCHANGED <<uploadVars, user, storeUser, storeDraft, browser, tasks, form, thread,
                 complaints, disk, interrupted, leftovers, typed, logins>>
-----------------------------------------------------------------------------
SubmissionStep(t) ==
  Register(t) \/ RegisterFails(t) \/ Attach(t) \/ Finish(t) \/ FinishForNobody(t)

SessionNext ==
  \/ \E s \in Students : Login(s)
  \/ Logout
  \/ RenderPortal
  \/ BuildForm
  \/ TypeText
  \/ Pick
  \/ Unheard
  \/ \E n \in 1..MaxFiles : UploadEvent(n)
  \/ RemoveSelected
  \/ \E t \in Threads : Submit(t) \/ SubmissionStep(t)
  \/ \E i \in 1..Len(tasks) : TaskStep(i) \/ TaskFails(i)
  \/ LoadPage
  \/ RestoreAuth
  \/ RestoreRejected
  \/ RestoreFails
  \/ RestoreDraft
  \/ RestoreDraftFails

SessionSpec == SessionInit /\ [][SessionNext]_allVars
-----------------------------------------------------------------------------
(* Properties *)

Quiet == tasks = <<>> /\ failures = 0

\* "Drafts and tabs are restored ONLY IF the owner matches": whoever shares
\* the browser and however their tasks overlap, no student finds what another
\* wrote in the form, in a draft saved as their own or in a complaint.
TextStaysWithAuthor ==
  /\ form.text.by \in {NoStudent, form.student}
  /\ storeDraft # NoDraft => storeDraft.text.by \in {NoStudent, storeDraft.owner}
  /\ browser.draft # NoDraft => browser.draft.text.by \in {NoStudent, browser.draft.owner}
  /\ \A i \in 1..Len(complaints) : complaints[i].text.by = complaints[i].student

\* A complaint carries files its student chose, or files that sign-out, which
\* does not empty _dcb_selected_files, left in the session for the next one.
AttachmentsOfAuthor ==
  \A i \in 1..Len(complaints) : \A k \in 1..Len(complaints[i].rows) :
    LET file == complaints[i].rows[k]
    IN file.student = complaints[i].student \/ file.n \in leftovers

\* Once its tasks are done, a sign-out is final: a page load does not sign the
\* student in again, whatever a task of the sign-in still had to write.
SignOutFinal ==
  view = "auth" /\ Quiet => ~Stored /\ storeUser = NoStudent

\* A text becomes two complaints only if its student was left with it after
\* sending it: the call failed, the portal or the page was rebuilt meanwhile,
\* the removal of the draft was lost, or the client reported on a file later.
SentOnce ==
  \A i, j \in 1..Len(complaints) :
    i # j /\ complaints[i].text = complaints[j].text => complaints[i].text \in interrupted

\* "Draft is cleared from storage when a complaint is successfully submitted":
\* with the exceptions of SentOnce, it does not come back from a task either.
SentDraftGone ==
  \A i \in 1..Len(complaints) :
    LET text == complaints[i].text
    IN /\ Quiet
       /\ text \notin interrupted
       /\ \A t \in Threads : thread[t].phase = "idle"
       => /\ storeDraft # NoDraft => storeDraft.text # text
          /\ browser.draft # NoDraft => browser.draft.text # text
=============================================================================
