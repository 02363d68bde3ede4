------------------------- MODULE AttachmentUploads -------------------------
(***************************************************************************)
(* The attachments of the complaint form: ui/components/                   *)
(* page_file_services.py, whose state is kept in the session store so that *)
(* it outlives the form when a phone drops its connection to show the      *)
(* file dialog.                                                            *)
(*                                                                         *)
(* One picker, one queue.  The picker's answer is awaited, and may come    *)
(* after the dialog was given up (PICKER_STALE_SECONDS) and opened again;  *)
(* an invocation number tells the answers apart.  A file of the browser is *)
(* uploaded to a temporary path: the client reports its progress in events *)
(* that carry a file name and nothing else, which the handler compares to  *)
(* the head of the queue.  Every handler runs to its end on the event      *)
(* loop, so a handler is a step.                                           *)
(*                                                                         *)
(* External: the client's dialog, its transfers and their events.  A       *)
(* transfer reports its end once, or twice (the last progress and the end) *)
(* with an error at the second time, or never, as when the coroutine       *)
(* handed to run_task fails: nobody awaits it.                             *)
(***************************************************************************)
EXTENDS Naturals, Sequences, FiniteSets

CONSTANTS
  Students,
  NoStudent,
  Names,        \* names of files
  NoFile,
  MaxFiles,     \* bound: files picked
  MaxOpened,    \* bound: dialogs opened in a session
  MaxSessions   \* bound: page loads after the first

\* A file: temp files are in the temporary directory of `student`.
File == [n: 1..MaxFiles, name: Names, student: Students \union {NoStudent}, temp: BOOLEAN]

ASSUME UploadsAssumption ==
  /\ NoStudent \notin Students
  /\ NoFile \notin File
  /\ MaxFiles \in Nat
  /\ MaxOpened \in Nat
  /\ MaxSessions \in Nat

VARIABLES
  session,     \* page loads so far: a session store each
  selected,    \* _dcb_selected_files
  pending,     \* _dcb_picker_pending
  stale,       \* _dcb_picker_opened_at is PICKER_STALE_SECONDS ago
  invocation,  \* _dcb_picker_invocation_id
  launched,    \* invocations whose _launch awaits pick_files
  queue,       \* _dcb_upload_queue
  active,      \* _dcb_upload_active
  hookStudent, \* the student_id of _dcb_attachment_hooks
  picked,      \* files picked so far: the uuid of the next path
  transfer     \* transfer[n]: what the client does with the n-th file

uploadVars == <<session, selected, pending, stale, invocation, launched, queue, active,
                hookStudent, picked, transfer>>

TransferState == {"none", "running", "reported", "over", "silent"}

Transfer == [name: Names \union {NoFile}, state: TransferState]

MaxAttachments == 2

NoTransfer == [name |-> NoFile, state |-> "none"]

UploadsTypeOK ==
  /\ session \in Nat
  /\ selected \in Seq(File)
  /\ pending \in BOOLEAN
  /\ stale \in BOOLEAN
  /\ invocation \in Nat
  /\ launched \subseteq Nat
  /\ queue \in Seq(File)
  /\ active \in BOOLEAN
  /\ hookStudent \in Students \union {NoStudent}
  /\ picked \in 0..MaxFiles
  /\ transfer \in [1..MaxFiles -> Transfer]

UploadsInit ==
  /\ session = 0
  /\ selected = <<>>
  /\ pending = FALSE
  /\ stale = FALSE
  /\ invocation = 0
  /\ launched = {}
  /\ queue = <<>>
  /\ active = FALSE
  /\ hookStudent = NoStudent
  /\ picked = 0
  /\ transfer = [n \in 1..MaxFiles |-> NoTransfer]
-----------------------------------------------------------------------------
(* The picker *)

\* The dialog was abandoned: the flag goes, unless a file is being transferred.
Abandoned == pending /\ stale /\ ~active

PendingKnown == pending /\ ~Abandoned

ClearStalePickerPending ==
  /\ pending' = PendingKnown
  /\ stale' = (stale /\ PendingKnown)

PickerBecomesStale ==
  /\ pending
  /\ ~stale
  /\ stale' = TRUE
  /\ UNCHANGED <<session, selected, pending, invocation, launched, queue, active,
                 hookStudent, picked, transfer>>

\* Mutant: the hooks of the first form stay.
RegisterHooksOnce(s) ==
  /\ hookStudent' = IF hookStudent = NoStudent THEN s ELSE hookStudent
  /\ ClearStalePickerPending
  /\ UNCHANGED <<session, selected, invocation, launched, queue, active, picked, transfer>>

\* The form is built: its hooks replace those of the form before it.
RegisterHooks(s) ==
  /\ hookStudent' = s
  /\ ClearStalePickerPending
  /\ UNCHANGED <<session, selected, invocation, launched, queue, active, picked, transfer>>

\* The portal is built; the form is not.
BuildPortal ==
  /\ ClearStalePickerPending
  /\ UNCHANGED <<session, selected, invocation, launched, queue, active, hookStudent,
                 picked, transfer>>

\* Mutant: an upload under way does not keep the picker closed.
BusyPickingOnly == pending

Busy == active \/ queue # <<>>

\* on_pick_attachment of the form returns early while the flag is set, so the
\* button does not forget an abandoned dialog; building a form does.
OpenPicker(launches) ==
  /\ hookStudent # NoStudent
  /\ ~pending
  /\ Len(selected) < MaxAttachments
  /\ ~Busy
  /\ invocation < MaxOpened
  /\ invocation' = invocation + 1
  /\ pending' = launches
  /\ stale' = FALSE
  /\ launched' = IF launches THEN launched \union {invocation + 1} ELSE launched
  /\ UNCHANGED <<session, selected, queue, active, hookStudent, picked, transfer>>

\* pick_files answers invocation i; a newer one leaves the answer unread.
Answer(i) ==
  /\ i \in launched
  /\ launched' = launched \ {i}

PickSuperseded(i) ==
  /\ i # invocation
  /\ Answer(i)
  /\ UNCHANGED <<session, selected, pending, stale, invocation, queue, active, hookStudent,
                 picked, transfer>>

PickAnswered(i) ==
  /\ i = invocation
  /\ Answer(i)
  /\ pending' = FALSE
  /\ stale' = FALSE
  /\ UNCHANGED <<session, invocation, hookStudent>>

\* Nothing chosen, a file that validate_attachment rejects, no slot left, no
\* upload URL, or an exception.
PickNothing(i) ==
  /\ PickAnswered(i)
  /\ UNCHANGED <<selected, queue, active, picked, transfer>>

\* Mutant: the number of the file before is taken again.
PickedAgain(name, temp) == [n |-> picked, name |-> name, student |-> hookStudent, temp |-> temp]

Picked(name, temp) == [n |-> picked + 1, name |-> name, student |-> hookStudent, temp |-> temp]

\* A file of the machine the program runs on is taken as it is.
PickLocal(i, name) ==
  /\ PickAnswered(i)
  /\ Len(selected) < MaxAttachments
  /\ picked < MaxFiles
  /\ picked' = picked + 1
  /\ selected' = Append(selected, Picked(name, FALSE))
  /\ UNCHANGED <<queue, active, transfer>>
-----------------------------------------------------------------------------
(* The queue *)

\* Heads whose upload cannot be started are dropped; k of them here.
Started(q, k) ==
  /\ queue' = SubSeq(q, k + 1, Len(q))
  /\ active' = (k < Len(q))
  /\ transfer' = IF k < Len(q)
                 THEN [transfer EXCEPT ![q[k + 1].n] = [name |-> q[k + 1].name,
                                                        state |-> "running"]]
                 ELSE transfer

ProcessUploadQueue(q) == \E k \in 0..Len(q) : Started(q, k)

QueueComplaintUpload(file) ==
  IF active THEN queue' = Append(queue, file) /\ UNCHANGED <<active, transfer>>
            ELSE ProcessUploadQueue(Append(queue, file))

PickUpload(i, name) ==
  /\ PickAnswered(i)
  /\ Len(selected) < MaxAttachments
  /\ picked < MaxFiles
  /\ picked' = picked + 1
  /\ QueueComplaintUpload(Picked(name, TRUE))
  /\ UNCHANGED selected

\* Events are told apart by the name of the file only.
Reports(n, final) ==
  /\ transfer[n].state \in {"running", "reported"}
  /\ final => transfer[n].state = "running"

\* Mutant: a queue of one expects nothing.
ExpectedOfMany(n) == Len(queue) > 1 /\ Head(queue).name = transfer[n].name

Expected(n) == queue # <<>> /\ Head(queue).name = transfer[n].name

Reported(t, n, final) ==
  [t EXCEPT ![n].state = IF final THEN "reported" ELSE "over"]

\* _on_complaint_upload_progress when no upload is waited for.
EventForNobody(n, final) ==
  /\ Reports(n, final)
  /\ ~Expected(n)
  /\ active' = (active /\ queue # <<>>)
  /\ transfer' = Reported(transfer, n, final)
  /\ UNCHANGED <<session, selected, pending, stale, invocation, launched, queue, hookStudent,
                 picked>>

\* The head leaves the queue and the next upload starts.
Advance(n, final) ==
  \E k \in 0..(Len(queue) - 1) :
    LET rest == SubSeq(queue, k + 2, Len(queue)) IN
    /\ queue' = rest
    /\ active' = (rest # <<>>)
    /\ transfer' = IF rest = <<>> THEN Reported(transfer, n, final)
                   ELSE [Reported(transfer, n, final) EXCEPT
                           ![Head(rest).n] = [name |-> Head(rest).name, state |-> "running"]]

UploadFinished(n, final) ==
  /\ Reports(n, final)
  /\ Expected(n)
  /\ selected' = Append(selected, Head(queue))
  /\ Advance(n, final)
  /\ UNCHANGED <<session, pending, stale, invocation, launched, hookStudent, picked>>

UploadFailed(n) ==
  /\ Reports(n, FALSE)
  /\ Expected(n)
  /\ Advance(n, FALSE)
  /\ UNCHANGED <<session, selected, pending, stale, invocation, launched, hookStudent, picked>>

TransferFallsSilent(n) ==
  /\ transfer[n].state = "running"
  /\ transfer' = [transfer EXCEPT ![n].state = "silent"]
  /\ UNCHANGED <<session, selected, pending, stale, invocation, launched, queue, active,
                 hookStudent, picked>>
-----------------------------------------------------------------------------
(* The form *)

Without(s, k) == SubSeq(s, 1, k - 1) \o SubSeq(s, k + 1, Len(s))

RemoveFile(k) ==
  /\ selected' = Without(selected, k)
  /\ UNCHANGED <<session, pending, stale, invocation, launched, queue, active, hookStudent,
                 picked, transfer>>

\* The complaint is registered.
ClearSelected ==
  /\ selected' = <<>>
  /\ UNCHANGED <<session, pending, stale, invocation, launched, queue, active, hookStudent,
                 picked, transfer>>

\* Another page load: a new store, and nobody hears the transfers of the old.
NewSession ==
  /\ session < MaxSessions
  /\ session' = session + 1
  /\ selected' = <<>>
  /\ pending' = FALSE
  /\ stale' = FALSE
  /\ invocation' = 0
  /\ launched' = {}
  /\ queue' = <<>>
  /\ active' = FALSE
  /\ hookStudent' = NoStudent
  /\ transfer' = [n \in 1..MaxFiles |-> NoTransfer]
  /\ UNCHANGED picked

\* The files of a restored draft, before any form of this session is built.
RestoreSelected(s) ==
  /\ hookStudent = NoStudent
  /\ selected = <<>>
  /\ Len(s) <= MaxAttachments
  /\ selected' = s
  /\ UNCHANGED <<session, pending, stale, invocation, launched, queue, active, hookStudent,
                 picked, transfer>>
-----------------------------------------------------------------------------
PickerStep ==
  \/ PickerBecomesStale
  \/ BuildPortal
  \/ \E s \in Students : RegisterHooks(s)
  \/ \E launches \in BOOLEAN : OpenPicker(launches)
  \/ \E i \in launched : PickSuperseded(i) \/ PickNothing(i)
  \/ \E i \in launched, name \in Names : PickLocal(i, name) \/ PickUpload(i, name)

ClientStep ==
  \E n \in 1..MaxFiles :
    \/ \E final \in BOOLEAN : EventForNobody(n, final) \/ UploadFinished(n, final)
    \/ UploadFailed(n)
    \/ TransferFallsSilent(n)

FormStep ==
  \/ \E k \in 1..Len(selected) : RemoveFile(k)
  \/ ClearSelected
  \/ NewSession
  \/ selected' \in Seq(File) /\ RestoreSelected(selected')

UploadsNext == PickerStep \/ ClientStep \/ FormStep

UploadsSpec == UploadsInit /\ [][UploadsNext]_uploadVars

\* No upload blocks the next: the file a slot waits for is one that the client
\* will still report on, unless it has fallen silent.
QueueServed ==
  queue # <<>> => transfer[Head(queue).n].state \in {"running", "silent"}

\* The promise of AttachmentSlots, which this module keeps.
Slots == INSTANCE AttachmentSlots
           WITH Files <- File, Slots <- MaxAttachments, attached <- selected,
                arriving <- IF queue = <<>> THEN NoFile ELSE Head(queue)

\* The form never takes more than two files, nor one while another is coming.
SlotsKept == Slots!SlotsSpec
=============================================================================
