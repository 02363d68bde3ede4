-------------------------- MODULE SpreadsheetImport --------------------------
(***************************************************************************)
(* The coordinator's choice and import of a spreadsheet                    *)
(* (ui/components/page_file_services.py, ui/components/excel_importer.py,  *)
(* ui/views/staff_view.py).                                                *)
(*                                                                         *)
(* A file is chosen in the card of the pool's tab or in a dialog, with one *)
(* picker for both.  A pick is the number of its invocation.  On the web   *)
(* the file is uploaded by the client, whose events are matched to the     *)
(* head of a queue by the file's name, and answered to the chooser of the  *)
(* latest pick: each pick replaces picker.on_upload by its own.            *)
(***************************************************************************)
EXTENDS Naturals, Sequences

CONSTANTS
  Names,     \* names of files
  NoName,
  MaxPicks   \* bound: openings of the picker

ASSUME ImportAssumption == MaxPicks \in Nat

Picks == 1..MaxPicks
NoPick == 0
Choosers == {"card", "dialog"}

VARIABLES
  importPending,  \* IMPORT_SESSION_KEY_PICKER_PENDING
  invocation,     \* IMPORT_SESSION_KEY_INVOCATION_ID, the pick of picker.on_upload too
  importQueue,    \* IMPORT_SESSION_KEY_UPLOAD_QUEUE
  importActive,   \* IMPORT_SESSION_KEY_UPLOAD_ACTIVE
  by,             \* the chooser of each pick, "gone" when it is off the screen
  name,           \* the name of each pick's file, once it is queued
  open,           \* the picks whose picker is open at the client
  sent,           \* the picks whose upload the client was told of
  chosen,         \* selected_import_info, selected_file_info: what import_btn would import
  dialog,         \* the importer's dialog: closed, open, or older than the tab
  reported,       \* ghost: the picks of which an upload was reported (nearly) over
  imported        \* ghost: how often each pick's file was imported

importVars == <<importPending, invocation, importQueue, importActive, by, name, open, sent,
                chosen, dialog, reported, imported>>

\* The number of picks that were made before.
ImportInit(before) ==
  /\ importPending = FALSE /\ invocation = before
  /\ importQueue = <<>> /\ importActive = FALSE
  /\ by = [p \in Picks |-> "gone"] /\ name = [p \in Picks |-> NoName]
  /\ open = {} /\ sent = {}
  /\ chosen = [c \in Choosers |-> NoPick]
  /\ dialog = "closed"
  /\ reported = {}
  /\ imported = [p \in Picks |-> 0]

----------------------------------------------------------------------------
\* _finish of a pick: its chooser is given the file, or nothing.
Finish(pick, file, pending) ==
  /\ importPending' = (pending /\ pick # invocation)
  /\ chosen' = IF by[pick] = "gone" THEN chosen ELSE [chosen EXCEPT ![by[pick]] = file]

\* open_spreadsheet_import_picker, when no picker is known to be open.
Choose(chooser) ==
  /\ chooser = "dialog" => dialog # "closed"
  /\ ~importPending /\ invocation < MaxPicks
  /\ importPending' = TRUE
  /\ invocation' = invocation + 1
  /\ by' = [by EXCEPT ![invocation'] = chooser]
  /\ open' = open \cup {invocation'}
  /\ UNCHANGED <<importQueue, importActive, name, sent, chosen, dialog, reported, imported>>

\* _process_import_queue on queue when no upload is active.  The call to the
\* client may raise: the file is taken off the queue, and nobody is told.
Process(queue) ==
  \E lost \in 0..Len(queue) :
    LET rest == SubSeq(queue, lost + 1, Len(queue)) IN
    /\ importQueue' = rest
    /\ importActive' = (rest # <<>>)
    /\ sent' = IF rest = <<>> THEN sent ELSE sent \cup {Head(rest)}

\* The client answers with nothing, a file of a wrong type or size, or an error.
PickedNothing(pick) ==
  /\ pick \in open
  /\ open' = open \ {pick}
  /\ IF pick # invocation THEN UNCHANGED <<importPending, chosen>>
     ELSE Finish(pick, NoPick, FALSE)
  /\ UNCHANGED <<invocation, importQueue, importActive, by, name, sent, dialog, reported,
                 imported>>

\* The file is on this machine.
PickedLocal(pick) ==
  /\ pick \in open /\ pick = invocation
  /\ open' = open \ {pick}
  /\ Finish(pick, pick, FALSE)
  /\ UNCHANGED <<invocation, importQueue, importActive, by, name, sent, dialog, reported,
                 imported>>

\* The file is at the client: from here on the picker may be opened again.
PickedWeb(pick, file) ==
  /\ pick \in open /\ pick = invocation
  /\ open' = open \ {pick}
  /\ importPending' = FALSE
  /\ name' = [name EXCEPT ![pick] = file]
  /\ IF importActive
     THEN importQueue' = Append(importQueue, pick) /\ UNCHANGED <<importActive, sent>>
     ELSE Process(Append(importQueue, pick))
  /\ UNCHANGED <<invocation, by, chosen, dialog, reported, imported>>

\* Mutant: every event is taken for the head of the queue.
MatchesAny(pick) == importQueue # <<>>

\* on_upload takes an event for the head of the queue if the names agree.
Matches(pick) == importQueue # <<>> /\ name[Head(importQueue)] = name[pick]

\* An event of the client about the upload of pick: it may come late, and more
\* than once.
UploadEvent(pick, over) ==
  /\ pick \in sent
  /\ reported' = IF over THEN reported \cup {pick} ELSE reported
  /\ IF Matches(pick)
     THEN /\ Finish(invocation, IF over THEN Head(importQueue) ELSE NoPick, importPending)
          /\ Process(Tail(importQueue))
     ELSE UNCHANGED <<importPending, chosen, importQueue, importActive, sent>>
  /\ UNCHANGED <<invocation, by, name, open, dialog, imported>>

\* do_run_import, run_import: the file is read, imported and forgotten.
Import(chooser) ==
  /\ chooser = "dialog" => dialog # "closed"
  /\ chosen[chooser] # NoPick
  /\ imported' = [imported EXCEPT ![chosen[chooser]] = @ + 1]
  /\ chosen' = [chosen EXCEPT ![chooser] = NoPick]
  /\ UNCHANGED <<importPending, invocation, importQueue, importActive, by, name, open, sent,
                 dialog, reported>>

\* The file cannot be opened, or there is no client: the button stays disabled,
\* with the file out of reach, until another is chosen.  Later failures are
\* caught by import_excel_roll_numbers.
ImportRaises(chooser) ==
  /\ chooser = "dialog" => dialog # "closed"
  /\ chosen[chooser] # NoPick
  /\ chosen' = [chosen EXCEPT ![chooser] = NoPick]
  /\ UNCHANGED <<importPending, invocation, importQueue, importActive, by, name, open, sent,
                 dialog, reported, imported>>

\* A chooser is made anew; the callbacks of earlier picks write to the old one.
Renewed(chooser) ==
  /\ by' = [p \in Picks |-> IF by[p] = chooser THEN "gone" ELSE by[p]]
  /\ chosen' = [chosen EXCEPT ![chooser] = NoPick]

CardDrawn ==
  /\ Renewed("card")
  /\ dialog' = IF dialog = "open" THEN "old" ELSE dialog
  /\ UNCHANGED <<importPending, invocation, importQueue, importActive, name, open, sent,
                 reported, imported>>

OpenDialog ==
  /\ dialog = "closed" /\ dialog' = "open"
  /\ Renewed("dialog")
  /\ UNCHANGED <<importPending, invocation, importQueue, importActive, name, open, sent,
                 reported, imported>>

CloseDialog ==
  /\ dialog # "closed" /\ dialog' = "closed"
  /\ Renewed("dialog")
  /\ UNCHANGED <<importPending, invocation, importQueue, importActive, name, open, sent,
                 reported, imported>>

ImportClicks ==
  \/ \E chooser \in Choosers : Choose(chooser) \/ ImportRaises(chooser)
  \/ OpenDialog
  \/ CloseDialog

ImportBackground ==
  \E pick \in Picks :
    \/ PickedNothing(pick)
    \/ PickedLocal(pick)
    \/ \E file \in Names : PickedWeb(pick, file)
    \/ \E over \in BOOLEAN : UploadEvent(pick, over)

----------------------------------------------------------------------------
ImportTypeOK ==
  /\ invocation \in 0..MaxPicks
  /\ \A p \in Picks : by[p] \in Choosers \cup {"gone"} /\ name[p] \in Names \cup {NoName}
  /\ open \subseteq 1..invocation /\ sent \subseteq 1..invocation
  /\ chosen \in [Choosers -> 0..MaxPicks]
  /\ dialog \in {"closed", "open", "old"}

Uploaded(pick) == name[pick] # NoName

\* A chosen file is imported once, and a file that had to be uploaded only after
\* the client reported its upload, unless another of the same name was uploaded
\* too.  A chooser holds the file it asked for, unless the picker was opened
\* again before the upload ended.  A queue that is not empty is being worked on.
ImportsSound ==
  /\ \A p \in Picks :
       /\ imported[p] <= 1
       /\ imported[p] = 1 /\ Uploaded(p) =>
            p \in reported \/ \E q \in Picks \ {p} : name[q] = name[p]
  /\ \A c \in Choosers : chosen[c] # NoPick =>
       by[chosen[c]] = c \/ chosen[c] < invocation
  /\ importActive <=> importQueue # <<>>
=============================================================================
