-------------------------- MODULE AttachmentSlots --------------------------
(***************************************************************************)
(* What the attachment step of the complaint form promises: two slots, of  *)
(* which one may be waiting for its file.  A file enters only while a slot *)
(* is free, one file at a time, and a slot that waits is filled with the   *)
(* file it waits for or becomes free again.  Pickers, queues and events    *)
(* are left to AttachmentUploads, which implements this specification.     *)
(***************************************************************************)
EXTENDS Naturals, Sequences

CONSTANTS
  Files,
  NoFile,  \* nothing is under way
  Slots    \* how many files a complaint takes

VARIABLES
  attached,  \* the files of the form
  arriving,  \* the file a slot waits for
  session    \* how often the page was loaded

slotVars == <<attached, arriving, session>>

Free == arriving = NoFile /\ Len(attached) < Slots

Without(s, k) == SubSeq(s, 1, k - 1) \o SubSeq(s, k + 1, Len(s))

SlotsInit == attached = <<>> /\ arriving = NoFile /\ session = 0

\* A file of this device is there at once.
Attach == /\ Free
          /\ UNCHANGED <<arriving, session>>
          /\ attached' # attached
          /\ \E f \in Files : attached' = Append(attached, f)

Expect == Free /\ arriving' \in Files /\ UNCHANGED <<attached, session>>

Arrive == /\ arriving # NoFile
          /\ attached' = Append(attached, arriving)
          /\ arriving' = NoFile
          /\ UNCHANGED session

GiveUp == arriving # NoFile /\ arriving' = NoFile /\ UNCHANGED <<attached, session>>

Remove(k) == attached' = Without(attached, k) /\ UNCHANGED <<arriving, session>>

\* The complaint was sent.
Clear == attached' = <<>> /\ UNCHANGED <<arriving, session>>

Reload == attached' = <<>> /\ arriving' = NoFile /\ session' = session + 1

\* The files of a draft, found when the page was loaded.
Restore == /\ Free
           /\ attached = <<>>
           /\ attached' \in Seq(Files)
           /\ Len(attached') <= Slots
           /\ UNCHANGED <<arriving, session>>

SlotsNext ==
  \/ Attach
  \/ Expect
  \/ Arrive
  \/ GiveUp
  \/ \E k \in 1..Len(attached) : Remove(k)
  \/ Clear
  \/ Reload
  \/ Restore

SlotsSpec == SlotsInit /\ [][SlotsNext]_slotVars
=============================================================================
