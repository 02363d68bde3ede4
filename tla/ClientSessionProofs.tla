------------------------- MODULE ClientSessionProofs -------------------------
(***************************************************************************)
(* The browser's session, for any number of students, files, dialogs, page *)
(* loads, submissions and calls to the browser's storage: the attachment   *)
(* step keeps the promise of AttachmentSlots, first by itself and then in  *)
(* the session, and every safety property of ClientSession holds.          *)
(***************************************************************************)
EXTENDS ClientSession, SequenceTheorems, TLAPS

\* The newest dialog is answered once, with nothing in the queue.
DialogInv ==
  /\ launched \subseteq 1..invocation
  /\ hookStudent = NoStudent => queue = <<>> /\ launched = {}
  /\ invocation \in launched => queue = <<>>

\* The queue holds one file at most, which the client transfers, and there is a
\* slot for it.
QueueInv ==
  /\ active <=> queue # <<>>
  /\ Len(queue) <= 1
  /\ Len(selected) + Len(queue) <= MaxAttachments
  /\ queue # <<>> => /\ transfer[Head(queue).n].state \in {"running", "silent"}
                     /\ transfer[Head(queue).n].name = Head(queue).name

UploadsInv == UploadsTypeOK /\ DialogInv /\ QueueInv

-----------------------------------------------------------------------------
(* Sequences of at most one element, and one element less.                 *)

LEMMA OneElement ==
  ASSUME NEW S, NEW s \in Seq(S), Len(s) <= 1, s # <<>>
  PROVE  /\ Len(s) = 1 /\ Head(s) \in S
         /\ \A k \in 0..(Len(s) - 1) : SubSeq(s, k + 2, Len(s)) = <<>>
<1>1. Len(s) = 1
  <2>1. Len(s) \in Nat \ {0}
    BY EmptySeq, Zenon
  <2>. QED BY <2>1
<1>2. Head(s) \in S
  BY <1>1
<1>3. SubSeq(s, 2, 1) = <<>>
  <2>1. 2 \in Int /\ 1 \in Int /\ 1 < 2
    OBVIOUS
  <2>. QED BY <2>1, SubSeqEmpty, Zenon
<1>. QED BY <1>1, <1>2, <1>3

LEMMA WithoutType ==
  ASSUME NEW S, NEW s \in Seq(S), NEW k \in 1..Len(s)
  PROVE  Without(s, k) \in Seq(S) /\ Len(Without(s, k)) = Len(s) - 1
<1>1. /\ SubSeq(s, 1, k - 1) \in Seq(S) /\ Len(SubSeq(s, 1, k - 1)) = k - 1
      /\ SubSeq(s, k + 1, Len(s)) \in Seq(S) /\ Len(SubSeq(s, k + 1, Len(s))) = Len(s) - k
  <2>1. /\ k - 1 \in Int /\ k + 1 \in Int /\ Len(s) \in Int
        /\ \A i \in 1..(k - 1) : s[i] \in S
        /\ \A i \in (k + 1)..Len(s) : s[i] \in S
    OBVIOUS
  <2>. QED BY <2>1, SubSeqProperties
<1>. DEFINE t == SubSeq(s, 1, k - 1)
            u == SubSeq(s, k + 1, Len(s))
<1>2. Without(s, k) = t \o u
  BY DEF Without
<1>3. k \in Int /\ Len(s) \in Int
  OBVIOUS
<1>4. t \in Seq(S) /\ u \in Seq(S) /\ Len(t) = k - 1 /\ Len(u) = Len(s) - k
  BY <1>1, Zenon
<1>. HIDE DEF t, u
<1>5. Len(t) + Len(u) = Len(s) - 1
  BY <1>3, <1>4
<1>. QED BY <1>2, <1>4, <1>5, ConcatProperties
-----------------------------------------------------------------------------
(* The steps.                                                              *)

Waiting == IF queue = <<>> THEN NoFile ELSE Head(queue)

LEMMA Free ==
  ASSUME UploadsInv, queue = <<>>, Len(selected) < MaxAttachments
  PROVE  Slots!Free
  BY DEF Slots!Free

\* A step of the picker that the form cannot see.
LEMMA UnseenStep ==
  ASSUME UploadsInv, UploadsTypeOK', DialogInv',
         UNCHANGED <<selected, queue, active, transfer, session>>
  PROVE  UploadsInv' /\ UNCHANGED Slots!slotVars
<1>1. UNCHANGED Slots!slotVars
  BY DEF Slots!slotVars
<1>2. QueueInv'
  BY DEF UploadsInv, QueueInv
<1>. QED BY <1>1, <1>2 DEF UploadsInv

LEMMA PickerKeeps ==
  ASSUME UploadsInv,
         \/ PickerBecomesStale
         \/ BuildPortal
         \/ \E s \in Students : RegisterHooks(s)
         \/ \E launches \in BOOLEAN : OpenPicker(launches)
         \/ \E i \in launched : PickSuperseded(i) \/ PickNothing(i)
  PROVE  UploadsInv' /\ UNCHANGED Slots!slotVars
<1>1. UploadsTypeOK /\ DialogInv
  BY DEF UploadsInv
<1>2. CASE PickerBecomesStale \/ BuildPortal
  <2>1. UploadsTypeOK'
    BY <1>1, <1>2 DEF PickerBecomesStale, BuildPortal, ClearStalePickerPending, PendingKnown,
                      Abandoned, UploadsTypeOK
  <2>2. DialogInv' /\ UNCHANGED <<selected, queue, active, transfer, session>>
    BY <1>1, <1>2 DEF PickerBecomesStale, BuildPortal, DialogInv
  <2>. QED BY <2>1, <2>2, UnseenStep
<1>3. ASSUME NEW s \in Students, RegisterHooks(s)
      PROVE  UploadsInv' /\ UNCHANGED Slots!slotVars
  <2>1. UploadsTypeOK'
    BY <1>1, <1>3 DEF RegisterHooks, ClearStalePickerPending, PendingKnown, Abandoned,
                      UploadsTypeOK
  <2>2. DialogInv' /\ UNCHANGED <<selected, queue, active, transfer, session>>
    BY <1>1, <1>3, UploadsAssumption DEF RegisterHooks, DialogInv
  <2>. QED BY <2>1, <2>2, UnseenStep
<1>4. ASSUME NEW launches \in BOOLEAN, OpenPicker(launches)
      PROVE  UploadsInv' /\ UNCHANGED Slots!slotVars
  <2>1. /\ invocation' = invocation + 1 /\ invocation \in Nat /\ queue = <<>>
        /\ launched' \subseteq launched \union {invocation + 1}
        /\ pending' \in BOOLEAN /\ stale' = FALSE /\ hookStudent # NoStudent
        /\ UNCHANGED <<session, selected, queue, active, hookStudent, picked, transfer>>
    BY <1>1, <1>4 DEF OpenPicker, Busy, UploadsTypeOK
  <2>2. launched' \subseteq 1..invocation' /\ launched' \subseteq Nat
    <3>1. \A i \in launched' : i \in 1..(invocation + 1)
      BY <1>1, <2>1 DEF DialogInv
    <3>. QED BY <2>1, <3>1
  <2>3. UploadsTypeOK'
    <3>1. invocation' \in Nat
      BY <2>1
    <3>. QED BY <1>1, <2>1, <2>2, <3>1 DEF UploadsTypeOK
  <2>4. DialogInv'
    BY <2>1, <2>2 DEF DialogInv
  <2>. QED BY <2>1, <2>3, <2>4, UnseenStep
<1>5. ASSUME NEW i \in launched, PickSuperseded(i) \/ PickNothing(i)
      PROVE  UploadsInv' /\ UNCHANGED Slots!slotVars
  <2>1. /\ launched' = launched \ {i} /\ pending' \in BOOLEAN /\ stale' \in BOOLEAN
        /\ UNCHANGED <<session, selected, invocation, queue, active, hookStudent, picked,
                       transfer>>
    BY <1>1, <1>5 DEF PickSuperseded, PickNothing, PickAnswered, Answer, UploadsTypeOK
  <2>2. UploadsTypeOK'
    BY <1>1, <2>1 DEF UploadsTypeOK
  <2>3. DialogInv'
    BY <1>1, <2>1 DEF DialogInv
  <2>. QED BY <2>1, <2>2, <2>3, UnseenStep
<1>. QED BY <1>2, <1>3, <1>4, <1>5

LEMMA PickedType ==
  ASSUME UploadsTypeOK, picked < MaxFiles, NEW name \in Names, NEW temp \in BOOLEAN
  PROVE  /\ Picked(name, temp) \in File
         /\ Picked(name, temp).n \in 1..MaxFiles
         /\ Picked(name, temp).name \in Names
         /\ picked + 1 \in 0..MaxFiles
<1>1. picked \in 0..MaxFiles /\ MaxFiles \in Nat /\ hookStudent \in Students \union {NoStudent}
  BY UploadsAssumption DEF UploadsTypeOK
<1>2. picked + 1 \in 1..MaxFiles /\ picked + 1 \in 0..MaxFiles
  BY <1>1
<1>. QED BY <1>1, <1>2 DEF Picked, File

LEMMA OneAppended ==
  ASSUME NEW S, NEW f \in S, NEW q, q = Append(<<>>, f)
  PROVE  /\ q \in Seq(S) /\ Len(q) = 1 /\ q[1] = f /\ Head(q) = f /\ q # <<>>
         /\ SubSeq(q, 1, 1) = q /\ SubSeq(q, 2, 1) = <<>>
<1>1. <<>> \in Seq(S) /\ Len(<<>>) = 0
  OBVIOUS
<1>2. q \in Seq(S) /\ Len(q) = 1 /\ q[1] = f
  BY <1>1, AppendProperties
<1>3. Head(q) = f /\ q # <<>>
  BY <1>1, <1>2
<1>4. SubSeq(q, 1, 1) = q
  <2>1. SubSeq(q, 1, Len(q)) = q
    BY <1>2, SubSeqFull, Zenon
  <2>. QED BY <1>2, <2>1
<1>5. SubSeq(q, 2, 1) = <<>>
  <2>1. 2 \in Int /\ 1 \in Int /\ 1 < 2
    OBVIOUS
  <2>. QED BY <2>1, SubSeqEmpty, Zenon
<1>. QED BY <1>2, <1>3, <1>4, <1>5, Zenon

LEMMA PickLocalKeeps ==
  ASSUME UploadsInv, NEW i \in launched, NEW name \in Names, PickLocal(i, name)
  PROVE  UploadsInv' /\ Slots!Attach
<1>. DEFINE f == Picked(name, FALSE)
<1>1. /\ UploadsTypeOK /\ DialogInv /\ QueueInv
      /\ Len(selected) < MaxAttachments /\ i = invocation
      /\ selected' = Append(selected, f)
      /\ launched' = launched \ {i}
      /\ pending' = FALSE /\ stale' = FALSE
      /\ picked' = picked + 1 /\ picked < MaxFiles
      /\ UNCHANGED <<session, invocation, hookStudent, queue, active, transfer>>
  BY DEF PickLocal, PickAnswered, Answer, UploadsInv
<1>2. queue = <<>>
  BY <1>1 DEF DialogInv
<1>3. f \in File /\ picked' \in 0..MaxFiles
  BY <1>1, PickedType
<1>. HIDE DEF f
<1>4. selected \in Seq(File) /\ Len(selected) \in Nat
  BY <1>1 DEF UploadsTypeOK
<1>5. selected' \in Seq(File) /\ Len(selected') = Len(selected) + 1
  BY <1>1, <1>3, <1>4
<1>6. UploadsTypeOK'
  <2>1. launched' \subseteq Nat
    BY <1>1 DEF UploadsTypeOK
  <2>. QED BY <1>1, <1>3, <1>5, <2>1, Zenon DEF UploadsTypeOK
<1>7. DialogInv'
  BY <1>1 DEF DialogInv
<1>8. QueueInv'
  <2>1. Len(queue) = 0
    BY <1>2
  <2>. QED BY <1>1, <1>2, <1>4, <1>5, <2>1 DEF QueueInv, MaxAttachments
<1>9. Slots!Attach
  <2>1. selected' # selected
    BY <1>4, <1>5
  <2>2. Slots!Free
    BY <1>1, <1>2, Free
  <2>. QED BY <1>1, <1>2, <1>3, <2>1, <2>2 DEF Slots!Attach
<1>. QED BY <1>6, <1>7, <1>8, <1>9 DEF UploadsInv

LEMMA PickUploadKeeps ==
  ASSUME UploadsInv, NEW i \in launched, NEW name \in Names, PickUpload(i, name)
  PROVE  UploadsInv' /\ (Slots!Expect \/ UNCHANGED Slots!slotVars)
<1>. DEFINE f == Picked(name, TRUE)
            q == Append(<<>>, f)
            run == [name |-> f.name, state |-> "running"]
<1>1. /\ UploadsTypeOK /\ DialogInv /\ QueueInv
      /\ Len(selected) < MaxAttachments /\ i = invocation
      /\ launched' = launched \ {i}
      /\ pending' = FALSE /\ stale' = FALSE
      /\ picked' = picked + 1 /\ picked < MaxFiles
      /\ QueueComplaintUpload(f)
      /\ UNCHANGED <<session, invocation, hookStudent, selected>>
  BY DEF PickUpload, PickAnswered, Answer, UploadsInv
<1>2. queue = <<>> /\ ~active
  BY <1>1 DEF DialogInv, QueueInv
<1>3. f \in File /\ f.n \in 1..MaxFiles /\ f.name \in Names /\ picked' \in 0..MaxFiles
  BY <1>1, PickedType
<1>4. PICK k \in 0..Len(q) : Started(q, k)
  BY <1>1, <1>2 DEF QueueComplaintUpload, ProcessUploadQueue
<1>5. run \in Transfer /\ run.state = "running" /\ run.name = f.name
  BY <1>3 DEF Transfer, TransferState
<1>6. /\ q \in Seq(File) /\ Len(q) = 1 /\ q[1] = f /\ Head(q) = f /\ q # <<>>
      /\ SubSeq(q, 1, 1) = q /\ SubSeq(q, 2, 1) = <<>>
  BY <1>3, OneAppended
<1>. HIDE DEF f, q
<1>7. \/ queue' = q /\ active' = TRUE /\ transfer' = [transfer EXCEPT ![f.n] = run]
      \/ queue' = <<>> /\ active' = FALSE /\ transfer' = transfer
  <2>1. k = 0 \/ k = 1
    BY <1>4, <1>6
  <2>2. CASE k = 0
    <3>1. k + 1 = 1 /\ (k < Len(q)) = TRUE
      BY <1>6, <2>2
    <3>2. /\ queue' = SubSeq(q, 1, 1) /\ active' = TRUE
          /\ transfer' = [transfer EXCEPT ![q[1].n] = [name |-> q[1].name, state |-> "running"]]
      BY <1>4, <1>6, <3>1 DEF Started
    <3>. QED BY <1>6, <3>2
  <2>3. CASE k = 1
    <3>1. k + 1 = 2 /\ (k < Len(q)) = FALSE
      BY <1>6, <2>3
    <3>2. queue' = SubSeq(q, 2, 1) /\ active' = FALSE /\ transfer' = transfer
      BY <1>4, <1>6, <3>1 DEF Started
    <3>. QED BY <1>6, <3>2
  <2>. QED BY <2>1, <2>2, <2>3
<1>. HIDE DEF run
<1>8. UploadsTypeOK'
  <2>1. transfer \in [1..MaxFiles -> Transfer]
    BY <1>1 DEF UploadsTypeOK
  <2>2. transfer' \in [1..MaxFiles -> Transfer]
    BY <1>3, <1>5, <1>7, <2>1
  <2>3. queue' \in Seq(File) /\ active' \in BOOLEAN
    BY <1>6, <1>7, EmptySeq
  <2>4. launched' \subseteq Nat
    BY <1>1 DEF UploadsTypeOK
  <2>. QED BY <1>1, <1>3, <2>2, <2>3, <2>4, Zenon DEF UploadsTypeOK
<1>9. DialogInv'
  BY <1>1 DEF DialogInv
<1>10. Len(selected) \in Nat /\ transfer \in [1..MaxFiles -> Transfer] /\ Len(<<>>) = 0
  BY <1>1 DEF UploadsTypeOK
<1>11. CASE queue' = q /\ active' = TRUE /\ transfer' = [transfer EXCEPT ![f.n] = run]
  <2>1. transfer'[f.n] = run
    BY <1>3, <1>10, <1>11
  <2>2. Len(selected') + Len(queue') <= MaxAttachments /\ Len(queue') <= 1
    <3>1. selected' = selected /\ Len(queue') = 1
      BY <1>1, <1>6, <1>11
    <3>2. Len(selected) + 1 <= 2
      BY <1>1, <1>10 DEF MaxAttachments
    <3>. QED BY <3>1, <3>2 DEF MaxAttachments
  <2>3. QueueInv'
    BY <1>5, <1>6, <1>11, <2>1, <2>2, Zenon DEF QueueInv
  <2>4. Slots!Free
    BY <1>1, <1>2, Free
  <2>5. Slots!Expect
    BY <1>1, <1>3, <1>6, <1>11, <2>4 DEF Slots!Expect
  <2>. QED BY <1>8, <1>9, <2>3, <2>5 DEF UploadsInv
<1>12. CASE queue' = <<>> /\ active' = FALSE /\ transfer' = transfer
  <2>1. QueueInv'
    BY <1>1, <1>10, <1>12 DEF QueueInv, MaxAttachments
  <2>2. UNCHANGED Slots!slotVars
    BY <1>1, <1>2, <1>12 DEF Slots!slotVars
  <2>. QED BY <1>8, <1>9, <2>1, <2>2 DEF UploadsInv
<1>. QED BY <1>7, <1>11, <1>12, Zenon

LEMMA ReportedType ==
  ASSUME NEW t \in [1..MaxFiles -> Transfer], NEW n \in 1..MaxFiles, NEW w \in TransferState,
         NEW u, u = [t EXCEPT ![n].state = w]
  PROVE  /\ u \in [1..MaxFiles -> Transfer]
         /\ \A m \in 1..MaxFiles : u[m].name = t[m].name
         /\ \A m \in 1..MaxFiles : m # n => u[m] = t[m]
         /\ u[n].state = w
<1>. DEFINE r == [t[n] EXCEPT !.state = w]
<1>1. r \in Transfer /\ r.name = t[n].name /\ r.state = w
  BY DEF Transfer
<1>2. u = [t EXCEPT ![n] = r]
  OBVIOUS
<1>. HIDE DEF r
<1>3. /\ u \in [1..MaxFiles -> Transfer]
      /\ u[n] = r
      /\ \A m \in 1..MaxFiles : m # n => u[m] = t[m]
  BY <1>1, <1>2
<1>4. \A m \in 1..MaxFiles : u[m].name = t[m].name
  BY <1>1, <1>3
<1>. QED BY <1>1, <1>3, <1>4

LEMMA AdvanceEnds ==
  ASSUME UploadsInv, NEW n \in 1..MaxFiles, NEW final \in BOOLEAN, queue # <<>>,
         Advance(n, final), UNCHANGED <<session, pending, stale, invocation, launched,
                                        hookStudent, picked>>,
         selected' \in Seq(File), Len(selected') <= Len(selected) + 1
  PROVE  UploadsInv' /\ queue' = <<>> /\ Head(queue) \in File
<1>1. UploadsTypeOK /\ DialogInv /\ QueueInv
  BY DEF UploadsInv
<1>2. queue \in Seq(File) /\ Len(queue) <= 1 /\ transfer \in [1..MaxFiles -> Transfer]
  BY <1>1 DEF UploadsTypeOK, QueueInv
<1>3. /\ Len(queue) = 1 /\ Head(queue) \in File
      /\ \A k \in 0..(Len(queue) - 1) : SubSeq(queue, k + 2, Len(queue)) = <<>>
  BY <1>2, OneElement
<1>4. queue' = <<>> /\ active' = FALSE /\ transfer' = Reported(transfer, n, final)
  BY <1>3, Zenon DEF Advance
<1>5. transfer' \in [1..MaxFiles -> Transfer]
  <2>1. transfer' = [transfer EXCEPT ![n].state = IF final THEN "reported" ELSE "over"]
    BY <1>4 DEF Reported
  <2>2. (IF final THEN "reported" ELSE "over") \in TransferState
    BY DEF TransferState
  <2>. QED BY <1>2, <2>1, <2>2, ReportedType
<1>6. UploadsTypeOK'
  <2>1. queue' \in Seq(File) /\ active' \in BOOLEAN
    BY <1>4, EmptySeq
  <2>. QED BY <1>1, <1>5, <2>1, Zenon DEF UploadsTypeOK
<1>7. DialogInv'
  BY <1>1, <1>4 DEF DialogInv
<1>8. QueueInv'
  <2>1. Len(selected) \in Nat /\ Len(selected') \in Nat /\ Len(queue') = 0
    BY <1>1, <1>4 DEF UploadsTypeOK
  <2>2. Len(selected) + 1 <= MaxAttachments
    BY <1>1, <1>3, <2>1 DEF QueueInv
  <2>. QED BY <1>4, <2>1, <2>2 DEF QueueInv, MaxAttachments
<1>. QED BY <1>3, <1>4, <1>6, <1>7, <1>8 DEF UploadsInv

LEMMA FinishedKeeps ==
  ASSUME UploadsInv, NEW n \in 1..MaxFiles, NEW final \in BOOLEAN, UploadFinished(n, final)
  PROVE  UploadsInv' /\ Slots!Arrive
<1>1. /\ queue # <<>> /\ selected' = Append(selected, Head(queue)) /\ Advance(n, final)
      /\ UNCHANGED <<session, pending, stale, invocation, launched, hookStudent, picked>>
  BY DEF UploadFinished, Expected
<1>2. selected \in Seq(File) /\ queue \in Seq(File)
  BY DEF UploadsInv, UploadsTypeOK
<1>3. Head(queue) \in File
  BY <1>1, <1>2, HeadTailProperties
<1>4. selected' \in Seq(File) /\ Len(selected') = Len(selected) + 1 /\ Len(selected) \in Nat
  BY <1>1, <1>2, <1>3
<1>5. UploadsInv' /\ queue' = <<>>
  BY <1>1, <1>4, AdvanceEnds
<1>6. Head(queue) # NoFile
  BY <1>3, UploadsAssumption
<1>. QED BY <1>1, <1>5, <1>6 DEF Slots!Arrive

LEMMA FailedKeeps ==
  ASSUME UploadsInv, NEW n \in 1..MaxFiles, UploadFailed(n)
  PROVE  UploadsInv' /\ Slots!GiveUp
<1>1. /\ queue # <<>> /\ selected' = selected /\ Advance(n, FALSE)
      /\ UNCHANGED <<session, pending, stale, invocation, launched, hookStudent, picked>>
  BY DEF UploadFailed, Expected
<1>2. selected \in Seq(File) /\ queue \in Seq(File) /\ Len(selected) \in Nat
  BY DEF UploadsInv, UploadsTypeOK
<1>3. selected' \in Seq(File) /\ Len(selected') <= Len(selected) + 1 /\ FALSE \in BOOLEAN
  BY <1>1, <1>2
<1>4. UploadsInv' /\ queue' = <<>> /\ Head(queue) \in File
  BY <1>1, <1>3, AdvanceEnds
<1>. QED BY <1>1, <1>4, UploadsAssumption DEF Slots!GiveUp

LEMMA EventKeeps ==
  ASSUME UploadsInv, NEW n \in 1..MaxFiles,
         \/ \E final \in BOOLEAN : EventForNobody(n, final)
         \/ TransferFallsSilent(n)
  PROVE  UploadsInv' /\ UNCHANGED Slots!slotVars
<1>1. UploadsTypeOK /\ DialogInv /\ QueueInv
  BY DEF UploadsInv
<1>2. PICK w \in TransferState :
        /\ transfer' = [transfer EXCEPT ![n].state = w]
        /\ w = "silent" \/ ~Expected(n)
        /\ active' = active
        /\ UNCHANGED <<session, selected, pending, stale, invocation, launched, queue,
                       hookStudent, picked>>
  <2>1. ASSUME NEW final \in BOOLEAN, EventForNobody(n, final)
        PROVE  \E w \in {"reported", "over"} :
                 /\ transfer' = [transfer EXCEPT ![n].state = w]
                 /\ ~Expected(n)
                 /\ active' = (active /\ queue # <<>>)
                 /\ UNCHANGED <<session, selected, pending, stale, invocation, launched, queue,
                                hookStudent, picked>>
    BY <2>1 DEF EventForNobody, Reported
  <2>2. (active /\ queue # <<>>) = active
    BY <1>1 DEF QueueInv, UploadsTypeOK
  <2>3. {"reported", "over", "silent"} \subseteq TransferState
    BY DEF TransferState
  <2>4. CASE \E final \in BOOLEAN : EventForNobody(n, final)
    BY <2>1, <2>2, <2>3, <2>4
  <2>5. CASE TransferFallsSilent(n)
    BY <2>3, <2>5 DEF TransferFallsSilent
  <2>. QED BY <2>4, <2>5
<1>3. transfer \in [1..MaxFiles -> Transfer] /\ queue \in Seq(File) /\ Len(queue) <= 1
  BY <1>1 DEF UploadsTypeOK, QueueInv
<1>4. /\ transfer' \in [1..MaxFiles -> Transfer]
      /\ \A m \in 1..MaxFiles : transfer'[m].name = transfer[m].name
      /\ \A m \in 1..MaxFiles : m # n => transfer'[m] = transfer[m]
      /\ transfer'[n].state = w
  <2>1. transfer' = [transfer EXCEPT ![n].state = w]
    BY <1>2
  <2>2. w \in TransferState
    BY <1>2
  <2>3. transfer' \in [1..MaxFiles -> Transfer]
    BY <1>3, <2>1, <2>2, ReportedType
  <2>4. transfer'[n].state = w
    BY <1>3, <2>1, <2>2, ReportedType
  <2>5. \A m \in 1..MaxFiles : transfer'[m].name = transfer[m].name
    BY <1>3, <2>1, <2>2, ReportedType
  <2>6. \A m \in 1..MaxFiles : m # n => transfer'[m] = transfer[m]
    BY <1>3, <2>1, <2>2, ReportedType
  <2>. QED BY <2>3, <2>4, <2>5, <2>6
<1>5. UploadsTypeOK'
  BY <1>1, <1>2, <1>4, Zenon DEF UploadsTypeOK
<1>6. DialogInv'
  BY <1>1, <1>2 DEF DialogInv
<1>7. QueueInv'
  <2>1. CASE queue = <<>>
    BY <1>1, <1>2, <2>1 DEF QueueInv, MaxAttachments
  <2>2. CASE queue # <<>>
    <3>. DEFINE h == Head(queue).n
    <3>1. h \in 1..MaxFiles
      <4>1. Head(queue) \in File
        BY <1>3, <2>2, HeadTailProperties
      <4>. QED BY <4>1 DEF File
    <3>2. /\ transfer[h].state \in {"running", "silent"}
          /\ transfer[h].name = Head(queue).name
      BY <1>1, <2>2 DEF QueueInv
    <3>3. transfer'[h].name = Head(queue).name
      BY <1>4, <3>1, <3>2
    <3>4. transfer'[h].state \in {"running", "silent"}
      <4>1. CASE h = n
        <5>1. w = "silent"
          BY <1>2, <2>2, <3>2, <4>1 DEF Expected
        <5>. QED BY <1>4, <4>1, <5>1
      <4>2. CASE h # n
        BY <1>4, <3>1, <3>2, <4>2
      <4>. QED BY <4>1, <4>2
    <3>5. queue' = queue /\ active' = active /\ selected' = selected
      BY <1>2
    <3>6. /\ active <=> queue # <<>>
          /\ Len(queue) <= 1
          /\ Len(selected) + Len(queue) <= MaxAttachments
      BY <1>1 DEF QueueInv
    <3>. QED BY <3>3, <3>4, <3>5, <3>6, Zenon DEF QueueInv, MaxAttachments
  <2>. QED BY <2>1, <2>2
<1>8. UNCHANGED Slots!slotVars
  BY <1>2 DEF Slots!slotVars
<1>. QED BY <1>5, <1>6, <1>7, <1>8 DEF UploadsInv

LEMMA FormKeeps ==
  ASSUME UploadsInv, FormStep
  PROVE  UploadsInv' /\ Slots!SlotsNext
<1>1. UploadsTypeOK /\ DialogInv /\ QueueInv
  BY DEF UploadsInv
<1>2. /\ selected \in Seq(File) /\ Len(selected) \in Nat /\ queue \in Seq(File)
      /\ Len(queue) \in Nat
  BY <1>1 DEF UploadsTypeOK
<1>3. ASSUME selected' \in Seq(File), Len(selected') <= Len(selected),
             UNCHANGED <<session, pending, stale, invocation, launched, queue, active,
                         hookStudent, picked, transfer>>
      PROVE  UploadsInv'
  <2>1. UploadsTypeOK'
    BY <1>1, <1>3, Zenon DEF UploadsTypeOK
  <2>2. DialogInv'
    BY <1>1, <1>3 DEF DialogInv
  <2>3. Len(selected') + Len(queue') <= MaxAttachments
    <3>1. Len(selected') \in Nat /\ queue' = queue /\ Len(selected) + Len(queue) <= 2
      BY <1>1, <1>3 DEF QueueInv, MaxAttachments
    <3>. QED BY <1>2, <1>3, <3>1 DEF MaxAttachments
  <2>4. QueueInv'
    BY <1>1, <1>3, <2>3, Zenon DEF QueueInv
  <2>. QED BY <2>1, <2>2, <2>4 DEF UploadsInv
<1>4. ASSUME NEW k \in 1..Len(selected), RemoveFile(k)
      PROVE  UploadsInv' /\ Slots!SlotsNext
  <2>1. selected' = Without(selected, k)
    BY <1>4 DEF RemoveFile
  <2>2. selected' \in Seq(File) /\ Len(selected') = Len(selected) - 1
    BY <1>2, <2>1, WithoutType
  <2>3. UploadsInv'
    BY <1>2, <1>3, <1>4, <2>2 DEF RemoveFile
  <2>4. Slots!Remove(k)
    BY <1>4 DEF RemoveFile, Slots!Remove, Without, Slots!Without
  <2>. QED BY <2>3, <2>4 DEF Slots!SlotsNext
<1>5. ASSUME ClearSelected
      PROVE  UploadsInv' /\ Slots!SlotsNext
  <2>1. selected' \in Seq(File) /\ Len(selected') = 0
    BY <1>5, EmptySeq DEF ClearSelected
  <2>2. UploadsInv'
    BY <1>2, <1>3, <1>5, <2>1 DEF ClearSelected
  <2>3. Slots!Clear
    BY <1>5 DEF ClearSelected, Slots!Clear
  <2>. QED BY <2>2, <2>3 DEF Slots!SlotsNext
<1>6. ASSUME NewSession
      PROVE  UploadsInv' /\ Slots!SlotsNext
  <2>1. /\ session' = session + 1 /\ selected' = <<>> /\ pending' = FALSE /\ stale' = FALSE
        /\ invocation' = 0 /\ launched' = {} /\ queue' = <<>> /\ active' = FALSE
        /\ hookStudent' = NoStudent /\ picked' = picked
        /\ transfer' = [n \in 1..MaxFiles |-> NoTransfer]
    BY <1>6 DEF NewSession
  <2>2. /\ session' \in Nat /\ <<>> \in Seq(File) /\ NoTransfer \in Transfer
        /\ Len(<<>>) = 0 /\ {} \subseteq Nat
    BY <1>1, <2>1 DEF UploadsTypeOK, NoTransfer, Transfer, TransferState
  <2>3. transfer' \in [1..MaxFiles -> Transfer]
    BY <2>1, <2>2
  <2>4. invocation' \in Nat /\ hookStudent' \in Students \union {NoStudent}
    BY <2>1
  <2>5. UploadsTypeOK'
    BY <1>1, <2>1, <2>2, <2>3, <2>4, Zenon DEF UploadsTypeOK
  <2>6. DialogInv'
    BY <2>1 DEF DialogInv
  <2>7. QueueInv'
    BY <2>1, <2>2 DEF QueueInv, MaxAttachments
  <2>8. Slots!Reload
    BY <2>1 DEF Slots!Reload
  <2>. QED BY <2>5, <2>6, <2>7, <2>8 DEF UploadsInv, Slots!SlotsNext
<1>7. ASSUME selected' \in Seq(File), RestoreSelected(selected')
      PROVE  UploadsInv' /\ Slots!SlotsNext
  <2>1. /\ hookStudent = NoStudent /\ selected = <<>> /\ Len(selected') <= MaxAttachments
        /\ UNCHANGED <<session, pending, stale, invocation, launched, queue, active,
                       hookStudent, picked, transfer>>
    BY <1>7 DEF RestoreSelected
  <2>2. queue = <<>> /\ Len(selected) = 0 /\ Len(queue) = 0
    BY <1>1, <2>1 DEF DialogInv
  <2>3. UploadsTypeOK'
    BY <1>1, <1>7, <2>1, Zenon DEF UploadsTypeOK
  <2>4. DialogInv'
    BY <1>1, <2>1 DEF DialogInv
  <2>5. QueueInv'
    <3>1. Len(selected') \in Nat /\ queue' = <<>> /\ active' = active /\ ~active
      BY <1>1, <1>7, <2>1, <2>2 DEF QueueInv
    <3>. QED BY <2>1, <2>2, <3>1 DEF QueueInv, MaxAttachments
  <2>6. Slots!Free
    BY <2>2, Free DEF MaxAttachments
  <2>7. Slots!Restore
    BY <1>7, <2>1, <2>6 DEF Slots!Restore
  <2>. QED BY <2>3, <2>4, <2>5, <2>7 DEF UploadsInv, Slots!SlotsNext
<1>. QED BY <1>4, <1>5, <1>6, <1>7 DEF FormStep

\* Every step of the attachment step is one of AttachmentSlots or invisible there.
LEMMA UploadsStep ==
  ASSUME UploadsInv, [UploadsNext]_uploadVars
  PROVE  UploadsInv' /\ [Slots!SlotsNext]_Slots!slotVars
<1>1. CASE PickerStep
  <2>1. ASSUME NEW i \in launched, NEW name \in Names, PickLocal(i, name)
        PROVE  UploadsInv' /\ [Slots!SlotsNext]_Slots!slotVars
    BY <2>1, PickLocalKeeps DEF Slots!SlotsNext
  <2>2. ASSUME NEW i \in launched, NEW name \in Names, PickUpload(i, name)
        PROVE  UploadsInv' /\ [Slots!SlotsNext]_Slots!slotVars
    BY <2>2, PickUploadKeeps DEF Slots!SlotsNext
  <2>. QED BY <1>1, <2>1, <2>2, PickerKeeps DEF PickerStep
<1>2. CASE ClientStep
  <2>1. ASSUME NEW n \in 1..MaxFiles, NEW final \in BOOLEAN, UploadFinished(n, final)
        PROVE  UploadsInv' /\ [Slots!SlotsNext]_Slots!slotVars
    BY <2>1, FinishedKeeps DEF Slots!SlotsNext
  <2>2. ASSUME NEW n \in 1..MaxFiles, UploadFailed(n)
        PROVE  UploadsInv' /\ [Slots!SlotsNext]_Slots!slotVars
    BY <2>2, FailedKeeps DEF Slots!SlotsNext
  <2>. QED BY <1>2, <2>1, <2>2, EventKeeps DEF ClientStep
<1>3. CASE FormStep
  BY <1>3, FormKeeps
<1>4. CASE UNCHANGED uploadVars
  <2>1. UploadsInv'
    BY <1>4 DEF uploadVars, UploadsInv, UploadsTypeOK, DialogInv, QueueInv
  <2>. QED BY <1>4, <2>1 DEF uploadVars, Slots!slotVars
<1>. QED BY <1>1, <1>2, <1>3, <1>4 DEF UploadsNext

LEMMA UploadsBegin ==
  ASSUME UploadsInit
  PROVE  UploadsInv /\ Slots!SlotsInit
<1>1. /\ <<>> \in Seq(File) /\ Len(<<>>) = 0 /\ NoTransfer \in Transfer
      /\ 0 \in Nat /\ 0 \in 0..MaxFiles
  BY UploadsAssumption DEF NoTransfer, Transfer, TransferState
<1>2. transfer \in [1..MaxFiles -> Transfer]
  BY <1>1 DEF UploadsInit
<1>3. UploadsTypeOK
  BY <1>1, <1>2 DEF UploadsInit, UploadsTypeOK
<1>4. DialogInv
  BY DEF UploadsInit, DialogInv
<1>5. QueueInv
  BY <1>1 DEF UploadsInit, QueueInv, MaxAttachments
<1>. QED BY <1>3, <1>4, <1>5 DEF UploadsInv, UploadsInit, Slots!SlotsInit

-----------------------------------------------------------------------------
(* The theorems.                                                           *)

\* Of the variables of page_file_services: their types, what the dialogs still
\* open can do, and that the queue holds at most one file, which has its slot.
THEOREM UploadsInductive == UploadsSpec => []UploadsInv
<1>1. UploadsInv /\ [UploadsNext]_uploadVars => UploadsInv'
  BY UploadsStep
<1>. QED BY <1>1, UploadsBegin, PTL DEF UploadsSpec

\* No upload blocks the next: the head of _dcb_upload_queue is a file that the
\* client transfers, although events are told apart by the name of a file only.
THEOREM QueueIsServed == UploadsSpec => []QueueServed
<1>1. UploadsInv => QueueServed
  BY DEF UploadsInv, QueueInv, QueueServed
<1>. QED BY <1>1, UploadsInductive, PTL

\* The picker, the queue and the events of page_file_services implement the two
\* slots of AttachmentSlots.
THEOREM UploadsImplementSlots == UploadsSpec => SlotsKept
<1>1. UploadsInv /\ [UploadsNext]_uploadVars => [Slots!SlotsNext]_Slots!slotVars
  BY UploadsStep
<1>2. UploadsInit => Slots!SlotsInit
  BY UploadsBegin
<1>. QED BY <1>1, <1>2, UploadsInductive, PTL DEF UploadsSpec, SlotsKept, Slots!SlotsSpec

-----------------------------------------------------------------------------
(* The session: sequences.                                                 *)

LEMMA WithoutElements ==
  ASSUME NEW S, NEW s \in Seq(S), NEW k \in 1..Len(s)
  PROVE  /\ Without(s, k) \in Seq(S) /\ Len(Without(s, k)) = Len(s) - 1
         /\ \A j \in 1..(Len(s) - 1) :
              Without(s, k)[j] = IF j < k THEN s[j] ELSE s[j + 1]
<1>. DEFINE t == SubSeq(s, 1, k - 1)
            u == SubSeq(s, k + 1, Len(s))
<1>1. k \in Int /\ Len(s) \in Nat /\ 1 <= k /\ k <= Len(s)
  OBVIOUS
<1>2. /\ k - 1 \in Int /\ k + 1 \in Int
      /\ \A i \in 1..(k - 1) : s[i] \in S
      /\ \A i \in (k + 1)..Len(s) : s[i] \in S
  OBVIOUS
<1>3. t \in Seq(S) /\ Len(t) = k - 1 /\ \A i \in 1..(k - 1) : t[i] = s[i]
  BY <1>1, <1>2, SubSeqProperties
<1>4. /\ u \in Seq(S) /\ Len(u) = Len(s) - k
      /\ \A i \in 1..(Len(s) - k) : u[i] = s[k + i]
  BY <1>1, <1>2, SubSeqProperties
<1>5. Without(s, k) = t \o u
  BY DEF Without
<1>. HIDE DEF t, u
<1>6. /\ t \o u \in Seq(S) /\ Len(t \o u) = Len(s) - 1
      /\ \A j \in 1..(Len(s) - 1) : (t \o u)[j] = IF j <= k - 1 THEN t[j] ELSE u[j - (k - 1)]
  <2>1. /\ t \o u \in Seq(S) /\ Len(t \o u) = Len(t) + Len(u)
        /\ \A j \in 1..(Len(t) + Len(u)) :
             (t \o u)[j] = IF j <= Len(t) THEN t[j] ELSE u[j - Len(t)]
    BY <1>3, <1>4, ConcatProperties
  <2>2. Len(t) + Len(u) = Len(s) - 1 /\ Len(t) = k - 1
    BY <1>1, <1>3, <1>4
  <2>. QED BY <2>1, <2>2, Zenon
<1>7. \A j \in 1..(Len(s) - 1) : (t \o u)[j] = IF j < k THEN s[j] ELSE s[j + 1]
  <2>. TAKE j \in 1..(Len(s) - 1)
  <2>1. CASE j < k
    BY <1>1, <1>3, <1>6, <2>1
  <2>2. CASE ~(j < k)
    <3>1. j - (k - 1) \in 1..(Len(s) - k) /\ k + (j - (k - 1)) = j + 1
      BY <1>1, <2>2
    <3>2. (t \o u)[j] = u[j - (k - 1)]
      BY <1>1, <1>6, <2>2
    <3>. QED BY <1>4, <2>2, <3>1, <3>2
  <2>. QED BY <2>1, <2>2
<1>. QED BY <1>5, <1>6, <1>7

\* An element that stays finds its place, and the order of two stays.
LEMMA WithoutKeepsPlace ==
  ASSUME NEW S, NEW s \in Seq(S), NEW k \in 1..Len(s), NEW j \in 1..Len(s), j # k
  PROVE  /\ (IF j < k THEN j ELSE j - 1) \in 1..Len(Without(s, k))
         /\ Without(s, k)[IF j < k THEN j ELSE j - 1] = s[j]
<1>1. j \in Int /\ k \in Int /\ Len(s) \in Nat
  OBVIOUS
<1>2. /\ Len(Without(s, k)) = Len(s) - 1
      /\ \A m \in 1..(Len(s) - 1) : Without(s, k)[m] = IF m < k THEN s[m] ELSE s[m + 1]
  BY WithoutElements
<1>3. CASE j < k
  BY <1>1, <1>2, <1>3
<1>4. CASE ~(j < k)
  <2>1. j - 1 \in 1..(Len(s) - 1) /\ ~(j - 1 < k) /\ (j - 1) + 1 = j
    BY <1>1, <1>4
  <2>. QED BY <1>2, <1>4, <2>1
<1>. QED BY <1>3, <1>4

\* A draft's files are the student's own, and there.
LEMMA ValidFilesType ==
  ASSUME NEW s \in Seq(File), NEW owner, NEW there
  PROVE  /\ ValidFiles(s, owner, there) \in Seq(File)
         /\ \A k \in 1..Len(ValidFiles(s, owner, there)) :
              ValidFiles(s, owner, there)[k].student = owner
<1>. DEFINE Mine(x) == x \in Seq(File) /\ \A k \in 1..Len(x) : x[k].student = owner
            Kept(k) == IF k <= Len(s) /\ ValidStudentTempPath(s[k], owner, there)
                       THEN <<s[k]>> ELSE <<>>
<1>1. Len(s) \in Nat
  OBVIOUS
<1>2. ASSUME NEW k \in {1, 2}
      PROVE  Mine(Kept(k))
  <2>1. CASE k <= Len(s) /\ ValidStudentTempPath(s[k], owner, there)
    <3>1. k \in 1..Len(s) /\ Kept(k) = <<s[k]>> /\ s[k].student = owner
      BY <1>1, <2>1 DEF ValidStudentTempPath
    <3>2. s[k] \in File
      BY <3>1
    <3>. QED BY <3>1, <3>2
  <2>2. CASE ~(k <= Len(s) /\ ValidStudentTempPath(s[k], owner, there))
    <3>1. Kept(k) = <<>>
      BY <2>2
    <3>. QED BY <3>1, EmptySeq
  <2>. QED BY <2>1, <2>2
<1>3. Mine(Kept(1)) /\ Mine(Kept(2))
  BY <1>2
<1>4. ValidFiles(s, owner, there) = Kept(1) \o Kept(2)
  BY DEF ValidFiles
<1>5. ASSUME NEW a, NEW b, Mine(a), Mine(b)
      PROVE  Mine(a \o b)
  <2>1. a \o b \in Seq(File) /\ Len(a \o b) = Len(a) + Len(b)
    BY <1>5, ConcatProperties
  <2>2. ASSUME NEW k \in 1..Len(a \o b)
        PROVE  (a \o b)[k].student = owner
    <3>1. Len(a) \in Nat /\ Len(b) \in Nat
      BY <1>5
    <3>2. (a \o b)[k] = IF k <= Len(a) THEN a[k] ELSE b[k - Len(a)]
      BY <1>5, <2>1, <2>2, <3>1, ConcatProperties
    <3>3. CASE k <= Len(a)
      BY <1>5, <2>1, <2>2, <3>1, <3>2, <3>3
    <3>4. CASE ~(k <= Len(a))
      <4>1. k - Len(a) \in 1..Len(b)
        BY <2>1, <2>2, <3>1, <3>4
      <4>. QED BY <1>5, <3>2, <3>4, <4>1
    <3>. QED BY <3>3, <3>4
  <2>. QED BY <2>1, <2>2
<1>. HIDE DEF Kept
<1>6. Mine(Kept(1) \o Kept(2))
  BY <1>3, <1>5
<1>. QED BY <1>4, <1>6

-----------------------------------------------------------------------------
(* The session: its invariants.                                            *)

Browser == [user: Students \union {NoStudent}, role: BOOLEAN, draft: Draft \union {NoDraft}]

ViewShaped ==
  /\ view \in {"auth", "restoring", "draft", "portal"}
  /\ user \in Students \union {NoStudent} /\ storeUser \in Students \union {NoStudent}
  /\ view \in {"auth", "restoring"} => user = NoStudent
  /\ view \in {"draft", "portal"} => user \in Students
  /\ typed \in 0..MaxTyped /\ logins \in 0..MaxLogins /\ failures \in 0..MaxFailures

\* An open form is the user's; the hooks are of the form built last.
FormShaped ==
  /\ form \in Form
  /\ form.open => view = "portal" /\ form.student = user /\ hookStudent = user
  /\ hookStudent # NoStudent => form.student = hookStudent

DraftsShaped ==
  /\ storeDraft \in Draft \union {NoDraft}
  /\ browser \in Browser

TasksShaped ==
  /\ tasks \in Seq(Task)
  /\ \A i \in 1..Len(tasks) :
       /\ tasks[i].step <= LastStep(tasks[i].kind)
       /\ tasks[i].kind = "save" => tasks[i].student \in Students

\* A thread that attaches has a file left and a complaint.
ThreadsShaped ==
  /\ thread \in [Threads -> Thread]
  /\ complaints \in Seq(Complaint)
  /\ \A t \in Threads :
       /\ thread[t].phase # "idle" => thread[t].student \in Students
       /\ thread[t].phase = "attach" => /\ thread[t].files # <<>>
                                        /\ thread[t].c \in 1..Len(complaints)

GhostsShaped ==
  /\ disk \subseteq 1..MaxFiles
  /\ interrupted \subseteq Text
  /\ leftovers \subseteq 1..MaxFiles

SessionShaped ==
  /\ UploadsInv /\ ViewShaped /\ FormShaped /\ DraftsShaped /\ TasksShaped /\ ThreadsShaped
  /\ GhostsShaped

\* A text that was typed by its student, or none.
Own(text, student, v) ==
  /\ text.by \in {NoStudent, student}
  /\ text.by = NoStudent => text = NoText
  /\ text.v <= v

TextsInv ==
  /\ Own(form.text, form.student, typed)
  /\ storeDraft # NoDraft => Own(storeDraft.text, storeDraft.owner, typed)
  /\ browser.draft # NoDraft => Own(browser.draft.text, browser.draft.owner, typed)
  /\ \A i \in 1..Len(tasks) :
       tasks[i].kind = "save" => Own(tasks[i].text, tasks[i].student, typed)
  /\ \A t \in Threads : thread[t].phase # "idle" =>
       Own(thread[t].text, thread[t].student, typed) /\ thread[t].text # NoText
  /\ \A i \in 1..Len(complaints) : /\ Own(complaints[i].text, complaints[i].student, typed)
                                   /\ complaints[i].text # NoText

\* A file that the student picked, or that a sign-out left; a thread attaches to
\* its own complaint.
Mine(file, student) == file.student = student \/ file.n \in leftovers

FilesInv ==
  /\ \A k \in 1..Len(selected) : selected[k].student \in Students /\ Mine(selected[k], user)
  /\ \A k \in 1..Len(queue) : queue[k].student \in Students /\ Mine(queue[k], user)
  /\ \A t \in Threads : \A k \in 1..Len(thread[t].files) :
       Mine(thread[t].files[k], thread[t].student)
  /\ \A t \in Threads : thread[t].phase = "attach" =>
       complaints[thread[t].c].student = thread[t].student
  /\ \A i \in 1..Len(complaints) : \A k \in 1..Len(complaints[i].rows) :
       Mine(complaints[i].rows[k], complaints[i].student)

\* A sign-out that has not reached the browser is a task still to start, after
\* which nothing signs in.
SignInv ==
  /\ view = "restoring" => /\ storeUser = NoStudent
                           /\ \A i \in 1..Len(tasks) : tasks[i].kind \notin {"persist", "wipe"}
  /\ view = "auth" /\ failures = 0 =>
       /\ \A i \in 1..Len(tasks) : tasks[i].kind = "persist" => tasks[i].step > 0
       /\ \/ \E i \in 1..Len(tasks) : tasks[i].kind = "wipe" /\ tasks[i].step = 0
          \/ /\ storeUser = NoStudent
             /\ \/ browser.user = NoStudent
                \/ ~browser.role /\ \A i \in 1..Len(tasks) : tasks[i].kind # "persist"

\* The texts sent with which no student was left.
Sent == {complaints[i].text : i \in 1..Len(complaints)}

Once == Sent \ interrupted

Sends(t, text) == thread[t].text = text /\ thread[t].phase \in {"attach", "finish"}

ForgetsAt(i, text) == tasks[i].kind = "forget" /\ tasks[i].text = text

\* The draft of a sent text is going to be removed.
Going(text) == \/ \E t \in Threads : Sends(t, text)
               \/ \E i \in 1..Len(tasks) : ForgetsAt(i, text)

\* A text is being sent by one thread, whose form is still there, unless the
\* student was left with it; and for the first time.
SendingInv ==
  /\ \A t \in Threads : thread[t].same => /\ thread[t].phase # "idle"
                                          /\ form.open /\ form.sending
  /\ \A t, u \in Threads : thread[t].same /\ thread[u].same => t = u
  /\ \A t \in Threads : thread[t].phase # "idle" /\ thread[t].text \notin interrupted
                          => thread[t].same /\ thread[t].page
  /\ \A t \in Threads : thread[t].phase = "register" /\ thread[t].text \notin interrupted
                          => thread[t].text \notin Sent
  /\ SentOnce

\* Where a sent text may still be, and what will remove it.  The form that is
\* left with one hears no more of the client.
Followed(text) ==
  /\ form.text = text => IF form.open THEN \E t \in Threads : Sends(t, text) ELSE ~ClientBusy
  /\ storeDraft # NoDraft /\ storeDraft.text = text => Going(text)
  /\ browser.draft # NoDraft /\ browser.draft.text = text => Going(text)
  /\ \A i \in 1..Len(tasks) : tasks[i].kind = "save" /\ tasks[i].text = text =>
       \/ \E t \in Threads : Sends(t, text)
       \/ \E j \in (i + 1)..Len(tasks) : ForgetsAt(j, text)

DraftInv == \A text \in Once : Followed(text)

-----------------------------------------------------------------------------
(* The session: what a step does to each variable.                         *)

\* A step of the session is one of the attachment step, or leaves it alone.
LEMMA SessionUploads ==
  ASSUME SessionShaped, [SessionNext]_allVars
  PROVE  UploadsInv' /\ [Slots!SlotsNext]_Slots!slotVars
<1>. SUFFICES [UploadsNext]_uploadVars
  BY UploadsStep DEF SessionShaped
<1>1. \A n \in 1..MaxFiles, final \in BOOLEAN :
        /\ EventForNobody(n, final) => UploadsNext
        /\ UploadFinished(n, final) => UploadsNext
        /\ UploadFailed(n) => UploadsNext
        /\ TransferFallsSilent(n) => UploadsNext
  BY DEF UploadsNext, ClientStep
<1>2. /\ BuildPortal \/ PickerBecomesStale => UploadsNext
      /\ \A launches \in BOOLEAN : OpenPicker(launches) => UploadsNext
      /\ \A i \in launched : PickSuperseded(i) \/ PickNothing(i) => UploadsNext
      /\ \A i \in launched, name \in Names : PickLocal(i, name) \/ PickUpload(i, name)
                                               => UploadsNext
      /\ \A s \in Students : RegisterHooks(s) => UploadsNext
  BY DEF UploadsNext, PickerStep
<1>3. /\ \A k \in 1..Len(selected) : RemoveFile(k) => UploadsNext
      /\ ClearSelected \/ NewSession => UploadsNext
  BY DEF UploadsNext, FormStep
<1>4. \A files \in Seq(File) : RestoreSelected(files) => UploadsNext
  BY DEF UploadsNext, FormStep, RestoreSelected
<1>5. CASE \/ Logout \/ TypeText \/ RestoreAuth \/ RestoreRejected \/ RestoreFails
           \/ RestoreDraftFails
  BY <1>5 DEF Logout, TypeText, RestoreAuth, RestoreRejected, RestoreFails, RestoreDraftFails
<1>6. CASE RenderPortal \/ \E s \in Students : Login(s)
  BY <1>2, <1>6 DEF RenderPortal, Login
<1>7. CASE BuildForm
  <2>1. user \in Students /\ RegisterHooks(user)
    BY <1>7 DEF BuildForm, SessionShaped, ViewShaped
  <2>. QED BY <1>2, <2>1
<1>8. CASE Pick
  BY <1>2, <1>8 DEF Pick
<1>9. CASE Unheard
  BY <1>1, <1>2, <1>9 DEF Unheard
<1>10. ASSUME NEW n \in 1..MaxFiles, UploadEvent(n)
       PROVE  UploadsNext
  BY <1>1, <1>10 DEF UploadEvent
<1>11. CASE RemoveSelected
  BY <1>3, <1>11 DEF RemoveSelected
<1>12. ASSUME NEW t \in Threads, Submit(t) \/ SubmissionStep(t)
       PROVE  [UploadsNext]_uploadVars
  <2>1. CASE Finish(t)
    BY <1>3, <2>1 DEF Finish
  <2>2. CASE ~Finish(t)
    BY <1>12, <2>2 DEF Submit, SubmissionStep, Register, RegisterFails, Attach, FinishForNobody
  <2>. QED BY <2>1, <2>2
<1>13. ASSUME NEW i \in 1..Len(tasks), TaskStep(i) \/ TaskFails(i)
       PROVE  [UploadsNext]_uploadVars
  BY <1>13 DEF TaskStep, TaskFails
<1>14. CASE LoadPage
  BY <1>3, <1>14 DEF LoadPage
<1>15. CASE RestoreDraft
  <2>1. CASE browser.draft # NoDraft /\ browser.draft.owner = user
    <3>1. browser.draft.files \in Seq(File)
      BY <2>1 DEF SessionShaped, DraftsShaped, Browser, Draft
    <3>2. ValidFiles(browser.draft.files, user, disk) \in Seq(File)
      BY <3>1, ValidFilesType
    <3>3. RestoreSelected(ValidFiles(browser.draft.files, user, disk))
      BY <1>15, <2>1 DEF RestoreDraft
    <3>. QED BY <1>4, <3>2, <3>3
  <2>2. CASE ~(browser.draft # NoDraft /\ browser.draft.owner = user)
    BY <1>15, <2>2 DEF RestoreDraft
  <2>. QED BY <2>1, <2>2
<1>16. CASE UNCHANGED allVars
  BY <1>16 DEF allVars
<1>. QED BY <1>5, <1>6, <1>7, <1>8, <1>9, <1>10, <1>11, <1>12, <1>13, <1>14, <1>15, <1>16
     DEF SessionNext

Step == [SessionNext]_allVars

\* The steps that leave the form alone.
Elsewhere ==
  \/ \E s \in Students : Login(s)
  \/ Pick \/ Unheard \/ (\E n \in 1..MaxFiles : UploadEvent(n)) \/ RemoveSelected
  \/ \E t \in Threads : Register(t) \/ Attach(t) \/ FinishForNobody(t)
  \/ \E i \in 1..Len(tasks) : TaskStep(i) \/ TaskFails(i)
  \/ RestoreAuth \/ RestoreRejected \/ RestoreFails \/ RestoreDraft \/ RestoreDraftFails
  \/ UNCHANGED allVars

\* Every step is elsewhere, or one of these.
LEMMA StepsAre ==
  ASSUME Step
  PROVE  \/ Elsewhere \/ Logout \/ RenderPortal \/ BuildForm \/ TypeText \/ LoadPage
         \/ \E t \in Threads : Submit(t) \/ RegisterFails(t) \/ Finish(t)
BY DEF Step, SessionNext, SubmissionStep, Elsewhere

\* Elsewhere is where the form is left alone.
LEMMA FormStays ==
  ASSUME Elsewhere
  PROVE  form' = form
BY DEF Elsewhere, Login, Pick, Unheard, UploadEvent, RemoveSelected, Register, Attach,
       FinishForNobody, TaskStep, TaskFails, RestoreAuth, RestoreRejected, RestoreFails,
       RestoreDraft, RestoreDraftFails, allVars, sessionVars

\* The text of the form changes when one is built, and when it is typed.
LEMMA FormEffect ==
  ASSUME Step
  PROVE  \/ form' = form \/ form' = NoForm \/ form' = [form EXCEPT !.open = FALSE]
         \/ \E b \in BOOLEAN : form' = [form EXCEPT !.sending = b]
         \/ BuildForm /\ form' = [student |-> user, text |-> CurrentDraftText,
                                  open |-> TRUE, sending |-> FALSE]
         \/ TypeText /\ form' = [form EXCEPT !.text = [by |-> user, v |-> typed + 1]]
<1>1. CASE Elsewhere
  BY <1>1, FormStays
<1>2. CASE Logout \/ RenderPortal \/ LoadPage
  BY <1>2 DEF Logout, RenderPortal, LoadPage
<1>3. CASE BuildForm \/ TypeText
  BY <1>3 DEF BuildForm, TypeText
<1>4. ASSUME NEW t \in Threads, Submit(t) \/ RegisterFails(t) \/ Finish(t)
      PROVE  \/ form' = form \/ form' = [form EXCEPT !.open = FALSE]
             \/ \E b \in BOOLEAN : form' = [form EXCEPT !.sending = b]
  BY <1>4 DEF Submit, RegisterFails, Finish
<1>. QED BY <1>1, <1>2, <1>3, <1>4, StepsAre

\* A draft that is saved is of the form built last, with the files selected.  It
\* is open, or the client has answered.
Saving == /\ SaveDraft(form', selected', disk')
          /\ form'.open \/ (ClientBusy /\ form' = form)

\* The student of a form whose draft is saved.
LEMMA SavingStudent ==
  ASSUME SessionShaped, Step,
         BuildForm \/ TypeText \/ RemoveSelected \/ Pick \/ \E n \in 1..MaxFiles : UploadEvent(n)
  PROVE  /\ UNCHANGED <<storeDraft, tasks>> \/ (Saving /\ form'.student \in Students)
         /\ UNCHANGED <<browser, complaints>>
<1>. USE DEF SessionShaped, ViewShaped, FormShaped
<1>1. CASE BuildForm
  <2>1. form'.student = user /\ user \in Students /\ form'.open
    BY <1>1 DEF BuildForm
  <2>2. UNCHANGED <<storeDraft, tasks>> \/ SaveDraft(form', selected, disk)
    BY <1>1 DEF BuildForm
  <2>3. selected' = selected /\ disk' = disk /\ UNCHANGED <<browser, complaints>>
    BY <1>1 DEF BuildForm, RegisterHooks
  <2>. QED BY <2>1, <2>2, <2>3 DEF Saving
<1>2. CASE TypeText
  <2>1. form'.student = form.student /\ form.student = user /\ user \in Students /\ form'.open
    BY <1>2 DEF TypeText, Form
  <2>2. SaveDraft(form', selected, disk) /\ UNCHANGED <<browser, complaints>>
    BY <1>2 DEF TypeText
  <2>3. selected' = selected /\ disk' = disk
    BY <1>2 DEF TypeText, uploadVars
  <2>. QED BY <2>1, <2>2, <2>3 DEF Saving
<1>3. CASE RemoveSelected
  <2>1. form' = form /\ form.student = user /\ user \in Students /\ form.open
    BY <1>3 DEF RemoveSelected
  <2>. QED BY <1>3, <2>1 DEF RemoveSelected, Saving
<1>4. CASE Pick \/ \E n \in 1..MaxFiles : UploadEvent(n)
  <2>1. NotifyAttachmentUI /\ form' = form /\ UNCHANGED <<browser, complaints>>
    BY <1>4 DEF Pick, UploadEvent
  <2>2. CASE hookStudent = NoStudent
    <3>1. UNCHANGED <<storeDraft, tasks>>
      BY <2>1, <2>2 DEF NotifyAttachmentUI
    <3>. QED BY <2>1, <3>1
  <2>3. CASE hookStudent # NoStudent
    <3>1. form.student = hookStudent /\ hookStudent \in Students
      BY <2>3 DEF UploadsInv, UploadsTypeOK
    <3>2. form.open \/ ClientBusy
      BY <1>4 DEF Pick, UploadEvent, EventForNobody, UploadFinished, UploadFailed, Reports,
                  ClientBusy
    <3>. QED BY <2>1, <2>3, <3>1, <3>2 DEF NotifyAttachmentUI, Saving
  <2>. QED BY <2>2, <2>3
<1>. QED BY <1>1, <1>2, <1>3, <1>4

SavedByTask(i) ==
  /\ tasks[i].kind = "save"
  /\ storeDraft' = DraftOf(tasks[i].student, tasks[i].text, FilesOf(tasks[i]), disk)

\* The draft in the session store.
LEMMA StoreDraftEffect ==
  ASSUME SessionShaped, Step
  PROVE  \/ storeDraft' = storeDraft \/ storeDraft' = NoDraft
         \/ Saving /\ form'.student \in Students
         \/ \E i \in 1..Len(tasks) : SavedByTask(i)
         \/ /\ browser.draft # NoDraft /\ browser.draft.owner = user
            /\ storeDraft' = [browser.draft EXCEPT
                                !.files = ValidFiles(browser.draft.files, user, disk)]
<1>1. CASE \/ \E s \in Students : Login(s)
           \/ RenderPortal \/ Unheard \/ RestoreAuth \/ RestoreRejected \/ RestoreFails
           \/ RestoreDraftFails \/ UNCHANGED allVars
  BY <1>1 DEF Login, RenderPortal, Unheard, RestoreAuth, RestoreRejected, RestoreFails,
              RestoreDraftFails, allVars, sessionVars
<1>2. CASE Logout \/ LoadPage
  BY <1>2 DEF Logout, LoadPage
<1>3. CASE BuildForm \/ TypeText \/ RemoveSelected \/ Pick \/ \E n \in 1..MaxFiles : UploadEvent(n)
  BY <1>3, SavingStudent
<1>4. ASSUME NEW t \in Threads, Submit(t) \/ SubmissionStep(t)
      PROVE  storeDraft' = storeDraft \/ storeDraft' = NoDraft
  BY <1>4 DEF Submit, SubmissionStep, Register, RegisterFails, Attach, Finish, FinishForNobody
<1>5. ASSUME NEW i \in 1..Len(tasks), TaskStep(i) \/ TaskFails(i)
      PROVE  storeDraft' = storeDraft \/ storeDraft' = NoDraft \/ SavedByTask(i)
  <2>1. StoreStep(tasks[i])
    BY <1>5 DEF TaskStep, TaskFails
  <2>. QED BY <2>1 DEF StoreStep, SavedByTask
<1>6. CASE RestoreDraft
  BY <1>6 DEF RestoreDraft
<1>. QED BY <1>1, <1>2, <1>3, <1>4, <1>5, <1>6 DEF Step, SessionNext

\* What the browser keeps.
LEMMA BrowserEffect ==
  ASSUME Step
  PROVE  \/ browser' = browser
         \/ \E i \in 1..Len(tasks) : browser' = Written(tasks[i])
         \/ browser' = [browser EXCEPT !.user = NoStudent, !.role = FALSE]
         \/ browser' = [browser EXCEPT !.draft = NoDraft]
<1>1. CASE \/ \E s \in Students : Login(s)
           \/ Logout \/ RenderPortal \/ BuildForm \/ TypeText \/ Pick \/ Unheard
  BY <1>1 DEF Login, Logout, RenderPortal, BuildForm, TypeText, Pick, Unheard
<1>2. CASE \/ \E n \in 1..MaxFiles : UploadEvent(n)
           \/ RemoveSelected \/ LoadPage \/ RestoreAuth \/ RestoreFails \/ RestoreDraftFails
           \/ UNCHANGED allVars
  BY <1>2 DEF UploadEvent, RemoveSelected, LoadPage, RestoreAuth, RestoreFails,
              RestoreDraftFails, allVars, sessionVars
<1>3. ASSUME NEW t \in Threads, Submit(t) \/ SubmissionStep(t)
      PROVE  browser' = browser
  BY <1>3 DEF Submit, SubmissionStep, Register, RegisterFails, Attach, Finish, FinishForNobody
<1>4. ASSUME NEW i \in 1..Len(tasks), TaskStep(i) \/ TaskFails(i)
      PROVE  browser' = browser \/ browser' = Written(tasks[i])
  BY <1>4 DEF TaskStep, TaskFails
<1>5. CASE RestoreRejected \/ RestoreDraft
  BY <1>5 DEF RestoreRejected, RestoreDraft
<1>. QED BY <1>1, <1>2, <1>3, <1>4, <1>5 DEF Step, SessionNext

\* A task that is launched, and the removal that a submission launches when it
\* has replaced the list of files.
Launches(task) == tasks' = Append(tasks, task)

RemovesDraft(t) == tasks' = Append(ListReplaced, NewTask("forget", NoStudent, thread[t].text))

\* What a step does to the tasks.
LEMMA TasksEffect ==
  ASSUME SessionShaped, Step
  PROVE  \/ tasks' = tasks \/ LoadPage
         \/ \E i \in 1..Len(tasks) :
              \/ (TaskStep(i) \/ TaskFails(i)) /\ tasks' = Without(tasks, i)
              \/ /\ TaskStep(i) /\ tasks[i].step # LastStep(tasks[i].kind)
                 /\ tasks' = [tasks EXCEPT ![i].step = tasks[i].step + 1]
         \/ \E s \in Students : Login(s) /\ Launches(NewTask("persist", s, NoText))
         \/ Logout /\ Launches(NewTask("wipe", NoStudent, NoText))
         \/ \E t \in Threads : Finish(t) /\ RemovesDraft(t)
         \/ Saving /\ form'.student \in Students
<1>1. CASE RenderPortal \/ Unheard \/ RestoreAuth \/ RestoreRejected \/ RestoreFails
           \/ RestoreDraft \/ RestoreDraftFails \/ UNCHANGED allVars
  BY <1>1 DEF RenderPortal, Unheard, RestoreAuth, RestoreRejected, RestoreFails, RestoreDraft,
              RestoreDraftFails, allVars, sessionVars
<1>2. CASE Logout \/ LoadPage \/ \E s \in Students : Login(s)
  <2>1. Logout => Launches(NewTask("wipe", NoStudent, NoText))
    BY DEF Logout, Launch, Launches
  <2>2. \A s \in Students : Login(s) => Launches(NewTask("persist", s, NoText))
    BY DEF Login, Launch, Launches
  <2>. QED BY <1>2, <2>1, <2>2
<1>3. CASE BuildForm \/ TypeText \/ RemoveSelected \/ Pick \/ \E n \in 1..MaxFiles : UploadEvent(n)
  BY <1>3, SavingStudent
<1>4. ASSUME NEW t \in Threads, Submit(t) \/ SubmissionStep(t)
      PROVE  \/ tasks' = tasks
             \/ Finish(t) /\ RemovesDraft(t)
  BY <1>4 DEF Submit, SubmissionStep, Register, RegisterFails, Attach, Finish, FinishForNobody,
              RemovesDraft
<1>5. ASSUME NEW i \in 1..Len(tasks), TaskStep(i) \/ TaskFails(i)
      PROVE  \/ (TaskStep(i) \/ TaskFails(i)) /\ tasks' = Without(tasks, i)
             \/ /\ TaskStep(i) /\ tasks[i].step # LastStep(tasks[i].kind)
                /\ tasks' = [tasks EXCEPT ![i].step = tasks[i].step + 1]
  <2>1. CASE TaskStep(i) /\ tasks[i].step # LastStep(tasks[i].kind)
    BY <2>1 DEF TaskStep
  <2>2. CASE TaskStep(i) /\ tasks[i].step = LastStep(tasks[i].kind)
    BY <2>2 DEF TaskStep
  <2>3. CASE TaskFails(i)
    BY <2>3 DEF TaskFails
  <2>. QED BY <1>5, <2>1, <2>2, <2>3
<1>. QED BY <1>1, <1>2, <1>3, <1>4, <1>5 DEF Step, SessionNext

\* The threads of the submissions.  When the form is left they lose it, and
\* their page when it is loaded again.
Leaving == Logout \/ RenderPortal \/ BuildForm \/ LoadPage

Left == \A t \in Threads : \/ thread'[t] = [thread[t] EXCEPT !.same = FALSE]
                           \/ thread'[t] = [thread[t] EXCEPT !.same = FALSE, !.page = FALSE]

\* What a step does to the submissions.
LEMMA ThreadEffect ==
  ASSUME SessionShaped, Step
  PROVE  /\ \/ thread' = thread /\ complaints' = complaints
            \/ Leaving /\ Left /\ complaints' = complaints
            \/ \E t \in Threads : Submit(t) \/ SubmissionStep(t)
         /\ thread' \in [Threads -> {thread'[t] : t \in Threads}]
<1>. DEFINE Same == thread' = thread
            Forgets == thread' = [t \in Threads |-> [thread[t] EXCEPT !.same = FALSE]]
            Leaves == thread' = [t \in Threads |->
                                   [thread[t] EXCEPT !.same = FALSE, !.page = FALSE]]
<1>1. CASE \/ \E s \in Students : Login(s)
           \/ TypeText \/ Pick \/ Unheard \/ (\E n \in 1..MaxFiles : UploadEvent(n))
           \/ RemoveSelected
  <2>1. Same /\ complaints' = complaints
    BY <1>1 DEF Login, TypeText, Pick, Unheard, UploadEvent, RemoveSelected
  <2>. QED BY <2>1 DEF SessionShaped, ThreadsShaped
<1>2. CASE \/ \E i \in 1..Len(tasks) : TaskStep(i) \/ TaskFails(i)
           \/ RestoreAuth \/ RestoreRejected \/ RestoreFails \/ RestoreDraft
           \/ RestoreDraftFails \/ UNCHANGED allVars
  <2>1. Same /\ complaints' = complaints
    BY <1>2 DEF TaskStep, TaskFails, RestoreAuth, RestoreRejected, RestoreFails, RestoreDraft,
                RestoreDraftFails, allVars, sessionVars
  <2>. QED BY <2>1 DEF SessionShaped, ThreadsShaped
<1>3. CASE Logout \/ RenderPortal \/ BuildForm
  <2>1. Forgets /\ complaints' = complaints
    BY <1>3 DEF Logout, RenderPortal, BuildForm, Forgotten, SessionShaped, ThreadsShaped
  <2>. QED BY <1>3, <2>1 DEF Left, Leaving
<1>4. CASE LoadPage
  <2>1. Leaves /\ complaints' = complaints
    BY <1>4 DEF LoadPage
  <2>. QED BY <1>4, <2>1 DEF Left, Leaving
<1>5. CASE \E t \in Threads : Submit(t) \/ SubmissionStep(t)
  <2>1. PICK t \in Threads : Submit(t) \/ SubmissionStep(t)
    BY <1>5
  <2>2. \E k : thread' = [thread EXCEPT ![t] = k]
    BY <2>1 DEF Submit, SubmissionStep, Register, RegisterFails, Attach, Finish, FinishForNobody
  <2>. QED BY <1>5, <2>2 DEF SessionShaped, ThreadsShaped
<1>. QED BY <1>1, <1>2, <1>3, <1>4, <1>5 DEF Step, SessionNext

-----------------------------------------------------------------------------
(* The session: types and shapes.                                          *)

\* Who is signed in, and on which page.
LEMMA ViewStep ==
  ASSUME SessionAssumption, SessionShaped, Step
  PROVE  ViewShaped'
<1>. USE DEF ViewShaped
<1>0. ViewShaped
  BY DEF SessionShaped
<1>1. CASE UNCHANGED <<view, user, storeUser, typed, logins, failures>>
  BY <1>0, <1>1
<1>2. ASSUME NEW s \in Students, Login(s)
      PROVE  ViewShaped'
  <2>1. /\ user' = s /\ storeUser' = s /\ view' = "portal"
        /\ logins' = logins + 1 /\ logins < MaxLogins
        /\ UNCHANGED <<typed, failures>>
    BY <1>2 DEF Login
  <2>. QED BY <1>0, <2>1, SessionAssumption
<1>3. CASE Logout
  BY <1>0, <1>3 DEF Logout
<1>4. CASE RenderPortal \/ BuildForm \/ Pick \/ Unheard \/ RemoveSelected
           \/ \E n \in 1..MaxFiles : UploadEvent(n)
  BY <1>1, <1>4 DEF RenderPortal, BuildForm, Pick, Unheard, RemoveSelected, UploadEvent
<1>5. CASE TypeText
  <2>1. /\ typed' = typed + 1 /\ typed < MaxTyped
        /\ UNCHANGED <<view, user, storeUser, logins, failures>>
    BY <1>5 DEF TypeText
  <2>. QED BY <1>0, <2>1, SessionAssumption
<1>6. ASSUME NEW t \in Threads, Submit(t) \/ SubmissionStep(t)
      PROVE  ViewShaped'
  BY <1>1, <1>6 DEF Submit, SubmissionStep, Register, RegisterFails, Attach, Finish,
                    FinishForNobody
<1>7. ASSUME NEW i \in 1..Len(tasks), TaskStep(i) \/ TaskFails(i)
      PROVE  ViewShaped'
  <2>1. tasks[i].student \in Students \union {NoStudent}
    <3>1. tasks[i] \in Task
      BY DEF SessionShaped, TasksShaped
    <3>. QED BY <3>1 DEF Task
  <2>2. storeUser' \in Students \union {NoStudent}
    <3>1. StoreStep(tasks[i])
      BY <1>7 DEF TaskStep, TaskFails
    <3>. QED BY <1>0, <2>1, <3>1 DEF StoreStep
  <2>3. UNCHANGED <<view, user, typed, logins>>
    BY <1>7 DEF TaskStep, TaskFails
  <2>4. failures' = failures \/ (failures' = failures + 1 /\ failures < MaxFailures)
    BY <1>7 DEF TaskStep, TaskFails
  <2>5. failures' \in 0..MaxFailures
    BY <1>0, <2>4, SessionAssumption
  <2>. QED BY <1>0, <2>2, <2>3, <2>5
<1>8. CASE LoadPage
  BY <1>0, <1>8 DEF LoadPage
<1>9. CASE RestoreAuth \/ RestoreRejected \/ RestoreDraft
  <2>1. browser.user \in Students \union {NoStudent}
    BY DEF SessionShaped, DraftsShaped, Browser
  <2>2. UNCHANGED <<typed, logins, failures>>
    BY <1>9 DEF RestoreAuth, RestoreRejected, RestoreDraft
  <2>3. CASE RestoreAuth
    BY <1>0, <2>1, <2>2, <2>3 DEF RestoreAuth, Stored
  <2>4. CASE RestoreRejected
    BY <1>0, <2>2, <2>4 DEF RestoreRejected
  <2>5. CASE RestoreDraft
    BY <1>0, <2>2, <2>5 DEF RestoreDraft
  <2>. QED BY <1>9, <2>3, <2>4, <2>5
<1>10. CASE RestoreFails \/ RestoreDraftFails
  <2>1. failures' = failures + 1 /\ failures < MaxFailures /\ UNCHANGED <<typed, logins>>
    BY <1>10 DEF RestoreFails, RestoreDraftFails
  <2>2. failures' \in 0..MaxFailures
    BY <1>0, <2>1, SessionAssumption
  <2>. QED BY <1>0, <1>10, <2>1, <2>2 DEF RestoreFails, RestoreDraftFails
<1>11. CASE UNCHANGED allVars
  BY <1>1, <1>11 DEF allVars, sessionVars
<1>. QED BY <1>2, <1>3, <1>4, <1>5, <1>6, <1>7, <1>8, <1>9, <1>10, <1>11 DEF Step, SessionNext

\* Elsewhere an open form and its hooks keep their student.
LEMMA HooksStay ==
  ASSUME Elsewhere
  PROVE  /\ hookStudent' = hookStudent
         /\ view = "portal" => view' = view /\ user' = user
<1>1. CASE \E s \in Students : Login(s)
  BY <1>1 DEF Login, BuildPortal
<1>2. CASE Pick
  <2>1. hookStudent' = hookStudent
    BY <1>2 DEF Pick, OpenPicker, PickNothing, PickAnswered, PickLocal, PickUpload
  <2>. QED BY <1>2, <2>1 DEF Pick
<1>3. CASE Unheard \/ \E n \in 1..MaxFiles : UploadEvent(n)
  <2>1. hookStudent' = hookStudent
    BY <1>3 DEF Unheard, UploadEvent, PickerBecomesStale, PickSuperseded, TransferFallsSilent,
                EventForNobody, UploadFinished, UploadFailed
  <2>. QED BY <1>3, <2>1 DEF Unheard, UploadEvent
<1>4. CASE RemoveSelected
  BY <1>4 DEF RemoveSelected, RemoveFile
<1>5. ASSUME NEW t \in Threads, Register(t) \/ Attach(t) \/ FinishForNobody(t)
      PROVE  UNCHANGED <<hookStudent, view, user>>
  BY <1>5 DEF Register, Attach, FinishForNobody, uploadVars
<1>6. ASSUME NEW i \in 1..Len(tasks), TaskStep(i) \/ TaskFails(i)
      PROVE  UNCHANGED <<hookStudent, view, user>>
  BY <1>6 DEF TaskStep, TaskFails, uploadVars
<1>7. CASE RestoreAuth \/ RestoreRejected \/ RestoreFails \/ RestoreDraftFails
  BY <1>7 DEF RestoreAuth, RestoreRejected, RestoreFails, RestoreDraftFails, uploadVars
<1>8. CASE RestoreDraft
  BY <1>8 DEF RestoreDraft, RestoreSelected, uploadVars
<1>9. CASE UNCHANGED allVars
  BY <1>9 DEF allVars, sessionVars, uploadVars
<1>. QED BY <1>1, <1>2, <1>3, <1>4, <1>5, <1>6, <1>7, <1>8, <1>9 DEF Elsewhere

\* Texts and their numbers.
LEMMA TextTypes ==
  ASSUME SessionAssumption, SessionShaped
  PROVE  /\ NoText \in Text /\ NoText.by = NoStudent /\ NoText.v = 0
         /\ CurrentDraftText \in Text
         /\ typed < MaxTyped => [by |-> user, v |-> typed + 1] \in Text
         /\ NoForm \in Form /\ form \in Form /\ form.text \in Text
         /\ typed \in Nat /\ MaxTyped \in Nat
         /\ \A text \in Text : text.v \in Nat
<1>1. MaxTyped \in Nat /\ typed \in 0..MaxTyped
  BY SessionAssumption DEF SessionShaped, ViewShaped
<1>2. NoText \in Text /\ NoText.by = NoStudent /\ NoText.v = 0
  BY <1>1 DEF NoText, Text
<1>3. CurrentDraftText \in Text
  BY <1>2 DEF CurrentDraftText, SessionShaped, DraftsShaped, Draft
<1>4. typed < MaxTyped => [by |-> user, v |-> typed + 1] \in Text
  BY <1>1 DEF Text, SessionShaped, ViewShaped
<1>5. NoForm \in Form /\ form \in Form /\ form.text \in Text
  BY <1>2 DEF NoForm, Form, SessionShaped, FormShaped
<1>6. \A text \in Text : text.v \in Nat
  BY <1>1 DEF Text
<1>. QED BY <1>1, <1>2, <1>3, <1>4, <1>5, <1>6

\* The form is that of the student who is signed in.
LEMMA FormShapeStep ==
  ASSUME SessionAssumption, SessionShaped, Step
  PROVE  FormShaped'
<1>0. FormShaped /\ ViewShaped
  BY DEF SessionShaped
<1>1. form' \in Form
  <2>1. user \in Students \union {NoStudent} /\ (TypeText => typed < MaxTyped)
    BY <1>0 DEF ViewShaped, TypeText
  <2>2. CASE \/ form' = form \/ form' = NoForm \/ form' = [form EXCEPT !.open = FALSE]
             \/ \E b \in BOOLEAN : form' = [form EXCEPT !.sending = b]
    BY <2>2, TextTypes DEF Form
  <2>3. CASE form' = [student |-> user, text |-> CurrentDraftText, open |-> TRUE,
                      sending |-> FALSE]
    BY <2>1, <2>3, TextTypes DEF Form
  <2>4. CASE TypeText /\ form' = [form EXCEPT !.text = [by |-> user, v |-> typed + 1]]
    <3>1. PICK text \in Text : text = [by |-> user, v |-> typed + 1]
      BY <2>1, <2>4, TextTypes
    <3>2. form' = [form EXCEPT !.text = text]
      BY <2>4, <3>1
    <3>. QED BY <3>2, TextTypes DEF Form
  <2>. QED BY <2>2, <2>3, <2>4, FormEffect
<1>2. CASE Elsewhere
  BY <1>0, <1>1, <1>2, FormStays, HooksStay DEF FormShaped
<1>3. CASE Logout \/ RenderPortal
  <2>1. form' = [form EXCEPT !.open = FALSE] /\ hookStudent' = hookStudent
    BY <1>3 DEF Logout, RenderPortal, BuildPortal, uploadVars
  <2>2. form'.open = FALSE /\ form'.student = form.student
    BY <1>0, <2>1 DEF FormShaped, Form
  <2>. QED BY <1>0, <1>1, <2>1, <2>2 DEF FormShaped
<1>4. CASE BuildForm
  <2>1. /\ form'.student = user /\ hookStudent' = user /\ view' = "portal" /\ user' = user
    BY <1>4 DEF BuildForm, RegisterHooks
  <2>. QED BY <1>1, <2>1 DEF FormShaped
<1>5. CASE TypeText
  <2>1. /\ form' = [form EXCEPT !.text = [by |-> user, v |-> typed + 1]]
        /\ UNCHANGED <<hookStudent, view, user>>
    BY <1>5 DEF TypeText, uploadVars
  <2>2. form'.open = form.open /\ form'.student = form.student
    BY <1>0, <2>1 DEF FormShaped, Form
  <2>. QED BY <1>0, <1>1, <2>1, <2>2 DEF FormShaped
<1>6. CASE LoadPage
  BY <1>1, <1>6 DEF LoadPage, NewSession, NoForm, FormShaped
<1>7. ASSUME NEW t \in Threads, Submit(t) \/ RegisterFails(t) \/ Finish(t)
      PROVE  FormShaped'
  <2>1. UNCHANGED <<hookStudent, view, user>>
    BY <1>7 DEF Submit, RegisterFails, Finish, ClearSelected, uploadVars
  <2>2. \/ form' = form \/ form' = [form EXCEPT !.open = FALSE]
        \/ \E b \in BOOLEAN : form' = [form EXCEPT !.sending = b]
    BY <1>7 DEF Submit, RegisterFails, Finish
  <2>3. form'.student = form.student /\ (form'.open => form.open)
    BY <1>0, <2>2 DEF FormShaped, Form
  <2>. QED BY <1>0, <1>1, <2>1, <2>3 DEF FormShaped
<1>. QED BY <1>2, <1>3, <1>4, <1>5, <1>6, <1>7, StepsAre

\* What sanitize_draft_for_storage returns.
LEMMA DraftOfType ==
  ASSUME NEW student \in Students, NEW text \in Text, NEW files \in Seq(File), NEW there
  PROVE  /\ DraftOf(student, text, files, there) \in Draft
         /\ DraftOf(student, text, files, there).owner = student
         /\ DraftOf(student, text, files, there).text = text
         /\ DraftOf(student, text, files, there) # NoDraft
<1>1. ValidFiles(files, student, there) \in Seq(File)
  BY ValidFilesType
<1>2. DraftOf(student, text, files, there) \in Draft
  BY <1>1 DEF DraftOf, Draft
<1>. QED BY <1>2, SessionAssumption DEF DraftOf

\* The selected files, before and after a step.
LEMMA SelectedType ==
  ASSUME SessionShaped, Step
  PROVE  selected \in Seq(File) /\ selected' \in Seq(File)
<1>1. UploadsInv'
  BY SessionUploads DEF Step
<1>. QED BY <1>1 DEF SessionShaped, UploadsInv, UploadsTypeOK

\* A task of page.run_task, and its fields.
LEMMA TaskIs ==
  ASSUME SessionShaped, NEW i \in 1..Len(tasks)
  PROVE  /\ tasks[i] \in Task /\ tasks[i].text \in Text
         /\ tasks[i].kind \in {"persist", "wipe", "save", "forget"}
         /\ tasks[i].step \in 0..LastStep(tasks[i].kind)
         /\ tasks[i].kind \in {"save", "forget"} => tasks[i].step = 0
         /\ tasks[i].kind = "save" => tasks[i].student \in Students
<1>1. /\ tasks[i] \in Task /\ tasks[i].step <= LastStep(tasks[i].kind)
      /\ tasks[i].kind = "save" => tasks[i].student \in Students
  BY DEF SessionShaped, TasksShaped
<1>2. /\ tasks[i].text \in Text /\ tasks[i].step \in 0..2
      /\ tasks[i].kind \in {"persist", "wipe", "save", "forget"}
  BY <1>1 DEF Task
<1>3. LastStep(tasks[i].kind) \in 0..2
  BY <1>2 DEF LastStep
<1>4. tasks[i].kind \in {"save", "forget"} => LastStep(tasks[i].kind) = 0
  BY DEF LastStep
<1>. QED BY <1>1, <1>2, <1>3, <1>4

\* The files of a save.
LEMMA FilesOfType ==
  ASSUME SessionShaped, NEW i \in 1..Len(tasks)
  PROVE  FilesOf(tasks[i]) \in Seq(File)
<1>1. selected \in Seq(File)
  BY DEF SessionShaped, UploadsInv, UploadsTypeOK
<1>2. tasks[i] \in Task
  BY TaskIs
<1>. QED BY <1>1, <1>2 DEF FilesOf, Task

\* The draft that a step leaves in the session store is one there was, or of a text
\* there was.
LEMMA StoreDraftGives ==
  ASSUME SessionAssumption, SessionShaped, Step
  PROVE  \/ storeDraft' = storeDraft \/ storeDraft' = NoDraft
         \/ /\ storeDraft' \in Draft /\ storeDraft' # NoDraft
            /\ \/ Saving /\ storeDraft'.owner = form'.student /\ storeDraft'.text = form'.text
               \/ \E i \in 1..Len(tasks) : /\ SavedByTask(i)
                                           /\ storeDraft'.owner = tasks[i].student
                                           /\ storeDraft'.text = tasks[i].text
               \/ /\ browser.draft # NoDraft /\ storeDraft'.owner = browser.draft.owner
                  /\ storeDraft'.text = browser.draft.text
<1>1. CASE Saving /\ form'.student \in Students
  <2>1. form' \in Form /\ form'.text \in Text
    BY FormShapeStep DEF FormShaped, Form
  <2>2. storeDraft' = DraftOf(form'.student, form'.text, selected', disk')
    BY <1>1 DEF Saving, SaveDraft
  <2>. QED BY <1>1, <2>1, <2>2, DraftOfType, SelectedType
<1>2. ASSUME NEW i \in 1..Len(tasks), SavedByTask(i)
      PROVE  /\ storeDraft' \in Draft /\ storeDraft' # NoDraft
             /\ storeDraft'.owner = tasks[i].student /\ storeDraft'.text = tasks[i].text
  BY <1>2, TaskIs, DraftOfType, FilesOfType DEF SavedByTask
<1>3. CASE /\ browser.draft # NoDraft
           /\ storeDraft' = [browser.draft EXCEPT
                               !.files = ValidFiles(browser.draft.files, user, disk)]
  <2>1. browser.draft \in Draft
    BY <1>3 DEF SessionShaped, DraftsShaped, Browser
  <2>2. ValidFiles(browser.draft.files, user, disk) \in Seq(File)
    BY <2>1, ValidFilesType DEF Draft
  <2>3. storeDraft' \in Draft /\ storeDraft'.owner = browser.draft.owner
        /\ storeDraft'.text = browser.draft.text
    BY <1>3, <2>1, <2>2 DEF Draft
  <2>. QED BY <1>3, <2>3, SessionAssumption
<1>. QED BY <1>1, <1>2, <1>3, StoreDraftEffect

\* The same of the draft in the browser.
LEMMA BrowserGives ==
  ASSUME SessionAssumption, SessionShaped, Step
  PROVE  /\ browser' \in Browser
         /\ \/ browser'.draft = browser.draft \/ browser'.draft = NoDraft
            \/ \E i \in 1..Len(tasks) : /\ browser' = Written(tasks[i])
                                        /\ tasks[i].kind = "save"
                                        /\ browser'.draft # NoDraft
                                        /\ browser'.draft.owner = tasks[i].student
                                        /\ browser'.draft.text = tasks[i].text
<1>1. browser \in Browser
  BY DEF SessionShaped, DraftsShaped
<1>2. CASE \/ browser' = browser
           \/ browser' = [browser EXCEPT !.user = NoStudent, !.role = FALSE]
           \/ browser' = [browser EXCEPT !.draft = NoDraft]
  BY <1>1, <1>2 DEF Browser
<1>3. ASSUME NEW i \in 1..Len(tasks), browser' = Written(tasks[i])
      PROVE  /\ browser' \in Browser
             /\ \/ browser'.draft = browser.draft \/ browser'.draft = NoDraft
                \/ /\ tasks[i].kind = "save" /\ browser'.draft # NoDraft
                   /\ browser'.draft.owner = tasks[i].student
                   /\ browser'.draft.text = tasks[i].text
  <2>1. CASE tasks[i].kind = "save"
    <3>1. PICK d \in Draft : /\ d = DraftOf(tasks[i].student, tasks[i].text,
                                             FilesOf(tasks[i]), disk)
                             /\ d # NoDraft
                             /\ d.owner = tasks[i].student /\ d.text = tasks[i].text
      BY <2>1, TaskIs, DraftOfType, FilesOfType
    <3>2. browser' = [browser EXCEPT !.draft = d]
      BY <1>3, <2>1, <3>1 DEF Written
    <3>. QED BY <1>1, <2>1, <3>1, <3>2 DEF Browser
  <2>2. CASE tasks[i].kind # "save"
    <3>1. tasks[i].student \in Students \union {NoStudent}
      BY TaskIs DEF Task
    <3>2. \/ browser' = [browser EXCEPT !.user = tasks[i].student]
          \/ browser' = [browser EXCEPT !.role = TRUE]
          \/ browser' = [browser EXCEPT !.user = NoStudent]
          \/ browser' = [browser EXCEPT !.role = FALSE]
          \/ browser' = [browser EXCEPT !.draft = NoDraft]
      BY <1>3, <2>2 DEF Written
    <3>. QED BY <1>1, <3>1, <3>2 DEF Browser
  <2>. QED BY <2>1, <2>2
<1>. QED BY <1>2, <1>3, BrowserEffect

\* The drafts keep their shape.
LEMMA DraftsStep ==
  ASSUME SessionAssumption, SessionShaped, Step
  PROVE  DraftsShaped'
<1>1. storeDraft \in Draft \union {NoDraft}
  BY DEF SessionShaped, DraftsShaped
<1>. QED BY <1>1, StoreDraftGives, BrowserGives DEF DraftsShaped

\* A task that was there, perhaps a step further, with what was behind it but for
\* the saves, which may be left with their list; one that was launched.
TaskCame(j, i) ==
  /\ tasks'[j].kind = tasks[i].kind /\ tasks'[j].text = tasks[i].text
  /\ tasks'[j].student = tasks[i].student
  /\ \/ tasks'[j].step = tasks[i].step
     \/ /\ tasks'[j].step = tasks[i].step + 1 /\ TaskStep(i)
        /\ tasks[i].step # LastStep(tasks[i].kind)

Behind(j, i) ==
  \A m \in (i + 1)..Len(tasks) :
    \/ TaskStep(m) \/ TaskFails(m) \/ tasks[m].kind = "save"
    \/ \E n \in (j + 1)..Len(tasks') : tasks'[n] = tasks[m]

TaskWas(j) == \E i \in 1..Len(tasks) : TaskCame(j, i) /\ Behind(j, i)

TaskNew(j) ==
  /\ tasks'[j].step = 0
  /\ tasks'[j].kind = "save" =>
       /\ Saving /\ form'.student \in Students
       /\ tasks'[j].student = form'.student /\ tasks'[j].text = form'.text
  /\ tasks'[j].kind = "persist" => \E s \in Students : Login(s)
  /\ tasks'[j].kind = "wipe" => Logout
  /\ tasks'[j].kind = "forget" => \E t \in Threads : Finish(t)

\* A task one step further.
LEMMA StepOfTask ==
  ASSUME SessionShaped, NEW i \in 1..Len(tasks),
         tasks[i].step # LastStep(tasks[i].kind),
         NEW k, k = [tasks[i] EXCEPT !.step = tasks[i].step + 1]
  PROVE  /\ k \in Task /\ k.step = tasks[i].step + 1 /\ k.kind = tasks[i].kind
         /\ k.student = tasks[i].student /\ k.text = tasks[i].text
<1>1. tasks[i] \in Task /\ tasks[i].step \in 0..LastStep(tasks[i].kind)
  BY TaskIs
<1>2. LastStep(tasks[i].kind) \in 0..2
  BY TaskIs DEF LastStep
<1>3. tasks[i].step + 1 \in 0..2
  BY <1>1, <1>2
<1>. QED BY <1>1, <1>3 DEF Task

\* A task that is launched.
LEMMA NewTaskIs ==
  ASSUME NEW kind \in {"persist", "wipe", "save", "forget"},
         NEW student \in Students \union {NoStudent}, NEW text \in Text
  PROVE  /\ NewTask(kind, student, text) \in Task
         /\ NewTask(kind, student, text).kind = kind
         /\ NewTask(kind, student, text).step = 0
         /\ NewTask(kind, student, text).student = student
         /\ NewTask(kind, student, text).text = text
BY DEF NewTask, Task

\* The tasks when a submission has replaced the list of files.
LEMMA ForgetsAfter ==
  ASSUME SessionShaped, NEW t \in Threads, RemovesDraft(t), thread[t].text \in Text
  PROVE  /\ tasks' \in Seq(Task) /\ Len(tasks') = Len(tasks) + 1
         /\ tasks'[Len(tasks) + 1] = NewTask("forget", NoStudent, thread[t].text)
         /\ \A j \in 1..Len(tasks) :
              /\ tasks'[j].kind = tasks[j].kind /\ tasks'[j].text = tasks[j].text
              /\ tasks'[j].student = tasks[j].student /\ tasks'[j].step = tasks[j].step
              /\ tasks[j].kind # "save" => tasks'[j] = tasks[j]
<1>. DEFINE s == ListReplaced
<1>0. Len(tasks) \in Nat
  BY DEF SessionShaped, TasksShaped
<1>1. selected \in Seq(File)
  BY DEF SessionShaped, UploadsInv, UploadsTypeOK
<1>2. ASSUME NEW j \in 1..Len(tasks)
      PROVE  /\ s[j] \in Task
             /\ s[j].kind = tasks[j].kind /\ s[j].text = tasks[j].text
             /\ s[j].student = tasks[j].student /\ s[j].step = tasks[j].step
             /\ tasks[j].kind # "save" => s[j] = tasks[j]
  <2>1. PICK k \in Task : k = tasks[j]
    BY TaskIs
  <2>2. s[j] = IF k.kind = "save" /\ ~k.replaced
               THEN [k EXCEPT !.replaced = TRUE, !.files = selected] ELSE k
    BY <1>2, <2>1 DEF ListReplaced
  <2>. QED BY <1>1, <2>1, <2>2 DEF Task
<1>3. s \in Seq(Task) /\ Len(s) = Len(tasks)
  <2>1. PICK n \in Nat : n = Len(tasks)
    BY <1>0
  <2>2. /\ DOMAIN s = 1..n
        /\ s = [i \in 1..n |-> s[i]]
    BY <2>1 DEF ListReplaced
  <2>3. \A i \in 1..n : s[i] \in Task
    BY <1>2, <2>1
  <2>4. s \in [1..n -> Task]
    <3>. HIDE DEF s
    <3>. QED BY <2>2, <2>3
  <2>. HIDE DEF s
  <2>. QED BY <2>1, <2>2, <2>4
<1>4. PICK task \in Task : task = NewTask("forget", NoStudent, thread[t].text)
  BY NewTaskIs
<1>5. tasks' = Append(s, task)
  BY <1>4 DEF RemovesDraft
<1>. HIDE DEF s
<1>6. /\ tasks' \in Seq(Task) /\ Len(tasks') = Len(tasks) + 1 /\ tasks'[Len(tasks) + 1] = task
      /\ \A j \in 1..Len(tasks) : tasks'[j] = s[j]
  BY <1>0, <1>3, <1>5
<1>. QED BY <1>2, <1>4, <1>6

\* The shape of a task, and where it was before the step.
LEMMA TaskKeeps ==
  ASSUME SessionAssumption, SessionShaped, Step
  PROVE  /\ tasks' \in Seq(Task)
         /\ \A j \in 1..Len(tasks') : TaskWas(j) \/ TaskNew(j)
<1>1. tasks \in Seq(Task) /\ Len(tasks) \in Nat
  BY DEF SessionShaped, TasksShaped
<1>2. ASSUME NEW task \in Task, Launches(task), task.step = 0,
             task.kind = "save" =>
               /\ Saving /\ form'.student \in Students
               /\ task.student = form'.student /\ task.text = form'.text,
             task.kind = "persist" => \E s \in Students : Login(s),
             task.kind = "wipe" => Logout,
             task.kind = "forget" => \E t \in Threads : Finish(t)
      PROVE  /\ tasks' \in Seq(Task)
             /\ \A j \in 1..Len(tasks') : TaskWas(j) \/ TaskNew(j)
  <2>1. /\ tasks' \in Seq(Task) /\ Len(tasks') = Len(tasks) + 1
        /\ tasks'[Len(tasks) + 1] = task
        /\ \A j \in 1..Len(tasks) : tasks'[j] = tasks[j]
    BY <1>1, <1>2 DEF Launches
  <2>2. \A j \in 1..Len(tasks) : TaskWas(j)
    BY <1>1, <2>1 DEF TaskWas, TaskCame, Behind
  <2>3. TaskNew(Len(tasks) + 1)
    BY <1>2, <2>1 DEF TaskNew
  <2>. QED BY <1>1, <2>1, <2>2, <2>3
<1>3. CASE tasks' = tasks
  <2>1. \A j \in 1..Len(tasks) : TaskWas(j)
    BY <1>1, <1>3 DEF TaskWas, TaskCame, Behind
  <2>. QED BY <1>1, <1>3, <2>1
<1>31. CASE LoadPage
  <2>1. tasks' \in Seq(Task) /\ Len(tasks') = 0
    <3>1. tasks' = <<>>
      BY <1>31 DEF LoadPage
    <3>. QED BY <3>1
  <2>. QED BY <2>1
<1>4. ASSUME NEW i \in 1..Len(tasks), TaskStep(i) \/ TaskFails(i), tasks' = Without(tasks, i)
      PROVE  /\ tasks' \in Seq(Task)
             /\ \A j \in 1..Len(tasks') : TaskWas(j) \/ TaskNew(j)
  <2>1. /\ tasks' \in Seq(Task) /\ Len(tasks') = Len(tasks) - 1
        /\ \A j \in 1..(Len(tasks) - 1) :
             tasks'[j] = IF j < i THEN tasks[j] ELSE tasks[j + 1]
    BY <1>1, <1>4, WithoutElements
  <2>2. ASSUME NEW j \in 1..Len(tasks')
        PROVE  TaskWas(j)
    <3>1. PICK o \in 1..Len(tasks) : o = (IF j < i THEN j ELSE j + 1) /\ tasks'[j] = tasks[o]
      <4>1. j \in 1..Len(tasks) /\ j + 1 \in 1..Len(tasks)
        BY <1>1, <2>1
      <4>. QED BY <2>1, <4>1
    <3>2. ASSUME NEW m \in (o + 1)..Len(tasks), m # i
          PROVE  \E n \in (j + 1)..Len(tasks') : tasks'[n] = tasks[m]
      <4>1. m \in 1..Len(tasks)
        BY <1>1
      <4>2. PICK n \in 1..Len(tasks') : n = (IF m < i THEN m ELSE m - 1) /\ tasks'[n] = tasks[m]
        BY <1>1, <1>4, <3>2, <4>1, WithoutKeepsPlace
      <4>3. n > j
        BY <1>1, <2>1, <3>1, <3>2, <4>2
      <4>4. n \in (j + 1)..Len(tasks')
        BY <1>1, <2>1, <4>2, <4>3
      <4>. QED BY <4>2, <4>4
    <3>. QED BY <1>4, <3>1, <3>2 DEF TaskWas, TaskCame, Behind
  <2>. QED BY <2>1, <2>2
<1>5. ASSUME NEW i \in 1..Len(tasks), TaskStep(i), tasks[i].step # LastStep(tasks[i].kind),
             tasks' = [tasks EXCEPT ![i].step = tasks[i].step + 1]
      PROVE  /\ tasks' \in Seq(Task)
             /\ \A j \in 1..Len(tasks') : TaskWas(j) \/ TaskNew(j)
  <2>1. PICK k \in Task : /\ tasks' = [tasks EXCEPT ![i] = k]
                          /\ k.step = tasks[i].step + 1 /\ k.kind = tasks[i].kind
                          /\ k.student = tasks[i].student /\ k.text = tasks[i].text
    <3>1. PICK k : k = [tasks[i] EXCEPT !.step = tasks[i].step + 1]
      OBVIOUS
    <3>2. tasks' = [tasks EXCEPT ![i] = k]
      BY <1>1, <1>5, <3>1
    <3>3. /\ k \in Task /\ k.step = tasks[i].step + 1 /\ k.kind = tasks[i].kind
          /\ k.student = tasks[i].student /\ k.text = tasks[i].text
      BY <1>5, <3>1, StepOfTask
    <3>. QED BY <3>2, <3>3
  <2>2. /\ tasks' \in Seq(Task) /\ Len(tasks') = Len(tasks)
        /\ \A j \in 1..Len(tasks) : tasks'[j] = IF j = i THEN k ELSE tasks[j]
    BY <1>1, <2>1
  <2>3. ASSUME NEW j \in 1..Len(tasks')
        PROVE  TaskWas(j)
    <3>1. TaskCame(j, j)
      BY <1>5, <2>1, <2>2 DEF TaskCame
    <3>2. Behind(j, j)
      BY <1>1, <1>5, <2>2 DEF Behind
    <3>. QED BY <2>2, <3>1, <3>2 DEF TaskWas
  <2>. QED BY <2>2, <2>3
<1>6. ASSUME NEW s \in Students, Login(s), Launches(NewTask("persist", s, NoText))
      PROVE  /\ tasks' \in Seq(Task)
             /\ \A j \in 1..Len(tasks') : TaskWas(j) \/ TaskNew(j)
  <2>1. NoText \in Text
    BY TextTypes
  <2>. QED BY <1>2, <1>6, <2>1, NewTaskIs
<1>7. CASE Logout /\ Launches(NewTask("wipe", NoStudent, NoText))
  <2>1. NoText \in Text
    BY TextTypes
  <2>2. PICK task \in Task : /\ task = NewTask("wipe", NoStudent, NoText)
                              /\ task.kind = "wipe" /\ task.step = 0
    BY <2>1, NewTaskIs
  <2>. QED BY <1>2, <1>7, <2>2
<1>8. ASSUME NEW t \in Threads, Finish(t), RemovesDraft(t)
      PROVE  /\ tasks' \in Seq(Task)
             /\ \A j \in 1..Len(tasks') : TaskWas(j) \/ TaskNew(j)
  <2>1. thread[t].text \in Text
    BY DEF SessionShaped, ThreadsShaped, Thread
  <2>2. /\ tasks' \in Seq(Task) /\ Len(tasks') = Len(tasks) + 1
        /\ tasks'[Len(tasks) + 1] = NewTask("forget", NoStudent, thread[t].text)
        /\ \A j \in 1..Len(tasks) :
             /\ tasks'[j].kind = tasks[j].kind /\ tasks'[j].text = tasks[j].text
             /\ tasks'[j].student = tasks[j].student /\ tasks'[j].step = tasks[j].step
             /\ tasks[j].kind # "save" => tasks'[j] = tasks[j]
    BY <1>8, <2>1, ForgetsAfter
  <2>3. \A j \in 1..Len(tasks) : TaskCame(j, j) /\ Behind(j, j)
    BY <1>1, <2>2 DEF TaskCame, Behind
  <2>4. TaskNew(Len(tasks) + 1)
    <3>1. PICK task \in Task : /\ task = NewTask("forget", NoStudent, thread[t].text)
                               /\ task.kind = "forget" /\ task.step = 0
      BY <2>1, NewTaskIs
    <3>. QED BY <1>8, <2>2, <3>1 DEF TaskNew
  <2>. QED BY <1>1, <2>2, <2>3, <2>4 DEF TaskWas
<1>9. CASE Saving /\ form'.student \in Students
  <2>1. form'.text \in Text
    BY FormShapeStep DEF FormShaped, Form
  <2>2. Launches(NewTask("save", form'.student, form'.text))
    BY <1>9 DEF Saving, SaveDraft, Launch, Launches
  <2>. QED BY <1>2, <1>9, <2>1, <2>2, NewTaskIs
<1>. QED BY <1>3, <1>31, <1>4, <1>5, <1>6, <1>7, <1>8, <1>9, TasksEffect

\* The tasks keep their shape.
LEMMA TasksShapeStep ==
  ASSUME SessionAssumption, SessionShaped, Step
  PROVE  TasksShaped'
<1>1. tasks' \in Seq(Task)
  BY TaskKeeps
<1>2. ASSUME NEW j \in 1..Len(tasks')
      PROVE  /\ tasks'[j].step <= LastStep(tasks'[j].kind)
             /\ tasks'[j].kind = "save" => tasks'[j].student \in Students
  <2>1. tasks'[j] \in Task
    BY <1>1, <1>2
  <2>2. LastStep(tasks'[j].kind) \in 0..2
    BY <2>1 DEF Task, LastStep
  <2>3. CASE TaskWas(j)
    <3>1. PICK i \in 1..Len(tasks) :
            /\ tasks'[j].kind = tasks[i].kind /\ tasks'[j].student = tasks[i].student
            /\ \/ tasks'[j].step = tasks[i].step
               \/ /\ tasks'[j].step = tasks[i].step + 1
                  /\ tasks[i].step # LastStep(tasks[i].kind)
      BY <2>3 DEF TaskWas, TaskCame
    <3>2. /\ tasks[i].step \in 0..LastStep(tasks[i].kind)
          /\ tasks[i].kind = "save" => tasks[i].student \in Students
      BY TaskIs
    <3>. QED BY <2>2, <3>1, <3>2
  <2>4. CASE TaskNew(j)
    BY <2>2, <2>4 DEF TaskNew
  <2>. QED BY <1>2, <2>3, <2>4, TaskKeeps
<1>. QED BY <1>1, <1>2 DEF TasksShaped


\* A task that does not step stays, a save perhaps left with its list.
LEMMA TaskStays ==
  ASSUME SessionShaped, Step, ~LoadPage,
         NEW m \in 1..Len(tasks), tasks[m].kind # "save", ~TaskStep(m), ~TaskFails(m)
  PROVE  \E n \in 1..Len(tasks') : tasks'[n] = tasks[m]
<1>1. tasks \in Seq(Task) /\ Len(tasks) \in Nat
  BY DEF SessionShaped, TasksShaped
<1>2. CASE tasks' = tasks
  BY <1>2
<1>3. ASSUME NEW task, Launches(task)
      PROVE  m \in 1..Len(tasks') /\ tasks'[m] = tasks[m]
  BY <1>1, <1>3 DEF Launches
<1>4. ASSUME NEW i \in 1..Len(tasks), TaskStep(i) \/ TaskFails(i), tasks' = Without(tasks, i)
      PROVE  \E n \in 1..Len(tasks') : tasks'[n] = tasks[m]
  BY <1>1, <1>4, WithoutKeepsPlace
<1>5. ASSUME NEW i \in 1..Len(tasks), TaskStep(i),
             tasks' = [tasks EXCEPT ![i].step = tasks[i].step + 1]
      PROVE  m \in 1..Len(tasks') /\ tasks'[m] = tasks[m]
  <2>1. PICK k : tasks' = [tasks EXCEPT ![i] = k]
    BY <1>5
  <2>2. m # i
    BY <1>5
  <2>. QED BY <1>1, <2>1, <2>2
<1>6. Saving => \E task : Launches(task)
  BY DEF Saving, SaveDraft, Launch, Launches
<1>7. ASSUME NEW t \in Threads, RemovesDraft(t)
      PROVE  m \in 1..Len(tasks') /\ tasks'[m] = tasks[m]
  <2>1. thread[t].text \in Text
    BY DEF SessionShaped, ThreadsShaped, Thread
  <2>. QED BY <1>1, <1>7, <2>1, ForgetsAfter
<1>. QED BY <1>2, <1>3, <1>4, <1>5, <1>6, <1>7, TasksEffect

\* A submission, and its fields.
LEMMA ThreadIs ==
  ASSUME SessionShaped, NEW t \in Threads
  PROVE  /\ thread[t] \in Thread /\ thread[t].text \in Text /\ thread[t].files \in Seq(File)
         /\ thread[t].phase # "idle" => thread[t].student \in Students
         /\ thread[t].phase = "attach" => /\ thread[t].files # <<>>
                                          /\ thread[t].c \in 1..Len(complaints)
<1>1. thread[t] \in Thread
  BY DEF SessionShaped, ThreadsShaped
<1>2. thread[t].text \in Text /\ thread[t].files \in Seq(File)
  BY <1>1 DEF Thread
<1>. QED BY <1>1, <1>2 DEF SessionShaped, ThreadsShaped

\* What becomes of the complaints: one more, or one more row.
RowAdded(i) ==
  \E t \in Threads : /\ Attach(t) /\ i = thread[t].c /\ Len(complaints[i].rows) < MaxAttachments
                     /\ complaints'[i].rows = Append(complaints[i].rows, Head(thread[t].files))

\* Registering appends a complaint.
LEMMA ComplaintAppended ==
  ASSUME SessionShaped, NEW t \in Threads, thread[t].phase = "register",
         NEW all, all = Append(complaints, Registration(t))
  PROVE  /\ all \in Seq(Complaint) /\ Len(all) = Len(complaints) + 1
         /\ all[Len(complaints) + 1] = Registration(t)
         /\ \A i \in 1..Len(complaints) : all[i] = complaints[i]
<1>1. complaints \in Seq(Complaint) /\ thread[t].student \in Students
  BY ThreadIs DEF SessionShaped, ThreadsShaped
<1>2. Registration(t) \in Complaint
  <2>1. <<>> \in Seq(File)
    BY EmptySeq
  <2>. QED BY <1>1, <2>1, ThreadIs DEF Registration, Complaint
<1>. QED BY <1>1, <1>2

\* What a step does to the complaints.
LEMMA ComplaintsEffect ==
  ASSUME SessionShaped, Step
  PROVE  /\ complaints' \in Seq(Complaint)
         /\ \/ Len(complaints') = Len(complaints)
            \/ /\ Len(complaints') = Len(complaints) + 1
               /\ \E t \in Threads : /\ Register(t) \/ RegisterFails(t)
                                     /\ complaints'[Len(complaints) + 1] = Registration(t)
         /\ \A i \in 1..Len(complaints) :
              /\ complaints'[i].text = complaints[i].text
              /\ complaints'[i].student = complaints[i].student
              /\ complaints'[i].rows = complaints[i].rows \/ RowAdded(i)
<1>. DEFINE P == /\ complaints' \in Seq(Complaint)
                 /\ \/ Len(complaints') = Len(complaints)
                    \/ /\ Len(complaints') = Len(complaints) + 1
                       /\ \E t \in Threads : /\ Register(t) \/ RegisterFails(t)
                                             /\ complaints'[Len(complaints) + 1] = Registration(t)
                 /\ \A i \in 1..Len(complaints) :
                      /\ complaints'[i].text = complaints[i].text
                      /\ complaints'[i].student = complaints[i].student
                      /\ complaints'[i].rows = complaints[i].rows \/ RowAdded(i)
<1>1. complaints \in Seq(Complaint) /\ Len(complaints) \in Nat
  BY DEF SessionShaped, ThreadsShaped
<1>2. CASE complaints' = complaints
  BY <1>1, <1>2
<1>3. ASSUME NEW t \in Threads, Register(t) \/ RegisterFails(t)
      PROVE  P
  <2>1. CASE complaints' = Append(complaints, Registration(t))
    <3>1. thread[t].phase = "register"
      BY <1>3 DEF Register, RegisterFails
    <3>2. /\ complaints' \in Seq(Complaint) /\ Len(complaints') = Len(complaints) + 1
          /\ complaints'[Len(complaints) + 1] = Registration(t)
          /\ \A i \in 1..Len(complaints) : complaints'[i] = complaints[i]
      BY <2>1, <3>1, ComplaintAppended
    <3>. QED BY <1>3, <3>2
  <2>2. CASE complaints' # Append(complaints, Registration(t))
    BY <1>2, <1>3, <2>2 DEF Register, RegisterFails
  <2>. QED BY <2>1, <2>2
<1>4. ASSUME NEW t \in Threads, Attach(t)
      PROVE  P
  <2>. DEFINE c == thread[t].c
  <2>1. c \in 1..Len(complaints) /\ complaints[c] \in Complaint
    BY <1>1, <1>4, ThreadIs DEF Attach
  <2>2. Head(thread[t].files) \in File /\ complaints[c].rows \in Seq(File)
    BY <1>4, <2>1, ThreadIs DEF Attach, Complaint
  <2>3. PICK rows : rows = Append(complaints[c].rows, Head(thread[t].files))
    OBVIOUS
  <2>4. rows \in Seq(File)
    BY <2>2, <2>3
  <2>5. CASE Len(complaints[c].rows) < MaxAttachments
             /\ complaints' = [complaints EXCEPT ![c].rows = rows]
    <3>1. PICK new : new = [complaints[c] EXCEPT !.rows = rows]
      OBVIOUS
    <3>2. new \in Complaint /\ new.text = complaints[c].text /\ new.rows = rows
          /\ new.student = complaints[c].student
      BY <2>1, <2>4, <3>1 DEF Complaint
    <3>3. /\ complaints' \in Seq(Complaint) /\ Len(complaints') = Len(complaints)
          /\ \A i \in 1..Len(complaints) :
               complaints'[i] = IF i = c THEN new ELSE complaints[i]
      BY <1>1, <2>1, <2>5, <3>1, <3>2
    <3>4. RowAdded(c)
      BY <1>4, <2>1, <2>3, <2>5, <3>2, <3>3 DEF RowAdded
    <3>. QED BY <3>2, <3>3, <3>4
  <2>6. \/ complaints' = complaints
        \/ Len(complaints[c].rows) < MaxAttachments
           /\ complaints' = [complaints EXCEPT ![c].rows = rows]
    BY <1>4, <2>3 DEF Attach
  <2>. QED BY <1>2, <2>5, <2>6
<1>5. ASSUME NEW t \in Threads, Submit(t) \/ Finish(t) \/ FinishForNobody(t)
      PROVE  P
  BY <1>2, <1>5 DEF Submit, Finish, FinishForNobody
<1>. QED BY <1>2, <1>3, <1>4, <1>5, ThreadEffect DEF SubmissionStep

\* A thread that may attach, of n complaints.
ThreadOK(k, n) == /\ k \in Thread
                  /\ k.phase # "idle" => k.student \in Students
                  /\ k.phase = "attach" => k.files # <<>> /\ k.c \in 1..n

\* A step of one submission keeps the shape of all.
LEMMA OneThread ==
  ASSUME SessionShaped, NEW t \in Threads, NEW k, Step,
         thread' = [thread EXCEPT ![t] = k], ThreadOK(k, Len(complaints'))
  PROVE  ThreadsShaped'
<1>1. /\ thread \in [Threads -> Thread] /\ Len(complaints) \in Nat
      /\ \A u \in Threads : ThreadOK(thread[u], Len(complaints))
  BY DEF SessionShaped, ThreadsShaped, ThreadOK
<1>2. /\ complaints' \in Seq(Complaint)
      /\ Len(complaints') = Len(complaints) \/ Len(complaints') = Len(complaints) + 1
  BY ComplaintsEffect
<1>3. thread' \in [Threads -> Thread]
  BY <1>1 DEF ThreadOK
<1>4. \A u \in Threads : ThreadOK(thread'[u], Len(complaints'))
  <2>1. \A u \in Threads : ThreadOK(thread[u], Len(complaints'))
    BY <1>1, <1>2 DEF ThreadOK
  <2>. QED BY <1>1, <2>1
<1>. QED BY <1>2, <1>3, <1>4 DEF ThreadsShaped, ThreadOK

\* A submission that ended has the shape of one.
LEMMA IdleThreadOK ==
  ASSUME SessionAssumption, SessionShaped
  PROVE  IdleThread \in Thread /\ \A n : ThreadOK(IdleThread, n)
<1>1. NoText \in Text /\ <<>> \in Seq(File)
  BY TextTypes, EmptySeq
<1>. QED BY <1>1 DEF IdleThread, Thread, ThreadOK

\* The submissions keep their shape.
LEMMA ThreadsShapeStep ==
  ASSUME SessionAssumption, SessionShaped, Step
  PROVE  ThreadsShaped'
<1>1. /\ complaints' \in Seq(Complaint) /\ Len(complaints) \in Nat
      /\ \A t \in Threads : ThreadOK(thread[t], Len(complaints))
  BY ComplaintsEffect, ThreadIs DEF SessionShaped, ThreadsShaped, ThreadOK
<1>2. CASE Left /\ complaints' = complaints
  <2>1. ASSUME NEW t \in Threads
        PROVE  ThreadOK(thread'[t], Len(complaints))
    <3>1. ThreadOK(thread[t], Len(complaints)) /\ thread[t] \in Thread
      BY <1>1 DEF ThreadOK
    <3>2. /\ thread'[t] \in Thread /\ thread'[t].phase = thread[t].phase
          /\ thread'[t].student = thread[t].student /\ thread'[t].files = thread[t].files
          /\ thread'[t].c = thread[t].c
      BY <1>2, <3>1 DEF Left, Thread
    <3>. QED BY <3>1, <3>2 DEF ThreadOK
  <2>2. thread' \in [Threads -> Thread]
    BY <2>1, ThreadEffect DEF ThreadOK
  <2>. QED BY <1>1, <1>2, <2>1, <2>2 DEF ThreadsShaped, ThreadOK
<1>21. CASE thread' = thread /\ complaints' = complaints
  BY <1>21 DEF SessionShaped, ThreadsShaped
<1>3. ASSUME NEW t \in Threads, Submit(t)
      PROVE  ThreadsShaped'
  <2>1. form \in Form /\ form.student = user /\ user \in Students /\ form.text \in Text
    BY <1>3, TextTypes DEF Submit, SessionShaped, FormShaped, ViewShaped, Form
  <2>2. PICK k : k = [phase |-> "register", student |-> form.student, text |-> form.text,
                      files |-> selected, c |-> 0, same |-> TRUE, page |-> TRUE]
    OBVIOUS
  <2>3. ThreadOK(k, Len(complaints'))
    BY <2>1, <2>2, SelectedType DEF ThreadOK, Thread
  <2>4. thread' = [thread EXCEPT ![t] = k]
    BY <1>3, <2>2 DEF Submit
  <2>. QED BY <2>3, <2>4, OneThread
<1>4. ASSUME NEW t \in Threads, Register(t)
      PROVE  ThreadsShaped'
  <2>1. PICK k : k = [thread[t] EXCEPT
                        !.phase = IF thread[t].files = <<>> THEN "finish" ELSE "attach",
                        !.c = Len(complaints) + 1]
    OBVIOUS
  <2>2. thread' = [thread EXCEPT ![t] = k]
    BY <1>4, <2>1 DEF Register, SessionShaped, ThreadsShaped
  <2>3. Len(complaints') = Len(complaints) + 1
    BY <1>4, ComplaintAppended DEF Register
  <2>4. k \in Thread /\ k.student \in Students
        /\ (k.phase = "attach" => k.files # <<>>) /\ k.c = Len(complaints) + 1
    <3>1. thread[t] \in Thread /\ thread[t].student \in Students
      BY <1>4, ThreadIs DEF Register
    <3>2. PICK phase \in {"attach", "finish"} :
            phase = IF thread[t].files = <<>> THEN "finish" ELSE "attach"
      OBVIOUS
    <3>3. k = [thread[t] EXCEPT !.phase = phase, !.c = Len(complaints) + 1]
      BY <2>1, <3>2
    <3>4. Len(complaints) + 1 \in Nat
      BY <1>1
    <3>5. /\ k \in Thread /\ k.student = thread[t].student /\ k.files = thread[t].files
          /\ k.phase = phase /\ k.c = Len(complaints) + 1
      BY <3>1, <3>3, <3>4 DEF Thread
    <3>. QED BY <3>1, <3>2, <3>5
  <2>5. ThreadOK(k, Len(complaints'))
    BY <1>1, <2>3, <2>4 DEF ThreadOK
  <2>. QED BY <2>2, <2>5, OneThread
<1>5. ASSUME NEW t \in Threads, RegisterFails(t) \/ Finish(t) \/ FinishForNobody(t)
      PROVE  ThreadsShaped'
  <2>1. thread' = [thread EXCEPT ![t] = IdleThread]
    BY <1>5 DEF RegisterFails, Finish, FinishForNobody
  <2>. QED BY <2>1, OneThread, IdleThreadOK
<1>6. ASSUME NEW t \in Threads, Attach(t)
      PROVE  ThreadsShaped'
  <2>1. PICK rest : rest = Tail(thread[t].files)
    OBVIOUS
  <2>2. PICK k : k = [thread[t] EXCEPT !.files = rest,
                                       !.phase = IF rest = <<>> THEN "finish" ELSE "attach"]
    OBVIOUS
  <2>3. thread' = [thread EXCEPT ![t] = k]
    BY <1>6, <2>1, <2>2 DEF Attach, SessionShaped, ThreadsShaped
  <2>4. thread[t] \in Thread /\ thread[t].student \in Students /\ rest \in Seq(File)
        /\ thread[t].c \in 1..Len(complaints)
    BY <1>6, <2>1, ThreadIs DEF Attach
  <2>5. k \in Thread /\ k.student \in Students /\ k.files = rest
        /\ (k.phase = "attach" => rest # <<>>) /\ k.c = thread[t].c
    BY <2>2, <2>4 DEF Thread
  <2>6. k.c \in 1..Len(complaints')
    BY <1>1, <2>4, <2>5, ComplaintsEffect
  <2>7. ThreadOK(k, Len(complaints'))
    BY <2>5, <2>6 DEF ThreadOK
  <2>. QED BY <2>3, <2>7, OneThread
<1>. QED BY <1>2, <1>21, <1>3, <1>4, <1>5, <1>6, ThreadEffect DEF SubmissionStep

\* The ghosts grow, and stay in range.
LEMMA GhostsStep ==
  ASSUME SessionAssumption, SessionShaped, Step
  PROVE  GhostsShaped' /\ interrupted \subseteq interrupted' /\ leftovers \subseteq leftovers'
<1>. DEFINE P == /\ GhostsShaped'
                /\ interrupted \subseteq interrupted' /\ leftovers \subseteq leftovers'
<1>. USE DEF GhostsShaped
<1>0. GhostsShaped
  BY DEF SessionShaped
<1>1. Sending \subseteq Text
  BY ThreadIs DEF Sending
<1>2. Unforgotten(tasks) \subseteq Text
  BY TaskIs DEF Unforgotten
<1>3. CASE UNCHANGED <<disk, interrupted, leftovers>>
  BY <1>0, <1>3
<1>4. CASE \/ \E s \in Students : Login(s)
           \/ BuildForm \/ TypeText \/ RestoreAuth \/ RestoreRejected \/ RestoreFails
           \/ RestoreDraft \/ RestoreDraftFails \/ UNCHANGED allVars
  BY <1>3, <1>4 DEF Login, BuildForm, TypeText, RestoreAuth, RestoreRejected, RestoreFails,
                    RestoreDraft, RestoreDraftFails, allVars, sessionVars
<1>5. CASE Logout
  <2>1. /\ \A i \in 1..Len(selected) : selected[i] \in File
        /\ \A i \in 1..Len(queue) : queue[i] \in File
    BY DEF SessionShaped, UploadsInv, UploadsTypeOK
  <2>2. {selected[i].n : i \in 1..Len(selected)} \subseteq 1..MaxFiles
    BY <2>1 DEF File
  <2>3. {queue[i].n : i \in 1..Len(queue)} \subseteq 1..MaxFiles
    BY <2>1 DEF File
  <2>4. /\ interrupted' = interrupted \union Sending /\ disk' = disk
        /\ leftovers' = leftovers \union {selected[i].n : i \in 1..Len(selected)}
                                  \union {queue[i].n : i \in 1..Len(queue)}
    BY <1>5 DEF Logout
  <2>. HIDE DEF Sending
  <2>. QED BY <1>0, <1>1, <2>2, <2>3, <2>4
<1>6. CASE RenderPortal
  BY <1>0, <1>1, <1>6 DEF RenderPortal
<1>7. CASE LoadPage
  BY <1>0, <1>1, <1>2, <1>7 DEF LoadPage
<1>8. CASE Pick
  <2>1. picked \in 0..MaxFiles /\ picked' \in 0..MaxFiles
    BY SessionUploads DEF Step, SessionShaped, UploadsInv, UploadsTypeOK
  <2>2. (picked + 1)..picked' \subseteq 1..MaxFiles
    BY <2>1, UploadsAssumption
  <2>3. disk' = disk /\ interrupted' = interrupted
        /\ (leftovers' = leftovers \/ leftovers' = leftovers \union (picked + 1)..picked')
    BY <1>8 DEF Pick
  <2>. QED BY <1>0, <2>2, <2>3
<1>9. CASE Unheard \/ \E n \in 1..MaxFiles : UploadEvent(n)
  <2>1. disk' = disk \/ \E n \in 1..MaxFiles : disk' = disk \union {n}
    BY <1>9 DEF Unheard, UploadEvent
  <2>2. UNCHANGED <<interrupted, leftovers>>
    BY <1>9 DEF Unheard, UploadEvent
  <2>. QED BY <1>0, <2>1, <2>2
<1>10. CASE RemoveSelected
  BY <1>0, <1>10 DEF RemoveSelected
<1>11. ASSUME NEW t \in Threads, Submit(t) \/ SubmissionStep(t)
       PROVE  P
  <2>1. disk' \subseteq disk
    BY <1>11 DEF Submit, SubmissionStep, Register, RegisterFails, Attach, Finish, FinishForNobody
  <2>2. leftovers' = leftovers
        /\ (interrupted' = interrupted \/ interrupted' = interrupted \union {thread[t].text})
    BY <1>11 DEF Submit, SubmissionStep, Register, RegisterFails, Attach, Finish, FinishForNobody
  <2>. QED BY <1>0, <2>1, <2>2, ThreadIs
<1>12. ASSUME NEW i \in 1..Len(tasks), TaskStep(i) \/ TaskFails(i)
       PROVE  P
  <2>1. UNCHANGED <<disk, leftovers>>
        /\ (interrupted' = interrupted
            \/ interrupted' = interrupted \union Unforgotten(<<tasks[i]>>))
    BY <1>12 DEF TaskStep, TaskFails
  <2>2. Unforgotten(<<tasks[i]>>) \subseteq {tasks[i].text}
    BY DEF Unforgotten
  <2>3. tasks[i].text \in Text
    BY TaskIs
  <2>. QED BY <1>0, <2>1, <2>2, <2>3
<1>. QED BY <1>4, <1>5, <1>6, <1>7, <1>8, <1>9, <1>10, <1>11, <1>12 DEF Step, SessionNext

\* The shapes are kept by every step,
LEMMA SessionShapeStep ==
  ASSUME SessionAssumption, SessionShaped, Step
  PROVE  SessionShaped'
<1>1. UploadsInv'
  BY SessionUploads DEF Step
<1>. QED BY <1>1, ViewStep, FormShapeStep, DraftsStep, TasksShapeStep, ThreadsShapeStep,
            GhostsStep DEF SessionShaped

\* hold at the start,
LEMMA SessionShapeBegins ==
  ASSUME SessionAssumption, SessionInit
  PROVE  SessionShaped
<1>0. MaxTyped \in Nat /\ MaxLogins \in Nat /\ MaxFailures \in Nat
  BY SessionAssumption
<1>1. UploadsInv
  BY UploadsBegin DEF SessionInit
<1>2. ViewShaped
  BY <1>0 DEF SessionInit, ViewShaped
<1>3. NoText \in Text /\ NoForm \in Form
  BY <1>0 DEF NoText, Text, NoForm, Form
<1>4. FormShaped
  <2>1. form = NoForm /\ hookStudent = NoStudent
    BY DEF SessionInit, UploadsInit
  <2>. QED BY <1>3, <2>1 DEF FormShaped, NoForm
<1>5. DraftsShaped
  BY DEF SessionInit, DraftsShaped, Browser
<1>6. TasksShaped
  <2>1. tasks = <<>>
    BY DEF SessionInit
  <2>. QED BY <2>1, EmptySeq DEF TasksShaped
<1>7. ThreadsShaped
  <2>1. IdleThread \in Thread /\ IdleThread.phase = "idle"
    BY <1>3, EmptySeq DEF IdleThread, Thread
  <2>2. thread = [t \in Threads |-> IdleThread] /\ complaints = <<>>
    BY DEF SessionInit
  <2>. QED BY <2>1, <2>2, EmptySeq DEF ThreadsShaped
<1>8. GhostsShaped
  BY DEF SessionInit, GhostsShaped
<1>. QED BY <1>1, <1>2, <1>4, <1>5, <1>6, <1>7, <1>8 DEF SessionShaped

\* and give the types.
LEMMA ShapedIsTyped ==
  ASSUME SessionShaped
  PROVE  TypeOK
BY DEF SessionShaped, UploadsInv, ViewShaped, FormShaped, DraftsShaped, Browser, TasksShaped,
       ThreadsShaped, GhostsShaped, TypeOK

-----------------------------------------------------------------------------
(* The session: whose texts and files.                                     *)

\* What becomes of a submission.
ThreadSubmits(u) ==
  /\ Submit(u) /\ thread'[u].phase = "register" /\ thread'[u].same /\ thread'[u].page
  /\ thread'[u].student = form.student /\ thread'[u].text = form.text
  /\ thread'[u].files = selected

ThreadGoesOn(u) ==
  /\ thread'[u].student = thread[u].student /\ thread'[u].text = thread[u].text
  /\ \/ thread'[u].same = thread[u].same /\ thread'[u].page = thread[u].page
     \/ Leaving /\ ~thread'[u].same
  /\ \/ /\ thread'[u].phase = thread[u].phase /\ thread'[u].c = thread[u].c
        /\ thread'[u].files = thread[u].files
     \/ /\ Register(u) /\ thread[u].phase = "register"
        /\ thread'[u].phase \in {"attach", "finish"}
        /\ thread'[u].c = Len(complaints) + 1 /\ thread'[u].files = thread[u].files
     \/ /\ Attach(u) /\ thread[u].phase = "attach"
        /\ thread'[u].phase \in {"attach", "finish"}
        /\ thread'[u].c = thread[u].c /\ thread'[u].files = Tail(thread[u].files)

\* A submission after a step: a new one, or one that goes on.
LEMMA ThreadSource ==
  ASSUME SessionAssumption, SessionShaped, Step, NEW u \in Threads
  PROVE  thread'[u] = IdleThread \/ ThreadSubmits(u) \/ ThreadGoesOn(u)
<1>1. thread[u] \in Thread /\ thread \in [Threads -> Thread]
  BY ThreadIs DEF SessionShaped, ThreadsShaped
<1>2. CASE thread'[u] = thread[u]
  BY <1>2 DEF ThreadGoesOn
<1>3. CASE Leaving /\ Left
  <2>1. \/ thread'[u] = [thread[u] EXCEPT !.same = FALSE]
        \/ thread'[u] = [thread[u] EXCEPT !.same = FALSE, !.page = FALSE]
    BY <1>3 DEF Left
  <2>2. /\ thread'[u].same = FALSE /\ thread'[u].student = thread[u].student
        /\ thread'[u].text = thread[u].text /\ thread'[u].phase = thread[u].phase
        /\ thread'[u].c = thread[u].c /\ thread'[u].files = thread[u].files
    BY <1>1, <2>1 DEF Thread
  <2>. QED BY <1>3, <2>2 DEF ThreadGoesOn
<1>4. ASSUME NEW t \in Threads, Submit(t) \/ SubmissionStep(t), t # u
      PROVE  thread'[u] = thread[u]
  <2>1. \E k : thread' = [thread EXCEPT ![t] = k]
    BY <1>4 DEF Submit, SubmissionStep, Register, RegisterFails, Attach, Finish, FinishForNobody
  <2>. QED BY <1>1, <1>4, <2>1
<1>5. CASE Submit(u)
  <2>1. thread' = [thread EXCEPT ![u] = [phase |-> "register", student |-> form.student,
                     text |-> form.text, files |-> selected, c |-> 0, same |-> TRUE,
                     page |-> TRUE]]
    BY <1>5 DEF Submit
  <2>. QED BY <1>1, <1>5, <2>1 DEF ThreadSubmits
<1>6. CASE RegisterFails(u) \/ Finish(u) \/ FinishForNobody(u)
  <2>1. thread' = [thread EXCEPT ![u] = IdleThread]
    BY <1>6 DEF RegisterFails, Finish, FinishForNobody
  <2>. QED BY <1>1, <2>1
<1>7. CASE Register(u)
  <2>1. PICK phase \in {"attach", "finish"} :
          phase = IF thread[u].files = <<>> THEN "finish" ELSE "attach"
    OBVIOUS
  <2>2. thread' = [thread EXCEPT ![u].phase = phase, ![u].c = Len(complaints) + 1]
        /\ thread[u].phase = "register"
    BY <1>7, <2>1 DEF Register
  <2>3. thread'[u] = [thread[u] EXCEPT !.phase = phase, !.c = Len(complaints) + 1]
    BY <1>1, <2>2
  <2>4. /\ thread'[u].phase = phase /\ thread'[u].c = Len(complaints) + 1
        /\ thread'[u].student = thread[u].student /\ thread'[u].text = thread[u].text
        /\ thread'[u].files = thread[u].files /\ thread'[u].same = thread[u].same
        /\ thread'[u].page = thread[u].page
    BY <1>1, <2>3 DEF Thread
  <2>. QED BY <1>7, <2>1, <2>2, <2>4 DEF ThreadGoesOn
<1>8. CASE Attach(u)
  <2>1. PICK rest, phase : /\ rest = Tail(thread[u].files) /\ phase \in {"attach", "finish"}
                           /\ phase = IF rest = <<>> THEN "finish" ELSE "attach"
    OBVIOUS
  <2>2. thread' = [thread EXCEPT ![u].files = rest, ![u].phase = phase]
        /\ thread[u].phase = "attach"
    BY <1>8, <2>1 DEF Attach
  <2>3. thread'[u] = [thread[u] EXCEPT !.files = rest, !.phase = phase]
    BY <1>1, <2>2
  <2>4. /\ thread'[u].phase = phase /\ thread'[u].c = thread[u].c
        /\ thread'[u].student = thread[u].student /\ thread'[u].text = thread[u].text
        /\ thread'[u].files = rest /\ thread'[u].same = thread[u].same
        /\ thread'[u].page = thread[u].page
    BY <1>1, <2>3 DEF Thread
  <2>. QED BY <1>8, <2>1, <2>2, <2>4 DEF ThreadGoesOn
<1>. QED BY <1>2, <1>3, <1>4, <1>5, <1>6, <1>7, <1>8, ThreadEffect DEF SubmissionStep

\* No step gives a text to another student.
LEMMA TextsStep ==
  ASSUME SessionAssumption, SessionShaped, TextsInv, Step
  PROVE  TextsInv'
<1>0. /\ typed \in Nat /\ typed' \in Nat /\ typed <= typed'
      /\ TypeText => typed' = typed + 1
  <2>1. typed \in Nat /\ typed' \in Nat
    BY SessionAssumption, ViewStep DEF SessionShaped, ViewShaped
  <2>2. typed' = typed \/ TypeText
    BY DEF Step, SessionNext, Login, Logout, RenderPortal, BuildForm, Pick, Unheard,
           UploadEvent, RemoveSelected, Submit, SubmissionStep, Register, RegisterFails, Attach,
           Finish, FinishForNobody, TaskStep, TaskFails, LoadPage, RestoreAuth, RestoreRejected,
           RestoreFails, RestoreDraft, RestoreDraftFails, allVars, sessionVars
  <2>3. TypeText => typed' = typed + 1
    BY DEF TypeText
  <2>. QED BY <2>1, <2>2, <2>3
<1>1. ASSUME NEW text \in Text, NEW student, Own(text, student, typed)
      PROVE  Own(text, student, typed')
  <2>1. text.v \in Nat /\ text.v <= typed
    BY <1>1, TextTypes DEF Own
  <2>. QED BY <1>0, <1>1, <2>1 DEF Own
<1>2. Own(form'.text, form'.student, typed')
  <2>1. form \in Form /\ form.text \in Text /\ Own(form.text, form.student, typed)
    BY TextTypes DEF TextsInv
  <2>2. CASE \/ form' = form \/ form' = [form EXCEPT !.open = FALSE]
             \/ \E b \in BOOLEAN : form' = [form EXCEPT !.sending = b]
    <3>1. form'.text = form.text /\ form'.student = form.student
      BY <2>1, <2>2 DEF Form
    <3>. QED BY <1>1, <2>1, <3>1
  <2>3. \A student : Own(NoText, student, typed')
    BY <1>0, TextTypes DEF Own
  <2>4. CASE form' = NoForm
    BY <2>3, <2>4 DEF NoForm
  <2>5. CASE BuildForm /\ form' = [student |-> user, text |-> CurrentDraftText,
                                   open |-> TRUE, sending |-> FALSE]
    <3>1. CurrentDraftText = NoText \/ Own(CurrentDraftText, user, typed)
      BY DEF TextsInv, CurrentDraftText
    <3>2. Own(CurrentDraftText, user, typed')
      BY <1>1, <2>3, <3>1, TextTypes
    <3>. QED BY <2>5, <3>2
  <2>6. CASE TypeText /\ form' = [form EXCEPT !.text = [by |-> user, v |-> typed + 1]]
    <3>1. form.student = user /\ user \in Students
      BY <2>6 DEF TypeText, SessionShaped, FormShaped, ViewShaped
    <3>2. form'.text = [by |-> user, v |-> typed + 1] /\ form'.student = user
      BY <2>1, <2>6, <3>1 DEF Form
    <3>. QED BY <1>0, <2>6, <3>1, <3>2, UploadsAssumption DEF Own
  <2>. QED BY <2>2, <2>4, <2>5, <2>6, FormEffect
<1>3. \A i \in 1..Len(tasks) : tasks[i].text \in Text
       /\ (tasks[i].kind = "save" => Own(tasks[i].text, tasks[i].student, typed'))
  BY <1>1, TaskIs DEF TextsInv
<1>4. browser.draft # NoDraft => Own(browser.draft.text, browser.draft.owner, typed')
  BY <1>1 DEF TextsInv, SessionShaped, DraftsShaped, Browser, Draft
<1>5. storeDraft' # NoDraft => Own(storeDraft'.text, storeDraft'.owner, typed')
  <2>1. CASE storeDraft' = storeDraft
    BY <1>1, <2>1 DEF TextsInv, SessionShaped, DraftsShaped, Draft
  <2>. QED BY <1>2, <1>3, <1>4, <2>1, StoreDraftGives DEF SavedByTask
<1>6. browser'.draft # NoDraft => Own(browser'.draft.text, browser'.draft.owner, typed')
  BY <1>3, <1>4, BrowserGives
<1>7. ASSUME NEW j \in 1..Len(tasks'), tasks'[j].kind = "save"
      PROVE  Own(tasks'[j].text, tasks'[j].student, typed')
  BY <1>2, <1>3, <1>7, TaskKeeps DEF TaskWas, TaskCame, TaskNew
<1>8. \A t \in Threads : /\ thread[t].text \in Text
                         /\ thread[t].phase # "idle" =>
                              /\ Own(thread[t].text, thread[t].student, typed')
                              /\ thread[t].text # NoText
  BY <1>1, ThreadIs DEF TextsInv
<1>9. ASSUME NEW t \in Threads, thread'[t].phase # "idle"
      PROVE  Own(thread'[t].text, thread'[t].student, typed') /\ thread'[t].text # NoText
  <2>1. thread'[t] # IdleThread
    BY <1>9 DEF IdleThread
  <2>2. CASE ThreadSubmits(t)
    <3>1. form.text # NoText /\ Own(form.text, form.student, typed')
      BY <1>1, <2>2, TextTypes DEF ThreadSubmits, Submit, TextsInv
    <3>. QED BY <2>2, <3>1 DEF ThreadSubmits
  <2>3. CASE ThreadGoesOn(t)
    BY <1>8, <1>9, <2>3 DEF ThreadGoesOn
  <2>. QED BY <2>1, <2>2, <2>3, ThreadSource
<1>10. ASSUME NEW i \in 1..Len(complaints')
       PROVE  Own(complaints'[i].text, complaints'[i].student, typed')
              /\ complaints'[i].text # NoText
  <2>0. Len(complaints) \in Nat
    BY DEF SessionShaped, ThreadsShaped
  <2>1. CASE i \in 1..Len(complaints)
    <3>0. complaints[i] \in Complaint
      BY <2>1 DEF SessionShaped, ThreadsShaped
    <3>1. complaints[i].text \in Text
      BY <3>0 DEF Complaint
    <3>2. Own(complaints[i].text, complaints[i].student, typed') /\ complaints[i].text # NoText
      BY <1>1, <2>1, <3>1 DEF TextsInv
    <3>. QED BY <2>1, <3>2, ComplaintsEffect
  <2>2. CASE i \notin 1..Len(complaints)
    <3>1. PICK t \in Threads : /\ Register(t) \/ RegisterFails(t)
                               /\ complaints'[i] = Registration(t)
      BY <2>0, <2>2, <1>10, ComplaintsEffect
    <3>2. thread[t].phase # "idle"
      BY <3>1 DEF Register, RegisterFails
    <3>. QED BY <1>8, <3>1, <3>2 DEF Registration
  <2>. QED BY <2>1, <2>2
<1>. QED BY <1>2, <1>5, <1>6, <1>7, <1>9, <1>10 DEF TextsInv

\* Nothing is typed at the start.
LEMMA TextsBegin ==
  ASSUME SessionAssumption, SessionInit
  PROVE  TextsInv
<1>1. typed = 0 /\ form = NoForm /\ storeDraft = NoDraft /\ browser.draft = NoDraft
      /\ Len(tasks) = 0 /\ Len(complaints) = 0
      /\ thread = [t \in Threads |-> IdleThread]
  BY DEF SessionInit
<1>2. Own(NoText, NoStudent, 0)
  BY DEF Own, NoText
<1>. QED BY <1>1, <1>2 DEF TextsInv, NoForm, IdleThread

\* What the property says of them.
LEMMA TextsStay ==
  ASSUME TextsInv
  PROVE  TextStaysWithAuthor
BY DEF TextsInv, Own, TextStaysWithAuthor

\* The files of the session: selected ones and one that arrives.
Held(f) == \/ \E m \in 1..Len(selected) : f = selected[m]
           \/ \E m \in 1..Len(queue) : f = queue[m]

PickedNow(f) == /\ Pick /\ hookStudent \in Students /\ f.student = hookStudent
                /\ f.n = picked + 1 /\ picked' = picked + 1

RestoredNow(f) == RestoreDraft /\ f.student = user

\* An event at the end of a transfer takes the only file of the queue.
LEMMA EndOfQueue ==
  ASSUME SessionShaped, NEW n \in 1..MaxFiles, NEW final \in BOOLEAN, queue # <<>>,
         Advance(n, final)
  PROVE  queue' = <<>> /\ Held(Head(queue)) /\ Head(queue) \in File
<1>1. queue \in Seq(File) /\ Len(queue) <= 1
  BY DEF SessionShaped, UploadsInv, UploadsTypeOK, QueueInv
<1>2. /\ Len(queue) = 1 /\ Head(queue) \in File
      /\ \A k \in 0..(Len(queue) - 1) : SubSeq(queue, k + 2, Len(queue)) = <<>>
  BY <1>1, OneElement
<1>3. queue' = <<>>
  BY <1>2, Zenon DEF Advance
<1>4. Head(queue) = queue[1]
  BY <1>1, <1>2
<1>. QED BY <1>2, <1>3, <1>4 DEF Held

\* What a dialog adds: its answer, to the files or to the queue.
LEMMA PickGives ==
  ASSUME SessionShaped, Pick
  PROVE  /\ \A k \in 1..Len(selected') : Held(selected'[k]) \/ PickedNow(selected'[k])
         /\ \A k \in 1..Len(queue') : Held(queue'[k]) \/ PickedNow(queue'[k])
<1>. DEFINE P == /\ \A k \in 1..Len(selected') : Held(selected'[k]) \/ PickedNow(selected'[k])
                 /\ \A k \in 1..Len(queue') : Held(queue'[k]) \/ PickedNow(queue'[k])
<1>1. UploadsTypeOK /\ DialogInv /\ QueueInv /\ selected \in Seq(File)
  BY DEF SessionShaped, UploadsInv, UploadsTypeOK
<1>2. CASE UNCHANGED <<selected, queue>>
  BY <1>2 DEF Held
<1>3. ASSUME NEW i \in launched
      PROVE  hookStudent \in Students
  BY <1>1 DEF DialogInv, UploadsTypeOK
<1>4. ASSUME NEW i \in launched, NEW name \in Names, NEW temp \in BOOLEAN, picked < MaxFiles,
             picked' = picked + 1
      PROVE  Picked(name, temp) \in File /\ PickedNow(Picked(name, temp))
  <2>1. Picked(name, temp) \in File
    BY <1>1, <1>4, PickedType
  <2>. QED BY <1>3, <1>4, <2>1 DEF PickedNow, Picked
<1>5. ASSUME NEW i \in launched, NEW name \in Names, PickLocal(i, name)
      PROVE  P
  <2>1. PICK f \in File : PickedNow(f) /\ selected' = Append(selected, f) /\ queue' = queue
    <3>1. /\ picked < MaxFiles /\ picked' = picked + 1 /\ queue' = queue
          /\ selected' = Append(selected, Picked(name, FALSE))
      BY <1>5 DEF PickLocal
    <3>. QED BY <1>4, <3>1
  <2>2. /\ Len(selected') = Len(selected) + 1 /\ Len(selected) \in Nat
        /\ selected'[Len(selected) + 1] = f
        /\ \A k \in 1..Len(selected) : selected'[k] = selected[k]
    BY <1>1, <2>1
  <2>3. \A k \in 1..Len(selected') : k \in 1..Len(selected) \/ k = Len(selected) + 1
    BY <2>2
  <2>. QED BY <2>1, <2>2, <2>3 DEF Held
<1>6. ASSUME NEW i \in launched, NEW name \in Names, PickUpload(i, name)
      PROVE  P
  <2>1. /\ picked < MaxFiles /\ picked' = picked + 1 /\ selected' = selected
        /\ QueueComplaintUpload(Picked(name, TRUE)) /\ i = invocation
    BY <1>6 DEF PickUpload, PickAnswered
  <2>2. PICK f \in File : PickedNow(f) /\ QueueComplaintUpload(f)
    BY <1>4, <2>1
  <2>3. queue = <<>> /\ ~active
    BY <1>1, <2>1 DEF DialogInv, QueueInv
  <2>4. PICK q : q = Append(<<>>, f)
    OBVIOUS
  <2>5. PICK k \in 0..Len(q) : queue' = SubSeq(q, k + 1, Len(q))
    BY <2>2, <2>3, <2>4 DEF QueueComplaintUpload, ProcessUploadQueue, Started
  <2>6. /\ Len(q) = 1 /\ q[1] = f /\ SubSeq(q, 1, 1) = q /\ SubSeq(q, 2, 1) = <<>>
    BY <2>4, OneAppended
  <2>7. queue' = q \/ queue' = <<>>
    <3>1. k = 0 \/ k = 1
      BY <2>5, <2>6
    <3>. QED BY <2>5, <2>6, <3>1
  <2>8. \A m \in 1..Len(queue') : queue'[m] = f
    <3>1. CASE queue' = q
      <4>1. \A m \in 1..1 : m = 1
        OBVIOUS
      <4>. QED BY <2>6, <3>1, <4>1
    <3>2. CASE queue' = <<>>
      BY <3>2
    <3>. QED BY <2>7, <3>1, <3>2
  <2>. QED BY <2>1, <2>2, <2>8 DEF Held
<1>7. ASSUME NEW launches \in BOOLEAN, OpenPicker(launches)
      PROVE  UNCHANGED <<selected, queue>>
  BY <1>7 DEF OpenPicker
<1>8. ASSUME NEW i \in launched, PickNothing(i)
      PROVE  UNCHANGED <<selected, queue>>
  BY <1>8 DEF PickNothing
<1>. QED BY <1>2, <1>5, <1>6, <1>7, <1>8 DEF Pick

\* Where a file of the form or of the queue comes from.
LEMMA HeldEffect ==
  ASSUME SessionAssumption, SessionShaped, Step
  PROVE  /\ \A k \in 1..Len(selected') : \/ Held(selected'[k]) /\ ~LoadPage
                                         \/ PickedNow(selected'[k])
                                         \/ RestoredNow(selected'[k])
         /\ \A k \in 1..Len(queue') : \/ Held(queue'[k]) /\ ~LoadPage
                                      \/ PickedNow(queue'[k])
<1>. DEFINE P == /\ \A k \in 1..Len(selected') : \/ Held(selected'[k])
                                                 \/ PickedNow(selected'[k])
                                                 \/ RestoredNow(selected'[k])
                 /\ \A k \in 1..Len(queue') : Held(queue'[k]) \/ PickedNow(queue'[k])
<1>. SUFFICES P
  <2>1. LoadPage => Len(selected') = 0 /\ Len(queue') = 0
    BY DEF LoadPage, NewSession
  <2>2. \A k \in 1..0 : FALSE
    OBVIOUS
  <2>. QED BY <2>1, <2>2
<1>1. CASE UNCHANGED <<selected, queue>>
  BY <1>1 DEF Held
<1>2. CASE \/ \E s \in Students : Login(s)
           \/ Logout \/ RenderPortal \/ BuildForm \/ TypeText
           \/ RestoreAuth \/ RestoreRejected \/ RestoreFails \/ RestoreDraftFails
           \/ UNCHANGED allVars
  BY <1>1, <1>2 DEF Login, Logout, RenderPortal, BuildForm, TypeText, RestoreAuth,
     RestoreRejected, RestoreFails, RestoreDraftFails, allVars, uploadVars, BuildPortal,
     RegisterHooks
<1>3. CASE Pick
  BY <1>3, PickGives
<1>4. CASE Unheard
  BY <1>1, <1>4 DEF Unheard, PickerBecomesStale, PickSuperseded, TransferFallsSilent,
                    EventForNobody
<1>5. ASSUME NEW n \in 1..MaxFiles, UploadEvent(n)
      PROVE  P
  <2>1. CASE \E final \in BOOLEAN : EventForNobody(n, final)
    BY <1>1, <2>1 DEF EventForNobody
  <2>2. ASSUME NEW final \in BOOLEAN, UploadFinished(n, final)
        PROVE  P
    <3>1. queue' = <<>> /\ Held(Head(queue)) /\ Head(queue) \in File
      BY <2>2, EndOfQueue DEF UploadFinished, Expected
    <3>2. selected \in Seq(File) /\ selected' = Append(selected, Head(queue))
      BY <2>2 DEF UploadFinished, SessionShaped, UploadsInv, UploadsTypeOK
    <3>3. /\ Len(selected') = Len(selected) + 1 /\ Len(selected) \in Nat
          /\ selected'[Len(selected) + 1] = Head(queue)
          /\ \A k \in 1..Len(selected) : selected'[k] = selected[k]
      BY <3>1, <3>2
    <3>4. \A k \in 1..Len(selected') : k \in 1..Len(selected) \/ k = Len(selected) + 1
      BY <3>3
    <3>5. \A k \in 1..Len(selected') : Held(selected'[k])
      BY <3>1, <3>3, <3>4 DEF Held
    <3>. QED BY <3>1, <3>5
  <2>3. CASE UploadFailed(n)
    <3>1. queue' = <<>> /\ selected' = selected
      BY <2>3, EndOfQueue DEF UploadFailed, Expected
    <3>. QED BY <3>1 DEF Held
  <2>. QED BY <1>5, <2>1, <2>2, <2>3 DEF UploadEvent
<1>6. CASE RemoveSelected
  <2>1. PICK k \in 1..Len(selected) : selected' = Without(selected, k) /\ queue' = queue
    BY <1>6 DEF RemoveSelected, RemoveFile
  <2>2. selected \in Seq(File) /\ Len(selected) \in Nat
    BY DEF SessionShaped, UploadsInv, UploadsTypeOK
  <2>3. /\ Len(selected') = Len(selected) - 1
        /\ \A j \in 1..(Len(selected) - 1) :
             selected'[j] = IF j < k THEN selected[j] ELSE selected[j + 1]
    BY <2>1, <2>2, WithoutElements
  <2>4. \A j \in 1..(Len(selected) - 1) : j \in 1..Len(selected) /\ j + 1 \in 1..Len(selected)
    BY <2>2
  <2>. QED BY <2>1, <2>3, <2>4 DEF Held
<1>7. ASSUME NEW t \in Threads, Submit(t) \/ SubmissionStep(t)
      PROVE  P
  <2>1. UNCHANGED <<selected, queue>> \/ (selected' = <<>> /\ queue' = queue)
    BY <1>7 DEF Submit, SubmissionStep, Register, RegisterFails, Attach, Finish, FinishForNobody,
                ClearSelected, uploadVars
  <2>. QED BY <1>1, <2>1 DEF Held
<1>8. ASSUME NEW i \in 1..Len(tasks), TaskStep(i) \/ TaskFails(i)
      PROVE  P
  BY <1>1, <1>8 DEF TaskStep, TaskFails, uploadVars
<1>9. CASE LoadPage
  <2>1. selected' = <<>> /\ queue' = <<>>
    BY <1>9 DEF LoadPage, NewSession
  <2>2. Len(selected') = 0 /\ Len(queue') = 0
    BY <2>1
  <2>. QED BY <2>2
<1>10. CASE RestoreDraft
  <2>1. CASE browser.draft # NoDraft /\ browser.draft.owner = user
    <3>1. browser.draft.files \in Seq(File)
      BY <2>1 DEF SessionShaped, DraftsShaped, Browser, Draft
    <3>2. selected' = ValidFiles(browser.draft.files, user, disk) /\ queue' = queue
      BY <1>10, <2>1 DEF RestoreDraft, RestoreSelected
    <3>3. \A k \in 1..Len(selected') : selected'[k].student = user
      BY <3>1, <3>2, ValidFilesType
    <3>. QED BY <1>10, <3>2, <3>3 DEF Held, RestoredNow
  <2>2. CASE ~(browser.draft # NoDraft /\ browser.draft.owner = user)
    BY <1>1, <1>10, <2>2 DEF RestoreDraft, uploadVars
  <2>. QED BY <2>1, <2>2
<1>. QED BY <1>2, <1>3, <1>4, <1>5, <1>6, <1>7, <1>8, <1>9, <1>10 DEF Step, SessionNext

\* Nobody takes the place of a user but after a sign-out or a page load.
LEMMA UserEffect ==
  ASSUME SessionShaped, Step
  PROVE  user' = user \/ user = NoStudent \/ Logout \/ LoadPage
BY DEF Step, SessionNext, Login, RenderPortal, BuildForm, TypeText, Pick, Unheard, UploadEvent,
       RemoveSelected, Submit, SubmissionStep, Register, RegisterFails, Attach, Finish,
       FinishForNobody, TaskStep, TaskFails, RestoreAuth, RestoreRejected, RestoreFails,
       RestoreDraft, RestoreDraftFails, allVars, sessionVars, SessionShaped, ViewShaped

\* A file that is held in the next state is the user's, or left by a sign-out.
LEMMA FileKept ==
  ASSUME SessionAssumption, SessionShaped, FilesInv, Step, NEW f,
         (Held(f) /\ ~LoadPage) \/ PickedNow(f) \/ RestoredNow(f)
  PROVE  f.student \in Students /\ (f.student = user' \/ f.n \in leftovers')
<1>1. leftovers \subseteq leftovers'
  BY GhostsStep
<1>2. CASE Held(f) /\ ~LoadPage
  <2>1. f.student \in Students /\ (f.student = user \/ f.n \in leftovers)
    BY <1>2 DEF Held, FilesInv, Mine
  <2>2. CASE user' = user \/ user = NoStudent
    BY <1>1, <2>1, <2>2, UploadsAssumption
  <2>3. CASE Logout
    <3>1. leftovers' = leftovers \union {selected[i].n : i \in 1..Len(selected)}
                                 \union {queue[i].n : i \in 1..Len(queue)}
      BY <2>3 DEF Logout
    <3>2. f.n \in leftovers'
      BY <1>2, <3>1 DEF Held
    <3>. QED BY <2>1, <3>2
  <2>. QED BY <1>2, <2>2, <2>3, UserEffect
<1>3. CASE PickedNow(f)
  <2>1. /\ Pick /\ hookStudent \in Students /\ f.student = hookStudent
        /\ f.n = picked + 1 /\ picked' = picked + 1 /\ user' = user
    BY <1>3 DEF PickedNow, Pick
  <2>2. CASE form.open \/ hookStudent = user
    BY <2>1, <2>2 DEF SessionShaped, FormShaped
  <2>3. CASE ~(form.open \/ hookStudent = user)
    <3>1. leftovers' = leftovers \union (picked + 1)..picked'
      BY <2>1, <2>3 DEF Pick
    <3>2. picked \in Nat
      BY DEF SessionShaped, UploadsInv, UploadsTypeOK
    <3>3. f.n \in (picked + 1)..picked'
      BY <2>1, <3>2
    <3>. QED BY <2>1, <3>1, <3>3
  <2>. QED BY <2>2, <2>3
<1>4. CASE RestoredNow(f)
  <2>1. user' = user /\ user \in Students /\ f.student = user
    BY <1>4 DEF RestoredNow, RestoreDraft, SessionShaped, ViewShaped
  <2>. QED BY <2>1
<1>. QED BY <1>2, <1>3, <1>4

\* No step brings a student another's file, but what a sign-out left.
LEMMA FilesStep ==
  ASSUME SessionAssumption, SessionShaped, FilesInv, Step
  PROVE  FilesInv'
<1>0. leftovers \subseteq leftovers'
  BY GhostsStep
<1>1. \A k \in 1..Len(selected') :
         /\ selected'[k].student \in Students
         /\ selected'[k].student = user' \/ selected'[k].n \in leftovers'
  BY HeldEffect, FileKept
<1>2. \A k \in 1..Len(queue') :
         /\ queue'[k].student \in Students
         /\ queue'[k].student = user' \/ queue'[k].n \in leftovers'
  BY HeldEffect, FileKept
<1>3. ASSUME NEW t \in Threads, NEW k \in 1..Len(thread'[t].files)
      PROVE  \/ thread'[t].files[k].student = thread'[t].student
             \/ thread'[t].files[k].n \in leftovers'
  <2>1. CASE thread'[t] = IdleThread
    <3>1. Len(thread'[t].files) = 0
      BY <2>1 DEF IdleThread
    <3>. QED BY <1>3, <3>1
  <2>2. CASE ThreadSubmits(t)
    <3>1. thread'[t].files = selected /\ thread'[t].student = user
      BY <2>2 DEF ThreadSubmits, Submit, SessionShaped, FormShaped
    <3>. QED BY <1>0, <1>3, <3>1 DEF FilesInv, Mine
  <2>3. CASE ThreadGoesOn(t) /\ thread'[t].files = thread[t].files
    BY <1>0, <1>3, <2>3 DEF ThreadGoesOn, FilesInv, Mine
  <2>4. CASE /\ ThreadGoesOn(t) /\ thread[t].phase = "attach"
             /\ thread'[t].files = Tail(thread[t].files)
    <3>1. thread[t].files \in Seq(File) /\ thread[t].files # <<>>
      BY <2>4, ThreadIs
    <3>2. k + 1 \in 1..Len(thread[t].files) /\ thread'[t].files[k] = thread[t].files[k + 1]
      BY <1>3, <2>4, <3>1
    <3>3. thread'[t].student = thread[t].student
      BY <2>4 DEF ThreadGoesOn
    <3>. QED BY <1>0, <3>2, <3>3 DEF FilesInv, Mine
  <2>. QED BY <2>1, <2>2, <2>3, <2>4, ThreadSource DEF ThreadGoesOn
<1>4. ASSUME NEW t \in Threads, thread'[t].phase = "attach"
      PROVE  complaints'[thread'[t].c].student = thread'[t].student
  <2>1. CASE thread'[t] = IdleThread
    BY <1>4, <2>1 DEF IdleThread
  <2>2. CASE ThreadSubmits(t)
    BY <1>4, <2>2 DEF ThreadSubmits
  <2>3. CASE /\ thread[t].phase = "attach" /\ thread'[t].c = thread[t].c
             /\ thread'[t].student = thread[t].student
    <3>1. thread[t].c \in 1..Len(complaints)
      BY <2>3, ThreadIs
    <3>. QED BY <2>3, <3>1, ComplaintsEffect DEF FilesInv
  <2>4. CASE /\ Register(t) /\ thread'[t].c = Len(complaints) + 1
             /\ thread'[t].student = thread[t].student
    <3>1. complaints'[Len(complaints) + 1] = Registration(t)
      BY <2>4, ComplaintAppended DEF Register
    <3>. QED BY <2>4, <3>1 DEF Registration
  <2>. QED BY <1>4, <2>1, <2>2, <2>3, <2>4, ThreadSource DEF ThreadGoesOn
<1>5. ASSUME NEW i \in 1..Len(complaints'), NEW k \in 1..Len(complaints'[i].rows)
      PROVE  \/ complaints'[i].rows[k].student = complaints'[i].student
             \/ complaints'[i].rows[k].n \in leftovers'
  <2>0. Len(complaints) \in Nat
    BY DEF SessionShaped, ThreadsShaped
  <2>1. CASE i \in 1..Len(complaints) /\ complaints'[i].rows = complaints[i].rows
    BY <1>0, <1>5, <2>1, ComplaintsEffect DEF FilesInv, Mine
  <2>2. CASE i \in 1..Len(complaints) /\ RowAdded(i)
    <3>1. PICK t \in Threads :
            /\ Attach(t) /\ i = thread[t].c
            /\ complaints'[i].rows = Append(complaints[i].rows, Head(thread[t].files))
      BY <2>2 DEF RowAdded
    <3>2. /\ thread[t].files \in Seq(File) /\ thread[t].files # <<>>
          /\ complaints[i].student = thread[t].student
      BY <3>1, ThreadIs DEF Attach, FilesInv
    <3>3. Len(thread[t].files) \in Nat /\ Len(thread[t].files) # 0
      BY <3>2, EmptySeq
    <3>4. /\ 1 \in 1..Len(thread[t].files) /\ Head(thread[t].files) = thread[t].files[1]
          /\ Head(thread[t].files) \in File
      BY <3>2, <3>3
    <3>5. Mine(Head(thread[t].files), complaints[i].student)
      BY <3>2, <3>4 DEF FilesInv
    <3>6. complaints[i] \in Complaint
      BY <2>2 DEF SessionShaped, ThreadsShaped
    <3>7. complaints[i].rows \in Seq(File)
      BY <3>6 DEF Complaint
    <3>8. /\ complaints'[i].rows[Len(complaints[i].rows) + 1] = Head(thread[t].files)
          /\ \A m \in 1..Len(complaints[i].rows) :
               complaints'[i].rows[m] = complaints[i].rows[m]
          /\ k \in 1..Len(complaints[i].rows) \/ k = Len(complaints[i].rows) + 1
      <4>1. PICK rows \in Seq(File), f \in File :
              rows = complaints[i].rows /\ f = Head(thread[t].files)
        BY <3>4, <3>7
      <4>2. complaints'[i].rows = Append(rows, f)
        BY <3>1, <4>1
      <4>3. /\ Append(rows, f)[Len(rows) + 1] = f /\ Len(Append(rows, f)) = Len(rows) + 1
            /\ \A m \in 1..Len(rows) : Append(rows, f)[m] = rows[m]
        OBVIOUS
      <4>4. k \in 1..Len(rows) \/ k = Len(rows) + 1
        BY <1>5, <4>2, <4>3
      <4>. QED BY <4>1, <4>2, <4>3, <4>4
    <3>9. complaints'[i].student = complaints[i].student
      BY <2>2, ComplaintsEffect
    <3>. QED BY <1>0, <2>2, <3>5, <3>8, <3>9 DEF FilesInv, Mine
  <2>3. CASE i \notin 1..Len(complaints)
    <3>1. \E t \in Threads : complaints'[i] = Registration(t)
      BY <1>5, <2>0, <2>3, ComplaintsEffect
    <3>2. Len(complaints'[i].rows) = 0
      BY <3>1 DEF Registration
    <3>. QED BY <1>5, <3>2
  <2>. QED BY <2>1, <2>2, <2>3, ComplaintsEffect
<1>. QED BY <1>1, <1>2, <1>3, <1>4, <1>5 DEF FilesInv, Mine

\* Nothing is picked at the start.
LEMMA FilesBegin ==
  ASSUME SessionInit
  PROVE  FilesInv
<1>1. /\ Len(selected) = 0 /\ Len(queue) = 0 /\ Len(complaints) = 0
      /\ thread = [t \in Threads |-> IdleThread]
  BY DEF SessionInit, UploadsInit
<1>2. Len(IdleThread.files) = 0 /\ IdleThread.phase = "idle"
  BY DEF IdleThread
<1>. QED BY <1>1, <1>2 DEF FilesInv

\* What the property says of the complaints.
LEMMA FilesAreOfAuthor ==
  ASSUME FilesInv
  PROVE  AttachmentsOfAuthor
BY DEF FilesInv, Mine, AttachmentsOfAuthor

-----------------------------------------------------------------------------
(* The session: signing out.                                               *)

\* How the page gets to the sign-in, or to a restore.
LEMMA ViewEffect ==
  ASSUME Step
  PROVE  /\ view' = "auth" => \/ view = "auth"
                              \/ Logout
                              \/ RestoreRejected
                              \/ failures' = failures + 1
         /\ view' = "restoring" => view = "restoring" \/ LoadPage
         /\ failures' = failures \/ failures' = failures + 1
         /\ \A i \in 1..Len(tasks) : TaskFails(i) => failures' = failures + 1
BY DEF Step, SessionNext, Login, Logout, RenderPortal, BuildForm, TypeText, Pick, Unheard,
       UploadEvent, RemoveSelected, Submit, SubmissionStep, Register, RegisterFails, Attach,
       Finish, FinishForNobody, TaskStep, TaskFails, LoadPage, RestoreAuth, RestoreRejected,
       RestoreFails, RestoreDraft, RestoreDraftFails, allVars, sessionVars

\* What the sign-in and the sign-out write, in the store and in the browser.
LEMMA SignEffect ==
  ASSUME SessionShaped, Step, ~LoadPage,
         ~Logout, ~RestoreRejected, \A s \in Students : ~Login(s), ~RestoreAuth
  PROVE  \/ /\ storeUser' = storeUser
            /\ browser'.user = browser.user /\ browser'.role = browser.role
         \/ \E i \in 1..Len(tasks) :
              /\ tasks[i].kind \in {"persist", "wipe"}
              /\ TaskStep(i) \/ TaskFails(i)
<1>1. browser \in Browser
  BY DEF SessionShaped, DraftsShaped
<1>2. CASE \/ RenderPortal \/ BuildForm \/ TypeText \/ Pick \/ Unheard
           \/ (\E n \in 1..MaxFiles : UploadEvent(n)) \/ RemoveSelected
           \/ RestoreFails \/ RestoreDraftFails \/ UNCHANGED allVars
  BY <1>2 DEF RenderPortal, BuildForm, TypeText, Pick, Unheard, UploadEvent, RemoveSelected,
              RestoreFails, RestoreDraftFails, allVars, sessionVars
<1>3. CASE RestoreDraft
  <2>1. storeUser' = storeUser
        /\ (browser' = browser \/ browser' = [browser EXCEPT !.draft = NoDraft])
    BY <1>3 DEF RestoreDraft
  <2>. QED BY <1>1, <2>1 DEF Browser
<1>4. ASSUME NEW t \in Threads, Submit(t) \/ SubmissionStep(t)
      PROVE  UNCHANGED <<storeUser, browser>>
  BY <1>4 DEF Submit, SubmissionStep, Register, RegisterFails, Attach, Finish, FinishForNobody
<1>5. ASSUME NEW i \in 1..Len(tasks), TaskStep(i) \/ TaskFails(i),
             tasks[i].kind \notin {"persist", "wipe"}
      PROVE  /\ storeUser' = storeUser
             /\ browser'.user = browser.user /\ browser'.role = browser.role
  <2>1. StoreStep(tasks[i]) /\ (browser' = browser \/ browser' = Written(tasks[i]))
    BY <1>5 DEF TaskStep, TaskFails
  <2>2. storeUser' = storeUser
    BY <1>5, <2>1 DEF StoreStep
  <2>3. \E d : Written(tasks[i]) = [browser EXCEPT !.draft = d]
    BY <1>5 DEF Written
  <2>. QED BY <1>1, <2>1, <2>2, <2>3 DEF Browser
<1>. QED BY <1>2, <1>3, <1>4, <1>5 DEF Step, SessionNext

\* A step of a sign-in, or of a sign-out.
LEMMA SignStepEffect ==
  ASSUME SessionShaped, NEW i \in 1..Len(tasks), TaskStep(i)
  PROVE  /\ tasks[i].kind = "persist" /\ tasks[i].step > 0 =>
              storeUser' = storeUser /\ browser'.user = browser.user
         /\ tasks[i].kind = "wipe" => storeUser' = storeUser \/ storeUser' = NoStudent
         /\ tasks[i].kind = "wipe" /\ tasks[i].step = 0 =>
              storeUser' = NoStudent /\ browser'.user = NoStudent
         /\ tasks[i].kind = "wipe" =>
              /\ browser'.user = browser.user \/ browser'.user = NoStudent
              /\ browser'.role = browser.role \/ browser'.role = FALSE
<1>1. browser \in Browser /\ StoreStep(tasks[i]) /\ browser' = Written(tasks[i])
  BY DEF SessionShaped, DraftsShaped, TaskStep
<1>2. ASSUME tasks[i].kind = "persist", tasks[i].step > 0
      PROVE  storeUser' = storeUser /\ browser'.user = browser.user
  <2>1. tasks[i].step = 1
    BY <1>2, TaskIs DEF LastStep
  <2>2. browser' = [browser EXCEPT !.role = TRUE] /\ storeUser' = storeUser
    BY <1>1, <1>2, <2>1 DEF Written, StoreStep
  <2>. QED BY <1>1, <2>2 DEF Browser
<1>3. ASSUME tasks[i].kind = "wipe"
      PROVE  /\ storeUser' = storeUser \/ storeUser' = NoStudent
             /\ tasks[i].step = 0 => storeUser' = NoStudent
             /\ \/ browser' = [browser EXCEPT !.user = NoStudent]
                \/ /\ tasks[i].step # 0
                   /\ \/ browser' = [browser EXCEPT !.role = FALSE]
                      \/ browser' = [browser EXCEPT !.draft = NoDraft]
  BY <1>1, <1>3 DEF Written, StoreStep
<1>4. ASSUME tasks[i].kind = "wipe"
      PROVE  /\ tasks[i].step = 0 => browser'.user = NoStudent
             /\ browser'.user = browser.user \/ browser'.user = NoStudent
             /\ browser'.role = browser.role \/ browser'.role = FALSE
  BY <1>1, <1>3, <1>4 DEF Browser
<1>. QED BY <1>2, <1>3, <1>4

\* The sign-out stays under way, or done.
LEMMA SignStep ==
  ASSUME SessionAssumption, SessionShaped, SignInv, Step
  PROVE  SignInv'
<1>1. ASSUME view' = "restoring"
      PROVE  /\ storeUser' = NoStudent
             /\ \A j \in 1..Len(tasks') : tasks'[j].kind \notin {"persist", "wipe"}
  <2>1. CASE LoadPage
    <3>1. tasks' = <<>> /\ storeUser' = NoStudent
      BY <2>1 DEF LoadPage
    <3>2. Len(tasks') = 0
      BY <3>1
    <3>. QED BY <3>1, <3>2
  <2>2. CASE ~LoadPage
    <3>1. view = "restoring" /\ storeUser = NoStudent
          /\ \A i \in 1..Len(tasks) : tasks[i].kind \notin {"persist", "wipe"}
      BY <1>1, <2>2, ViewEffect DEF SignInv
    <3>2. ~Logout /\ (\A s \in Students : ~Login(s)) /\ ~RestoreAuth /\ ~RestoreRejected
      BY <1>1, <3>1 DEF Logout, Login, RestoreAuth, RestoreRejected
    <3>3. storeUser' = NoStudent
      BY <2>2, <3>1, <3>2, SignEffect
    <3>4. \A j \in 1..Len(tasks') : tasks'[j].kind \notin {"persist", "wipe"}
      BY <3>1, <3>2, TaskKeeps DEF TaskWas, TaskCame, TaskNew
    <3>. QED BY <3>3, <3>4
  <2>. QED BY <2>1, <2>2
<1>2. ASSUME view' = "auth", failures' = 0
      PROVE  /\ \A j \in 1..Len(tasks') : tasks'[j].kind = "persist" => tasks'[j].step > 0
             /\ \/ \E j \in 1..Len(tasks') : tasks'[j].kind = "wipe" /\ tasks'[j].step = 0
                \/ /\ storeUser' = NoStudent
                   /\ \/ browser'.user = NoStudent
                      \/ /\ ~browser'.role
                         /\ \A j \in 1..Len(tasks') : tasks'[j].kind # "persist"
  <2>0. /\ failures = 0 /\ \A i \in 1..Len(tasks) : ~TaskFails(i)
        /\ ~LoadPage /\ (\A s \in Students : ~Login(s)) /\ ~RestoreAuth
    <3>1. failures \in Nat
      BY SessionAssumption DEF SessionShaped, ViewShaped
    <3>2. failures = 0 /\ \A i \in 1..Len(tasks) : ~TaskFails(i)
      BY <1>2, <3>1, ViewEffect
    <3>. QED BY <1>2, <3>2 DEF LoadPage, Login, RestoreAuth
  <2>1. CASE Logout
    <3>1. \A i \in 1..Len(tasks) : tasks[i].step > 0
      BY <2>1 DEF Logout, AllStarted
    <3>2. tasks \in Seq(Task) /\ tasks' = Append(tasks, NewTask("wipe", NoStudent, NoText))
      BY <2>1 DEF Logout, Launch, SessionShaped, TasksShaped
    <3>3. PICK task \in Task : /\ task = NewTask("wipe", NoStudent, NoText)
                               /\ task.kind = "wipe" /\ task.step = 0
      <4>1. NoText \in Text
        BY TextTypes
      <4>. QED BY <4>1, NewTaskIs
    <3>4. /\ Len(tasks') = Len(tasks) + 1 /\ Len(tasks) \in Nat
          /\ tasks'[Len(tasks) + 1] = task
          /\ \A j \in 1..Len(tasks) : tasks'[j] = tasks[j]
      BY <3>2, <3>3
    <3>5. \A j \in 1..Len(tasks') : j \in 1..Len(tasks) \/ j = Len(tasks) + 1
      BY <3>4
    <3>6. Len(tasks) + 1 \in 1..Len(tasks')
      BY <3>4
    <3>7. \A j \in 1..Len(tasks') : tasks'[j].kind = "persist" => tasks'[j].step > 0
      BY <3>1, <3>3, <3>4, <3>5
    <3>. QED BY <3>3, <3>4, <3>6, <3>7
  <2>2. CASE RestoreRejected
    <3>1. /\ view = "restoring" /\ tasks' = tasks /\ storeUser' = storeUser
          /\ browser' = IF Stored THEN [browser EXCEPT !.user = NoStudent, !.role = FALSE]
                        ELSE browser
      BY <2>2 DEF RestoreRejected
    <3>2. browser \in Browser
      BY DEF SessionShaped, DraftsShaped
    <3>3. browser'.user = NoStudent \/ ~browser'.role
      BY <3>1, <3>2 DEF Stored, Browser
    <3>. QED BY <3>1, <3>3 DEF SignInv
  <2>3. CASE view = "auth"
    <3>0. ~Logout /\ ~RestoreRejected
      BY <2>3 DEF Logout, RestoreRejected
    <3>1. /\ \A i \in 1..Len(tasks) : tasks[i].kind = "persist" => tasks[i].step > 0
          /\ \/ \E i \in 1..Len(tasks) : tasks[i].kind = "wipe" /\ tasks[i].step = 0
             \/ /\ storeUser = NoStudent
                /\ \/ browser.user = NoStudent
                   \/ /\ ~browser.role
                      /\ \A i \in 1..Len(tasks) : tasks[i].kind # "persist"
      BY <2>0, <2>3 DEF SignInv
    <3>2. ASSUME NEW j \in 1..Len(tasks'), tasks'[j].kind = "persist"
          PROVE  /\ tasks'[j].step > 0
                 /\ \E i \in 1..Len(tasks) : tasks[i].kind = "persist"
      <4>1. ~TaskNew(j)
        BY <2>0, <3>2 DEF TaskNew
      <4>2. PICK i \in 1..Len(tasks) : TaskCame(j, i)
        BY <4>1, TaskKeeps DEF TaskWas
      <4>3. tasks[i].kind = "persist" /\ tasks[i].step > 0 /\ tasks[i].step \in Nat
        BY <3>1, <3>2, <4>2, TaskIs DEF TaskCame, LastStep
      <4>. QED BY <4>2, <4>3 DEF TaskCame
    <3>3. CASE \E i \in 1..Len(tasks) : /\ tasks[i].kind = "wipe" /\ tasks[i].step = 0
                                        /\ ~TaskStep(i)
      BY <2>0, <3>2, <3>3, TaskStays
    <3>4. CASE \E i \in 1..Len(tasks) : /\ tasks[i].kind = "wipe" /\ tasks[i].step = 0
                                        /\ TaskStep(i)
      BY <3>2, <3>4, SignStepEffect
    <3>5. CASE /\ storeUser = NoStudent
               /\ \/ browser.user = NoStudent
                  \/ ~browser.role /\ \A i \in 1..Len(tasks) : tasks[i].kind # "persist"
      <4>1. CASE /\ storeUser' = storeUser
                 /\ browser'.user = browser.user /\ browser'.role = browser.role
        BY <3>2, <3>5, <4>1
      <4>2. ASSUME NEW i \in 1..Len(tasks), TaskStep(i), tasks[i].kind = "persist"
            PROVE  storeUser' = NoStudent /\ browser'.user = NoStudent
        BY <3>1, <3>5, <4>2, SignStepEffect
      <4>3. ASSUME NEW i \in 1..Len(tasks), TaskStep(i), tasks[i].kind = "wipe"
            PROVE  /\ storeUser' = NoStudent
                   /\ browser'.user = browser.user \/ browser'.user = NoStudent
                   /\ browser'.role = browser.role \/ browser'.role = FALSE
        BY <3>5, <4>3, SignStepEffect
      <4>4. \/ /\ storeUser' = storeUser
               /\ browser'.user = browser.user /\ browser'.role = browser.role
            \/ \E i \in 1..Len(tasks) : tasks[i].kind \in {"persist", "wipe"} /\ TaskStep(i)
        BY <2>0, <3>0, SignEffect
      <4>. QED BY <3>2, <3>5, <4>1, <4>2, <4>3, <4>4
    <3>. QED BY <3>1, <3>3, <3>4, <3>5
  <2>. QED BY <1>2, <2>0, <2>1, <2>2, <2>3, ViewEffect
<1>. QED BY <1>1, <1>2 DEF SignInv

\* Nobody is signed in at the start.
LEMMA SignBegins ==
  ASSUME SessionInit
  PROVE  SignInv
<1>1. /\ view = "auth" /\ Len(tasks) = 0 /\ storeUser = NoStudent /\ browser.user = NoStudent
  BY DEF SessionInit
<1>. QED BY <1>1 DEF SignInv

\* Without a task left, it is done.
LEMMA SignIsFinal ==
  ASSUME SignInv
  PROVE  SignOutFinal
<1>. SUFFICES ASSUME view = "auth", tasks = <<>>, failures = 0
              PROVE  ~Stored /\ storeUser = NoStudent
  BY DEF SignOutFinal, Quiet
<1>1. Len(tasks) = 0
  OBVIOUS
<1>. QED BY <1>1 DEF SignInv, Stored

-----------------------------------------------------------------------------
(* The session: a text is sent once.                                       *)

\* What the student is left with.
LEMMA Interrupts ==
  ASSUME Step
  PROVE  /\ Logout \/ RenderPortal \/ LoadPage => Sending \subseteq interrupted'
         /\ LoadPage => Unforgotten(tasks) \subseteq interrupted'
         /\ \A t \in Threads : RegisterFails(t) => thread[t].text \in interrupted'
         /\ \A t \in Threads : Finish(t) /\ ClientBusy => thread[t].text \in interrupted'
         /\ \A i \in 1..Len(tasks) : TaskFails(i) /\ tasks[i].kind = "forget" =>
              tasks[i].text \in interrupted'
<1>1. Logout \/ RenderPortal \/ LoadPage => Sending \subseteq interrupted'
  BY DEF Logout, RenderPortal, LoadPage
<1>2. LoadPage => Unforgotten(tasks) \subseteq interrupted'
  BY DEF LoadPage
<1>3. \A t \in Threads : RegisterFails(t) => thread[t].text \in interrupted'
  BY DEF RegisterFails
<1>4. \A t \in Threads : Finish(t) /\ ClientBusy => thread[t].text \in interrupted'
  BY DEF Finish
<1>5. ASSUME NEW i \in 1..Len(tasks), TaskFails(i), tasks[i].kind = "forget"
      PROVE  tasks[i].text \in interrupted'
  <2>1. interrupted' = interrupted \union Unforgotten(<<tasks[i]>>)
    BY <1>5 DEF TaskFails
  <2>2. PICK one : one = <<tasks[i]>>
    OBVIOUS
  <2>3. 1 \in 1..Len(one) /\ one[1] = tasks[i]
    BY <2>2
  <2>4. tasks[i].text \in Unforgotten(one)
    BY <1>5, <2>3 DEF Unforgotten
  <2>. QED BY <2>1, <2>2, <2>4
<1>. QED BY <1>1, <1>2, <1>3, <1>4, <1>5

\* The texts sent grow by registrations only.
LEMMA SentEffect ==
  ASSUME SessionShaped, Step
  PROVE  /\ Sent \subseteq Sent'
         /\ \A text \in Sent' : \/ text \in Sent
                                \/ \E t \in Threads : /\ Register(t) \/ RegisterFails(t)
                                                      /\ text = thread[t].text
<1>0. Len(complaints) \in Nat
  BY DEF SessionShaped, ThreadsShaped
<1>1. ASSUME NEW i \in 1..Len(complaints)
      PROVE  complaints[i].text \in Sent'
  <2>1. i \in 1..Len(complaints') /\ complaints'[i].text = complaints[i].text
    BY <1>0, ComplaintsEffect
  <2>. QED BY <2>1 DEF Sent
<1>2. ASSUME NEW i \in 1..Len(complaints')
      PROVE  \/ complaints'[i].text \in Sent
             \/ \E t \in Threads : /\ Register(t) \/ RegisterFails(t)
                                   /\ complaints'[i].text = thread[t].text
  <2>1. CASE i \in 1..Len(complaints)
    BY <2>1, ComplaintsEffect DEF Sent
  <2>2. CASE i \notin 1..Len(complaints)
    <3>1. PICK t \in Threads : /\ Register(t) \/ RegisterFails(t)
                               /\ complaints'[i] = Registration(t)
      BY <1>0, <1>2, <2>2, ComplaintsEffect
    <3>. QED BY <3>1 DEF Registration
  <2>. QED BY <2>1, <2>2
<1>. QED BY <1>1, <1>2 DEF Sent

\* A text that is sent once in the next state was, or is registered by the step.
LEMMA OnceEffect ==
  ASSUME SessionAssumption, SessionShaped, Step, NEW text \in Once'
  PROVE  /\ text \notin interrupted /\ text \notin interrupted'
         /\ \/ text \in Once
            \/ \E t \in Threads : Register(t) /\ text = thread[t].text
<1>1. text \in Sent' /\ text \notin interrupted'
  BY DEF Once
<1>2. text \notin interrupted
  BY <1>1, GhostsStep
<1>. QED BY <1>1, <1>2, SentEffect, Interrupts DEF Once

\* Where the page leaves the form, its submission forgets it.
LEMMA LeavingForgets ==
  ASSUME SessionShaped, Leaving, NEW t \in Threads
  PROVE  ~thread'[t].same
<1>1. thread[t] \in Thread
  BY ThreadIs
<1>2. \/ thread'[t] = [thread[t] EXCEPT !.same = FALSE]
      \/ thread'[t] = [thread[t] EXCEPT !.same = FALSE, !.page = FALSE]
  BY DEF Leaving, Logout, RenderPortal, BuildForm, LoadPage, Forgotten
<1>. QED BY <1>1, <1>2 DEF Thread

\* The text in the form is submitted for the first time.
LEMMA FirstTime ==
  ASSUME SessionShaped, SendingInv, DraftInv, NEW t \in Threads, Submit(t),
         form.text \notin interrupted
  PROVE  form.text \notin Sent
<1>. SUFFICES ASSUME form.text \in Sent
              PROVE  FALSE
  OBVIOUS
<1>1. form.open /\ ~form.sending
  BY DEF Submit
<1>2. PICK w \in Threads : Sends(w, form.text)
  BY <1>1 DEF DraftInv, Followed, Once
<1>3. thread[w].same
  BY <1>2 DEF Sends, SendingInv
<1>. QED BY <1>1, <1>3 DEF SendingInv

\* A submission that has its form is new, or had it and nobody clicked.
LEMMA SameStep ==
  ASSUME SessionAssumption, SessionShaped, SendingInv, Step, NEW t \in Threads, thread'[t].same
  PROVE  \/ Submit(t)
         \/ /\ ~Leaving /\ thread[t].same
            /\ \A u \in Threads : ~Submit(u)
<1>1. ~Leaving
  BY LeavingForgets
<1>2. CASE thread'[t] = IdleThread
  BY <1>2 DEF IdleThread
<1>3. CASE ThreadSubmits(t)
  BY <1>3 DEF ThreadSubmits
<1>4. CASE ThreadGoesOn(t)
  <2>1. thread[t].same
    BY <1>1, <1>4 DEF ThreadGoesOn
  <2>2. form.sending
    BY <2>1 DEF SendingInv
  <2>. QED BY <1>1, <2>1, <2>2 DEF Submit
<1>. QED BY <1>2, <1>3, <1>4, ThreadSource

\* The form of a thread that stays is open, with its button disabled.
LEMMA SameForm ==
  ASSUME SessionAssumption, SessionShaped, SendingInv, Step, NEW t \in Threads, thread'[t].same
  PROVE  form'.open /\ form'.sending /\ thread'[t].phase # "idle"
<1>0. form \in Form /\ thread \in [Threads -> Thread]
  BY TextTypes DEF SessionShaped, ThreadsShaped
<1>1. CASE Submit(t)
  <2>1. form.open /\ form' = [form EXCEPT !.sending = TRUE]
    BY <1>1 DEF Submit
  <2>2. form'.open /\ form'.sending
    BY <1>0, <2>1 DEF Form
  <2>3. thread'[t].phase = "register"
    BY <1>0, <1>1 DEF Submit
  <2>. QED BY <2>2, <2>3
<1>2. CASE ~Leaving /\ thread[t].same /\ \A u \in Threads : ~Submit(u)
  <2>1. form.open /\ form.sending /\ thread[t].phase # "idle"
    BY <1>2 DEF SendingInv
  <2>2. thread'[t].phase # "idle"
    <3>1. thread'[t] # IdleThread
      BY DEF IdleThread
    <3>. QED BY <1>2, <2>1, <3>1, ThreadSource DEF ThreadSubmits, ThreadGoesOn
  <2>3. CASE Elsewhere
    BY <2>1, <2>2, <2>3, FormStays
  <2>4. CASE TypeText
    <3>1. form' = [form EXCEPT !.text = [by |-> user, v |-> typed + 1]]
      BY <2>4 DEF TypeText
    <3>. QED BY <1>0, <2>1, <2>2, <3>1 DEF Form
  <2>5. ASSUME NEW u \in Threads, RegisterFails(u) \/ Finish(u)
        PROVE  form' = form
    <3>1. thread'[u] = IdleThread
      BY <1>0, <2>5 DEF RegisterFails, Finish
    <3>2. u # t
      BY <3>1 DEF IdleThread
    <3>3. ~thread[u].same
      BY <1>2, <3>2 DEF SendingInv
    <3>. QED BY <2>5, <3>3 DEF RegisterFails, Finish
  <2>. QED BY <1>2, <2>1, <2>2, <2>3, <2>4, <2>5, StepsAre DEF Leaving
<1>. QED BY <1>1, <1>2, SameStep

\* One submission sends a text, for the first time.
LEMMA SendingStep ==
  ASSUME SessionAssumption, SessionShaped, SendingInv, DraftInv, Step
  PROVE  SendingInv'
<1>0. thread \in [Threads -> Thread] /\ Len(complaints) \in Nat
  BY DEF SessionShaped, ThreadsShaped
<1>1. \A t \in Threads : thread'[t].same => /\ thread'[t].phase # "idle"
                                            /\ form'.open /\ form'.sending
  BY SameForm
<1>2. ASSUME NEW t \in Threads, NEW u \in Threads, thread'[t].same, thread'[u].same
      PROVE  t = u
  <2>1. CASE Submit(t) /\ Submit(u)
    <3>1. t # u => thread'[u] = thread[u]
      BY <1>0, <2>1 DEF Submit
    <3>2. thread[u].phase = "idle"
      BY <2>1 DEF Submit
    <3>. QED BY <1>1, <1>2, <3>1, <3>2
  <2>2. CASE thread[t].same /\ thread[u].same
    BY <2>2 DEF SendingInv
  <2>. QED BY <1>2, <2>1, <2>2, SameStep
<1>3. ASSUME NEW t \in Threads, thread'[t].phase # "idle", thread'[t].text \notin interrupted'
      PROVE  thread'[t].same /\ thread'[t].page
  <2>1. thread'[t] # IdleThread
    BY <1>3 DEF IdleThread
  <2>2. CASE ThreadSubmits(t)
    BY <2>2 DEF ThreadSubmits
  <2>3. CASE ThreadGoesOn(t)
    <3>1. /\ thread[t].phase # "idle" /\ thread'[t].text = thread[t].text
          /\ thread[t].text \notin interrupted
      BY <1>3, <2>3, GhostsStep DEF ThreadGoesOn
    <3>2. thread[t].same /\ thread[t].page /\ form.open
      BY <3>1 DEF SendingInv
    <3>3. ~(Logout \/ RenderPortal \/ LoadPage)
      BY <1>3, <3>1, Interrupts DEF Sending
    <3>4. ~BuildForm
      BY <3>2 DEF BuildForm
    <3>. QED BY <2>3, <3>2, <3>3, <3>4 DEF ThreadGoesOn, Leaving
  <2>. QED BY <2>1, <2>2, <2>3, ThreadSource
<1>4. ASSUME NEW t \in Threads, thread'[t].phase = "register",
             thread'[t].text \notin interrupted', thread'[t].text \in Sent'
      PROVE  FALSE
  <2>0. thread'[t] # IdleThread /\ thread'[t].text \notin interrupted
    BY <1>4, GhostsStep DEF IdleThread
  <2>1. CASE ThreadSubmits(t)
    <3>1. Submit(t) /\ thread'[t].text = form.text /\ complaints' = complaints
      BY <2>1 DEF ThreadSubmits, Submit
    <3>2. form.text \notin Sent
      BY <2>0, <3>1, FirstTime
    <3>. QED BY <1>4, <3>1, <3>2 DEF Sent
  <2>2. CASE ThreadGoesOn(t)
    <3>1. thread[t].phase = "register" /\ thread'[t].text = thread[t].text
      BY <1>4, <2>2 DEF ThreadGoesOn
    <3>2. thread[t].text \notin Sent /\ thread[t].same
      BY <2>0, <3>1 DEF SendingInv
    <3>3. PICK w \in Threads : (Register(w) \/ RegisterFails(w)) /\ thread[t].text = thread[w].text
      BY <1>4, <3>1, <3>2, SentEffect
    <3>4. Register(w)
      BY <1>4, <3>1, <3>3, Interrupts
    <3>5. thread[w].same
      <4>1. thread[w].phase # "idle" /\ thread[w].text \notin interrupted
        BY <2>0, <3>1, <3>3, <3>4 DEF Register
      <4>. QED BY <4>1 DEF SendingInv
    <3>6. w = t
      BY <3>2, <3>5 DEF SendingInv
    <3>7. thread'[t].phase \in {"finish", "attach"}
      <4>1. PICK phase \in {"finish", "attach"} :
              phase = IF thread[t].files = <<>> THEN "finish" ELSE "attach"
        OBVIOUS
      <4>2. thread' = [thread EXCEPT ![t].phase = phase, ![t].c = Len(complaints) + 1]
        BY <3>4, <3>6, <4>1 DEF Register
      <4>3. thread'[t] = [thread[t] EXCEPT !.phase = phase, !.c = Len(complaints) + 1]
        BY <1>0, <4>2
      <4>. QED BY <1>0, <4>3 DEF Thread
    <3>. QED BY <1>4, <3>7
  <2>. QED BY <2>0, <2>1, <2>2, ThreadSource
<1>5. ASSUME NEW i \in 1..Len(complaints'), NEW j \in 1..Len(complaints'), i # j,
             complaints'[i].text = complaints'[j].text, complaints'[i].text \notin interrupted'
      PROVE  FALSE
  <2>0. complaints'[i].text \notin interrupted
    BY <1>5, GhostsStep
  <2>1. CASE i \in 1..Len(complaints) /\ j \in 1..Len(complaints)
    BY <1>5, <2>0, <2>1, ComplaintsEffect DEF SendingInv, SentOnce
  <2>2. CASE i \notin 1..Len(complaints) \/ j \notin 1..Len(complaints)
    <3>1. PICK w \in Threads :
            /\ Register(w) \/ RegisterFails(w)
            /\ Len(complaints') = Len(complaints) + 1
            /\ complaints'[Len(complaints) + 1] = Registration(w)
      BY <1>0, <2>2, ComplaintsEffect
    <3>2. complaints'[i].text = thread[w].text /\ complaints'[i].text \in Sent
      <4>1. \/ i = Len(complaints) + 1 /\ j \in 1..Len(complaints)
            \/ j = Len(complaints) + 1 /\ i \in 1..Len(complaints)
        BY <1>0, <1>5, <2>2, <3>1
      <4>2. complaints'[i].text = thread[w].text
        BY <1>5, <3>1, <4>1 DEF Registration
      <4>3. \A k \in 1..Len(complaints) : complaints'[k].text \in Sent
        BY ComplaintsEffect DEF Sent
      <4>. QED BY <1>5, <4>1, <4>2, <4>3
    <3>3. Register(w)
      BY <1>5, <3>1, <3>2, Interrupts
    <3>4. thread[w].phase = "register" /\ thread[w].text \notin interrupted
      BY <2>0, <3>2, <3>3 DEF Register
    <3>. QED BY <3>2, <3>4 DEF SendingInv
  <2>. QED BY <2>1, <2>2
<1>. QED BY <1>1, <1>2, <1>3, <1>4, <1>5 DEF SendingInv, SentOnce

-----------------------------------------------------------------------------
(* The session: the draft of a sent text goes.                             *)

\* A submission of a text that is sent once goes on, or leaves its removal.
LEMMA SendsStay ==
  ASSUME SessionAssumption, SessionShaped, SendingInv, Step, NEW text,
         text \notin interrupted, text \notin interrupted',
         NEW t \in Threads, Sends(t, text)
  PROVE  thread[t].same /\ form.open /\ (Sends(t, text)' \/ Finish(t))
<1>0. /\ thread[t].text = text /\ thread[t].phase \in {"attach", "finish"}
      /\ thread \in [Threads -> Thread]
  BY DEF Sends, SessionShaped, ThreadsShaped
<1>1. thread[t].same /\ thread[t].page /\ form.open
  BY <1>0 DEF SendingInv
<1>2. ~RegisterFails(t) /\ ~FinishForNobody(t) /\ ~Submit(t)
  BY <1>0, <1>1 DEF RegisterFails, FinishForNobody, Submit
<1>3. CASE thread'[t] = IdleThread
  <2>1. thread'[t] # thread[t] /\ thread'[t].phase = "idle"
    BY <1>0, <1>3 DEF IdleThread
  <2>2. ~Left
    BY <1>0, <2>1 DEF Left, Thread
  <2>3. PICK u \in Threads : Submit(u) \/ SubmissionStep(u)
    BY <2>1, <2>2, ThreadEffect
  <2>4. \E k : thread' = [thread EXCEPT ![u] = k]
    BY <2>3 DEF Submit, SubmissionStep, Register, RegisterFails, Attach, Finish, FinishForNobody
  <2>5. u = t
    BY <1>0, <2>1, <2>4
  <2>6. ~Register(t)
    BY <1>0 DEF Register
  <2>7. ~Attach(t)
    <3>1. Attach(t) => thread'[t].phase \in {"attach", "finish"}
      <4>. SUFFICES ASSUME Attach(t)
                    PROVE  thread'[t].phase \in {"attach", "finish"}
        OBVIOUS
      <4>1. PICK rest, phase : /\ phase \in {"attach", "finish"}
                               /\ rest = Tail(thread[t].files)
                               /\ phase = IF rest = <<>> THEN "finish" ELSE "attach"
        OBVIOUS
      <4>2. thread' = [thread EXCEPT ![t].files = rest, ![t].phase = phase]
        BY <4>1 DEF Attach
      <4>3. thread'[t] = [thread[t] EXCEPT !.files = rest, !.phase = phase]
        BY <1>0, <4>2
      <4>. QED BY <1>0, <4>1, <4>3 DEF Thread
    <3>. QED BY <2>1, <3>1
  <2>. QED BY <1>1, <1>2, <2>3, <2>5, <2>6, <2>7 DEF SubmissionStep
<1>4. CASE ThreadSubmits(t)
  BY <1>2, <1>4 DEF ThreadSubmits
<1>5. CASE ThreadGoesOn(t)
  BY <1>0, <1>1, <1>5 DEF ThreadGoesOn, Sends
<1>. QED BY <1>3, <1>4, <1>5, ThreadSource

\* The submission ends: its removal is launched, the session's draft is gone.
LEMMA FinishForgets ==
  ASSUME SessionAssumption, SessionShaped, NEW t \in Threads, Finish(t),
         NEW text \in Text, text = thread[t].text
  PROVE  /\ \E n \in 1..Len(tasks') :
              /\ ForgetsAt(n, text)'
              /\ \A j \in 1..Len(tasks') : tasks'[j].kind = "save" => n \in (j + 1)..Len(tasks')
         /\ storeDraft' = NoDraft
<1>1. storeDraft' = NoDraft /\ RemovesDraft(t)
  BY DEF Finish, RemovesDraft
<1>2. Len(tasks) \in Nat
  BY DEF SessionShaped, TasksShaped
<1>3. PICK task \in Task : /\ task = NewTask("forget", NoStudent, text)
                           /\ task.kind = "forget" /\ task.text = text
  BY NewTaskIs
<1>4. Len(tasks') = Len(tasks) + 1 /\ Len(tasks) \in Nat /\ tasks'[Len(tasks) + 1] = task
  BY <1>1, <1>2, <1>3, ForgetsAfter
<1>5. PICK n \in 1..Len(tasks') : n = Len(tasks) + 1 /\ ForgetsAt(n, text)'
  BY <1>3, <1>4 DEF ForgetsAt
<1>6. ASSUME NEW j \in 1..Len(tasks'), tasks'[j].kind = "save"
      PROVE  n \in (j + 1)..Len(tasks')
  <2>1. j # Len(tasks) + 1
    BY <1>3, <1>4, <1>6
  <2>. QED BY <1>4, <1>5, <2>1
<1>. QED BY <1>1, <1>5, <1>6

\* The removal takes place after every save launched before it.
LEMMA ForgetStep ==
  ASSUME SessionAssumption, SessionShaped, NEW j \in 1..Len(tasks), tasks[j].kind = "forget",
         TaskStep(j)
  PROVE  /\ storeDraft' = NoDraft /\ browser'.draft = NoDraft
         /\ \A i \in 1..Len(tasks) : tasks[i].kind = "save" => ~(i < j)
<1>1. tasks[j].step = 0
  BY TaskIs
<1>2. \A i \in 1..(j - 1) : tasks[i].step > 0
  BY <1>1 DEF TaskStep, Ready
<1>3. ASSUME NEW i \in 1..Len(tasks), tasks[i].kind = "save", i < j
      PROVE  FALSE
  <2>1. i \in 1..(j - 1)
    BY <1>3
  <2>2. tasks[i].step = 0
    BY <1>3, TaskIs
  <2>. QED BY <1>2, <2>1, <2>2
<1>4. browser \in Browser /\ browser' = [browser EXCEPT !.draft = NoDraft]
  BY DEF SessionShaped, DraftsShaped, TaskStep, Written
<1>5. storeDraft' = NoDraft
  BY DEF TaskStep, StoreStep
<1>. QED BY <1>3, <1>4, <1>5 DEF Browser

\* The removal of a text that its student is not left with does not fail.
LEMMA ForgetStays ==
  ASSUME SessionAssumption, SessionShaped, Step, NEW text, text \notin interrupted',
         NEW j \in 1..Len(tasks), ForgetsAt(j, text)
  PROVE  ~LoadPage /\ ~TaskFails(j)
<1>1. tasks[j].kind = "forget" /\ tasks[j].text = text
  BY DEF ForgetsAt
<1>2. text \in Unforgotten(tasks)
  BY <1>1 DEF Unforgotten
<1>. QED BY <1>1, <1>2, Interrupts

\* What is going to be removed still is, or is removed.
LEMMA GoingStays ==
  ASSUME SessionAssumption, SessionShaped, SendingInv, Step, NEW text,
         text \notin interrupted, text \notin interrupted', Going(text)
  PROVE  Going(text)' \/ (storeDraft' = NoDraft /\ browser'.draft = NoDraft)
<1>1. ASSUME NEW t \in Threads, Sends(t, text)
      PROVE  Going(text)'
  <2>1. CASE Sends(t, text)'
    BY <2>1 DEF Going
  <2>2. CASE Finish(t)
    <3>1. thread[t].text = text /\ text \in Text
      BY <1>1, ThreadIs DEF Sends
    <3>2. PICK n \in 1..Len(tasks') : ForgetsAt(n, text)'
      BY <2>2, <3>1, FinishForgets
    <3>. QED BY <3>2 DEF Going
  <2>. QED BY <1>1, <2>1, <2>2, SendsStay
<1>2. ASSUME NEW j \in 1..Len(tasks), ForgetsAt(j, text)
      PROVE  Going(text)' \/ (storeDraft' = NoDraft /\ browser'.draft = NoDraft)
  <2>1. CASE TaskStep(j)
    BY <1>2, <2>1, ForgetStep DEF ForgetsAt
  <2>2. CASE ~TaskStep(j)
    <3>1. PICK n \in 1..Len(tasks') : tasks'[n] = tasks[j]
      <4>1. tasks[j].kind # "save" /\ ~LoadPage /\ ~TaskFails(j)
        BY <1>2, ForgetStays DEF ForgetsAt
      <4>. QED BY <1>2, <2>2, <4>1, TaskStays
    <3>2. ForgetsAt(n, text)'
      BY <1>2, <3>1 DEF ForgetsAt
    <3>. QED BY <3>2 DEF Going
  <2>. QED BY <2>1, <2>2
<1>. QED BY <1>1, <1>2 DEF Going

\* A text that was sent was typed before.
LEMMA SentIsTyped ==
  ASSUME SessionAssumption, SessionShaped, TextsInv, NEW text \in Sent
  PROVE  text \in Text /\ text # NoText /\ text.v <= typed /\ text.v \in Nat /\ typed \in Nat
<1>1. PICK i \in 1..Len(complaints) : text = complaints[i].text
  BY DEF Sent
<1>2. complaints[i] \in Complaint
  BY DEF SessionShaped, ThreadsShaped
<1>3. text \in Text
  BY <1>1, <1>2 DEF Complaint
<1>4. text # NoText /\ text.v <= typed
  BY <1>1 DEF TextsInv, Own
<1>. QED BY <1>3, <1>4, TextTypes

\* With the form closed, the client has nothing new to report.
LEMMA BusyStays ==
  ASSUME SessionShaped, Step, ~form.open, ~ClientBusy
  PROVE  ~ClientBusy'
<1>0. launched = {} /\ \A n \in 1..MaxFiles : transfer[n].state \notin {"running", "reported"}
  BY DEF ClientBusy
<1>. SUFFICES ASSUME ~LoadPage
              PROVE  UNCHANGED <<launched, transfer>>
  <2>1. CASE LoadPage
    <3>1. launched' = {} /\ transfer' = [n \in 1..MaxFiles |-> NoTransfer]
      BY <2>1 DEF LoadPage, NewSession
    <3>. QED BY <3>1 DEF ClientBusy, NoTransfer
  <2>. QED BY <1>0, <2>1 DEF ClientBusy
<1>1. CASE \/ \E s \in Students : Login(s)
           \/ Logout \/ RenderPortal \/ BuildForm \/ TypeText
           \/ RestoreAuth \/ RestoreRejected \/ RestoreFails \/ RestoreDraftFails
           \/ UNCHANGED allVars
  BY <1>1 DEF Login, Logout, RenderPortal, BuildForm, TypeText, RestoreAuth, RestoreRejected,
     RestoreFails, RestoreDraftFails, allVars, uploadVars, BuildPortal, RegisterHooks
<1>2. ~Pick
  BY <1>0 DEF Pick
<1>3. CASE Unheard
  BY <1>0, <1>3 DEF Unheard, PickerBecomesStale, TransferFallsSilent, EventForNobody, Reports
<1>4. \A n \in 1..MaxFiles : ~UploadEvent(n)
  BY <1>0 DEF UploadEvent, EventForNobody, UploadFinished, UploadFailed, Reports
<1>5. ~RemoveSelected
  BY DEF RemoveSelected
<1>6. ASSUME NEW t \in Threads, Submit(t) \/ SubmissionStep(t)
      PROVE  UNCHANGED <<launched, transfer>>
  BY <1>6 DEF Submit, SubmissionStep, Register, RegisterFails, Attach, Finish, FinishForNobody,
              ClearSelected, uploadVars
<1>7. ASSUME NEW i \in 1..Len(tasks), TaskStep(i) \/ TaskFails(i)
      PROVE  UNCHANGED <<launched, transfer>>
  BY <1>7 DEF TaskStep, TaskFails, uploadVars
<1>8. CASE RestoreDraft
  BY <1>8 DEF RestoreDraft, RestoreSelected, uploadVars
<1>. QED BY <1>1, <1>2, <1>3, <1>4, <1>5, <1>6, <1>7, <1>8 DEF Step, SessionNext

\* A form with a sent text is of its submission, or hears no more of the client.
LEMMA FormFollowed ==
  ASSUME SessionAssumption, SessionShaped, TextsInv, SendingInv, DraftInv, Step,
         NEW text \in Once, text \notin interrupted', form'.text = text
  PROVE  IF form'.open THEN \E t \in Threads : Sends(t, text)' ELSE ~ClientBusy'
<1>. DEFINE P == IF form'.open THEN \E t \in Threads : Sends(t, text)' ELSE ~ClientBusy'
<1>0. form \in Form /\ text \in Sent /\ text \notin interrupted
  BY TextTypes DEF Once
<1>1. /\ form.text = text =>
           IF form.open THEN \E t \in Threads : Sends(t, text) ELSE ~ClientBusy
      /\ storeDraft # NoDraft /\ storeDraft.text = text => Going(text)
  BY DEF DraftInv, Followed
<1>2. ASSUME NEW t \in Threads, Sends(t, text)
      PROVE  thread[t].same /\ form.open /\ (Sends(t, text)' \/ Finish(t))
  BY <1>0, <1>2, SendsStay
<1>3. ASSUME NEW t \in Threads, Finish(t), thread[t].same
      PROVE  form' = [form EXCEPT !.open = FALSE]
  BY <1>3 DEF Finish
<1>4. CASE form'.text = form.text /\ form'.open = form.open
  <2>1. CASE form.open
    <3>1. PICK t \in Threads : Sends(t, text)
      BY <1>1, <1>4, <2>1
    <3>2. ~Finish(t)
      BY <1>0, <1>2, <1>3, <1>4, <2>1, <3>1 DEF Form
    <3>. QED BY <1>2, <1>4, <2>1, <3>1, <3>2
  <2>2. CASE ~form.open
    BY <1>1, <1>4, <2>2, BusyStays
  <2>. QED BY <2>1, <2>2
<1>5. CASE Elsewhere
  BY <1>4, <1>5, FormStays
<1>6. CASE Logout \/ RenderPortal
  <2>1. form' = [form EXCEPT !.open = FALSE]
    BY <1>6 DEF Logout, RenderPortal
  <2>2. form'.text = form.text /\ form'.open = FALSE
    BY <1>0, <2>1 DEF Form
  <2>3. CASE form.open
    <3>1. PICK t \in Threads : Sends(t, text)
      BY <1>1, <2>2, <2>3
    <3>2. text \in Sending
      BY <3>1 DEF Sends, Sending
    <3>. QED BY <1>6, <3>2, Interrupts
  <2>4. CASE ~form.open
    <3>1. form'.open = form.open
      BY <1>0, <2>2, <2>4 DEF Form
    <3>. QED BY <1>4, <2>2, <3>1
  <2>. QED BY <2>3, <2>4
<1>7. CASE LoadPage
  <2>1. form'.text = NoText
    BY <1>7 DEF LoadPage, NoForm
  <2>. QED BY <1>0, <2>1, SentIsTyped
<1>8. CASE BuildForm
  <2>1. form'.text = CurrentDraftText /\ ~form.open /\ AllStarted
    BY <1>8 DEF BuildForm
  <2>2. storeDraft # NoDraft /\ storeDraft.text = text
    BY <1>0, <2>1, SentIsTyped DEF CurrentDraftText
  <2>3. PICK j \in 1..Len(tasks) : ForgetsAt(j, text)
    BY <1>1, <1>2, <2>1, <2>2 DEF Going
  <2>4. tasks[j].step = 0 /\ tasks[j].step > 0
    BY <2>1, <2>3, TaskIs DEF AllStarted, ForgetsAt
  <2>. QED BY <2>4
<1>9. CASE TypeText
  <2>1. form' = [form EXCEPT !.text = [by |-> user, v |-> typed + 1]]
    BY <1>9 DEF TypeText
  <2>2. text.v = typed + 1
    BY <1>0, <2>1 DEF Form
  <2>. QED BY <1>0, <2>2, SentIsTyped
<1>10. ASSUME NEW t \in Threads, Submit(t) \/ RegisterFails(t)
       PROVE  P
  <2>1. form' = form \/ \E b \in BOOLEAN : form' = [form EXCEPT !.sending = b]
    BY <1>10 DEF Submit, RegisterFails
  <2>2. form'.text = form.text /\ form'.open = form.open
    BY <1>0, <2>1 DEF Form
  <2>. QED BY <1>4, <2>2
<1>11. ASSUME NEW t \in Threads, Finish(t)
       PROVE  P
  <2>1. CASE ~thread[t].same
    <3>1. form' = form
      BY <1>11, <2>1 DEF Finish
    <3>. QED BY <1>4, <3>1
  <2>2. CASE thread[t].same
    <3>1. form.open
      BY <2>2 DEF SendingInv
    <3>2. form'.text = form.text /\ form'.open = FALSE
      BY <1>0, <1>3, <1>11, <2>2 DEF Form
    <3>3. PICK u \in Threads : Sends(u, text)
      BY <1>1, <3>1, <3>2
    <3>4. u = t
      BY <1>2, <2>2, <3>3 DEF SendingInv
    <3>5. thread[t].text = text
      BY <3>3, <3>4 DEF Sends
    <3>6. ~ClientBusy
      BY <1>11, <3>5, Interrupts
    <3>7. launched' = launched /\ transfer' = transfer
      BY <1>11 DEF Finish, ClearSelected
    <3>8. ~ClientBusy'
      BY <3>6, <3>7 DEF ClientBusy
    <3>. QED BY <3>2, <3>8
  <2>. QED BY <2>1, <2>2
<1>. QED BY <1>5, <1>6, <1>7, <1>8, <1>9, <1>10, <1>11, StepsAre

\* A draft saved by the step is of a text that is still being sent.
LEMMA SavingFollowed ==
  ASSUME SessionAssumption, SessionShaped, TextsInv, SendingInv, DraftInv, Step,
         NEW text \in Once, text \notin interrupted', Saving, form'.text = text
  PROVE  \E t \in Threads : Sends(t, text)'
<1>1. IF form'.open THEN \E t \in Threads : Sends(t, text)' ELSE ~ClientBusy'
  BY FormFollowed
<1>2. CASE form'.open
  BY <1>1, <1>2
<1>3. CASE ~form'.open
  <2>1. ClientBusy /\ form' = form
    BY <1>3 DEF Saving
  <2>. QED BY <1>3, <2>1 DEF DraftInv, Followed
<1>. QED BY <1>2, <1>3

\* A save of a sent text is launched before its removal, and runs before it.
LEMMA TaskFollowed ==
  ASSUME SessionAssumption, SessionShaped, TextsInv, SendingInv, DraftInv, Step,
         NEW text \in Once, text \notin interrupted',
         NEW i \in 1..Len(tasks'), tasks'[i].kind = "save", tasks'[i].text = text
  PROVE  \/ \E t \in Threads : Sends(t, text)'
         \/ \E j \in (i + 1)..Len(tasks') : ForgetsAt(j, text)'
<1>0. text \notin interrupted /\ Len(tasks) \in Nat /\ Len(tasks') \in Nat
  BY TaskKeeps DEF Once, SessionShaped, TasksShaped
<1>1. CASE TaskNew(i)
  BY <1>1, SavingFollowed DEF TaskNew
<1>2. ASSUME NEW o \in 1..Len(tasks), TaskCame(i, o), Behind(i, o)
      PROVE  \/ \E t \in Threads : Sends(t, text)'
             \/ \E j \in (i + 1)..Len(tasks') : ForgetsAt(j, text)'
  <2>1. tasks[o].kind = "save" /\ tasks[o].text = text
    BY <1>2 DEF TaskCame
  <2>2. \/ \E t \in Threads : Sends(t, text)
        \/ \E m \in (o + 1)..Len(tasks) : ForgetsAt(m, text)
    BY <2>1 DEF DraftInv, Followed
  <2>3. ASSUME NEW t \in Threads, Sends(t, text), Finish(t)
        PROVE  \E j \in (i + 1)..Len(tasks') : ForgetsAt(j, text)'
    <3>1. text = thread[t].text /\ text \in Text
      BY <2>3, ThreadIs DEF Sends
    <3>. QED BY <2>3, <3>1, FinishForgets
  <2>4. ASSUME NEW m \in (o + 1)..Len(tasks), ForgetsAt(m, text)
        PROVE  \E j \in (i + 1)..Len(tasks') : ForgetsAt(j, text)'
    <3>1. m \in 1..Len(tasks) /\ o < m
      BY <1>0
    <3>2. ~TaskFails(m)
      BY <2>4, <3>1, ForgetStays
    <3>3. ~TaskStep(m)
      BY <2>1, <2>4, <3>1, ForgetStep DEF ForgetsAt
    <3>4. PICK n \in (i + 1)..Len(tasks') : tasks'[n] = tasks[m]
      <4>1. tasks[m].kind # "save"
        BY <2>4 DEF ForgetsAt
      <4>. QED BY <1>2, <3>2, <3>3, <4>1 DEF Behind
    <3>. QED BY <2>4, <3>4 DEF ForgetsAt
  <2>. QED BY <1>0, <2>2, <2>3, <2>4, SendsStay
<1>. QED BY <1>1, <1>2, TaskKeeps DEF TaskWas

\* A text sent before the step is still followed.
LEMMA OldFollowed ==
  ASSUME SessionAssumption, SessionShaped, TextsInv, SendingInv, DraftInv, Step,
         NEW text \in Once, text \notin interrupted'
  PROVE  Followed(text)'
<1>0. text \notin interrupted
  BY DEF Once
<1>1. /\ storeDraft # NoDraft /\ storeDraft.text = text => Going(text)
      /\ browser.draft # NoDraft /\ browser.draft.text = text => Going(text)
      /\ \A i \in 1..Len(tasks) : tasks[i].kind = "save" /\ tasks[i].text = text => Going(text)
  <2>1. ASSUME NEW i \in 1..Len(tasks), tasks[i].kind = "save", tasks[i].text = text
        PROVE  Going(text)
    <3>1. \/ \E t \in Threads : Sends(t, text)
          \/ \E j \in (i + 1)..Len(tasks) : ForgetsAt(j, text)
      BY <2>1 DEF DraftInv, Followed
    <3>2. \A j \in (i + 1)..Len(tasks) : j \in 1..Len(tasks)
      BY DEF SessionShaped, TasksShaped
    <3>. QED BY <3>1, <3>2 DEF Going
  <2>. QED BY <2>1 DEF DraftInv, Followed
<1>2. Going(text) => Going(text)' \/ (storeDraft' = NoDraft /\ browser'.draft = NoDraft)
  BY <1>0, GoingStays
<1>3. form'.text = text =>
        IF form'.open THEN \E t \in Threads : Sends(t, text)' ELSE ~ClientBusy'
  BY FormFollowed
<1>4. ASSUME storeDraft' # NoDraft, storeDraft'.text = text
      PROVE  Going(text)'
  <2>1. CASE Saving /\ form'.text = text
    BY <2>1, SavingFollowed DEF Going
  <2>2. CASE ~(Saving /\ form'.text = text)
    <3>1. Going(text)
      BY <1>1, <1>4, <2>2, StoreDraftGives DEF SavedByTask
    <3>. QED BY <1>2, <1>4, <3>1
  <2>. QED BY <2>1, <2>2
<1>5. ASSUME browser'.draft # NoDraft, browser'.draft.text = text
      PROVE  Going(text)'
  <2>1. Going(text)
    BY <1>1, <1>5, BrowserGives
  <2>. QED BY <1>2, <1>5, <2>1
<1>6. \A i \in 1..Len(tasks') : tasks'[i].kind = "save" /\ tasks'[i].text = text =>
        \/ \E t \in Threads : Sends(t, text)'
        \/ \E j \in (i + 1)..Len(tasks') : ForgetsAt(j, text)'
  BY TaskFollowed
<1>. QED BY <1>3, <1>4, <1>5, <1>6 DEF Followed

\* A text that the step sends is followed from now on.
LEMMA NewFollowed ==
  ASSUME SessionAssumption, SessionShaped, SendingInv, Step,
         NEW t \in Threads, Register(t), NEW text, text = thread[t].text, text \notin interrupted
  PROVE  Followed(text)'
<1>0. thread \in [Threads -> Thread]
  BY DEF SessionShaped, ThreadsShaped
<1>1. thread[t].phase = "register" /\ form' = form
  BY DEF Register
<1>2. form.open
  BY <1>1 DEF SendingInv
<1>3. Sends(t, text)'
  <2>1. PICK phase \in {"attach", "finish"} :
          phase = IF thread[t].files = <<>> THEN "finish" ELSE "attach"
    OBVIOUS
  <2>2. thread' = [thread EXCEPT ![t].phase = phase, ![t].c = Len(complaints) + 1]
    BY <2>1 DEF Register
  <2>3. thread'[t] = [thread[t] EXCEPT !.phase = phase, !.c = Len(complaints) + 1]
    BY <1>0, <2>2
  <2>4. thread'[t].phase = phase /\ thread'[t].text = text
    BY <1>0, <2>3 DEF Thread
  <2>. QED BY <2>1, <2>4 DEF Sends
<1>4. Going(text)'
  BY <1>3 DEF Going
<1>. QED BY <1>1, <1>2, <1>3, <1>4 DEF Followed

\* Every step follows the texts that were sent.
LEMMA DraftStep ==
  ASSUME SessionAssumption, SessionShaped, TextsInv, SendingInv, DraftInv, Step
  PROVE  DraftInv'
<1>1. ASSUME NEW text \in Once'
      PROVE  Followed(text)'
  BY <1>1, OnceEffect, OldFollowed, NewFollowed
<1>. QED BY <1>1 DEF DraftInv

\* Nothing is sent at the start.
LEMMA DraftBegins ==
  ASSUME SessionInit
  PROVE  SendingInv /\ DraftInv
<1>1. Len(complaints) = 0 /\ thread = [t \in Threads |-> IdleThread]
  BY DEF SessionInit
<1>2. Sent = {}
  BY <1>1 DEF Sent
<1>3. \A t \in Threads : thread[t].phase = "idle" /\ ~thread[t].same
  BY <1>1 DEF IdleThread
<1>. QED BY <1>1, <1>2, <1>3 DEF SendingInv, SentOnce, DraftInv, Once

\* With nothing left to run, the drafts have been removed.
LEMMA DraftsAreGone ==
  ASSUME SessionShaped, SendingInv, DraftInv
  PROVE  SentOnce /\ SentDraftGone
<1>1. ASSUME NEW i \in 1..Len(complaints), Quiet, complaints[i].text \notin interrupted,
             \A t \in Threads : thread[t].phase = "idle"
      PROVE  /\ storeDraft # NoDraft => storeDraft.text # complaints[i].text
             /\ browser.draft # NoDraft => browser.draft.text # complaints[i].text
  <2>1. complaints[i].text \in Once
    BY <1>1 DEF Once, Sent
  <2>2. ~Going(complaints[i].text)
    <3>1. Len(tasks) = 0
      BY <1>1 DEF Quiet
    <3>. QED BY <1>1, <3>1 DEF Going, Sends
  <2>. QED BY <2>1, <2>2 DEF DraftInv, Followed
<1>. QED BY <1>1 DEF SendingInv, SentDraftGone

-----------------------------------------------------------------------------
(* The theorems of the session.                                            *)

\* Of the variables of student_view and draft_recovery_service, of the browser's
\* storage and of the threads: their types, that an open form is of the student
\* who is signed in and has the hooks, and that a submission that attaches has
\* its complaint.
THEOREM SessionInductive == SessionSpec => []SessionShaped
<1>1. SessionInit => SessionShaped
  BY SessionAssumption, SessionShapeBegins
<1>2. SessionShaped /\ [SessionNext]_allVars => SessionShaped'
  BY SessionAssumption, SessionShapeStep DEF Step
<1>. QED BY <1>1, <1>2, PTL DEF SessionSpec

\* The variables of the session, of the browser and of the submissions keep
\* their types.
THEOREM SessionTypes == SessionSpec => []TypeOK
BY SessionInductive, ShapedIsTyped, PTL

\* What a student types in the complaint form stays his: no draft, restored form,
\* save under way, submission or complaint of another student has it, although
\* they share a browser.
THEOREM TextsOfAuthor == SessionSpec => []TextStaysWithAuthor
<1>1. SessionInit => TextsInv
  BY SessionAssumption, TextsBegin
<1>2. SessionShaped /\ TextsInv /\ [SessionNext]_allVars => TextsInv'
  BY SessionAssumption, TextsStep DEF Step
<1>. QED BY <1>1, <1>2, SessionInductive, TextsStay, PTL DEF SessionSpec

\* What is attached to a complaint was picked by its student, or was in the form
\* or in the queue when somebody signed out.
THEOREM FilesOfAuthor == SessionSpec => []AttachmentsOfAuthor
<1>1. SessionInit => FilesInv
  BY FilesBegin
<1>2. SessionShaped /\ FilesInv /\ [SessionNext]_allVars => FilesInv'
  BY SessionAssumption, FilesStep DEF Step
<1>. QED BY <1>1, <1>2, SessionInductive, FilesAreOfAuthor, PTL DEF SessionSpec

\* Once the calls to the browser's storage have ended, none of them in error, a
\* page that asks to sign in has nobody to restore: a sign-out is not undone by
\* the writes of the sign-in it overtook, nor by a restore.
THEOREM SignOutIsFinal == SessionSpec => []SignOutFinal
<1>1. SessionInit => SignInv
  BY SignBegins
<1>2. SessionShaped /\ SignInv /\ [SessionNext]_allVars => SignInv'
  BY SessionAssumption, SignStep DEF Step
<1>. QED BY <1>1, <1>2, SessionInductive, SignIsFinal, PTL DEF SessionSpec

\* A text that its student was not left with is being sent by one submission, whose
\* form waits for it; and wherever a draft of it may still be, the submission or a
\* removal launched later will take it away.
THEOREM SendingInductive == SessionSpec => [](SendingInv /\ DraftInv)
<1>1. SessionInit => TextsInv /\ SendingInv /\ DraftInv
  BY SessionAssumption, TextsBegin, DraftBegins
<1>2. SessionShaped /\ TextsInv /\ SendingInv /\ DraftInv /\ [SessionNext]_allVars
        => TextsInv' /\ SendingInv' /\ DraftInv'
  BY SessionAssumption, TextsStep, SendingStep, DraftStep DEF Step
<1>. QED BY <1>1, <1>2, SessionInductive, PTL DEF SessionSpec

\* submit_complaint registers a text once, however its clicks, page loads and
\* sign-outs interleave, unless the student was left with the text.
THEOREM TextsSentOnce == SessionSpec => []SentOnce
<1>1. SendingInv => SentOnce
  BY DEF SendingInv
<1>. QED BY <1>1, SendingInductive, PTL

\* The draft of a text that was sent is gone from the session and from the
\* browser once everything has ended, in whichever order the saves and the
\* removal were launched.
THEOREM SentDraftsGone == SessionSpec => []SentDraftGone
BY SessionInductive, SendingInductive, DraftsAreGone, PTL

\* No upload blocks the next, whatever the session does around the picker.
THEOREM SessionServesQueue == SessionSpec => []QueueServed
<1>1. SessionShaped => QueueServed
  BY DEF SessionShaped, UploadsInv, QueueInv, QueueServed
<1>. QED BY <1>1, SessionInductive, PTL

\* The session, its restores and its submissions included, implements the two
\* slots of AttachmentSlots.
THEOREM SessionImplementsSlots == SessionSpec => SlotsKept
<1>1. SessionShaped /\ [SessionNext]_allVars => [Slots!SlotsNext]_Slots!slotVars
  BY SessionUploads
<1>2. SessionInit => Slots!SlotsInit
  BY UploadsBegin DEF SessionInit
<1>. QED BY <1>1, <1>2, SessionInductive, PTL DEF SessionSpec, SlotsKept, Slots!SlotsSpec
=============================================================================
