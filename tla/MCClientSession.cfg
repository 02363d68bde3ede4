\* Two students who share a browser.  Three of: sign-ins, page loads, files and
\* failed calls to the browser's storage.
SPECIFICATION SessionSpec
CONSTANTS
  Students = {s1, s2}
  Names = {a}
  Threads = {t1}
  NoStudent = NoStudent
  NoFile = NoFile
  NoDraft = NoDraft
  MaxFiles = 2
  MaxOpened = 2
  MaxSessions = 1
  MaxTyped = 1
  MaxLogins = 2
  MaxSent = 2
  MaxTasks = 2
  MaxFailures = 1
  MaxRare = 3
INVARIANTS
  TypeOK
  TextStaysWithAuthor
  AttachmentsOfAuthor
  SignOutFinal
  SentOnce
  SentDraftGone
  QueueServed
PROPERTIES
  SlotsKept
SYMMETRY Symmetry
CHECK_DEADLOCK FALSE
