------------------------------ MODULE PortalTabs ------------------------------
(***************************************************************************)
(* The tabs of a portal (ui/views/staff_view.py, ui/views/student_view.py, *)
(* ui/views/account_view.py, ui/components/complaint_detail.py).           *)
(*                                                                         *)
(* A portal draws a tab when it is first visited and keeps the drawing in  *)
(* _tab_cache; later visits show the drawing that was kept.  What keeps it *)
(* true is that every handler that changes something drops the tabs that   *)
(* draw it.  _switch_view is not atomic: the event loop and the threads of *)
(* the handlers call it, and each may be half-way while another passes.    *)
(*                                                                         *)
(* A handler is a record: which tab its button is on, whether it runs in a *)
(* thread, what it changes, which tabs it drops and shows afterwards, and  *)
(* after which outcomes its button is usable again.  A drawing is the      *)
(* version of what it shows, the oldest that may be, and whether it shows  *)
(* that, a progress ring or an error.                                      *)
(*                                                                         *)
(* Complaints are drawn from a list the portal keeps (cached_complaints,   *)
(* the staff's cached_list_complaints) or, where there is none, from one   *)
(* that is then read.  A tab with such a list is drawn at once and filled  *)
(* by the read, or with an error and a Retry button when it fails: either  *)
(* replaces the ring of that read, which is left out.  How several reads   *)
(* share one request is the matter of SharedFetch.                         *)
(***************************************************************************)
EXTENDS Naturals, Sequences, FiniteSets

CONSTANTS
  Kinds,      \* the portals a behaviour may be in
  FirstTabs,  \* the tabs a student's session may be restored at
  Threads,    \* threads of handlers that can run at once
  Loop,       \* the event loop, which runs one handler or click at a time
  NoForm,
  MaxPresses, \* bound: buttons pressed in a behaviour
  MaxVisits,  \* bound: visits of another tab in a behaviour
  MaxHitches  \* bound: kinds of hitch (below) that happen in one behaviour

\* The tabs of each portal, tab 0 first.
TabsOf ==
  [Student         |-> <<"dashboard", "new", "complaints", "feedback", "hostel", "account">>,
   Coordinator     |-> <<"dashboard", "complaints", "groups", "pool", "analytics", "account">>,
   HOD             |-> <<"dashboard", "complaints", "groups", "codes", "analytics", "account">>,
   GeneralHOD      |-> <<"dashboard", "complaints", "groups", "codes", "analytics", "account">>,
   LibraryIncharge |-> <<"dashboard", "complaints", "groups", "codes", "analytics", "account">>,
   HostelIncharge  |-> <<"dashboard", "requests", "complaints", "groups", "codes", "account">>,
   Principal       |-> <<"dashboard", "complaints", "analytics", "locations", "codes", "account">>]

Tabs == 0..5

ASSUME TabsAssumption ==
  /\ Kinds \subseteq DOMAIN TabsOf
  /\ FirstTabs \subseteq Tabs
  /\ Loop \notin Threads
  /\ MaxPresses \in Nat /\ MaxVisits \in Nat /\ MaxHitches \in Nat

\* What a tab shows.
SubjectOf ==
  [dashboard |-> "complaints", new |-> "nothing", complaints |-> "complaints",
   groups |-> "complaints", analytics |-> "complaints", feedback |-> "feedback",
   hostel |-> "hostel", account |-> "accounts", requests |-> "requests",
   locations |-> "locations", codes |-> "nothing", pool |-> "nothing"]

Subjects == {SubjectOf[name] : name \in DOMAIN SubjectOf}

\* Where a handler switches to if not to a tab: the selected tab, or nowhere.
Selected == 6
Stay == 7

Outcomes == {"accepted", "refused", "raised"}

\* A handler that runs on the event loop, greys its button and always frees it.
Handler ==
  [on |-> {}, thread |-> FALSE, dialog |-> FALSE, greys |-> TRUE, restores |-> Outcomes,
   raises |-> FALSE, about |-> "nothing", drops |-> {}, goes |-> Stay,
   whatever |-> FALSE, rereads |-> FALSE, forgets |-> FALSE, lists |-> FALSE,
   last |-> FALSE]

----------------------------------------------------------------------------
(* The handlers.                                                           *)
(*   on        the tabs its button is on, or those its dialog is opened at *)
(*   raises    an exception of the service ends the handler where it is;   *)
(*             otherwise it is caught and is one more refusal              *)
(*   about     what it changes when it is accepted                         *)
(*   drops     the tabs that are dropped, and goes the tab that is shown,  *)
(*             when it is accepted (whatever: when it is refused too)      *)
(*   rereads   it reads the accounts again and refills the tab it is on    *)
(*   forgets   cached_complaints = None, cached_list_complaints = None     *)
(*   lists     it reads the list of complaints again (refresh_list)        *)
(*   last      it frees its button after it has shown the tab (finally)    *)

\* Student.
SubmitComplaint ==
  [Handler EXCEPT !.on = {"new"}, !.thread = TRUE, !.about = "complaints",
                  !.drops = Tabs, !.goes = 2, !.restores = {"refused"}, !.forgets = TRUE]

DeleteComplaint ==
  [Handler EXCEPT !.on = {"complaints"}, !.thread = TRUE, !.dialog = TRUE,
                  !.about = "complaints", !.drops = Tabs, !.forgets = TRUE,
                  !.lists = TRUE]

DeleteInDetail ==
  [Handler EXCEPT !.on = {"dashboard", "complaints"}, !.thread = TRUE, !.dialog = TRUE,
                  !.about = "complaints", !.goes = Selected, !.forgets = TRUE,
                  !.last = TRUE]

SubmitFeedback ==
  [Handler EXCEPT !.on = {"feedback"}, !.thread = TRUE, !.dialog = TRUE,
                  !.about = "feedback", !.drops = {3}, !.goes = 3, !.last = TRUE]

EditFeedback == SubmitFeedback

RefreshFeedback ==
  [Handler EXCEPT !.on = {"feedback"}, !.greys = FALSE, !.drops = {3}, !.goes = 3]

RequestHostel ==
  [Handler EXCEPT !.on = {"hostel"}, !.dialog = TRUE, !.about = "hostel", !.goes = 4]

\* Everybody's list of complaints.
RefreshList == [Handler EXCEPT !.on = {"complaints"}, !.greys = FALSE, !.lists = TRUE]

\* Everybody's account tab.
SaveProfile == [Handler EXCEPT !.on = {"account"}, !.thread = TRUE]

ChangePassword == [Handler EXCEPT !.on = {"account"}, !.thread = TRUE]

\* The accounts of others: on_refresh switches to the selected tab.
ResetCoordinator ==
  [Handler EXCEPT !.on = {"account"}, !.greys = FALSE, !.about = "accounts",
                  !.goes = Selected, !.whatever = TRUE]

ToggleCoordinator == ResetCoordinator

ResetHod == ResetCoordinator

ToggleHod == ToggleCoordinator

ResetHostelIncharge == ResetCoordinator

ToggleHostelIncharge == ToggleCoordinator

ResetLibraryIncharge == ResetCoordinator

ResetGeneralHod == ResetCoordinator

ResetStudent ==
  [Handler EXCEPT !.on = {"account"}, !.greys = FALSE, !.about = "accounts",
                  !.rereads = TRUE]

ResetStudentOfPool == [Handler EXCEPT !.on = {"pool"}, !.greys = FALSE]

\* Staff.
\* Mutant: the button is freed when the call is refused only.
ApplyStatusUnfreed ==
  [Handler EXCEPT !.on = {"dashboard", "complaints", "groups"}, !.thread = TRUE,
                  !.dialog = TRUE, !.about = "complaints", !.drops = Tabs,
                  !.goes = Selected, !.restores = {"refused"}, !.forgets = TRUE]

\* Mutant: the lists of complaints are kept.
ApplyStatusRemembers ==
  [Handler EXCEPT !.on = {"dashboard", "complaints", "groups"}, !.thread = TRUE,
                  !.dialog = TRUE, !.about = "complaints", !.drops = Tabs,
                  !.goes = Selected, !.last = TRUE]

ApplyStatus ==
  [Handler EXCEPT !.on = {"dashboard", "complaints", "groups"}, !.thread = TRUE,
                  !.dialog = TRUE, !.about = "complaints", !.drops = Tabs,
                  !.goes = Selected, !.forgets = TRUE, !.last = TRUE]

RefreshGroups ==
  [Handler EXCEPT !.on = {"groups"}, !.greys = FALSE, !.drops = {Selected},
                  !.goes = Selected]

\* Mutant: the index of the tab in another portal.
ApproveRequestDropsList ==
  [Handler EXCEPT !.on = {"requests"}, !.greys = FALSE, !.raises = TRUE,
                  !.about = "requests", !.drops = {2}, !.goes = 1, !.whatever = TRUE]

ApproveRequest ==
  [Handler EXCEPT !.on = {"requests"}, !.greys = FALSE, !.raises = TRUE,
                  !.about = "requests", !.drops = {1}, !.goes = 1, !.whatever = TRUE]

DenyRequest ==
  [Handler EXCEPT !.on = {"requests"}, !.dialog = TRUE, !.raises = TRUE,
                  !.about = "requests", !.drops = {1}, !.goes = 1,
                  !.restores = {"accepted", "refused"}]

SaveHodCode ==
  [Handler EXCEPT !.on = {"codes"}, !.raises = TRUE,
                  !.restores = {"accepted", "refused"}]

SaveCoordinatorCode == SaveHodCode

SaveGeneralCode == SaveHodCode

SaveLibraryCode == SaveHodCode

SaveHostelCode == SaveHodCode

ResetCode == SaveHodCode

AddLocation ==
  [Handler EXCEPT !.on = {"locations"}, !.about = "locations", !.goes = 3,
                  !.restores = {"refused"}]

ToggleLocation ==
  [Handler EXCEPT !.on = {"locations"}, !.greys = FALSE, !.raises = TRUE,
                  !.about = "locations", !.goes = 3]

----------------------------------------------------------------------------
Form ==
  [SubmitComplaint |-> SubmitComplaint, DeleteComplaint |-> DeleteComplaint,
   DeleteInDetail |-> DeleteInDetail, SubmitFeedback |-> SubmitFeedback,
   EditFeedback |-> EditFeedback, RefreshFeedback |-> RefreshFeedback,
   RequestHostel |-> RequestHostel, RefreshList |-> RefreshList,
   SaveProfile |-> SaveProfile, ChangePassword |-> ChangePassword,
   ResetCoordinator |-> ResetCoordinator, ToggleCoordinator |-> ToggleCoordinator,
   ResetHod |-> ResetHod, ToggleHod |-> ToggleHod,
   ResetHostelIncharge |-> ResetHostelIncharge,
   ToggleHostelIncharge |-> ToggleHostelIncharge,
   ResetLibraryIncharge |-> ResetLibraryIncharge, ResetGeneralHod |-> ResetGeneralHod,
   ResetStudent |-> ResetStudent, ResetStudentOfPool |-> ResetStudentOfPool,
   ApplyStatus |-> ApplyStatus, RefreshGroups |-> RefreshGroups,
   ApproveRequest |-> ApproveRequest, DenyRequest |-> DenyRequest,
   SaveHodCode |-> SaveHodCode, SaveCoordinatorCode |-> SaveCoordinatorCode,
   SaveGeneralCode |-> SaveGeneralCode, SaveLibraryCode |-> SaveLibraryCode,
   SaveHostelCode |-> SaveHostelCode, ResetCode |-> ResetCode,
   AddLocation |-> AddLocation, ToggleLocation |-> ToggleLocation]

Forms == DOMAIN Form

ASSUME FormsAssumption == NoForm \notin Forms

\* The forms of every portal, and those of each.
CommonForms == {"RefreshList", "SaveProfile", "ChangePassword"}

FormsOf ==
  [Student         |-> {"SubmitComplaint", "DeleteComplaint", "DeleteInDetail",
                        "SubmitFeedback", "EditFeedback", "RefreshFeedback",
                        "RequestHostel"},
   Coordinator     |-> {"ApplyStatus", "RefreshGroups", "ResetStudent",
                        "ResetStudentOfPool"},
   HOD             |-> {"ApplyStatus", "RefreshGroups", "ResetCoordinator",
                        "ToggleCoordinator", "SaveHodCode", "SaveCoordinatorCode"},
   GeneralHOD      |-> {"RefreshGroups", "SaveGeneralCode"},
   LibraryIncharge |-> {"RefreshGroups", "SaveLibraryCode"},
   HostelIncharge  |-> {"ApplyStatus", "RefreshGroups", "ApproveRequest", "DenyRequest",
                        "SaveHostelCode"},
   Principal       |-> {"ApplyStatus", "AddLocation", "ToggleLocation", "ResetCode",
                        "ResetHod", "ToggleHod", "ResetHostelIncharge",
                        "ToggleHostelIncharge", "ResetLibraryIncharge",
                        "ResetGeneralHod"}]

\* The handlers that change what a tab shows and do not drop that tab: the
\* drawing that was kept is shown again until something drops all tabs.
Keeping ==
  {"DeleteInDetail", "RequestHostel", "AddLocation", "ToggleLocation",
   "ResetCoordinator", "ToggleCoordinator", "ResetHod", "ToggleHod",
   "ResetHostelIncharge", "ToggleHostelIncharge", "ResetLibraryIncharge",
   "ResetGeneralHod"}

----------------------------------------------------------------------------
VARIABLES
  kind,        \* the portal
  version,     \* how often the user has changed each subject
  own,         \* ghost: the version of his last change by a form not in Keeping
  selected,    \* selected_tab_index
  shown,       \* active_container.content: which tab, and whether it is ready
  drawn,       \* _tab_cache: the drawing kept of each tab
  job,         \* what the loop and each thread are doing
  greyed,      \* the forms whose button on the screen is disabled
  raised,      \* ghost: those of them whose handler ended in an exception
  listed,      \* the data of the dashboard is present (cached_complaints, cached_metrics)
  rows,        \* and its version, the oldest it may have (0 when it is not present)
  list,        \* the version of the staff's cached_list_complaints, none when it is None
  fetch,       \* the versions at which the reads for lists on the screen began
  boardError,  \* _dashboard_error
  refLoaded,   \* the categories are present (student)
  refError,    \* _reference_error
  load,        \* the background loads: of the dashboard, with the version at which its
               \* read began, and of the categories
  hitches,     \* ghost: what has happened that the drawings do not recover from
  presses, visits

vars == <<kind, version, own, selected, shown, drawn, job, greyed, raised, listed,
          rows, list, fetch, boardError, refLoaded, refError, load, hitches, presses,
          visits>>

lists == <<listed, rows, list, fetch>>
board == <<lists, boardError, refLoaded, refError, load>>
ghosts == <<raised, hitches>>
bounds == <<presses, visits>>

Actors == Threads \cup {Loop}

NameOf(tab) == TabsOf[kind][tab + 1]
About(tab) == SubjectOf[NameOf(tab)]

NoJob ==
  [form |-> NoForm, step |-> "idle", tab |-> 0, v |-> 0, state |-> "none",
   direct |-> FALSE, current |-> FALSE]

NotKept == [v |-> 0, state |-> "none"]

\* The request for rows that would answer now: a student has one at a time.
Since ==
  IF kind = "Student" /\ load.board # "none" THEN load.since
  ELSE IF kind = "Student" /\ fetch # {} THEN CHOOSE v \in fetch : TRUE
  ELSE version["complaints"]

\* What is left to do when a handler has shown its tab.
Shown(j) ==
  IF j.form # NoForm /\ Form[j.form].last
  THEN [NoJob EXCEPT !.form = j.form, !.step = "free", !.current = j.current]
  ELSE NoJob

\* Somebody else is between reading what a tab shows and putting it up.
Crossing(actor) == \E other \in Actors \ {actor} : job[other].step \in {"draw", "place"}

Hitch(name, happened) == IF happened THEN {name} ELSE {}

Init ==
  /\ kind \in Kinds
  /\ version = [s \in Subjects |-> 0]
  /\ own = version
  /\ selected \in IF kind = "Student" THEN FirstTabs ELSE {0}
  /\ shown = [tab |-> selected, state |-> "none"]
  /\ drawn = [t \in Tabs |-> NotKept]
  /\ job = [a \in Actors |->
              IF a = Loop THEN [NoJob EXCEPT !.step = "switch", !.tab = selected]
              ELSE NoJob]
  /\ greyed = {} /\ raised = {} /\ hitches = {}
  /\ listed = FALSE /\ rows = 0 /\ list = {} /\ fetch = {} /\ boardError = FALSE
  /\ refLoaded \in BOOLEAN /\ refError = FALSE
  /\ load = [board |-> "none", reference |-> "none", since |-> 0]
  /\ presses = 0 /\ visits = 0

----------------------------------------------------------------------------
(* The user.                                                               *)

\* _switch_view: it puts up the drawing that was kept, or makes one.
SwitchTo(actor, tab) ==
  /\ selected' = tab
  /\ IF drawn[tab].state # "none"
     THEN /\ shown' = [tab |-> tab, state |-> drawn[tab].state]
          /\ job' = [job EXCEPT ![actor] = Shown(@)]
     ELSE /\ job' = [job EXCEPT ![actor].step = "draw", ![actor].tab = tab]
          /\ shown' = shown
  /\ hitches' = hitches \cup Hitch("crossed", Crossing(actor))
  /\ UNCHANGED <<kind, version, own, drawn, greyed, raised, board, presses>>

\* A tab of the navigation bar.
Navigate(tab) ==
  /\ job[Loop].step = "idle"
  /\ tab # selected => visits < MaxVisits
  /\ visits' = IF tab # selected THEN visits + 1 ELSE visits
  /\ SwitchTo(Loop, tab)

\* A button on the tab that is shown.  A dialog is opened with a new button.
Press(form) ==
  LET h == Form[form] IN
  /\ job[Loop].step = "idle"
  /\ presses < MaxPresses
  /\ form \in FormsOf[kind] \cup CommonForms
  /\ shown.state = "ready" /\ NameOf(shown.tab) \in h.on
  /\ form \notin greyed
  /\ \E actor \in IF h.thread THEN Threads ELSE {Loop} :
       /\ job[actor].step = "idle"
       /\ job' = [job EXCEPT ![actor] =
                    [NoJob EXCEPT !.form = form, !.step = "call", !.current = h.greys]]
  /\ greyed' = IF h.greys THEN greyed \cup {form} ELSE greyed
  /\ presses' = presses + 1
  /\ UNCHANGED <<kind, version, own, selected, shown, drawn, board, ghosts, visits>>

\* Mutant: the ghost is kept.
ReopenUnforgiven(form) ==
  /\ job[Loop].step = "idle"
  /\ form \in greyed /\ Form[form].dialog
  /\ NameOf(shown.tab) \in Form[form].on
  /\ greyed' = greyed \ {form}
  /\ UNCHANGED <<kind, version, own, selected, shown, drawn, job, board, ghosts, bounds>>

\* The dialog is closed and opened again while or after its handler runs.
Reopen(form) ==
  /\ job[Loop].step = "idle"
  /\ form \in greyed /\ Form[form].dialog
  /\ NameOf(shown.tab) \in Form[form].on
  /\ greyed' = greyed \ {form}
  /\ raised' = raised \ {form}
  /\ job' = [a \in Actors |-> IF job[a].form = form THEN [job[a] EXCEPT !.current = FALSE]
                              ELSE job[a]]
  /\ UNCHANGED <<kind, version, own, selected, shown, drawn, board, hitches, bounds>>

\* The Retry button of a dashboard: the staff's forgets what it has.
RetryBoard ==
  LET student == kind = "Student" IN
  /\ job[Loop].step = "idle"
  /\ NameOf(shown.tab) = "dashboard" /\ shown.state = "error"
  /\ listed' = (listed /\ student)
  /\ rows' = IF student THEN rows ELSE 0
  /\ boardError' = FALSE
  /\ load' = IF student /\ load.board = "none"
             THEN [load EXCEPT !.board = "running", !.since = Since] ELSE load
  /\ drawn' = [drawn EXCEPT ![0] = NotKept]
  /\ job' = [job EXCEPT ![Loop] = [NoJob EXCEPT !.step = "draw", !.direct = TRUE]]
  /\ hitches' = hitches \cup Hitch("crossed", Crossing(Loop))
  /\ UNCHANGED <<kind, version, own, selected, shown, greyed, raised, list, fetch,
                 refLoaded, refError, bounds>>

\* The Retry button of the categories puts up the progress ring even when it
\* finds them in the cache of the process.
RetryReference ==
  /\ job[Loop].step = "idle"
  /\ NameOf(shown.tab) \in {"new", "complaints"} /\ kind = "Student"
  /\ shown.state = "error"
  /\ refError' = FALSE
  /\ \/ refLoaded' = TRUE /\ load' = load
     \/ ~refLoaded /\ refLoaded' = FALSE /\ load' = [load EXCEPT !.reference = "running"]
  /\ shown' = [shown EXCEPT !.state = "loading"]
  /\ hitches' = hitches \cup Hitch("retried", refLoaded')
  /\ UNCHANGED <<kind, version, own, selected, drawn, job, greyed, raised, lists,
                 boardError, bounds>>

----------------------------------------------------------------------------
(* The handlers.                                                           *)

\* The service answers, and the handler does everything up to _switch_view.
Return(actor, outcome) ==
  LET form == job[actor].form
      h == Form[form]
      accepted == outcome = "accepted"
      after == accepted \/ (h.whatever /\ outcome = "refused")
      changes == accepted /\ h.about # "nothing"
      dropped == IF ~after THEN {}
                 ELSE {t \in Tabs : t \in h.drops \/ (t = selected /\ Selected \in h.drops)}
      forgets == accepted /\ h.forgets
      reads == accepted /\ h.lists /\ (kind = "Student" => load.board = "none" /\ fetch = {})
      seen == IF after /\ h.rereads THEN {t \in Tabs : NameOf(t) = "account"} ELSE {}
      goes == after /\ h.goes # Stay
      frees == job[actor].current /\ outcome \in h.restores /\ ~(goes /\ h.last)
  IN
  /\ job[actor].step = "call"
  /\ outcome = "raised" => h.raises
  /\ version' = IF changes THEN [version EXCEPT ![h.about] = @ + 1] ELSE version
  /\ own' = IF changes /\ form \notin Keeping THEN [own EXCEPT ![h.about] = version'[h.about]]
            ELSE own
  /\ drawn' = [t \in Tabs |-> IF t \in dropped THEN NotKept
                              ELSE IF t \in seen /\ drawn[t].state = "ready"
                              THEN [drawn[t] EXCEPT !.v = version'[About(t)]]
                              ELSE drawn[t]]
  /\ listed' = (listed /\ ~forgets)
  /\ rows' = IF forgets THEN 0 ELSE rows
  /\ list' = IF forgets THEN {} ELSE list
  /\ fetch' = IF reads THEN fetch \cup {version'["complaints"]} ELSE fetch
  /\ load' = IF forgets /\ load.board = "running" THEN [load EXCEPT !.board = "forgotten"]
             ELSE load
  /\ greyed' = IF frees THEN greyed \ {form} ELSE greyed
  /\ raised' = IF job[actor].current /\ outcome = "raised" THEN raised \cup {form} ELSE raised
  /\ job' = [job EXCEPT ![actor] =
               IF goes THEN [@ EXCEPT !.step = "switch", !.tab = h.goes] ELSE NoJob]
  /\ hitches' = hitches \cup
       Hitch("crossed", \/ Crossing(actor) /\ (changes \/ dropped # {})
                        \/ forgets /\ (load.board # "none" \/ fetch # {}))
  /\ UNCHANGED <<kind, selected, shown, boardError, refLoaded, refError, bounds>>

\* The finally of a handler that has shown its tab.
Free(actor) ==
  /\ job[actor].step = "free"
  /\ greyed' = IF job[actor].current THEN greyed \ {job[actor].form} ELSE greyed
  /\ job' = [job EXCEPT ![actor] = NoJob]
  /\ UNCHANGED <<kind, version, own, selected, shown, drawn, board, ghosts, bounds>>

----------------------------------------------------------------------------
(* The drawings.                                                           *)

\* The handler switches to a tab of its own or to the one selected by now.
SwitchView(actor) ==
  /\ job[actor].step = "switch"
  /\ SwitchTo(actor, IF job[actor].tab = Selected THEN selected ELSE job[actor].tab)
  /\ visits' = visits

\* _render_dashboard, with the load it starts when the data is missing.
DrawBoard(actor) ==
  LET student == kind = "Student"
      starts == ~listed /\ load.board = "none"
                /\ IF student THEN ~job[actor].direct ELSE ~boardError
  IN
  /\ NameOf(job[actor].tab) = "dashboard"
  /\ load' = IF starts THEN [load EXCEPT !.board = "running", !.since = Since] ELSE load
  /\ boardError' = (boardError /\ ~starts)
  /\ job' = [job EXCEPT ![actor].step = "place",
                        ![actor].v = IF listed THEN rows ELSE 0,
                        ![actor].state = IF listed THEN "ready"
                                         ELSE IF boardError' THEN "error" ELSE "loading"]
  /\ UNCHANGED <<lists, refLoaded, refError>>

\* The student's form and list need the categories: _ensure_reference_data_loaded
\* finds them in the cache of the process (warm) or starts their load.
DrawWithReference(actor, warm) ==
  LET waits == ~refLoaded /\ ~warm
      starts == waits /\ load.reference = "none" /\ ~job[actor].direct
      mine == ~waits /\ NameOf(job[actor].tab) = "complaints"
      asks == mine /\ ~listed /\ load.board = "none" /\ fetch = {}
  IN
  /\ kind = "Student" /\ NameOf(job[actor].tab) \in {"new", "complaints"}
  /\ warm => ~refLoaded
  /\ refLoaded' = ~waits
  /\ load' = IF starts THEN [load EXCEPT !.reference = "running"] ELSE load
  /\ refError' = (refError /\ ~starts)
  /\ job' = [job EXCEPT ![actor].step = "place",
                        ![actor].v = IF ~mine THEN 0
                                     ELSE IF listed THEN rows ELSE Since,
                        ![actor].state = IF ~waits THEN "ready"
                                         ELSE IF refError' THEN "error" ELSE "loading"]
  \* the list of complaints is the one of the dashboard
  /\ fetch' = IF asks THEN {version["complaints"]} ELSE fetch
  /\ UNCHANGED <<listed, rows, list, boardError>>

\* The staff's list of complaints is not the one of their dashboard.
DrawList(actor) ==
  /\ kind # "Student" /\ NameOf(job[actor].tab) = "complaints"
  /\ fetch' = IF list = {} THEN fetch \cup {version["complaints"]} ELSE fetch
  /\ \E v \in IF list = {} THEN {version["complaints"]} ELSE list :
       job' = [job EXCEPT ![actor].step = "place", ![actor].v = v, ![actor].state = "ready"]
  /\ UNCHANGED <<listed, rows, list, boardError, refLoaded, refError, load>>

DrawAnother(actor) ==
  /\ NameOf(job[actor].tab) \notin {"dashboard", "complaints"}
  /\ kind = "Student" => NameOf(job[actor].tab) # "new"
  /\ job' = [job EXCEPT ![actor].step = "place",
                        ![actor].v = version[About(job[actor].tab)],
                        ![actor].state = "ready"]
  /\ UNCHANGED board

Draw(actor) ==
  /\ job[actor].step = "draw"
  /\ \/ DrawBoard(actor) \/ DrawList(actor) \/ DrawAnother(actor)
     \/ \E warm \in BOOLEAN : DrawWithReference(actor, warm)
  /\ UNCHANGED <<kind, version, own, selected, shown, drawn, greyed, ghosts, bounds>>

\* A tab that reads the database may raise: it is logged, nothing is put up.
DrawFails(actor) ==
  /\ job[actor].step = "draw" /\ ~job[actor].direct
  /\ About(job[actor].tab) # "nothing" /\ NameOf(job[actor].tab) # "dashboard"
  /\ job' = [job EXCEPT ![actor] = Shown(@)]
  /\ hitches' = hitches \cup {"failed"}
  /\ UNCHANGED <<kind, version, own, selected, shown, drawn, greyed, raised, board, bounds>>

\* The drawing is kept and put up, with buttons of its own.  A load puts up its
\* drawing without keeping it, and the student's dashboard is kept once loaded.
Place(actor) ==
  LET tab == job[actor].tab
      keeps == ~job[actor].direct /\ (kind = "Student" /\ tab = 0 => listed)
      renewed == {f \in Forms : NameOf(tab) \in Form[f].on /\ ~Form[f].dialog}
  IN
  /\ job[actor].step = "place"
  /\ shown' = [tab |-> tab, state |-> job[actor].state]
  /\ drawn' = IF keeps THEN [drawn EXCEPT ![tab] = [v |-> job[actor].v, state |-> job[actor].state]]
              ELSE drawn
  /\ greyed' = greyed \ renewed
  /\ raised' = raised \ renewed
  /\ job' = [a \in Actors |-> IF a = actor THEN Shown(job[a])
                              ELSE IF job[a].form \in renewed
                              THEN [job[a] EXCEPT !.current = FALSE]
                              ELSE job[a]]
  /\ UNCHANGED <<kind, version, own, selected, board, hitches, bounds>>

----------------------------------------------------------------------------
(* The ends of the background loads, which draw what is selected then.     *)

\* The student's load drops the dashboard wherever the user is, the staff's
\* only when it is selected.  What came before cached_complaints was emptied
\* may be gone.
BoardLoaded(outcome) ==
  LET there == selected = 0
      drops == kind = "Student" \/ there
  IN
  /\ load.board # "none"
  /\ outcome = "gone" => load.board = "forgotten"
  /\ load' = [load EXCEPT !.board = "none", !.since = 0]
  /\ listed' = (listed \/ outcome = "rows")
  /\ rows' = IF outcome = "rows" THEN load.since ELSE rows
  /\ boardError' = (outcome = "failed")
  /\ drawn' = IF drops THEN [drawn EXCEPT ![0] = NotKept] ELSE drawn
  /\ \/ ~there /\ job' = job
     \/ there /\ \E thread \in Threads :
          /\ job[thread].step = "idle"
          /\ job' = [job EXCEPT ![thread] = [NoJob EXCEPT !.step = "draw", !.direct = TRUE]]
  /\ hitches' = hitches \cup Hitch("left", ~drops /\ drawn[0].state = "loading")
                        \cup Hitch("crossed", \E a \in Actors : job[a].step \in {"draw", "place"})
  /\ UNCHANGED <<kind, version, own, selected, shown, greyed, raised, list, fetch, refLoaded,
                 refError, bounds>>

\* Mutant: the list is left as it is.
WaitingForm == {1}

\* The student's tabs that wait for the categories.
Waiting == {1, 2}

ReferenceLoaded(succeeds) ==
  LET there == selected \in Waiting IN
  /\ load.reference = "running"
  /\ load' = [load EXCEPT !.reference = "none"]
  /\ refLoaded' = (refLoaded \/ succeeds)
  /\ refError' = ~succeeds
  /\ drawn' = [t \in Tabs |-> IF t \in Waiting THEN NotKept ELSE drawn[t]]
  /\ \/ ~there /\ job' = job
     \/ there /\ \E thread \in Threads :
          /\ job[thread].step = "idle"
          /\ job' = [job EXCEPT ![thread] =
                       [NoJob EXCEPT !.step = "draw", !.tab = selected, !.direct = TRUE]]
  /\ hitches' = hitches \cup
       Hitch("crossed", \E a \in Actors : job[a].step \in {"draw", "place"})
  /\ UNCHANGED <<kind, version, own, selected, shown, greyed, raised, lists, boardError,
                 bounds>>

\* The end of a read for a list on the screen, which is kept if it succeeded.
\* Another that began at the same version may go on.
ListRead(v, succeeds) ==
  /\ v \in fetch
  /\ fetch' \in {fetch \ {v}, IF kind = "Student" THEN {} ELSE fetch}
  /\ listed' = (listed \/ (succeeds /\ kind = "Student"))
  /\ rows' = IF succeeds /\ kind = "Student" THEN v ELSE rows
  /\ list' = IF succeeds /\ kind # "Student" THEN {v} ELSE list
  /\ UNCHANGED <<kind, version, own, selected, shown, drawn, job, greyed, boardError, refLoaded,
                 refError, load, ghosts, bounds>>

----------------------------------------------------------------------------
UserSteps ==
  \/ \E tab \in Tabs : Navigate(tab)
  \/ \E form \in Forms : Press(form) \/ Reopen(form)
  \/ RetryBoard
  \/ RetryReference

HandlerSteps ==
  \E actor \in Actors :
    \/ \E outcome \in Outcomes : Return(actor, outcome)
    \/ SwitchView(actor)
    \/ DrawFails(actor)
    \/ Place(actor)
    \/ Free(actor)

LoadSteps ==
  \/ \E outcome \in {"rows", "failed", "gone"} : BoardLoaded(outcome)
  \/ \E succeeds \in BOOLEAN : ReferenceLoaded(succeeds)
  \/ \E v \in fetch, succeeds \in BOOLEAN : ListRead(v, succeeds)

Next ==
  /\ UserSteps \/ HandlerSteps \/ LoadSteps \/ \E actor \in Actors : Draw(actor)
  /\ Cardinality(hitches') <= MaxHitches

Spec == Init /\ [][Next]_vars

----------------------------------------------------------------------------
\* The types of the variables.
TypeOK ==
  /\ kind \in Kinds
  /\ version \in [Subjects -> 0..MaxPresses] /\ own \in [Subjects -> 0..MaxPresses]
  /\ selected \in Tabs
  /\ shown.tab \in Tabs /\ shown.state \in {"none", "loading", "error", "ready"}
  /\ drawn \in [Tabs -> [v : 0..MaxPresses, state : {"none", "loading", "error", "ready"}]]
  /\ \A a \in Actors :
       /\ job[a].form \in Forms \cup {NoForm}
       /\ job[a].step \in {"idle", "call", "switch", "draw", "place", "free"}
       /\ job[a].step \in {"call", "free"} => job[a].form # NoForm
  /\ rows \in 0..MaxPresses /\ list \subseteq 0..MaxPresses /\ fetch \subseteq 0..MaxPresses
  /\ \A v, w \in list : v = w
  /\ kind = "Student" => list = {} /\ \A v, w \in fetch : v = w
  /\ raised \subseteq greyed /\ greyed \subseteq Forms
  /\ hitches \subseteq {"crossed", "failed", "left", "retried"}
  /\ presses \in 0..MaxPresses /\ visits \in 0..MaxVisits

\* A drawing that is kept is not older than the user's last change of what it
\* shows, whatever tabs he visits in between: each handler drops every tab that
\* draws what it changed.  Two things are excepted: a change or a drop while
\* somebody draws, and the handlers that drop nothing (Keeping).
CachedTabsCurrent ==
  "crossed" \notin hitches =>
    \A t \in Tabs : drawn[t].state = "ready" => drawn[t].v >= own[About(t)]

Quiet == \A a \in Actors : job[a].step = "idle"

\* Once nothing runs the screen shows the selected tab, and without a hitch it
\* is not a progress ring: every load ends with a drawing of the tab that
\* waits for it, or with that tab dropped.
ScreenSettles ==
  Quiet =>
    /\ hitches \cap {"crossed", "failed"} = {} => shown.tab = selected
    /\ load.board = "none" /\ load.reference = "none" /\ hitches = {}
         => /\ shown.state # "loading"
            /\ \A t \in Tabs : drawn[t].state # "loading"

\* A button that is grey is so because its handler is at work or has raised,
\* except that of a location that was added and that of a complaint that was
\* submitted, whose tab is dropped.
ButtonsComeBack ==
  \A f \in greyed \ raised :
    \/ \E a \in Actors : job[a].form = f /\ job[a].current
    \/ f = "AddLocation"
    \/ f = "SubmitComplaint" /\ drawn[1].state = "none"
=============================================================================
