------------------------------- MODULE Portals -------------------------------
(***************************************************************************)
(* A portal and, in the coordinator's, the roll-number pool on its fourth  *)
(* tab.  Drawing that tab makes a new table and a new card: what was read, *)
(* chosen or uploaded for the old ones no longer reaches the screen.       *)
(***************************************************************************)
EXTENDS PortalTabs, RollPoolTab, SpreadsheetImport

CONSTANT
  Shares  \* bound: what a behaviour that begins at the pool has used up of the turns
          \* and picks, and whether an update is under way (NoForm: none is)

\* An update that is under way was a press.
ASSUME SharesAssumption ==
  /\ Shares \subseteq [turns : 0..MaxTurns, picks : 0..MaxPicks, form : {NoForm, "ApplyStatus"}]
  /\ \A share \in Shares : share.form # NoForm => MaxPresses > 0

poolParts == <<poolVars, importVars>>
allVars == <<vars, poolParts>>

PoolTab == 3

\* A portal that has just been built; the bounds of the pool are used up.
Built == Init /\ PoolInit(MaxTurns) /\ ImportInit(MaxPicks)

\* A coordinator who has gone to the pool while an update of a complaint may
\* still be under way; the bounds of the tabs are used up.
AtPool ==
  /\ \E share \in Shares, thread \in Threads :
       /\ PoolInit(share.turns) /\ ImportInit(share.picks)
       /\ job = [a \in Actors |->
                   IF a = thread /\ share.form # NoForm
                   THEN [NoJob EXCEPT !.form = share.form, !.step = "call"] ELSE NoJob]
  /\ kind = "Coordinator" /\ kind \in Kinds
  /\ version = [s \in Subjects |-> 0] /\ own = version
  /\ selected = PoolTab /\ shown = [tab |-> PoolTab, state |-> "ready"]
  /\ drawn = [t \in Tabs |-> [v |-> 0, state |-> IF t = PoolTab THEN "ready" ELSE "none"]]
  /\ greyed = {} /\ raised = {} /\ hitches = {}
  /\ listed = TRUE /\ rows = 0 /\ list = {} /\ fetch = {} /\ boardError = FALSE
  /\ refLoaded = TRUE /\ refError = FALSE
  /\ load = [board |-> "none", reference |-> "none", since |-> 0]
  /\ presses = MaxPresses /\ visits = MaxVisits

----------------------------------------------------------------------------
\* Drawing the pool's tab makes its table and its card.
DrawTab(actor) ==
  /\ Draw(actor)
  /\ IF NameOf(job[actor].tab) = "pool" THEN PoolDrawn /\ CardDrawn ELSE UNCHANGED poolParts

TabSteps ==
  /\ \/ (UserSteps \/ HandlerSteps \/ LoadSteps) /\ UNCHANGED poolParts
     \/ \E actor \in Actors : DrawTab(actor)
  /\ Cardinality(hitches') <= MaxHitches

\* What the coordinator does on the pool's tab.
PoolUser ==
  /\ job[Loop].step = "idle"
  /\ NameOf(shown.tab) = "pool" /\ shown.state = "ready"
  /\ \/ PoolClicks /\ UNCHANGED importVars
     \/ ImportClicks /\ UNCHANGED poolVars
     \/ \E chooser \in Choosers :
          Import(chooser) /\ ImportEnds(chooser = "card" \/ dialog = "open")

PoolSteps ==
  /\ \/ PoolUser
     \/ PoolBackground /\ UNCHANGED importVars
     \/ ImportBackground /\ UNCHANGED poolVars
  /\ UNCHANGED vars

PortalsInit == Built \/ AtPool
PortalsNext == TabSteps \/ PoolSteps
PortalsSpec == PortalsInit /\ [][PortalsNext]_allVars

PortalsTypeOK == TypeOK /\ PoolTypeOK /\ ImportTypeOK
=============================================================================
