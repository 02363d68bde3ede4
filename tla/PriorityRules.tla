---------------------------- MODULE PriorityRules ----------------------------
(***************************************************************************)
(* Priorities as the levels of PRIORITY_LEVELS and the rule that raises    *)
(* them with the number of similar complaints, in its two copies: Python's *)
(* (services/duplicate_service.py), which submission uses, and SQL's       *)
(* (005_functions.sql).  A name outside the table counts as Low.           *)
(***************************************************************************)
EXTENDS Naturals

Low    == 1
Medium == 2
High   == 3
Urgent == 4

PriorityLevels == Low..Urgent

\* The floor for a group of n complaints.
MinimumLevel(n) == CASE n >= 6           -> Urgent
                     [] n \in {4, 5}     -> High
                     [] n \in {2, 3}     -> Medium
                     [] OTHER            -> Low

CalculateAutoPriority(n, base) ==
  IF base >= MinimumLevel(n) THEN base ELSE MinimumLevel(n)

IsManualPriorityAllowed(manual, minimum) == manual >= minimum

\* SQL's copy decides on the base priority case by case.
CalculateMinimumPriority(n, base) ==
  CASE n >= 6       -> Urgent
    [] n \in {4, 5} -> IF base = Urgent THEN Urgent ELSE High
    [] n \in {2, 3} -> IF base \in {Urgent, High} THEN base ELSE Medium
    [] OTHER        -> base
=============================================================================
