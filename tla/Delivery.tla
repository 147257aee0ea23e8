------------------------------ MODULE Delivery ------------------------------
(***************************************************************************)
(* What the CSFloat ingestor promises the table of reports: a warning is   *)
(* filed, or passed over, only when it has settled and every warning       *)
(* before it has been dealt with.  Around it CSFloat files reports of its  *)
(* own, and admins remove reports.                                         *)
(***************************************************************************)
EXTENDS Integers

CONSTANTS
  Accounts,    \* Steam accounts
  AccountOf,   \* AccountOf[w]: the account warning w is about
  NoReport,    \* the account has no report
  Own          \* CSFloat reported the account itself

VARIABLES
  feed,        \* the settled warnings are 1..feed
  report,      \* report[a]: the warning it came from, Own or NoReport
  removed,     \* the accounts an admin has removed a report of
  passed       \* the warnings passed over

vars == <<feed, report, removed, passed>>

Init ==
  /\ feed = 0
  /\ report = [a \in Accounts |-> NoReport]
  /\ removed = {}
  /\ passed = {}

DealtWith(w) ==
  \/ report[AccountOf[w]] # NoReport
  \/ AccountOf[w] \in removed
  \/ w \in passed

Due(w) == \A v \in 1..(w - 1) : DealtWith(v)

Settle ==
  /\ feed' = feed + 1
  /\ UNCHANGED <<report, removed, passed>>

FileReport(a, from) ==
  /\ report[a] = NoReport
  /\ report' = [report EXCEPT ![a] = from]
  /\ UNCHANGED <<feed, removed, passed>>

Deliver(w) == Due(w) /\ FileReport(AccountOf[w], w)

PassOver(w) ==
  /\ Due(w)
  /\ passed' = passed \cup {w}
  /\ UNCHANGED <<feed, report, removed>>

Remove(a) ==
  /\ report[a] # NoReport
  /\ report' = [report EXCEPT ![a] = NoReport]
  /\ removed' = removed \cup {a}
  /\ UNCHANGED <<feed, passed>>

Next ==
  \/ Settle
  \/ \E w \in 1..feed : Deliver(w) \/ PassOver(w)
  \/ \E a \in Accounts : FileReport(a, Own) \/ Remove(a)

Spec == Init /\ [][Next]_vars
=============================================================================
