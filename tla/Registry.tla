------------------------------ MODULE Registry ------------------------------
(***************************************************************************)
(* What the reversal database promises its readers: a report is filed once *)
(* per account and marketplace, may be expunged and may be removed, each   *)
(* for good, and an account's reports can be erased altogether.            *)
(***************************************************************************)
CONSTANTS
  Ids,        \* identifiers of reports
  Accounts,   \* Steam accounts
  Slugs       \* marketplaces

VARIABLE report   \* report[id]: Unused, Erased or [account, slug, status]

Unused == [status |-> "unused"]    \* no report has this identifier yet
Erased == [status |-> "erased"]    \* its report was erased

Filed(id) == report[id].status \notin {"unused", "erased"}

Standing(id) == Filed(id) /\ report[id].status # "removed"

SameSubject(p, q) == p.account = q.account /\ p.slug = q.slug

Init ==
  \A id \in Ids : Filed(id) => report[id] \in [account : Accounts, slug : Slugs,
                                               status : {"reported"}]

\* A batch of reports of one marketplace, none of which stands already.
File(new) ==
  /\ \A id \in new : report[id] = Unused
  /\ \A id \in Ids \ new : report'[id] = report[id]
  /\ \A id \in new : report'[id] \in [account : Accounts, slug : Slugs,
                                      status : {"reported"}]
  /\ \A id, other \in new :
       /\ report'[id].slug = report'[other].slug
       /\ id # other => ~SameSubject(report'[id], report'[other])
  /\ \A id \in new, old \in Ids :
       Standing(old) => ~SameSubject(report'[id], report[old])

Move(id, status) == report' = [report EXCEPT ![id].status = status]

Expunge(id) ==
  /\ Standing(id)
  /\ report[id].status = "reported"
  /\ Move(id, "expunged")

Remove(id) ==
  /\ Standing(id)
  /\ Move(id, "removed")

Erase(a) ==
  report' = [id \in Ids |->
               IF Filed(id) /\ report[id].account = a THEN Erased ELSE report[id]]

Next ==
  \/ \E new \in (SUBSET Ids) \ {{}} : File(new)
  \/ \E id \in Ids : Expunge(id) \/ Remove(id)
  \/ \E a \in Accounts : Erase(a)

Spec == Init /\ [][Next]_report
=============================================================================
