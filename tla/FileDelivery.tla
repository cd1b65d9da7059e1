----------------------------- MODULE FileDelivery -----------------------------
(***************************************************************************)
(* What two stations promise about the files they send each other: a file  *)
(* reported as sent has been delivered to the other side, a report is      *)
(* final, and a file is delivered only if it was offered.  A lost link     *)
(* puts the files that were under way in doubt, and a file may be offered  *)
(* too soon after an earlier one; of those in doubt nothing is promised.   *)
(***************************************************************************)
EXTENDS Integers

CONSTANT Files

VARIABLES offered, delivered, sent, failed, doubted

vars == <<offered, delivered, sent, failed, doubted>>

Init ==
    /\ offered = {} /\ delivered = {} /\ sent = {} /\ failed = {} /\ doubted = {}

Offer(f) ==
    /\ f \notin offered
    /\ offered' = offered \cup {f}
    /\ doubted' \in {doubted, doubted \cup {f}}
    /\ UNCHANGED <<delivered, sent, failed>>

Deliver(f) ==
    /\ f \in offered \ delivered
    /\ delivered' = delivered \cup {f}
    /\ UNCHANGED <<offered, sent, failed, doubted>>

Unreported(f) == f \in offered \ (sent \cup failed)

ReportSent(f) ==
    /\ Unreported(f)
    /\ f \in delivered \cup doubted
    /\ sent' = sent \cup {f}
    /\ UNCHANGED <<offered, delivered, failed, doubted>>

ReportFailed(f) ==
    /\ Unreported(f)
    /\ failed' = failed \cup {f}
    /\ UNCHANGED <<offered, delivered, sent, doubted>>

LoseLink ==
    /\ \E underWay \in SUBSET offered : doubted' = doubted \cup underWay
    /\ UNCHANGED <<offered, delivered, sent, failed>>

Next ==
    \/ \E f \in Files : Offer(f) \/ Deliver(f) \/ ReportSent(f) \/ ReportFailed(f)
    \/ LoseLink

Spec == Init /\ [][Next]_vars
===============================================================================
