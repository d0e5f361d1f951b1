---------------------------- MODULE RunOwnership ----------------------------
(***************************************************************************)
(* What the run core promises, without jobs, queues or workers: a run has  *)
(* a status and at most one owner, who holds it under a lease that may     *)
(* lapse; owners are never reused; the four end statuses are final.        *)
(***************************************************************************)
CONSTANTS Owners, NoOwner     \* NoOwner is not one of Owners

VARIABLES status, owner, live, spent

vars == <<status, owner, live, spent>>

Final == {"success", "failed", "cancelled", "terminated"}

Init == status = "queued" /\ owner = NoOwner /\ live = FALSE /\ spent = {}

\* A claim: of a free run, or of one whose owner's lease has lapsed.
Acquire(o) ==
    /\ status \in {"queued", "running", "waiting"}
    /\ owner = NoOwner \/ ~live
    /\ o \notin spent
    /\ status' = "running" /\ owner' = o /\ live' = TRUE
    /\ spent' = spent \cup {o}

Lapse == owner # NoOwner /\ live /\ live' = FALSE /\ UNCHANGED <<status, owner, spent>>
Renew == owner # NoOwner /\ ~live /\ live' = TRUE /\ UNCHANGED <<status, owner, spent>>

Vacate(s) == status' = s /\ owner' = NoOwner /\ live' = FALSE /\ UNCHANGED spent

\* The owner parks, retries, finishes or fails the run.
Leave == owner # NoOwner /\ \E s \in {"waiting", "queued", "success", "failed"} : Vacate(s)

\* A decision, timer or message queues a continuation; a decision may displace the owner.
Wake == status \in {"running", "waiting"} /\ Vacate("queued")

Block == status \in {"queued", "waiting"} /\ Vacate("blocked")
Unblock == status = "blocked" /\ \E s \in {"queued", "waiting"} : Vacate(s)

\* Cancelled, terminated or rejected from any status that is not final.
Stop == status \notin Final /\ \E s \in {"cancelled", "terminated"} : Vacate(s)

Next == \/ \E o \in Owners : Acquire(o)
        \/ Lapse \/ Renew \/ Leave \/ Wake \/ Block \/ Unblock \/ Stop

Spec == Init /\ [][Next]_vars
=============================================================================
