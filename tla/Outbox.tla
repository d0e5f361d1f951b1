-------------------------------- MODULE Outbox --------------------------------
(***************************************************************************)
(* Delivery of workflow_outbox_event rows.  A failed run and a state entry *)
(* insert rows; every worker process, once per poll, leases one row, sends *)
(* the notification and settles the row in a later statement.  Nothing     *)
(* renews the lease, and nothing looks after a row whose last attempt died.*)
(* A lease token is the pair (event, attempt): every claim draws a fresh   *)
(* one and adds an attempt.  availableAt only delays a claim and is left   *)
(* out; the order of claims is any order (SKIP LOCKED).                    *)
(***************************************************************************)
EXTENDS Naturals, FiniteSets

CONSTANTS
    Events,         \* identities (dedupeKey) of the events
    NoEvent,        \* not an event
    Notifications,  \* events sent to the notification service
    Workers,        \* worker processes
    MaxAttempts,    \* workflow_outbox_event.maxAttempts
    MaxCrashes,     \* bound: processes that die while they hold an event
    MaxStalls,      \* bound: leases that lapse under a process still running
    MaxErrors,      \* bound: statements that settle an event and throw
    MaxLost         \* bound: notifications accepted whose answer does not arrive

ASSUME OutboxAssumption ==
    /\ NoEvent \notin Events /\ IsFiniteSet(Workers)
    /\ Notifications \subseteq Events
    /\ MaxAttempts \in Nat \ {0}
    /\ MaxCrashes \in Nat /\ MaxStalls \in Nat /\ MaxErrors \in Nat /\ MaxLost \in Nat

VARIABLES
    rows,           \* the workflow_outbox_event rows
    wk,             \* the event each process is dispatching
    accepted,       \* history: how often the service accepted each event
    broken,         \* history: attempts whose process died or could not settle the event
    used            \* how much of each bound has been spent

vars == <<rows, wk, accepted, broken, used>>

RowStatuses == {"absent", "queued", "leased", "delivered", "failed"}
Idle == [pc |-> "idle", event |-> NoEvent, attempt |-> 0]

\* An event is never claimed more than MaxAttempts times.
TypeOK ==
    /\ rows \in [Events -> [status : RowStatuses, attempt : 0..MaxAttempts, live : BOOLEAN]]
    /\ wk \in [Workers -> [pc : {"send", "settle", "giveUp"}, event : Events,
                           attempt : 1..MaxAttempts] \cup {Idle}]
    /\ accepted \in [Events -> Nat]
    /\ broken \subseteq Events \X (1..MaxAttempts)
    /\ used \in [crashes : Nat, stalls : Nat, errors : Nat, lost : Nat]

Init ==
    /\ rows = [e \in Events |-> [status |-> "absent", attempt |-> 0, live |-> FALSE]]
    /\ wk = [w \in Workers |-> Idle]
    /\ accepted = [e \in Events |-> 0]
    /\ broken = {}
    /\ used = [crashes |-> 0, stalls |-> 0, errors |-> 0, lost |-> 0]

\* createFailureAlerts, persistStateNode: the unique dedupe key makes a repetition a no-op.
Enqueue(e) ==
    /\ rows[e].status = "absent"
    /\ rows' = [rows EXCEPT ![e].status = "queued"]
    /\ UNCHANGED <<wk, accepted, broken, used>>

\* Faulty variant: an expired lease is not taken over.
EligibleQueuedOnly(e) == rows[e].attempt < MaxAttempts /\ rows[e].status = "queued"

\* Faulty variant: a leased event is claimed again whatever its lease.
EligibleWhileLeased(e) ==
    rows[e].attempt < MaxAttempts /\ rows[e].status \in {"queued", "leased"}

\* The WHERE clause of claimNextOutboxEvent.
Eligible(e) ==
    /\ rows[e].attempt < MaxAttempts
    /\ \/ rows[e].status = "queued"
       \/ rows[e].status = "leased" /\ ~rows[e].live

Claim(w, e) ==
    LET attempt == rows[e].attempt + 1
    IN  /\ wk[w] = Idle /\ Eligible(e)
        /\ rows' = [rows EXCEPT ![e] = [status |-> "leased", attempt |-> attempt, live |-> TRUE]]
        /\ wk' = [wk EXCEPT ![w] = [pc |-> "send", event |-> e, attempt |-> attempt]]
        /\ UNCHANGED <<accepted, broken, used>>

Goto(w, pc) == wk' = [wk EXCEPT ![w].pc = pc]

\* notifyOwner: true when the service took the event; false when it refused it, and also when
\* it took it and the connection broke before the answer.  A state change needs no sending.
Send(w) ==
    LET e == wk[w].event
        Accepted == accepted' = [accepted EXCEPT ![e] = @ + 1]
    IN  /\ wk[w].pc = "send"
        /\ \/ e \in Notifications /\ Accepted /\ Goto(w, "settle") /\ UNCHANGED used
           \/ e \in Notifications /\ UNCHANGED <<accepted, used>> /\ Goto(w, "giveUp")
           \/ /\ e \in Notifications /\ used.lost < MaxLost
              /\ used' = [used EXCEPT !.lost = @ + 1]
              /\ Accepted /\ Goto(w, "giveUp")
           \/ e \notin Notifications /\ UNCHANGED <<accepted, used>> /\ Goto(w, "settle")
        /\ UNCHANGED <<rows, broken>>

\* WHERE status='leased' AND leaseToken=?: the expiry is not tested.
Holds(w) == /\ rows[wk[w].event].status = "leased"
            /\ rows[wk[w].event].attempt = wk[w].attempt

Settle(w, status) ==
    rows' = [rows EXCEPT ![wk[w].event].status = status, ![wk[w].event].live = FALSE]

\* completeOutboxEvent throws when the lease is lost, and so reaches failOutboxEvent.
Complete(w) ==
    /\ wk[w].pc = "settle"
    /\ \/ Holds(w) /\ Settle(w, "delivered") /\ wk' = [wk EXCEPT ![w] = Idle] /\ UNCHANGED used
       \/ ~Holds(w) /\ Goto(w, "giveUp") /\ UNCHANGED <<rows, used>>
       \/ /\ used.errors < MaxErrors
          /\ used' = [used EXCEPT !.errors = @ + 1]
          /\ Goto(w, "giveUp") /\ UNCHANGED rows
    /\ UNCHANGED <<accepted, broken>>

AfterFailure(w) == IF wk[w].attempt < MaxAttempts THEN "queued" ELSE "failed"

\* This attempt leaves the event as it is.
Break(w) == broken' = broken \cup {<<wk[w].event, wk[w].attempt>>}

\* failOutboxEvent: queue the next attempt or give up; a lost lease only ends the poll.
Fail(w) ==
    /\ wk[w].pc = "giveUp"
    /\ \/ Holds(w) /\ Settle(w, AfterFailure(w)) /\ UNCHANGED <<broken, used>>
       \/ ~Holds(w) /\ UNCHANGED <<rows, broken, used>>
       \/ /\ used.errors < MaxErrors
          /\ used' = [used EXCEPT !.errors = @ + 1]
          /\ Break(w) /\ UNCHANGED rows
    /\ wk' = [wk EXCEPT ![w] = Idle]
    /\ UNCHANGED accepted

\* The process dies: the row stays leased until time passes.
Crash(w) ==
    /\ wk[w] # Idle /\ used.crashes < MaxCrashes
    /\ wk' = [wk EXCEPT ![w] = Idle]
    /\ used' = [used EXCEPT !.crashes = @ + 1]
    /\ Break(w)
    /\ UNCHANGED <<rows, accepted>>

HeldBySomeone(e) == \E w \in Workers : wk[w].event = e /\ Holds(w)

LeaseLapses(e) ==
    /\ rows[e].status = "leased" /\ rows[e].live
    /\ HeldBySomeone(e) => used.stalls < MaxStalls
    /\ rows' = [rows EXCEPT ![e].live = FALSE]
    /\ used' = IF HeldBySomeone(e) THEN [used EXCEPT !.stalls = @ + 1] ELSE used
    /\ UNCHANGED <<wk, accepted, broken>>

Dispatch(w) == Send(w) \/ Complete(w) \/ Fail(w)

Next ==
    \/ \E e \in Events : Enqueue(e) \/ LeaseLapses(e)
    \/ \E w \in Workers : Dispatch(w) \/ Crash(w) \/ \E e \in Events : Claim(w, e)

Spec == Init /\ [][Next]_vars

\* Every process keeps polling and finishes what it dispatches; an abandoned lease expires.
FairSpec ==
    /\ Spec
    /\ \A w \in Workers : WF_vars(Dispatch(w))
    /\ \A e \in Events : WF_vars(\E w \in Workers : Claim(w, e))
    /\ \A e \in Events : WF_vars(LeaseLapses(e) /\ UNCHANGED used)

-----------------------------------------------------------------------------
Faults == used.crashes + used.stalls + used.errors + used.lost

\* Once nobody holds an event, the service has accepted it at most once if it counts as
\* delivered, and not at all otherwise, plus once per crash, stall, failed statement or lost
\* answer (the send and the settlement are separate steps of dispatchWorkflowOutboxOnce, and
\* notifyOwner cannot tell a lost answer from a refusal).
DeliveriesAccounted ==
    \A e \in Events : rows[e].status # "leased" /\ ~(\E w \in Workers : wk[w].event = e) =>
        accepted[e] <= Faults + (IF rows[e].status = "delivered" THEN 1 ELSE 0)

\* No claim will take the row again and nobody can settle it any more.
Lost(e) == /\ rows[e].attempt = MaxAttempts
           /\ \/ rows[e].status = "queued"
              \/ rows[e].status = "leased" /\ ~HeldBySomeone(e)

\* An event is given up only after all its attempts, and it is left unsettled for ever only if
\* the process of its own last attempt died or could not execute the statement that gives it up
\* (there is no reconciler of outbox rows); refusals, lapsed leases and what happened to other
\* events or earlier attempts never lose it.
LossesEarned ==
    \A e \in Events : /\ rows[e].status = "failed" => rows[e].attempt = MaxAttempts
                      /\ Lost(e) => <<e, MaxAttempts>> \in broken

\* Every event is settled in the end, or its last attempt has died.
EventuallySettled ==
    \A e \in Events : rows[e].status = "queued"
                          ~> (rows[e].status \in {"delivered", "failed"} \/ Lost(e))
=============================================================================
