------------------------------ MODULE ServiceCalls ------------------------------
(***************************************************************************)
(* executeHttpServiceTask: attempts, backoff, the circuit breaker and the  *)
(* concurrency slots of the service tasks that share one policy key.       *)
(* Breaker and slots live in the memory of a process, and a process        *)
(* executes one workflow job at a time (runWorkflowWorkerOnce), node after *)
(* node, so it has at most one call in flight: the list of waiters in      *)
(* acquireServiceConcurrency stays empty and is left out.                  *)
(* A circuit entry with openUntil = 0 or in the past is one that is not    *)
(* open; no entry at all is one without failures.                          *)
(***************************************************************************)
EXTENDS Naturals, FiniteSets

CONSTANTS
    Processes,      \* server processes
    Tasks,          \* service tasks with the same policy key
    NoTask,         \* not a task
    MaxTries,       \* [Tasks -> Nat]: retry.maxAttempts
    Threshold,      \* [Tasks -> Nat]: circuit.failureThreshold
    Limit,          \* [Tasks -> Nat]: concurrency.limit
    Retryable,      \* reads and idempotent writes (retryAllowed)
    MaxCalls,       \* bound: calls each process is asked to make
    MaxRestarts     \* bound: process restarts

ASSUME ServiceAssumption ==
    /\ NoTask \notin Tasks /\ Retryable \subseteq Tasks
    /\ MaxTries \in [Tasks -> Nat \ {0}] /\ Threshold \in [Tasks -> Nat \ {0}]
    /\ Limit \in [Tasks -> Nat \ {0}]
    /\ MaxCalls \in Nat /\ MaxRestarts \in Nat

VARIABLES
    call,           \* the service task each process is executing
    circuit,        \* serviceCircuits, per process
    active,         \* serviceConcurrency: slots taken, per process
    streak,         \* history: failed attempts of a process since its last success
    used            \* how much of each bound has been spent

callVars == <<call, circuit, active, streak, used>>

NoCall == [pc |-> "idle", task |-> NoTask, attempt |-> 0]
Closed == [failures |-> 0, open |-> FALSE]

\* Attempts never exceed the plan's maximum.
CallsTypeOK ==
    /\ \A p \in Processes :
          \/ call[p] = NoCall
          \/ /\ call[p].pc \in {"check", "calling", "backoff"} /\ call[p].task \in Tasks
             /\ call[p].attempt \in 1..MaxTries[call[p].task]
    /\ circuit \in [Processes -> [failures : Nat, open : BOOLEAN]]
    /\ active \in [Processes -> Nat]
    /\ streak \in [Processes -> Nat]
    /\ used \in [calls : [Processes -> 0..MaxCalls], restarts : 0..MaxRestarts]

CallsInit ==
    /\ call = [p \in Processes |-> NoCall]
    /\ circuit = [p \in Processes |-> Closed]
    /\ active = [p \in Processes |-> 0]
    /\ streak = [p \in Processes |-> 0]
    /\ used = [calls |-> [p \in Processes |-> 0], restarts |-> 0]

StartCall(p, t) ==
    /\ call[p] = NoCall /\ used.calls[p] < MaxCalls
    /\ call' = [call EXCEPT ![p] = [pc |-> "check", task |-> t, attempt |-> 1]]
    /\ used' = [used EXCEPT !.calls[p] = @ + 1]
    /\ UNCHANGED <<circuit, active, streak>>

\* The top of the loop: an open breaker refuses, any other entry is deleted; then a slot.
Admit(p) ==
    /\ call[p].pc = "check"
    /\ \/ circuit[p].open
          /\ call' = [call EXCEPT ![p] = NoCall] /\ UNCHANGED <<circuit, active>>
       \/ /\ ~circuit[p].open
          /\ active[p] < Limit[call[p].task]
          /\ call' = [call EXCEPT ![p].pc = "calling"]
          /\ circuit' = [circuit EXCEPT ![p] = Closed]
          /\ active' = [active EXCEPT ![p] = @ + 1]
    /\ UNCHANGED <<streak, used>>

\* Faulty variant: the slot is returned only when the call succeeded.
ReleaseOnSuccess(p) == active' = IF streak'[p] = 0 THEN [active EXCEPT ![p] = @ - 1] ELSE active

\* The finally block; with nobody waiting the slot count goes down.
ReleaseSlot(p) == active' = [active EXCEPT ![p] = @ - 1]

Succeed(p) ==
    /\ call[p].pc = "calling"
    /\ call' = [call EXCEPT ![p] = NoCall]
    /\ circuit' = [circuit EXCEPT ![p] = Closed]
    /\ streak' = [streak EXCEPT ![p] = 0]
    /\ ReleaseSlot(p)
    /\ UNCHANGED used

\* Faulty variant: the breaker opens one failure early.
OpensEarly(p, failures) == failures + 1 >= Threshold[call[p].task]

Opens(p, failures) == failures >= Threshold[call[p].task]

MayRetry(p) == call[p].attempt < MaxTries[call[p].task] /\ call[p].task \in Retryable

\* Timeouts, resets and 429 or 5xx answers may be retried, other errors may not.
FailCall(p) ==
    LET failures == circuit[p].failures + 1
    IN  /\ call[p].pc = "calling"
        /\ circuit' = [circuit EXCEPT ![p] = [failures |-> failures, open |-> Opens(p, failures)]]
        /\ streak' = [streak EXCEPT ![p] = @ + 1]
        /\ ReleaseSlot(p)
        /\ \E transient \in BOOLEAN :
              call' = [call EXCEPT ![p] =
                          IF MayRetry(p) /\ transient THEN [@ EXCEPT !.pc = "backoff"] ELSE NoCall]
        /\ UNCHANGED used

EndBackoff(p) ==
    /\ call[p].pc = "backoff"
    /\ call' = [call EXCEPT ![p].pc = "check", ![p].attempt = @ + 1]
    /\ UNCHANGED <<circuit, active, streak, used>>

\* openUntil passes; the entry itself stays.
CircuitLapses(p) ==
    /\ circuit[p].open
    /\ circuit' = [circuit EXCEPT ![p].open = FALSE]
    /\ UNCHANGED <<call, active, streak, used>>

\* The process restarts and forgets breaker, slots and call.
Restart(p) ==
    /\ used.restarts < MaxRestarts
    /\ call' = [call EXCEPT ![p] = NoCall]
    /\ circuit' = [circuit EXCEPT ![p] = Closed]
    /\ active' = [active EXCEPT ![p] = 0]
    /\ streak' = [streak EXCEPT ![p] = 0]
    /\ used' = [used EXCEPT !.restarts = @ + 1]

CallStep(p) == Admit(p) \/ Succeed(p) \/ FailCall(p) \/ EndBackoff(p)

CallsNext == \E p \in Processes : \/ \E t \in Tasks : StartCall(p, t)
                                  \/ CallStep(p) \/ CircuitLapses(p) \/ Restart(p)

CallsSpec == CallsInit /\ [][CallsNext]_callVars

\* Requests time out after at most fifteen seconds and backoff timers fire.
FairCallsSpec == CallsSpec /\ \A p \in Processes : WF_callVars(CallStep(p))

-----------------------------------------------------------------------------
\* A slot is taken exactly while a request is in flight: every way out of an attempt, a
\* thrown error and a retry included, gives it back (acquireServiceConcurrency, finally).
SlotsExact == \A p \in Processes : active[p] = IF call[p].pc = "calling" THEN 1 ELSE 0

\* The breaker opens only on as many failures in a row as the failing task's threshold.
OpenEarned ==
    [][\A p \in Processes : circuit'[p].open /\ ~circuit[p].open
                                => streak'[p] >= Threshold[call[p].task]]_callVars

\* Every call ends, with an answer, an error or a refusal; no slot is lost to a later call.
CallsEnd == \A p \in Processes : call[p].pc # "idle" ~> call[p].pc = "idle"

\* The breaker opens when the failures in a row for the key reach the threshold.
BreakerTrips ==
    [][\A p \in Processes : streak'[p] > streak[p] /\ streak'[p] >= Threshold[call[p].task]
                                => circuit'[p].open]_callVars
=============================================================================
