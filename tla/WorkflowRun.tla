----------------------------- MODULE WorkflowRun -----------------------------
(***************************************************************************)
(* One durable workflow run: its row in workflow_run, its jobs in          *)
(* workflow_run_job, the workers that lease those jobs, the human tasks    *)
(* and wait subscriptions its nodes create, and the operators' commands.   *)
(*                                                                         *)
(* The definition executed is a directed acyclic graph without parallel    *)
(* (broadcast) routers, so the run has one execution queue (the "root"     *)
(* path of executeRunSegment).  A context is abstracted to the set of      *)
(* nodes whose output it holds, and a lease token to the pair (job,        *)
(* attempt): a token is drawn once per claim and a claim adds an attempt.  *)
(* Every action is one database transaction or one autocommitted           *)
(* statement; NOW() is modelled by the two "live" flags, which lapse.      *)
(***************************************************************************)
EXTENDS Naturals, Sequences

CONSTANTS
    Nodes,          \* node ids of the published definition
    StartNode,      \* the start node
    Kind,           \* [Nodes -> NodeKinds]
    Routes,         \* [Nodes -> SUBSET Seq(Nodes)]: successors a node may select
    Legacy,         \* operate nodes without outcome branches: a rejection cancels the run
    Pooled,         \* TRUE: tasks go to a candidate pool (assignedUserId is NULL)
    Workers,        \* worker processes; each executes one workflow job at a time
    MaxAttempts,    \* workflow_run_job.maxAttempts
    MaxJobs,        \* bound: job rows of the run
    MaxCopies,      \* bound: task rows per operate node
    MaxCrashes,     \* bound: workers that die in the middle of a job
    MaxStalls,      \* bound: leases that lapse under a worker still running
    MaxErrors,      \* bound: exceptions thrown while a segment executes
    MaxPauses,      \* bound: pause commands
    MaxFaults       \* bound: crashes, stalls, exceptions and pauses together

NodeKinds == {"auto", "state", "operate", "wait", "end"}

\* compileWorkflowDefinition publishes a definition with exactly one end node, and nothing
\* may follow it.
ASSUME DefinitionAssumption ==
    /\ StartNode \in Nodes
    /\ Kind \in [Nodes -> NodeKinds]
    /\ Routes \in [Nodes -> SUBSET Seq(Nodes)]
    /\ Legacy \subseteq Nodes
    /\ Pooled \in BOOLEAN
    /\ \A n \in Nodes : Kind[n] = "end" => Routes[n] \subseteq {<<>>}
    /\ \A m, n \in Nodes : Kind[m] = "end" /\ Kind[n] = "end" => m = n

ASSUME BoundAssumption ==
    /\ MaxAttempts \in Nat \ {0} /\ MaxJobs \in Nat \ {0} /\ MaxCopies \in Nat \ {0}
    /\ MaxCrashes \in Nat /\ MaxStalls \in Nat /\ MaxErrors \in Nat /\ MaxPauses \in Nat
    /\ MaxFaults \in Nat

VARIABLES
    run,            \* the workflow_run row
    jobs,           \* the workflow_run_job rows, in creation order
    wk,             \* what each worker process holds in memory
    tasks,          \* the workflow_task rows, by node and copy
    waits,          \* the workflow_wait_subscription rows, by node
    endRuns,        \* claims whose end node has a successful workflow_node_run
    trail,          \* workflow_state_transition: state nodes entered, in sequence
    executed,       \* history: how often each automatic node took effect
    used            \* how much of each bound has been spent

vars == <<run, jobs, wk, tasks, waits, endRuns, trail, executed, used>>

Jobs == 1..MaxJobs
Copies == 1..MaxCopies
Token == Jobs \X (1..MaxAttempts)
NoToken == <<0, 0>>

RunStatuses == {"queued", "running", "waiting", "blocked",
                "success", "failed", "cancelled", "terminated"}
Terminal == {"success", "failed", "cancelled", "terminated"}
Claimable == {"queued", "running", "waiting"}
JobStatuses == {"absent", "queued", "leased", "completed", "failed", "cancelled"}
TaskStatuses == {"absent", "pending", "claimed", "completed", "cancelled"}
WaitStatuses == {"absent", "active", "triggered", "cancelled"}

\* Where a worker stands in executePreparedWorkflowRun / executeRunSegment.
Executing == {"load", "head", "enter", "work", "artifact", "advance", "advanceEnd",
              "final", "succeed", "park", "complete"}
WorkerPoints == Executing \cup {"idle", "failing", "failJob"}

RunRecord == [status : RunStatuses, lock : Token \cup {NoToken}, lockLive : BOOLEAN,
              queue : Seq(Nodes), done : SUBSET Nodes]
JobRecord == [status : JobStatuses, type : {"start", "resume"}, attempt : 0..MaxAttempts,
              live : BOOLEAN, queue : Seq(Nodes), done : SUBSET Nodes]
WorkerMemory == [pc : WorkerPoints, tok : Token \cup {NoToken}, queue : Seq(Nodes),
                 seen : SUBSET Nodes, done : SUBSET Nodes]
WaitRecord == [status : WaitStatuses, queue : Seq(Nodes), done : SUBSET Nodes]

\* Rows and memory hold what the schema and the code allow; in particular no job is ever
\* claimed more than MaxAttempts times, and a busy worker has a token.
TypeOK ==
    /\ run \in RunRecord
    /\ jobs \in [Jobs -> JobRecord]
    /\ wk \in [Workers -> WorkerMemory]
    /\ \A w \in Workers : wk[w].pc # "idle" => wk[w].tok \in Token
    /\ tasks \in [Nodes \X Copies -> TaskStatuses]
    /\ waits \in [Nodes -> WaitRecord]
    /\ endRuns \subseteq Token
    /\ trail \in Seq(Nodes)
    /\ executed \in [Nodes -> Nat]
    /\ used \in [crashes : Nat, stalls : Nat, errors : Nat, pauses : Nat]

-----------------------------------------------------------------------------
(* Ownership tests the SQL statements make.                                *)

\* The job row is leased under this token (status='leased' AND leaseToken=?).
LeaseHeld(tok) == /\ jobs[tok[1]].status = "leased"
                  /\ jobs[tok[1]].attempt = tok[2]

\* Faulty variant: saveCheckpoint tests the job row only.
FencedByJobOnly(tok) == LeaseHeld(tok)

\* saveCheckpoint: the job row and the run row, both under the token; no expiry test.
Fenced(tok) == /\ LeaseHeld(tok)
               /\ run.status = "running"
               /\ run.lock = tok

\* assertArtifactLease: the run row only, and the lock must not have expired.
HoldsLease(tok) == run.status = "running" /\ run.lock = tok /\ run.lockLive

\* Every statement that takes a run out of 'running' clears the lock.
Unlock(r, status) == [r EXCEPT !.status = status, !.lock = NoToken, !.lockLive = FALSE]

\* Faulty variant: a claimed task is not considered open.
PendingTasks == {t \in DOMAIN tasks : tasks[t] = "pending"}

OpenTasks == {t \in DOMAIN tasks : tasks[t] \in {"pending", "claimed"}}
ActiveWaits == {n \in Nodes : waits[n].status = "active"}

\* markWorkflowRunFailed and controlWorkflowRun cancel what is still open.
CancelArtifacts ==
    /\ tasks' = [t \in DOMAIN tasks |-> IF t \in OpenTasks THEN "cancelled" ELSE tasks[t]]
    /\ waits' = [n \in Nodes |-> IF n \in ActiveWaits
                                 THEN [waits[n] EXCEPT !.status = "cancelled"] ELSE waits[n]]

IdleWorker == [pc |-> "idle", tok |-> NoToken, queue |-> <<>>, seen |-> {}, done |-> {}]

\* Another crash, stall, exception or pause fits the joint bound.
FaultLeft == used.crashes + used.stalls + used.errors + used.pauses < MaxFaults

Remember(w, memory) == wk' = [wk EXCEPT ![w] = memory]
Goto(w, pc) == Remember(w, [wk[w] EXCEPT !.pc = pc])
Release(w) == Remember(w, IdleWorker)

-----------------------------------------------------------------------------
\* submitWorkflowRun has committed: run and start job, both queued at the start node.
Init ==
    /\ run = [status |-> "queued", lock |-> NoToken, lockLive |-> FALSE,
              queue |-> <<StartNode>>, done |-> {}]
    /\ jobs = [j \in Jobs |->
                  [status |-> IF j = 1 THEN "queued" ELSE "absent",
                   type |-> IF j = 1 THEN "start" ELSE "resume", attempt |-> 0,
                   live |-> FALSE, queue |-> IF j = 1 THEN <<StartNode>> ELSE <<>>, done |-> {}]]
    /\ wk = [w \in Workers |-> IdleWorker]
    /\ tasks = [t \in Nodes \X Copies |-> "absent"]
    /\ waits = [n \in Nodes |-> [status |-> "absent", queue |-> <<>>, done |-> {}]]
    /\ endRuns = {}
    /\ trail = <<>>
    /\ executed = [n \in Nodes |-> 0]
    /\ used = [crashes |-> 0, stalls |-> 0, errors |-> 0, pauses |-> 0]

-----------------------------------------------------------------------------
(* Claiming, renewing and losing a lease.                                  *)

LockFree == run.lock = NoToken \/ ~run.lockLive

\* Faulty variant: the claim does not look at the run's lock.
EligibleLocked(j) ==
    /\ jobs[j].attempt < MaxAttempts
    /\ run.status \in Claimable
    /\ jobs[j].status = "queued" \/ (jobs[j].status = "leased" /\ ~jobs[j].live)

\* The WHERE clause of claimNextJob.  availableAt and the ORDER BY only choose
\* among eligible rows (SKIP LOCKED already lets any of them come first).
Eligible(j) ==
    /\ jobs[j].attempt < MaxAttempts
    /\ run.status \in Claimable
    /\ LockFree
    /\ \/ jobs[j].status = "queued"
       \/ jobs[j].status = "leased" /\ ~jobs[j].live

Claim(w, j) ==
    LET tok == <<j, jobs[j].attempt + 1>>
    IN  /\ wk[w].pc = "idle"
        /\ Eligible(j)
        /\ jobs' = [jobs EXCEPT ![j].status = "leased", ![j].attempt = tok[2], ![j].live = TRUE]
        /\ run' = [run EXCEPT !.status = "running", !.lock = tok, !.lockLive = TRUE]
        /\ Remember(w, [pc |-> "load", tok |-> tok, queue |-> jobs[j].queue,
                        seen |-> {}, done |-> jobs[j].done])
        /\ UNCHANGED <<tasks, waits, endRuns, trail, executed, used>>

\* The heartbeat: both expiries move, provided both rows still carry the token.
RenewLease(w) ==
    LET tok == wk[w].tok
    IN  /\ wk[w].pc # "idle"
        /\ LeaseHeld(tok) /\ run.lock = tok
        /\ ~(jobs[tok[1]].live /\ run.lockLive)
        /\ jobs' = [jobs EXCEPT ![tok[1]].live = TRUE]
        /\ run' = [run EXCEPT !.lockLive = TRUE]
        /\ UNCHANGED <<wk, tasks, waits, endRuns, trail, executed, used>>

\* Time passes.  Under a worker that still runs it takes a missed heartbeat (a stall).
LeaseLapses(j) ==
    LET held == \E w \in Workers : wk[w].tok = <<j, jobs[j].attempt>>
    IN  /\ jobs[j].status = "leased" /\ jobs[j].live
        /\ held => (used.stalls < MaxStalls /\ FaultLeft)
        /\ jobs' = [jobs EXCEPT ![j].live = FALSE]
        /\ used' = IF held THEN [used EXCEPT !.stalls = @ + 1] ELSE used
        /\ UNCHANGED <<run, wk, tasks, waits, endRuns, trail, executed>>

\* The run lock is written after the job lease in the claim, so it never lapses first.
LockLapses ==
    /\ run.lock # NoToken /\ run.lockLive
    /\ ~jobs[run.lock[1]].live
    /\ run' = [run EXCEPT !.lockLive = FALSE]
    /\ UNCHANGED <<jobs, wk, tasks, waits, endRuns, trail, executed, used>>

\* The process dies: nothing but its memory is lost.
Crash(w) ==
    /\ wk[w].pc # "idle"
    /\ used.crashes < MaxCrashes /\ FaultLeft
    /\ Release(w)
    /\ used' = [used EXCEPT !.crashes = @ + 1]
    /\ UNCHANGED <<run, jobs, tasks, waits, endRuns, trail, executed>>

-----------------------------------------------------------------------------
(* The segment: one step per database access.                              *)

LoadRun(w) ==
    /\ wk[w].pc = "load"
    /\ Goto(w, IF run.status \in Terminal THEN "failing" ELSE "head")
    /\ UNCHANGED <<run, jobs, tasks, waits, endRuns, trail, executed, used>>

\* The head of the queue: skip it, reuse its open artifact, or begin it.
OpenNode(w) ==
    LET queue == wk[w].queue
        n == Head(queue)
        to(pc, q, seen) ==
            Remember(w, [wk[w] EXCEPT !.pc = pc, !.queue = q, !.seen = seen])
    IN  /\ wk[w].pc = "head" /\ queue # <<>>
        /\ \/ n \in wk[w].seen /\ to("head", Tail(queue), wk[w].seen)
           \/ /\ n \notin wk[w].seen /\ Kind[n] = "wait" /\ n \in ActiveWaits
              /\ to("park", queue, wk[w].seen)
           \/ /\ n \notin wk[w].seen /\ Kind[n] = "operate"
              /\ \E t \in OpenTasks : t[1] = n
              /\ to("artifact", Tail(queue), wk[w].seen)
           \/ /\ n \notin wk[w].seen
              /\ ~(Kind[n] = "wait" /\ n \in ActiveWaits)
              /\ ~(Kind[n] = "operate" /\ \E t \in OpenTasks : t[1] = n)
              /\ to("enter", queue, wk[w].seen \cup {n})
        /\ UNCHANGED <<run, jobs, tasks, waits, endRuns, trail, executed, used>>

\* Faulty variant: an empty queue with a completed end node succeeds at once.
CloseSegmentEarly(w) ==
    /\ wk[w].pc = "head" /\ wk[w].queue = <<>>
    /\ Goto(w, IF endRuns # {} THEN "final"
               ELSE IF OpenTasks # {} \/ ActiveWaits # {} THEN "park" ELSE "failing")
    /\ UNCHANGED <<run, jobs, tasks, waits, endRuns, trail, executed, used>>

\* An empty queue: wait for what is open, succeed if an end node completed, else throw.
CloseSegment(w) ==
    /\ wk[w].pc = "head" /\ wk[w].queue = <<>>
    /\ Goto(w, IF OpenTasks # {} \/ ActiveWaits # {} THEN "park"
               ELSE IF endRuns # {} THEN "final" ELSE "failing")
    /\ UNCHANGED <<run, jobs, tasks, waits, endRuns, trail, executed, used>>

\* The catch block around a node marks its node run failed, even a finished end node's.
ForgetEnd(w) == endRuns' = IF wk[w].pc = "advanceEnd" THEN endRuns \ {wk[w].tok} ELSE endRuns

AfterCheckpoint == [enter |-> "work", artifact |-> "park", advance |-> "head",
                    advanceEnd |-> "head", final |-> "succeed"]

\* saveCheckpoint: queue and context reach the job row and the run row, or it throws.
SaveCheckpoint(w) ==
    LET me == wk[w]
    IN  /\ me.pc \in DOMAIN AfterCheckpoint
        /\ \/ /\ Fenced(me.tok)
              /\ jobs' = [jobs EXCEPT ![me.tok[1]].queue = me.queue, ![me.tok[1]].done = me.done]
              /\ run' = [run EXCEPT !.queue = me.queue, !.done = me.done]
              /\ Goto(w, AfterCheckpoint[me.pc])
              /\ UNCHANGED endRuns
           \/ /\ ~Fenced(me.tok)
              /\ Goto(w, "failing")
              /\ ForgetEnd(w)
              /\ UNCHANGED <<jobs, run>>
        /\ UNCHANGED <<tasks, waits, trail, executed, used>>

\* Faulty variant: entering a state always appends a transition.
EnterStateAgain(n) == trail' = Append(trail, n)

\* persistStateNode: unfenced, and skipped when this node is already the current state.
EnterState(n) == trail' = IF trail # <<>> /\ trail[Len(trail)] = n THEN trail ELSE Append(trail, n)

\* An automatic node takes effect and selects its successors.
RunNode(w) ==
    LET me == wk[w]
        n == Head(me.queue)
    IN  /\ me.pc = "work" /\ Kind[n] \in {"auto", "state", "end"}
        /\ executed' = [executed EXCEPT ![n] = @ + 1]
        /\ IF Kind[n] = "state" THEN EnterState(n) ELSE UNCHANGED trail
        /\ endRuns' = IF Kind[n] = "end" THEN endRuns \cup {me.tok} ELSE endRuns
        /\ \E next \in Routes[n] :
              Remember(w, [me EXCEPT !.pc = IF Kind[n] = "end" THEN "advanceEnd" ELSE "advance",
                                     !.queue = Tail(me.queue) \o next,
                                     !.done = @ \cup {n}])
        /\ UNCHANGED <<run, jobs, tasks, waits, used>>

\* The unique key (run, node, assignee, execution key) does not bind a NULL assignee.
TaskSlot(n, c) == /\ tasks[<<n, c>>] = "absent"
                  /\ \A d \in Copies : d < c => tasks[<<n, d>>] # "absent"
                  /\ ~Pooled => c = 1

CreateTask(w) ==
    LET n == Head(wk[w].queue)
    IN  /\ wk[w].pc = "work" /\ Kind[n] = "operate"
        /\ HoldsLease(wk[w].tok)
        /\ \E c \in Copies : TaskSlot(n, c) /\ tasks' = [tasks EXCEPT ![<<n, c>>] = "pending"]
        /\ Remember(w, [wk[w] EXCEPT !.pc = "artifact", !.queue = Tail(@)])
        /\ UNCHANGED <<run, jobs, waits, endRuns, trail, executed, used>>

\* persistWorkflowWait keeps the rest of the queue; the successors follow on trigger.
CreateWait(w) ==
    LET n == Head(wk[w].queue)
    IN  /\ wk[w].pc = "work" /\ Kind[n] = "wait"
        /\ HoldsLease(wk[w].tok)
        /\ waits[n].status = "absent"
        /\ waits' = [waits EXCEPT ![n] = [status |-> "active", queue |-> Tail(wk[w].queue),
                                          done |-> wk[w].done]]
        /\ Remember(w, [wk[w] EXCEPT !.pc = "artifact", !.queue = Tail(@)])
        /\ UNCHANGED <<run, jobs, tasks, endRuns, trail, executed, used>>

\* The insert is refused: the lease is gone or the unique key is taken.
RefuseArtifact(w) ==
    LET n == Head(wk[w].queue)
    IN  /\ wk[w].pc = "work"
        /\ \/ Kind[n] \in {"operate", "wait"} /\ ~HoldsLease(wk[w].tok)
           \/ Kind[n] = "operate" /\ ~Pooled /\ tasks[<<n, 1>>] # "absent"
           \/ Kind[n] = "wait" /\ waits[n].status # "absent"
        /\ Goto(w, "failing")
        /\ UNCHANGED <<run, jobs, tasks, waits, endRuns, trail, executed, used>>

\* Any statement, or the node itself, throws.
ThrowError(w) ==
    /\ wk[w].pc \in Executing
    /\ used.errors < MaxErrors /\ FaultLeft
    /\ used' = [used EXCEPT !.errors = @ + 1]
    /\ Goto(w, "failing")
    /\ ForgetEnd(w)
    /\ UNCHANGED <<run, jobs, tasks, waits, trail, executed>>

-----------------------------------------------------------------------------
(* Leaving the segment.                                                    *)

\* The UPDATE to 'waiting' is fenced by the token and by status='running'.
Park(w) ==
    LET mine == run.lock = wk[w].tok /\ run.status = "running"
    IN  /\ wk[w].pc = "park"
        /\ run' = IF mine THEN Unlock(run, "waiting") ELSE run
        /\ Goto(w, IF mine THEN "complete" ELSE "failing")
        /\ UNCHANGED <<jobs, tasks, waits, endRuns, trail, executed, used>>

\* The UPDATE to 'success' is fenced by the token alone.
Succeed(w) ==
    LET mine == run.lock = wk[w].tok
    IN  /\ wk[w].pc = "succeed"
        /\ run' = IF mine THEN Unlock(run, "success") ELSE run
        /\ Goto(w, IF mine THEN "complete" ELSE "failing")
        /\ UNCHANGED <<jobs, tasks, waits, endRuns, trail, executed, used>>

SetJob(tok, status) == jobs' = IF LeaseHeld(tok)
                               THEN [jobs EXCEPT ![tok[1]].status = status] ELSE jobs

CompleteJob(w) ==
    LET tok == wk[w].tok
    IN  /\ wk[w].pc = "complete"
        /\ SetJob(tok, "completed")
        /\ run' = IF LeaseHeld(tok) /\ run.lock = tok THEN Unlock(run, run.status) ELSE run
        /\ IF LeaseHeld(tok) THEN Release(w) ELSE Goto(w, "failing")
        /\ UNCHANGED <<tasks, waits, endRuns, trail, executed, used>>

\* handleJobFailure with attempts left: requeue if the run is still ours, else retire the job.
RetryJob(w) ==
    LET tok == wk[w].tok
        mine == run.lock = tok
    IN  /\ wk[w].pc = "failing" /\ tok[2] < MaxAttempts
        /\ SetJob(tok, IF mine THEN "queued" ELSE IF run.status = "waiting" THEN "completed"
                       ELSE "cancelled")
        /\ run' = IF mine /\ LeaseHeld(tok) THEN Unlock(run, "queued") ELSE run
        /\ Release(w)
        /\ UNCHANGED <<tasks, waits, endRuns, trail, executed, used>>

\* Faulty variant: gives up one attempt early.
FailRunEarly(w) ==
    LET mine == run.lock = wk[w].tok
    IN  /\ wk[w].pc = "failing" /\ wk[w].tok[2] >= MaxAttempts - 1
        /\ run' = IF mine THEN Unlock(run, "failed") ELSE run
        /\ IF mine THEN CancelArtifacts ELSE UNCHANGED <<tasks, waits>>
        /\ Goto(w, "failJob")
        /\ UNCHANGED <<jobs, endRuns, trail, executed, used>>

\* handleJobFailure on the last attempt: markWorkflowRunFailed, fenced by the run lock ...
FailRun(w) ==
    LET mine == run.lock = wk[w].tok
    IN  /\ wk[w].pc = "failing" /\ wk[w].tok[2] >= MaxAttempts
        /\ run' = IF mine THEN Unlock(run, "failed") ELSE run
        /\ IF mine THEN CancelArtifacts ELSE UNCHANGED <<tasks, waits>>
        /\ Goto(w, "failJob")
        /\ UNCHANGED <<jobs, endRuns, trail, executed, used>>

\* ... then the job, in a statement of its own.
FailJob(w) ==
    /\ wk[w].pc = "failJob"
    /\ SetJob(wk[w].tok, "failed")
    /\ Release(w)
    /\ UNCHANGED <<run, tasks, waits, endRuns, trail, executed, used>>

-----------------------------------------------------------------------------
(* Reconcilers, run by every worker before it claims.                      *)

\* Faulty variant: an off-by-one leaves the last attempt to nobody.
ReconcileBeyondExhausted(j) == FALSE

\* An expired final attempt that still holds the run fails it, job included.
ReconcileExhausted(j) ==
    LET tok == <<j, jobs[j].attempt>>
    IN  /\ jobs[j].status = "leased" /\ ~jobs[j].live
        /\ jobs[j].attempt >= MaxAttempts
        /\ run.status \in Claimable /\ run.lock = tok
        /\ run' = Unlock(run, "failed")
        /\ CancelArtifacts
        /\ SetJob(tok, "failed")
        /\ UNCHANGED <<wk, endRuns, trail, executed, used>>

\* Jobs a worker may still hold or take.
Outstanding == {j \in Jobs : jobs[j].status \in {"queued", "leased"}}

ReconcileTerminal ==
    /\ run.status \in Terminal /\ Outstanding # {}
    /\ jobs' = [j \in Jobs |-> IF j \in Outstanding
                               THEN [jobs[j] EXCEPT !.status =
                                        CASE run.status = "success" -> "completed"
                                          [] run.status = "failed" -> "failed"
                                          [] OTHER -> "cancelled"]
                               ELSE jobs[j]]
    /\ UNCHANGED <<run, wk, tasks, waits, endRuns, trail, executed, used>>

-----------------------------------------------------------------------------
(* Operators' commands.                                                    *)

ControlRun(target) ==
    /\ run.status \notin Terminal
    /\ run' = Unlock(run, target)
    /\ jobs' = [j \in Jobs |-> IF j \in Outstanding
                               THEN [jobs[j] EXCEPT !.status = "cancelled"] ELSE jobs[j]]
    /\ CancelArtifacts
    /\ UNCHANGED <<wk, endRuns, trail, executed, used>>

\* Only queued jobs are cancelled: a leased one is left to its worker.
PauseRun ==
    /\ used.pauses < MaxPauses /\ FaultLeft
    /\ run.status \in {"queued", "waiting"}
    /\ run' = Unlock(run, "blocked")
    /\ jobs' = [j \in Jobs |-> IF jobs[j].status = "queued"
                               THEN [jobs[j] EXCEPT !.status = "cancelled"] ELSE jobs[j]]
    /\ used' = [used EXCEPT !.pauses = @ + 1]
    /\ UNCHANGED <<wk, tasks, waits, endRuns, trail, executed>>

FreshJob(j) == jobs[j].status = "absent" /\ \A i \in Jobs : i < j => jobs[i].status # "absent"
\* Faulty variant: the continuation inherits a spent attempt counter.
SpentResumeJob(queue, done) == [status |-> "queued", type |-> "resume", attempt |-> MaxAttempts,
                                live |-> FALSE, queue |-> queue, done |-> done]
ResumeJob(queue, done) == [status |-> "queued", type |-> "resume", attempt |-> 0,
                           live |-> FALSE, queue |-> queue, done |-> done]

\* A pending resume job is reused, whatever its lease.
ReusableJob(j) == j \in Outstanding /\ jobs[j].type = "resume"

ResumeRun ==
    /\ run.status = "blocked"
    /\ \/ /\ OpenTasks # {} \/ ActiveWaits # {}
          /\ run' = [run EXCEPT !.status = "waiting"]
          /\ UNCHANGED jobs
       \/ /\ OpenTasks = {} /\ ActiveWaits = {} /\ run.queue # <<>>
          /\ run' = [run EXCEPT !.status = "queued"]
          /\ IF \E j \in Jobs : ReusableJob(j)
             THEN UNCHANGED jobs
             ELSE \E j \in Jobs : /\ FreshJob(j)
                                  /\ jobs' = [jobs EXCEPT ![j] = ResumeJob(run.queue, run.done)]
    /\ UNCHANGED <<wk, tasks, waits, endRuns, trail, executed, used>>

-----------------------------------------------------------------------------
(* People and timers.                                                      *)

\* The run's status is tested on a row read before; the UPDATE compares only the task's
\* status and version.  A task is created while its run is running, so the test may have
\* passed and the run been paused or ended since.
ClaimTask(t) ==
    /\ tasks[t] = "pending"
    /\ tasks' = [tasks EXCEPT ![t] = "claimed"]
    /\ UNCHANGED <<run, jobs, wk, waits, endRuns, trail, executed, used>>

ReturnTask(t) ==
    /\ tasks[t] = "claimed"
    /\ tasks' = [tasks EXCEPT ![t] = "pending"]
    /\ UNCHANGED <<run, jobs, wk, waits, endRuns, trail, executed, used>>

\* A decision tests the run again, under its row lock.
Actionable == run.status \in {"running", "waiting"}

\* completeCurrentHumanCheckpoint: the creator may not have checkpointed past the node yet.
WithoutCurrent(n) == IF run.queue # <<>> /\ Head(run.queue) = n THEN Tail(run.queue) ELSE run.queue

\* Faulty variant: the decision reaches the job's checkpoint but not the run's context.
ContinueJobOnly(queue, done) ==
    /\ run' = Unlock(run, "queued")
    /\ \E j \in Jobs : FreshJob(j) /\ jobs' = [jobs EXCEPT ![j] = ResumeJob(queue, done)]

\* Decision, run, context and continuation job commit together and take the run from its worker.
Continue(queue, done) ==
    /\ run' = [Unlock(run, "queued") EXCEPT !.queue = queue, !.done = done]
    /\ \E j \in Jobs : FreshJob(j) /\ jobs' = [jobs EXCEPT ![j] = ResumeJob(queue, done)]

CompleteTask(t) ==
    /\ Actionable /\ tasks[t] = "claimed"
    /\ tasks' = [tasks EXCEPT ![t] = "completed"]
    /\ \E next \in Routes[t[1]] :
          Continue(WithoutCurrent(t[1]) \o next, run.done \cup {t[1]})
    /\ UNCHANGED <<wk, waits, endRuns, trail, executed, used>>

\* A rejection without an outcome branch ends the run; its jobs are left to reconciliation.
RejectTask(t) ==
    /\ t[1] \in Legacy /\ Actionable /\ tasks[t] = "claimed"
    /\ tasks' = [tasks EXCEPT ![t] = "completed"]
    /\ run' = [Unlock(run, "cancelled") EXCEPT !.done = @ \cup {t[1]}]
    /\ UNCHANGED <<jobs, wk, waits, endRuns, trail, executed, used>>

\* A timer or message resumes only a waiting run, from the context the wait stored.
TriggerWait(n) ==
    /\ waits[n].status = "active" /\ run.status = "waiting"
    /\ waits' = [waits EXCEPT ![n].status = "triggered"]
    /\ \E next \in Routes[n] : Continue(waits[n].queue \o next, waits[n].done \cup {n})
    /\ UNCHANGED <<wk, tasks, endRuns, trail, executed, used>>

-----------------------------------------------------------------------------
WorkerStep(w) ==
    \/ LoadRun(w) \/ OpenNode(w) \/ CloseSegment(w) \/ SaveCheckpoint(w) \/ RunNode(w)
    \/ CreateTask(w) \/ CreateWait(w) \/ RefuseArtifact(w) \/ Park(w) \/ Succeed(w)
    \/ CompleteJob(w) \/ RetryJob(w) \/ FailRun(w) \/ FailJob(w)

Reconcile == ReconcileTerminal \/ \E j \in Jobs : ReconcileExhausted(j)

Person == \/ \E t \in DOMAIN tasks : ClaimTask(t) \/ ReturnTask(t) \/ CompleteTask(t) \/ RejectTask(t)
          \/ \E target \in {"cancelled", "terminated"} : ControlRun(target)
          \/ PauseRun \/ ResumeRun

Next ==
    \/ \E w \in Workers : \/ WorkerStep(w) \/ RenewLease(w) \/ Crash(w) \/ ThrowError(w)
                          \/ \E j \in Jobs : Claim(w, j)
    \/ \E j \in Jobs : LeaseLapses(j)
    \/ LockLapses
    \/ Reconcile
    \/ \E n \in Nodes : TriggerWait(n)
    \/ Person

Spec == Init /\ [][Next]_vars

\* A live process keeps stepping its job, polls, reconciles; expired time passes.
\* Nobody is obliged to act, to crash or to stall, and no wait need ever fire.
FairSpec ==
    /\ Spec
    /\ \A w \in Workers : WF_vars(WorkerStep(w))
    /\ WF_vars(\E w \in Workers, j \in Jobs : Claim(w, j))
    /\ \A j \in Jobs : WF_vars(LeaseLapses(j) /\ UNCHANGED used)
    /\ WF_vars(LockLapses)
    /\ WF_vars(Reconcile)

-----------------------------------------------------------------------------
(* The abstract lifecycle this module implements.                          *)

Spent == {tok \in Token : tok[2] <= jobs[tok[1]].attempt}

Ownership == INSTANCE RunOwnership WITH
    status <- run.status, owner <- run.lock, live <- run.lockLive, spent <- Spent,
    Owners <- Token, NoOwner <- NoToken

\* Every step is a step of the lease-and-lifecycle contract or invisible to it: an owner
\* whose lease is unexpired is never displaced by a claim, no token is ever drawn twice,
\* and success, failure or parking is only ever the current owner's doing.
ImplementsOwnership == Ownership!Spec

-----------------------------------------------------------------------------
(* Properties.                                                             *)

\* A run is running exactly while it carries a lock, and that lock is the lease token of
\* a leased job: whoever holds the run, some row lets the claim or the exhaustion
\* reconciler find it again (claimNextJob, completeJob, handleJobFailure, every Unlock).
LockOwnership ==
    /\ run.status = "running" <=> run.lock # NoToken
    /\ run.lock # NoToken => LeaseHeld(run.lock)

\* Two processes are never both entitled to write the run's checkpoint, although both may
\* be executing it: a reclaimed job draws a new token (saveCheckpoint's two row tests).
SingleWriter ==
    \A v, w \in Workers :
        v # w /\ wk[v].pc # "idle" /\ wk[w].pc # "idle"
            => ~(Fenced(wk[v].tok) /\ Fenced(wk[w].tok))

\* What became of a question put to a person; who holds it does not matter.
Answers == [t \in DOMAIN tasks |-> IF t \in OpenTasks THEN "open" ELSE tasks[t]]

\* A finished or stopped run keeps its row, its waits and what was asked and answered: no
\* late worker, retry, decision or reconciler reopens it or writes its context (the guards
\* of every writer).
TerminalFrozen == [][run.status \in Terminal => UNCHANGED <<run, waits, Answers>>]_vars

\* A paused run stays as it was until it is resumed or stopped, although the worker that was
\* finishing its last job is left running and a claim of a task may arrive late
\* (pauseWorkflowRun cancels queued jobs only).
BlockedFrozen ==
    [][run.status = "blocked" /\ run'.status \notin Terminal
        => run'.queue = run.queue /\ run'.done = run.done /\ UNCHANGED <<waits, Answers>>]_vars

\* What a pause or the end of a run froze, nobody changes behind its back.
StoppedFrozen == BlockedFrozen /\ TerminalFrozen

\* A run nobody executes is never stranded: a queued run has a job that is queued, or
\* leased and reclaimable, with attempts left; a waiting run has such a job or something a
\* person, a timer or a message can still answer (resumeWorkflowRun, Continue, RetryJob).
Startable(j) == j \in Outstanding /\ jobs[j].attempt < MaxAttempts
NeverStranded ==
    /\ run.status = "queued" => \E j \in Jobs : Startable(j)
    /\ run.status = "waiting" =>
          OpenTasks # {} \/ ActiveWaits # {} \/ \E j \in Jobs : Startable(j)

\* A node has at most one open task, whatever crashed, stalled or was retried: the look
\* for an existing task and its insert are two transactions apart (executeRunSegment).
OneOpenTask == \A s, t \in OpenTasks : s[1] = t[1] => s = t

\* One visit of a node asks for one decision: no second task row once the first was decided.
AskedOnce == \A n \in Nodes, c \in Copies : c > 1 => tasks[<<n, c>>] = "absent"

\* A decided task or a triggered wait is in the context of a run that is not cancelled.
DecisionsRecorded ==
    run.status # "cancelled" =>
        /\ \A t \in DOMAIN tasks : tasks[t] = "completed" => t[1] \in run.done
        /\ \A n \in Nodes : waits[n].status = "triggered" => n \in run.done

\* State entry is recorded once per visit even if the worker dies between the commit of the
\* transition and the checkpoint (persistStateNode's test of currentStateNodeId).  Excepted are a
\* worker that outlives its lease, which may enter a state the next worker has long left, and
\* the visit a task asked twice begins again.
StatesEnteredOnce ==
    used.stalls = 0 /\ AskedOnce => \A i, k \in DOMAIN trail : trail[i] = trail[k] => i = k

\* Success means an end node completed, every decision reached the final context and
\* nothing is left open for a person or a timer (the end of executeRunSegment).
SuccessComplete ==
    run.status = "success" =>
        /\ \E n \in run.done : Kind[n] = "end"
        /\ \A t \in DOMAIN tasks : tasks[t] = "completed" => t[1] \in run.done
        /\ OpenTasks = {} /\ ActiveWaits = {}

\* Stopping a run keeps a leased worker from committing work of it: no state is entered
\* after the stop (controlWorkflowRun's contract, persistStateNode's transaction).
StoppedEntersNoState == [][run.status \in {"cancelled", "terminated"} => UNCHANGED trail]_vars

\* A run only fails after exceptions, crashes or stalls have used up MaxAttempts claims
\* of one job: no sequence of legal decisions and timers alone fails it.
FailureEarned ==
    run.status = "failed" => used.crashes + used.stalls + used.errors >= MaxAttempts

\* A queued or running run does not stay so for ever: some worker finishes, parks or fails it.
Settles == run.status \in {"queued", "running"} ~> run.status \notin {"queued", "running"}
=============================================================================
