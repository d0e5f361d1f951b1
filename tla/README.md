# Verification of the durable workflow engine

TLA+ specifications, model-checking runs and machine-checked proofs of the server of
flow-ai-engine, kept beside the code they describe. Source paths are relative to the
repository; `engine` is `server/workflow-engine.ts`, `worker` is
`server/workflow-worker.ts`, `p1` is `server/p1-service.ts`, `p2` is
`server/p2-service.ts`, `compiler` is `server/workflow-compiler.ts`.

| Module | Subject | Proofs |
| --- | --- | --- |
| `WorkflowRun` | one durable run: row, jobs, workers, tasks, waits, commands | `WorkflowRunProofs` |
| `RunOwnership` | what the run core promises: the abstract lease and lifecycle | (refinement, in `WorkflowRunProofs`) |
| `ParallelRun` | a run that forks, its join, its decisions, the reconcilers | `ParallelRunProofs` |
| `ApprovalGroup` | a task that several people sign | `ApprovalGroupProofs` |
| `TaskSchedule` | reminders, due notices and escalations of tasks | `TaskScheduleProofs` |
| `Outbox` | delivery of notifications and state changes | `OutboxProofs` |
| `ServiceCalls` | slots, retries and circuit breaker of service tasks | `ServerProcessProofs` |
| `WorkerChannels` | polling, wake-ups and shutdown of a process | `ServerProcessProofs` |
| `DataflowJob` | a dataflow run: lease, publication, cancellation | `DataflowProofs` |
| `DataflowSchedule` | the schedule of a data flow, its flow and project | `DataflowProofs` |
| `SourceTest` | connection tests of a data source | `SourceTestProofs` |
| `LoopCursor` | the loop cursor, as operators | checked over bounded inputs |
| `DefinitionGraph` | the compiler's graph checks, as operators | checked over bounded inputs |

`MC*.tla` give the constants their values (`Outbox`, `WorkerChannels` and `SourceTest` need
none), the `.cfg` files are the instances; `PROJECT.json` lists components, runs, mutants, the
map to the source, findings, hazards and theorems. Run
`tlc -workers 2 -config <run>.cfg <module>` and `tlapm <name>Proofs.tla`.

## 1. Inventory

The server is a single Node process per host (several may share one MySQL database). All
durable state is in MySQL; a process keeps only what it is executing, its channels' flags,
and the breakers and slots of service calls. Components, the state each keeps, how they
interact and what makes them correct:

| Component | State | Operations | Correct when | Modelled in |
| --- | --- | --- | --- | --- |
| Run and job core (`worker`, `engine`) | `workflow_run` (status, lock, context, queue), `workflow_run_job` (status, lease, attempt, checkpoint) | submit, claim, renew, execute segment, checkpoint, park, succeed, retry, fail, reconcile, cancel, terminate, pause, resume | one writer at a time; an end status is final; nothing decided is forgotten; nothing waits for ever | `WorkflowRun` |
| Human tasks and groups (`p1`, `engine`) | `workflow_task`, `workflow_task_group` | create, claim, return, complete, reject; group signing, handover, delegation, add/remove signer | one question per visit; one continuation per decision; a group's outcome follows from its members' decisions | `WorkflowRun`, `ApprovalGroup` |
| Waits (`engine`) | `workflow_wait_subscription` | create, timer, message, deferred message | fires at most once, from a context that contains what was known | `WorkflowRun`, `ParallelRun` |
| State transitions, milestones (`engine`) | `workflow_state_transition`, `workflow_participant_state`, milestones | enter state | one entry per visit, in sequence, none after a stop | `WorkflowRun` (transitions only) |
| Parallel fork/join (`server/workflow-parallel-*.ts`) | tokens, frames and scopes in the run context | fork, arrive, release, merge | a join fires once, after exactly its branches | `ParallelRun` |
| Loop cursor (`server/workflow-loop-*.ts`) | traversals and step count in the context | traverse, charge | budgets hold, visits have distinct identities | `LoopCursor` (operators) |
| Continuation reconciler (`engine`:4762) | none of its own | continue decided tasks | never lost, never a second continuation | `ParallelRun` |
| Task schedules (`engine`:5220) | `workflow_task_schedule` | reminder, due, escalation | each event once per turn, to whoever holds the task | `TaskSchedule` |
| Outbox (`worker`:209-318) | `workflow_outbox_event` | claim, deliver, settle, retry | every event is delivered or given up; duplicates are accounted for | `Outbox` |
| Worker channels (`worker`:108-145, 543-634) | processing flags, timer | poll, wake, stop | one poll per channel; shutdown drains | `WorkerChannels` |
| Service calls (`engine`:887-980) | slots, circuit breakers (memory) | acquire, release, retry, open, close | slots are never exceeded nor lost | `ServiceCalls` |
| Dataflow jobs (`p2`:1410-2235, `server/dataflow-run-control.ts`, `server/dataflow-job-lease.ts`) | `dataflow_run`, `dataflow_run_job`, node runs, artifacts | claim, execute node, publish, cancel | nothing is published after a cancel or a lost lease | `DataflowJob` |
| Data-source tests (`p2`:589-758) | test rows, source status | claim, probe, settle, edit | a stale result never verifies a changed source | `SourceTest` |
| Dataflow schedules (`p2`:2235, 2579-2770) | schedule rows, buckets | save, activate, pause, queue due | one run per instant | `DataflowSchedule` |
| Definitions and versions (`server/workflow-service.ts`) | `workflow`, `workflow_version` | save, publish, archive, restore | no run starts from what was archived | `DataflowSchedule` (publication and archiving) |
| Projects | rows | CRUD, review, archive | archiving stops what runs | `DataflowSchedule` (archiving) |
| Compiler (`compiler`) | none | accept a definition | what it accepts ends and joins | `DefinitionGraph` (graph checks) |
| Creation requests (`server/workflow-creation-request.ts`) | request rows | create once | a repeated request creates nothing new | - |
| IAM, organization, connectors, LLM, HTTP surface, client | rows, or none | CRUD, input, output | - | - |

Interaction: submission inserts a run and its start job in one transaction and wakes the
workflow channel. Every worker process polls: it settles an outbox event, fires due waits
and schedules, continues decisions left over, reconciles exhausted and terminal jobs, and
claims one job. People act through calls that change task rows and, on a decision, atomically
write the context, queue the run, drop its lock and insert a continuation job. Workers and
people meet only in the database; the heartbeat (every third of a lease, at least ten seconds)
is the only other thread of a worker. Dataflow jobs and source tests have their own channels,
rows and leases.

The hard behaviours are therefore: leases that lapse under a live worker; a decision that
takes the run away from the worker in the middle of a segment, leaving its job leased;
crashes between two transactions (artifact and checkpoint, run and job, send and settlement);
people's requests that act on a row read in an earlier statement; operators' commands against
all of these; and stale jobs that become claimable after the run has moved on. The complete
list, with lines, is `hazards` in `PROJECT.json`.

How the models compose. Each shared table has one module in which it changes by the code's
own transactions; elsewhere it appears as what its neighbour sees. A decision's meaning is
`ApprovalGroup`'s subject, so `WorkflowRun` and `ParallelRun` know tasks of one decision and
`TaskSchedule` lets votes mean anything the code allows; leases are `WorkflowRun`'s, so
`ParallelRun` has one worker at a time; what a poll does with a job is the subject of
`WorkflowRun`, `Outbox`, `DataflowJob` and `SourceTest`, so `WorkerChannels` only starts and
ends it. `DataflowSchedule` composes the schedule with its flow, its project and the owner's
account, whose transactions all change the schedule. `RunOwnership` is the abstract
specification of the lease; `WorkflowRun` implements it, by TLC and by proof.

## 2. Plan

What is left, in this order:

1. Loop edges in `ParallelRun`: queue entries that carry a cursor, visits as run-row keys, so
   that `LoopCursor`'s operators meet crashes and joins.
2. Participant states and milestones beside the transition history of `WorkflowRun`.
3. The moves of `WorkflowRun` (section 5) with crashes on definitions that ask nobody, where
   `StatesEnteredOnce` is proved: `DecisionsRecorded`, `SuccessComplete` and `FailureEarned`.
4. `CreationRequest` (one transaction under a unique key) and versions and drafts of
   definitions (a comparison of numbers in one transaction), for completeness.

## 3. The modules and the code

Each action is one transaction, one autocommitted statement, or one turn of the event loop;
between two of them anything else may happen. Leases carry a random token in the code; in the
models a token is what identifies the claim that drew it (job and attempt, event and attempt,
a number never drawn again), since every claim adds one attempt and random tokens are taken
not to collide. `NOW()` only appears in comparisons, so an expiry is a flag that lapses. A
lapse under a process that still runs is a *stall* and bounded; one under a dead process is a
matter of time. `ORDER BY` is left out of claims, since `SKIP LOCKED` already lets any eligible
row come first, and so are the delays (`availableAt`) that only keep a row back for a while.

### WorkflowRun

One run, executed from a definition without parallel routers and loops, so that
`executeRunSegment` has a single queue. Runs share no state, so one is enough.

| State | Code |
| --- | --- |
| `run.status`, `run.lock`, `run.lockLive` | `workflow_run.status`, `executionLockToken`, `executionLockExpiresAt >= NOW()` |
| `run.queue`, `run.done` | `contextJson`: `runtime.executionQueue` and the node ids in `nodes` |
| `jobs[j]` | `workflow_run_job`: status, jobType, attempt, lease expiry, `checkpointJson` (queue and context) |
| `wk[w]` | locals of `processClaimedWorkflowJob` and of the segment: where it stands, its token, queue, executed set, context |
| `tasks[<<n, c>>]` | c-th `workflow_task` of node n |
| `waits[n]` | `workflow_wait_subscription` of node n with its checkpoint |
| `endRuns` | attempts whose end node has a successful `workflow_node_run` |
| `trail` | `workflow_state_transition` in sequence; its last element is `currentStateNodeId` |
| `executed`, `used` | history and bounds, no code |

A worker's path through a segment is

    Claim, LoadRun, { OpenNode, SaveCheckpoint,
                      RunNode | CreateTask | CreateWait | RefuseArtifact, SaveCheckpoint }*,
    CloseSegment, then Park or SaveCheckpoint and Succeed, CompleteJob

and any exception leads to `RetryJob` or to `FailRun` and `FailJob`. Three differences
between the fences are kept, because the properties depend on them: `saveCheckpoint` tests
job and run but not expiry (`Fenced`); artifacts test the run and its expiry but not the job
(`HoldsLease`); a state entry tests nothing (`EnterState`). The run's expiry is written after
or together with the job's, so it does not lapse first.

A claim or return of a task has no guard on the run's status: `claimWorkflowTask` tests it on
a row it read earlier and its UPDATE compares only the task's status and version. Since a task
is created while its run is running, that test may always have passed. A decision is
different: `resumeWorkflowTask` tests again under the run's row lock (`Actionable`).

Abstractions: node outputs are reduced to the fact that they exist; the routes a node may
select are any of a given set; participants, permissions, templates, forms, failure alerts,
node-run rows other than the end node's, schedules and outbox rows are left out here.
`executeWorkflow`, the inline executor without a lease, has no caller in the server and is not
modelled. `RunOwnership` keeps the run's status, its owner's token, whether its lease is valid
and the tokens drawn so far: a token is drawn once, only its owner moves the run out of
running, people may take the run away, an end status is final.

The constants say what the compiler guarantees of such a definition: every route leads to nodes,
there is at most one end node and nothing follows it (`DefinitionAssumption`;
`compiler`:405-415 and 561-568).

### ParallelRun

A run whose definition forks. `saved` is the checkpoint as it is persisted
(`persistCheckpoint`): the queue of entries, each with the stack of branch tokens it carries
(`workflow-parallel-barrier.ts`), the context at hand, the frames with the branches expected and
arrived, and the scopes with each branch's context (`workflow-parallel-scope.ts`). `wk` is the
segment a worker executes: `OpenJoin`, `BeginNode`, `FinishNode`, `RunNode`, `CreateAsk`,
`LeaveBranch`, `CloseSegment` are the phases of `executeRunSegment`'s loop. A node takes effect
with the commit of its node run (`FinishNode`, `engine`:3886) and the checkpoint follows in another
transaction (`RunNode`, `engine`:3990); a worker that dies in between leaves the node to the
retry, which finishes it again. `ran` and `runs` are the history of the first commit, `produced`
and `joins` of the second. `asks` are tasks and wait
subscriptions with their node runs: `pending` means that the node run still waits, `accepted`
that a message came while the run was busy. `Decide`, `Signal` and `FireTimer` are the
people's and the clock's entries; if the run is busy they only record the answer, and
`ReconcileDecision` and `DeliverAccepted` continue it later. A frame's id is fresh, as the
node run id is that the code takes for it: a router of which all ids are in use (`MaxForks`)
waits, and the error of a repeated id is never met. Nor is the error of a branch that meets
another router's join (`workflow-parallel-state.ts`:42), which the compiler rules out. `Throw`,
`Crash` and `ReconcileExhausted` are the failures; `Pause`, `Resume`, `Stop` the commands.
One worker at a time executes; the definitions have no task or wait before their first router;
a node's output is the node, so a context is a set and merging scopes is a union.

### ApprovalGroup

One `workflow_task_group` with its tasks in approval order. A request is in two steps: an
action `Open...` reads the task and checks it (`p1`'s operations outside the transaction), and
`Commit` runs the transaction, which locks, tests again (`ClaimValid`, `HandoverValid`,
`AddValid`, `RemoveValid`, `CompleteValid`) and writes; `Refuse` is the conflict answer. `Result`
is `evaluateApprovalResults`: the required number, the approvals, and what the undecided may
still give. `ops` is `availableOperationsJson` of the participants, which decides whose turn it
is; `PassTurn` hands the turn over from the snapshot the transaction reads. `OpenReassign` is an
administrator's way to move the task of a deactivated account (`Deactivate`). `EventLeft` caps
these events, form by form.

The number of approvals is computed in two ways. A new group takes the floating-point
`Math.ceil(total * passPercent)` of any share (`FirstRequirement`,
`shared/reference-operate-config.ts`:152-158) and stores the share rounded to basis points; a
member change takes the exact ceiling of the stored share (`Requirement`, `p1`:1195). They differ in
many cases: 50 members at 14 per cent need 8 at first, since the product is 7.000000000000001, and
7 by the stored share; 3 members at 0.33334 need 2 and then 1. `Ceilings` is every number the first
computation can give for a share that rounds to the stored one. That is what the properties say:
an approved vote reaches its share, and a rejected one falls short of it, up to half a basis point
(`Reached`, `Short`). With more than 141 first signers half a basis point may be worth a vote, so
that the number may jump by two when a member is added; `StillOpen` is stated up to there.

### TaskSchedule

`plan` holds the rows of `workflow_task_schedule` by task, event and recipient; `alerts` what
the worker made of them. `CreateTasks` plans for those whose turn it is, `Handover` and
`Reassign` move rows (`Moved`) and `AddSigner` copies them (`Copied`); `Decide` either settles the
vote and cancels the plans of the closed tasks (`Settled`) or plans for the next signer (`Undecided`);
`CancelObsolete` is the first statement of a poll, `Fire` one row's transaction.
`fireAt` is whether it has passed (`FallDue`). What votes mean is nondeterministic.

The transaction of a decision reads the next signer and its holders from the snapshot of its first
read (`ReadNext`, `engine`:4285), which is older than its locks; `Undecided` plans from that. An
administrator's reassignment (`Reassign`, `p1`:1179) asks neither for the owner nor for the turn, and
may come in between: then the former holder gets the notices. `seen.astray` remembers such tasks,
and two properties except them; without the exception TLC finds `ReadNext(1)`, `Reassign(2)` to
`cyn`, `Decide(1)`, which plans for `bob`. Which accounts are disabled is left open, so any task may
be reassigned. A rejection that ends the run leaves the other tasks' rows to
the poll, as in the code.

### Outbox

`rows` is `workflow_outbox_event`, `wk` what `dispatchWorkflowOutboxOnce` holds: `Claim`, `Send`
(notifications only), `Complete` or `Fail`. A settlement that throws is caught by the handler
of a failed delivery, so it goes to `Fail`; nothing renews the lease. `accepted` counts what the
service took. `notifyOwner` answers false both for a refusal and for a connection that breaks after
the service accepted (`server/_core/notification.ts`:110-113), and the worker sends again; the second
is a fault of its own, bounded by `MaxLost`. `broken` remembers the attempts whose process died or
could not settle the event.

### ServiceCalls

`executeHttpServiceTask` for the tasks that share a policy key: `Admit` (breaker, slot),
`Succeed`, `FailCall` (count, open, retry or give up), `EndBackoff`; `CallsInit`, `CallsNext`, `CallsSpec`
are its initial states, steps and specification. Breaker and slots are maps
in the memory of a process. A process executes one workflow job at a time, node after node, so
it has one call in flight and the waiting list of `acquireServiceConcurrency` is never used.

### WorkerChannels

`Wake`, `Start` and `Tick` queue a microtask; `Poll` starts every idle channel (`Idle` looks at
`stopping`); `Take`, `FindNothing` and `Finish` end a poll's phases and clear its flag.
`Signal`, `CloseServer`, `BeginStop`, `Drained`/`GiveUp`, `ClosePool` are the shutdown of one
signal, of which there may be two. A request that ends while the server closes may still wake
the worker.

### DataflowJob

An admitted run and its job: `Claim`, `Load` (resuming from the checkpoint), then per node
`StartNode`, `Compute`, `FinishNode` or `FailNode`, and `Complete` or `HandleFailure`; `Renew` is
the heartbeat, `Cancel` the user. Unlike the workflow core, every write of this protocol tests
the token *and* the expiry (`HoldsLease`, `dataflow-job-lease.ts`). `wk.outputs` is the
worker's memory, from which it writes the checkpoint. The plan was validated at admission, so
the branches of the claim for an invalid plan and an ended run are left out; `RunMatchesJob`
shows that the second is never taken.

### SourceTest

`Submit` queues a test with the hash of the configuration of the moment; `Claim` also finalizes
tests without attempts (`Finalized`); `Probe` is the network; `Verify` and `Fail` settle, and
change the source only if its configuration is still the one probed. `ReadSource` and
`WriteSource` are the two statements of `updateDataSource`. Nothing renews a test's lease.

### DataflowSchedule

`Scan` is a server's reading of a due schedule, `Admit`, `Reject`, `Defer` the outcomes of the
admission transaction, `PauseFailed` the pause that follows a failed one, `Superseded` the
answer when the schedule has moved on. A commit whose answer is lost counts as failed there.
People's changes (`Save`, `Activate`, `Pause`, `Delete`, `Publish`, `Unpublish`, `Archive`,
`Restore`, `ArchiveProject`, `RestoreProject`, `ChangeOwner`) are one transaction each, under
the locks of project, flow and schedule; a stale revision is refused. An admission
may be rejected at any time, for a resource that is not ready, and deferred by a transient
error of the database. A cron
expression is the set of instants it names. Hosted schedules and the transfer of a project to
another owner are left out.

### LoopCursor and DefinitionGraph

Pure algorithms. `LoopCursor` restores, validates, advances, merges and charges cursors, which
are functions from loop edges to counts. `DefinitionGraph` translates the compiler's graph
checks: the worklist of visited nodes, the components as the code computes them (Tarjan, one
`Enter` per node with its low link), loops without a bounded edge, the `allPathsReachTarget`
recursion, scopes of parallel regions, and the topological order. `MCLoopCursor` and
`MCDefinitionGraph` state as assumptions, which TLC evaluates in the run `fork`, that they
agree with reference definitions:

* over all walks of at most seven edges in nested loops: a cursor counts the traversals of
  each loop edge and a walk is refused exactly when one was taken too often
  (`CursorCountsTraversals`); visits of one walk have distinct identities (`VisitsDiffer`); a
  persisted cursor restores whatever the order of its entries (`SavedRestores`); a merge is the
  least cursor above all (`MergeIsLeast`); a visit is charged once (`VisitsChargedOnce`);
* over all 4096 graphs of four nodes: the components are the classes of mutual reachability
  (`ComponentsAreClasses`); over 2187 graphs with loops: an unbounded loop is always reported
  (`UnboundedReported`), an accepted definition has a topological order, and there is one
  unless the plain edges have a cycle (`AcceptedIsOrdered`, `OrderUnlessCycle`);
* over 6561 definitions with a parallel region: `Guaranteed` means that no walk avoids the join
  (`GuaranteedIsAllWalks`), and only a loop edge can take a branch of an accepted definition
  around its join (`BypassNeedsLoop`, `BypassAccepted`).

Node types, handles, configurations and the state-flow checks of the compiler are left out.

## 4. Runs

`CHECK_DEADLOCK FALSE` everywhere: a run, a request or a shutdown ends, and a waiting run may
wait for people for ever.

| Run | Instance | States | Shows |
| --- | --- | --- | --- |
| `run_all` | a state, then a task, a wait or both, then a state; or an end and a task side by side; 2 workers, 2 attempts, 2 exceptions, a pause, two of these together | 613110 | `DecisionsRecorded`, `FailureEarned`, `SuccessComplete`, `AskedOnce`, `StoppedFrozen` |
| `run_faults` | two states in a row, a pooled task and a state, or a wait; 2 workers, 2 attempts, two crashes or a crash and a stall; `FairSpec` | 695152 | `SingleWriter`, `NeverStranded`, `StatesEnteredOnce`, `ImplementsOwnership`, `Settles` |
| `fork` | a branch with a task, one with a state and a message; 3 attempts, a crash, 2 exceptions, a pause; `FairSpec` | 73090 | `BranchesCarried`, `JoinRunsOnce`, `JoinLeavesNothing`, `OutputsMerged`, `AnswersContinued`; the assumptions about `LoopCursor` and `DefinitionGraph` |
| `sign` | any one of two, half of two, a third of three (the first requirement may be one or two), two in order; 3 users, 3 tasks, 2 requests at once; one event, two for those in order | 596367 | `OutcomeEarned`, `StillOpen`, `OneVotePerUser`, `SignedInOrder`, `FinalVote` |
| `reminders` | a vote in order of two in a branch, a third may be added; 3 users, 3 moves, a pause or retry; `FairSpec` | 503588 | `NoticesFollowHolders`, `ToldOnce`, `NoticesKept`, `NoticesEnd` |
| `outbox` | a notification and a state change, 2 processes, 3 attempts, a crash, a stall, a failed statement, a lost answer; `FairSpec` | 46062 | `DeliveriesAccounted`, `EventuallySettled` |
| `service_calls` | 2 processes, 3 tasks of one key, 2 calls each, a restart; `FairSpec` | 24200 | `OpenEarned`, `CallsEnd` |
| `channels` | 3 channels of which 2 may hang, 2 requests, 2 signals; `FairSpec` | 8286 | `PoolOutlivesWork`, `WorkTaken`, `ShutdownEnds` |
| `dataflow` | a plan of three nodes, 2 workers, 3 attempts, 2 crashes, a stall, a cancellation; `FairSpec` | 27418 | `CheckpointExact`, `RunEnds` |
| `source_test` | 2 tests, one edit, 2 workers, 2 attempts, a crash or a stall; `FairSpec` | 363314 | `VerifiedEarned`, `DisabledKept`, `TestEnds` |
| `schedule` | 2 servers, 3 instants, 2 calendars, 4 revisions, a fault, 2 moves of flow, project and owner; `FairSpec` | 268400 | `OncePerInstant`, `RunOrPaused`, `ArchivedQuiet`, `DueHandled` |
| `asked_again` | the smallest instance that shows it | - | the finding of section 6 |

Bounds. Two workers, servers or sessions are what a race needs: one that holds a row, or read
it, and one that changes it. Two attempts give a first and a last one; where a retry after a
retry matters (a checkpoint that another attempt outran, a delivery between two others) there
are three. Three members give a share that is neither one nor all, and a turn that passes
twice. Three instants give a missed one, a due one and a coming one. In `run_all` and
`run_faults` the bounds on job and task rows (`MaxJobs`, `MaxCopies`) do not bind: raising each
by one leaves the number of distinct states as it is. The bounds that bind are the ones on
faults, commands and moves, and on requests and events. Between them the runs fire every
action.

`sign` uses symmetry among the requests in flight only: the users differ in what they are
asked. No liveness property is checked there.

Each property is also broken on purpose: `mutants` in `PROJECT.json` names, for each property
of each passing run, a faulty variant of a definition (marked as such in its module) under
which TLC finds the property violated.

Fairness. Everywhere it is fairness of programs, never of people, faults, or stalls:

* `WorkflowRun`, `ParallelRun`: a live process goes on with the job it holds; when some job is
  claimable some worker claims one (the poll timer, `worker`:611); time passes; the
  reconciliation of every poll happens. Crashes are bounded, so some worker is live in the end.
* `Outbox`: a process goes on; every poll dispatches, so an event that stays claimable is
  claimed; leases lapse.
* `ServiceCalls`: calls go on; requests have timeouts, so each ends.
* `WorkerChannels`: the event loop runs what is due, requests end, the deadline of a shutdown
  passes. Jobs end in the workflow channel only (`Prompt`): a connector may hang. A poll that
  finds a job waiting again and again takes it in the end (strong fairness), since its claim
  may be refused by a failing database now and then.
* `DataflowJob`, `SourceTest`: as for workflow jobs; the heartbeat of a live worker renews its
  lease in the end (strong fairness, because a stall may pre-empt it).
* `DataflowSchedule`: servers look for due schedules; an admission that may be tried again and
  again is in the end made (strong fairness, because a transient error may defer it).
* `TaskSchedule`: polls happen, so obsolete rows are cancelled and due ones are sent.

Liveness is checked, not proved.

## 5. Proofs

Eight modules prove safety for every value of the constants: any number of workers, servers,
users, tasks, channels, attempts and faults, any definition, plan, calendar or form. They
assume what the modules' named `ASSUME`s say about the constants (types, distinct names, a plan
in topological order, a next instant of every cron expression, one end node, for `Outbox`
finitely many processes) and nothing else; where a property needs more, the theorem says so as
a hypothesis. In each, the properties are not inductive alone; the strengthening is the
argument.

**WorkflowRun** (`TypeCorrect`, `LockIsOwned`, `OneWriter`, `OneTaskOpen`,
`StoppedStaysFrozen`, which joins `TerminalStaysFrozen` and `BlockedStaysFrozen`, and
`Refinement`: `Spec` implies `RunOwnership`'s).

    IInv == TypeOK /\ HasHead /\ LeaseInv /\ OpenInv

`HasHead`: a worker about to use the head of its queue has one; without it `Head` could leave
`Seq(Nodes)`. `LeaseInv` says how tokens are handed out: a worker's token was drawn by a claim
of that job (`TokensDrawn`), no two workers hold the same one (`TokensUnique`), a worker past
its last write no longer owns the run (`Released`), a run without a lock has no expiry, a job
not yet created no attempts (`Blank`). `SingleWriter` follows from `TokensUnique`, since both
writers would need the run's one lock. `OpenInv` adds that a worker past `OpenNode` that still
owns the run, and so is about to create a task, has no open task in its way (`NoneOpen`): it
looked two transactions ago, and whoever might have opened one since must have claimed the run
with another token. Lemmas `LeaseFrame`, `LeaseUnlocked`, `LeaseRetired` and `LeaseClaimed`
treat the four ways an action touches the lease; `WhoLocks`, `WhoOpens` and `WhoEnters` say
which actions give the run an owner, open a task or begin a node.

*Nobody is stranded* (`NobodyStranded`: `NeverStranded` until the first pause, whatever crashes
and stalls). `StrandInv`: a queued run has a queued job with attempts left, since whoever queues
it inserts one or gives its own back; a waiting run has an open question, since the worker that
parks has seen one (`ParkedOnAsk`) and an answer queues the run. A pause breaks it (`stranded`).

*Moves.* The properties about the context hold without crashes and stalls (`NoLoss`; section 7),
`StatesEnteredOnce` with crashes too where a definition asks nobody, and rest on each other:

| Invariant | Says | Gives |
| --- | --- | --- |
| `Custody` | a leased job is in a worker's hands (`LeasesHeld`); a live run has one queued job at most (`QueuedOnce`); run row, job row and the owner's memory agree on the checkpoint | `CustodyInvariant` |
| `AskInv`, `Recorded` | one question is open at most, and nobody else is on the way to one; what was decided is in the run's context and in its owner's | `DecisionsReachContext`: `DecisionsRecorded` |
| `VisitInv` | what lies ahead of a queue is not done yet, nor ahead of an open question or of a stored wait | `NobodyAskedTwice`: `AskedOnce` |
| `AloneInv`, `EntersFresh`, `TrailInv` | nothing is under way beside a question; whoever is in a state is alone there; the trail is done but for the state the queue stands at | `EnteredOnce`: `StatesEnteredOnce`, no crash |
| `SoloInv`, `SoleJob`, `SoloTrail` (together `LoneInv`, with any crashes) | one worker at most is at work and holds the run, or the run is over; a live run has one job, at its checkpoint, whoever dies; the trail is done but for the state a queue stands at | `EnteredOnce`: `StatesEnteredOnce`, any crashes |
| `PromiseInv` | until the end has its output something is left to execute or somebody is asked; whoever means to finish has seen the output and nobody asked | `SuccessIsComplete`: `SuccessComplete` |
| `EndRunsInv`, `EndKept` | a claim completes the end once; a context with the end's output rests on an end node run no exception takes back | `FailureIsEarned` |
| `WaitUnasked`, `ErrorsCounted` | the owner in a wait node has none open; every attempt given up, and the last one, cost an exception | `FailureIsEarned`: `FailureEarned` |

Since a property of the context does not care which of thirty actions was taken, lemma `Moves`
sums the steps up: whatever happens either rests (`Rests`), or the owner saves, drops a node,
runs one, asks (`Saves`, `Drops`, `Runs`, `Asks`), or a worker takes the run (`Takes`), or a
question is answered, refused or fired (`Answered`, `Refused`, `Fired`). Each invariant is then
proved over these nine moves. `Ahead(n)` is the least set with n that is closed under successors,
written as an intersection, so that no induction over paths is needed.

What they assume about the definition is stated as hypotheses:

* `OneAsking`: of the successors selected together at most one leads to a question. Otherwise
  `DecisionsRecorded` fails (`wait_forgets`).
* `OneVisit`: no path leads back to a node, and successors selected together share nothing but
  the end. Otherwise a node is visited twice, and may well ask twice.
* `AskAlone` and no crash, or `Unasked`, for `EnteredOnce`. `AskAlone`: beside a branch that asks only
  the end is selected. Otherwise a state is entered beside an open question (`entered_again`).
  `Unasked`: the definition has neither tasks nor waits. Then any number of workers may die between a
  state's entry and its checkpoint; with questions and crashes a decision's job and the dead worker's
  job are claimed in any order, and the case is left to TLC (`run_faults`).
* `Continues`, for `SuccessIsComplete` and `FailureIsEarned`: every node but the end selects a
  successor (the compiler refuses a node from which the end cannot be reached,
  `compiler`:717).

The instance of `run_all` satisfies all but `Unasked`; TLC checked the invariants of the table there,
and those of `LoneInv` on states in a row with crashes, before they were proved. Branches that ask in parallel are `ParallelRun`'s subject.

**ParallelRun** (`TypeCorrect`, `NoBranchLost`, `JoinExactlyOnce`, `NothingBehindJoin`,
`EveryOutputMerged`).

    IInv == CoreType /\ WkType /\ Persisted /\ AsksOpen /\ WaitsEmpty /\ InMemory

The token stacks of queued entries and of asks whose node run waits are *paths*, and they are
the leaves of a forest: every token on a path is expected by its frame and has not arrived
(`Live`), a frame stands under one stack of tokens (`Agree`), paths that share a token go on in
the same frame and end together (`Meet`), and every expected branch that has not arrived is on
some path (`Covered`, which is `BranchesCarried`). Whatever a step does to the paths is one of
four things: it leaves them alone, takes one away (`Arrived` at its join), shortens one by a
token (the join opens and the router's own path comes back) or lengthens one (a fork); the first
part of the module proves what each does to any set of paths. A path is held by one entry and
one ask at most (`Single`), an entry has as many tokens as its node is deep (`Placed`), and marked
entries and executed joins belong to released frames, exactly one of them once (`Marks`, `Once`).
This is said of what is persisted (`Persisted`) and of what the worker has in memory
(`InMemory`), which differ by entries of the root path that the worker skipped. A worker never
skips more, since what it has executed in its segment (`Past`) lies behind, by rank, everything
still queued on the same path; that is why loops are excluded. When the run is over, only what
says that nothing is duplicated is kept.

`EveryOutputMerged` adds to `IInv` what the contexts and scopes hold:

    GatherInv == GatheredSaved /\ GatheredInMemory /\ WaitsLate /\ ProducedMerged

For the persisted checkpoint and for the one in memory: a frame's base contains what its parent's
branch held when it was opened, and that scope rests while the frame is open (`Based`); a
released join that waits in the queue will merge at least what its path held (`Homed`); and
every output is in the context at hand when no frame is open, or in the merge of an open frame
(`Collected`). So a merge never drops what an inner frame, a task answered in between or a retry
after a crash has added. Outside all frames there is one entry, or there are only entries that
open no frame any more (`Rooted`): two of them would take each other's context. Each kind of
step keeps this by a lemma of its own: work on a path (`GatheredOnwards`), a fork
(`GatheredFork`), an arrival and a merge. What a worker finished but did not checkpoint is still
due: its entry is in the persisted queue, and in memory it is at work or not skipped (`RanInv`).

`JoinExactlyOnce` has, besides `IInv`, `RunsInv`: a join at work has no checkpoint behind it yet, and
unless it has just been finished, it was finished as often as a checkpoint followed it, plus once
per fault at most.

The theorems assume three things, the last for `EveryOutputMerged` alone:

* `Nested`: some depth and rank make the definition well nested (`WellNested`): edges lead to
  higher ranks; a router goes one frame deeper, a join one back, other nodes stay; a router's
  successors are distinct, and inside a frame every node selects exactly one. The definition of
  `split_join` is not (a branch splits), and there `JoinLeavesNothing` fails. `BothNest` is the
  assumption, which TLC evaluates, that the definition of the run `fork` is well nested.
* `~Pooled`: tasks are assigned. A task of a pool may be created a second time
  (`asked_again`).
* `LateSplits`: where a path outside all frames splits without a router, no router or join
  follows (`SplitsLate`). Otherwise the second path runs while the frame is open, with the
  context of the branch executed last, and what it puts out is in no scope: a start with two
  exits, one to a router and one to two steps beside it, loses an output. (In `diamond_loses`
  the split is inside a branch, which `Nested` excludes.) `BothSplitLate` is the assumption,
  evaluated by TLC, that the definition of `fork` splits late.

Every part of both invariants was checked on the instance of `fork` before it was proved.

**ApprovalGroup** (`EachSignsOnce`, `GoesOnOnce`, `DecidedIsFinal`, `OutcomeIsEarned`,
`VoteStillOpen`, `TallyIsKept`, `InOrder`). A request acts on a row it
read earlier. `TasksInv`: distinct owners of the tasks that are or were open. `TaskStep`: a
task's version never falls, and a task that left the open statuses comes back only with a new
version. Hence `RequestOK`: a request that finds its version and status again finds its owner
too. `RunInv`: a decided group has closed tasks and at most one continuation. `CountInv`: the
tally is that of the member tasks, the number asked for is one of the two a group of this size can
have (`InForce`), an undecided vote of up to 141 first signers is not won and can be won unless a
member was removed, a decided one is what its tally says; the arithmetic of the two roundings
(`FirstFacts`, `CeilingsFacts`) is in lemmas of its own: an addition changes the number by one at
most, whichever rounding it had. `OrderInv`: in a vote in order the members who may act
stand behind closed tasks only, and so does every request that has tested its turn.

**TaskSchedule** (`TypeCorrect`, `NoticesGoToHolders`, `NobodyIsToldTwice`,
`OpenTasksKeepNotices`). Every part of the
invariant is about one task. `Follows`: live rows belong to whoever holds it, unless its turn went
astray. `ReadInv`: what a decision has read as the next signer existed, and those it read as its
holders had a turn there, so what is planned from the outdated read is covered too. `Budget`: what a
user was told of an event, plus one where another telling is planned, is covered by the turns
the user had; `Turned`: whoever holds a task had a turn; `Blank`: a task that does not exist
has no rows. `NoticesInv`: a task not yet called upon has no rows, and an open one that was has,
for each event, a live row for every holder, unless one was sent, a poll took them back or its turn
went astray. Most actions leave a task's rows alone or cancel them, which one lemma covers.

**Outbox** (`TypeCorrect`; `LossesAreEarned`: an event is given up only after all its attempts, and
left for ever only if its own last attempt is in `broken`; `DeliveriesAreAccounted`). `HolderInv`: a
leased event is held by the process of its attempt, unless that attempt is in `broken`; a queued one
has an attempt left; a failed one has none. `Account` is the balance of one event: what the service took, what processes that lost
their lease may still settle, and a lapse under the holder, against the faults (lost
answers among them), the row's status and what the holder has sent. `AttemptInv` keeps the holders apart.

**ServiceCalls** (`SlotsAreExact`, `OpensOnlyOnFailures`; in `ServerProcessProofs`, which
treats what lives in one process's memory). `CountInv`: what the breaker counts
is part of the present run of failures; it forgets, but never invents one.

**WorkerChannels** (`TypeCorrect`, `FlagsAreExact`, `PoolClosesLast`). `StopInv`: a shutdown
past its first wait has set `stopping`, one past its second has seen every channel idle, and
they stay idle because the microtask of a wake-up looks at `stopping` before it polls.

**SourceTest** (`TypeCorrect`, `VerifiedIsEarned`, `DisabledIsKept`, `OwnerIsOne`). `MatchInv`: a worker probes the configuration its test was requested for, or the
source has left that one between request and claim; then the comparison under the lock fails, as
long as the source does not return to it. That is the hypothesis `NeverBack` (it fails in
`config_restored`; a single update cannot break it). Updates may overlap here: whatever an update leaves verified it has read so, with its configuration
(`ProbeInv`). `DisabledIsKept` assumes `OneEditor`, that no two updates are between read and
write together: then whoever writes has seen that the source is disabled (`SeenInv`); with
overlapping ones it fails (`disabled_revived`). TLC checked these invariants with two updates,
under the two hypotheses. `OwnerIsOne`: tokens are drawn once (`TokenInv`), so a result is
accepted from one worker at most.

**DataflowJob** (`TypeCorrect`, `JobAndRunAgree`, `ResumesExactly`, `ParentsComeFirst`,
`NothingRunsAfterTheEnd`, `EndIsFinal`, `PublishedOnce`). `TokenInv`: a lease carries the number
of its attempt, tokens are never shared. `MemoryInv`: the memory of the worker that holds the
job's token is the set of artifacts, so that writing the checkpoint from memory is right.

**DataflowSchedule** (`TypeCorrect`, `AdmittedOnce`, `NeverRunAndPaused`, `ArchivedStaysQuiet`).
`TimeInv`: the instant of an active schedule lies after every admission, because it was
computed from the clock at or after the last one. `PausedInv`: a pause moves the revision past
every bucket paused before.

Only model-checked: liveness (fairness and `ENABLED` are outside the prover's reach); the
properties of `WorkflowRun` above with crashes and stalls (but for `EnteredOnce`), where they hold up to a number of
them only (section 7), and for definitions beyond the hypotheses; runs of `ParallelRun`
with pooled tasks; and the algorithms of `LoopCursor` and `DefinitionGraph`, whose recursion is
outside the prover's reach (induction over data).

## 6. Findings and counterexamples

One finding is a run of its own. `asked_again`: a crash after a pooled task's commit and before
the checkpoint, followed by a decision, makes the reclaimed job create a second task for the
same visit (`engine`:3318-3330), against `server/workflow-human-artifact.test.ts:225`.

The other configurations that are not listed as runs each reproduce a case in which the code
does not do what a comment, a document or a test says, or show why a theorem needs its
hypothesis. Run them by hand: `tlc -workers 2
-config <name>.cfg <module>` ends with the counterexample.

| Configuration | Module | What it shows |
| --- | --- | --- |
| `stranded` | `MCWorkflowRun` | resuming a paused run reuses a resume job that is still leased (`engine`:2589); when that worker completes it, the run stays queued without a job, against the doc comment at `engine`:2531 |
| `stopped_enters` | `MCWorkflowRun` | `persistStateNode` (`engine`:3061) commits a state entry of a run stopped meanwhile, against `engine`:2420 |
| `wait_forgets` | `MCWorkflowRun` | a node selects a task and a wait (the edges of a node that is no router are all queued, `engine`:3971); an exception after the task's creation lets the retry store the wait's context without the decision, and the wait resumes from it (`engine`:4610): the decision is lost, and `DecisionsReachContext` needs `OneAsking` |
| `entered_again` | `MCWorkflowRun` | a node selects a task and a state; the decision displaces the worker that is in the state, its successor enters that state and the next, and the displaced one enters its own again (`engine`:3061 is unfenced): `EnteredOnce` needs `AskAlone` |
| `decided_crash` | `MCParallelRun` | a crash between a branch task's commit and the checkpoint, then a decision: the retry's insert hits the unique key (`engine`:3318) and the run fails with the decision, against "completed decision is durable" (`engine`:4348) |
| `paused_stuck` | `MCParallelRun` | a run paused between a branch's decision and its continuation cannot be resumed (`engine`:2588), against `engine`:2531 |
| `split_join` | `MCParallelRun` | a branch that splits without a router of its own releases the join early (`server/workflow-parallel-barrier.ts:25`), against `server/workflow-parallel-barrier.test.ts:7` |
| `diamond_loses` | `MCParallelRun` | two exits of one branch that meet again lose an output (`engine`:3263), against `server/workflow-parallel-executor.test.ts:348` |
| `bypass` | `MCParallelRun` | a definition the compiler accepts, with a loop edge from a branch to a node that leads to the end, finishes with the join never run, against the compiler's own message (`compiler`:1072: every exit must reach the join and none may go around it) |
| `turn_lost` | `MCApprovalGroup` | the next signer is read from a snapshot older than the lock (`engine`:4135) and the turn reaches nobody, against `p1`:254; the same after a reassignment (`p1`:1435) |
| `told_early` | `MCTaskSchedule` | a signer added to a vote in order is told before the turn comes (`p1`:1325), against `server/workflow-task-schedule.test.ts:41` |
| `reminders_lost` | `MCTaskSchedule` | a poll that finds the run queued for a moment cancels the notices of its other open tasks for good (`engine`:5221), against `server/workflow-task-schedule.test.ts:56` |
| `breaker_trips` | `MCServiceCalls` | the count of failures is deleted before every attempt (`engine`:940), so a threshold above one is never reached, against `shared/workflow-node-contract.ts:544` |
| `dataflow_stuck` | `MCDataflowJob` | the worker of the last attempt dies and nothing ends the run (`p2`:1885), against the comment at its admission (`p2`:2222); source tests avoid it (`p2`:595) |
| `config_restored` | `SourceTest` | a source edited away and back while a test runs is verified by a probe of the configuration in between (`p2`:677), against `p2`:691 |
| `disabled_revived` | `SourceTest` | two edits at once enable a source that one of them disabled (`p2`:343), against `p2`:338 |

## 7. Limits

What the bounds would hide is stated here. Several properties hold of the code only for few
faults:

* `AskedOnce`, `DecisionsRecorded` and `FailureEarned` hold under exceptions and pauses and fail
  with one crash or one stall once a human task is on the path. The cause is always the same: a
  decision queues a continuation job and leaves the job of the crashed or displaced worker
  leased; that stale job becomes claimable when the run is free again and starts from an old
  checkpoint. `asked_again` is the shortest case. On a chain with a wait it also writes back a
  context without the recorded output, and with a fan-out and one crash `SuccessComplete` fails.
* `StatesEnteredOnce` holds with two crashes on the instance of `run_faults`, and excepts two cases,
  because the test remembers only the current state. A worker that outlives its lease may enter a
  state the next one has left: one stall breaks it on a path with two states. And a task asked twice
  (`asked_again`) may, behind two more states, begin its visit again: with one crash, start, a pooled
  task and two states, it fails without the exception and holds with it. It also fails with a single
  exception where a state lies beside a question (`entered_again`). Definitions with loops use a
  per-visit key instead.
* `NeverStranded` holds under crashes and stalls and fails with a single pause (`stranded`).
* A join, like any node, may take effect again when its worker dies between the node run and the
  checkpoint; `JoinRunsOnce` allows that once per fault. `ParallelRun` has one worker at a time, so a
  worker that outlives its lease is not in it.
* `NoticesFollowHolders` and `NoticesKept` except tasks whose turn went to a former holder
  (`TaskSchedule` in section 3).
* `StillOpen` is stated for up to 141 first signers and excepts votes from which a member was removed: the removal counts the approvals
  cast but not the rejections, so a vote that can no longer pass may stay open.
* `VerifiedEarned` and `DisabledKept` hold for one edit and may fail for two (sections 5 and 6).
* `RunEnds` excepts the run whose last worker is lost, `EventuallySettled` the event whose last
  attempt died, `NoticesKept` the notices a poll or a stop cancelled.
* `JoinLeavesNothing` and `OutputsMerged` hold for definitions that nest (`OutputsMerged`: and that
  split late), not for branches that split (sections 5 and 6).

The theorems of section 5 hold without any bound; those about the context of a run for every
number of exceptions, pauses, stops and workers.

Not modelled, and why:

* State-flow checks, node types, handles and configurations in the compiler, and the node
  contracts (`shared/workflow-node-contract.ts`): tables and validation of literals.
* Creation requests: one transaction under a unique key. Versions and drafts of definitions:
  compare-and-set in one transaction. Participant states and milestones: written in the
  transaction of the state entry that `WorkflowRun` models; planned.
* Permissions and CRUD of identities, organizations and projects: single transactions.
* Connectors, LLM, storage and the HTTP surface: input and output, seen here as an outcome or
  an exception. The MySQL server itself: transactions are atomic, row locks serialise.
* The client: about half of the repository's lines. It keeps no state the server trusts; what
  a user may do appears as the actions of people. Scripts, tests and generated assets.

The map therefore covers the server's protocols and the algorithms of the shared code, a small
share of all lines.
