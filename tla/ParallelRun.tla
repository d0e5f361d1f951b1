----------------------------- MODULE ParallelRun -----------------------------
(***************************************************************************)
(* A run whose definition broadcasts: a router forks a frame of branches,  *)
(* every branch carries its token through tasks and waits, and the join    *)
(* releases the frame when each branch dispatched has arrived.             *)
(*                                                                         *)
(* WorkflowRun models leases, fencing and the root path.  Here one worker  *)
(* holds the run at a time, and tasks and waits occur only once a frame    *)
(* exists (the definition has none before its first router).  A task is    *)
(* one decision; a node's output is abstracted to the node, so a context   *)
(* is the set of nodes whose output it holds and the merge of branch       *)
(* scopes is a union.  A decision or message that finds the run busy is    *)
(* only recorded; the reconcilers continue it once the run waits.          *)
(***************************************************************************)
EXTENDS Naturals, Sequences

CONSTANTS
    Nodes, StartNode,
    Kind,           \* [Nodes -> NodeKinds]
    Routes,         \* [Nodes -> SUBSET Seq(Nodes)]: successors a node may select
    JoinOf,         \* [routers -> joins]: parallelJoinNodeId
    Legacy,         \* operate nodes without outcome branches: a rejection cancels the run
    Pooled,         \* TRUE: tasks go to a candidate pool (assignedUserId is NULL)
    MaxForks,       \* bound: frames of one router
    MaxAsks,        \* bound: task and subscription rows
    MaxAttempts,    \* workflow_run_job.maxAttempts
    MaxCrashes, MaxErrors, MaxPauses    \* bounds: faults and pause commands

NodeKinds == {"auto", "operate", "timer", "message", "router", "join", "end"}
Routers == {n \in Nodes : Kind[n] = "router"}

ASSUME ParallelAssumption ==
    /\ StartNode \in Nodes /\ Legacy \subseteq Nodes /\ Pooled \in BOOLEAN
    /\ Kind \in [Nodes -> NodeKinds]
    /\ Routes \in [Nodes -> SUBSET Seq(Nodes)]
    /\ JoinOf \in [Routers -> {n \in Nodes : Kind[n] = "join"}]
    /\ MaxForks \in Nat \ {0} /\ MaxAsks \in Nat /\ MaxAttempts \in Nat \ {0}
    /\ MaxCrashes \in Nat /\ MaxErrors \in Nat /\ MaxPauses \in Nat

VARIABLES
    status,         \* workflow_run.status
    job,            \* the run's latest job: its state and attempts
    saved,          \* the checkpoint in the run's context and in the job
    wk,             \* the worker's segment: point, checkpoint in memory, keys executed
    asks,           \* tasks and wait subscriptions with their node run, in creation order
    produced,       \* history: nodes whose output a checkpoint or an answer has recorded
    joins,          \* history: how often a checkpoint followed the join of a frame
    ran,            \* history: nodes a worker has finished successfully
    runs,           \* history: how often the join of a frame was finished
    used            \* how much of each bound has been spent

vars == <<status, job, saved, wk, asks, produced, joins, ran, runs, used>>

Frame == Routers \X (1..MaxForks)
NoFrame == <<StartNode, 0>>
BranchToken == [frame : Frame, branch : Nodes]
Entry == [node : Nodes, tokens : Seq(BranchToken), joined : Frame \cup {NoFrame}]
Checkpoint == [queue : Seq(Entry), ctx : SUBSET Nodes,
               frames : [Frame -> [expected : SUBSET Nodes, arrived : SUBSET Nodes]],
               scopes : [Frame -> [base : SUBSET Nodes, branch : [Nodes -> SUBSET Nodes]]]]
Terminal == {"success", "failed", "cancelled"}
Decided == {"approved", "rejected"}

Ask == [node : Nodes, tokens : Seq(BranchToken), pending : BOOLEAN, accepted : BOOLEAN,
        status : {"open", "fired", "cancelled"} \cup Decided]

TypeOK ==
    /\ status \in {"queued", "running", "waiting", "blocked"} \cup Terminal
    /\ job \in [state : {"none", "queued", "leased"}, attempt : 0..MaxAttempts]
    /\ saved \in Checkpoint
    /\ wk.pc \in {"idle", "head", "work", "done", "asked"} /\ wk.cp \in Checkpoint
    /\ asks \in Seq(Ask) /\ Len(asks) <= MaxAsks
    /\ produced \subseteq Nodes /\ ran \subseteq Nodes
    /\ joins \in [Frame -> Nat] /\ runs \in [Frame -> Nat]
    /\ used \in [crashes : 0..MaxCrashes, errors : 0..MaxErrors, pauses : 0..MaxPauses]

-----------------------------------------------------------------------------
(* Tokens, frames and scopes.                                              *)

Forked(cp, f) == cp.frames[f].expected # {}
Released(cp, f) == Forked(cp, f) /\ cp.frames[f].arrived = cp.frames[f].expected
LastToken(tokens) == tokens[Len(tokens)]
Parent(tokens) == SubSeq(tokens, 1, Len(tokens) - 1)

\* activateParallelScope: the root path keeps the context at hand.
Activate(cp, tokens) ==
    IF tokens = <<>> THEN cp
    ELSE LET t == LastToken(tokens)
         IN  [cp EXCEPT !.ctx = cp.scopes[t.frame].branch[t.branch]]

\* saveParallelScope
SaveScope(cp, tokens) ==
    IF tokens = <<>> THEN cp
    ELSE LET t == LastToken(tokens)
         IN  [cp EXCEPT !.scopes[t.frame].branch[t.branch] = cp.ctx]

\* Faulty variant: one branch's outputs stand for all.
MergeOne(cp, f) == LET s == cp.scopes[f] IN
    s.base \cup s.branch[CHOOSE b \in cp.frames[f].expected : TRUE]

\* mergeParallelScope: what any branch changed goes into the router's context.
Merge(cp, f) == LET s == cp.scopes[f] IN
    s.base \cup UNION {s.branch[b] : b \in cp.frames[f].expected}

\* Entries for the successors, under the tokens of their predecessor.
Successors(next, tokens) ==
    [i \in 1..Len(next) |-> [node |-> next[i], tokens |-> tokens, joined |-> NoFrame]]

\* Ids left for the router's next frame; the code draws a fresh one without a limit.
Unforked(cp, router) == {k \in 1..MaxForks : ~Forked(cp, <<router, k>>)}

\* forkParallelState and forkParallelScopes: a fresh frame, one token for each branch.
Fork(cp, router, next, tokens) ==
    LET f == <<router, CHOOSE k \in Unforked(cp, router) : TRUE>>
        branches == {next[i] : i \in 1..Len(next)}
    IN  [cp EXCEPT !.frames[f] = [expected |-> branches, arrived |-> {}],
                   !.scopes[f] = [base |-> cp.ctx, branch |-> [n \in Nodes |->
                                     IF n \in branches THEN cp.ctx ELSE {}]],
                   !.queue = @ \o [i \in 1..Len(next) |->
                       [node |-> next[i], joined |-> NoFrame,
                        tokens |-> Append(tokens, [frame |-> f, branch |-> next[i]])]]]

-----------------------------------------------------------------------------
Init ==
    LET empty == [queue |-> <<[node |-> StartNode, tokens |-> <<>>, joined |-> NoFrame]>>,
                  ctx |-> {},
                  frames |-> [f \in Frame |-> [expected |-> {}, arrived |-> {}]],
                  scopes |-> [f \in Frame |-> [base |-> {}, branch |-> [n \in Nodes |-> {}]]]]
    IN  /\ status = "queued"
        /\ job = [state |-> "queued", attempt |-> 0]
        /\ saved = empty
        /\ wk = [pc |-> "idle", cp |-> empty, seen |-> {}]
        /\ asks = <<>>
        /\ produced = {} /\ ran = {}
        /\ joins = [f \in Frame |-> 0] /\ runs = [f \in Frame |-> 0]
        /\ used = [crashes |-> 0, errors |-> 0, pauses |-> 0]

Idle == [pc |-> "idle", cp |-> saved, seen |-> {}]

\* A queued run, or a running one whose worker died and whose lease has lapsed.
Claim ==
    /\ wk.pc = "idle" /\ job.state # "none" /\ job.attempt < MaxAttempts
    /\ status \in {"queued", "running"}
    /\ status' = "running"
    /\ job' = [state |-> "leased", attempt |-> job.attempt + 1]
    /\ wk' = [pc |-> "head", cp |-> saved, seen |-> {}]
    /\ UNCHANGED <<saved, asks, produced, joins, ran, runs, used>>

\* Leaving with an exception: the job is queued again while the run is still this
\* worker's and attempts are left; the last attempt fails the run and cancels what is open.
Throw ==
    /\ wk' = Idle
    /\ IF status # "running" THEN job' = [job EXCEPT !.state = "none"] /\ UNCHANGED <<status, asks>>
       ELSE IF job.attempt < MaxAttempts
       THEN status' = "queued" /\ job' = [job EXCEPT !.state = "queued"] /\ UNCHANGED asks
       ELSE /\ status' = "failed" /\ job' = [job EXCEPT !.state = "none"]
            /\ asks' = [i \in DOMAIN asks |-> IF asks[i].status = "open"
                                              THEN [asks[i] EXCEPT !.status = "cancelled"] ELSE asks[i]]

\* The fenced checkpoint; it throws when the run has been stopped meanwhile.
Save(cp, pc, seen) ==
    IF status = "running"
    THEN /\ saved' = cp
         /\ wk' = [pc |-> pc, cp |-> cp, seen |-> seen]
         /\ UNCHANGED <<status, job, asks>>
    ELSE Throw /\ UNCHANGED saved

Current == Head(wk.cp.queue)
Key(e) == <<e.node, e.tokens, e.joined>>
Fresh == wk.pc = "head" /\ wk.cp.queue # <<>> /\ Key(Current) \notin wk.seen
Drop(cp) == [cp EXCEPT !.queue = Tail(@)]
Here == Activate(wk.cp, Current.tokens)

OpenAsk(e) == \E i \in DOMAIN asks :
    asks[i].node = e.node /\ asks[i].tokens = e.tokens /\ asks[i].status = "open"

\* An entry executed before in this segment is dropped; the next checkpoint records it.
SkipRepeated ==
    /\ wk.pc = "head" /\ wk.cp.queue # <<>> /\ Key(Current) \in wk.seen
    /\ wk' = [wk EXCEPT !.cp = Drop(Here)]
    /\ UNCHANGED <<status, job, saved, asks, produced, joins, ran, runs, used>>

Arriving == Fresh /\ Kind[Current.node] = "join" /\ Current.joined = NoFrame

\* Faulty variant: the join opens when the first branch arrives.
ReleasesAny(e) == TRUE

\* arriveParallelBarrier: this token completes the frame.
Releases(e) ==
    LET t == LastToken(e.tokens)
        frame == wk.cp.frames[t.frame]
    IN  t.branch \notin frame.arrived /\ frame.arrived \cup {t.branch} = frame.expected

\* A branch waits at the join, or has arrived before: its entry leaves the queue.
WaitAtJoin ==
    /\ Arriving /\ ~Releases(Current)
    /\ LET t == LastToken(Current.tokens)
       IN  Save([Drop(Here) EXCEPT !.frames[t.frame].arrived = @ \cup {t.branch}], "head", wk.seen)
    /\ UNCHANGED <<produced, joins, ran, runs, used>>

\* Faulty variant: the release is persisted without marking the entry.
OpenJoinUnmarked ==
    /\ Arriving /\ Releases(Current)
    /\ LET t == LastToken(Current.tokens)
           up == Parent(Current.tokens)
           cp == [Here EXCEPT !.frames[t.frame].arrived = @ \cup {t.branch}, !.ctx = Merge(Here, t.frame)]
       IN  IF status = "running"
           THEN /\ saved' = SaveScope(cp, up)
                /\ wk' = [pc |-> "work", seen |-> wk.seen \cup {Key(Current)},
                          cp |-> SaveScope([cp EXCEPT !.queue =
                              <<[Current EXCEPT !.tokens = up, !.joined = t.frame]>> \o Tail(@)], up)]
                /\ UNCHANGED <<status, job, asks>>
           ELSE Throw /\ UNCHANGED saved
    /\ UNCHANGED <<produced, joins, ran, runs, used>>

\* The last branch: the release and the marked join entry are persisted together.
OpenJoin ==
    /\ Arriving /\ Releases(Current)
    /\ LET t == LastToken(Current.tokens)
           up == Parent(Current.tokens)
           cp == [Here EXCEPT !.frames[t.frame].arrived = @ \cup {t.branch},
                              !.ctx = Merge(Here, t.frame),
                              !.queue = <<[Current EXCEPT !.tokens = up, !.joined = t.frame]>> \o Tail(@)]
       IN  Save(SaveScope(cp, up), "work", wk.seen \cup {Key(Current)})
    /\ UNCHANGED <<produced, joins, ran, runs, used>>

\* A task or subscription of this execution is open already: nothing to create.
ReuseAsk ==
    /\ Fresh /\ Kind[Current.node] \in {"operate", "timer", "message"} /\ OpenAsk(Current)
    /\ Save(Drop(Here), "head", wk.seen)
    /\ UNCHANGED <<produced, joins, ran, runs, used>>

\* A retried join is marked: it merges again and does not arrive again.
BeginNode ==
    /\ Fresh /\ ~Arriving
    /\ ~(Kind[Current.node] \in {"operate", "timer", "message"} /\ OpenAsk(Current))
    /\ LET cp == IF Current.joined = NoFrame THEN Here
                 ELSE [Here EXCEPT !.ctx = Merge(Here, Current.joined)]
       IN  Save(SaveScope(cp, Current.tokens), "work", wk.seen \cup {Key(Current)})
    /\ UNCHANGED <<produced, joins, ran, runs, used>>

\* An automatic node takes effect, and its node run is committed as a success.  A worker
\* that dies or throws before the checkpoint that follows leaves the node to the retry,
\* which finishes it again.
FinishNode ==
    /\ wk.pc = "work" /\ Kind[Current.node] \in {"auto", "join", "router", "end"}
    /\ wk' = [wk EXCEPT !.pc = "done"]
    /\ ran' = ran \cup {Current.node}
    /\ runs' = IF Current.joined \in Frame THEN [runs EXCEPT ![Current.joined] = @ + 1] ELSE runs
    /\ UNCHANGED <<status, job, saved, asks, produced, joins, used>>

\* The checkpoint behind a finished node: its output, and its successors queued.
RunNode ==
    LET e == Current
        done == [Drop(wk.cp) EXCEPT !.ctx = @ \cup {e.node}]
    IN  /\ wk.pc = "done" /\ Kind[e.node] \in {"auto", "join", "router", "end"}
        /\ Kind[e.node] = "router" => Unforked(wk.cp, e.node) # {}
        /\ \E next \in Routes[e.node] :
              LET cp == IF Kind[e.node] = "router" THEN Fork(done, e.node, next, e.tokens)
                        ELSE [done EXCEPT !.queue = @ \o Successors(next, e.tokens)]
              IN  Save(SaveScope(cp, e.tokens), "head", wk.seen)
        /\ produced' = produced \cup {e.node}
        /\ joins' = IF e.joined \in Frame THEN [joins EXCEPT ![e.joined] = @ + 1] ELSE joins
        /\ UNCHANGED <<ran, runs, used>>

\* The unique keys (run, node, execution key): a pool task's NULL assignee is not bound.
AskTaken(e) ==
    /\ ~(Kind[e.node] = "operate" /\ Pooled)
    /\ \E i \in DOMAIN asks : asks[i].node = e.node /\ asks[i].tokens = e.tokens

\* The artifact transaction commits task or subscription, and the waiting node run.
CreateAsk ==
    /\ wk.pc = "work" /\ Kind[Current.node] \in {"operate", "timer", "message"}
    /\ status = "running" /\ ~AskTaken(Current) /\ Len(asks) < MaxAsks
    /\ asks' = Append(asks, [node |-> Current.node, tokens |-> Current.tokens, pending |-> TRUE,
                             accepted |-> FALSE, status |-> "open"])
    /\ wk' = [wk EXCEPT !.pc = "asked"]
    /\ UNCHANGED <<status, job, saved, produced, joins, ran, runs, used>>

\* The insert is refused: a duplicate key, or the run is no longer this worker's.
RefuseAsk ==
    /\ wk.pc = "work" /\ Kind[Current.node] \in {"operate", "timer", "message"}
    /\ AskTaken(Current) \/ status # "running"
    /\ Throw
    /\ UNCHANGED <<saved, produced, joins, ran, runs, used>>

\* The branch stays behind; the segment goes on with the others.
LeaveBranch ==
    /\ wk.pc = "asked"
    /\ Save(Drop(wk.cp), "head", wk.seen)
    /\ UNCHANGED <<produced, joins, ran, runs, used>>

Outstanding == \E i \in DOMAIN asks : asks[i].status = "open" \/ asks[i].pending

\* A successful node run of an end; one whose worker threw before the checkpoint is marked
\* failed, and finished again before the queue is empty.
EndReached == \E n \in ran : Kind[n] = "end"

\* The queue is empty: wait for what is open or decided but not continued, succeed, or throw.
CloseSegment ==
    /\ wk.pc = "head" /\ wk.cp.queue = <<>>
    /\ \/ /\ Outstanding /\ status = "running"
          /\ status' = "waiting" /\ wk' = Idle /\ job' = [job EXCEPT !.state = "none"]
          /\ UNCHANGED <<saved, asks>>
       \/ /\ ~Outstanding /\ EndReached /\ status = "running"
          /\ status' = "success" /\ saved' = wk.cp
          /\ wk' = Idle /\ job' = [job EXCEPT !.state = "none"]
          /\ UNCHANGED asks
       \/ /\ status # "running" \/ (~Outstanding /\ ~EndReached)
          /\ Throw
          /\ UNCHANGED saved
    /\ UNCHANGED <<produced, joins, ran, runs, used>>

ThrowError ==
    /\ wk.pc # "idle" /\ used.errors < MaxErrors
    /\ used' = [used EXCEPT !.errors = @ + 1]
    /\ Throw
    /\ UNCHANGED <<saved, produced, joins, ran, runs>>

Crash ==
    /\ wk.pc # "idle" /\ used.crashes < MaxCrashes
    /\ used' = [used EXCEPT !.crashes = @ + 1]
    /\ wk' = Idle
    /\ UNCHANGED <<status, job, saved, asks, produced, joins, ran, runs>>

\* A lapsed final attempt fails the run.
ReconcileExhausted ==
    /\ wk.pc = "idle" /\ status = "running" /\ job.attempt >= MaxAttempts
    /\ Throw
    /\ UNCHANGED <<saved, produced, joins, ran, runs, used>>

-----------------------------------------------------------------------------
(* Decisions, messages and timers, and the reconcilers behind them.        *)

\* Faulty variant: the successors are queued on the path around the frame.
ExtendOutside(cp, i, next) ==
    LET a == asks[i]
        here == [Activate(cp, a.tokens) EXCEPT !.ctx = @ \cup {a.node}]
    IN  [SaveScope(here, a.tokens) EXCEPT !.queue = @ \o Successors(next, Parent(a.tokens))]

\* completeCurrentHumanCheckpoint drops the creator's own entry if it is still the head;
\* resumeParallelCheckpoint appends the successors with the branch's tokens.
Extend(cp, i, next) ==
    LET a == asks[i]
        current == /\ Kind[a.node] = "operate" /\ cp.queue # <<>>
                   /\ Head(cp.queue).node = a.node /\ Head(cp.queue).tokens = a.tokens
        without == IF current THEN Drop(cp) ELSE cp
        here == [Activate(without, a.tokens) EXCEPT !.ctx = @ \cup {a.node}]
    IN  [SaveScope(here, a.tokens) EXCEPT !.queue = @ \o Successors(next, a.tokens)]

\* Node run, context, run and continuation job commit together.
Continue(i, answer) ==
    /\ asks' = [asks EXCEPT ![i].status = answer, ![i].pending = FALSE]
    /\ produced' = produced \cup {asks[i].node}
    /\ IF answer = "rejected" /\ asks[i].node \in Legacy
       THEN status' = "cancelled" /\ UNCHANGED <<job, saved>>
       ELSE /\ status' = "queued" /\ job' = [state |-> "queued", attempt |-> 0]
            /\ \E next \in Routes[asks[i].node] : saved' = Extend(saved, i, next)
    /\ UNCHANGED <<wk, joins, ran, runs, used>>

IsOpen(i, kinds) == asks[i].status = "open" /\ Kind[asks[i].node] \in kinds

\* resumeWorkflowTask: a decision that finds the run queued or running is only recorded.
Decide(i, answer) ==
    /\ IsOpen(i, {"operate"})
    /\ \/ status = "waiting" /\ Continue(i, answer)
       \/ /\ status \in {"queued", "running"}
          /\ asks' = [asks EXCEPT ![i].status = answer]
          /\ UNCHANGED <<status, job, saved, wk, produced, joins, ran, runs, used>>

\* Faulty variant: the reconciler skips rejections.
ReconcileApproval(i) ==
    /\ asks[i].status = "approved" /\ asks[i].pending /\ status = "waiting"
    /\ Continue(i, asks[i].status)

\* reconcileWorkflowContinuations; its ten seconds of grace only delay it.
ReconcileDecision(i) ==
    /\ asks[i].status \in Decided /\ asks[i].pending /\ status = "waiting"
    /\ Continue(i, asks[i].status)

\* signalWorkflowMessage: accepted and deferred while the run is busy; a second is refused.
Signal(i) ==
    /\ IsOpen(i, {"message"}) /\ ~asks[i].accepted
    /\ \/ status = "waiting" /\ Continue(i, "fired")
       \/ /\ status \in {"queued", "running"}
          /\ asks' = [asks EXCEPT ![i].accepted = TRUE]
          /\ UNCHANGED <<status, job, saved, wk, produced, joins, ran, runs, used>>

\* reconcileDueWorkflowWaits, for an accepted message ...
DeliverAccepted(i) ==
    /\ IsOpen(i, {"message"}) /\ asks[i].accepted /\ status = "waiting"
    /\ Continue(i, "fired")

\* ... and for a timer, whenever it is due.
FireTimer(i) == IsOpen(i, {"timer"}) /\ status = "waiting" /\ Continue(i, "fired")

Pause ==
    /\ status \in {"queued", "waiting"} /\ used.pauses < MaxPauses
    /\ status' = "blocked" /\ job' = [job EXCEPT !.state = "none"]
    /\ used' = [used EXCEPT !.pauses = @ + 1]
    /\ UNCHANGED <<saved, wk, asks, produced, joins, ran, runs>>

AnyOpen == \E i \in DOMAIN asks : asks[i].status = "open"

\* resumeWorkflowRun: nothing open and nothing queued is refused with an error.
Resume ==
    /\ status = "blocked"
    /\ IF saved.queue # <<>> THEN status' = "queued" /\ job' = [state |-> "queued", attempt |-> 0]
       ELSE AnyOpen /\ status' = "waiting" /\ UNCHANGED job
    /\ UNCHANGED <<saved, wk, asks, produced, joins, ran, runs, used>>

Stop ==
    /\ status \notin Terminal
    /\ status' = "cancelled"
    /\ asks' = [i \in DOMAIN asks |-> IF asks[i].status = "open"
                                      THEN [asks[i] EXCEPT !.status = "cancelled"] ELSE asks[i]]
    /\ job' = [job EXCEPT !.state = "none"]
    /\ UNCHANGED <<saved, wk, produced, joins, ran, runs, used>>

-----------------------------------------------------------------------------
WorkerStep ==
    \/ SkipRepeated \/ WaitAtJoin \/ OpenJoin \/ ReuseAsk \/ BeginNode \/ FinishNode \/ RunNode
    \/ CreateAsk \/ RefuseAsk \/ LeaveBranch \/ CloseSegment

Reconcile == \/ ReconcileExhausted
             \/ \E i \in DOMAIN asks : ReconcileDecision(i) \/ DeliverAccepted(i)

Next ==
    \/ Claim \/ WorkerStep \/ ThrowError \/ Crash \/ Reconcile
    \/ \E i \in DOMAIN asks : \/ \E answer \in Decided : Decide(i, answer)
                              \/ Signal(i) \/ FireTimer(i)
    \/ Pause \/ Resume \/ Stop

Spec == Init /\ [][Next]_vars

\* The worker polls, steps its job and runs the reconcilers; people and timers need not act.
FairSpec == Spec /\ WF_vars(Claim) /\ WF_vars(WorkerStep) /\ WF_vars(Reconcile)

-----------------------------------------------------------------------------
(* Properties.                                                             *)

Holds(tokens, t) == \E i \in DOMAIN tokens : tokens[i] = t
InFrame(tokens, f) == \E i \in DOMAIN tokens : tokens[i].frame = f
Carried(cp, t) == \/ \E i \in DOMAIN cp.queue : Holds(cp.queue[i].tokens, t)
                  \/ \E i \in DOMAIN asks : asks[i].pending /\ Holds(asks[i].tokens, t)

\* No branch is lost: until it arrives at its join, a branch that was dispatched is in the
\* persisted queue, or behind a task or wait whose node run still waits, whatever crashed,
\* was retried, paused or answered early (persistCheckpoint, resumeParallelCheckpoint).
BranchesCarried ==
    status \notin Terminal =>
        \A f \in Frame : \A b \in saved.frames[f].expected \ saved.frames[f].arrived :
            Carried(saved, [frame |-> f, branch |-> b])

\* A released join is pending exactly once, or a checkpoint has followed it exactly once,
\* even if the worker dies between the release and that checkpoint (the comment at
\* prepareParallelJoin).  A worker that dies or throws between the join's node run and that
\* checkpoint has it finished again: at most once more per fault, and never without one.
JoinRunsOnce ==
    \A f \in Frame :
        LET marked == {i \in DOMAIN saved.queue : saved.queue[i].joined = f}
        IN  /\ \A i, k \in marked : i = k
            /\ Released(saved, f) /\ status \notin Terminal =>
                  (joins[f] = 0 <=> marked # {}) /\ joins[f] <= 1
            /\ runs[f] <= 1 + used.crashes + used.errors

\* Once a join has been released, nothing of its frame is left behind it: no queued entry, no
\* open task or wait, no decision still to be continued (arriveParallelBarrier).
JoinLeavesNothing ==
    \A f \in Frame : joins[f] > 0 \/ (\E i \in DOMAIN saved.queue : saved.queue[i].joined = f) =>
        /\ saved.frames[f].arrived = saved.frames[f].expected
        /\ \A i \in DOMAIN saved.queue : ~InFrame(saved.queue[i].tokens, f)
        /\ \A i \in DOMAIN asks : asks[i].pending => ~InFrame(asks[i].tokens, f)

\* The final context of a successful run holds the output of every node that succeeded, in
\* whatever order the branches were executed, left, answered and merged (mergeParallelScope).
OutputsMerged == status = "success" => produced \cup ran \subseteq saved.ctx

\* The depth at which the successors of a node run: a router opens a frame, a join closes it.
After(depth, n) == IF Kind[n] = "router" THEN depth[n] + 1
                   ELSE IF Kind[n] = "join" THEN depth[n] - 1 ELSE depth[n]

\* The shape the properties above need of a definition: no way leads backwards (rank), the
\* frames nest (depth), a router's branches are different nodes, and inside a frame a node
\* selects exactly one successor.
WellNested(depth, rank) ==
    /\ depth[StartNode] = 0
    /\ \A n \in Nodes : Kind[n] = "join" => depth[n] > 0
    /\ \A n \in Nodes : \A next \in Routes[n] :
          /\ \A i \in DOMAIN next : rank[next[i]] > rank[n] /\ depth[next[i]] = After(depth, n)
          /\ Kind[n] = "router" => next # <<>> /\ \A i, k \in DOMAIN next : next[i] = next[k] => i = k
          /\ Kind[n] # "router" /\ After(depth, n) > 0 => Len(next) = 1

\* What OutputsMerged needs besides: behind a split without a router, among the late nodes, no
\* frame is opened or joined any more.
SplitsLate(late) ==
    /\ \A n \in late : Kind[n] \notin {"router", "join"}
    /\ \A n \in Nodes : \A next \in Routes[n] :
          n \in late \/ (Kind[n] # "router" /\ Len(next) > 1) => \A i \in DOMAIN next : next[i] \in late

\* Recorded while the run was busy, and not continued yet.
Undelivered(i) ==
    /\ i \in DOMAIN asks
    /\ \/ asks[i].status \in Decided /\ asks[i].pending
       \/ asks[i].status = "open" /\ asks[i].accepted

\* A decision or message taken while the run was busy is in the end continued, unless the
\* run ends or is paused: the reconcilers join it once the worker has released the run, also when another
\* branch was resumed first (the comment in resumeWorkflowTask, reconcileDueWorkflowWaits).
AnswersContinued ==
    \A i \in 1..MaxAsks : Undelivered(i) ~> (status \in Terminal \cup {"blocked"} \/ ~Undelivered(i))

\* A paused run can be resumed: there is something to wait for or something to execute.
PausedResumable == status = "blocked" => AnyOpen \/ saved.queue # <<>>

\* A completed decision is durable: no run fails with a decision it never continued.
DecisionDurable == status = "failed" =>
    \A i \in DOMAIN asks : ~Undelivered(i)
=============================================================================
