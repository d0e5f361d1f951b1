----------------------------- MODULE TaskSchedule -----------------------------
(***************************************************************************)
(* Reminder, due and escalation notices of human tasks: the rows of        *)
(* workflow_task_schedule and the alerts the worker makes of them, while   *)
(* members decide, hand over, add and remove each other, turns pass, and   *)
(* the run is queued, retried, paused, resumed and stopped.  Every action  *)
(* is one transaction or one statement, but a decision in order reads who  *)
(* comes next before its transaction holds any lock (ReadNext), and an     *)
(* administrator may reassign a task meanwhile.  A poll first cancels what *)
(* it takes for obsolete and then fires one row per transaction, keeping   *)
(* nothing in between, so that any number of workers is covered.  Accounts *)
(* are disabled and enabled at any time, so whether the handlers of a task *)
(* are disabled when it is reassigned is left open.  What votes mean is    *)
(* the subject of ApprovalGroup, how a run executes that of WorkflowRun.   *)
(***************************************************************************)
EXTENDS Naturals, FiniteSets

CONSTANTS
    Members,        \* number of tasks; a task is its place in approvalOrder
    Groups,         \* approval groups, or single tasks
    Group,          \* [task -> its group]
    Mode,           \* [group -> "single", "joint" or "sequential"]
    Holders,        \* [task -> assignee or candidates; none for one added later]
    Users, NoUser,
    Owner,          \* owner of the workflow, told of escalations
    Events,         \* the events with a configured delay
    Parallel,       \* the tasks belong to branches of a parallel router
    MaxMoves,       \* bound: handovers, reassignments, additions and removals
    MaxStops        \* bound: pauses, and executions that throw or lapse and are tried again

Tasks == 1..Members

ASSUME ScheduleAssumption ==
    /\ Members \in Nat \ {0} /\ Group \in [Tasks -> Groups]
    /\ Mode \in [Groups -> {"single", "joint", "sequential"}]
    /\ Holders \in [Tasks -> SUBSET Users]
    /\ Owner \in Users /\ NoUser \notin Users
    /\ Events \subseteq {"reminder", "due", "escalation"} /\ Parallel \in BOOLEAN

VARIABLES
    tasks,          \* workflow_task rows; operable: an operation is granted to its holders
    plan,           \* workflow_task_schedule: [task -> [event -> [recipient -> status]]]
    alerts,         \* workflow_run_alert: how often each was told of each event
    run,            \* workflow_run: status, and whether its execution queue has entries
    answered,       \* decided groups of a parallel run that are not continued yet
    read,           \* what a decision in order has read before it holds a lock, by task
    seen,           \* history: turns each user has had at a task; tasks whose notices were
                    \* cancelled while open, tasks called upon, and those called for a former holder
    used            \* how much of each bound has been spent

vars == <<tasks, plan, alerts, run, answered, read, seen, used>>

Open == {"pending", "claimed"}
\* A scheduled row whose fireAt has passed is called due.
Live == {"scheduled", "due"}
Active == {"running", "waiting"}

TypeOK ==
    /\ tasks \in [Tasks -> [status : Open \cup {"none", "completed", "cancelled"},
                            holders : SUBSET Users, claimer : Users \cup {NoUser}, operable : BOOLEAN]]
    /\ plan \in [Tasks -> [Events -> [Users -> Live \cup {"none", "fired", "cancelled"}]]]
    /\ alerts \in [Tasks -> [Events -> [Users -> Nat]]]
    /\ run \in [status : Active \cup {"queued", "blocked", "ended"}, queue : BOOLEAN]
    /\ answered \subseteq Groups
    /\ read \in [Tasks -> [by : Users \cup {NoUser}, next : SUBSET Tasks, holders : SUBSET Users]]
    /\ seen \in [turns : [Tasks -> [Users -> Nat]], missed : SUBSET Tasks,
                  called : SUBSET Tasks, astray : SUBSET Tasks]
    /\ used \in [moves : Nat, stops : Nat]

NoRead == [by |-> NoUser, next |-> {}, holders |-> {}]

Init ==
    /\ tasks = [t \in Tasks |-> [status |-> "none", holders |-> {}, claimer |-> NoUser, operable |-> FALSE]]
    /\ plan = [t \in Tasks |-> [e \in Events |-> [u \in Users |-> "none"]]]
    /\ alerts = [t \in Tasks |-> [e \in Events |-> [u \in Users |-> 0]]]
    /\ run = [status |-> "queued", queue |-> TRUE]
    /\ answered = {}
    /\ read = [t \in Tasks |-> NoRead]
    /\ seen = [turns |-> [t \in Tasks |-> [u \in Users |-> 0]], missed |-> {}, called |-> {}, astray |-> {}]
    /\ used = [moves |-> 0, stops |-> 0]

MembersOf(g) == {t \in Tasks : Group[t] = g}
OpenTasks == {t \in Tasks : tasks[t].status \in Open}
Recipients(e, holders) == IF e = "escalation" THEN holders \cup {Owner} ELSE holders
Given(turns, t, users) == [turns EXCEPT ![t] = [u \in Users |-> @[u] + IF u \in users THEN 1 ELSE 0]]

(***************************************************************************)
(* Writes to the rows of one task.                                         *)
(***************************************************************************)
\* SET status='cancelled' WHERE taskId=? AND status='scheduled'
Cancelled(rows) ==
    [e \in Events |-> [u \in Users |-> IF rows[e][u] \in Live THEN "cancelled" ELSE rows[e][u]]]

CancelPlans(closed) == [t \in Tasks |-> IF t \in closed THEN Cancelled(plan[t]) ELSE plan[t]]

\* Faulty variant: a row that was sent is scheduled again.
PlannedAgain(rows, holders) ==
    [e \in Events |-> [u \in Users |->
        IF rows[e][u] \in {"none", "fired"} /\ u \in Recipients(e, holders) THEN "scheduled" ELSE rows[e][u]]]

\* INSERT ... ON DUPLICATE KEY UPDATE id=id: a row that is there stays as it is.
Planned(rows, holders) ==
    [e \in Events |-> [u \in Users |->
        IF rows[e][u] = "none" /\ u \in Recipients(e, holders) THEN "scheduled" ELSE rows[e][u]]]

LiveOf(rows, e) == {rows[e][u] : u \in Users} \cap Live

\* Faulty variant: only the target gets rows; the previous holders keep theirs.
MovedAndKept(rows, previous, target, at) ==
    [e \in Events |-> [u \in Users |->
        IF u = target /\ LiveOf(rows, e) # {} THEN at[e] ELSE rows[e][u]]]

\* Faulty variant: a row the target had before stays as it is.
MovedIfNew(rows, previous, target, at) ==
    [e \in Events |-> [u \in Users |->
        IF u = target /\ LiveOf(rows, e) # {} THEN (IF rows[e][u] = "none" THEN at[e] ELSE rows[e][u])
        ELSE IF u \in previous /\ rows[e][u] \in Live /\ ~(e = "escalation" /\ u = Owner) THEN "cancelled"
        ELSE rows[e][u]]]

\* moveScheduledTaskNotifications: the target takes over each event some row of which is live,
\* also where it had a row already; the owner keeps an escalation.
Moved(rows, previous, target, at) ==
    [e \in Events |-> [u \in Users |->
        IF u = target /\ LiveOf(rows, e) # {} THEN at[e]
        ELSE IF u \in previous /\ rows[e][u] \in Live /\ ~(e = "escalation" /\ u = Owner) THEN "cancelled"
        ELSE rows[e][u]]]

\* copyScheduledTaskNotifications
Copied(rows, target, at) ==
    [e \in Events |-> [u \in Users |->
        IF u \in Recipients(e, {target}) /\ LiveOf(rows, e) # {} THEN at[e] ELSE "none"]]

\* The first row of each event gives the time: that of any live row here.
Times(rows) == {at \in [Events -> Live] : \A e \in Events : LiveOf(rows, e) # {} => at[e] \in LiveOf(rows, e)}

(***************************************************************************)
(* The run, as far as it decides about notices.                            *)
(***************************************************************************)
Start ==
    /\ run.status = "queued"
    /\ run' = [run EXCEPT !.status = "running"]
    /\ UNCHANGED <<tasks, plan, alerts, answered, read, seen, used>>

\* In order, only the first member may act; the others get their rows with their turn.
First(g) == CHOOSE t \in MembersOf(g) : \A m \in MembersOf(g) : t <= m
MayAct(t) == Mode[Group[t]] # "sequential" \/ t = First(Group[t])

CreateTasks(g) ==
    LET new == {t \in MembersOf(g) : Holders[t] # {}}
        first == {t \in new : MayAct(t)}
    IN  /\ run.status = "running" /\ new # {} /\ \A t \in MembersOf(g) : tasks[t].status = "none"
        /\ tasks' = [t \in Tasks |-> IF t \notin new THEN tasks[t]
               ELSE [status |-> "pending", holders |-> Holders[t], claimer |-> NoUser, operable |-> MayAct(t)]]
        /\ plan' = [t \in Tasks |-> IF t \in first THEN Planned(plan[t], Holders[t]) ELSE plan[t]]
        /\ seen' = [seen EXCEPT !.called = @ \cup first,
                                !.turns = [t \in Tasks |->
               [u \in Users |-> IF t \in new /\ u \in Holders[t] THEN 1 ELSE @[t][u]]]]
        /\ UNCHANGED <<alerts, run, answered, read, used>>

\* A segment ends: the run waits for what is open or decided, or has nothing left to do.
Park ==
    /\ run.status = "running"
    /\ run' = IF OpenTasks # {} \/ answered # {} THEN [status |-> "waiting", queue |-> FALSE]
              ELSE [status |-> "ended", queue |-> FALSE]
    /\ UNCHANGED <<tasks, plan, alerts, answered, read, seen, used>>

\* retryJob: the run is queued again from its checkpoint.
Retry ==
    /\ run.status = "running" /\ used.stops < MaxStops
    /\ run' = [run EXCEPT !.status = "queued"]
    /\ used' = [used EXCEPT !.stops = @ + 1]
    /\ UNCHANGED <<tasks, plan, alerts, answered, read, seen>>

Pause ==
    /\ run.status \in {"queued", "waiting"} /\ used.stops < MaxStops
    /\ run' = [run EXCEPT !.status = "blocked"]
    /\ used' = [used EXCEPT !.stops = @ + 1]
    /\ UNCHANGED <<tasks, plan, alerts, answered, read, seen>>

\* resumeWorkflowRun: the rows are not looked at.
Resume ==
    /\ run.status = "blocked"
    /\ \/ OpenTasks # {} /\ ~(run.queue /\ Parallel) /\ run' = [run EXCEPT !.status = "waiting"]
       \/ run.queue /\ (Parallel \/ OpenTasks = {}) /\ run' = [run EXCEPT !.status = "queued"]
    /\ UNCHANGED <<tasks, plan, alerts, answered, read, seen, used>>

CloseTasks(closed) == [t \in Tasks |-> IF t \in closed THEN [tasks[t] EXCEPT !.status = "cancelled"] ELSE tasks[t]]

\* Stopping by a command, or failure after the last attempt.
EndRun ==
    /\ run.status # "ended"
    /\ run' = [status |-> "ended", queue |-> FALSE]
    /\ tasks' = CloseTasks(OpenTasks)
    /\ plan' = CancelPlans(Tasks)
    /\ UNCHANGED <<alerts, answered, read, seen, used>>

(***************************************************************************)
(* People.                                                                 *)
(***************************************************************************)
\* isCurrentTaskOwner
IsOwner(u, t) == \/ tasks[t].status = "claimed" /\ tasks[t].claimer = u
                 \/ tasks[t].status = "pending" /\ u \in tasks[t].holders
RunActionable == run.status \in Active \/ (Parallel /\ run.status = "queued")

\* In order, a task is claimed only after all earlier members signed or were removed.
Turn(t) == Mode[Group[t]] = "sequential" =>
               \A m \in MembersOf(Group[t]) : m < t => tasks[m].status \notin Open

\* The turn and the run's status were tested on an earlier read; closed tasks stay closed.
Claim(u, t) ==
    /\ tasks[t].status = "pending" /\ IsOwner(u, t) /\ tasks[t].operable /\ Turn(t)
    /\ tasks' = [tasks EXCEPT ![t].status = "claimed", ![t].claimer = u]
    /\ UNCHANGED <<plan, alerts, run, answered, read, seen, used>>

Return(t) ==
    /\ tasks[t].status = "claimed"
    /\ tasks' = [tasks EXCEPT ![t].status = "pending", ![t].claimer = NoUser]
    /\ UNCHANGED <<plan, alerts, run, answered, read, seen, used>>

\* resumeWorkflowTask's first read, which fixes what its transaction sees of the tasks it does
\* not lock: the first pending member and who holds that task.
ReadNext(t) ==
    LET pending == {m \in MembersOf(Group[t]) : tasks[m].status = "pending"}
        next == {m \in pending : \A k \in pending : m <= k}
    IN  /\ Mode[Group[t]] = "sequential" /\ tasks[t].status = "claimed"
        /\ read' = [read EXCEPT ![t] = [by |-> tasks[t].claimer, next |-> next,
                                        holders |-> UNION {tasks[m].holders : m \in next}]]
        /\ UNCHANGED <<tasks, plan, alerts, run, answered, seen, used>>

\* The decision does not settle the vote: in order, the member read as the next one is granted
\* the operation and planned for, as whoever held that task then.
Undecided(t, others) ==
    LET next == read[t].next
        former == {m \in next : tasks[m].holders # read[t].holders}
    IN  /\ others # {}
        /\ tasks' = [m \in Tasks |-> IF m = t THEN [tasks[m] EXCEPT !.status = "completed"]
                                     ELSE IF m \in next \ former THEN [tasks[m] EXCEPT !.operable = TRUE]
                                     ELSE tasks[m]]
        /\ plan' = [m \in Tasks |-> IF m = t THEN Cancelled(plan[m])
                                    ELSE IF m \in next THEN Planned(plan[m], read[t].holders) ELSE plan[m]]
        /\ seen' = [seen EXCEPT !.called = @ \cup next, !.astray = @ \cup former]
        /\ UNCHANGED <<run, answered>>

\* The decision settles the vote: the others' tasks are cancelled, and the run goes on, ends
\* by a rejection without a branch of its own, or is continued later.
Settled(t, others) ==
    /\ tasks' = [CloseTasks(others) EXCEPT ![t].status = "completed"]
    /\ plan' = CancelPlans(others \cup {t})
    /\ UNCHANGED seen
    /\ IF Parallel /\ run.status # "waiting"
       THEN answered' = answered \cup {Group[t]} /\ UNCHANGED run
       ELSE UNCHANGED answered /\ run' \in {[status |-> "queued", queue |-> TRUE], [status |-> "ended", queue |-> FALSE]}

Decide(t) ==
    LET others == (OpenTasks \cap MembersOf(Group[t])) \ {t}
    IN  /\ tasks[t].status = "claimed" /\ RunActionable
        /\ Mode[Group[t]] = "sequential" => read[t].by = tasks[t].claimer
        /\ Undecided(t, others) \/ Settled(t, others)
        /\ read' = [read EXCEPT ![t] = NoRead]
        /\ UNCHANGED <<alerts, used>>

\* reconcileWorkflowContinuations
Continue(g) ==
    /\ g \in answered /\ run.status = "waiting"
    /\ answered' = answered \ {g}
    /\ run' \in {[status |-> "queued", queue |-> TRUE], [status |-> "ended", queue |-> FALSE]}
    /\ UNCHANGED <<tasks, plan, alerts, read, seen, used>>

MoveLeft == used.moves < MaxMoves /\ used' = [used EXCEPT !.moves = @ + 1]
Alone(target, g, but) == \A m \in MembersOf(g) \ {but} : target \notin tasks[m].holders

\* The task changes hands, under the locks of the run, the group and the task.
Move(t, target) ==
    LET previous == tasks[t].holders \ {target}
    IN  /\ RunActionable /\ MoveLeft /\ Alone(target, Group[t], t)
        /\ tasks' = [tasks EXCEPT ![t] = [status |-> "pending", holders |-> {target}, claimer |-> NoUser,
                                          operable |-> TRUE]]
        /\ \E at \in Times(plan[t]) : plan' = [plan EXCEPT ![t] = Moved(@, previous, target, at)]
        /\ seen' = [seen EXCEPT !.turns = Given(@, t, {target})]
        /\ UNCHANGED <<alerts, run, answered, read>>

Handover(u, t, target) ==
    IsOwner(u, t) /\ tasks[t].operable /\ target # u /\ Move(t, target)

\* reassignWorkflowTask: an administrator replaces disabled handlers, also before the turn; the
\* target may act at once where no turn is tested.
Reassign(t, target) ==
    t \in OpenTasks /\ ~IsOwner(target, t) /\ Move(t, target)

\* addWorkflowTaskSigner: the rows are copied also where the new member must wait for the turn.
AddSigner(u, t, new, target) ==
    /\ Mode[Group[t]] # "single" /\ IsOwner(u, t) /\ tasks[t].operable /\ MoveLeft
    /\ Group[new] = Group[t] /\ Holders[new] = {} /\ tasks[new].status = "none"
    /\ Alone(target, Group[t], new)
    /\ tasks' = [tasks EXCEPT ![new] = [status |-> "pending", holders |-> {target}, claimer |-> NoUser,
                                        operable |-> Mode[Group[t]] # "sequential"]]
    /\ \E at \in Times(plan[t]) : plan' = [plan EXCEPT ![new] = Copied(plan[t], target, at)]
    /\ seen' = [seen EXCEPT !.turns = Given(@, new, {target}),
                            !.missed = @ \cup (IF t \in @ THEN {new} ELSE {}),
                            !.called = @ \cup (IF t \in @ THEN {new} ELSE {}),
                            !.astray = @ \cup (IF t \in @ THEN {new} ELSE {})]
    /\ UNCHANGED <<alerts, run, answered, read>>

RemoveSigner(u, t, member) ==
    /\ Mode[Group[t]] # "single" /\ t # member /\ IsOwner(u, t) /\ tasks[t].operable /\ MoveLeft
    /\ Group[member] = Group[t] /\ tasks[member].status = "pending"
    /\ tasks' = CloseTasks({member})
    /\ plan' = CancelPlans({member})
    /\ UNCHANGED <<alerts, run, answered, read, seen>>

(***************************************************************************)
(* The worker's poll and time.                                             *)
(***************************************************************************)
\* Faulty variant: a task of a finished run counts as open.
ObsoleteByTask(t) == tasks[t].status \notin Open

\* The task is closed, or the run is not running or waiting at this moment.
Obsolete(t) == tasks[t].status \notin Open \/ run.status \notin Active

LivePlan(t) == \E e \in Events : LiveOf(plan[t], e) # {}

CancelObsolete ==
    LET hit == {t \in Tasks : Obsolete(t) /\ LivePlan(t)}
    IN  /\ hit # {}
        /\ plan' = CancelPlans(hit)
        /\ seen' = [seen EXCEPT !.missed = @ \cup (hit \cap OpenTasks)]
        /\ UNCHANGED <<tasks, alerts, run, answered, read, used>>

Fire(t, e, u) ==
    /\ plan[t][e][u] = "due" /\ t \in OpenTasks /\ run.status \in Active
    /\ plan' = [plan EXCEPT ![t][e][u] = "fired"]
    /\ alerts' = [alerts EXCEPT ![t][e][u] = @ + 1]
    /\ UNCHANGED <<tasks, run, answered, read, seen, used>>

\* fireAt passes; a reminder comes no later than the other events (the node's contract).
FallDue(t, e) ==
    /\ "scheduled" \in LiveOf(plan[t], e)
    /\ e # "reminder" /\ "reminder" \in Events => "scheduled" \notin LiveOf(plan[t], "reminder")
    /\ plan' = [plan EXCEPT ![t][e] = [u \in Users |-> IF @[u] = "scheduled" THEN "due" ELSE @[u]]]
    /\ UNCHANGED <<tasks, alerts, run, answered, read, seen, used>>

Next ==
    \/ Start \/ Park \/ Retry \/ Pause \/ Resume \/ EndRun \/ CancelObsolete
    \/ \E g \in Groups : CreateTasks(g) \/ Continue(g)
    \/ \E t \in Tasks : Return(t) \/ ReadNext(t) \/ Decide(t) \/ (\E target \in Users : Reassign(t, target))
    \/ \E t \in Tasks, e \in Events : FallDue(t, e) \/ (\E u \in Users : Fire(t, e, u))
    \/ \E u \in Users, t \in Tasks :
         \/ Claim(u, t)
         \/ \E target \in Users : Handover(u, t, target) \/ \E new \in Tasks : AddSigner(u, t, new, target)
         \/ \E member \in Tasks : RemoveSigner(u, t, member)

Spec == Init /\ [][Next]_vars

\* The poll timer: obsolete rows are cancelled and due ones fired.
FairSpec ==
    /\ Spec
    /\ WF_vars(CancelObsolete)
    /\ WF_vars(\E t \in Tasks, e \in Events, u \in Users : Fire(t, e, u))

-----------------------------------------------------------------------------
\* An open task's notices go to those who hold it now, and an escalation to the owner too,
\* however often it was handed over or reassigned (moveScheduledTaskNotifications) - unless its
\* turn was passed by a decision that had read it before it was reassigned.
NoticesFollowHolders ==
    \A t \in OpenTasks \ seen.astray, e \in Events, u \in Users :
        plan[t][e][u] \in Live => u \in Recipients(e, tasks[t].holders)

\* Nobody is told of the same event of a task more often than the task came to them, the
\* owner once more: a row may be scheduled anew (ON DUPLICATE KEY UPDATE) but not repeated.
ToldOnce ==
    \A t \in Tasks, e \in Events, u \in Users :
        alerts[t][e][u] <= seen.turns[t][u] + (IF e = "escalation" /\ u = Owner THEN 1 ELSE 0)

Told(t, e) == \E m \in Tasks, u \in Users :
    /\ m = t \/ (Holders[t] = {} /\ Group[m] = Group[t])
    /\ alerts[m][e][u] > 0

Kept(t) == \A e \in Events : Told(t, e) \/ \A u \in tasks[t].holders : plan[t][e][u] \in Live

\* A task that was called upon, at creation, with its turn or as a copy of one that was, keeps a
\* notice of every event for all who hold it until one is sent - unless a poll met the run while
\* it was not running or waiting, or the turn went to a former holder.
NoticesKept ==
    \A t \in OpenTasks \cap seen.called : t \in seen.missed \cup seen.astray \/ Kept(t)

\* Due notices do not pile up: again and again every one of them has been sent or cancelled.
NoticesEnd == []<>(\A t \in Tasks, e \in Events, u \in Users : plan[t][e][u] # "due")

\* A notice is planned only for a task that can be acted upon now
\* (workflow-task-schedule.test.ts:41).
PlannedOnTurn == \A t \in OpenTasks : LivePlan(t) => tasks[t].operable

\* A task's notices are cancelled only once the task is closed
\* (workflow-task-schedule.test.ts:56).
CancelledAtEnd == seen.missed = {}
===============================================================================
