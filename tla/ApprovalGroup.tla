----------------------------- MODULE ApprovalGroup -----------------------------
(***************************************************************************)
(* One approval group of a human task (workflow_task_group): several people*)
(* sign the same operation, any one of them, a share of them, or all of    *)
(* them in order.  Members decide, return, hand over, add and remove one   *)
(* another, and an administrator reassigns the task of a deactivated       *)
(* account, all at once.                                                   *)
(*                                                                         *)
(* A request first reads the task and checks it without a lock (Open...),  *)
(* then runs one transaction that locks and tests again (Answer).  The run *)
(* is outside a parallel branch; "waiting" stands for running or waiting,  *)
(* and "done" for a run that went on, was rejected or was stopped.         *)
(* Members are tasks 1..Len, in approvalOrder, which an added signer       *)
(* continues.                                                              *)
(***************************************************************************)
EXTENDS Naturals, Sequences, FiniteSets

CONSTANTS
    Users,          \* accounts with the right to run the workflow
    NoUser,         \* not an account
    Forms,          \* configurations of the operation, see Form
    Sessions,       \* requests that can be in flight at once
    MaxTasks,       \* bound: member tasks, removed ones included
    MaxMoves,       \* bound: hand-backs and handovers
    MaxMembers,     \* bound: memberVersion of the group, reassignments included
    MaxInactive,    \* bound: accounts deactivated
    MaxPauses,      \* bound: pauses and stops of the run
    MaxEvents       \* bound, by form: all of these together

SignModes == {"orSignFor", "andSignFor", "sequentialSignFor"}
Members == 1..MaxTasks

\* How a group is created: its members in order, workflow_task_group.signMode and
\* passPercentBasisPoints (Math.round(passPercent * 10000)), and whether the operation has no
\* outcome branches, so that a rejection cancels the run.
Form == [signers : Seq(Users), mode : SignModes, percent : 0..10000, legacy : BOOLEAN]

ASSUME GroupAssumption ==
    /\ NoUser \notin Users
    /\ \A form \in Forms :
          /\ form \in Form /\ Len(form.signers) \in Members
          /\ \A i, j \in 1..Len(form.signers) : i # j => form.signers[i] # form.signers[j]

ASSUME BoundAssumption ==
    /\ MaxTasks \in Nat \ {0} /\ MaxMoves \in Nat /\ MaxMembers \in Nat
    /\ MaxInactive \in Nat /\ MaxPauses \in Nat
    /\ MaxEvents \in [Forms -> Nat]

VARIABLES
    form,           \* what the group was created with
    tasks,          \* the workflow_task rows of the group
    group,          \* the workflow_task_group row
    run,            \* status of the run
    jobs,           \* resume jobs inserted for the group
    ops,            \* workflow_participant_state.availableOperationsJson, by user
    active,         \* accounts whose status is active
    req,            \* the request each session has in flight
    used            \* how much of each bound has been spent, and members removed

vars == <<form, tasks, group, run, jobs, ops, active, req, used>>

Decisions == {"approved", "rejected", "abstained"}
OpenStatuses == {"pending", "claimed"}
NoRequest == [op |-> "none"]
NoTask == [status |-> "absent", assigned |-> NoUser, claimedBy |-> NoUser,
           version |-> 0, decision |-> "none"]
NewTask(user) == [NoTask EXCEPT !.status = "pending", !.assigned = user]

TaskRecord == [status : OpenStatuses \cup {"completed", "cancelled"}, assigned : Users,
               claimedBy : Users \cup {NoUser}, version : Nat,
               decision : Decisions \cup {"none"}] \cup {NoTask}

\* What a request carries: what it read of the task and, to change the members, of the group.
\* Fields a request does not need are left at fixed values.
Request(op, user, t) ==
    [op |-> op, user |-> user, task |-> t, target |-> NoUser, member |-> t,
     version |-> IF op = "complete" THEN 0 ELSE tasks[t].version,
     status |-> IF op = "complete" THEN "claimed" ELSE tasks[t].status,
     members |-> IF op \in {"add", "remove"} THEN group.members ELSE 0,
     decision |-> "none", next |-> 0]

TypeOK ==
    /\ form \in Forms
    /\ tasks \in [Members -> TaskRecord]
    /\ group \in [status : {"waiting", "completed"}, outcome : {"none", "approved", "rejected"},
                  total : Members, required : Members, members : 0..MaxMembers]
    /\ run \in {"waiting", "blocked", "queued", "cancelled"}
    /\ jobs \in 0..1
    /\ ops \in [Users -> SUBSET Members]
    /\ active \subseteq Users
    /\ used \in [inactive : 0..MaxInactive, pauses : 0..MaxPauses, moves : 0..MaxMoves,
                removed : 0..MaxMembers]

(***************************************************************************)
(* The arithmetic of the vote.                                             *)
(***************************************************************************)

\* Math.min(Math.max(passPercentBasisPoints, 1), 10000)
Percent == IF form.percent < 1 THEN 1 ELSE form.percent

\* Math.max(1, Math.min(total, Math.ceil(total * Percent / 10000))), exact: the product is an integer.
Share(total) ==
    LET ceiling == (total * Percent + 9999) \div 10000
    IN  IF ceiling < 1 THEN 1 ELSE IF ceiling > total THEN total ELSE ceiling

\* Faulty variant: the share of the members is rounded down.
RequirementFloor(total) ==
    IF form.mode = "orSignFor" THEN 1
    ELSE IF form.mode = "sequentialSignFor" THEN total
    ELSE (total * form.percent) \div 10000

\* approvalRequirementAfterMemberChange
Requirement(total) ==
    CASE form.mode = "orSignFor" -> 1
      [] form.mode = "sequentialSignFor" -> total
      [] form.mode = "andSignFor" -> Share(total)

\* What the ceiling of total * passPercent can be in floating point: passPercent is any number
\* that rounds to form.percent basis points, and the error of the product stays within that.
Ceilings(total) ==
    {k \in 1..total : /\ (k - 1) * 20000 < total * (2 * form.percent + 1)
                      /\ k * 20000 + total >= 2 * (total * form.percent)}

\* Faulty variant: the share of a new group is rounded down.
FirstRequirementFloor(total) ==
    IF form.mode = "orSignFor" THEN {1}
    ELSE IF form.mode = "sequentialSignFor" THEN {total}
    ELSE {(total * form.percent) \div 10000}

\* approvalRequirement, when the group is created.
FirstRequirement(total) ==
    CASE form.mode = "orSignFor" -> {1}
      [] form.mode = "sequentialSignFor" -> {total}
      [] form.mode = "andSignFor" -> Ceilings(total)

With(ts, decision) == {m \in Members : ts[m].status = "completed" /\ ts[m].decision = decision}
Decided(ts) == {m \in Members : ts[m].status = "completed"}
OpenMembers(ts) == {m \in Members : ts[m].status \in OpenStatuses}

\* evaluateApprovalResults
Result(ts, total, required) ==
    LET approved == Cardinality(With(ts, "approved"))
        completed == Cardinality(Decided(ts))
        pending == IF total < completed THEN 0 ELSE total - completed
    IN  IF approved >= required THEN "approved"
        ELSE IF approved + pending < required THEN "rejected"
        ELSE "waiting"

(***************************************************************************)
(* Who may do what.                                                        *)
(***************************************************************************)

\* isCurrentTaskOwner
IsOwner(user, t) ==
    \/ tasks[t].status = "claimed" /\ tasks[t].claimedBy = user
    \/ tasks[t].status = "pending" /\ tasks[t].assigned = user

\* assertCurrentTaskOperation
MayOperate(user, t) ==
    user \in active /\ run = "waiting" /\ tasks[t].status \in OpenStatuses /\ t \in ops[user]

\* Faulty variant: every member may sign at once.
TurnAny(t) == TRUE

\* The earlier signers of a sequential group, tested when a task is claimed.
Turn(t) == form.mode = "sequentialSignFor" =>
               \A m \in 1..(t - 1) : tasks[m].status \notin OpenStatuses

\* The query for duplicates, backed by workflow_task_run_node_assignee_unique.
AlreadyMember(user, t) == \E m \in Members \ {t} : tasks[m].assigned = user

\* The next signer of a sequential group; 0 when there is none.
FirstPending ==
    LET pending == {m \in Members : tasks[m].status = "pending"}
    IN  IF pending = {} \/ form.mode # "sequentialSignFor" THEN 0
        ELSE CHOOSE m \in pending : \A n \in pending : m <= n

Revoke(t) == [u \in Users |-> ops[u] \ {t}]

Init ==
    /\ form \in Forms
    /\ LET size == Len(form.signers)
       IN  /\ tasks = [m \in Members |-> IF m <= size THEN NewTask(form.signers[m]) ELSE NoTask]
           /\ \E required \in FirstRequirement(size) :
                 group = [status |-> "waiting", outcome |-> "none", total |-> size,
                          required |-> required, members |-> 0]
           /\ ops = [u \in Users |-> {m \in 1..size :
                        form.signers[m] = u /\ (form.mode = "sequentialSignFor" => m = 1)}]
    /\ run = "waiting"
    /\ jobs = 0
    /\ active = Users
    /\ req = [s \in Sessions |-> NoRequest]
    /\ used = [inactive |-> 0, pauses |-> 0, moves |-> 0, removed |-> 0]

(***************************************************************************)
(* Requests are read and checked without a lock.                           *)
(***************************************************************************)

\* The bounds; the code has none.
EventLeft ==
    used.moves + group.members + used.inactive + used.pauses < MaxEvents[form]
Bounded(r) ==
    /\ r.op \in {"return", "handover", "reassign", "add", "remove"} => EventLeft
    /\ r.op \in {"return", "handover"} => used.moves < MaxMoves
    /\ r.op \in {"reassign", "add", "remove"} => group.members < MaxMembers
    /\ r.op = "add" => tasks[MaxTasks] = NoTask

Open(s, request) ==
    /\ req[s] = NoRequest /\ Bounded(request)
    /\ req' = [req EXCEPT ![s] = request]
    /\ UNCHANGED <<form, tasks, group, run, jobs, ops, active, used>>

OpenClaim(s, u, t) ==
    /\ tasks[t].status = "pending" /\ IsOwner(u, t) /\ Turn(t) /\ MayOperate(u, t)
    /\ Open(s, Request("claim", u, t))

OpenReturn(s, u, t) ==
    /\ tasks[t].status = "claimed" /\ IsOwner(u, t) /\ MayOperate(u, t)
    /\ Open(s, Request("return", u, t))

\* The transaction's first read fixes what its plain reads will see: the next signer.
OpenComplete(s, u, t, decision) ==
    /\ tasks[t].status = "claimed" /\ IsOwner(u, t) /\ MayOperate(u, t)
    /\ Open(s, [Request("complete", u, t) EXCEPT !.decision = decision, !.next = FirstPending,
           !.target = IF FirstPending = 0 THEN NoUser ELSE tasks[FirstPending].assigned])

\* handoverWorkflowTask and delegateWorkflowTask
OpenHandover(s, u, t, target) ==
    /\ IsOwner(u, t) /\ MayOperate(u, t)
    /\ target \in active /\ target # tasks[t].assigned
    /\ Open(s, [Request("handover", u, t) EXCEPT !.target = target])

\* taskReassignmentState: the open task of a deactivated account.
Abandoned(t) ==
    /\ tasks[t].status \in OpenStatuses /\ run = "waiting" /\ group.status = "waiting"
    /\ tasks[t].assigned \notin active /\ tasks[t].claimedBy \notin active

OpenReassign(s, t, target) ==
    /\ Abandoned(t) /\ target \in active
    /\ Open(s, [Request("reassign", NoUser, t) EXCEPT !.target = target])

OpenAdd(s, u, t, target) ==
    /\ IsOwner(u, t) /\ MayOperate(u, t) /\ target \in active
    /\ Open(s, [Request("add", u, t) EXCEPT !.target = target])

OpenRemove(s, u, t, member) ==
    /\ member # t /\ IsOwner(u, t) /\ MayOperate(u, t)
    /\ Open(s, [Request("remove", u, t) EXCEPT !.member = member])

(***************************************************************************)
(* Transactions.  A request whose tests fail rolls back and is answered    *)
(* with an error.                                                          *)
(***************************************************************************)

Close(s) == req' = [req EXCEPT ![s] = NoRequest]

\* Faulty variant: the claim tests the status only.
SameTaskByStatus(r) == tasks[r.task].status = r.status

SameTask(r) == tasks[r.task].status = r.status /\ tasks[r.task].version = r.version

Moved == used' = [used EXCEPT !.moves = @ + 1]

\* Faulty variant: the claim tests the version only, which a cancellation does not change.
ClaimValidByVersion(r) == tasks[r.task].version = r.version

ClaimValid(r) == SameTask(r)

Claim(r) ==
    /\ tasks' = [tasks EXCEPT ![r.task].status = "claimed", ![r.task].claimedBy = r.user,
                              ![r.task].version = @ + 1]
    /\ UNCHANGED <<group, run, jobs, ops, used>>

ReturnValid(r) == SameTask(r) /\ tasks[r.task].claimedBy = r.user

Return(r) ==
    /\ tasks' = [tasks EXCEPT ![r.task].status = "pending", ![r.task].claimedBy = NoUser,
                              ![r.task].version = @ + 1]
    /\ Moved
    /\ UNCHANGED <<group, run, jobs, ops>>

HandoverValid(r) ==
    /\ run = "waiting" /\ group.status = "waiting" /\ SameTask(r)
    /\ r.op = "handover" => IsOwner(r.user, r.task)
    /\ r.op = "reassign" => Abandoned(r.task)
    /\ r.target \in active /\ ~AlreadyMember(r.target, r.task)

Handover(r) ==
    /\ tasks' = [tasks EXCEPT ![r.task] = [NewTask(r.target) EXCEPT !.version = tasks[r.task].version + 1]]
    /\ ops' = [Revoke(r.task) EXCEPT ![r.target] = @ \cup {r.task}]
    /\ IF r.op = "reassign" THEN group' = [group EXCEPT !.members = @ + 1] /\ UNCHANGED used
       ELSE Moved /\ UNCHANGED group
    /\ UNCHANGED <<run, jobs>>

\* The tests addWorkflowTaskSigner and removeWorkflowTaskSigner share.
GroupUnchanged(r) ==
    /\ group.status = "waiting" /\ group.members = r.members
    /\ tasks[r.task].version = r.version /\ IsOwner(r.user, r.task)

Resize(total) == [group EXCEPT !.total = total, !.required = Requirement(total),
                               !.members = @ + 1]

AddValid(r) == GroupUnchanged(r) /\ ~AlreadyMember(r.target, 0)

\* The approvalOrder of an added signer follows all others.
IsNext(new) == tasks[new] = NoTask /\ \A n \in 1..(new - 1) : tasks[n] # NoTask

Add(r) ==
    \E new \in Members :
        /\ IsNext(new)
        /\ tasks' = [tasks EXCEPT ![new] = NewTask(r.target)]
        /\ group' = Resize(group.total + 1)
        /\ ops' = IF form.mode = "sequentialSignFor" THEN ops
                  ELSE [ops EXCEPT ![r.target] = @ \cup {new}]
        /\ UNCHANGED <<run, jobs, used>>

\* Faulty variant: the votes already cast are not counted against the new requirement.
RemoveValidUncounted(r) ==
    GroupUnchanged(r) /\ group.total > 1 /\ tasks[r.member].status = "pending"

RemoveValid(r) ==
    /\ GroupUnchanged(r) /\ group.total > 1
    /\ tasks[r.member].status = "pending"
    /\ Cardinality(With(tasks, "approved")) < Requirement(group.total - 1)

Remove(r) ==
    LET user == tasks[r.member].assigned
    IN  /\ tasks' = [tasks EXCEPT ![r.member].status = "cancelled", ![r.member].version = @ + 1]
        /\ group' = Resize(group.total - 1)
        /\ ops' = [ops EXCEPT ![user] = @ \ {r.member}]
        /\ used' = [used EXCEPT !.removed = @ + 1]
        /\ UNCHANGED <<run, jobs>>

CompleteValid(r) ==
    /\ run = "waiting" /\ group.status = "waiting"
    /\ tasks[r.task].status = "claimed" /\ tasks[r.task].claimedBy = r.user

\* In a sequential group the turn passes to the next signer the transaction can see.
PassTurn(r) ==
    IF r.next # 0 THEN [ops EXCEPT ![r.user] = {}, ![r.target] = {r.next}]
    ELSE [ops EXCEPT ![r.user] = {}]

\* The group is decided: the open tasks of the other members are cancelled.
CloseTasks(ts) ==
    [m \in Members |-> IF ts[m].status \in OpenStatuses THEN [ts[m] EXCEPT !.status = "cancelled"]
                       ELSE ts[m]]

Complete(r) ==
    LET cast == [tasks EXCEPT ![r.task].status = "completed", ![r.task].decision = r.decision]
        result == Result(cast, group.total, group.required)
    IN  IF result = "waiting"
        THEN /\ tasks' = cast
             /\ ops' = PassTurn(r)
             /\ UNCHANGED <<group, run, jobs, used>>
        ELSE /\ tasks' = CloseTasks(cast)
             /\ group' = [group EXCEPT !.status = "completed", !.outcome = result]
             /\ ops' = [u \in Users |-> IF \E m \in Members : tasks[m].assigned = u THEN {} ELSE ops[u]]
             /\ IF result = "rejected" /\ form.legacy
                THEN run' = "cancelled" /\ UNCHANGED jobs
                ELSE run' = "queued" /\ jobs' = jobs + 1
             /\ UNCHANGED used

Valid(r) ==
    CASE r.op = "claim" -> ClaimValid(r)
      [] r.op = "return" -> ReturnValid(r)
      [] r.op \in {"handover", "reassign"} -> HandoverValid(r)
      [] r.op = "add" -> AddValid(r)
      [] r.op = "remove" -> RemoveValid(r)
      [] r.op = "complete" -> CompleteValid(r)

Commit(s) ==
    LET r == req[s]
    IN  /\ r # NoRequest /\ Valid(r) /\ Bounded(r)
        /\ \/ r.op = "claim" /\ Claim(r)
           \/ r.op = "return" /\ Return(r)
           \/ r.op \in {"handover", "reassign"} /\ Handover(r)
           \/ r.op = "add" /\ Add(r)
           \/ r.op = "remove" /\ Remove(r)
           \/ r.op = "complete" /\ Complete(r)
        /\ Close(s)
        /\ UNCHANGED <<form, active>>

\* The transaction finds that what was read no longer holds.
Refuse(s) ==
    /\ req[s] # NoRequest
    /\ ~(Valid(req[s]) /\ Bounded(req[s]))
    /\ Close(s)
    /\ UNCHANGED <<form, tasks, group, run, jobs, ops, active, used>>

(***************************************************************************)
(* What else happens to the run and to accounts.                           *)
(***************************************************************************)

Deactivate(u) ==
    /\ u \in active /\ used.inactive < MaxInactive /\ EventLeft
    /\ run \in {"waiting", "blocked"}
    /\ active' = active \ {u}
    /\ used' = [used EXCEPT !.inactive = @ + 1]
    /\ UNCHANGED <<form, tasks, group, run, jobs, ops, req>>

Pause ==
    /\ run = "waiting" /\ used.pauses < MaxPauses /\ EventLeft
    /\ run' = "blocked"
    /\ used' = [used EXCEPT !.pauses = @ + 1]
    /\ UNCHANGED <<form, tasks, group, jobs, ops, active, req>>

\* A run with open tasks goes back to waiting.
Resume ==
    /\ run = "blocked"
    /\ run' = "waiting"
    /\ UNCHANGED <<form, tasks, group, jobs, ops, active, req, used>>

\* controlWorkflowRun cancels the tasks and leaves the group's row as it is.
Stop ==
    /\ run \in {"waiting", "blocked"} /\ used.pauses < MaxPauses /\ EventLeft
    /\ run' = "cancelled"
    /\ tasks' = CloseTasks(tasks)
    /\ used' = [used EXCEPT !.pauses = @ + 1]
    /\ UNCHANGED <<form, group, jobs, ops, active, req>>

OpenRequest(s) ==
    \/ \E u \in Users, t \in Members :
         \/ OpenClaim(s, u, t) \/ OpenReturn(s, u, t)
         \/ \E d \in Decisions : OpenComplete(s, u, t, d)
         \/ \E target \in Users : OpenHandover(s, u, t, target) \/ OpenAdd(s, u, t, target)
         \/ \E m \in Members : OpenRemove(s, u, t, m)
    \/ \E t \in Members, target \in Users : OpenReassign(s, t, target)

Next ==
    \/ \E s \in Sessions : OpenRequest(s) \/ Commit(s) \/ Refuse(s)
    \/ \E u \in Users : Deactivate(u)
    \/ Pause \/ Resume \/ Stop

Spec == Init /\ [][Next]_vars

(***************************************************************************)
(* Properties.                                                             *)
(***************************************************************************)

\* The vote goes on.
Live == run \in {"waiting", "blocked"}

Approvals == Cardinality(With(tasks, "approved"))
Undecided == group.total - Cardinality(Decided(tasks))

\* Votes that reach the configured share of the members, up to the half basis point by which the
\* group's row rounds that share.
Reached(votes) ==
    CASE form.mode = "orSignFor" -> votes >= 1
      [] form.mode = "andSignFor" ->
             votes >= 1 /\ votes * 20000 + group.total >= 2 * (group.total * form.percent)
      [] form.mode = "sequentialSignFor" -> votes = group.total

\* Votes that fall short of it, up to the same half basis point.
Short(votes) ==
    CASE form.mode = "orSignFor" -> votes < 1
      [] form.mode = "andSignFor" -> votes * 20000 < group.total * (2 * Percent + 1)
      [] form.mode = "sequentialSignFor" -> votes < group.total

\* totalApprovers, which every addition and removal changes, agrees with the member tasks that
\* exist, and requiredApprovals is what the group was created with or what the members that
\* exist ask for: addWorkflowTaskSigner and removeWorkflowTaskSigner against decisions.
TallyMatches ==
    Live => /\ group.status = "waiting"
            /\ group.total = Cardinality({m \in Members : tasks[m].status \notin {"absent", "cancelled"}})
            /\ Undecided = Cardinality(OpenMembers(tasks))
            /\ \/ group.required = Requirement(group.total)
               \/ group.total = Len(form.signers) /\ group.required \in FirstRequirement(group.total)

\* Nobody signs twice, and only the person a task belongs to signs it, whatever handovers,
\* reassignments and additions run beside a claim (ownerVersion, the member query and its index).
OneVotePerUser ==
    /\ \A m, n \in Members : m # n /\ tasks[m] # NoTask => tasks[m].assigned # tasks[n].assigned
    /\ \A m \in Members : tasks[m].status \in {"claimed", "completed"} =>
           tasks[m].claimedBy = tasks[m].assigned

\* The group's outcome is the one the votes mean: approved exactly when the approvals reach the
\* number asked for, which is the configured share of the members, or rejected when the members
\* left could not have made it pass (evaluateApprovalResults), however members came and went.
OutcomeEarned ==
    group.status = "completed" =>
        /\ group.outcome = "approved" <=> Approvals >= group.required
        /\ group.outcome = "approved" => Reached(Approvals)
        /\ group.outcome = "rejected" => Short(Approvals + Undecided)

\* A group still waiting has not passed; and unless a member was removed, it still can
\* (removeWorkflowTaskSigner tests only whether the votes cast would pass).  The first number
\* asked for and the one an addition computes are two computations of one share, which agree
\* well enough for that up to 141 members: beyond, half a basis point is worth a vote.
StillOpen ==
    Live /\ Len(form.signers) <= 141 =>
        /\ Approvals < group.required
        /\ used.removed = 0 => Approvals + Undecided >= group.required

\* In a sequential group a member holds or has signed a task only after all earlier members
\* signed or were removed, though the turn is tested outside the claim's transaction.
SignedInOrder ==
    form.mode = "sequentialSignFor" =>
        \A m, n \in Members : m < n /\ tasks[n].status \in {"claimed", "completed"} =>
            tasks[m].status \notin OpenStatuses

\* The run goes on exactly once, and only by the decided vote; nobody keeps a task of a vote
\* that ended (resumeWorkflowTask, completeTaskAndEvaluateApprovalGroup, controlWorkflowRun).
ContinuedOnce ==
    /\ jobs = (IF run = "queued" THEN 1 ELSE 0)
    /\ run = "queued" => group.status = "completed"
    /\ ~Live => OpenMembers(tasks) = {}

\* A decided group and its member tasks never change again: no late claim, hand-back, handover,
\* addition or removal gets through.
FinalVote == [][group.status = "completed" => UNCHANGED <<tasks, group, jobs>>]_vars

\* While the vote goes on, the member whose turn it is may act: the operation is in the
\* participant state of its owner, which assertCurrentTaskOperation asks for.
CanSign ==
    Live => \A m \in OpenMembers(tasks) : Turn(m) => m \in ops[tasks[m].assigned]
================================================================================
