-------------------------- MODULE ApprovalGroupProofs --------------------------
(***************************************************************************)
(* Proofs about ApprovalGroup, for any users, forms of a group, number of  *)
(* concurrent requests and bounds.                                         *)
(*                                                                         *)
(* A request acts on a row it read earlier.  What makes that safe is that  *)
(* a task's version never falls and that a task which left the open        *)
(* statuses returns to them only with a new version (TaskStep), so that a  *)
(* request that finds its version and status again finds its owner too     *)
(* (RequestOK).  On top of that, the group's counts are those of its tasks *)
(* and its status is what they add up to (CountInv), and a sequential group*)
(* is signed from the front (OrderInv).                                    *)
(***************************************************************************)
EXTENDS ApprovalGroup, TLAPS, FiniteSetTheorems

\* A member task, once it exists.
TaskRow == [status : OpenStatuses \cup {"completed", "cancelled"}, assigned : Users,
            claimedBy : Users \cup {NoUser}, version : Nat, decision : Decisions \cup {"none"}]

Exists(m) == tasks[m].status # "absent"

TasksInv ==
    /\ tasks \in [Members -> TaskRow \cup {NoTask}]
    /\ \A m, n \in Members : m # n /\ Exists(m) /\ Exists(n) => tasks[m].assigned # tasks[n].assigned
    /\ \A m \in Members : tasks[m].status \in {"claimed", "completed"} =>
           tasks[m].claimedBy = tasks[m].assigned

\* What a request read is in the past of its task; a claim that still finds what it read
\* belongs to the person the task is assigned to.
RequestOK(r) ==
    /\ r.task \in Members /\ Exists(r.task)
    /\ r.op \in {"add", "remove", "handover", "reassign"} => r.target \in Users \cup {NoUser}
    /\ r.op \in {"add", "handover", "reassign"} => r.target \in Users
    /\ r.op = "remove" => r.member \in Members
    /\ r.op = "complete" => r.decision \in Decisions
    /\ r.op = "return" => r.status = "claimed"
    /\ r.op = "claim" =>
          /\ r.user \in Users /\ r.status = "pending"
          /\ r.version \in Nat /\ r.version <= tasks[r.task].version
          /\ tasks[r.task].version = r.version /\ tasks[r.task].status = "pending" =>
                 tasks[r.task].assigned = r.user

RequestsInv == \A s \in Sessions : req[s] = NoRequest \/ RequestOK(req[s])

\* The run goes on once, with the decided vote; when it does not wait, no task is open.
RunInv ==
    /\ group.status \in {"waiting", "completed"} /\ run \in {"waiting", "blocked", "queued", "cancelled"}
    /\ jobs = (IF run = "queued" THEN 1 ELSE 0)
    /\ run = "queued" => group.status = "completed"
    /\ group.status = "completed" => ~Live
    /\ ~Live => \A m \in Members : tasks[m].status \notin OpenStatuses
    /\ active \subseteq Users

IInv == TasksInv /\ RequestsInv /\ RunInv

\* A task does not vanish, its version does not fall, and it becomes pending only with a new one.
TaskStep(m) ==
    Exists(m) =>
        /\ tasks'[m].status # "absent" /\ tasks'[m].version >= tasks[m].version
        /\ tasks'[m].version = tasks[m].version /\ tasks'[m].status = "pending" =>
               tasks[m].status = "pending" /\ tasks'[m].assigned = tasks[m].assigned

-----------------------------------------------------------------------------
LEMMA TaskFacts ==
    ASSUME TasksInv, NEW m \in Members
    PROVE  /\ Exists(m) <=> tasks[m] # NoTask
           /\ Exists(m) <=> tasks[m] \in TaskRow
           /\ ~Exists(m) => tasks[m].assigned = NoUser
           /\ tasks[m].status \in OpenStatuses => Exists(m)
           /\ tasks[m].version \in Nat
BY DEF TasksInv, Exists, TaskRow, NoTask, OpenStatuses

LEMMA NewTaskFacts ==
    ASSUME NEW user \in Users
    PROVE  /\ NewTask(user) \in TaskRow /\ NewTask(user).status = "pending"
           /\ NewTask(user).assigned = user /\ NewTask(user).version = 0
BY DEF NewTask, NoTask, TaskRow, OpenStatuses

LEMMA InitInv == Init => IInv
<1> SUFFICES ASSUME Init PROVE IInv
  OBVIOUS
<1> DEFINE size == Len(form.signers)
<1>1. form \in Forms /\ form \in Form /\ size \in Members
      /\ \A i, j \in 1..size : i # j => form.signers[i] # form.signers[j]
  BY GroupAssumption DEF Init
<1>2. \A m \in 1..size : form.signers[m] \in Users
  <2>1. form.signers \in Seq(Users)
    BY <1>1 DEF Form
  <2> QED BY <2>1
<1>3. tasks = [m \in Members |-> IF m <= size THEN NewTask(form.signers[m]) ELSE NoTask]
  BY DEF Init
<1> HIDE DEF size
<1>4. \A m \in Members : \/ m <= size /\ m \in 1..size /\ tasks[m] = NewTask(form.signers[m])
                         \/ tasks[m] = NoTask
  BY <1>1, <1>3, BoundAssumption DEF Members
<1>5. \A m \in Members : \/ /\ m \in 1..size /\ tasks[m] \in TaskRow /\ tasks[m].status = "pending"
                            /\ tasks[m].assigned = form.signers[m]
                         \/ tasks[m] = NoTask
  BY <1>2, <1>4, NewTaskFacts
<1>6. NoTask.status = "absent"
  BY DEF NoTask
<1>7. TasksInv
  <2>1. tasks \in [Members -> TaskRow \cup {NoTask}]
    BY <1>3, <1>5
  <2>2. \A m, n \in Members : m # n /\ Exists(m) /\ Exists(n) => tasks[m].assigned # tasks[n].assigned
    BY <1>1, <1>5, <1>6 DEF Exists
  <2>3. \A m \in Members : tasks[m].status \notin {"claimed", "completed"}
    BY <1>5, <1>6
  <2> QED BY <2>1, <2>2, <2>3 DEF TasksInv
<1>8. RequestsInv
  BY DEF Init, RequestsInv
<1>9. RunInv
  BY DEF Init, RunInv, Live
<1> QED BY <1>7, <1>8, <1>9 DEF IInv

-----------------------------------------------------------------------------
\* Requests under way stay sound when the tasks make such steps.
LEMMA RequestsKept ==
    ASSUME IInv, tasks' \in [Members -> TaskRow \cup {NoTask}], \A m \in Members : TaskStep(m),
           \A s \in Sessions : req'[s] = req[s] \/ req'[s] = NoRequest
    PROVE  RequestsInv'
<1> SUFFICES ASSUME NEW s \in Sessions, req'[s] # NoRequest PROVE RequestOK(req[s])' /\ req'[s] = req[s]
  BY DEF RequestsInv, RequestOK, Exists
<1> DEFINE r == req[s]
<1>1. req'[s] = r /\ RequestOK(r)
  BY DEF IInv, RequestsInv
<1>2. r.task \in Members /\ TaskStep(r.task) /\ Exists(r.task)
  BY <1>1 DEF RequestOK
<1>3. tasks[r.task].version \in Nat /\ tasks'[r.task].version \in Nat
  BY <1>2 DEF IInv, TasksInv, TaskRow, NoTask
<1> QED BY <1>1, <1>2, <1>3 DEF RequestOK, TaskStep, Exists

\* One existing task is replaced.
LEMMA OneTask ==
    ASSUME IInv, NEW t \in Members, Exists(t), NEW new \in TaskRow, tasks' = [tasks EXCEPT ![t] = new],
           new.status \in {"claimed", "completed"} => new.claimedBy = new.assigned,
           \A m \in Members \ {t} : Exists(m) => tasks[m].assigned # new.assigned,
           new.version >= tasks[t].version,
           new.status = "pending" => new.version # tasks[t].version
    PROVE  TasksInv' /\ \A m \in Members : TaskStep(m)
<1>1. /\ tasks'[t] = new /\ \A m \in Members : m # t => tasks'[m] = tasks[m]
      /\ tasks' \in [Members -> TaskRow \cup {NoTask}]
  BY DEF IInv, TasksInv
<1>2. new.status # "absent" /\ \A m \in Members : tasks[m].version \in Nat
  BY TaskFacts DEF TaskRow, OpenStatuses, IInv
<1>3. TasksInv'
  BY <1>1, <1>2 DEF IInv, TasksInv, Exists
<1>4. \A m \in Members : TaskStep(m)
  BY <1>1, <1>2 DEF TaskStep, Exists
<1> QED BY <1>3, <1>4

\* A task that is open makes the run live.
LEMMA OpenMeansLive ==
    ASSUME IInv, NEW t \in Members, tasks[t].status \in OpenStatuses
    PROVE  Live /\ group.status = "waiting" /\ Exists(t) /\ tasks[t] \in TaskRow
BY TaskFacts DEF IInv, RunInv, Exists, OpenStatuses

\* An open task is replaced and the run stays as it is.
LEMMA OpenTaskInv ==
    ASSUME IInv, NEW t \in Members, tasks[t].status \in OpenStatuses,
           NEW new \in TaskRow, tasks' = [tasks EXCEPT ![t] = new],
           new.status \in {"claimed", "completed"} => new.claimedBy = new.assigned,
           \A m \in Members \ {t} : Exists(m) => tasks[m].assigned # new.assigned,
           new.version >= tasks[t].version,
           new.status = "pending" => new.version # tasks[t].version,
           UNCHANGED <<run, jobs, active>>, group'.status = group.status,
           \A s \in Sessions : req'[s] = req[s] \/ req'[s] = NoRequest
    PROVE  IInv'
<1>1. Live /\ Exists(t)
  BY OpenMeansLive
<1>2. TasksInv' /\ \A m \in Members : TaskStep(m)
  BY <1>1, OneTask
<1>3. RequestsInv'
  BY <1>2, RequestsKept DEF TasksInv
<1>4. RunInv'
  BY <1>1 DEF IInv, RunInv, Live
<1> QED BY <1>2, <1>3, <1>4 DEF IInv

-----------------------------------------------------------------------------
\* The transactions.

LEMMA ClaimInv ==
    ASSUME IInv, NEW r, RequestOK(r), r.op = "claim", ClaimValid(r), Claim(r), active' = active,
           \A s \in Sessions : req'[s] = req[s] \/ req'[s] = NoRequest
    PROVE  IInv'
<1> DEFINE t == r.task
           new == [tasks[t] EXCEPT !.status = "claimed", !.claimedBy = r.user, !.version = @ + 1]
<1>1. /\ t \in Members /\ tasks[t].status = "pending" /\ tasks[t].assigned = r.user /\ r.user \in Users
  BY DEF RequestOK, ClaimValid, SameTask
<1>2. tasks[t] \in TaskRow /\ Exists(t) /\ tasks[t].status \in OpenStatuses
  BY <1>1, OpenMeansLive DEF OpenStatuses
<1>3. /\ new \in TaskRow /\ new.assigned = r.user /\ new.claimedBy = r.user /\ new.status = "claimed"
      /\ new.version = tasks[t].version + 1 /\ tasks[t].version \in Nat
  <2>1. tasks[t].version \in Nat /\ tasks[t].version + 1 \in Nat
    BY <1>2 DEF TaskRow
  <2>2. new = [tasks[t] EXCEPT !.status = "claimed", !.claimedBy = r.user, !.version = tasks[t].version + 1]
    OBVIOUS
  <2> HIDE DEF new, t
  <2> QED BY <1>1, <1>2, <2>1, <2>2 DEF TaskRow, OpenStatuses
<1>4. tasks' = [tasks EXCEPT ![t] = new]
  BY <1>1 DEF Claim, IInv, TasksInv
<1>5. \A m \in Members \ {t} : Exists(m) => tasks[m].assigned # new.assigned
  BY <1>1, <1>2, <1>3 DEF IInv, TasksInv
<1>6. UNCHANGED <<run, jobs, group>>
  BY DEF Claim
<1>7. new.version >= tasks[t].version
  BY <1>3
<1> HIDE DEF new, t
<1> QED BY <1>1, <1>2, <1>3, <1>4, <1>5, <1>6, <1>7, OpenTaskInv

LEMMA ReturnInv ==
    ASSUME IInv, NEW r, RequestOK(r), r.op = "return", ReturnValid(r), Return(r), active' = active,
           \A s \in Sessions : req'[s] = req[s] \/ req'[s] = NoRequest
    PROVE  IInv'
<1> DEFINE t == r.task
           new == [tasks[t] EXCEPT !.status = "pending", !.claimedBy = NoUser, !.version = @ + 1]
<1>1. t \in Members /\ tasks[t].status \in OpenStatuses
  BY DEF RequestOK, ReturnValid, SameTask, OpenStatuses
<1>2. tasks[t] \in TaskRow /\ Exists(t)
  BY <1>1, OpenMeansLive
<1>3. /\ new \in TaskRow /\ new.assigned = tasks[t].assigned /\ new.status = "pending"
      /\ new.version = tasks[t].version + 1 /\ tasks[t].version \in Nat
  <2>1. tasks[t].version \in Nat /\ tasks[t].version + 1 \in Nat
    BY <1>2 DEF TaskRow
  <2>2. new = [tasks[t] EXCEPT !.status = "pending", !.claimedBy = NoUser, !.version = tasks[t].version + 1]
    OBVIOUS
  <2> HIDE DEF new, t
  <2> QED BY <1>1, <1>2, <2>1, <2>2 DEF TaskRow, OpenStatuses
<1>4. tasks' = [tasks EXCEPT ![t] = new]
  BY <1>1 DEF Return, IInv, TasksInv
<1>5. \A m \in Members \ {t} : Exists(m) => tasks[m].assigned # new.assigned
  BY <1>1, <1>2, <1>3 DEF IInv, TasksInv
<1>6. UNCHANGED <<run, jobs, group>>
  BY DEF Return
<1>7. new.version >= tasks[t].version /\ new.version # tasks[t].version
  BY <1>3
<1> HIDE DEF new, t
<1> QED BY <1>1, <1>2, <1>3, <1>4, <1>5, <1>6, <1>7, OpenTaskInv

\* The new owner is none of the other members.
LEMMA HandoverInv ==
    ASSUME IInv, NEW r, RequestOK(r), r.op \in {"handover", "reassign"}, HandoverValid(r), Handover(r),
           active' = active, \A s \in Sessions : req'[s] = req[s] \/ req'[s] = NoRequest
    PROVE  IInv'
<1> DEFINE t == r.task
           new == [NewTask(r.target) EXCEPT !.version = tasks[t].version + 1]
<1>1. /\ t \in Members /\ r.target \in Users
      /\ tasks[t].status \in OpenStatuses
  BY DEF RequestOK, HandoverValid, IsOwner, Abandoned, OpenStatuses
<1>2. tasks[t] \in TaskRow /\ Exists(t)
  BY <1>1, OpenMeansLive
<1>3. tasks[t].version \in Nat
  BY <1>2 DEF TaskRow
<1>4. /\ new \in TaskRow /\ new.assigned = r.target /\ new.status = "pending"
      /\ new.version = tasks[t].version + 1
  BY <1>1, <1>3, NewTaskFacts DEF TaskRow
<1>5. tasks' = [tasks EXCEPT ![t] = new]
  BY DEF Handover
<1>6. \A m \in Members \ {t} : Exists(m) => tasks[m].assigned # new.assigned
  <2>1. ~\E m \in Members \ {t} : tasks[m].assigned = r.target
    BY DEF HandoverValid, AlreadyMember
  <2> QED BY <1>4, <2>1
<1>7. UNCHANGED <<run, jobs>> /\ group'.status = group.status
  <2>1. UNCHANGED <<run, jobs>>
    BY DEF Handover
  <2>2. group' = group \/ group' = [group EXCEPT !.members = group.members + 1]
    BY DEF Handover
  <2>3. CASE group' = group
    BY <2>1, <2>3
  <2>4. CASE group' = [group EXCEPT !.members = group.members + 1]
    BY <2>1, <2>4
  <2> QED BY <2>2, <2>3, <2>4
<1>8. new.version >= tasks[t].version /\ new.version # tasks[t].version
  BY <1>3, <1>4
<1> HIDE DEF new, t
<1> QED BY <1>1, <1>2, <1>4, <1>5, <1>6, <1>7, <1>8, OpenTaskInv

LEMMA RemoveInv ==
    ASSUME IInv, NEW r, RequestOK(r), r.op = "remove", RemoveValid(r), Remove(r), active' = active,
           \A s \in Sessions : req'[s] = req[s] \/ req'[s] = NoRequest
    PROVE  IInv'
<1> DEFINE t == r.member
           new == [tasks[t] EXCEPT !.status = "cancelled", !.version = @ + 1]
<1>1. t \in Members /\ tasks[t].status \in OpenStatuses
  BY DEF RequestOK, RemoveValid, OpenStatuses
<1>2. tasks[t] \in TaskRow /\ Exists(t)
  BY <1>1, OpenMeansLive
<1>3. /\ new \in TaskRow /\ new.assigned = tasks[t].assigned /\ new.status = "cancelled"
      /\ new.version = tasks[t].version + 1 /\ tasks[t].version \in Nat
  <2>1. tasks[t].version \in Nat /\ tasks[t].version + 1 \in Nat
    BY <1>2 DEF TaskRow
  <2>2. new = [tasks[t] EXCEPT !.status = "cancelled", !.version = tasks[t].version + 1]
    OBVIOUS
  <2> HIDE DEF new, t
  <2> QED BY <1>1, <1>2, <2>1, <2>2 DEF TaskRow, OpenStatuses
<1>4. tasks' = [tasks EXCEPT ![t] = new]
  BY <1>1 DEF Remove, IInv, TasksInv
<1>5. \A m \in Members \ {t} : Exists(m) => tasks[m].assigned # new.assigned
  BY <1>1, <1>2, <1>3 DEF IInv, TasksInv
<1>6. UNCHANGED <<run, jobs>> /\ group'.status = group.status
  BY DEF Remove, Resize
<1>7. new.version >= tasks[t].version
  BY <1>3
<1> HIDE DEF new, t
<1> QED BY <1>1, <1>2, <1>3, <1>4, <1>5, <1>6, <1>7, OpenTaskInv

\* The added signer is none of the members; the request's own task is open, so the run is live.
LEMMA AddInv ==
    ASSUME IInv, NEW r, RequestOK(r), r.op = "add", AddValid(r), Add(r), active' = active,
           \A s \in Sessions : req'[s] = req[s] \/ req'[s] = NoRequest
    PROVE  IInv'
<1>1. PICK new \in Members : /\ tasks[new] = NoTask
                             /\ tasks' = [tasks EXCEPT ![new] = NewTask(r.target)]
  BY DEF Add, IsNext
<1>2. /\ r.target \in Users /\ r.task \in Members /\ tasks[r.task].status \in OpenStatuses
  BY DEF RequestOK, AddValid, GroupUnchanged, IsOwner, OpenStatuses
<1>3. Live
  BY <1>2, OpenMeansLive
<1>4. ~Exists(new)
  BY <1>1, TaskFacts DEF IInv
<1>5. /\ NewTask(r.target) \in TaskRow /\ NewTask(r.target).assigned = r.target
      /\ NewTask(r.target).status = "pending"
  BY <1>2, NewTaskFacts
<1>6. \A m \in Members : Exists(m) => tasks[m].assigned # r.target
  <2>1. \A m \in Members : m \in Members \ {0}
    BY DEF Members
  <2> QED BY <2>1 DEF AddValid, AlreadyMember
<1>7. /\ tasks'[new] = NewTask(r.target) /\ \A m \in Members : m # new => tasks'[m] = tasks[m]
      /\ tasks' \in [Members -> TaskRow \cup {NoTask}]
  BY <1>1, <1>5 DEF IInv, TasksInv
<1>8. TasksInv'
  BY <1>5, <1>6, <1>7 DEF IInv, TasksInv, Exists
<1>9. \A m \in Members : TaskStep(m)
  BY <1>4, <1>7, TaskFacts DEF TaskStep, Exists, IInv
<1>10. RequestsInv'
  BY <1>7, <1>9, RequestsKept
<1>11. UNCHANGED <<run, jobs>> /\ group'.status = group.status
  BY DEF Add, Resize
<1>12. RunInv'
  BY <1>3, <1>11 DEF IInv, RunInv, Live
<1> QED BY <1>8, <1>10, <1>12 DEF IInv

\* The decision alone.
LEMMA CastInv ==
    ASSUME IInv, NEW r, RequestOK(r), r.op = "complete", CompleteValid(r),
           NEW cast, cast = [tasks EXCEPT ![r.task].status = "completed", ![r.task].decision = r.decision]
    PROVE  /\ cast \in [Members -> TaskRow \cup {NoTask}]
           /\ \A m \in Members :
                 /\ cast[m].assigned = tasks[m].assigned /\ cast[m].claimedBy = tasks[m].claimedBy
                 /\ cast[m].version = tasks[m].version
                 /\ cast[m].status = "absent" <=> tasks[m].status = "absent"
                 /\ cast[m].status = "pending" => tasks[m].status = "pending"
                 /\ cast[m].status \in {"claimed", "completed"} => tasks[m].claimedBy = tasks[m].assigned
<1> DEFINE t == r.task
           new == [tasks[t] EXCEPT !.status = "completed", !.decision = r.decision]
<1>1. t \in Members /\ tasks[t].status = "claimed" /\ r.decision \in Decisions
  BY DEF RequestOK, CompleteValid
<1>2. tasks[t] \in TaskRow
  BY <1>1, OpenMeansLive DEF OpenStatuses
<1>3. /\ new \in TaskRow /\ new.assigned = tasks[t].assigned /\ new.claimedBy = tasks[t].claimedBy
      /\ new.version = tasks[t].version /\ new.status = "completed"
  BY <1>1, <1>2 DEF TaskRow, OpenStatuses, Decisions
<1>4. cast = [tasks EXCEPT ![t] = new]
  BY <1>1 DEF IInv, TasksInv
<1> HIDE DEF new, t
<1>5. /\ cast[t] = new /\ \A m \in Members : m # t => cast[m] = tasks[m]
      /\ cast \in [Members -> TaskRow \cup {NoTask}]
  BY <1>1, <1>3, <1>4 DEF IInv, TasksInv
<1>6. \A m \in Members : tasks[m].status \in {"claimed", "completed"} =>
          tasks[m].claimedBy = tasks[m].assigned
  BY DEF IInv, TasksInv
<1> QED BY <1>1, <1>3, <1>5, <1>6

LEMMA CompleteInv ==
    ASSUME IInv, NEW r, RequestOK(r), r.op = "complete", CompleteValid(r), Complete(r),
           active' = active, \A s \in Sessions : req'[s] = req[s] \/ req'[s] = NoRequest
    PROVE  IInv'
<1> DEFINE cast == [tasks EXCEPT ![r.task].status = "completed", ![r.task].decision = r.decision]
           result == Result(cast, group.total, group.required)
<1>1. /\ cast \in [Members -> TaskRow \cup {NoTask}]
      /\ \A m \in Members :
            /\ cast[m].assigned = tasks[m].assigned /\ cast[m].claimedBy = tasks[m].claimedBy
            /\ cast[m].version = tasks[m].version
            /\ cast[m].status = "absent" <=> tasks[m].status = "absent"
            /\ cast[m].status = "pending" => tasks[m].status = "pending"
            /\ cast[m].status \in {"claimed", "completed"} => tasks[m].claimedBy = tasks[m].assigned
  BY CastInv
<1>2. run = "waiting" /\ group.status = "waiting" /\ jobs = 0
  BY DEF CompleteValid, IInv, RunInv
<1>3. CASE result = "waiting"
  <2>1. tasks' = cast /\ UNCHANGED <<group, run, jobs>>
    BY <1>3 DEF Complete
  <2> HIDE DEF cast, result
  <2>2. TasksInv' /\ \A m \in Members : TaskStep(m)
    BY <1>1, <2>1, TaskFacts DEF IInv, TasksInv, TaskStep, Exists
  <2>3. RequestsInv'
    BY <2>2, RequestsKept DEF TasksInv
  <2>4. RunInv'
    BY <1>2, <2>1 DEF IInv, RunInv, Live
  <2> QED BY <2>2, <2>3, <2>4 DEF IInv
<1>4. CASE result # "waiting"
  <2>1. /\ tasks' = CloseTasks(cast)
        /\ group' = [group EXCEPT !.status = "completed", !.outcome = result]
        /\ \/ run' = "cancelled" /\ UNCHANGED jobs
           \/ run' = "queued" /\ jobs' = jobs + 1
    BY <1>4 DEF Complete
  <2> HIDE DEF cast, result
  <2>2. ASSUME NEW m \in Members
        PROVE  /\ tasks'[m] \in TaskRow \cup {NoTask}
               /\ tasks'[m].assigned = tasks[m].assigned /\ tasks'[m].version = tasks[m].version
               /\ tasks'[m].claimedBy = tasks[m].claimedBy
               /\ tasks'[m].status = "absent" <=> tasks[m].status = "absent"
               /\ tasks'[m].status \notin OpenStatuses
               /\ tasks'[m].status \in {"claimed", "completed"} => tasks[m].claimedBy = tasks[m].assigned
    <3>1. tasks'[m] = IF cast[m].status \in OpenStatuses THEN [cast[m] EXCEPT !.status = "cancelled"]
                      ELSE cast[m]
      BY <2>1 DEF CloseTasks
    <3>2. cast[m] \in TaskRow \cup {NoTask} /\ (cast[m].status \in OpenStatuses => cast[m] \in TaskRow)
      BY <1>1 DEF NoTask, OpenStatuses
    <3>3. CASE cast[m].status \in OpenStatuses
      BY <1>1, <3>1, <3>2, <3>3 DEF TaskRow, OpenStatuses
    <3>4. CASE cast[m].status \notin OpenStatuses
      BY <1>1, <3>1, <3>2, <3>4
    <3> QED BY <3>3, <3>4
  <2>3. tasks' \in [Members -> TaskRow \cup {NoTask}]
    <3>1. DOMAIN tasks' = Members /\ tasks' = [m \in Members |-> tasks'[m]]
      BY <2>1 DEF CloseTasks
    <3> QED BY <2>2, <3>1
  <2>4. TasksInv' /\ \A m \in Members : TaskStep(m)
    BY <2>2, <2>3, TaskFacts DEF IInv, TasksInv, TaskStep, Exists, OpenStatuses
  <2>5. RequestsInv'
    BY <2>4, RequestsKept DEF TasksInv
  <2>6. group'.status = "completed"
    BY <2>1, <1>2
  <2>7. RunInv'
    BY <1>2, <2>1, <2>2, <2>6 DEF IInv, RunInv, Live
  <2> QED BY <2>4, <2>5, <2>7 DEF IInv
<1> QED BY <1>3, <1>4

LEMMA CommitInv ==
    ASSUME IInv, NEW s \in Sessions, Commit(s) PROVE IInv'
<1> DEFINE r == req[s]
<1>1. RequestOK(r) /\ Valid(r) /\ UNCHANGED <<form, active>>
  BY DEF Commit, IInv, RequestsInv
<1>2. \A v \in Sessions : req'[v] = req[v] \/ req'[v] = NoRequest
  BY DEF Commit, Close, IInv
<1>3. CASE r.op = "claim" /\ Claim(r)
  BY <1>1, <1>2, <1>3, ClaimInv DEF Valid
<1>4. CASE r.op = "return" /\ Return(r)
  BY <1>1, <1>2, <1>4, ReturnInv DEF Valid
<1>5. CASE r.op \in {"handover", "reassign"} /\ Handover(r)
  BY <1>1, <1>2, <1>5, HandoverInv DEF Valid
<1>6. CASE r.op = "add" /\ Add(r)
  BY <1>1, <1>2, <1>6, AddInv DEF Valid
<1>7. CASE r.op = "remove" /\ Remove(r)
  BY <1>1, <1>2, <1>7, RemoveInv DEF Valid
<1>8. CASE r.op = "complete" /\ Complete(r)
  BY <1>1, <1>2, <1>8, CompleteInv DEF Valid
<1> QED BY <1>3, <1>4, <1>5, <1>6, <1>7, <1>8 DEF Commit

-----------------------------------------------------------------------------
\* What a request reads is so when it reads it.
LEMMA OpenRequestInv ==
    ASSUME IInv, NEW s \in Sessions, OpenRequest(s) PROVE IInv'
<1>1. ASSUME NEW request, Open(s, request), RequestOK(request) PROVE IInv'
  <2>1. UNCHANGED <<tasks, group, run, jobs, active>> /\ req' = [req EXCEPT ![s] = request]
    BY <1>1 DEF Open
  <2>2. TasksInv' /\ RunInv'
    BY <2>1 DEF IInv, TasksInv, RunInv, Exists, Live
  <2>3. \A v \in Sessions : req'[v] = req[v] \/ req'[v] = request
    BY <2>1
  <2>4. RequestsInv'
    BY <1>1, <2>1, <2>3 DEF IInv, RequestsInv, RequestOK, Exists
  <2> QED BY <2>2, <2>4 DEF IInv
<1>2. active \subseteq Users
  BY DEF IInv, RunInv
<1>3. ASSUME NEW u \in Users, NEW t \in Members, IsOwner(u, t)
      PROVE  Exists(t) /\ tasks[t] \in TaskRow /\ tasks[t].version \in Nat
  <2>1. tasks[t].status \in OpenStatuses
    BY <1>3 DEF IsOwner, OpenStatuses
  <2>2. Exists(t) /\ tasks[t] \in TaskRow
    BY <2>1, OpenMeansLive
  <2> QED BY <2>2 DEF TaskRow
<1>4. ASSUME NEW u \in Users, NEW t \in Members, OpenClaim(s, u, t) PROVE IInv'
  <2>1. tasks[t].status = "pending" /\ tasks[t].assigned = u /\ IsOwner(u, t)
    BY <1>4 DEF OpenClaim, IsOwner
  <2>2. RequestOK(Request("claim", u, t))
    BY <1>3, <2>1 DEF Request, RequestOK
  <2> QED BY <1>1, <1>4, <2>2 DEF OpenClaim
<1>5. ASSUME NEW u \in Users, NEW t \in Members, OpenReturn(s, u, t) PROVE IInv'
  <2>1. RequestOK(Request("return", u, t))
    BY <1>3, <1>5 DEF Request, RequestOK, OpenReturn
  <2> QED BY <1>1, <1>5, <2>1 DEF OpenReturn
<1>6. ASSUME NEW u \in Users, NEW t \in Members, NEW d \in Decisions, OpenComplete(s, u, t, d)
      PROVE  IInv'
  <2> DEFINE request == [Request("complete", u, t) EXCEPT !.decision = d, !.next = FirstPending,
                 !.target = IF FirstPending = 0 THEN NoUser ELSE tasks[FirstPending].assigned]
  <2>1. RequestOK(request)
    BY <1>3, <1>6 DEF Request, RequestOK, OpenComplete
  <2> QED BY <1>1, <1>6, <2>1 DEF OpenComplete
<1>7. ASSUME NEW u \in Users, NEW t \in Members, NEW target \in Users,
             OpenHandover(s, u, t, target)
      PROVE  IInv'
  <2>1. RequestOK([Request("handover", u, t) EXCEPT !.target = target])
    BY <1>3, <1>7 DEF Request, RequestOK, OpenHandover
  <2> QED BY <1>1, <1>7, <2>1 DEF OpenHandover
<1>8. ASSUME NEW u \in Users, NEW t \in Members, NEW target \in Users, OpenAdd(s, u, t, target)
      PROVE  IInv'
  <2>1. RequestOK([Request("add", u, t) EXCEPT !.target = target])
    BY <1>3, <1>8 DEF Request, RequestOK, OpenAdd
  <2> QED BY <1>1, <1>8, <2>1 DEF OpenAdd
<1>9. ASSUME NEW u \in Users, NEW t \in Members, NEW m \in Members, OpenRemove(s, u, t, m)
      PROVE  IInv'
  <2>1. RequestOK([Request("remove", u, t) EXCEPT !.member = m])
    BY <1>3, <1>9 DEF Request, RequestOK, OpenRemove
  <2> QED BY <1>1, <1>9, <2>1 DEF OpenRemove
<1>10. ASSUME NEW t \in Members, NEW target \in Users, OpenReassign(s, t, target) PROVE IInv'
  <2>1. Exists(t)
    BY <1>10, OpenMeansLive DEF OpenReassign, Abandoned
  <2>2. RequestOK([Request("reassign", NoUser, t) EXCEPT !.target = target])
    BY <2>1 DEF Request, RequestOK
  <2> QED BY <1>1, <1>10, <2>2 DEF OpenReassign
<1> QED BY <1>4, <1>5, <1>6, <1>7, <1>8, <1>9, <1>10 DEF OpenRequest

\* No task changes, except that a stop closes the open ones.
LEMMA OthersInv ==
    ASSUME IInv,
           (\E s \in Sessions : Refuse(s)) \/ (\E u \in Users : Deactivate(u)) \/ Pause \/ Resume \/ Stop
           \/ UNCHANGED vars
    PROVE  IInv'
<1>1. ASSUME UNCHANGED <<tasks, group, jobs>>, active' \subseteq active,
             \/ run' = run
             \/ run \in {"waiting", "blocked"} /\ run' \in {"waiting", "blocked"},
             \A s \in Sessions : req'[s] = req[s] \/ req'[s] = NoRequest
      PROVE  IInv'
  <2>1. TasksInv' /\ RunInv'
    BY <1>1 DEF IInv, TasksInv, RunInv, Exists, Live
  <2>2. \A m \in Members : TaskStep(m)
    BY <1>1, TaskFacts DEF TaskStep, Exists, IInv
  <2>3. RequestsInv'
    BY <1>1, <2>1, <2>2, RequestsKept DEF TasksInv
  <2> QED BY <2>1, <2>3 DEF IInv
<1>2. ASSUME NEW s \in Sessions, Refuse(s) PROVE IInv'
  BY <1>1, <1>2 DEF Refuse, Close
<1>3. ASSUME NEW u \in Users, Deactivate(u) PROVE IInv'
  BY <1>1, <1>3 DEF Deactivate
<1>4. CASE Pause \/ Resume
  BY <1>1, <1>4 DEF Pause, Resume
<1>5. CASE UNCHANGED vars
  BY <1>1, <1>5 DEF vars
<1>6. CASE Stop
  <2>1. UNCHANGED <<group, jobs, active, req>> /\ run' = "cancelled" /\ tasks' = CloseTasks(tasks) /\ Live
    BY <1>6 DEF Stop, Live
  <2>2. ASSUME NEW m \in Members
        PROVE  /\ tasks'[m] \in TaskRow \cup {NoTask}
               /\ tasks'[m].assigned = tasks[m].assigned /\ tasks'[m].version = tasks[m].version
               /\ tasks'[m].claimedBy = tasks[m].claimedBy
               /\ tasks'[m].status = "absent" <=> tasks[m].status = "absent"
               /\ tasks'[m].status \notin OpenStatuses
               /\ tasks'[m].status = "completed" => tasks[m].status = "completed"
    <3>1. tasks'[m] = IF tasks[m].status \in OpenStatuses THEN [tasks[m] EXCEPT !.status = "cancelled"]
                      ELSE tasks[m]
      BY <2>1 DEF CloseTasks
    <3>2. CASE tasks[m].status \in OpenStatuses
      BY <3>1, <3>2, OpenMeansLive DEF TaskRow, OpenStatuses
    <3>3. CASE tasks[m].status \notin OpenStatuses
      BY <3>1, <3>3 DEF IInv, TasksInv
    <3> QED BY <3>2, <3>3
  <2>3. tasks' \in [Members -> TaskRow \cup {NoTask}]
    <3>1. tasks' = [m \in Members |-> tasks'[m]]
      BY <2>1 DEF CloseTasks
    <3> QED BY <2>2, <3>1
  <2>4. TasksInv' /\ \A m \in Members : TaskStep(m)
    BY <2>2, <2>3, TaskFacts DEF IInv, TasksInv, TaskStep, Exists, OpenStatuses
  <2>5. RequestsInv'
    BY <2>1, <2>4, RequestsKept DEF TasksInv
  <2>6. RunInv'
    BY <2>1, <2>2 DEF IInv, RunInv, Live
  <2> QED BY <2>4, <2>5, <2>6 DEF IInv
<1> QED BY <1>2, <1>3, <1>4, <1>5, <1>6

LEMMA NextInv == IInv /\ [Next]_vars => IInv'
<1> QED BY OpenRequestInv, CommitInv, OthersInv DEF Next

-----------------------------------------------------------------------------
\* The invariant is inductive.
THEOREM InductiveInvariant == Spec => []IInv
<1> QED BY InitInv, NextInv, PTL DEF Spec

\* No account signs an operation twice or holds two of its tasks, and a claimed or signed task
\* belongs to the account that claimed it (claimWorkflowTask, handover, reassignment, addition).
THEOREM EachSignsOnce == Spec => []OneVotePerUser
<1>1. IInv => OneVotePerUser
  <2> SUFFICES ASSUME IInv PROVE OneVotePerUser
    OBVIOUS
  <2>1. ASSUME NEW m \in Members, NEW n \in Members, m # n, tasks[m] # NoTask
        PROVE  tasks[m].assigned # tasks[n].assigned
    <3>1. Exists(m) /\ tasks[m] \in TaskRow
      BY <2>1, TaskFacts DEF IInv
    <3>2. tasks[m].assigned \in Users
      BY <3>1 DEF TaskRow
    <3>3. CASE Exists(n)
      BY <2>1, <3>1, <3>3 DEF IInv, TasksInv
    <3>4. CASE ~Exists(n)
      BY <3>2, <3>4, TaskFacts, GroupAssumption DEF IInv
    <3> QED BY <3>3, <3>4
  <2> QED BY <2>1 DEF OneVotePerUser, IInv, TasksInv
<1> QED BY <1>1, InductiveInvariant, PTL

\* The run goes on once, with the decided vote, and no task outlives the vote
\* (resumeWorkflowTask, controlWorkflowRun).
THEOREM GoesOnOnce == Spec => []ContinuedOnce
<1>1. IInv => ContinuedOnce
  BY DEF IInv, RunInv, ContinuedOnce, OpenMembers
<1> QED BY <1>1, InductiveInvariant, PTL

LEMMA FinalStep ==
    ASSUME IInv, [Next]_vars, group.status = "completed" PROVE UNCHANGED <<tasks, group, jobs>>
<1>1. ~Live /\ \A m \in Members : tasks[m].status \notin OpenStatuses
  BY DEF IInv, RunInv
<1>2. ASSUME NEW s \in Sessions, Commit(s) PROVE FALSE
  <2> DEFINE r == req[s]
  <2>1. RequestOK(r) /\ Valid(r)
    BY <1>2 DEF Commit, IInv, RequestsInv
  <2>2. \/ r.op \in {"claim", "return"} \/ r.op \in {"handover", "reassign"}
        \/ r.op = "add" \/ r.op = "remove" \/ r.op = "complete"
    BY <1>2 DEF Commit
  <2>3. CASE r.op \in {"claim", "return"}
    BY <1>1, <2>1, <2>3 DEF Valid, ClaimValid, ReturnValid, SameTask, RequestOK, OpenStatuses
  <2>4. CASE r.op \in {"handover", "reassign"}
    BY <2>1, <2>4 DEF Valid, HandoverValid
  <2>5. CASE r.op = "add"
    BY <2>1, <2>5 DEF Valid, AddValid, GroupUnchanged
  <2>6. CASE r.op = "remove"
    BY <2>1, <2>6 DEF Valid, RemoveValid, GroupUnchanged
  <2>7. CASE r.op = "complete"
    BY <2>1, <2>7 DEF Valid, CompleteValid
  <2> HIDE DEF r
  <2> QED BY <2>3, <2>4, <2>5, <2>6, <2>7, <2>2
<1>3. ASSUME NEW s \in Sessions, OpenRequest(s) PROVE UNCHANGED <<tasks, group, jobs>>
  <2>1. ASSUME NEW u \in Users, NEW t \in Members, NEW d \in Decisions,
               OpenClaim(s, u, t) \/ OpenReturn(s, u, t) \/ OpenComplete(s, u, t, d)
        PROVE  UNCHANGED <<tasks, group, jobs>>
    BY <2>1 DEF OpenClaim, OpenReturn, OpenComplete, Open
  <2>2. ASSUME NEW u \in Users, NEW t \in Members, NEW target \in Users,
               OpenHandover(s, u, t, target) \/ OpenAdd(s, u, t, target) \/ OpenReassign(s, t, target)
        PROVE  UNCHANGED <<tasks, group, jobs>>
    BY <2>2 DEF OpenHandover, OpenAdd, OpenReassign, Open
  <2>3. ASSUME NEW u \in Users, NEW t \in Members, NEW m \in Members, OpenRemove(s, u, t, m)
        PROVE  UNCHANGED <<tasks, group, jobs>>
    BY <2>3 DEF OpenRemove, Open
  <2>4. Decisions # {}
    BY DEF Decisions
  <2> QED BY <1>3, <2>1, <2>2, <2>3, <2>4 DEF OpenRequest
<1>4. CASE (\E s \in Sessions : Refuse(s)) \/ (\E u \in Users : Deactivate(u)) \/ Pause \/ Resume
           \/ UNCHANGED vars
  BY <1>4 DEF Refuse, Deactivate, Pause, Resume, vars
<1>5. CASE Stop
  BY <1>1, <1>5 DEF Stop, Live
<1> QED BY <1>2, <1>3, <1>4, <1>5 DEF Next

\* Nothing of a decided group changes, whatever requests were under way when it was decided.
THEOREM DecidedIsFinal == Spec => FinalVote
<1>1. IInv /\ [Next]_vars => [group.status = "completed" => UNCHANGED <<tasks, group, jobs>>]_vars
  BY FinalStep
<1> QED BY <1>1, InductiveInvariant, PTL DEF Spec, FinalVote

-----------------------------------------------------------------------------
\* The share rounded up is reached by the votes that reach it exactly.
LEMMA CeilingFacts ==
    ASSUME NEW x \in Nat, NEW n \in Nat
    PROVE  LET c == (x + 9999) \div 10000
           IN  c \in Nat /\ (n >= c <=> n * 10000 >= x)
OBVIOUS

\* What the share of a number of members weighs in basis points.
Weight(total) == total * Percent
Reaches(votes, total) == votes >= 1 /\ votes * 10000 >= Weight(total)

LEMMA PercentRange ==
    ASSUME form \in Form
    PROVE  /\ form.percent \in Nat /\ form.percent <= 10000
           /\ Percent \in Nat /\ 1 <= Percent /\ Percent <= 10000 /\ form.percent <= Percent
           /\ form.percent # 0 => Percent = form.percent
           /\ form.percent = 0 => Percent = 1
<1> DEFINE q == form.percent
<1>1. q \in 0..10000
  BY DEF Form
<1>2. Percent = IF q < 1 THEN 1 ELSE q
  BY DEF Percent
<1> HIDE DEF q
<1>3. q \in Nat /\ q <= 10000
  BY <1>1
<1>4. CASE q = 0
  <2>1. Percent = 1
    BY <1>2, <1>4
  <2> QED BY <1>3, <1>4, <2>1 DEF q
<1>5. CASE q # 0
  <2>1. Percent = q /\ q >= 1
    BY <1>2, <1>3, <1>5
  <2> QED BY <1>3, <1>5, <2>1 DEF q
<1> QED BY <1>4, <1>5

LEMMA WeightFacts ==
    ASSUME form \in Form, NEW total \in Nat \ {0}
    PROVE  /\ Weight(total) \in Nat /\ 1 <= Weight(total) /\ Weight(total) <= total * 10000
           /\ Weight(total + 1) \in Nat /\ Weight(total + 1) <= Weight(total) + 10000
           /\ Weight(total) <= Weight(total + 1)
<1> DEFINE p == Percent
<1>1. p \in Nat /\ 1 <= p /\ p <= 10000
  BY PercentRange
<1>2. Weight(total) = total * p /\ Weight(total + 1) = (total + 1) * p
  BY DEF Weight
<1> HIDE DEF p
<1>3. total * p \in Nat /\ (total + 1) * p = total * p + p
  BY <1>1
<1>4. 1 <= total * p /\ total * p <= total * 10000
  <2>1. \A a, b, c \in Nat : b <= c => a * b <= a * c
    OBVIOUS
  <2>2. \A a, b \in Nat : a > 0 /\ b > 0 => a * b > 0
    OBVIOUS
  <2>3. p > 0 /\ total \in Nat /\ total > 0
    BY <1>1
  <2>4. total * p > 0 /\ total * p <= total * 10000
    BY <1>1, <2>1, <2>2, <2>3
  <2> QED BY <1>3, <2>4
<1>5. Weight(total) \in Nat /\ 1 <= Weight(total) /\ Weight(total) <= total * 10000
  BY <1>2, <1>3, <1>4
<1>6. Weight(total + 1) = Weight(total) + p
  BY <1>2, <1>3
<1> QED BY <1>1, <1>5, <1>6

\* Between one and all of the members, reached by the votes that reach the share exactly; one
\* more member asks for at most one more vote.
LEMMA ShareFacts ==
    ASSUME form \in Form, NEW total \in Nat \ {0}
    PROVE  /\ Share(total) \in 1..total
           /\ \A votes \in Nat : votes >= Share(total) <=> Reaches(votes, total)
           /\ Share(total) <= Share(total + 1) /\ Share(total + 1) <= Share(total) + 1
<1> DEFINE c == (Weight(total) + 9999) \div 10000
           d == (Weight(total + 1) + 9999) \div 10000
<1>1. /\ Weight(total) \in Nat /\ 1 <= Weight(total) /\ Weight(total) <= total * 10000
      /\ Weight(total + 1) \in Nat /\ Weight(total + 1) <= Weight(total) + 10000
      /\ Weight(total) <= Weight(total + 1)
  <2>1. Weight(total) \in Nat /\ 1 <= Weight(total)
    BY WeightFacts
  <2>2. Weight(total) <= total * 10000
    BY WeightFacts
  <2>3. Weight(total + 1) \in Nat
    BY WeightFacts
  <2>4. Weight(total + 1) <= Weight(total) + 10000
    BY WeightFacts
  <2>5. Weight(total) <= Weight(total + 1)
    BY WeightFacts
  <2> QED BY <2>1, <2>2, <2>3, <2>4, <2>5
<1>2. /\ Share(total) = IF c < 1 THEN 1 ELSE IF c > total THEN total ELSE c
      /\ Share(total + 1) = IF d < 1 THEN 1 ELSE IF d > total + 1 THEN total + 1 ELSE d
  BY DEF Share, Weight
<1>3. c \in Nat /\ \A n \in Nat : n >= c <=> n * 10000 >= Weight(total)
  BY <1>1, CeilingFacts
<1>4. d \in Nat /\ \A n \in Nat : n >= d <=> n * 10000 >= Weight(total + 1)
  BY <1>1, CeilingFacts
<1> HIDE DEF c, d
<1>5. 1 <= c /\ c <= total
  <2>1. 0 \in Nat /\ total \in Nat
    OBVIOUS
  <2>2. 0 >= c <=> 0 * 10000 >= Weight(total)
    BY <1>3, <2>1
  <2>3. total >= c
    BY <1>1, <1>3, <2>1
  <2> QED BY <1>1, <1>3, <2>2, <2>3
<1>6. d <= c + 1
  <2>1. c + 1 \in Nat /\ c * 10000 >= Weight(total)
    BY <1>3
  <2>2. (c + 1) * 10000 >= Weight(total + 1)
    BY <1>1, <1>3, <2>1
  <2>3. c + 1 >= d
    BY <1>4, <2>1, <2>2
  <2> QED BY <1>3, <1>4, <2>3
<1>7. c <= d
  <2>1. d * 10000 >= Weight(total + 1)
    BY <1>4
  <2>2. d * 10000 >= Weight(total)
    BY <1>1, <1>4, <2>1
  <2> QED BY <1>3, <1>4, <2>2
<1>8. Share(total) = c /\ Share(total + 1) = d
  BY <1>2, <1>3, <1>4, <1>5, <1>6, <1>7
<1>9. \A votes \in Nat : votes >= c <=> Reaches(votes, total)
  BY <1>3, <1>5 DEF Reaches
<1>10. /\ Share(total) \in 1..total
       /\ Share(total) <= Share(total + 1) /\ Share(total + 1) <= Share(total) + 1
  BY <1>3, <1>4, <1>5, <1>6, <1>7, <1>8
<1> QED BY <1>8, <1>9, <1>10

LEMMA RequirementFacts ==
    ASSUME form \in Form, NEW total \in Nat \ {0}
    PROVE  /\ Requirement(total) \in 1..total
           /\ Requirement(total) <= Requirement(total + 1)
           /\ Requirement(total + 1) <= Requirement(total) + 1
<1>1. form.mode \in SignModes
  BY DEF Form
<1> QED BY <1>1, ShareFacts DEF Requirement, SignModes

\* The share in basis points, as it is stored and as it is used.
LEMMA PercentFacts ==
    ASSUME form \in Form, NEW total \in Nat \ {0}
    PROVE  /\ total * form.percent \in Nat /\ total * form.percent <= Weight(total)
           /\ total * (2 * form.percent + 1) = 2 * (total * form.percent) + total
           /\ total * (2 * Percent + 1) = 2 * Weight(total) + total
<1> DEFINE q == form.percent
           p == Percent
<1>1. q \in Nat /\ p \in Nat /\ q <= p
  BY PercentRange
<1>2. Weight(total) = total * p
  BY DEF Weight
<1> HIDE DEF p, q
<1>3. \A a, b, c \in Nat : b <= c => a * b <= a * c
  OBVIOUS
<1>4. total * q \in Nat /\ total * q <= total * p
  BY <1>1, <1>3
<1>5. \A a, b \in Nat : a * (2 * b + 1) = 2 * (a * b) + a
  OBVIOUS
<1> QED BY <1>1, <1>2, <1>4, <1>5 DEF p, q

\* A number of at most 141 squared is below what half a basis point is of.
LEMMA SquareFacts ==
    ASSUME NEW n \in 1..141, NEW m \in Nat, m <= n PROVE n * m \in Nat /\ n * m < 20000
<1>1. \A a, b, c \in Nat : b <= c => a * b <= a * c /\ b * a <= c * a
  OBVIOUS
<1>2. n * m \in Nat /\ n * m <= n * 141
  BY <1>1
<1> QED BY <1>2

\* The number a group is created with, and the one an additional member makes of it: they differ
\* by at most one in small groups.
LEMMA CeilingsFacts ==
    ASSUME form \in Form, NEW total \in Nat \ {0}, NEW k \in Ceilings(total)
    PROVE  /\ k \in 1..total
           /\ total <= 141 => k <= Share(total + 1) /\ Share(total + 1) <= k + 1
<1> DEFINE q == form.percent
           v == total * form.percent
           d == Share(total + 1)
<1>1. /\ k \in 1..total /\ (k - 1) * 20000 < 2 * v + total /\ k * 20000 + total >= 2 * v
      /\ v \in Nat
  BY PercentFacts DEF Ceilings
<1>2. q \in Nat /\ q <= 10000
  BY PercentRange
<1>3. CASE total <= 141 /\ q = 0
  <2>1. v = 0
    BY <1>3
  <2>2. Percent = 1 /\ Weight(total + 1) = total + 1
    <3>1. Percent = 1
      BY <1>3, PercentRange
    <3> QED BY <3>1 DEF Weight
  <2>3. d \in 1..(total + 1) /\ \A votes \in Nat : votes >= d <=> Reaches(votes, total + 1)
    BY ShareFacts
  <2>4. Reaches(1, total + 1)
    BY <1>3, <2>2 DEF Reaches
  <2>5. d = 1
    BY <2>3, <2>4
  <2>6. k = 1
    BY <1>1, <1>3, <2>1
  <2> QED BY <1>1, <2>5, <2>6
<1>4. CASE total <= 141 /\ q # 0
  <2>1. Weight(total + 1) = v + q
    <3>1. Percent = q
      BY <1>4, PercentRange
    <3>2. \A a, b \in Nat : (a + 1) * b = a * b + b
      OBVIOUS
    <3>3. Weight(total + 1) = (total + 1) * q
      BY <3>1 DEF Weight
    <3>4. (total + 1) * q = total * q + q
      BY <1>2, <3>2
    <3> QED BY <3>3, <3>4
  <2>2. d \in 1..(total + 1) /\ \A votes \in Nat : votes >= d <=> Reaches(votes, total + 1)
    BY ShareFacts
  <2>3. /\ d * 10000 >= v + q
        /\ d >= 2 => (d - 1) * 10000 < v + q
    <3>1. d \in Nat /\ Reaches(d, total + 1)
      BY <2>2
    <3>2. d >= 2 => d - 1 \in Nat /\ d - 1 >= 1 /\ ~Reaches(d - 1, total + 1)
      BY <2>2
    <3>3. d * 10000 >= Weight(total + 1)
      BY <3>1 DEF Reaches
    <3>4. d >= 2 => ~((d - 1) * 10000 >= Weight(total + 1))
      BY <3>2 DEF Reaches
    <3>5. v + q \in Nat
      BY <1>1, <1>2
    <3> HIDE DEF d, v, q
    <3>6. d * 10000 >= v + q
      BY <2>1, <3>3
    <3>7. d >= 2 => (d - 1) * 10000 < v + q
      <4>1. d \in Nat
        BY <3>1
      <4>2. d >= 2 => ~((d - 1) * 10000 >= v + q)
        BY <2>1, <3>4
      <4> QED BY <3>5, <4>1, <4>2
    <3> QED BY <3>6, <3>7
  <2>4. total \in 1..141 /\ q \in Nat /\ v = total * q /\ q <= 10000
    <3>1. total \in 1..141
      BY <1>4
    <3> QED BY <1>2, <3>1
  <2>7. k \in Nat /\ k >= 1 /\ k <= total /\ v \in Nat
    BY <1>1
  <2>8. d \in Nat /\ d >= 1 /\ d <= total + 1
    BY <2>2
  <2>9. (k - 1) * 20000 < 2 * v + total /\ k * 20000 + total >= 2 * v
    BY <1>1
  <2> HIDE DEF v, q, d
  <2>5. ASSUME ~(k <= d) PROVE FALSE
    <3>1. v + q <= 10000 * (k - 1) /\ k >= 2
      BY <2>3, <2>4, <2>5, <2>7, <2>8
    <3>2. 2 * q < total
      BY <2>4, <2>7, <2>9, <3>1
    <3>3. 2 * q + 1 \in Nat /\ 2 * q + 1 <= total
      BY <2>4, <3>2
    <3>4. total * (2 * q + 1) < 20000
      BY <2>4, <3>3, SquareFacts
    <3>5. total * (2 * q + 1) = 2 * v + total
      <4>1. \A a, b \in Nat : a * (2 * b + 1) = 2 * (a * b) + a
        OBVIOUS
      <4> QED BY <2>4, <4>1
    <3>6. (k - 1) * 20000 >= 20000
      BY <2>7, <3>1
    <3> QED BY <2>4, <2>7, <2>9, <3>4, <3>5, <3>6
  <2>6. ASSUME ~(d <= k + 1) PROVE FALSE
    <3>1. (k + 1) * 10000 < v + q /\ k + 2 <= total + 1
      BY <2>3, <2>4, <2>6, <2>7, <2>8
    <3> DEFINE rest == 10000 - q
    <3>2. rest \in Nat /\ 2 * rest < total
      BY <2>4, <2>7, <2>9, <3>1
    <3>3. 2 * rest + 1 \in Nat /\ 2 * rest + 1 <= total
      BY <2>4, <3>2
    <3> HIDE DEF rest
    <3>4. total * (2 * rest + 1) < 20000
      BY <2>4, <3>3, SquareFacts
    <3>5. total * (2 * rest + 1) = total * 20000 - 2 * v + total
      <4>1. \A a, b, c \in Nat : b + c = 10000 => a * (2 * c + 1) = a * 20000 - 2 * (a * b) + a
        OBVIOUS
      <4>2. q + rest = 10000
        BY <2>4 DEF rest
      <4> QED BY <2>4, <3>2, <4>1, <4>2
    <3>6. k * 20000 <= (total - 1) * 20000
      BY <2>4, <2>7, <3>1
    <3> QED BY <2>4, <2>7, <2>9, <3>4, <3>5, <3>6
  <2> QED BY <1>1, <2>2, <2>5, <2>6 DEF d
<1> QED BY <1>1, <1>2, <1>3, <1>4

\* The number asked for: the one of the group's creation, or the one of its members.
InForce ==
    \/ group.required = Requirement(group.total)
    \/ group.total = Len(form.signers) /\ group.required \in FirstRequirement(group.total)

LEMMA FirstFacts ==
    ASSUME form \in Form, NEW total \in Nat \ {0}, NEW k \in FirstRequirement(total)
    PROVE  /\ k \in 1..total
           /\ total <= 141 => k <= Requirement(total + 1) /\ Requirement(total + 1) <= k + 1
<1>1. form.mode \in SignModes
  BY DEF Form
<1>2. CASE form.mode = "orSignFor"
  BY <1>2 DEF FirstRequirement, Requirement
<1>3. CASE form.mode = "sequentialSignFor"
  BY <1>3 DEF FirstRequirement, Requirement
<1>4. CASE form.mode = "andSignFor"
  <2>1. k \in Ceilings(total) /\ Requirement(total + 1) = Share(total + 1)
    BY <1>4 DEF FirstRequirement, Requirement
  <2> QED BY <2>1, CeilingsFacts
<1> QED BY <1>1, <1>2, <1>3, <1>4 DEF SignModes

\* Votes that reach the number asked for reach the share, and those that do not fall short of it.
LEMMA InForceFacts ==
    ASSUME form \in Form, group.total \in Nat \ {0}, InForce, NEW votes \in Nat, votes <= group.total
    PROVE  /\ votes >= group.required => Reached(votes)
           /\ votes < group.required => Short(votes)
<1> DEFINE total == group.total
           required == group.required
           v == total * form.percent
           w == Weight(total)
<1>1. form.mode \in SignModes /\ total \in Nat \ {0} /\ votes <= total
  BY DEF Form
<1>2. CASE form.mode = "orSignFor"
  BY <1>2 DEF InForce, Requirement, FirstRequirement, Reached, Short
<1>3. CASE form.mode = "sequentialSignFor"
  BY <1>1, <1>3 DEF InForce, Requirement, FirstRequirement, Reached, Short
<1>4. CASE form.mode = "andSignFor"
  <2>1. /\ Reached(votes) <=> votes >= 1 /\ votes * 20000 + total >= 2 * v
        /\ Short(votes) <=> votes * 20000 < 2 * w + total
    BY <1>1, <1>4, PercentFacts DEF Reached, Short
  <2>2. v \in Nat /\ w \in Nat /\ v <= w /\ 1 <= w
    <3>1. v \in Nat /\ v <= w
      BY <1>1, PercentFacts
    <3>2. w \in Nat
      BY <1>1, WeightFacts
    <3>3. 1 <= w
      BY <1>1, WeightFacts
    <3> QED BY <3>1, <3>2, <3>3
  <2>3. CASE required = Requirement(total)
    <3>1. required = Share(total)
      BY <1>4, <2>3 DEF Requirement
    <3> HIDE DEF total, required
    <3>2. votes >= required <=> Reaches(votes, total)
      BY <1>1, <3>1, ShareFacts
    <3>3. required \in Nat
      BY <1>1, <3>1, ShareFacts
    <3>4. Reaches(votes, total) <=> votes >= 1 /\ votes * 10000 >= w
      BY DEF Reaches
    <3> HIDE DEF v, w
    <3> QED BY <1>1, <2>1, <2>2, <3>2, <3>3, <3>4 DEF total, required
  <2>4. CASE required \in FirstRequirement(total)
    <3>1. required \in Ceilings(total)
      BY <1>4, <2>4 DEF FirstRequirement
    <3>2. required \in 1..total /\ (required - 1) * 20000 < 2 * v + total /\ required * 20000 + total >= 2 * v
      BY <1>1, <3>1, PercentFacts DEF Ceilings
    <3> HIDE DEF v, w, total, required
    <3> QED BY <1>1, <2>1, <2>2, <3>2 DEF total, required
  <2> QED BY <2>3, <2>4 DEF InForce
<1> QED BY <1>1, <1>2, <1>3, <1>4 DEF SignModes

-----------------------------------------------------------------------------
\* The members who were not removed.
Standing(ts) == {m \in Members : ts[m].status \notin {"absent", "cancelled"}}

\* Half a basis point of the members is less than any difference that matters.
Small == Len(form.signers) <= 141

\* The tally agrees with the tasks; a vote that goes on is neither won nor, unless a member was
\* removed, lost; a decided one has the outcome its votes earned.
CountInv ==
    /\ form \in Form
    /\ group \in [status : {"waiting", "completed"}, outcome : {"none", "approved", "rejected"},
                  total : Members, required : Members, members : Nat]
    /\ used \in [inactive : Nat, pauses : Nat, moves : Nat, removed : Nat]
    /\ InForce
    /\ Live => group.total = Cardinality(Standing(tasks))
    /\ Live /\ Small => /\ Approvals < group.required
                        /\ used.removed = 0 => Approvals + Undecided >= group.required
    /\ group.status = "completed" =>
           /\ Cardinality(Decided(tasks)) <= group.total
           /\ \/ group.outcome = "approved" /\ Approvals >= group.required
              \/ group.outcome = "rejected" /\ Approvals + Undecided < group.required

LEMMA MembersFacts == IsFiniteSet(Members) /\ Cardinality(Members) = MaxTasks
BY BoundAssumption, FS_Interval DEF Members

LEMMA SetFacts ==
    ASSUME NEW ts, NEW d
    PROVE  /\ IsFiniteSet(Standing(ts)) /\ IsFiniteSet(Decided(ts)) /\ IsFiniteSet(With(ts, d))
           /\ Cardinality(Standing(ts)) \in Nat /\ Cardinality(Standing(ts)) <= MaxTasks
           /\ Cardinality(Decided(ts)) \in Nat /\ Cardinality(Decided(ts)) <= Cardinality(Standing(ts))
           /\ Cardinality(With(ts, d)) \in Nat /\ Cardinality(With(ts, d)) <= Cardinality(Decided(ts))
<1>1. Standing(ts) \in SUBSET Members /\ Decided(ts) \in SUBSET Standing(ts) /\ With(ts, d) \in SUBSET Decided(ts)
  BY DEF Standing, Decided, With
<1>2. IsFiniteSet(Standing(ts)) /\ Cardinality(Standing(ts)) <= MaxTasks
  BY <1>1, MembersFacts, FS_Subset
<1>3. IsFiniteSet(Decided(ts)) /\ Cardinality(Decided(ts)) <= Cardinality(Standing(ts))
  BY <1>1, <1>2, FS_Subset
<1>4. IsFiniteSet(With(ts, d)) /\ Cardinality(With(ts, d)) <= Cardinality(Decided(ts))
  BY <1>1, <1>3, FS_Subset
<1> QED BY <1>2, <1>3, <1>4, FS_CardinalityType

\* Tasks that only move between open statuses leave the counts as they are.
LEMMA SameSets ==
    ASSUME NEW ts, NEW us,
           \A m \in Members : \/ us[m] = ts[m]
                              \/ us[m].status \in OpenStatuses /\ ts[m].status \in OpenStatuses
    PROVE  Standing(us) = Standing(ts) /\ Decided(us) = Decided(ts) /\ \A d : With(us, d) = With(ts, d)
BY DEF Standing, Decided, With, OpenStatuses

LEMMA InForceKept ==
    ASSUME InForce, form' = form, group'.total = group.total, group'.required = group.required
    PROVE  InForce'
<1>1. /\ Requirement(group.total)' = Requirement(group.total)
      /\ FirstRequirement(group.total)' = FirstRequirement(group.total)
  BY DEF Requirement, Share, Percent, FirstRequirement, Ceilings
<1> QED BY <1>1 DEF InForce

LEMMA CountsKept ==
    ASSUME CountInv, form' = form, used' \in [inactive : Nat, pauses : Nat, moves : Nat, removed : Nat],
           used'.removed = used.removed,
           group' = group \/ group' = [group EXCEPT !.members = group.members + 1],
           Decided(tasks') = Decided(tasks), With(tasks', "approved") = With(tasks, "approved"),
           Live' => Live /\ Standing(tasks') = Standing(tasks)
    PROVE  CountInv'
<1>1. /\ group'.total = group.total /\ group'.required = group.required /\ group'.status = group.status
      /\ group'.outcome = group.outcome
      /\ group' \in [status : {"waiting", "completed"}, outcome : {"none", "approved", "rejected"},
                     total : Members, required : Members, members : Nat]
  BY DEF CountInv
<1>2. InForce' /\ (Small' <=> Small)
  BY <1>1, InForceKept DEF CountInv, Small
<1>3. Approvals' = Approvals /\ Undecided' = Undecided /\ Decided(tasks)' = Decided(tasks)
      /\ (Live' => Live /\ Standing(tasks)' = Standing(tasks))
  BY <1>1 DEF Approvals, Undecided, With, Decided, Standing
<1> QED BY <1>1, <1>2, <1>3 DEF CountInv

\* One open task moves between the open statuses.
LEMMA MoveStep ==
    ASSUME IInv, NEW r, RequestOK(r), Valid(r),
           \/ r.op = "claim" /\ Claim(r)
           \/ r.op = "return" /\ Return(r)
           \/ r.op \in {"handover", "reassign"} /\ Handover(r)
    PROVE  /\ r.task \in Members /\ tasks[r.task].status \in OpenStatuses
           /\ tasks'[r.task].status \in OpenStatuses
           /\ r.op # "claim" => tasks'[r.task].status = "pending"
           /\ \A m \in Members \ {r.task} : tasks'[m] = tasks[m]
           /\ Live /\ UNCHANGED run
<1>1. r.task \in Members /\ Exists(r.task)
  BY DEF RequestOK
<1>2. tasks[r.task] \in TaskRow
  BY <1>1, TaskFacts DEF IInv
<1>3. tasks[r.task].status \in OpenStatuses
  <2>1. CASE r.op = "claim"
    BY <2>1 DEF Valid, ClaimValid, SameTask, RequestOK, OpenStatuses
  <2>2. CASE r.op = "return"
    BY <2>2 DEF Valid, ReturnValid, SameTask, RequestOK, OpenStatuses
  <2>3. CASE r.op \in {"handover", "reassign"}
    BY <2>3 DEF Valid, HandoverValid, IsOwner, Abandoned, OpenStatuses
  <2> QED BY <2>1, <2>2, <2>3
<1>4. Live
  BY <1>1, <1>3, OpenMeansLive
<1>5. /\ tasks'[r.task].status \in OpenStatuses
      /\ r.op # "claim" => tasks'[r.task].status = "pending"
      /\ \A m \in Members \ {r.task} : tasks'[m] = tasks[m]
      /\ UNCHANGED run
  <2>1. CASE r.op = "claim" /\ Claim(r)
    BY <1>1, <1>2, <2>1 DEF Claim, IInv, TasksInv, TaskRow, OpenStatuses
  <2>2. CASE r.op = "return" /\ Return(r)
    BY <1>1, <1>2, <2>2 DEF Return, IInv, TasksInv, TaskRow, OpenStatuses
  <2>3. CASE r.op \in {"handover", "reassign"} /\ Handover(r)
    <3>1. tasks' = [tasks EXCEPT ![r.task] = [NewTask(r.target) EXCEPT !.version = tasks[r.task].version + 1]]
          /\ UNCHANGED run
      BY <2>3 DEF Handover
    <3>2. [NewTask(r.target) EXCEPT !.version = tasks[r.task].version + 1].status = "pending"
      BY DEF NewTask, NoTask
    <3> QED BY <1>1, <2>3, <3>1, <3>2 DEF IInv, TasksInv, OpenStatuses
  <2> QED BY <2>1, <2>2, <2>3
<1> QED BY <1>1, <1>3, <1>4, <1>5

LEMMA MoveCounts ==
    ASSUME IInv, CountInv, NEW r, RequestOK(r), Valid(r), form' = form,
           \/ r.op = "claim" /\ Claim(r)
           \/ r.op = "return" /\ Return(r)
           \/ r.op \in {"handover", "reassign"} /\ Handover(r)
    PROVE  CountInv'
<1>1. Standing(tasks') = Standing(tasks) /\ Decided(tasks') = Decided(tasks)
      /\ With(tasks', "approved") = With(tasks, "approved")
  <2>1. \A m \in Members : \/ tasks'[m] = tasks[m]
                           \/ tasks'[m].status \in OpenStatuses /\ tasks[m].status \in OpenStatuses
    BY MoveStep
  <2> QED BY <2>1, SameSets
<1>2. Live /\ UNCHANGED run
  BY MoveStep
<1>3. group' = group \/ group' = [group EXCEPT !.members = group.members + 1]
  BY DEF Claim, Return, Handover
<1>4. used' = used \/ used' = [used EXCEPT !.moves = used.moves + 1]
  BY DEF Claim, Return, Handover, Moved
<1>5. used' \in [inactive : Nat, pauses : Nat, moves : Nat, removed : Nat] /\ used'.removed = used.removed
  BY <1>4 DEF CountInv
<1> QED BY <1>1, <1>2, <1>3, <1>5, CountsKept

\* The group a change of the members leaves.
LEMMA ResizeFacts ==
    ASSUME CountInv, NEW total \in Members, group' = Resize(total), form' = form
    PROVE  /\ group'.total = total /\ group'.required = Requirement(total)
           /\ InForce' /\ (Small' <=> Small)
           /\ group'.status = group.status /\ group'.outcome = group.outcome
           /\ group' \in [status : {"waiting", "completed"}, outcome : {"none", "approved", "rejected"},
                          total : Members, required : Members, members : Nat]
<1>1. Requirement(total) \in Members
  <2>1. total \in Nat \ {0} /\ total <= MaxTasks /\ MaxTasks \in Nat
    BY BoundAssumption DEF Members
  <2>2. Requirement(total) \in 1..total
    BY <2>1, RequirementFacts DEF CountInv
  <2> QED BY <2>1, <2>2 DEF Members
<1>2. group' = [group EXCEPT !.total = total, !.required = Requirement(total), !.members = group.members + 1]
  BY DEF Resize
<1>3. /\ group'.total = total /\ group'.required = Requirement(total)
      /\ group'.status = group.status /\ group'.outcome = group.outcome
      /\ group' \in [status : {"waiting", "completed"}, outcome : {"none", "approved", "rejected"},
                     total : Members, required : Members, members : Nat]
  <2> DEFINE required == Requirement(total)
  <2>1. required \in Members /\ group.members + 1 \in Nat
    BY <1>1 DEF CountInv
  <2>2. group' = [group EXCEPT !.total = total, !.required = required, !.members = group.members + 1]
    BY <1>2
  <2> HIDE DEF required
  <2>3. /\ group'.total = total /\ group'.required = required
        /\ group'.status = group.status /\ group'.outcome = group.outcome
        /\ group' \in [status : {"waiting", "completed"}, outcome : {"none", "approved", "rejected"},
                       total : Members, required : Members, members : Nat]
    BY <2>1, <2>2 DEF CountInv
  <2> QED BY <2>3 DEF required
<1>4. Requirement(group.total)' = Requirement(total)
  BY <1>3 DEF Requirement, Share, Percent
<1>5. InForce' /\ (Small' <=> Small)
  BY <1>3, <1>4 DEF InForce, Small
<1> QED BY <1>3, <1>5

LEMMA AddCounts ==
    ASSUME IInv, CountInv, NEW r, RequestOK(r), r.op = "add", AddValid(r), Add(r), form' = form
    PROVE  CountInv'
<1>1. PICK new \in Members : tasks[new] = NoTask /\ tasks' = [tasks EXCEPT ![new] = NewTask(r.target)]
  BY DEF Add, IsNext
<1>2. /\ UNCHANGED <<run, used>> /\ group' = Resize(group.total + 1) /\ group.status = "waiting"
  BY DEF Add, AddValid, GroupUnchanged
<1>3. Live
  <2>1. r.task \in Members /\ tasks[r.task].status \in OpenStatuses
    BY DEF RequestOK, AddValid, GroupUnchanged, IsOwner, OpenStatuses
  <2> QED BY <2>1, OpenMeansLive
<1>4. tasks'[new] = NewTask(r.target) /\ \A m \in Members \ {new} : tasks'[m] = tasks[m]
  BY <1>1 DEF IInv, TasksInv
<1>5. NewTask(r.target).status = "pending" /\ tasks[new].status = "absent"
  BY <1>1 DEF NewTask, NoTask
<1>6. /\ Standing(tasks') = Standing(tasks) \cup {new} /\ new \notin Standing(tasks)
      /\ Decided(tasks') = Decided(tasks) /\ With(tasks', "approved") = With(tasks, "approved")
  BY <1>4, <1>5 DEF Standing, Decided, With
<1>7. Cardinality(Standing(tasks')) = group.total + 1 /\ group.total + 1 \in Members
  <2>1. Cardinality(Standing(tasks')) = Cardinality(Standing(tasks)) + 1
    BY <1>6, SetFacts, FS_AddElement
  <2>2. group.total = Cardinality(Standing(tasks)) /\ group.total \in Nat
    BY <1>3, SetFacts DEF CountInv
  <2>3. Cardinality(Standing(tasks')) <= MaxTasks /\ MaxTasks \in Nat
    BY SetFacts, BoundAssumption
  <2> QED BY <2>1, <2>2, <2>3 DEF Members
<1>8. /\ group'.total = group.total + 1 /\ group'.required = Requirement(group.total + 1)
      /\ InForce' /\ (Small' <=> Small) /\ group'.status = "waiting"
      /\ group' \in [status : {"waiting", "completed"}, outcome : {"none", "approved", "rejected"},
                     total : Members, required : Members, members : Nat]
  BY <1>2, <1>7, ResizeFacts
<1>9. /\ Small => group.required <= Requirement(group.total + 1)
                  /\ Requirement(group.total + 1) <= group.required + 1
      /\ group.required \in Nat /\ Requirement(group.total + 1) \in Nat
  <2>1. group.total \in Nat \ {0} /\ group.total + 1 \in Nat \ {0} /\ form \in Form
    BY <1>7 DEF CountInv, Members
  <2>2. Requirement(group.total + 1) \in 1..(group.total + 1) /\ group.required \in Nat
    BY <2>1, RequirementFacts DEF CountInv, Members
  <2>3. CASE group.required = Requirement(group.total)
    BY <2>1, <2>2, <2>3, RequirementFacts
  <2>4. CASE group.total = Len(form.signers) /\ group.required \in FirstRequirement(group.total)
    BY <2>1, <2>2, <2>4, FirstFacts DEF Small
  <2> QED BY <2>2, <2>3, <2>4 DEF CountInv, InForce
<1>10. Approvals' = Approvals /\ Decided(tasks)' = Decided(tasks) /\ Standing(tasks)' = Standing(tasks')
  BY <1>6 DEF Approvals, With, Decided, Standing
<1>11. Approvals \in Nat /\ Cardinality(Decided(tasks)) \in Nat /\ group.total \in Nat
  BY SetFacts DEF Approvals, CountInv, Members
<1>12. Undecided' = Undecided + 1 /\ Undecided \in Int
  BY <1>8, <1>10, <1>11 DEF Undecided
<1>13. Small => Approvals' < group'.required
  BY <1>3, <1>8, <1>9, <1>10, <1>11 DEF CountInv
<1>14. Small /\ used'.removed = 0 => Approvals' + Undecided' >= group'.required
  BY <1>2, <1>3, <1>8, <1>9, <1>10, <1>11, <1>12 DEF CountInv
<1> QED BY <1>2, <1>7, <1>8, <1>10, <1>13, <1>14 DEF CountInv

LEMMA RemoveCounts ==
    ASSUME IInv, CountInv, NEW r, RequestOK(r), r.op = "remove", RemoveValid(r), Remove(r), form' = form
    PROVE  CountInv'
<1> DEFINE m == r.member
<1>1. m \in Members /\ tasks[m].status = "pending" /\ group.status = "waiting" /\ group.total > 1
      /\ Approvals < Requirement(group.total - 1)
  BY DEF RequestOK, RemoveValid, GroupUnchanged, Approvals
<1>2. Live /\ tasks[m] \in TaskRow
  BY <1>1, OpenMeansLive DEF OpenStatuses
<1>3. tasks'[m].status = "cancelled" /\ \A n \in Members \ {m} : tasks'[n] = tasks[n]
  BY <1>1, <1>2 DEF Remove, IInv, TasksInv, TaskRow
<1>4. /\ Standing(tasks') = Standing(tasks) \ {m} /\ m \in Standing(tasks)
      /\ Decided(tasks') = Decided(tasks) /\ With(tasks', "approved") = With(tasks, "approved")
  BY <1>1, <1>3 DEF Standing, Decided, With
<1>5. UNCHANGED run /\ group' = Resize(group.total - 1) /\ used' = [used EXCEPT !.removed = used.removed + 1]
  BY DEF Remove
<1>6. Cardinality(Standing(tasks')) = group.total - 1 /\ group.total - 1 \in Members
  <2>1. Cardinality(Standing(tasks')) = Cardinality(Standing(tasks)) - 1
    BY <1>4, SetFacts, FS_RemoveElement
  <2>2. group.total = Cardinality(Standing(tasks)) /\ group.total \in Members
    BY <1>2 DEF CountInv
  <2> QED BY <1>1, <2>1, <2>2, BoundAssumption DEF Members
<1>7. /\ group'.total = group.total - 1 /\ group'.required = Requirement(group.total - 1)
      /\ InForce' /\ (Small' <=> Small) /\ group'.status = "waiting"
      /\ group' \in [status : {"waiting", "completed"}, outcome : {"none", "approved", "rejected"},
                     total : Members, required : Members, members : Nat]
  BY <1>1, <1>5, <1>6, ResizeFacts
<1>8. /\ used' \in [inactive : Nat, pauses : Nat, moves : Nat, removed : Nat]
      /\ used'.removed # 0
  BY <1>5 DEF CountInv
<1>9. Approvals' = Approvals /\ Standing(tasks)' = Standing(tasks')
  BY <1>4 DEF Approvals, With, Standing
<1> QED BY <1>1, <1>5, <1>6, <1>7, <1>8, <1>9 DEF CountInv

\* Closing the open tasks changes no decision.
LEMMA CloseFacts ==
    ASSUME NEW ts, \A m \in Members : ts[m].status \in OpenStatuses => ts[m] \in TaskRow
    PROVE  Decided(CloseTasks(ts)) = Decided(ts) /\ \A d : With(CloseTasks(ts), d) = With(ts, d)
<1>1. \A m \in Members : CloseTasks(ts)[m] = IF ts[m].status \in OpenStatuses
                                             THEN [ts[m] EXCEPT !.status = "cancelled"] ELSE ts[m]
  BY DEF CloseTasks
<1>2. \A m \in Members : \/ CloseTasks(ts)[m] = ts[m]
                         \/ CloseTasks(ts)[m].status = "cancelled" /\ ts[m].status \in OpenStatuses
  BY <1>1 DEF TaskRow
<1> QED BY <1>2 DEF Decided, With, OpenStatuses

\* What the evaluation answers, in the words of the invariant.
LEMMA ResultFacts ==
    ASSUME NEW ts, NEW total \in Nat, NEW required \in Nat, Cardinality(Decided(ts)) <= total
    PROVE  LET approved == Cardinality(With(ts, "approved"))
               left == total - Cardinality(Decided(ts))
           IN  /\ Result(ts, total, required) = "waiting" => approved < required /\ approved + left >= required
               /\ Result(ts, total, required) = "approved" => approved >= required
               /\ Result(ts, total, required) = "rejected" => approved + left < required
               /\ Result(ts, total, required) \in {"waiting", "approved", "rejected"}
<1> DEFINE approved == Cardinality(With(ts, "approved"))
           completed == Cardinality(Decided(ts))
<1>1. approved \in Nat /\ completed \in Nat /\ completed <= total
  BY SetFacts
<1>2. Result(ts, total, required) =
         IF approved >= required THEN "approved"
         ELSE IF approved + (IF total < completed THEN 0 ELSE total - completed) < required THEN "rejected"
         ELSE "waiting"
  BY DEF Result
<1> HIDE DEF approved, completed
<1>3. ~(total < completed)
  BY <1>1
<1>4. /\ Result(ts, total, required) = "waiting" => approved < required /\ approved + (total - completed) >= required
      /\ Result(ts, total, required) = "approved" => approved >= required
      /\ Result(ts, total, required) = "rejected" => approved + (total - completed) < required
      /\ Result(ts, total, required) \in {"waiting", "approved", "rejected"}
  <2>1. CASE approved >= required
    BY <1>1, <1>2, <2>1
  <2>2. CASE ~(approved >= required) /\ approved + (total - completed) < required
    BY <1>1, <1>2, <1>3, <2>2
  <2>3. CASE ~(approved >= required) /\ ~(approved + (total - completed) < required)
    BY <1>1, <1>2, <1>3, <2>3
  <2> QED BY <2>1, <2>2, <2>3
<1> QED BY <1>4 DEF approved, completed

LEMMA CompleteCounts ==
    ASSUME IInv, CountInv, NEW r, RequestOK(r), r.op = "complete", CompleteValid(r), Complete(r), form' = form
    PROVE  CountInv'
<1> DEFINE cast == [tasks EXCEPT ![r.task].status = "completed", ![r.task].decision = r.decision]
           result == Result(cast, group.total, group.required)
<1>1. /\ r.task \in Members /\ tasks[r.task].status = "claimed" /\ run = "waiting" /\ group.status = "waiting"
      /\ group.total \in Nat /\ group.required \in Nat
  BY DEF RequestOK, CompleteValid, CountInv, Members
<1>2. Live /\ tasks[r.task] \in TaskRow
  BY <1>1, OpenMeansLive DEF OpenStatuses
<1>3. cast[r.task].status = "completed" /\ \A m \in Members \ {r.task} : cast[m] = tasks[m]
  BY <1>1, <1>2 DEF IInv, TasksInv, TaskRow
<1>4. \A m \in Members : cast[m].status \in OpenStatuses => cast[m] \in TaskRow
  BY <1>3, OpenMeansLive DEF OpenStatuses
<1>5. \/ result = "waiting" /\ tasks' = cast /\ UNCHANGED <<group, run, used>>
      \/ /\ result # "waiting" /\ tasks' = CloseTasks(cast) /\ UNCHANGED used /\ run' \in {"cancelled", "queued"}
         /\ group' = [group EXCEPT !.status = "completed", !.outcome = result]
  BY DEF Complete
<1> HIDE DEF cast
<1>6. Standing(cast) = Standing(tasks)
  BY <1>1, <1>3 DEF Standing
<1>7. Cardinality(Standing(cast)) = group.total /\ Cardinality(Decided(cast)) <= group.total
  BY <1>2, <1>6, SetFacts DEF CountInv
<1>8. LET approved == Cardinality(With(cast, "approved"))
          left == group.total - Cardinality(Decided(cast))
      IN  /\ result = "waiting" => approved < group.required /\ approved + left >= group.required
          /\ result = "approved" => approved >= group.required
          /\ result = "rejected" => approved + left < group.required
          /\ result \in {"waiting", "approved", "rejected"}
  BY <1>1, <1>7, ResultFacts
<1> HIDE DEF result
<1>9. CASE result = "waiting"
  <2>1. tasks' = cast /\ UNCHANGED <<group, run, used, form>>
    BY <1>5, <1>9
  <2>2. /\ Approvals' = Cardinality(With(cast, "approved")) /\ Standing(tasks)' = Standing(cast)
        /\ Undecided' = group.total - Cardinality(Decided(cast))
        /\ InForce' /\ (Small' <=> Small)
    BY <2>1, InForceKept DEF Approvals, Undecided, With, Decided, Standing, CountInv, Small
  <2> QED BY <1>1, <1>2, <1>7, <1>8, <1>9, <2>1, <2>2 DEF CountInv
<1>10. CASE result # "waiting"
  <2>1. tasks' = CloseTasks(cast) /\ UNCHANGED <<used, form>> /\ run' \in {"cancelled", "queued"}
        /\ group' = [group EXCEPT !.status = "completed", !.outcome = result]
    BY <1>5, <1>10
  <2>2. result \in {"approved", "rejected"}
    BY <1>8, <1>10
  <2>3. /\ group'.total = group.total /\ group'.required = group.required /\ group'.outcome = result
        /\ group' \in [status : {"waiting", "completed"}, outcome : {"none", "approved", "rejected"},
                       total : Members, required : Members, members : Nat]
    BY <2>1, <2>2 DEF CountInv
  <2>4. /\ Approvals' = Cardinality(With(cast, "approved"))
        /\ Cardinality(Decided(tasks))' = Cardinality(Decided(cast))
        /\ Undecided' = group.total - Cardinality(Decided(cast))
        /\ InForce' /\ (Small' <=> Small)
    <3>1. Decided(CloseTasks(cast)) = Decided(cast) /\ With(CloseTasks(cast), "approved") = With(cast, "approved")
      BY <1>4, CloseFacts
    <3>2. With(tasks, "approved")' = With(tasks', "approved") /\ Decided(tasks)' = Decided(tasks')
          /\ InForce' /\ (Small' <=> Small)
      BY <2>1, <2>3, InForceKept DEF With, Decided, CountInv, Small
    <3> QED BY <2>1, <2>3, <3>1, <3>2 DEF Approvals, Undecided
  <2>5. ~Live'
    BY <2>1 DEF Live
  <2> QED BY <1>7, <1>8, <2>1, <2>2, <2>3, <2>4, <2>5 DEF CountInv
<1> QED BY <1>9, <1>10

LEMMA OtherCounts ==
    ASSUME IInv, CountInv,
           (\E s \in Sessions : OpenRequest(s) \/ Refuse(s)) \/ (\E u \in Users : Deactivate(u))
           \/ Pause \/ Resume \/ Stop \/ UNCHANGED vars
    PROVE  CountInv'
<1>1. ASSUME UNCHANGED <<form, tasks, group>>, Live' => Live,
             \/ used' = used
             \/ used' = [used EXCEPT !.inactive = used.inactive + 1]
             \/ used' = [used EXCEPT !.pauses = used.pauses + 1]
      PROVE  CountInv'
  <2>1. used' \in [inactive : Nat, pauses : Nat, moves : Nat, removed : Nat] /\ used'.removed = used.removed
    BY <1>1 DEF CountInv
  <2> QED BY <1>1, <2>1, CountsKept
<1>2. ASSUME NEW s \in Sessions, OpenRequest(s) PROVE CountInv'
  <2>1. Decisions # {}
    BY DEF Decisions
  <2>2. ASSUME NEW request, Open(s, request) PROVE UNCHANGED <<form, tasks, group, run, used>>
    BY <2>2 DEF Open
  <2>3. \E request : Open(s, request)
    BY <1>2, <2>1 DEF OpenRequest, OpenClaim, OpenReturn, OpenComplete, OpenHandover, OpenAdd, OpenRemove,
       OpenReassign
  <2> QED BY <1>1, <2>2, <2>3 DEF Live
<1>3. ASSUME NEW s \in Sessions, Refuse(s) PROVE CountInv'
  BY <1>1, <1>3 DEF Refuse, Live
<1>4. ASSUME NEW u \in Users, Deactivate(u) PROVE CountInv'
  BY <1>1, <1>4 DEF Deactivate, Live
<1>5. CASE Pause \/ Resume
  BY <1>1, <1>5 DEF Pause, Resume, Live
<1>6. CASE UNCHANGED vars
  BY <1>1, <1>6 DEF vars, Live
<1>7. CASE Stop
  <2>1. /\ UNCHANGED <<form, group>> /\ tasks' = CloseTasks(tasks) /\ ~Live'
        /\ used' = [used EXCEPT !.pauses = used.pauses + 1]
    BY <1>7 DEF Stop, Live
  <2>2. used' \in [inactive : Nat, pauses : Nat, moves : Nat, removed : Nat] /\ used'.removed = used.removed
    BY <2>1 DEF CountInv
  <2>3. \A m \in Members : tasks[m].status \in OpenStatuses => tasks[m] \in TaskRow
    BY OpenMeansLive
  <2>4. Decided(tasks') = Decided(tasks) /\ With(tasks', "approved") = With(tasks, "approved")
    BY <2>1, <2>3, CloseFacts
  <2> QED BY <2>1, <2>2, <2>4, CountsKept
<1> QED BY <1>2, <1>3, <1>4, <1>5, <1>6, <1>7

LEMMA CommitCounts ==
    ASSUME IInv, CountInv, NEW s \in Sessions, Commit(s) PROVE CountInv'
<1> DEFINE r == req[s]
<1>1. RequestOK(r) /\ Valid(r) /\ form' = form
  BY DEF Commit, IInv, RequestsInv
<1>2. CASE \/ r.op = "claim" /\ Claim(r)
           \/ r.op = "return" /\ Return(r)
           \/ r.op \in {"handover", "reassign"} /\ Handover(r)
  BY <1>1, <1>2, MoveCounts
<1>3. CASE r.op = "add" /\ Add(r)
  BY <1>1, <1>3, AddCounts DEF Valid
<1>4. CASE r.op = "remove" /\ Remove(r)
  BY <1>1, <1>4, RemoveCounts DEF Valid
<1>5. CASE r.op = "complete" /\ Complete(r)
  BY <1>1, <1>5, CompleteCounts DEF Valid
<1> QED BY <1>2, <1>3, <1>4, <1>5 DEF Commit

\* A new group waits for all its members.
LEMMA InitCounts == Init => CountInv
<1> SUFFICES ASSUME Init PROVE CountInv
  OBVIOUS
<1> DEFINE size == Len(form.signers)
<1>1. form \in Form /\ size \in Members /\ size \in Nat \ {0} /\ size <= MaxTasks
  <2>1. form \in Form /\ size \in Members
    BY GroupAssumption DEF Init
  <2> QED BY <2>1, BoundAssumption DEF Members
<1>2. tasks = [m \in Members |-> IF m <= size THEN NewTask(form.signers[m]) ELSE NoTask]
  BY DEF Init
<1>3. /\ \E required \in FirstRequirement(size) :
            group = [status |-> "waiting", outcome |-> "none", total |-> size,
                     required |-> required, members |-> 0]
      /\ used = [inactive |-> 0, pauses |-> 0, moves |-> 0, removed |-> 0]
  BY DEF Init
<1> HIDE DEF size
<1>4. \A m \in Members : m \in Nat /\ tasks[m].status = IF m <= size THEN "pending" ELSE "absent"
  <2>1. NoTask.status = "absent" /\ \A u : NewTask(u).status = "pending"
    BY DEF NewTask, NoTask
  <2>2. \A m \in Members : m \in Nat /\ (tasks[m] = NoTask \/ \E u : tasks[m] = NewTask(u))
                           /\ (m <= size <=> tasks[m] # NoTask)
    BY <1>1, <1>2, <2>1, BoundAssumption DEF Members
  <2> QED BY <2>1, <2>2
<1>5. Standing(tasks) = 1..size /\ Decided(tasks) = {} /\ With(tasks, "approved") = {}
  BY <1>1, <1>4, BoundAssumption DEF Standing, Decided, With, Members
<1>6. Cardinality(Standing(tasks)) = size
  BY <1>1, <1>5, FS_Interval
<1>7. PICK required \in FirstRequirement(size) :
          group = [status |-> "waiting", outcome |-> "none", total |-> size,
                   required |-> required, members |-> 0]
  BY <1>3
<1>8. Approvals = 0 /\ Undecided = size
  <2>1. group.total = size /\ Cardinality(Decided(tasks)) = 0 /\ Cardinality(With(tasks, "approved")) = 0
    BY <1>5, <1>7, FS_EmptySet
  <2> QED BY <1>1, <2>1 DEF Approvals, Undecided
<1>9. required \in Members /\ required \in Nat /\ 0 < required /\ required <= size
  <2>1. required \in 1..size
    BY <1>1, FirstFacts
  <2> QED BY <1>1, <2>1, BoundAssumption DEF Members
<1>10. /\ group.total = size /\ group.required = required /\ group.status = "waiting" /\ used.removed = 0
       /\ group \in [status : {"waiting", "completed"}, outcome : {"none", "approved", "rejected"},
                     total : Members, required : Members, members : Nat]
       /\ used \in [inactive : Nat, pauses : Nat, moves : Nat, removed : Nat]
  BY <1>1, <1>3, <1>7, <1>9
<1>11. InForce
  BY <1>10 DEF InForce, size
<1> QED BY <1>1, <1>6, <1>8, <1>9, <1>10, <1>11 DEF CountInv

\* The tally agrees with the tasks and the group's status with the tally, in every reachable state.
THEOREM CountsInvariant == Spec => []CountInv
<1>1. IInv /\ CountInv /\ [Next]_vars => CountInv'
  BY CommitCounts, OtherCounts DEF Next
<1> QED BY <1>1, InitCounts, InductiveInvariant, PTL DEF Spec

\* The outcome of a decided group is the one its votes mean, for any share and any number of
\* members, however they were added, removed and replaced while they voted
\* (evaluateApprovalResults).
THEOREM OutcomeIsEarned == Spec => []OutcomeEarned
<1>1. CountInv => OutcomeEarned
  <2> SUFFICES ASSUME CountInv, group.status = "completed"
               PROVE  /\ group.outcome = "approved" <=> Approvals >= group.required
                      /\ group.outcome = "approved" => Reached(Approvals)
                      /\ group.outcome = "rejected" => Short(Approvals + Undecided)
    BY DEF OutcomeEarned
  <2>1. form \in Form /\ group.total \in Nat \ {0} /\ InForce /\ group.required \in Nat
    BY DEF CountInv, Members
  <2>2. /\ Approvals \in Nat /\ Approvals <= Cardinality(Decided(tasks))
        /\ Cardinality(Decided(tasks)) \in Nat /\ Cardinality(Decided(tasks)) <= group.total
    BY SetFacts DEF Approvals, CountInv
  <2>3. /\ Approvals + Undecided \in Nat /\ Approvals <= Approvals + Undecided
        /\ Approvals + Undecided <= group.total /\ Approvals <= group.total
    BY <2>1, <2>2 DEF Undecided
  <2>4. /\ Approvals >= group.required => Reached(Approvals)
        /\ Approvals + Undecided < group.required => Short(Approvals + Undecided)
    BY <2>1, <2>2, <2>3, InForceFacts
  <2>5. \/ group.outcome = "approved" /\ Approvals >= group.required
        \/ group.outcome = "rejected" /\ Approvals + Undecided < group.required
    BY DEF CountInv
  <2> QED BY <2>1, <2>2, <2>3, <2>4, <2>5
<1> QED BY <1>1, CountsInvariant, PTL

\* While the vote of at most 141 members goes on it is not won, and unless a member was removed
\* it can still be (approvalRequirement, addWorkflowTaskSigner, removeWorkflowTaskSigner).
THEOREM VoteStillOpen == Spec => []StillOpen
<1>1. CountInv => StillOpen
  BY DEF CountInv, StillOpen, Small
<1> QED BY <1>1, CountsInvariant, PTL

\* The counts the group keeps are those of its member tasks (addWorkflowTaskSigner,
\* removeWorkflowTaskSigner).
THEOREM TallyIsKept == Spec => []TallyMatches
<1>1. IInv /\ CountInv => TallyMatches
  <2> SUFFICES ASSUME IInv, CountInv, Live PROVE /\ group.status = "waiting"
                                                 /\ group.total = Cardinality(Standing(tasks))
                                                 /\ Undecided = Cardinality(OpenMembers(tasks))
                                                 /\ InForce
    BY DEF TallyMatches, Standing, InForce
  <2>1. group.status = "waiting" /\ group.total = Cardinality(Standing(tasks))
        /\ InForce
    BY DEF IInv, RunInv, CountInv
  <2>2. \A m \in Members : tasks[m].status \in {"absent", "pending", "claimed", "completed", "cancelled"}
    BY DEF IInv, TasksInv, TaskRow, NoTask, OpenStatuses
  <2>3. OpenMembers(tasks) = Standing(tasks) \ Decided(tasks) /\ Decided(tasks) \subseteq Standing(tasks)
    BY <2>2 DEF OpenMembers, Standing, Decided, OpenStatuses
  <2>4. Cardinality(Standing(tasks) \ Decided(tasks)) = Cardinality(Standing(tasks)) - Cardinality(Decided(tasks))
    <3>1. Standing(tasks) \cap Decided(tasks) = Decided(tasks)
      BY <2>3
    <3> QED BY <3>1, SetFacts, FS_Difference
  <2> QED BY <2>1, <2>3, <2>4 DEF Undecided
<1> QED BY <1>1, CountsInvariant, InductiveInvariant, PTL

-----------------------------------------------------------------------------
\* A sequential group is signed from the front: whoever may claim, claims behind closed tasks.
Closed(m) == tasks[m].status \in {"completed", "cancelled"}
Sequential == form.mode = "sequentialSignFor"

OrderInv ==
    /\ \A m, n \in Members : m < n /\ Exists(n) => Exists(m)
    /\ Sequential => \A m, n \in Members : m < n /\ tasks[n].status \in {"claimed", "completed"} => Closed(m)
    /\ Sequential => \A s \in Sessions : req[s] # NoRequest /\ req[s].op = "claim" =>
                         \A m \in Members : m < req[s].task => Closed(m)

\* Closed tasks stay closed, tasks that exist stay, and only a claim whose earlier members are
\* closed, or a decision on a claimed task, gets a task signed.
OrderStep ==
    /\ form' = form
    /\ \A m \in Members : Exists(m) => Exists(m)'
    /\ \A m \in Members : Closed(m) => Closed(m)'
    /\ \A n \in Members : ~Exists(n) /\ Exists(n)' =>
           tasks'[n].status = "pending" /\ \A m \in Members : m < n => Exists(m)
    /\ \A n \in Members : tasks'[n].status \in {"claimed", "completed"} =>
           \/ tasks[n].status \in {"claimed", "completed"}
           \/ Sequential => \A m \in Members : m < n => Closed(m)
    /\ \A s \in Sessions : \/ req'[s] = req[s]
                           \/ req'[s] = NoRequest
                           \/ Sequential /\ req'[s].op = "claim" =>
                                  \A m \in Members : m < req'[s].task => Closed(m)

LEMMA OrderKept == OrderInv /\ OrderStep => OrderInv'
BY DEF OrderInv, OrderStep, Sequential

\* The turn a claim is tested for; the members of a group are there from the front.
LEMMA TurnFacts ==
    ASSUME IInv, OrderInv, NEW t \in Members, Exists(t), Turn(t), Sequential
    PROVE  \A m \in Members : m < t => Closed(m)
<1> SUFFICES ASSUME NEW m \in Members, m < t PROVE Closed(m)
  OBVIOUS
<1>1. m \in 1..(t - 1) /\ Exists(m)
  BY BoundAssumption DEF Members, OrderInv
<1>2. tasks[m].status \notin OpenStatuses /\ tasks[m] \in TaskRow
  BY <1>1, TaskFacts DEF Turn, Sequential, IInv
<1> QED BY <1>2 DEF Closed, TaskRow

LEMMA OpenOrder ==
    ASSUME IInv, OrderInv, NEW s \in Sessions, OpenRequest(s) PROVE OrderInv'
<1>1. ASSUME NEW request, Open(s, request),
             Sequential /\ request.op = "claim" => \A m \in Members : m < request.task => Closed(m)
      PROVE  OrderInv'
  <2>1. UNCHANGED <<form, tasks>> /\ \A v \in Sessions : req'[v] = req[v] \/ req'[v] = request
    BY <1>1 DEF Open
  <2>2. OrderStep
    BY <1>1, <2>1 DEF OrderStep, Exists, Closed
  <2> QED BY <2>2, OrderKept
<1>2. ASSUME NEW u \in Users, NEW t \in Members, OpenClaim(s, u, t) PROVE OrderInv'
  <2>1. Exists(t) /\ Turn(t) /\ Open(s, Request("claim", u, t))
    BY <1>2 DEF OpenClaim, Exists
  <2>2. Request("claim", u, t).task = t
    BY DEF Request
  <2> QED BY <1>1, <2>1, <2>2, TurnFacts
<1>3. ASSUME NEW u \in Users, NEW t \in Members, NEW op, op # "claim"
      PROVE  Request(op, u, t).op = op
  BY DEF Request
<1>4. ASSUME NEW u \in Users, NEW t \in Members, OpenReturn(s, u, t) PROVE OrderInv'
  <2>1. Request("return", u, t).op = "return"
    BY <1>3
  <2> QED BY <1>1, <1>4, <2>1 DEF OpenReturn
<1>5. ASSUME NEW u \in Users, NEW t \in Members, NEW d \in Decisions, OpenComplete(s, u, t, d) PROVE OrderInv'
  <2> DEFINE request == [Request("complete", u, t) EXCEPT !.decision = d, !.next = FirstPending,
                 !.target = IF FirstPending = 0 THEN NoUser ELSE tasks[FirstPending].assigned]
  <2>1. request.op = "complete"
    BY DEF Request
  <2> QED BY <1>1, <1>5, <2>1 DEF OpenComplete
<1>6. ASSUME NEW u \in Users, NEW t \in Members, NEW target \in Users,
             OpenHandover(s, u, t, target) \/ OpenAdd(s, u, t, target)
      PROVE  OrderInv'
  <2>1. /\ [Request("handover", u, t) EXCEPT !.target = target].op = "handover"
        /\ [Request("add", u, t) EXCEPT !.target = target].op = "add"
    BY DEF Request
  <2> QED BY <1>1, <1>6, <2>1 DEF OpenHandover, OpenAdd
<1>7. ASSUME NEW u \in Users, NEW t \in Members, NEW m \in Members, OpenRemove(s, u, t, m) PROVE OrderInv'
  <2>1. [Request("remove", u, t) EXCEPT !.member = m].op = "remove"
    BY DEF Request
  <2> QED BY <1>1, <1>7, <2>1 DEF OpenRemove
<1>8. ASSUME NEW t \in Members, NEW target \in Users, OpenReassign(s, t, target) PROVE OrderInv'
  <2>1. [Request("reassign", NoUser, t) EXCEPT !.target = target].op = "reassign"
    BY DEF Request
  <2> QED BY <1>1, <1>8, <2>1 DEF OpenReassign
<1> QED BY <1>2, <1>4, <1>5, <1>6, <1>7, <1>8 DEF OpenRequest

LEMMA CommitOrder ==
    ASSUME IInv, OrderInv, NEW s \in Sessions, Commit(s) PROVE OrderInv'
<1> DEFINE r == req[s]
<1>1. RequestOK(r) /\ Valid(r) /\ form' = form /\ r # NoRequest
  BY DEF Commit, IInv, RequestsInv
<1>2. \A v \in Sessions : req'[v] = req[v] \/ req'[v] = NoRequest
  BY DEF Commit, Close
<1>3. SUFFICES ASSUME IInv'
               PROVE  OrderStep
  BY CommitInv, OrderKept
<1>4. CASE \/ r.op = "claim" /\ Claim(r)
           \/ r.op = "return" /\ Return(r)
           \/ r.op \in {"handover", "reassign"} /\ Handover(r)
  <2>1. /\ r.task \in Members /\ tasks[r.task].status \in OpenStatuses
        /\ tasks'[r.task].status \in OpenStatuses
        /\ r.op # "claim" => tasks'[r.task].status = "pending"
        /\ \A m \in Members \ {r.task} : tasks'[m] = tasks[m]
    BY <1>1, <1>4, MoveStep
  <2>2. r.op = "claim" /\ Sequential => \A m \in Members : m < r.task => Closed(m)
    BY <1>1 DEF OrderInv
  <2> HIDE DEF r
  <2> QED BY <1>1, <1>2, <2>1, <2>2 DEF OrderStep, Exists, Closed, OpenStatuses
<1>5. CASE r.op = "add" /\ Add(r)
  <2>1. PICK new \in Members : IsNext(new) /\ tasks' = [tasks EXCEPT ![new] = NewTask(r.target)]
    BY <1>5 DEF Add
  <2>2. tasks'[new] = NewTask(r.target) /\ \A m \in Members \ {new} : tasks'[m] = tasks[m]
    BY <2>1 DEF IInv, TasksInv
  <2>3. ~Exists(new) /\ tasks'[new].status = "pending"
    <3>1. tasks[new] = NoTask
      BY <2>1 DEF IsNext
    <3>2. NoTask.status = "absent" /\ NewTask(r.target).status = "pending"
      BY DEF NewTask, NoTask
    <3> QED BY <2>2, <3>1, <3>2 DEF Exists
  <2>4. \A m \in Members : m < new => Exists(m)
    <3>1. \A m \in Members : m < new => m \in 1..(new - 1)
      BY BoundAssumption DEF Members
    <3> QED BY <2>1, <3>1, TaskFacts DEF IsNext, IInv
  <2> QED BY <1>1, <1>2, <2>2, <2>3, <2>4 DEF OrderStep, Exists, Closed
<1>6. CASE r.op = "remove" /\ Remove(r)
  <2>1. r.member \in Members /\ tasks[r.member].status = "pending"
    BY <1>1, <1>6 DEF RequestOK, Valid, RemoveValid
  <2>2. tasks[r.member] \in TaskRow
    BY <2>1, OpenMeansLive DEF OpenStatuses
  <2>3. tasks'[r.member].status = "cancelled" /\ \A m \in Members \ {r.member} : tasks'[m] = tasks[m]
    BY <1>6, <2>1, <2>2 DEF Remove, IInv, TasksInv, TaskRow
  <2> QED BY <1>1, <1>2, <2>1, <2>3 DEF OrderStep, Exists, Closed
<1>7. CASE r.op = "complete" /\ Complete(r)
  <2> DEFINE cast == [tasks EXCEPT ![r.task].status = "completed", ![r.task].decision = r.decision]
  <2>1. r.task \in Members /\ tasks[r.task].status = "claimed"
    BY <1>1, <1>7 DEF RequestOK, Valid, CompleteValid
  <2>2. tasks[r.task] \in TaskRow
    BY <2>1, OpenMeansLive DEF OpenStatuses
  <2>3. cast[r.task].status = "completed" /\ \A m \in Members \ {r.task} : cast[m] = tasks[m]
    BY <2>1, <2>2 DEF IInv, TasksInv, TaskRow
  <2>4. tasks' = cast \/ tasks' = CloseTasks(cast)
    BY <1>7 DEF Complete
  <2> HIDE DEF cast
  <2>5. \A m \in Members : cast[m].status \in OpenStatuses => cast[m] \in TaskRow
    BY <2>3, OpenMeansLive DEF OpenStatuses
  <2>6. \A m \in Members : \/ tasks'[m] = cast[m]
                           \/ tasks'[m].status = "cancelled" /\ cast[m].status \in OpenStatuses
    BY <2>4, <2>5 DEF CloseTasks, TaskRow
  <2> QED BY <1>1, <1>2, <2>1, <2>3, <2>6 DEF OrderStep, Exists, Closed, OpenStatuses
<1> QED BY <1>4, <1>5, <1>6, <1>7 DEF Commit

LEMMA OtherOrder ==
    ASSUME IInv, OrderInv,
           (\E s \in Sessions : Refuse(s)) \/ (\E u \in Users : Deactivate(u))
           \/ Pause \/ Resume \/ Stop \/ UNCHANGED vars
    PROVE  OrderInv'
<1> SUFFICES OrderStep
  BY OrderKept
<1>1. CASE (\E s \in Sessions : Refuse(s)) \/ (\E u \in Users : Deactivate(u)) \/ Pause \/ Resume
           \/ UNCHANGED vars
  <2>1. UNCHANGED <<form, tasks>> /\ \A v \in Sessions : req'[v] = req[v] \/ req'[v] = NoRequest
    <3>1. ASSUME NEW s \in Sessions, Refuse(s)
          PROVE  UNCHANGED <<form, tasks>> /\ \A v \in Sessions : req'[v] = req[v] \/ req'[v] = NoRequest
      BY <3>1 DEF Refuse, Close
    <3>2. ASSUME NEW u \in Users, Deactivate(u) PROVE UNCHANGED <<form, tasks, req>>
      BY <3>2 DEF Deactivate
    <3>3. Pause \/ Resume \/ UNCHANGED vars => UNCHANGED <<form, tasks, req>>
      BY DEF Pause, Resume, vars
    <3> QED BY <1>1, <3>1, <3>2, <3>3
  <2> QED BY <2>1 DEF OrderStep, Exists, Closed
<1>2. CASE Stop
  <2>1. UNCHANGED <<form, req>> /\ tasks' = CloseTasks(tasks)
    BY <1>2 DEF Stop
  <2>2. \A m \in Members : tasks[m].status \in OpenStatuses => tasks[m] \in TaskRow
    BY OpenMeansLive
  <2>3. \A m \in Members : \/ tasks'[m] = tasks[m]
                           \/ tasks'[m].status = "cancelled" /\ tasks[m].status \in OpenStatuses
    BY <2>1, <2>2 DEF CloseTasks, TaskRow
  <2> QED BY <2>1, <2>3 DEF OrderStep, Exists, Closed, OpenStatuses
<1> QED BY <1>1, <1>2

LEMMA InitOrder == Init => OrderInv
<1> SUFFICES ASSUME Init PROVE OrderInv
  OBVIOUS
<1>1. Len(form.signers) \in Members
  BY GroupAssumption DEF Init
<1>2. /\ \A m \in Members : \/ m <= Len(form.signers) /\ tasks[m].status = "pending"
                            \/ ~(m <= Len(form.signers)) /\ tasks[m].status = "absent"
  BY DEF Init, NewTask, NoTask
<1>3. req = [s \in Sessions |-> NoRequest]
  BY DEF Init
<1> QED BY <1>1, <1>2, <1>3, BoundAssumption DEF OrderInv, Exists, Members

\* A sequential group is signed in order, though the turn is tested outside the transaction
\* that claims: a turn that came is never taken back (claimWorkflowTask).
THEOREM InOrder == Spec => []SignedInOrder
<1>1. IInv /\ OrderInv /\ [Next]_vars => OrderInv'
  BY OpenOrder, CommitOrder, OtherOrder DEF Next
<1>2. OrderInv => SignedInOrder
  BY DEF OrderInv, SignedInOrder, Closed, Sequential, OpenStatuses
<1> QED BY <1>1, <1>2, InitOrder, InductiveInvariant, PTL DEF Spec
================================================================================
