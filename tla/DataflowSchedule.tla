---------------------------- MODULE DataflowSchedule ----------------------------
(***************************************************************************)
(* The native schedule of one data flow: people save, activate, pause and  *)
(* delete it, publish, archive and restore the flow and its project, while *)
(* several servers look for due schedules and admit a run for each due     *)
(* instant (dataflow-schedule.ts, queueDueNativeDataflowsOnce).            *)
(*                                                                         *)
(* A change a person asks for is one transaction that locks the project,   *)
(* the flow and the schedule, and refuses a revision that is not the       *)
(* present one; a server reads what is due in a statement of its own and   *)
(* admits it later.  A cron expression is the set of instants it names.    *)
(* Hosted schedules, which no server discovers, are left out.              *)
(***************************************************************************)
EXTENDS Integers, Sequences

CONSTANTS
    Servers,
    Crons,          \* cron expressions: sets of instants
    Horizon,        \* bound: the last instant
    MaxRevisions,   \* bound: changes of the schedule that people make
    MaxManual,      \* bound: runs people start
    MaxFaults,      \* bound: crashes of a server and commits whose answer is lost
    MaxMoves        \* bound: changes of the flow, the project and the owner's account

Instants == 0..Horizon

ASSUME ScheduleAssumption ==
    /\ Crons # {} /\ \A cron \in Crons : cron \subseteq Nat
    \* a cron expression has a next instant after any instant
    /\ \A cron \in Crons, after \in Instants :
          \E t \in cron : t > after /\ \A s \in cron : s > after => t <= s
    /\ {Horizon, MaxRevisions, MaxManual, MaxFaults, MaxMoves} \subseteq Nat

VARIABLES
    schedule,   \* dataflow_schedule: status, revision, cronExpression, nextRunAt
    flow,       \* workflow.status and archivedAt
    project,    \* flow_project.status
    owner,      \* users.status of the project's owner
    clock,      \* UTC_TIMESTAMP()
    scan,       \* each server: the due schedule it has read, and what is left to do with it
    runs,       \* dataflow_run rows in order: scheduleBucket, and when they were admitted
    open,       \* runs queued or running, by position
    paused,     \* history: buckets for which a server paused the schedule
    spent

scheduleVars == <<schedule, flow, project, owner, clock, scan, runs, open, paused, spent>>

Never == -1         \* nextRunAt IS NULL
NoScan == [pc |-> "idle", revision |-> 0, due |-> Never]
Manual == [revision |-> 0, due |-> Never, at |-> 0]

ScheduleTypeOK ==
    /\ schedule \in [status : {"none", "paused", "active", "deleted"}, revision : Nat,
                     cron : Crons, next : Nat \cup {Never}]
    /\ flow \in {"draft", "published", "archived"}
    /\ project \in {"active", "archived"} /\ owner \in {"active", "inactive"}
    /\ clock \in Instants
    /\ scan \in [Servers -> [pc : {"idle", "admit", "failed"}, revision : Nat, due : Nat \cup {Never}]]
    /\ runs \in Seq([revision : Nat, due : Nat \cup {Never}, at : Instants])
    /\ open \subseteq DOMAIN runs

\* nextDataflowScheduleRun
NextInstant(cron, after) == CHOOSE t \in cron : t > after /\ \A s \in cron : s > after => t <= s

ScheduleInit ==
    /\ \E cron \in Crons :
          schedule = [status |-> "none", revision |-> 0, cron |-> cron, next |-> Never]
    /\ flow = "published" /\ project = "active" /\ owner = "active"
    /\ clock = 0
    /\ scan = [v \in Servers |-> NoScan]
    /\ runs = <<>> /\ open = {} /\ paused = {}
    /\ spent = [manual |-> 0, faults |-> 0, moves |-> 0]

-----------------------------------------------------------------------------
(* What people do with the schedule.                                       *)

Revised(status, cron, next) ==
    /\ schedule.revision < MaxRevisions
    /\ schedule' = [status |-> status, revision |-> schedule.revision + 1, cron |-> cron,
                    next |-> next]
    /\ UNCHANGED <<flow, project, owner, clock, scan, runs, open, paused, spent>>

\* saveNativeDataflowSchedule: a draft, also in the row of a deleted schedule.
Save(cron) ==
    /\ project = "active" /\ flow = "published" /\ schedule.status # "active"
    /\ Revised("paused", cron, Never)

\* changeNativeDataflowSchedule
Activate ==
    /\ project = "active" /\ flow = "published" /\ schedule.status = "paused"
    /\ Revised("active", schedule.cron, NextInstant(schedule.cron, clock))

Withdraw(status) ==
    /\ project = "active" /\ schedule.status \in {"paused", "active"}
    /\ Revised(status, schedule.cron, Never)

Pause == Withdraw("paused")
Delete == Withdraw("deleted")

-----------------------------------------------------------------------------
(* The servers.                                                            *)

\* The query for due schedules, before any of them is locked.
Scan(v) ==
    /\ scan[v].pc = "idle"
    /\ schedule.status = "active" /\ schedule.next <= clock
    /\ scan' = [scan EXCEPT ![v] = [pc |-> "admit", revision |-> schedule.revision,
                                    due |-> schedule.next]]
    /\ UNCHANGED <<schedule, flow, project, owner, clock, runs, open, paused, spent>>

Bucket(v) == [revision |-> scan[v].revision, due |-> scan[v].due]

\* What runDataflow asks before it looks at the schedule: account, project and flow.
Runnable == owner = "active" /\ project = "active" /\ flow = "published"

\* lockNativeScheduleAdmission
StillDue(v) ==
    /\ schedule.status = "active" /\ schedule.next <= clock
    /\ schedule.revision = scan[v].revision /\ schedule.next = scan[v].due

\* Faulty variant: each missed instant is made up for.
FollowingInstant == NextInstant(schedule.cron, schedule.next)

\* advanceNativeDataflowSchedule: downtime is coalesced into one run.
Following == NextInstant(schedule.cron, clock)

Settle(v, pc) == scan' = [scan EXCEPT ![v] = IF pc = "idle" THEN NoScan ELSE [@ EXCEPT !.pc = pc]]

\* The run is queued and the schedule advanced in one transaction.  The answer to its commit
\* may be lost, which the server takes for a failure of the admission.
Admit(v) ==
    /\ scan[v].pc = "admit" /\ Runnable /\ StillDue(v)
    /\ \A i \in DOMAIN runs : [revision |-> runs[i].revision, due |-> runs[i].due] # Bucket(v)
    /\ runs' = Append(runs, [revision |-> scan[v].revision, due |-> scan[v].due, at |-> clock])
    /\ open' = open \cup {Len(runs) + 1}
    /\ schedule' = [schedule EXCEPT !.next = Following]
    /\ \/ Settle(v, "idle") /\ UNCHANGED spent
       \/ /\ spent.faults < MaxFaults
          /\ Settle(v, "failed")
          /\ spent' = [spent EXCEPT !.faults = @ + 1]
    /\ UNCHANGED <<flow, project, owner, clock, paused>>

\* ScheduleSupersededError: nothing is left to do.
Superseded(v) ==
    /\ scan[v].pc = "admit" /\ Runnable /\ ~StillDue(v)
    /\ Settle(v, "idle")
    /\ UNCHANGED <<schedule, flow, project, owner, clock, runs, open, paused, spent>>

\* The account, the project or the flow refuses, or a resource of the flow is not ready.
Reject(v) ==
    /\ scan[v].pc = "admit"
    /\ Settle(v, "failed")
    /\ UNCHANGED <<schedule, flow, project, owner, clock, runs, open, paused, spent>>

\* A transient error of the database: the schedule stays due.
Defer(v) ==
    /\ scan[v].pc = "admit"
    /\ Settle(v, "idle")
    /\ UNCHANGED <<schedule, flow, project, owner, clock, runs, open, paused, spent>>

\* Faulty variant: the instant is not compared.
SameDueByRevision(v) == schedule.revision = scan[v].revision /\ schedule.status = "active"

\* Faulty variant: the instant is compared in another format, and is never the same.
SameDueAsText(v) == FALSE

\* The WHERE clause of the update that pauses a schedule.
SameDue(v) ==
    /\ schedule.revision = scan[v].revision /\ schedule.status = "active"
    /\ schedule.next = scan[v].due

\* An admission that failed pauses the schedule, if it still is what was read.
PauseFailed(v) ==
    /\ scan[v].pc = "failed"
    /\ IF SameDue(v)
       THEN /\ schedule' = [schedule EXCEPT !.status = "paused", !.revision = @ + 1, !.next = Never]
            /\ paused' = paused \cup {Bucket(v)}
       ELSE UNCHANGED <<schedule, paused>>
    /\ Settle(v, "idle")
    /\ UNCHANGED <<flow, project, owner, clock, runs, open, spent>>

ServerDies(v) ==
    /\ scan[v].pc # "idle" /\ spent.faults < MaxFaults
    /\ Settle(v, "idle")
    /\ spent' = [spent EXCEPT !.faults = @ + 1]
    /\ UNCHANGED <<schedule, flow, project, owner, clock, runs, open, paused>>

-----------------------------------------------------------------------------
(* Runs, the flow and its project.                                         *)

\* runDataflow for a person, who may also test a draft.
StartManually ==
    /\ project = "active" /\ flow # "archived" /\ spent.manual < MaxManual
    /\ runs' = Append(runs, [Manual EXCEPT !.at = clock])
    /\ open' = open \cup {Len(runs) + 1}
    /\ spent' = [spent EXCEPT !.manual = @ + 1]
    /\ UNCHANGED <<schedule, flow, project, owner, clock, scan, paused>>

\* A run ends (DataflowJob).
EndRun ==
    /\ \E i \in open : open' = open \ {i}
    /\ UNCHANGED <<schedule, flow, project, owner, clock, scan, runs, paused, spent>>

Move(newFlow, newProject, newOwner) ==
    /\ spent.moves < MaxMoves
    /\ flow' = newFlow /\ project' = newProject /\ owner' = newOwner
    /\ spent' = [spent EXCEPT !.moves = @ + 1]
    /\ UNCHANGED <<schedule, clock, scan, runs, open, paused>>

\* updateWorkflow
Publish == project = "active" /\ flow = "draft" /\ Move("published", project, owner)
Unpublish == project = "active" /\ flow = "published" /\ Move("draft", project, owner)

\* Faulty variant: an active schedule does not keep the flow.
QuietRuns == open = {}

\* No run of the flow is open, and its schedule is not active.
Quiet == open = {} /\ schedule.status # "active"

\* archiveWorkflow and restoreWorkflow
Archive == flow # "archived" /\ Quiet /\ Move("archived", project, owner)
Restore == project = "active" /\ flow = "archived" /\ Move("draft", project, owner)

\* changeProjectStatus: with the project its flows are archived; they are not restored with it.
ArchiveProject == project = "active" /\ Quiet /\ Move("archived", "archived", owner)
RestoreProject == project = "archived" /\ Move(flow, "active", owner)

\* The owner's account is deactivated or activated.
ChangeOwner == Move(flow, project, IF owner = "active" THEN "inactive" ELSE "active")

Tick ==
    /\ clock < Horizon
    /\ clock' = clock + 1
    /\ UNCHANGED <<schedule, flow, project, owner, scan, runs, open, paused, spent>>

-----------------------------------------------------------------------------
Attempt(v) == Admit(v) \/ Superseded(v) \/ Reject(v)

ScheduleNext ==
    \/ \E cron \in Crons : Save(cron)
    \/ Activate \/ Pause \/ Delete
    \/ \E v \in Servers : Scan(v) \/ Attempt(v) \/ Defer(v) \/ PauseFailed(v) \/ ServerDies(v)
    \/ StartManually \/ EndRun
    \/ Publish \/ Unpublish \/ Archive \/ Restore \/ ArchiveProject \/ RestoreProject
    \/ ChangeOwner \/ Tick

ScheduleSpec == ScheduleInit /\ [][ScheduleNext]_scheduleVars

\* Every server polls; the database is not out of reach for ever (SF: an attempt may be deferred).
FairScheduleSpec ==
    /\ ScheduleSpec
    /\ \A v \in Servers : /\ WF_scheduleVars(Scan(v)) /\ SF_scheduleVars(Attempt(v))
                          /\ WF_scheduleVars(PauseFailed(v))

-----------------------------------------------------------------------------
(* Properties.                                                             *)

Scheduled == {i \in DOMAIN runs : runs[i].revision # 0}

\* Whatever the servers read and whatever people change, a run is for an instant after all
\* earlier runs of the schedule were admitted: none is admitted twice, and what was missed is
\* made up by one run ("coalesce downtime into one durable admission").
OncePerInstant ==
    \A i, k \in Scheduled : i < k => runs[i].at < runs[k].due

\* A schedule is not paused for an instant that has its run, also if the answer to the commit
\* was lost or another server admitted it (the WHERE clause of queueDueNativeDataflowsOnce).
RunOrPaused ==
    \A i \in Scheduled : [revision |-> runs[i].revision, due |-> runs[i].due] \notin paused

\* An archived flow has no active schedule and no open run, whichever of archiving, admitting,
\* starting and activating comes first (archiveWorkflow, changeProjectStatus against runDataflow).
ArchivedQuiet ==
    /\ flow = "archived" => open = {} /\ schedule.status # "active"
    /\ project = "archived" => flow = "archived"

\* A due instant does not stay due: it gets its run, or the schedule is paused or changed.
DueHandled ==
    \A t \in Instants :
        (schedule.status = "active" /\ schedule.next = t /\ t <= clock)
            ~> ~(schedule.status = "active" /\ schedule.next = t)
=============================================================================
