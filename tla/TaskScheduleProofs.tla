-------------------------- MODULE TaskScheduleProofs --------------------------
(***************************************************************************)
(* Proofs about TaskSchedule, for any tasks, groups, users, delays and     *)
(* number of moves.                                                        *)
(*                                                                         *)
(* Every part of the invariant is about one task, so a step is treated     *)
(* task by task: most leave the notices of a task alone or cancel them     *)
(* (KeptInv), the others plan, move, copy or send them.  ToldOnce needs a  *)
(* budget: what a user was told of an event, plus one where another        *)
(* telling is planned, is covered by the turns the user had (Budget), and  *)
(* whoever holds a task, or was read as its holder by a decision in flight,*)
(* had a turn (Turned, ReadInv).  NoticesKept follows from what each task  *)
(* called upon has (NoticeInv).                                            *)
(***************************************************************************)
EXTENDS TaskSchedule, TLAPS

Rows == [Events -> [Users -> Live \cup {"none", "fired", "cancelled"}]]
TaskRecord == [status : Open \cup {"none", "completed", "cancelled"},
               holders : SUBSET Users, claimer : Users \cup {NoUser}, operable : BOOLEAN]
SeenRecord == [turns : [Tasks -> [Users -> Nat]], missed : SUBSET Tasks,
               called : SUBSET Tasks, astray : SUBSET Tasks]
ReadRecord == [by : Users \cup {NoUser}, next : SUBSET Tasks, holders : SUBSET Users]
RunRecord == [status : Active \cup {"queued", "blocked", "ended"}, queue : BOOLEAN]

\* The types of all variables but the tasks, their rows, what was read of them and the history.
OtherTypes ==
    /\ alerts \in [Tasks -> [Events -> [Users -> Nat]]]
    /\ run \in [status : Active \cup {"queued", "blocked", "ended"}, queue : BOOLEAN]
    /\ answered \subseteq Groups
    /\ used \in [moves : Nat, stops : Nat]

\* The owner is told of an escalation once more.
Extra(e, u) == IF e = "escalation" /\ u = Owner THEN 1 ELSE 0
Pending(t, e, u) == IF plan[t][e][u] \in Live THEN 1 ELSE 0

\* A task that does not exist yet has no holders and no notices.
Blank(t) ==
    tasks[t].status = "none" =>
        /\ tasks[t].holders = {}
        /\ \A e \in Events, u \in Users : plan[t][e][u] = "none"
        /\ \A u \in Users : seen.turns[t][u] = 0

Follows(t) ==
    tasks[t].status \in Open /\ t \notin seen.astray =>
        \A e \in Events, u \in Users : plan[t][e][u] \in Live => u \in Recipients(e, tasks[t].holders)

Budget(t) ==
    \A e \in Events, u \in Users :
        /\ alerts[t][e][u] + Pending(t, e, u) <= seen.turns[t][u] + Extra(e, u)
        /\ plan[t][e][u] = "none" => alerts[t][e][u] = 0

Turned(t) == \A u \in tasks[t].holders : seen.turns[t][u] >= 1

TaskInv(t) == Blank(t) /\ Follows(t) /\ Budget(t) /\ Turned(t)

TInv == TypeOK /\ \A t \in Tasks : TaskInv(t)

\* The task read as the next one exists, and whoever held it then had it.
ReadInv(k) ==
    \A m \in read[k].next : tasks[m].status # "none" /\ \A u \in read[k].holders : seen.turns[m][u] >= 1

IInv == TInv /\ \A k \in Tasks : ReadInv(k)

-----------------------------------------------------------------------------
(* Types.                                                                   *)

LEMMA CancelledType == ASSUME NEW r \in Rows PROVE Cancelled(r) \in Rows
BY DEF Rows, Cancelled

LEMMA PlannedType == ASSUME NEW r \in Rows, NEW h PROVE Planned(r, h) \in Rows
BY DEF Rows, Planned, Live

LEMMA MovedType ==
    ASSUME NEW r \in Rows, NEW p, NEW target, NEW at \in [Events -> Live]
    PROVE  Moved(r, p, target, at) \in Rows
BY DEF Rows, Moved

LEMMA CopiedType ==
    ASSUME NEW r, NEW target, NEW at \in [Events -> Live]
    PROVE  Copied(r, target, at) \in Rows
BY DEF Rows, Copied

LEMMA CancelPlansType ==
    ASSUME TypeOK, NEW closed PROVE CancelPlans(closed) \in [Tasks -> Rows]
<1>1. plan \in [Tasks -> Rows]
  BY DEF TypeOK, Rows
<1> QED BY <1>1, CancelledType DEF CancelPlans

LEMMA CloseTasksType ==
    ASSUME TypeOK, NEW closed PROVE CloseTasks(closed) \in [Tasks -> TaskRecord]
<1>1. tasks \in [Tasks -> TaskRecord]
  BY DEF TypeOK, TaskRecord
<1>2. \A t \in Tasks : [tasks[t] EXCEPT !.status = "cancelled"] \in TaskRecord
  BY <1>1 DEF TaskRecord
<1> QED BY <1>1, <1>2 DEF CloseTasks

LEMMA GivenType ==
    ASSUME TypeOK, NEW t \in Tasks, NEW users
    PROVE  Given(seen.turns, t, users) \in [Tasks -> [Users -> Nat]]
<1>1. seen.turns \in [Tasks -> [Users -> Nat]]
  BY DEF TypeOK
<1>2. [u \in Users |-> seen.turns[t][u] + IF u \in users THEN 1 ELSE 0] \in [Users -> Nat]
  BY <1>1
<1> QED BY <1>1, <1>2 DEF Given

LEMMA TimesType ==
    ASSUME NEW r, NEW at \in Times(r) PROVE at \in [Events -> Live]
BY DEF Times

LEMMA RunType ==
    /\ [status |-> "queued", queue |-> TRUE] \in RunRecord
    /\ [status |-> "ended", queue |-> FALSE] \in RunRecord
BY DEF RunRecord

LEMMA UsedType == ASSUME TypeOK PROVE [used EXCEPT !.moves = @ + 1] \in [moves : Nat, stops : Nat]
<1>1. used \in [moves : Nat, stops : Nat]
  BY DEF TypeOK
<1> QED BY <1>1

-----------------------------------------------------------------------------
(* What a step may do to one task.                                          *)

\* The task's notices are left alone or cancelled; it is not opened.
LEMMA KeptInv ==
    ASSUME TypeOK, NEW t \in Tasks, TaskInv(t),
           tasks'[t].holders = tasks[t].holders,
           tasks'[t].status \in Open => tasks[t].status \in Open,
           tasks'[t].status = "none" => tasks[t].status = "none",
           plan'[t] = plan[t] \/ plan'[t] = Cancelled(plan[t]),
           alerts'[t] = alerts[t], seen'.turns[t] = seen.turns[t],
           seen.astray \subseteq seen'.astray
    PROVE  TaskInv(t)'
<1>1. \A e \in Events, u \in Users :
        /\ plan'[t][e][u] \in Live => plan[t][e][u] \in Live
        /\ plan'[t][e][u] = "none" <=> plan[t][e][u] = "none"
  BY DEF Cancelled, Live
<1>2. \A e \in Events, u \in Users :
        alerts[t][e][u] \in Nat /\ seen.turns[t][u] \in Nat /\ Extra(e, u) \in Nat
  BY DEF TypeOK, Extra
<1>3. \A e \in Events, u \in Users : Pending(t, e, u)' <= Pending(t, e, u)
        /\ Pending(t, e, u) \in 0..1 /\ Pending(t, e, u)' \in 0..1
  BY <1>1 DEF Pending
<1>4. Budget(t)'
  <2>1. \A e \in Events, u \in Users : Extra(e, u)' = Extra(e, u)
    BY DEF Extra
  <2>2. ASSUME NEW e \in Events, NEW u \in Users
        PROVE  alerts'[t][e][u] + Pending(t, e, u)' <= seen'.turns[t][u] + Extra(e, u)
    <3>1. alerts[t][e][u] + Pending(t, e, u) <= seen.turns[t][u] + Extra(e, u)
      BY DEF TaskInv, Budget
    <3> QED BY <1>2, <1>3, <3>1
  <2>3. \A e \in Events, u \in Users : plan'[t][e][u] = "none" => alerts'[t][e][u] = 0
    BY <1>1 DEF TaskInv, Budget
  <2> QED BY <2>1, <2>2, <2>3 DEF Budget
<1>5. Blank(t)'
  BY <1>1 DEF TaskInv, Blank
<1>6. Follows(t)'
  BY <1>1 DEF TaskInv, Follows
<1>7. Turned(t)'
  BY DEF TaskInv, Turned
<1> QED BY <1>4, <1>5, <1>6, <1>7 DEF TaskInv

\* The notices of a task are planned for h, its holders unless it is astray or closed.
LEMMA PlannedInv ==
    ASSUME TypeOK, NEW t \in Tasks, TaskInv(t), NEW h \in SUBSET Users,
           tasks'[t].status # "none", seen.astray \subseteq seen'.astray,
           tasks'[t].status \in Open /\ t \notin seen'.astray =>
               /\ tasks'[t].holders = h
               /\ tasks[t].status # "none" => h = tasks[t].holders /\ tasks[t].status \in Open,
           plan'[t] = Planned(plan[t], h), alerts'[t] = alerts[t],
           \A u \in Users : seen'.turns[t][u] \in Nat /\ seen.turns[t][u] <= seen'.turns[t][u],
           \A u \in h \cup tasks'[t].holders : seen'.turns[t][u] >= 1
    PROVE  TaskInv(t)'
<1>1. ASSUME NEW e \in Events, NEW u \in Users
      PROVE  \/ plan'[t][e][u] = plan[t][e][u]
                /\ (plan[t][e][u] = "none" => u \notin Recipients(e, h))
             \/ plan[t][e][u] = "none" /\ plan'[t][e][u] = "scheduled" /\ u \in Recipients(e, h)
  BY DEF Planned
<1>2. \A e \in Events, u \in Users :
        alerts[t][e][u] \in Nat /\ seen.turns[t][u] \in Nat /\ Extra(e, u) \in {0, 1}
  BY DEF TypeOK, Extra
<1>3. Budget(t)'
  <2> SUFFICES ASSUME NEW e \in Events, NEW u \in Users
               PROVE  /\ alerts'[t][e][u] + Pending(t, e, u)' <= seen'.turns[t][u] + Extra(e, u)
                      /\ plan'[t][e][u] = "none" => alerts'[t][e][u] = 0
    BY DEF Budget, Extra
  <2>0. /\ alerts[t][e][u] + Pending(t, e, u) <= seen.turns[t][u] + Extra(e, u)
        /\ plan[t][e][u] = "none" => alerts[t][e][u] = 0
    BY DEF TaskInv, Budget
  <2>1. CASE plan'[t][e][u] = plan[t][e][u]
    <3>1. Pending(t, e, u)' = Pending(t, e, u) /\ Pending(t, e, u) \in 0..1
      BY <2>1 DEF Pending
    <3> QED BY <1>2, <2>0, <2>1, <3>1
  <2>2. CASE plan[t][e][u] = "none" /\ plan'[t][e][u] = "scheduled" /\ u \in Recipients(e, h)
    <3>1. Pending(t, e, u)' = 1 /\ alerts'[t][e][u] = 0
      BY <2>0, <2>2 DEF Pending, Live
    <3>2. seen'.turns[t][u] >= 1 \/ Extra(e, u) = 1
      BY <2>2 DEF Recipients, Extra
    <3> QED BY <1>2, <2>2, <3>1, <3>2
  <2> QED BY <1>1, <2>1, <2>2
<1>4. Follows(t)'
  <2> SUFFICES ASSUME NEW e \in Events, NEW u \in Users, plan'[t][e][u] \in Live,
                      tasks'[t].status \in Open, t \notin seen'.astray
               PROVE  u \in Recipients(e, h)
    BY DEF Follows, Recipients
  <2>1. CASE tasks[t].status = "none"
    BY <1>1, <2>1 DEF TaskInv, Blank, Live
  <2>2. CASE tasks[t].status # "none"
    BY <1>1, <2>2 DEF TaskInv, Follows
  <2> QED BY <2>1, <2>2
<1>5. Blank(t)' /\ Turned(t)'
  BY DEF Blank, Turned
<1> QED BY <1>3, <1>4, <1>5 DEF TaskInv

\* A task that is handed over.
LEMMA MovedInv ==
    ASSUME TypeOK, NEW t \in Tasks, TaskInv(t), NEW target \in Users,
           NEW at \in [Events -> Live], tasks[t].status \in Open,
           tasks'[t].holders = {target}, tasks'[t].status \in Open,
           plan'[t] = Moved(plan[t], tasks[t].holders \ {target}, target, at),
           alerts'[t] = alerts[t], seen.astray \subseteq seen'.astray,
           \A u \in Users : seen'.turns[t][u] = seen.turns[t][u] + (IF u = target THEN 1 ELSE 0)
    PROVE  TaskInv(t)'
<1>1. ASSUME NEW e \in Events, NEW u \in Users
      PROVE  /\ u = target => plan'[t][e][u] \in Live \/ plan'[t][e][u] = plan[t][e][u]
             /\ u # target =>
                  \/ plan'[t][e][u] = "cancelled" /\ plan[t][e][u] # "none"
                  \/ /\ plan'[t][e][u] = plan[t][e][u]
                     /\ plan[t][e][u] \in Live /\ u \in tasks[t].holders => e = "escalation" /\ u = Owner
  BY DEF Moved, Live
<1>2. \A e \in Events, u \in Users :
        alerts[t][e][u] \in Nat /\ seen.turns[t][u] \in Nat /\ Extra(e, u) \in {0, 1}
  BY DEF TypeOK, Extra
<1>3. Budget(t)'
  <2> SUFFICES ASSUME NEW e \in Events, NEW u \in Users
               PROVE  /\ alerts'[t][e][u] + Pending(t, e, u)' <= seen'.turns[t][u] + Extra(e, u)
                      /\ plan'[t][e][u] = "none" => alerts'[t][e][u] = 0
    BY DEF Budget, Extra
  <2>0. /\ alerts[t][e][u] + Pending(t, e, u) <= seen.turns[t][u] + Extra(e, u)
        /\ plan[t][e][u] = "none" => alerts[t][e][u] = 0
        /\ Pending(t, e, u) \in 0..1 /\ Pending(t, e, u)' \in 0..1
    BY DEF TaskInv, Budget, Pending
  <2>1. CASE u = target
    <3>1. seen'.turns[t][u] = seen.turns[t][u] + 1
      BY <2>1
    <3>2. plan'[t][e][u] = "none" => plan[t][e][u] = "none"
      BY <1>1, <2>1 DEF Live
    <3> QED BY <1>2, <2>0, <3>1, <3>2
  <2>2. CASE u # target
    <3>1. seen'.turns[t][u] = seen.turns[t][u]
      BY <1>2, <2>2
    <3>0. plan'[t][e][u] \in Live => plan'[t][e][u] = plan[t][e][u]
      BY <1>1, <2>2 DEF Live
    <3>2. Pending(t, e, u)' <= Pending(t, e, u)
      BY <2>0, <3>0 DEF Pending
    <3>3. plan'[t][e][u] = "none" => plan[t][e][u] = "none"
      BY <1>1, <2>2
    <3> QED BY <1>2, <2>0, <3>1, <3>2, <3>3
  <2> QED BY <2>1, <2>2
<1>4. Follows(t)'
  <2> SUFFICES ASSUME NEW e \in Events, NEW u \in Users, plan'[t][e][u] \in Live, u # target,
                      t \notin seen'.astray
               PROVE  e = "escalation" /\ u = Owner
    BY DEF Follows, Recipients
  <2>1. plan[t][e][u] \in Live
    BY <1>1 DEF Live
  <2>2. u \in Recipients(e, tasks[t].holders)
    BY <2>1 DEF TaskInv, Follows
  <2> QED BY <1>1, <2>1, <2>2 DEF Recipients, Live
<1>5. Blank(t)'
  BY DEF Blank, Open
<1>6. Turned(t)'
  BY <1>2 DEF Turned, TypeOK
<1> QED BY <1>3, <1>4, <1>5, <1>6 DEF TaskInv

\* A task that is added takes over the planned notices of another one.
LEMMA CopiedInv ==
    ASSUME TypeOK, NEW t \in Tasks, TaskInv(t), NEW target \in Users, NEW rows,
           NEW at \in [Events -> Live], tasks[t].status = "none",
           tasks'[t].holders = {target}, tasks'[t].status \in Open,
           plan'[t] = Copied(rows, target, at), alerts'[t] = alerts[t],
           \A u \in Users : seen'.turns[t][u] = seen.turns[t][u] + (IF u = target THEN 1 ELSE 0)
    PROVE  TaskInv(t)'
<1>1. \A e \in Events, u \in Users : plan'[t][e][u] # "none" => u \in Recipients(e, {target})
  BY DEF Copied
<1>2. \A e \in Events, u \in Users :
        alerts[t][e][u] = 0 /\ seen.turns[t][u] \in Nat /\ Extra(e, u) \in {0, 1}
  BY DEF TypeOK, Extra, TaskInv, Blank, Budget
<1>3. Budget(t)'
  <2> SUFFICES ASSUME NEW e \in Events, NEW u \in Users
               PROVE  Pending(t, e, u)' <= seen'.turns[t][u] + Extra(e, u)
    BY <1>2 DEF Budget, Extra, Pending
  <2>1. CASE u \in Recipients(e, {target})
    <3>1. seen'.turns[t][u] >= 1 \/ Extra(e, u) = 1
      BY <1>2, <2>1 DEF Recipients, Extra
    <3> QED BY <1>2, <3>1 DEF Pending
  <2>2. CASE u \notin Recipients(e, {target})
    BY <1>1, <1>2, <2>2 DEF Pending, Live
  <2> QED BY <2>1, <2>2
<1>4. Follows(t)'
  BY <1>1 DEF Follows, Live
<1>5. Blank(t)'
  BY DEF Blank, Open
<1>6. Turned(t)'
  BY <1>2 DEF Turned, TypeOK
<1> QED BY <1>3, <1>4, <1>5, <1>6 DEF TaskInv

\* A task that is created before its turn has no notices.
LEMMA CreatedInv ==
    ASSUME TypeOK, NEW t \in Tasks, TaskInv(t), tasks[t].status = "none",
           NEW h \in SUBSET Users, tasks'[t].holders = h, tasks'[t].status # "none",
           plan'[t] = plan[t], alerts'[t] = alerts[t],
           \A u \in Users : seen'.turns[t][u] = IF u \in h THEN 1 ELSE seen.turns[t][u]
    PROVE  TaskInv(t)'
<1>1. \A e \in Events, u \in Users :
        plan'[t][e][u] = "none" /\ alerts'[t][e][u] = 0 /\ Extra(e, u) \in {0, 1}
  BY DEF TaskInv, Blank, Budget, Extra
<1>2. \A u \in Users : seen'.turns[t][u] \in {0, 1}
  BY DEF TaskInv, Blank
<1>3. Budget(t)'
  <2> SUFFICES ASSUME NEW e \in Events, NEW u \in Users
               PROVE  alerts'[t][e][u] + Pending(t, e, u)' <= seen'.turns[t][u] + Extra(e, u)
    BY <1>1 DEF Budget, Extra
  <2>1. Pending(t, e, u)' = 0
    BY <1>1 DEF Pending, Live
  <2> QED BY <1>1, <1>2, <2>1
<1>4. Follows(t)' /\ Blank(t)'
  BY <1>1 DEF Follows, Blank, Live
<1>5. Turned(t)'
  BY DEF Turned
<1> QED BY <1>3, <1>4, <1>5 DEF TaskInv

-----------------------------------------------------------------------------
(* One lemma per kind of step.                                              *)

LEMMA InitTInv == Init => TInv
<1> SUFFICES ASSUME Init PROVE TInv
  OBVIOUS
<1>1. TypeOK
  BY DEF Init, TypeOK, NoRead
<1>2. ASSUME NEW t \in Tasks PROVE TaskInv(t)
  <2>1. /\ tasks[t].status = "none" /\ tasks[t].holders = {}
        /\ \A e \in Events, u \in Users : plan[t][e][u] = "none" /\ alerts[t][e][u] = 0
        /\ \A u \in Users : seen.turns[t][u] = 0
    BY DEF Init
  <2>2. \A e \in Events, u \in Users : Pending(t, e, u) = 0 /\ Extra(e, u) \in 0..1
    BY <2>1 DEF Pending, Extra, Live
  <2>3. Budget(t)
    BY <2>1, <2>2 DEF Budget
  <2>4. Blank(t) /\ Turned(t)
    BY <2>1 DEF Blank, Turned
  <2>5. Follows(t)
    BY <2>1 DEF Follows, Open
  <2> QED BY <2>3, <2>4, <2>5 DEF TaskInv
<1> QED BY <1>1, <1>2 DEF IInv, TInv

\* Steps that change no notice, no task and no history.
LEMMA RunStep ==
    ASSUME IInv, Start \/ Park \/ Retry \/ Pause \/ Resume \/ (\E g \in Groups : Continue(g))
    PROVE  TInv'
<1>1. UNCHANGED <<tasks, plan, alerts, read, seen>>
  BY DEF Start, Park, Retry, Pause, Resume, Continue
<1>0. /\ run \in RunRecord
      /\ used \in [moves : Nat, stops : Nat] /\ answered \subseteq Groups
  BY DEF IInv, TInv, TypeOK, RunRecord
<1>2. run' \in RunRecord
  <2>1. CASE Start
    BY <1>0, <2>1 DEF Start, Active, RunRecord
  <2>2. CASE Park
    BY <1>0, <2>2 DEF Park, Active, RunRecord
  <2>3. CASE Retry \/ Pause
    BY <1>0, <2>3 DEF Retry, Pause, Active, RunRecord
  <2>4. CASE Resume
    BY <1>0, <2>4 DEF Resume, Active, RunRecord
  <2>5. CASE \E g \in Groups : Continue(g)
    BY RunType, <2>5 DEF Continue
  <2> QED BY <2>1, <2>2, <2>3, <2>4, <2>5
<1>3. used' \in [moves : Nat, stops : Nat] /\ answered' \subseteq Groups
  <2>1. CASE Start \/ Park \/ Resume
    BY <1>0, <2>1 DEF Start, Park, Resume
  <2>2. CASE Retry \/ Pause
    BY <1>0, <2>2 DEF Retry, Pause
  <2>3. CASE \E g \in Groups : Continue(g)
    BY <1>0, <2>3 DEF Continue
  <2> QED BY <2>1, <2>2, <2>3
<1>4. TypeOK'
  BY <1>1, <1>2, <1>3 DEF IInv, TInv, TypeOK, RunRecord
<1>5. ASSUME NEW t \in Tasks PROVE TaskInv(t)'
  BY <1>1, KeptInv DEF IInv, TInv
<1> QED BY <1>4, <1>5 DEF IInv, TInv

\* Steps that close tasks or cancel notices, or claim and return a task.
LEMMA EndRunStep == ASSUME IInv, EndRun PROVE TInv'
<1> USE DEF EndRun
<1>1. TypeOK'
  BY CloseTasksType, CancelPlansType DEF IInv, TInv, TypeOK, TaskRecord, Rows
<1>2. ASSUME NEW t \in Tasks PROVE TaskInv(t)'
  <2>1. /\ tasks'[t].holders = tasks[t].holders
        /\ tasks'[t].status \in Open => tasks[t].status \in Open
        /\ tasks'[t].status = "none" => tasks[t].status = "none"
    BY DEF IInv, TInv, TypeOK, CloseTasks, Open
  <2>2. plan'[t] = Cancelled(plan[t])
    BY DEF CancelPlans
  <2> QED BY <2>1, <2>2, KeptInv DEF IInv, TInv
<1> QED BY <1>1, <1>2 DEF IInv, TInv

LEMMA CancelObsoleteStep == ASSUME IInv, CancelObsolete PROVE TInv'
<1> USE DEF CancelObsolete
<1>1. TypeOK'
  <2>1. seen' \in SeenRecord
    BY DEF IInv, TInv, TypeOK, OpenTasks, SeenRecord
  <2> QED BY <2>1, CancelPlansType DEF IInv, TInv, TypeOK, Rows, SeenRecord
<1>2. ASSUME NEW t \in Tasks PROVE TaskInv(t)'
  <2>1. plan'[t] = plan[t] \/ plan'[t] = Cancelled(plan[t])
    BY DEF CancelPlans
  <2>2. seen'.turns = seen.turns /\ seen'.astray = seen.astray
    BY DEF IInv, TInv, TypeOK
  <2> QED BY <2>1, <2>2, KeptInv DEF IInv, TInv
<1> QED BY <1>1, <1>2 DEF IInv, TInv

LEMMA ClaimStep == ASSUME IInv, NEW w \in Users, NEW k \in Tasks, Claim(w, k) \/ Return(k) PROVE TInv'
<1>1. /\ tasks[k].status \in Open /\ UNCHANGED <<plan, alerts, run, answered, read, seen, used>>
      /\ \E st \in Open, c \in Users \cup {NoUser} :
           tasks' = [tasks EXCEPT ![k] = [tasks[k] EXCEPT !.status = st, !.claimer = c]]
  <2>1. CASE Claim(w, k)
    BY <2>1 DEF Claim, Open
  <2>2. CASE Return(k)
    BY <2>2 DEF Return, Open
  <2> QED BY <2>1, <2>2
<1>2. PICK st \in Open, c \in Users \cup {NoUser} :
        tasks' = [tasks EXCEPT ![k] = [tasks[k] EXCEPT !.status = st, !.claimer = c]]
  BY <1>1
<1>3. tasks \in [Tasks -> TaskRecord] /\ st # "none"
  BY DEF IInv, TInv, TypeOK, TaskRecord, Open
<1>4. [tasks[k] EXCEPT !.status = st, !.claimer = c] \in TaskRecord
  BY <1>3 DEF TaskRecord
<1>5. TypeOK'
  BY <1>1, <1>2, <1>3, <1>4 DEF IInv, TInv, TypeOK, TaskRecord
<1>6. ASSUME NEW t \in Tasks PROVE TaskInv(t)'
  <2>1. /\ tasks'[t].holders = tasks[t].holders
        /\ tasks'[t].status \in Open => tasks[t].status \in Open
        /\ tasks'[t].status = "none" => tasks[t].status = "none"
    <3>1. CASE t = k
      <4>1. tasks'[k].holders = tasks[k].holders /\ tasks'[k].status = st
        BY <1>2, <1>3 DEF TaskRecord
      <4> QED BY <1>1, <1>3, <3>1, <4>1
    <3>2. CASE t # k
      BY <1>2, <1>3, <3>2
    <3> QED BY <3>1, <3>2
  <2> QED BY <1>1, <2>1, KeptInv DEF IInv, TInv
<1> QED BY <1>5, <1>6 DEF IInv, TInv

LEMMA RemoveStep ==
    ASSUME IInv, NEW w \in Users, NEW k \in Tasks, NEW m \in Tasks, RemoveSigner(w, k, m)
    PROVE  TInv'
<1> USE DEF RemoveSigner, MoveLeft
<1>1. TypeOK'
  <2>1. used' \in [moves : Nat, stops : Nat]
    BY UsedType DEF IInv, TInv
  <2>2. tasks' \in [Tasks -> TaskRecord] /\ plan' \in [Tasks -> Rows]
    BY CloseTasksType, CancelPlansType DEF IInv, TInv
  <2> QED BY <2>1, <2>2 DEF IInv, TInv, TypeOK, TaskRecord, Rows
<1>2. ASSUME NEW t \in Tasks PROVE TaskInv(t)'
  <2>1. /\ tasks'[t].holders = tasks[t].holders
        /\ tasks'[t].status \in Open => tasks[t].status \in Open
        /\ tasks'[t].status = "none" => tasks[t].status = "none"
    BY DEF IInv, TInv, TypeOK, CloseTasks, Open
  <2>2. plan'[t] = plan[t] \/ plan'[t] = Cancelled(plan[t])
    BY DEF CancelPlans
  <2> QED BY <2>1, <2>2, KeptInv DEF IInv, TInv
<1> QED BY <1>1, <1>2 DEF IInv, TInv

\* All members of a group get their tasks; those who may act are planned for.
LEMMA CreateStep == ASSUME IInv, NEW g \in Groups, CreateTasks(g) PROVE TInv'
<1> DEFINE new == {t \in MembersOf(g) : Holders[t] # {}}
           first == {t \in new : MayAct(t)}
<1>1. /\ \A t \in new : tasks[t].status = "none"
      /\ tasks' = [t \in Tasks |-> IF t \notin new THEN tasks[t]
               ELSE [status |-> "pending", holders |-> Holders[t], claimer |-> NoUser, operable |-> MayAct(t)]]
      /\ plan' = [t \in Tasks |-> IF t \in first THEN Planned(plan[t], Holders[t]) ELSE plan[t]]
      /\ seen' = [seen EXCEPT !.called = seen.called \cup first, !.turns = [t \in Tasks |->
               [u \in Users |-> IF t \in new /\ u \in Holders[t] THEN 1 ELSE seen.turns[t][u]]]]
      /\ UNCHANGED <<alerts, run, answered, read, used>>
  BY DEF CreateTasks
<1>2. /\ \A t \in Tasks : Holders[t] \in SUBSET Users /\ MayAct(t) \in BOOLEAN
      /\ new \subseteq Tasks /\ first \subseteq new
  BY ScheduleAssumption DEF MayAct, MembersOf
<1> HIDE DEF new, first
<1>3. tasks \in [Tasks -> TaskRecord] /\ plan \in [Tasks -> Rows]
      /\ seen \in SeenRecord
  BY DEF IInv, TInv, TypeOK, TaskRecord, Rows, SeenRecord
<1>4. TypeOK'
  <2>1. tasks' \in [Tasks -> TaskRecord]
    BY <1>1, <1>2, <1>3 DEF TaskRecord, Open
  <2>2. plan' \in [Tasks -> Rows]
    BY <1>1, <1>3, PlannedType
  <2>3. seen' \in SeenRecord
    <3>1. [t \in Tasks |-> [u \in Users |-> IF t \in new /\ u \in Holders[t] THEN 1 ELSE seen.turns[t][u]]]
            \in [Tasks -> [Users -> Nat]]
      BY <1>3 DEF SeenRecord
    <3>2. seen.called \cup first \in SUBSET Tasks
      BY <1>2, <1>3 DEF SeenRecord
    <3> QED BY <1>1, <1>3, <3>1, <3>2 DEF SeenRecord
  <2> QED BY <1>1, <2>1, <2>2, <2>3 DEF IInv, TInv, TypeOK, TaskRecord, Rows, SeenRecord
<1>5. \A t \in Tasks, u \in Users :
        seen'.turns[t][u] = IF t \in new /\ u \in Holders[t] THEN 1 ELSE seen.turns[t][u]
  BY <1>1, <1>3 DEF SeenRecord
<1>7. seen'.astray = seen.astray
  BY <1>1, <1>3 DEF SeenRecord
<1>6. ASSUME NEW t \in Tasks PROVE TaskInv(t)'
  <2>0. TypeOK /\ TaskInv(t)
    BY DEF IInv, TInv
  <2>1. CASE t \notin new
    <3>1. seen'.turns[t] = seen.turns[t]
      BY <1>1, <1>3, <2>1 DEF SeenRecord
    <3> QED BY <1>1, <1>2, <1>7, <2>0, <2>1, <3>1, KeptInv
  <2>2. CASE t \in first
    <3>1. tasks[t].status = "none" /\ tasks'[t].holders = Holders[t] /\ tasks'[t].status # "none"
      BY <1>1, <1>2, <2>2
    <3>2. \A u \in Users : seen.turns[t][u] = 0
      BY <2>0, <3>1 DEF TaskInv, Blank
    <3>3. \A u \in Users : seen'.turns[t][u] = IF u \in Holders[t] THEN 1 ELSE 0
      BY <1>2, <1>5, <2>2, <3>2
    <3>4. /\ \A u \in Users : seen'.turns[t][u] \in Nat /\ seen.turns[t][u] <= seen'.turns[t][u]
          /\ \A u \in Holders[t] : seen'.turns[t][u] >= 1
      BY <1>2, <3>2, <3>3
    <3>5. plan'[t] = Planned(plan[t], Holders[t]) /\ alerts'[t] = alerts[t]
      BY <1>1, <2>2
    <3> QED BY <1>2, <1>7, <2>0, <3>1, <3>4, <3>5, PlannedInv
  <2>3. CASE t \in new /\ t \notin first
    <3>1. tasks[t].status = "none" /\ tasks'[t].holders = Holders[t] /\ tasks'[t].status # "none"
      BY <1>1, <2>3
    <3>2. \A u \in Users : seen'.turns[t][u] = IF u \in Holders[t] THEN 1 ELSE seen.turns[t][u]
      BY <1>5, <2>3
    <3>3. plan'[t] = plan[t] /\ alerts'[t] = alerts[t]
      BY <1>1, <2>3
    <3> QED BY <1>2, <2>0, <3>1, <3>2, <3>3, CreatedInv
  <2> QED BY <2>1, <2>2, <2>3
<1> QED BY <1>4, <1>6 DEF IInv, TInv

LEMMA UndecidedStep ==
    ASSUME IInv, NEW k \in Tasks, NEW others \in SUBSET (OpenTasks \ {k}), tasks[k].status = "claimed",
           Undecided(k, others), read' = [read EXCEPT ![k] = NoRead], UNCHANGED <<alerts, used>>
    PROVE  TInv'
<1> DEFINE next == read[k].next
           h == read[k].holders
           former == {m \in next : tasks[m].holders # h}
<1>1. /\ tasks' = [m \in Tasks |-> IF m = k THEN [tasks[m] EXCEPT !.status = "completed"]
                                   ELSE IF m \in next \ former THEN [tasks[m] EXCEPT !.operable = TRUE]
                                   ELSE tasks[m]]
      /\ plan' = [m \in Tasks |-> IF m = k THEN Cancelled(plan[m])
                                  ELSE IF m \in next THEN Planned(plan[m], h) ELSE plan[m]]
      /\ seen' = [seen EXCEPT !.called = seen.called \cup next, !.astray = seen.astray \cup former]
      /\ UNCHANGED <<alerts, run, answered, used>>
  BY DEF Undecided
<1>2. /\ next \in SUBSET Tasks /\ h \in SUBSET Users /\ former \subseteq next
      /\ \A m \in next : m \notin former => tasks[m].holders = h
      /\ \A m \in next, u \in h : seen.turns[m][u] >= 1
      /\ \A m \in next : tasks[m].status # "none"
  <2>1. read[k] \in ReadRecord
    BY DEF IInv, TInv, TypeOK, ReadRecord
  <2> QED BY <2>1 DEF ReadRecord, IInv, ReadInv
<1> HIDE DEF next, h, former
<1>3. /\ tasks \in [Tasks -> TaskRecord] /\ plan \in [Tasks -> Rows]
      /\ seen \in SeenRecord /\ read \in [Tasks -> ReadRecord]
  BY DEF IInv, TInv, TypeOK, TaskRecord, Rows, SeenRecord, ReadRecord
<1>4. /\ seen' \in SeenRecord /\ seen'.turns = seen.turns /\ seen'.astray = seen.astray \cup former
  BY <1>1, <1>2, <1>3 DEF SeenRecord
<1>5. TypeOK'
  <2>1. tasks' \in [Tasks -> TaskRecord]
    <3>1. \A m \in Tasks : /\ [tasks[m] EXCEPT !.status = "completed"] \in TaskRecord
                           /\ [tasks[m] EXCEPT !.operable = TRUE] \in TaskRecord
      BY <1>3 DEF TaskRecord
    <3> QED BY <1>1, <1>3, <3>1
  <2>2. plan' \in [Tasks -> Rows]
    BY <1>1, <1>3, PlannedType, CancelledType
  <2>3. read' \in [Tasks -> ReadRecord]
    BY <1>3 DEF ReadRecord, NoRead
  <2>4. TypeOK /\ UNCHANGED <<alerts, run, answered, used>>
    BY <1>1 DEF IInv, TInv
  <2>5. OtherTypes'
    BY <2>4 DEF OtherTypes, TypeOK
  <2> QED BY <1>4, <2>1, <2>2, <2>3, <2>5 DEF OtherTypes, TypeOK, TaskRecord, Rows, SeenRecord, ReadRecord
<1>6. ASSUME NEW t \in Tasks PROVE TaskInv(t)'
  <2>0. TypeOK /\ TaskInv(t) /\ tasks[t] \in TaskRecord
    BY <1>3 DEF IInv, TInv
  <2>1. CASE t = k
    <3>1. tasks'[t].holders = tasks[t].holders /\ tasks'[t].status = "completed"
      BY <1>1, <2>0, <2>1 DEF TaskRecord
    <3>2. plan'[t] = Cancelled(plan[t]) /\ alerts'[t] = alerts[t]
      BY <1>1, <2>1
    <3> QED BY <1>4, <2>0, <3>1, <3>2, KeptInv DEF Open
  <2>2. CASE t # k /\ t \in next
    <3>1. tasks'[t].holders = tasks[t].holders /\ tasks'[t].status = tasks[t].status
      <4>1. tasks'[t] = [tasks[t] EXCEPT !.operable = TRUE] \/ tasks'[t] = tasks[t]
        BY <1>1, <2>2
      <4> QED BY <2>0, <4>1 DEF TaskRecord
    <3>2. tasks'[t].status # "none"
      BY <1>2, <2>2, <3>1
    <3>3. plan'[t] = Planned(plan[t], h) /\ alerts'[t] = alerts[t]
      BY <1>1, <2>2
    <3>4. /\ \A u \in Users : seen'.turns[t][u] \in Nat /\ seen.turns[t][u] <= seen'.turns[t][u]
          /\ \A u \in h \cup tasks'[t].holders : seen'.turns[t][u] >= 1
      BY <1>2, <1>4, <2>0, <2>2, <3>1 DEF TypeOK, TaskInv, Turned
    <3>5. tasks'[t].status \in Open /\ t \notin seen'.astray =>
            /\ tasks'[t].holders = h
            /\ tasks[t].status # "none" => h = tasks[t].holders /\ tasks[t].status \in Open
      BY <1>2, <1>4, <2>2, <3>1
    <3> QED BY <1>2, <1>4, <2>0, <3>2, <3>3, <3>4, <3>5, PlannedInv
  <2>3. CASE t # k /\ t \notin next
    <3>1. tasks'[t] = tasks[t] /\ plan'[t] = plan[t]
      BY <1>1, <1>2, <2>3
    <3> QED BY <1>1, <1>4, <2>0, <3>1, KeptInv
  <2> QED BY <2>1, <2>2, <2>3
<1> QED BY <1>5, <1>6 DEF TInv

LEMMA SettledStep ==
    ASSUME IInv, NEW k \in Tasks, NEW others \in SUBSET (OpenTasks \ {k}), tasks[k].status = "claimed",
           Settled(k, others), read' = [read EXCEPT ![k] = NoRead], UNCHANGED <<alerts, used>>
    PROVE  TInv'
<1>1. /\ tasks' = [CloseTasks(others) EXCEPT ![k].status = "completed"]
      /\ plan' = CancelPlans(others \cup {k})
      /\ UNCHANGED <<alerts, seen, used>>
  BY DEF Settled
<1>2. CloseTasks(others) \in [Tasks -> TaskRecord]
  BY CloseTasksType DEF IInv, TInv
<1>3. TypeOK'
  <2>1. tasks' \in [Tasks -> TaskRecord]
    BY <1>1, <1>2 DEF TaskRecord
  <2>2. plan' \in [Tasks -> Rows]
    BY <1>1, CancelPlansType DEF IInv, TInv
  <2>3. run' \in RunRecord
    <3>1. run \in RunRecord
      BY DEF IInv, TInv, TypeOK, RunRecord
    <3>2. UNCHANGED run \/ run' \in {[status |-> "queued", queue |-> TRUE], [status |-> "ended", queue |-> FALSE]}
      BY DEF Settled
    <3> QED BY <3>1, <3>2, RunType
  <2>4. answered' \subseteq Groups
    <3>1. answered \subseteq Groups /\ Group[k] \in Groups
      BY ScheduleAssumption DEF IInv, TInv, TypeOK
    <3>2. UNCHANGED answered \/ answered' = answered \cup {Group[k]}
      BY DEF Settled
    <3> QED BY <3>1, <3>2
  <2>5. read' \in [Tasks -> ReadRecord]
    BY DEF IInv, TInv, TypeOK, ReadRecord, NoRead
  <2>6. OtherTypes'
    <3>1. TypeOK /\ UNCHANGED <<alerts, used>>
      BY DEF IInv, TInv
    <3> QED BY <2>3, <2>4, <3>1 DEF OtherTypes, TypeOK, RunRecord
  <2>7. seen' \in SeenRecord
    BY <1>1 DEF IInv, TInv, TypeOK, SeenRecord
  <2> QED BY <2>1, <2>2, <2>5, <2>6, <2>7 DEF OtherTypes, TypeOK, TaskRecord, Rows, SeenRecord, ReadRecord
<1>4. ASSUME NEW t \in Tasks PROVE TaskInv(t)'
  <2>1. /\ tasks'[t].holders = tasks[t].holders
        /\ tasks'[t].status \in Open => tasks[t].status \in Open
        /\ tasks'[t].status = "none" => tasks[t].status = "none"
    BY <1>1, <1>2 DEF IInv, TInv, TypeOK, CloseTasks, Open, TaskRecord
  <2>2. plan'[t] = plan[t] \/ plan'[t] = Cancelled(plan[t])
    BY <1>1 DEF CancelPlans
  <2> QED BY <1>1, <2>1, <2>2, KeptInv DEF IInv, TInv
<1> QED BY <1>3, <1>4 DEF IInv, TInv

LEMMA DecideStep == ASSUME IInv, NEW k \in Tasks, Decide(k) PROVE TInv'
<1> DEFINE others == (OpenTasks \cap MembersOf(Group[k])) \ {k}
<1>1. others \in SUBSET (OpenTasks \ {k})
  OBVIOUS
<1>2. /\ tasks[k].status = "claimed" /\ UNCHANGED <<alerts, used>> /\ read' = [read EXCEPT ![k] = NoRead]
      /\ Undecided(k, others) \/ Settled(k, others)
  BY DEF Decide
<1> HIDE DEF others
<1> QED BY <1>1, <1>2, UndecidedStep, SettledStep

LEMMA GivenTurns ==
    ASSUME TypeOK, NEW t \in Tasks, NEW target \in Users
    PROVE  /\ \A u \in Users : Given(seen.turns, t, {target})[t][u]
                                 = seen.turns[t][u] + (IF u = target THEN 1 ELSE 0)
           /\ \A m \in Tasks : m # t => Given(seen.turns, t, {target})[m] = seen.turns[m]
BY DEF TypeOK, Given

LEMMA MoveStep ==
    ASSUME IInv, NEW k \in Tasks, NEW target \in Users, tasks[k].status \in Open, Move(k, target)
    PROVE  TInv'
<1>0. PICK at \in Times(plan[k]) :
        plan' = [plan EXCEPT ![k] = Moved(plan[k], tasks[k].holders \ {target}, target, at)]
  BY DEF Move
<1>1. /\ tasks' = [tasks EXCEPT ![k] = [status |-> "pending", holders |-> {target}, claimer |-> NoUser,
                                        operable |-> TRUE]]
      /\ seen' = [seen EXCEPT !.turns = Given(seen.turns, k, {target})]
      /\ UNCHANGED <<alerts, run, answered, read>>
      /\ used' = [used EXCEPT !.moves = @ + 1]
  BY DEF Move, MoveLeft
<1>2. at \in [Events -> Live]
  BY TimesType
<1>3. /\ tasks \in [Tasks -> TaskRecord] /\ plan \in [Tasks -> Rows]
      /\ seen \in SeenRecord
  BY DEF IInv, TInv, TypeOK, TaskRecord, Rows, SeenRecord
<1>4. TypeOK'
  <2>0. used' \in [moves : Nat, stops : Nat]
    BY <1>1, UsedType DEF IInv, TInv
  <2>1. tasks' \in [Tasks -> TaskRecord]
    <3>1. [status |-> "pending", holders |-> {target}, claimer |-> NoUser, operable |-> TRUE] \in TaskRecord
      BY DEF TaskRecord, Open
    <3> QED BY <1>1, <1>3, <3>1
  <2>2. plan' \in [Tasks -> Rows]
    BY <1>0, <1>2, <1>3, MovedType
  <2>3. seen' \in SeenRecord
    BY <1>1, <1>3, GivenType DEF IInv, TInv, SeenRecord
  <2> QED BY <1>1, <2>0, <2>1, <2>2, <2>3 DEF IInv, TInv, TypeOK, TaskRecord, Rows, SeenRecord
<1>5. seen'.turns = Given(seen.turns, k, {target}) /\ seen'.astray = seen.astray
  BY <1>1, <1>3 DEF SeenRecord
<1>6. ASSUME NEW t \in Tasks PROVE TaskInv(t)'
  <2>0. TypeOK /\ TaskInv(t)
    BY DEF IInv, TInv
  <2>1. CASE t = k
    <3>1. tasks'[t].holders = {target} /\ tasks'[t].status \in Open
      BY <1>1, <1>3, <2>1 DEF TaskRecord, Open
    <3>2. plan'[t] = Moved(plan[t], tasks[t].holders \ {target}, target, at)
      BY <1>0, <1>3, <2>1
    <3>3. \A u \in Users : seen'.turns[t][u] = seen.turns[t][u] + (IF u = target THEN 1 ELSE 0)
      BY <1>5, <2>0, <2>1, GivenTurns
    <3> QED BY <1>1, <1>2, <1>5, <2>0, <2>1, <3>1, <3>2, <3>3, MovedInv
  <2>2. CASE t # k
    <3>1. tasks'[t] = tasks[t] /\ plan'[t] = plan[t] /\ seen'.turns[t] = seen.turns[t]
      BY <1>0, <1>1, <1>3, <1>5, <2>0, <2>2, GivenTurns
    <3> QED BY <1>1, <1>5, <2>0, <3>1, KeptInv
  <2> QED BY <2>1, <2>2
<1> QED BY <1>4, <1>6 DEF IInv, TInv

LEMMA AddStep ==
    ASSUME IInv, NEW w \in Users, NEW s \in Tasks, NEW k \in Tasks, NEW target \in Users,
           AddSigner(w, s, k, target)
    PROVE  TInv'
<1>0. PICK at \in Times(plan[s]) : plan' = [plan EXCEPT ![k] = Copied(plan[s], target, at)]
  BY DEF AddSigner
<1>1. /\ tasks' = [tasks EXCEPT ![k] = [status |-> "pending", holders |-> {target}, claimer |-> NoUser,
                                        operable |-> Mode[Group[s]] # "sequential"]]
      /\ seen' = [seen EXCEPT !.turns = Given(seen.turns, k, {target}),
                              !.missed = seen.missed \cup (IF s \in seen.missed THEN {k} ELSE {}),
                              !.called = seen.called \cup (IF s \in seen.called THEN {k} ELSE {}),
                              !.astray = seen.astray \cup (IF s \in seen.astray THEN {k} ELSE {})]
      /\ UNCHANGED <<alerts, run, answered, read>>
      /\ tasks[k].status = "none" /\ used' = [used EXCEPT !.moves = @ + 1]
  BY DEF AddSigner, MoveLeft
<1>2. at \in [Events -> Live]
  BY TimesType
<1>3. /\ tasks \in [Tasks -> TaskRecord] /\ plan \in [Tasks -> Rows]
      /\ seen \in SeenRecord
  BY DEF IInv, TInv, TypeOK, TaskRecord, Rows, SeenRecord
<1>4. TypeOK'
  <2>0. used' \in [moves : Nat, stops : Nat]
    BY <1>1, UsedType DEF IInv, TInv
  <2>1. tasks' \in [Tasks -> TaskRecord]
    BY <1>1, <1>3 DEF TaskRecord, Open
  <2>2. plan' \in [Tasks -> Rows]
    BY <1>0, <1>2, <1>3, CopiedType
  <2>3. seen' \in SeenRecord
    BY <1>1, <1>3, GivenType DEF IInv, TInv, SeenRecord
  <2> QED BY <1>1, <2>0, <2>1, <2>2, <2>3 DEF IInv, TInv, TypeOK, TaskRecord, Rows, SeenRecord
<1>5. seen'.turns = Given(seen.turns, k, {target}) /\ seen.astray \subseteq seen'.astray
  BY <1>1, <1>3 DEF SeenRecord
<1>6. ASSUME NEW t \in Tasks PROVE TaskInv(t)'
  <2>0. TypeOK /\ TaskInv(t)
    BY DEF IInv, TInv
  <2>1. CASE t = k
    <3>1. tasks'[t].holders = {target} /\ tasks'[t].status \in Open
      BY <1>1, <1>3, <2>1 DEF Open
    <3>2. plan'[t] = Copied(plan[s], target, at)
      BY <1>0, <1>3, <2>1
    <3>3. \A u \in Users : seen'.turns[t][u] = seen.turns[t][u] + (IF u = target THEN 1 ELSE 0)
      BY <1>5, <2>0, <2>1, GivenTurns
    <3>4. tasks[t].status = "none" /\ alerts'[t] = alerts[t]
      BY <1>1, <2>1
    <3>5. ASSUME NEW rows, plan'[t] = Copied(rows, target, at) PROVE TaskInv(t)'
      BY <1>2, <2>0, <3>1, <3>3, <3>4, <3>5, CopiedInv
    <3> QED BY <3>2, <3>5
  <2>2. CASE t # k
    <3>1. tasks'[t] = tasks[t] /\ plan'[t] = plan[t] /\ seen'.turns[t] = seen.turns[t]
      BY <1>0, <1>1, <1>3, <1>5, <2>0, <2>2, GivenTurns
    <3> QED BY <1>1, <1>5, <2>0, <3>1, KeptInv
  <2> QED BY <2>1, <2>2
<1> QED BY <1>4, <1>6 DEF IInv, TInv

\* Time passes: what is live stays live.
LEMMA FallDueStep == ASSUME IInv, NEW k \in Tasks, NEW d \in Events, FallDue(k, d) PROVE TInv'
<1>1. /\ plan' = [plan EXCEPT ![k][d] = [u \in Users |-> IF plan[k][d][u] = "scheduled" THEN "due"
                                                         ELSE plan[k][d][u]]]
      /\ UNCHANGED <<tasks, alerts, run, answered, read, seen, used>>
  BY DEF FallDue
<1>2. plan \in [Tasks -> Rows]
  BY DEF IInv, TInv, TypeOK, Rows
<1>3. plan' \in [Tasks -> Rows]
  BY <1>1, <1>2 DEF Rows, Live
<1>4. \A t \in Tasks, e \in Events, u \in Users :
        /\ plan'[t][e][u] \in Live <=> plan[t][e][u] \in Live
        /\ plan'[t][e][u] = "none" <=> plan[t][e][u] = "none"
  BY <1>1, <1>2 DEF Rows, Live
<1>5. \A t \in Tasks, e \in Events, u \in Users : Pending(t, e, u)' = Pending(t, e, u)
  BY <1>4 DEF Pending
<1>6. TypeOK'
  BY <1>1, <1>3 DEF IInv, TInv, TypeOK, Rows
<1>7. ASSUME NEW t \in Tasks PROVE TaskInv(t)'
  <2>1. TaskInv(t)
    BY DEF IInv, TInv
  <2>2. Blank(t)'
    BY <1>1, <1>4, <2>1 DEF TaskInv, Blank
  <2>3. Follows(t)'
    BY <1>1, <1>4, <2>1 DEF TaskInv, Follows, Recipients
  <2>4. Budget(t)'
    BY <1>1, <1>4, <1>5, <2>1 DEF TaskInv, Budget, Extra
  <2>5. Turned(t)'
    BY <1>1, <2>1 DEF TaskInv, Turned
  <2> QED BY <2>2, <2>3, <2>4, <2>5 DEF TaskInv
<1> QED BY <1>6, <1>7 DEF IInv, TInv

\* One entry of a table changes and the others stay.
LEMMA EntryChanged ==
    ASSUME NEW A, NEW B, NEW D, NEW V, NEW f \in [A -> [B -> [D -> V]]],
           NEW a \in A, NEW b \in B, NEW c \in D, NEW v,
           NEW g, g = [f EXCEPT ![a][b][c] = v]
    PROVE  /\ g[a][b][c] = v
           /\ \A x \in A, y \in B, z \in D : (x = a /\ y = b /\ z = c) \/ g[x][y][z] = f[x][y][z]
<1>1. g[a] = [f[a] EXCEPT ![b][c] = v] /\ \A x \in A : x # a => g[x] = f[x]
  OBVIOUS
<1>2. f[a] \in [B -> [D -> V]]
  OBVIOUS
<1>3. g[a][b] = [f[a][b] EXCEPT ![c] = v] /\ \A y \in B : y # b => g[a][y] = f[a][y]
  BY <1>1, <1>2
<1>4. f[a][b] \in [D -> V]
  BY <1>2
<1>5. g[a][b][c] = v /\ \A z \in D : z # c => g[a][b][z] = f[a][b][z]
  BY <1>3, <1>4
<1>6. \A x \in A, y \in B, z \in D : (x = a /\ y = b /\ z = c) \/ g[x][y][z] = f[x][y][z]
  BY <1>1, <1>3, <1>5
<1> QED BY <1>5, <1>6

\* A notice is sent: what was pending is now told.
LEMMA FireStep ==
    ASSUME IInv, NEW k \in Tasks, NEW d \in Events, NEW w \in Users, Fire(k, d, w) PROVE TInv'
<1>1. /\ plan[k][d][w] = "due"
      /\ plan' = [plan EXCEPT ![k][d][w] = "fired"]
      /\ alerts' = [alerts EXCEPT ![k][d][w] = alerts[k][d][w] + 1]
      /\ UNCHANGED <<tasks, run, answered, read, seen, used>>
  BY DEF Fire
<1>2. plan \in [Tasks -> Rows] /\ alerts \in [Tasks -> [Events -> [Users -> Nat]]]
  BY DEF IInv, TInv, TypeOK, Rows
<1>3. /\ plan' \in [Tasks -> Rows]
      /\ alerts' \in [Tasks -> [Events -> [Users -> Nat]]]
  <2>1. [plan[k] EXCEPT ![d] = [plan[k][d] EXCEPT ![w] = "fired"]] \in Rows
    BY <1>2 DEF Rows
  <2>2. [alerts[k] EXCEPT ![d] = [alerts[k][d] EXCEPT ![w] = alerts[k][d][w] + 1]] \in [Events -> [Users -> Nat]]
    BY <1>2
  <2> QED BY <1>1, <1>2, <2>1, <2>2
<1>4. TypeOK'
  BY <1>1, <1>3 DEF IInv, TInv, TypeOK, Rows
<1>5. /\ plan'[k][d][w] = "fired" /\ alerts'[k][d][w] = alerts[k][d][w] + 1
      /\ \A t \in Tasks, e \in Events, u \in Users :
           (t = k /\ e = d /\ u = w) \/ (plan'[t][e][u] = plan[t][e][u] /\ alerts'[t][e][u] = alerts[t][e][u])
  <2>1. /\ plan'[k][d][w] = "fired"
        /\ \A t \in Tasks, e \in Events, u \in Users :
             (t = k /\ e = d /\ u = w) \/ plan'[t][e][u] = plan[t][e][u]
    BY <1>1, <1>2, EntryChanged DEF Rows
  <2>2. /\ alerts'[k][d][w] = alerts[k][d][w] + 1
        /\ \A t \in Tasks, e \in Events, u \in Users :
             (t = k /\ e = d /\ u = w) \/ alerts'[t][e][u] = alerts[t][e][u]
    BY <1>1, <1>2, EntryChanged
  <2>3. ASSUME NEW t \in Tasks, NEW e \in Events, NEW u \in Users
        PROVE  (t = k /\ e = d /\ u = w) \/ (plan'[t][e][u] = plan[t][e][u] /\ alerts'[t][e][u] = alerts[t][e][u])
    BY <2>1, <2>2
  <2> QED BY <2>1, <2>2, <2>3
<1>6. ASSUME NEW t \in Tasks PROVE TaskInv(t)'
  <2>1. TaskInv(t) /\ TypeOK
    BY DEF IInv, TInv
  <2>2. \A e \in Events, u \in Users :
          /\ plan'[t][e][u] \in Live => plan[t][e][u] \in Live
          /\ plan'[t][e][u] = "none" => plan[t][e][u] = "none" /\ alerts'[t][e][u] = alerts[t][e][u]
          /\ plan[t][e][u] = "none" => plan'[t][e][u] = "none"
    BY <1>1, <1>5 DEF Live
  <2>3. Blank(t)'
    BY <1>1, <2>1, <2>2 DEF TaskInv, Blank
  <2>4. Follows(t)'
    BY <1>1, <2>1, <2>2 DEF TaskInv, Follows, Recipients
  <2>5. Budget(t)'
    <3> SUFFICES ASSUME NEW e \in Events, NEW u \in Users
                 PROVE  alerts'[t][e][u] + Pending(t, e, u)' = alerts[t][e][u] + Pending(t, e, u)
      BY <1>1, <2>1, <2>2 DEF TaskInv, Budget, Extra
    <3>1. CASE t = k /\ e = d /\ u = w
      <4>1. Pending(t, e, u) = 1 /\ Pending(t, e, u)' = 0
        BY <1>1, <1>5, <3>1 DEF Pending, Live
      <4> QED BY <1>2, <1>5, <3>1, <4>1
    <3>2. CASE ~(t = k /\ e = d /\ u = w)
      BY <1>5, <3>2 DEF Pending
    <3> QED BY <3>1, <3>2
  <2>6. Turned(t)'
    BY <1>1, <2>1 DEF TaskInv, Turned
  <2> QED BY <2>3, <2>4, <2>5, <2>6 DEF TaskInv
<1> QED BY <1>4, <1>6 DEF IInv, TInv

LEMMA ReadNextStep == ASSUME IInv, NEW k \in Tasks, ReadNext(k) PROVE TInv'
<1> DEFINE pending == {m \in MembersOf(Group[k]) : tasks[m].status = "pending"}
           next == {m \in pending : \A j \in pending : m <= j}
           holders == UNION {tasks[m].holders : m \in next}
<1>1. /\ read' = [read EXCEPT ![k] = [by |-> tasks[k].claimer, next |-> next, holders |-> holders]]
      /\ UNCHANGED <<tasks, plan, alerts, run, answered, seen, used>>
  BY DEF ReadNext
<1>2. next \in SUBSET Tasks
  BY DEF MembersOf
<1>3. tasks \in [Tasks -> TaskRecord]
  BY DEF IInv, TInv, TypeOK, TaskRecord
<1>4. holders \in SUBSET Users
  <2>1. \A m \in next : tasks[m].holders \subseteq Users
    BY <1>2, <1>3 DEF TaskRecord
  <2> HIDE DEF next
  <2> QED BY <2>1
<1>5. tasks[k].claimer \in Users \cup {NoUser}
  BY <1>3 DEF TaskRecord
<1> HIDE DEF next, holders
<1>6. read' \in [Tasks -> ReadRecord]
  <2>1. [by |-> tasks[k].claimer, next |-> next, holders |-> holders] \in ReadRecord
    BY <1>2, <1>4, <1>5 DEF ReadRecord
  <2>2. read \in [Tasks -> ReadRecord]
    BY DEF IInv, TInv, TypeOK, ReadRecord
  <2> QED BY <1>1, <2>1, <2>2
<1>7. TypeOK'
  BY <1>1, <1>6 DEF IInv, TInv, TypeOK, ReadRecord
<1>8. ASSUME NEW t \in Tasks PROVE TaskInv(t)'
  BY <1>1, KeptInv DEF IInv, TInv
<1> QED BY <1>7, <1>8 DEF TInv

LEMMA StutterStep == ASSUME IInv, UNCHANGED vars PROVE TInv'
<1>1. UNCHANGED <<tasks, plan, alerts, run, answered, read, seen, used>>
  BY DEF vars
<1>2. TypeOK'
  BY <1>1 DEF IInv, TInv, TypeOK
<1>3. ASSUME NEW t \in Tasks PROVE TaskInv(t)'
  BY <1>1, KeptInv DEF IInv, TInv
<1> QED BY <1>2, <1>3 DEF IInv, TInv

LEMMA OpenMoved ==
    ASSUME NEW t \in Tasks, NEW target \in Users,
           Reassign(t, target) \/ (\E u \in Users : Handover(u, t, target))
    PROVE  tasks[t].status \in Open /\ Move(t, target)
BY DEF Reassign, Handover, OpenTasks, IsOwner, Open

LEMMA NextTInv == ASSUME IInv, [Next]_vars PROVE TInv'
<1>1. CASE Start \/ Park \/ Retry \/ Pause \/ Resume \/ (\E g \in Groups : Continue(g))
  BY <1>1, RunStep
<1>2. CASE EndRun
  BY <1>2, EndRunStep
<1>3. CASE CancelObsolete
  BY <1>3, CancelObsoleteStep
<1>4. CASE \E g \in Groups : CreateTasks(g)
  BY <1>4, CreateStep
<1>5. CASE \E t \in Tasks : Return(t) \/ (\E u \in Users : Claim(u, t))
  <2>1. PICK t \in Tasks : Return(t) \/ (\E u \in Users : Claim(u, t))
    BY <1>5
  <2>2. Owner \in Users
    BY ScheduleAssumption
  <2> QED BY <2>1, <2>2, ClaimStep
<1>6. CASE \E t \in Tasks : Decide(t)
  BY <1>6, DecideStep
<1>7. CASE \E t \in Tasks, e \in Events : FallDue(t, e)
  BY <1>7, FallDueStep
<1>8. CASE \E t \in Tasks, e \in Events, u \in Users : Fire(t, e, u)
  BY <1>8, FireStep
<1>9. CASE \E t \in Tasks, target \in Users : Reassign(t, target) \/ (\E u \in Users : Handover(u, t, target))
  <2>1. PICK t \in Tasks, target \in Users : Reassign(t, target) \/ (\E u \in Users : Handover(u, t, target))
    BY <1>9
  <2>2. tasks[t].status \in Open /\ Move(t, target)
    BY <2>1, OpenMoved
  <2> QED BY <2>2, MoveStep
<1>10. CASE \E u \in Users, t \in Tasks, target \in Users, new \in Tasks : AddSigner(u, t, new, target)
  BY <1>10, AddStep
<1>11. CASE \E u \in Users, t \in Tasks, member \in Tasks : RemoveSigner(u, t, member)
  BY <1>11, RemoveStep
<1>12. CASE UNCHANGED vars
  BY <1>12, StutterStep
<1>13. CASE \E t \in Tasks : ReadNext(t)
  BY <1>13, ReadNextStep
<1> QED
  BY <1>1, <1>2, <1>3, <1>4, <1>5, <1>6, <1>7, <1>8, <1>9, <1>10, <1>11, <1>12, <1>13 DEF Next

\* What a decision read stays true: no task disappears and no turn is taken back.
LEMMA ReadKept ==
    ASSUME TypeOK, NEW k \in Tasks, ReadInv(k), read'[k] = read[k] \/ read'[k] = NoRead,
           \A m \in Tasks : tasks[m].status # "none" => tasks'[m].status # "none",
           \A m \in Tasks, u \in Users :
               seen.turns[m][u] \in Nat /\ seen'.turns[m][u] \in Nat /\ seen.turns[m][u] <= seen'.turns[m][u]
    PROVE  ReadInv(k)'
<1>1. read[k] \in ReadRecord
  BY DEF TypeOK, ReadRecord
<1>2. CASE read'[k] = NoRead
  BY <1>2 DEF ReadInv, NoRead
<1>3. CASE read'[k] = read[k]
  <2> SUFFICES ASSUME NEW m \in read[k].next
               PROVE  tasks'[m].status # "none" /\ \A u \in read[k].holders : seen'.turns[m][u] >= 1
    BY <1>3 DEF ReadInv
  <2>1. m \in Tasks /\ read[k].holders \subseteq Users
    BY <1>1 DEF ReadRecord
  <2>2. tasks[m].status # "none" /\ \A u \in read[k].holders : seen.turns[m][u] >= 1
    BY DEF ReadInv
  <2> QED BY <2>1, <2>2
<1> QED BY <1>2, <1>3

LEMMA ReadTaken == ASSUME IInv, NEW k \in Tasks, ReadNext(k) PROVE \A t \in Tasks : ReadInv(t)'
<1> DEFINE pending == {m \in MembersOf(Group[k]) : tasks[m].status = "pending"}
           next == {m \in pending : \A j \in pending : m <= j}
           holders == UNION {tasks[m].holders : m \in next}
<1>1. /\ read' = [read EXCEPT ![k] = [by |-> tasks[k].claimer, next |-> next, holders |-> holders]]
      /\ UNCHANGED <<tasks, seen>>
  BY DEF ReadNext
<1>2. \A m \in next : m \in Tasks /\ tasks[m].status = "pending" /\ \A n \in next : m = n
  <2>1. Tasks \subseteq Nat
    BY ScheduleAssumption DEF Tasks
  <2>2. \A m \in next : m \in Tasks /\ tasks[m].status = "pending"
    BY DEF MembersOf
  <2>3. \A m, n \in next : m <= n /\ n <= m
    OBVIOUS
  <2> QED BY <2>1, <2>2, <2>3
<1>3. \A m \in next : holders = tasks[m].holders
  <2> HIDE DEF next
  <2> QED BY <1>2
<1> HIDE DEF next, holders
<1> SUFFICES ASSUME NEW t \in Tasks PROVE ReadInv(t)'
  OBVIOUS
<1>4. read \in [Tasks -> ReadRecord]
  BY DEF IInv, TInv, TypeOK, ReadRecord
<1>5. CASE t = k
  <2>1. read'[t].next = next /\ read'[t].holders = holders
    BY <1>1, <1>4, <1>5
  <2>2. ASSUME NEW m \in next
        PROVE  tasks'[m].status # "none" /\ \A u \in holders : seen'.turns[m][u] >= 1
    <3>1. TaskInv(m)
      BY <1>2 DEF IInv, TInv
    <3> QED BY <1>1, <1>2, <1>3, <3>1 DEF TaskInv, Turned
  <2> QED BY <2>1, <2>2 DEF ReadInv
<1>6. CASE t # k
  <2>1. read'[t] = read[t]
    BY <1>1, <1>4, <1>6
  <2> QED BY <1>1, <2>1 DEF ReadInv, IInv
<1> QED BY <1>5, <1>6

\* No other step takes back a task, a turn or what a decision has read of them.
LEMMA StepGrows ==
    ASSUME IInv, [Next]_vars, ~\E t \in Tasks : ReadNext(t)
    PROVE  /\ \A k \in Tasks : read'[k] = read[k] \/ read'[k] = NoRead
           /\ \A m \in Tasks : tasks[m].status # "none" => tasks'[m].status # "none"
           /\ \A m \in Tasks, u \in Users : seen.turns[m][u] <= seen'.turns[m][u]
<1>0. /\ tasks \in [Tasks -> TaskRecord] /\ seen \in SeenRecord /\ read \in [Tasks -> ReadRecord]
      /\ \A m \in Tasks, u \in Users : seen.turns[m][u] \in Nat
  BY DEF IInv, TInv, TypeOK, TaskRecord, SeenRecord, ReadRecord
<1>1. CASE UNCHANGED <<tasks, read>> /\ seen'.turns = seen.turns
  BY <1>0, <1>1
<1>2. CASE \E g \in Groups : CreateTasks(g)
  <2>1. PICK g \in Groups : CreateTasks(g)
    BY <1>2
  <2> DEFINE new == {t \in MembersOf(g) : Holders[t] # {}}
             first == {t \in new : MayAct(t)}
  <2>2. /\ \A t \in new : tasks[t].status = "none"
        /\ tasks' = [t \in Tasks |-> IF t \notin new THEN tasks[t]
               ELSE [status |-> "pending", holders |-> Holders[t], claimer |-> NoUser, operable |-> MayAct(t)]]
        /\ seen' = [seen EXCEPT !.called = seen.called \cup first, !.turns = [t \in Tasks |->
               [u \in Users |-> IF t \in new /\ u \in Holders[t] THEN 1 ELSE seen.turns[t][u]]]]
        /\ UNCHANGED read
    BY <2>1 DEF CreateTasks
  <2> HIDE DEF new, first
  <2>3. \A t \in Tasks, u \in Users :
          seen'.turns[t][u] = IF t \in new /\ u \in Holders[t] THEN 1 ELSE seen.turns[t][u]
    BY <1>0, <2>2 DEF SeenRecord
  <2>4. \A t \in new, u \in Users : seen.turns[t][u] = 0
    <3>1. new \subseteq Tasks
      BY DEF new, MembersOf
    <3> QED BY <2>2, <3>1 DEF IInv, TInv, TaskInv, Blank
  <2>5. \A m \in Tasks, u \in Users : seen.turns[m][u] <= seen'.turns[m][u]
    BY <1>0, <2>3, <2>4
  <2>6. \A m \in Tasks : tasks[m].status # "none" => tasks'[m].status # "none"
    BY <2>2
  <2> QED BY <2>2, <2>5, <2>6
<1>3. CASE \E t \in Tasks : Decide(t)
  <2>1. PICK k \in Tasks : Decide(k)
    BY <1>3
  <2>2. PICK others \in SUBSET Tasks : Undecided(k, others) \/ Settled(k, others)
    BY <2>1 DEF Decide, OpenTasks
  <2>3. read' = [read EXCEPT ![k] = NoRead] /\ seen'.turns = seen.turns
    BY <1>0, <2>1, <2>2 DEF Decide, Undecided, Settled, SeenRecord
  <2>4. ASSUME NEW m \in Tasks, tasks[m].status # "none" PROVE tasks'[m].status # "none"
    <3>1. CASE Undecided(k, others)
      <4>1. \/ tasks'[m] = [tasks[m] EXCEPT !.status = "completed"]
            \/ tasks'[m] = [tasks[m] EXCEPT !.operable = TRUE]
            \/ tasks'[m] = tasks[m]
        BY <3>1 DEF Undecided
      <4> QED BY <1>0, <2>4, <4>1 DEF TaskRecord
    <3>2. CASE Settled(k, others)
      <4>1. CloseTasks(others) \in [Tasks -> TaskRecord]
        BY CloseTasksType DEF IInv, TInv
      <4>2. CloseTasks(others)[m].status # "none"
        BY <1>0, <2>4 DEF CloseTasks, TaskRecord
      <4> QED BY <3>2, <4>1, <4>2 DEF Settled, TaskRecord
    <3> QED BY <2>2, <3>1, <3>2
  <2> QED BY <1>0, <2>3, <2>4
<1>4. CASE EndRun \/ (\E u \in Users, t \in Tasks, m \in Tasks : RemoveSigner(u, t, m))
  <2>1. PICK closed : tasks' = CloseTasks(closed) /\ UNCHANGED <<read, seen>>
    BY <1>4 DEF EndRun, RemoveSigner
  <2>2. \A m \in Tasks : tasks[m].status # "none" => tasks'[m].status # "none"
    BY <1>0, <2>1 DEF CloseTasks, TaskRecord
  <2> QED BY <1>0, <2>1, <2>2
<1>5. CASE \E t \in Tasks : Return(t) \/ (\E u \in Users : Claim(u, t))
  <2>1. PICK t \in Tasks : Return(t) \/ (\E u \in Users : Claim(u, t))
    BY <1>5
  <2>2. /\ UNCHANGED <<read, seen>>
        /\ \A m \in Tasks : m # t => tasks'[m] = tasks[m]
        /\ tasks'[t].status \in Open
    BY <1>0, <2>1 DEF Return, Claim, TaskRecord, Open
  <2> QED BY <1>0, <2>2 DEF Open
<1>6. CASE \E t \in Tasks, target \in Users : Move(t, target)
  <2>1. PICK t \in Tasks, target \in Users : Move(t, target)
    BY <1>6
  <2>2. /\ seen' = [seen EXCEPT !.turns = Given(seen.turns, t, {target})] /\ UNCHANGED read
        /\ \A m \in Tasks : tasks'[m] = tasks[m] \/ tasks'[m].status = "pending"
    BY <1>0, <2>1 DEF Move
  <2>3. seen'.turns = Given(seen.turns, t, {target})
    BY <1>0, <2>2 DEF SeenRecord
  <2>4. \A m \in Tasks, u \in Users : seen.turns[m][u] <= seen'.turns[m][u]
    BY <1>0, <2>3, GivenTurns DEF IInv, TInv
  <2> QED BY <2>2, <2>4
<1>7. CASE \E u \in Users, t \in Tasks, target \in Users, new \in Tasks : AddSigner(u, t, new, target)
  <2>1. PICK u \in Users, t \in Tasks, target \in Users, new \in Tasks : AddSigner(u, t, new, target)
    BY <1>7
  <2>2. /\ seen'.turns = Given(seen.turns, new, {target}) /\ UNCHANGED read
        /\ \A m \in Tasks : tasks'[m] = tasks[m] \/ tasks'[m].status = "pending"
    BY <1>0, <2>1 DEF AddSigner, SeenRecord
  <2>3. \A m \in Tasks, v \in Users : seen.turns[m][v] <= seen'.turns[m][v]
    BY <1>0, <2>2, GivenTurns DEF IInv, TInv
  <2> QED BY <2>2, <2>3
<1>8. CASE \/ Start \/ Park \/ Retry \/ Pause \/ Resume \/ CancelObsolete \/ UNCHANGED vars
           \/ \E g \in Groups : Continue(g)
           \/ \E t \in Tasks, e \in Events : FallDue(t, e) \/ (\E u \in Users : Fire(t, e, u))
  <2>1. UNCHANGED <<tasks, read>> /\ seen'.turns = seen.turns
    BY <1>0, <1>8 DEF Start, Park, Retry, Pause, Resume, CancelObsolete, Continue, FallDue, Fire, vars, SeenRecord
  <2> QED BY <1>1, <2>1
<1>9. CASE \E t \in Tasks, target \in Users : Reassign(t, target) \/ (\E u \in Users : Handover(u, t, target))
  BY <1>6, <1>9 DEF Reassign, Handover
<1> QED BY <1>2, <1>3, <1>4, <1>5, <1>7, <1>8, <1>9 DEF Next

LEMMA NextInv == ASSUME IInv, [Next]_vars PROVE IInv'
<1>1. TInv'
  BY NextTInv
<1>2. \A t \in Tasks : ReadInv(t)'
  <2>1. CASE \E t \in Tasks : ReadNext(t)
    BY <2>1, ReadTaken
  <2>2. CASE ~\E t \in Tasks : ReadNext(t)
    <3>1. \A m \in Tasks, u \in Users : seen.turns[m][u] \in Nat /\ seen'.turns[m][u] \in Nat
      BY <1>1 DEF IInv, TInv, TypeOK
    <3>2. \A m \in Tasks, u \in Users :
            seen.turns[m][u] \in Nat /\ seen'.turns[m][u] \in Nat /\ seen.turns[m][u] <= seen'.turns[m][u]
      BY <2>2, <3>1, StepGrows
    <3> QED BY <2>2, <3>2, StepGrows, ReadKept DEF IInv, TInv
  <2> QED BY <2>1, <2>2
<1> QED BY <1>1, <1>2 DEF IInv

LEMMA InitInv == Init => IInv
<1> SUFFICES ASSUME Init PROVE IInv
  OBVIOUS
<1>1. TInv
  BY InitTInv
<1>2. \A k \in Tasks : ReadInv(k)
  BY DEF Init, ReadInv, NoRead
<1> QED BY <1>1, <1>2 DEF IInv

\* Whatever members, worker and time do, every reachable state satisfies the invariant: the
\* notices of each task that is not astray follow its holders, those of every task are covered by
\* the turns it had, and whoever a decision has read as a holder was one.
THEOREM InductiveInvariant == Spec => []IInv
<1>1. Init => IInv
  BY InitInv
<1>2. IInv /\ [Next]_vars => IInv'
  BY NextInv
<1> QED BY <1>1, <1>2, PTL DEF Spec

\* Every reachable state of the task schedules is well typed.
THEOREM TypeCorrect == Spec => []TypeOK
<1>1. IInv => TypeOK
  BY DEF IInv, TInv
<1> QED BY <1>1, InductiveInvariant, PTL

\* An open task's notices go to those who hold it now (moveScheduledTaskNotifications), for any
\* number of handovers, reassignments, additions and removals, unless its turn was passed by a
\* decision that had read it before it changed hands.
THEOREM NoticesGoToHolders == Spec => []NoticesFollowHolders
<1>1. IInv => NoticesFollowHolders
  <2> SUFFICES ASSUME IInv, NEW t \in OpenTasks \ seen.astray, NEW e \in Events, NEW u \in Users, plan[t][e][u] \in Live
               PROVE  u \in Recipients(e, tasks[t].holders)
    BY DEF NoticesFollowHolders
  <2> QED BY DEF IInv, TInv, TaskInv, Follows, OpenTasks
<1> QED BY <1>1, InductiveInvariant, PTL

\* Nobody is told of an event of a task more often than it came to them, the owner of an
\* escalation once more: the worker's poll and ON DUPLICATE KEY UPDATE repeat nothing.
THEOREM NobodyIsToldTwice == Spec => []ToldOnce
<1>1. IInv => ToldOnce
  <2> SUFFICES ASSUME IInv, NEW t \in Tasks, NEW e \in Events, NEW u \in Users
               PROVE  alerts[t][e][u] <= seen.turns[t][u] + Extra(e, u)
    BY DEF ToldOnce, Extra
  <2>1. alerts[t][e][u] + Pending(t, e, u) <= seen.turns[t][u] + Extra(e, u)
    BY DEF IInv, TInv, TaskInv, Budget
  <2>2. /\ alerts[t][e][u] \in Nat /\ seen.turns[t][u] \in Nat
        /\ Pending(t, e, u) \in 0..1 /\ Extra(e, u) \in 0..1
    BY DEF IInv, TInv, TypeOK, Pending, Extra
  <2> QED BY <2>1, <2>2
<1> QED BY <1>1, InductiveInvariant, PTL

-----------------------------------------------------------------------------
(***************************************************************************)
(* NoticesKept: a task that was called upon keeps its notices for those    *)
(* who hold it; one that was not has no rows, so that its turn plans them; *)
(* who claimed a task is one of its holders, and an open task has some, so *)
(* that a handover or an addition finds rows to go by.                     *)
(***************************************************************************)
ClaimedByHolder(t) == tasks[t].status = "claimed" => tasks[t].claimer \in tasks[t].holders
Held(t) == tasks[t].status \in Open => tasks[t].holders # {}

Called(t) ==
    /\ t \in seen.called => tasks[t].status # "none"
    /\ t \notin seen.called => \A e \in Events, u \in Users : plan[t][e][u] = "none"

KeptOrMissed(t) ==
    tasks[t].status \in Open /\ t \in seen.called => t \in seen.missed \cup seen.astray \/ Kept(t)

NoticeInv(t) == ClaimedByHolder(t) /\ Held(t) /\ Called(t) /\ KeptOrMissed(t)
NoticesInv == \A t \in Tasks : NoticeInv(t)

\* What was told stays told; the history loses nothing.
Grows ==
    /\ \A m \in Tasks, e \in Events, u \in Users : alerts[m][e][u] > 0 => alerts'[m][e][u] > 0
    /\ seen.missed \subseteq seen'.missed /\ seen.called \subseteq seen'.called
    /\ seen.astray \subseteq seen'.astray

LEMMA ToldGrows ==
    ASSUME Grows, NEW t \in Tasks, NEW e \in Events, Told(t, e) PROVE Told(t, e)'
BY DEF Grows, Told

\* The task is not called upon now; it stays open in the same hands and its live rows stay live or
\* are sent, or it is closed.
LEMMA NoticeKept ==
    ASSUME TypeOK, Grows, NEW t \in Tasks, NoticeInv(t),
           t \in seen'.called => t \in seen.called,
           tasks[t].status # "none" => tasks'[t].status # "none",
           \A e \in Events, u \in Users : plan[t][e][u] = "none" => plan'[t][e][u] = "none",
           tasks'[t].status \in Open =>
               /\ tasks[t].status \in Open
               /\ tasks'[t].holders = tasks[t].holders
               /\ tasks'[t].status = "claimed" => tasks'[t].claimer \in tasks[t].holders
               /\ \/ t \in seen'.missed
                  \/ \A e \in Events, u \in Users :
                       plan[t][e][u] \in Live => plan'[t][e][u] \in Live \/ alerts'[t][e][u] > 0
    PROVE  NoticeInv(t)'
<1>1. ClaimedByHolder(t)' /\ Held(t)'
  BY DEF ClaimedByHolder, Held, NoticeInv, Open
<1>2. Called(t)'
  BY DEF NoticeInv, Called, Grows
<1>3. KeptOrMissed(t)'
  <2> SUFFICES ASSUME tasks'[t].status \in Open, t \in seen'.called, t \notin seen'.missed \cup seen'.astray,
                      NEW e \in Events, ~Told(t, e)', NEW u \in tasks'[t].holders
               PROVE  plan'[t][e][u] \in Live
    BY DEF KeptOrMissed, Kept
  <2>1. Kept(t) /\ u \in Users
    BY DEF NoticeInv, KeptOrMissed, Grows, TypeOK
  <2>2. ~Told(t, e)
    BY ToldGrows
  <2>3. plan[t][e][u] \in Live
    BY <2>1, <2>2 DEF Kept
  <2>4. ~(alerts'[t][e][u] > 0)
    BY <2>1 DEF Told
  <2> QED BY <2>1, <2>3, <2>4
<1> QED BY <1>1, <1>2, <1>3 DEF NoticeInv

\* A task is called upon, when it is created or when its turn comes.
LEMMA NoticePlanned ==
    ASSUME TypeOK, Grows, NEW t \in Tasks, NEW h \in SUBSET Users, plan'[t] = Planned(plan[t], h),
           ClaimedByHolder(t)', Held(t)', t \in seen'.called, tasks'[t].status # "none",
           tasks'[t].status \in Open /\ t \notin seen'.missed \cup seen'.astray =>
               /\ tasks'[t].holders = h
               /\ \/ \A e \in Events, u \in Users : plan[t][e][u] = "none"
                  \/ tasks[t].holders = h /\ Kept(t)
    PROVE  NoticeInv(t)'
<1>1. \A e \in Events, u \in h : plan[t][e][u] \in Live \cup {"none"} => plan'[t][e][u] \in Live
  BY DEF Planned, Recipients, Live
<1>2. Called(t)'
  BY DEF Called
<1>3. KeptOrMissed(t)'
  <2> SUFFICES ASSUME tasks'[t].status \in Open, t \notin seen'.missed \cup seen'.astray,
                      NEW e \in Events, ~Told(t, e)', NEW u \in h
               PROVE  plan'[t][e][u] \in Live
    BY DEF KeptOrMissed, Kept
  <2>1. CASE \A d \in Events, v \in Users : plan[t][d][v] = "none"
    BY <1>1, <2>1
  <2>2. CASE tasks[t].holders = h /\ Kept(t)
    <3>1. ~Told(t, e)
      BY ToldGrows
    <3> QED BY <1>1, <2>2, <3>1 DEF Kept
  <2> QED BY <2>1, <2>2
<1> QED BY <1>2, <1>3 DEF NoticeInv

\* A task that was called upon and not told of an event has a live row to go by.
LEMMA LiveRow ==
    ASSUME TypeOK, NEW t \in Tasks, NoticeInv(t), tasks[t].status \in Open, t \in seen.called,
           t \notin seen.missed \cup seen.astray, NEW e \in Events, ~Told(t, e)
    PROVE  LiveOf(plan[t], e) # {}
<1>1. PICK w \in Users : w \in tasks[t].holders
  BY DEF NoticeInv, Held, TypeOK
<1>2. plan[t][e][w] \in Live
  BY <1>1 DEF NoticeInv, KeptOrMissed, Kept
<1> QED BY <1>2 DEF LiveOf

-----------------------------------------------------------------------------
LEMMA InitNotices == ASSUME Init PROVE \A t \in Tasks : NoticeInv(t)
BY DEF Init, NoticeInv, ClaimedByHolder, Held, Called, KeptOrMissed, Open

\* Steps that close tasks, or leave them, and cancel the rows of closed ones or miss the task.
LEMMA ClosingNotices ==
    ASSUME TypeOK, \A t \in Tasks : NoticeInv(t), UNCHANGED alerts, seen.missed \subseteq seen'.missed,
           seen'.called = seen.called, seen'.astray = seen.astray,
           \A t \in Tasks : plan'[t] = plan[t] \/ plan'[t] = Cancelled(plan[t]),
           \A t \in Tasks : \/ tasks'[t].status \in {"completed", "cancelled"}
                            \/ /\ tasks'[t] = tasks[t]
                               /\ tasks[t].status \notin Open \/ plan'[t] = plan[t] \/ t \in seen'.missed
    PROVE  \A t \in Tasks : NoticeInv(t)'
<1>1. Grows
  BY DEF Grows
<1> SUFFICES ASSUME NEW t \in Tasks PROVE NoticeInv(t)'
  OBVIOUS
<1>2. \A e \in Events, u \in Users : plan[t][e][u] = "none" => plan'[t][e][u] = "none"
  <2>1. CASE plan'[t] = plan[t]
    BY <2>1
  <2>2. CASE plan'[t] = Cancelled(plan[t])
    BY <2>2 DEF Cancelled, Live
  <2> QED BY <2>1, <2>2
<1>3. CASE tasks'[t].status \in {"completed", "cancelled"}
  BY <1>1, <1>2, <1>3, NoticeKept DEF Open
<1>4. CASE /\ tasks'[t] = tasks[t]
           /\ tasks[t].status \notin Open \/ plan'[t] = plan[t] \/ t \in seen'.missed
  <2>1. tasks'[t].status = "claimed" => tasks'[t].claimer \in tasks[t].holders
    BY <1>4 DEF NoticeInv, ClaimedByHolder
  <2> QED BY <1>1, <1>2, <1>4, <2>1, NoticeKept
<1> QED BY <1>3, <1>4

LEMMA RunNotices ==
    ASSUME IInv, \A t \in Tasks : NoticeInv(t),
           \/ Start \/ Park \/ Retry \/ Pause \/ Resume \/ (\E g \in Groups : Continue(g)) \/ UNCHANGED vars
           \/ \E t \in Tasks : ReadNext(t)
    PROVE  \A t \in Tasks : NoticeInv(t)'
<1>1. UNCHANGED <<tasks, plan, alerts, seen>>
  BY DEF Start, Park, Retry, Pause, Resume, Continue, ReadNext, vars
<1> QED BY <1>1, ClosingNotices DEF IInv, TInv

LEMMA ClosedStatus ==
    ASSUME TypeOK, NEW closed, NEW t \in Tasks
    PROVE  IF t \in closed THEN CloseTasks(closed)[t].status = "cancelled" ELSE CloseTasks(closed)[t] = tasks[t]
<1>1. tasks[t] \in TaskRecord
  BY DEF TypeOK, TaskRecord
<1> QED BY <1>1 DEF CloseTasks, TaskRecord

LEMMA CancelNotices ==
    ASSUME IInv, \A t \in Tasks : NoticeInv(t),
           \/ EndRun \/ CancelObsolete
           \/ \E w \in Users, k \in Tasks, m \in Tasks : RemoveSigner(w, k, m)
    PROVE  \A t \in Tasks : NoticeInv(t)'
<1>0. TypeOK
  BY DEF IInv, TInv
<1>1. CASE EndRun
  <2>1. tasks' = CloseTasks(OpenTasks) /\ plan' = CancelPlans(Tasks) /\ UNCHANGED <<alerts, seen>>
    BY <1>1 DEF EndRun
  <2>2. \A t \in Tasks : tasks'[t].status = "cancelled" \/ (tasks'[t] = tasks[t] /\ tasks[t].status \notin Open)
    BY <1>0, <2>1, ClosedStatus DEF OpenTasks
  <2>3. \A t \in Tasks : plan'[t] = Cancelled(plan[t])
    BY <2>1 DEF CancelPlans
  <2> QED BY <1>0, <2>1, <2>2, <2>3, ClosingNotices
<1>2. CASE CancelObsolete
  <2>1. PICK hit \in SUBSET Tasks :
          /\ plan' = CancelPlans(hit) /\ UNCHANGED <<tasks, alerts>>
          /\ seen' = [seen EXCEPT !.missed = seen.missed \cup (hit \cap OpenTasks)]
    BY <1>2 DEF CancelObsolete
  <2>2. /\ seen'.missed = seen.missed \cup (hit \cap OpenTasks)
        /\ seen'.called = seen.called /\ seen'.astray = seen.astray
    BY <1>0, <2>1 DEF TypeOK
  <2>3. \A t \in Tasks : plan'[t] = plan[t] \/ (plan'[t] = Cancelled(plan[t]) /\ t \in hit)
    BY <2>1 DEF CancelPlans
  <2>4. \A t \in Tasks : tasks[t].status \notin Open \/ plan'[t] = plan[t] \/ t \in seen'.missed
    BY <2>2, <2>3 DEF OpenTasks
  <2> QED BY <1>0, <2>1, <2>2, <2>3, <2>4, ClosingNotices
<1>3. CASE \E w \in Users, k \in Tasks, m \in Tasks : RemoveSigner(w, k, m)
  <2>1. PICK m \in Tasks : tasks' = CloseTasks({m}) /\ plan' = CancelPlans({m}) /\ UNCHANGED <<alerts, seen>>
    BY <1>3 DEF RemoveSigner
  <2>2. \A t \in Tasks : tasks'[t].status = "cancelled" \/ (tasks'[t] = tasks[t] /\ t # m)
    BY <1>0, <2>1, ClosedStatus
  <2>3. \A t \in Tasks : plan'[t] = plan[t] \/ (plan'[t] = Cancelled(plan[t]) /\ t = m)
    BY <2>1 DEF CancelPlans
  <2> QED BY <1>0, <2>1, <2>2, <2>3, ClosingNotices
<1> QED BY <1>1, <1>2, <1>3

LEMMA ClaimNotices ==
    ASSUME IInv, \A t \in Tasks : NoticeInv(t), NEW w \in Users, NEW k \in Tasks, Claim(w, k) \/ Return(k)
    PROVE  \A t \in Tasks : NoticeInv(t)'
<1>1. UNCHANGED <<plan, alerts, seen>> /\ tasks[k].status \in Open /\ TypeOK
  BY DEF Claim, Return, Open, IInv, TInv
<1>2. /\ tasks'[k].holders = tasks[k].holders /\ tasks'[k].status # "none"
      /\ tasks'[k].status = "claimed" => tasks'[k].claimer \in tasks[k].holders
      /\ \A t \in Tasks : t # k => tasks'[t] = tasks[t]
  <2>1. tasks[k] \in TaskRecord /\ tasks \in [Tasks -> TaskRecord]
    BY <1>1 DEF TypeOK, TaskRecord
  <2>2. CASE Claim(w, k)
    <3>1. w \in tasks[k].holders
      BY <2>2 DEF Claim, IsOwner
    <3> QED BY <2>1, <2>2, <3>1 DEF Claim, TaskRecord
  <2>3. CASE Return(k)
    BY <2>1, <2>3 DEF Return, TaskRecord
  <2> QED BY <2>2, <2>3
<1>3. Grows
  BY <1>1 DEF Grows
<1> SUFFICES ASSUME NEW t \in Tasks PROVE NoticeInv(t)'
  OBVIOUS
<1>4. /\ tasks'[t].holders = tasks[t].holders
      /\ tasks[t].status # "none" => tasks'[t].status # "none"
      /\ tasks'[t].status = "claimed" => tasks'[t].claimer \in tasks[t].holders
      /\ tasks'[t].status \in Open => tasks[t].status \in Open
  BY <1>1, <1>2 DEF NoticeInv, ClaimedByHolder
<1> QED BY <1>1, <1>3, <1>4, NoticeKept

LEMMA CreateNotices ==
    ASSUME IInv, \A t \in Tasks : NoticeInv(t), NEW g \in Groups, CreateTasks(g)
    PROVE  \A t \in Tasks : NoticeInv(t)'
<1>1. PICK new \in SUBSET Tasks :
        /\ \A t \in new : tasks[t].status = "none" /\ Holders[t] # {}
        /\ tasks' = [t \in Tasks |-> IF t \notin new THEN tasks[t]
               ELSE [status |-> "pending", holders |-> Holders[t], claimer |-> NoUser, operable |-> MayAct(t)]]
        /\ plan' = [t \in Tasks |-> IF t \in new /\ MayAct(t) THEN Planned(plan[t], Holders[t]) ELSE plan[t]]
        /\ seen'.called = seen.called \cup {t \in new : MayAct(t)}
        /\ UNCHANGED alerts /\ seen'.missed = seen.missed /\ seen'.astray = seen.astray
  <2> DEFINE new == {t \in MembersOf(g) : Holders[t] # {}}
             first == {t \in new : MayAct(t)}
  <2>1. /\ \A t \in new : tasks[t].status = "none" /\ Holders[t] # {}
        /\ tasks' = [t \in Tasks |-> IF t \notin new THEN tasks[t]
               ELSE [status |-> "pending", holders |-> Holders[t], claimer |-> NoUser, operable |-> MayAct(t)]]
        /\ plan' = [t \in Tasks |-> IF t \in first THEN Planned(plan[t], Holders[t]) ELSE plan[t]]
    BY DEF CreateTasks
  <2>2. \A t \in Tasks : t \in first <=> t \in new /\ MayAct(t)
    OBVIOUS
  <2>5. /\ seen'.called = seen.called \cup first
        /\ UNCHANGED alerts /\ seen'.missed = seen.missed /\ seen'.astray = seen.astray
    BY DEF CreateTasks, IInv, TInv, TypeOK
  <2>6. first = {t \in new : MayAct(t)}
    OBVIOUS
  <2>3. new \in SUBSET Tasks
    BY DEF MembersOf
  <2> HIDE DEF new, first
  <2>4. plan' = [t \in Tasks |-> IF t \in new /\ MayAct(t) THEN Planned(plan[t], Holders[t]) ELSE plan[t]]
    BY <2>1, <2>2
  <2> QED BY <2>1, <2>3, <2>4, <2>5, <2>6
<1>2. TypeOK
  BY DEF IInv, TInv
<1>3. Grows
  BY <1>1 DEF Grows
<1> SUFFICES ASSUME NEW t \in Tasks PROVE NoticeInv(t)'
  OBVIOUS
<1>4. CASE t \notin new
  <2>1. tasks'[t] = tasks[t] /\ plan'[t] = plan[t] /\ (t \in seen'.called => t \in seen.called)
    BY <1>1, <1>4
  <2> QED BY <1>2, <1>3, <2>1, NoticeKept DEF NoticeInv, ClaimedByHolder
<1>5. CASE t \in new
  <2>1. /\ tasks'[t].status = "pending" /\ tasks'[t].holders = Holders[t]
        /\ plan'[t] = IF MayAct(t) THEN Planned(plan[t], Holders[t]) ELSE plan[t]
        /\ Holders[t] \in SUBSET Users /\ Holders[t] # {}
    BY <1>1, <1>5, ScheduleAssumption
  <2>2. t \notin seen.called /\ \A e \in Events, u \in Users : plan[t][e][u] = "none"
    BY <1>1, <1>5 DEF NoticeInv, Called
  <2>3. ClaimedByHolder(t)' /\ Held(t)'
    BY <2>1 DEF ClaimedByHolder, Held
  <2>4. CASE MayAct(t)
    <3>1. t \in seen'.called
      BY <1>1, <1>5, <2>4
    <3> QED BY <1>2, <1>3, <2>1, <2>2, <2>3, <2>4, <3>1, NoticePlanned
  <2>5. CASE ~MayAct(t)
    <3>1. t \notin seen'.called /\ plan'[t] = plan[t]
      BY <1>1, <2>1, <2>2, <2>5
    <3> QED BY <2>2, <2>3, <3>1 DEF NoticeInv, Called, KeptOrMissed
  <2> QED BY <2>4, <2>5
<1> QED BY <1>4, <1>5

\* A decision closes its own task; the member it read as the next one is called upon, and is
\* astray if somebody else holds that task by now.
LEMMA DecideNotices ==
    ASSUME IInv, \A t \in Tasks : NoticeInv(t), NEW k \in Tasks, Decide(k)
    PROVE  \A t \in Tasks : NoticeInv(t)'
<1> DEFINE others == (OpenTasks \cap MembersOf(Group[k])) \ {k}
<1>1. UNCHANGED alerts /\ (Undecided(k, others) \/ Settled(k, others)) /\ others \in SUBSET Tasks
  BY DEF Decide, OpenTasks
<1>2. tasks \in [Tasks -> TaskRecord] /\ TypeOK /\ seen \in SeenRecord
  BY DEF IInv, TInv, TypeOK, TaskRecord, SeenRecord
<1> HIDE DEF others
<1>3. CASE Settled(k, others)
  <2>1. CloseTasks(others) \in [Tasks -> TaskRecord]
    BY <1>2, CloseTasksType
  <2>2. tasks'[k].status = "completed" /\ \A t \in Tasks : t # k => tasks'[t] = CloseTasks(others)[t]
    BY <1>3, <2>1 DEF Settled, TaskRecord
  <2>3. \A t \in Tasks : plan'[t] = plan[t] \/ (plan'[t] = Cancelled(plan[t]) /\ t \in others \cup {k})
    BY <1>3 DEF Settled, CancelPlans
  <2>4. \A t \in Tasks : \/ tasks'[t].status \in {"completed", "cancelled"}
                         \/ tasks'[t] = tasks[t] /\ plan'[t] = plan[t]
    BY <1>2, <2>2, <2>3, ClosedStatus
  <2> QED BY <1>1, <1>2, <1>3, <2>3, <2>4, ClosingNotices DEF Settled
<1>4. CASE Undecided(k, others)
  <2> DEFINE next == read[k].next
             h == read[k].holders
             former == {m \in next : tasks[m].holders # h}
  <2>1. /\ tasks' = [m \in Tasks |-> IF m = k THEN [tasks[m] EXCEPT !.status = "completed"]
                                     ELSE IF m \in next \ former THEN [tasks[m] EXCEPT !.operable = TRUE]
                                     ELSE tasks[m]]
        /\ plan' = [m \in Tasks |-> IF m = k THEN Cancelled(plan[m])
                                    ELSE IF m \in next THEN Planned(plan[m], h) ELSE plan[m]]
        /\ seen' = [seen EXCEPT !.called = seen.called \cup next, !.astray = seen.astray \cup former]
    BY <1>4 DEF Undecided
  <2>2. /\ next \in SUBSET Tasks /\ h \in SUBSET Users
        /\ \A m \in next : m \notin former => tasks[m].holders = h
        /\ \A m \in next : tasks[m].status # "none"
    <3>1. read[k] \in ReadRecord
      BY <1>2 DEF TypeOK, ReadRecord
    <3> QED BY <3>1 DEF ReadRecord, IInv, ReadInv
  <2> HIDE DEF next, h, former
  <2>3. /\ seen'.called = seen.called \cup next /\ seen'.astray = seen.astray \cup former
        /\ seen'.missed = seen.missed
    BY <1>2, <2>1 DEF SeenRecord
  <2>4. Grows
    BY <1>1, <2>3 DEF Grows
  <2> SUFFICES ASSUME NEW t \in Tasks PROVE NoticeInv(t)'
    OBVIOUS
  <2>5. CASE t = k
    <3>1. tasks'[t].status = "completed"
      BY <1>2, <2>1, <2>5 DEF TaskRecord
    <3>2. t \notin seen'.called => \A e \in Events, u \in Users : plan'[t][e][u] = "none"
      <4>1. plan'[t] = Cancelled(plan[t])
        BY <2>1, <2>5
      <4>2. t \notin seen'.called => \A e \in Events, u \in Users : plan[t][e][u] = "none"
        BY <2>3 DEF NoticeInv, Called
      <4> QED BY <4>1, <4>2 DEF Cancelled, Live
    <3> QED BY <3>1, <3>2 DEF NoticeInv, ClaimedByHolder, Held, Called, KeptOrMissed, Open
  <2>6. CASE t # k /\ t \in next
    <3>1. /\ tasks'[t].holders = tasks[t].holders /\ tasks'[t].status = tasks[t].status
          /\ tasks'[t].claimer = tasks[t].claimer
      <4>1. tasks'[t] = [tasks[t] EXCEPT !.operable = TRUE] \/ tasks'[t] = tasks[t]
        BY <2>1, <2>6
      <4> QED BY <1>2, <4>1 DEF TaskRecord
    <3>2. ClaimedByHolder(t)' /\ Held(t)'
      BY <3>1 DEF NoticeInv, ClaimedByHolder, Held
    <3>3. t \in seen'.called /\ tasks'[t].status # "none" /\ plan'[t] = Planned(plan[t], h)
      BY <2>1, <2>2, <2>3, <2>6, <3>1
    <3>4. ASSUME tasks'[t].status \in Open, t \notin seen'.missed \cup seen'.astray
          PROVE  /\ tasks'[t].holders = h /\ tasks[t].holders = h
                 /\ (\A e \in Events, u \in Users : plan[t][e][u] = "none") \/ Kept(t)
      <4>1. tasks[t].holders = h
        BY <2>2, <2>3, <2>6, <3>4
      <4> QED BY <2>3, <3>1, <3>4, <4>1 DEF NoticeInv, Called, KeptOrMissed
    <3> QED BY <1>2, <2>2, <2>4, <3>2, <3>3, <3>4, NoticePlanned
  <2>7. CASE t # k /\ t \notin next
    <3>1. tasks'[t] = tasks[t] /\ plan'[t] = plan[t] /\ (t \in seen'.called => t \in seen.called)
      BY <2>1, <2>3, <2>7
    <3> QED BY <1>2, <2>4, <3>1, NoticeKept DEF NoticeInv, ClaimedByHolder
  <2> QED BY <2>5, <2>6, <2>7
<1> QED BY <1>1, <1>3, <1>4

\* Who gets a task gets a row of every event that has a live one.
LEMMA MoveNotices ==
    ASSUME IInv, \A t \in Tasks : NoticeInv(t), NEW k \in Tasks, NEW target \in Users,
           tasks[k].status \in Open, Move(k, target)
    PROVE  \A t \in Tasks : NoticeInv(t)'
<1>1. PICK at \in Times(plan[k]) :
        plan' = [plan EXCEPT ![k] = Moved(plan[k], tasks[k].holders \ {target}, target, at)]
  BY DEF Move
<1>2. /\ tasks' = [tasks EXCEPT ![k] = [status |-> "pending", holders |-> {target}, claimer |-> NoUser,
                                        operable |-> TRUE]]
      /\ UNCHANGED alerts
      /\ seen' = [seen EXCEPT !.turns = Given(seen.turns, k, {target})]
  BY DEF Move
<1>3. /\ tasks \in [Tasks -> TaskRecord] /\ plan \in [Tasks -> Rows] /\ at \in [Events -> Live] /\ TypeOK
      /\ seen'.missed = seen.missed /\ seen'.called = seen.called /\ seen'.astray = seen.astray
  BY <1>2, TimesType DEF IInv, TInv, TypeOK, TaskRecord, Rows
<1>4. Grows
  BY <1>2, <1>3 DEF Grows
<1> SUFFICES ASSUME NEW t \in Tasks PROVE NoticeInv(t)'
  OBVIOUS
<1>5. CASE t # k
  <2>1. tasks'[t] = tasks[t] /\ plan'[t] = plan[t]
    BY <1>1, <1>2, <1>3, <1>5
  <2> QED BY <1>3, <1>4, <2>1, NoticeKept DEF NoticeInv, ClaimedByHolder
<1>6. CASE t = k
  <2>1. /\ tasks'[k].status = "pending" /\ tasks'[k].holders = {target}
        /\ plan'[k] = Moved(plan[k], tasks[k].holders \ {target}, target, at)
    BY <1>1, <1>2, <1>3
  <2>2. ASSUME k \in seen'.called, k \notin seen'.missed \cup seen'.astray, NEW e \in Events, ~Told(k, e)'
        PROVE  plan'[k][e][target] \in Live
    <3>1. ~Told(k, e)
      BY <1>4, <2>2, ToldGrows
    <3>2. LiveOf(plan[k], e) # {}
      BY <1>3, <2>2, <3>1, LiveRow
    <3> QED BY <1>3, <2>1, <3>2 DEF Moved
  <2>3. KeptOrMissed(k)'
    BY <2>1, <2>2 DEF KeptOrMissed, Kept
  <2>4. Called(k)'
    <3>1. k \notin seen.called => \A e \in Events, u \in Users : plan'[k][e][u] = "none"
      <4> SUFFICES ASSUME k \notin seen.called, NEW e \in Events, NEW u \in Users PROVE plan'[k][e][u] = "none"
        OBVIOUS
      <4>1. \A v \in Users : plan[k][e][v] = "none"
        BY DEF NoticeInv, Called
      <4>2. LiveOf(plan[k], e) = {}
        BY <4>1 DEF LiveOf, Live
      <4> QED BY <2>1, <4>1, <4>2 DEF Moved, Live
    <3> QED BY <1>3, <2>1, <3>1 DEF Called
  <2> QED BY <1>6, <2>1, <2>3, <2>4 DEF NoticeInv, ClaimedByHolder, Held
<1> QED BY <1>5, <1>6

\* The new member gets a row of every event that has a live one; the others were told already.
LEMMA AddNotices ==
    ASSUME IInv, \A t \in Tasks : NoticeInv(t), NEW w \in Users, NEW s \in Tasks, NEW k \in Tasks,
           NEW target \in Users, AddSigner(w, s, k, target)
    PROVE  \A t \in Tasks : NoticeInv(t)'
<1>1. PICK at \in Times(plan[s]) : plan' = [plan EXCEPT ![k] = Copied(plan[s], target, at)]
  BY DEF AddSigner
<1>2. /\ tasks' = [tasks EXCEPT ![k] = [status |-> "pending", holders |-> {target}, claimer |-> NoUser,
                                        operable |-> Mode[Group[s]] # "sequential"]]
      /\ IsOwner(w, s) /\ UNCHANGED alerts /\ tasks[k].status = "none"
      /\ Group[k] = Group[s] /\ Holders[k] = {}
  BY DEF AddSigner
<1>3. tasks \in [Tasks -> TaskRecord] /\ plan \in [Tasks -> Rows] /\ at \in [Events -> Live] /\ TypeOK
  BY TimesType DEF IInv, TInv, TypeOK, TaskRecord, Rows
<1>4. /\ seen'.missed = seen.missed \cup (IF s \in seen.missed THEN {k} ELSE {})
      /\ seen'.called = seen.called \cup (IF s \in seen.called THEN {k} ELSE {})
      /\ seen'.astray = seen.astray \cup (IF s \in seen.astray THEN {k} ELSE {})
  BY DEF AddSigner, IInv, TInv, TypeOK
<1>5. Grows
  BY <1>2, <1>4 DEF Grows
<1>6. tasks[s].status \in Open /\ k \notin seen.called
  BY <1>2 DEF IsOwner, Open, NoticeInv, Called
<1> SUFFICES ASSUME NEW t \in Tasks PROVE NoticeInv(t)'
  OBVIOUS
<1>7. CASE t # k
  <2>1. tasks'[t] = tasks[t] /\ plan'[t] = plan[t] /\ (t \in seen'.called => t \in seen.called)
    BY <1>1, <1>2, <1>3, <1>4, <1>7
  <2> QED BY <1>3, <1>5, <2>1, NoticeKept DEF NoticeInv, ClaimedByHolder
<1>8. CASE t = k
  <2>1. /\ tasks'[k].status = "pending" /\ tasks'[k].holders = {target}
        /\ plan'[k] = Copied(plan[s], target, at)
    BY <1>1, <1>2, <1>3
  <2>2. ASSUME k \in seen'.called, k \notin seen'.missed \cup seen'.astray, NEW e \in Events, ~Told(k, e)'
        PROVE  plan'[k][e][target] \in Live
    <3>1. ~Told(s, e)'
      BY <1>2, <2>2 DEF Told
    <3>2. ~Told(s, e)
      BY <1>5, <3>1, ToldGrows
    <3>3. s \in seen.called /\ s \notin seen.missed \cup seen.astray
      BY <1>4, <1>6, <2>2
    <3>4. LiveOf(plan[s], e) # {}
      BY <1>3, <1>6, <3>2, <3>3, LiveRow
    <3>5. target \in Recipients(e, {target})
      BY DEF Recipients
    <3> QED BY <1>3, <2>1, <3>4, <3>5 DEF Copied
  <2>3. KeptOrMissed(k)'
    BY <2>1, <2>2 DEF KeptOrMissed, Kept
  <2>4. Called(k)'
    <3>1. k \notin seen'.called => \A e \in Events, u \in Users : plan'[k][e][u] = "none"
      <4> SUFFICES ASSUME k \notin seen'.called, NEW e \in Events, NEW u \in Users PROVE plan'[k][e][u] = "none"
        OBVIOUS
      <4>1. \A v \in Users : plan[s][e][v] = "none"
        BY <1>4 DEF NoticeInv, Called
      <4>2. LiveOf(plan[s], e) = {}
        BY <4>1 DEF LiveOf, Live
      <4> QED BY <2>1, <4>2 DEF Copied
    <3> QED BY <2>1, <3>1 DEF Called
  <2> QED BY <1>8, <2>1, <2>3, <2>4 DEF NoticeInv, ClaimedByHolder, Held
<1> QED BY <1>7, <1>8

LEMMA FallDueNotices ==
    ASSUME IInv, \A t \in Tasks : NoticeInv(t), NEW k \in Tasks, NEW d \in Events, FallDue(k, d)
    PROVE  \A t \in Tasks : NoticeInv(t)'
<1>1. /\ plan' = [plan EXCEPT ![k][d] = [u \in Users |-> IF plan[k][d][u] = "scheduled" THEN "due"
                                                         ELSE plan[k][d][u]]]
      /\ UNCHANGED <<tasks, alerts, seen>>
  BY DEF FallDue
<1>2. plan \in [Tasks -> Rows]
  BY DEF IInv, TInv, TypeOK, Rows
<1>3. \A t \in Tasks, e \in Events, u \in Users :
        /\ plan[t][e][u] \in Live => plan'[t][e][u] \in Live
        /\ plan[t][e][u] = "none" => plan'[t][e][u] = "none"
  BY <1>1, <1>2 DEF Rows, Live
<1>4. Grows
  BY <1>1 DEF Grows
<1> QED BY <1>1, <1>3, <1>4, NoticeKept DEF IInv, TInv, NoticeInv, ClaimedByHolder

LEMMA FireNotices ==
    ASSUME IInv, \A t \in Tasks : NoticeInv(t), NEW k \in Tasks, NEW d \in Events, NEW w \in Users, Fire(k, d, w)
    PROVE  \A t \in Tasks : NoticeInv(t)'
<1>1. /\ plan[k][d][w] = "due"
      /\ plan' = [plan EXCEPT ![k][d][w] = "fired"]
      /\ alerts' = [alerts EXCEPT ![k][d][w] = alerts[k][d][w] + 1]
      /\ UNCHANGED <<tasks, seen>>
  BY DEF Fire
<1>2. plan \in [Tasks -> Rows] /\ alerts \in [Tasks -> [Events -> [Users -> Nat]]]
  BY DEF IInv, TInv, TypeOK, Rows
<1>3. /\ plan'[k][d][w] = "fired"
      /\ \A t \in Tasks, e \in Events, u \in Users :
           (t = k /\ e = d /\ u = w) \/ plan'[t][e][u] = plan[t][e][u]
  BY <1>1, <1>2, EntryChanged DEF Rows
<1>4. /\ alerts'[k][d][w] = alerts[k][d][w] + 1
      /\ \A t \in Tasks, e \in Events, u \in Users :
           (t = k /\ e = d /\ u = w) \/ alerts'[t][e][u] = alerts[t][e][u]
  BY <1>1, <1>2, EntryChanged
<1>5. alerts'[k][d][w] > 0
  BY <1>2, <1>4
<1>6. Grows
  BY <1>1, <1>4, <1>5 DEF Grows
<1>7. \A t \in Tasks, e \in Events, u \in Users :
        /\ plan[t][e][u] \in Live => plan'[t][e][u] \in Live \/ alerts'[t][e][u] > 0
        /\ plan[t][e][u] = "none" => plan'[t][e][u] = "none"
  BY <1>1, <1>3, <1>5
<1> QED BY <1>1, <1>6, <1>7, NoticeKept DEF IInv, TInv, NoticeInv, ClaimedByHolder

\* Whatever happens to a task, also a reassignment between what a decision reads and what it
\* writes: its rows are there if it was called upon, unless they were missed or went astray, and
\* there are none before.
THEOREM NoticesInvariant == Spec => []NoticesInv
<1>1. Init => NoticesInv
  BY InitNotices DEF NoticesInv
<1>2. IInv /\ NoticesInv /\ [Next]_vars => NoticesInv'
  <2> SUFFICES ASSUME IInv, \A t \in Tasks : NoticeInv(t), [Next]_vars PROVE \A t \in Tasks : NoticeInv(t)'
    BY DEF NoticesInv
  <2>1. CASE Start \/ Park \/ Retry \/ Pause \/ Resume \/ (\E g \in Groups : Continue(g)) \/ UNCHANGED vars
             \/ \E t \in Tasks : ReadNext(t)
    BY <2>1, RunNotices
  <2>2. CASE EndRun \/ CancelObsolete \/ (\E w \in Users, k \in Tasks, m \in Tasks : RemoveSigner(w, k, m))
    BY <2>2, CancelNotices
  <2>3. CASE \E g \in Groups : CreateTasks(g)
    BY <2>3, CreateNotices
  <2>4. CASE \E t \in Tasks : Return(t) \/ (\E u \in Users : Claim(u, t))
    <3>1. PICK t \in Tasks : Return(t) \/ (\E u \in Users : Claim(u, t))
      BY <2>4
    <3>2. Owner \in Users
      BY ScheduleAssumption
    <3> QED BY <3>1, <3>2, ClaimNotices
  <2>5. CASE \E t \in Tasks : Decide(t)
    BY <2>5, DecideNotices
  <2>6. CASE \E t \in Tasks, e \in Events : FallDue(t, e)
    BY <2>6, FallDueNotices
  <2>7. CASE \E t \in Tasks, e \in Events, u \in Users : Fire(t, e, u)
    BY <2>7, FireNotices
  <2>8. CASE \E t \in Tasks, target \in Users : Reassign(t, target) \/ (\E u \in Users : Handover(u, t, target))
    <3>1. PICK t \in Tasks, target \in Users : Reassign(t, target) \/ (\E u \in Users : Handover(u, t, target))
      BY <2>8
    <3>2. tasks[t].status \in Open /\ Move(t, target)
      BY <3>1, OpenMoved
    <3> QED BY <3>2, MoveNotices
  <2>9. CASE \E u \in Users, t \in Tasks, target \in Users, new \in Tasks : AddSigner(u, t, new, target)
    BY <2>9, AddNotices
  <2> QED BY <2>1, <2>2, <2>3, <2>4, <2>5, <2>6, <2>7, <2>8, <2>9 DEF Next
<1> QED BY <1>1, <1>2, InductiveInvariant, PTL DEF Spec

\* An open task that was called upon keeps its notices for all who hold it until one is sent,
\* whatever they and the administrators do with it - unless a poll met the run while it was not
\* running or waiting, or a decision passed the turn to whom it had read as its holder before.
THEOREM OpenTasksKeepNotices == Spec => []NoticesKept
<1>1. NoticesInv => NoticesKept
  BY DEF NoticesInv, NoticesKept, NoticeInv, KeptOrMissed, OpenTasks
<1> QED BY <1>1, NoticesInvariant, PTL
=============================================================================
