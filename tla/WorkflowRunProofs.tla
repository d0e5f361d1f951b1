-------------------------- MODULE WorkflowRunProofs --------------------------
(***************************************************************************)
(* Proofs about WorkflowRun, for every definition graph, number of workers *)
(* and attempt limit.                                                      *)
(***************************************************************************)
EXTENDS WorkflowRun, SequenceTheorems, TLAPS

\* Inside a node the queue still has the node at its head.
HasHead == \A w \in Workers : wk[w].pc \in {"enter", "work"} => wk[w].queue # <<>>

\* A token a worker holds has been drawn ...
TokensDrawn ==
    \A w \in Workers : wk[w].pc # "idle" => wk[w].tok[2] <= jobs[wk[w].tok[1]].attempt

\* ... and by that worker alone.
TokensUnique ==
    \A v, w \in Workers :
        v # w /\ wk[v].pc # "idle" /\ wk[w].pc # "idle" => wk[v].tok # wk[w].tok

\* Once past its last write to the run, a worker no longer owns it.
Released == \A w \in Workers : wk[w].pc \in {"complete", "failJob"} => run.lock # wk[w].tok

\* A run without a lock has no lock expiry, and a job not yet created has no attempts.
Blank ==
    /\ run.lock = NoToken => ~run.lockLive
    /\ \A j \in Jobs : jobs[j].status = "absent" => jobs[j].attempt = 0

\* The owner about to create a task has seen that the node has none open, and nobody
\* else can have created one since.
NoneOpen ==
    \A w \in Workers :
        (/\ wk[w].pc \in {"enter", "work"} /\ run.lock = wk[w].tok
         /\ Kind[Head(wk[w].queue)] = "operate")
            => \A t \in OpenTasks : t[1] # Head(wk[w].queue)

LeaseInv == LockOwnership /\ TokensDrawn /\ TokensUnique /\ Released /\ Blank
OpenInv == NoneOpen /\ OneOpenTask
IInv == TypeOK /\ HasHead /\ LeaseInv /\ OpenInv

-----------------------------------------------------------------------------
(* Type correctness.                                                       *)

\* A non-empty queue has a node at its head and a queue behind it.
LEMMA QueueTypes ==
    ASSUME NEW q \in Seq(Nodes), q # <<>>
    PROVE  Head(q) \in Nodes /\ Tail(q) \in Seq(Nodes)
BY HeadTailProperties

\* Queues can be joined.
LEMMA QueueJoins ==
    ASSUME NEW p \in Seq(Nodes), NEW q \in Seq(Nodes)
    PROVE  p \o q \in Seq(Nodes)
BY ConcatProperties

\* The tokens and the idle worker's memory have the types the model says.
LEMMA ConstantTypes ==
    /\ NoToken \notin Token
    /\ \A tok \in Token : tok[1] \in Jobs /\ tok[2] \in 1..MaxAttempts
    /\ IdleWorker \in WorkerMemory
BY BoundAssumption DEF NoToken, Token, Jobs, IdleWorker, WorkerMemory, WorkerPoints

\* Giving the run up keeps its row well-typed.
LEMMA UnlockType ==
    ASSUME NEW r \in RunRecord, NEW s \in RunStatuses
    PROVE  Unlock(r, s) \in RunRecord
BY DEF Unlock, RunRecord

\* The rows submitWorkflowRun commits are well-typed.
LEMMA InitType == Init => TypeOK /\ HasHead
<1> SUFFICES ASSUME Init PROVE TypeOK /\ HasHead
    OBVIOUS
<1> USE DefinitionAssumption, BoundAssumption DEF Init
<1>1. <<>> \in Seq(Nodes) /\ <<StartNode>> \in Seq(Nodes)
    OBVIOUS
<1>2. run \in RunRecord
    BY <1>1 DEF RunRecord, RunStatuses
<1>3. jobs \in [Jobs -> JobRecord]
    BY <1>1 DEF Jobs, JobRecord, JobStatuses
<1>4. wk \in [Workers -> WorkerMemory]
    BY ConstantTypes
<1>5. \A w \in Workers : wk[w].pc = "idle"
    BY DEF IdleWorker
<1>6. /\ tasks \in [Nodes \X Copies -> TaskStatuses]
      /\ waits \in [Nodes -> WaitRecord]
    BY <1>1 DEF TaskStatuses, WaitRecord, WaitStatuses
<1>7. /\ endRuns \subseteq Token /\ trail \in Seq(Nodes) /\ executed \in [Nodes -> Nat]
      /\ used \in [crashes : Nat, stalls : Nat, errors : Nat, pauses : Nat]
    BY <1>1
<1> QED
    BY <1>2, <1>3, <1>4, <1>5, <1>6, <1>7 DEF TypeOK, HasHead

\* TypeOK and HasHead, regrouped into what is in memory and what is in the database.
WorkersType ==
    /\ wk \in [Workers -> WorkerMemory]
    /\ \A w \in Workers : wk[w].pc # "idle" => wk[w].tok \in Token
    /\ HasHead
RowsType ==
    /\ run \in RunRecord
    /\ jobs \in [Jobs -> JobRecord]
    /\ tasks \in [Nodes \X Copies -> TaskStatuses]
    /\ waits \in [Nodes -> WaitRecord]
    /\ endRuns \subseteq Token
    /\ trail \in Seq(Nodes)
    /\ executed \in [Nodes -> Nat]
    /\ used \in [crashes : Nat, stalls : Nat, errors : Nat, pauses : Nat]

\* The regrouping says the same.
LEMMA TypeParts == TypeOK /\ HasHead <=> WorkersType /\ RowsType
BY DEF TypeOK, WorkersType, RowsType

\* A worker that stores well-typed memory keeps all workers well-typed.
LEMMA MemoryType ==
    ASSUME WorkersType, NEW w \in Workers, NEW m \in WorkerMemory, Remember(w, m),
           m.pc # "idle" => m.tok \in Token,
           m.pc \in {"enter", "work"} => m.queue # <<>>
    PROVE  WorkersType'
BY DEF WorkersType, HasHead, Remember

\* So does one that only moves to another point.
LEMMA GotoType ==
    ASSUME WorkersType, NEW w \in Workers, wk[w].pc # "idle",
           NEW pc \in WorkerPoints, Goto(w, pc),
           pc \in {"enter", "work"} => wk[w].queue # <<>>
    PROVE  WorkersType'
<1> DEFINE m == [wk[w] EXCEPT !.pc = pc]
<1>1. m \in WorkerMemory /\ m.pc = pc /\ m.tok = wk[w].tok /\ m.queue = wk[w].queue
    BY DEF WorkersType, WorkerMemory
<1>2. Remember(w, m)
    BY DEF Goto
<1> QED
    BY <1>1, <1>2, MemoryType DEF WorkersType

\* And one that goes idle.
LEMMA ReleaseType ==
    ASSUME WorkersType, NEW w \in Workers, Release(w)
    PROVE  WorkersType'
BY ConstantTypes, MemoryType DEF Release, IdleWorker

\* Cancelling what is open keeps tasks and waits well-typed.
LEMMA CancelType ==
    ASSUME RowsType, CancelArtifacts
    PROVE  /\ tasks' \in [Nodes \X Copies -> TaskStatuses]
           /\ waits' \in [Nodes -> WaitRecord]
BY DEF CancelArtifacts, RowsType, TaskStatuses, WaitRecord, WaitStatuses

\* Setting a leased job's status keeps the jobs well-typed.
LEMMA SetJobType ==
    ASSUME RowsType, NEW tok \in Token, NEW status \in JobStatuses, SetJob(tok, status)
    PROVE  jobs' \in [Jobs -> JobRecord]
<1>1. tok[1] \in Jobs /\ jobs[tok[1]] \in JobRecord
    BY ConstantTypes DEF RowsType
<1>2. [jobs[tok[1]] EXCEPT !.status = status] \in JobRecord
    BY <1>1 DEF JobRecord
<1> QED
    BY <1>1, <1>2 DEF SetJob, RowsType

\* A continuation leaves a well-typed run and well-typed jobs.
LEMMA ContinueType ==
    ASSUME RowsType, NEW queue \in Seq(Nodes), NEW done \in SUBSET Nodes, Continue(queue, done)
    PROVE  run' \in RunRecord /\ jobs' \in [Jobs -> JobRecord]
<1>1. Unlock(run, "queued") \in RunRecord
    BY UnlockType DEF RowsType, RunStatuses
<1>2. run' \in RunRecord
    BY <1>1 DEF Continue, RunRecord
<1>3. ResumeJob(queue, done) \in JobRecord
    BY BoundAssumption DEF ResumeJob, JobRecord, JobStatuses
<1> QED
    BY <1>2, <1>3 DEF Continue, RowsType

\* What a claim draws is a token.
LEMMA ClaimDraws ==
    ASSUME RowsType, NEW w \in Workers, NEW j \in Jobs, Claim(w, j)
    PROVE  jobs[j].attempt \in Nat /\ <<j, jobs[j].attempt + 1>> \in Token
<1>1. jobs[j] \in JobRecord
    BY DEF RowsType
<1>2. jobs[j].attempt \in 0..MaxAttempts
    BY <1>1 DEF JobRecord
<1>3. jobs[j].attempt < MaxAttempts
    BY DEF Claim, Eligible
<1>4. jobs[j].attempt \in Nat /\ jobs[j].attempt + 1 \in 1..MaxAttempts
    BY <1>2, <1>3, BoundAssumption
<1> QED
    BY <1>4 DEF Token

\* Task rows are indexed by node and copy.
LEMMA DomainOfTasks == RowsType => DOMAIN tasks = Nodes \X Copies
BY DEF RowsType

\* Every action keeps the types.
LEMMA TypeStep == TypeOK /\ HasHead /\ [Next]_vars => TypeOK' /\ HasHead'
<1> SUFFICES ASSUME WorkersType, RowsType, [Next]_vars
             PROVE  WorkersType' /\ RowsType'
  <2>1. TypeOK' /\ HasHead' <=> WorkersType' /\ RowsType'
    BY DEF TypeOK, WorkersType, RowsType
  <2> QED
    BY <2>1, TypeParts
<1>1. ASSUME NEW w \in Workers, LoadRun(w)
      PROVE  WorkersType' /\ RowsType'
  <2>1. WorkersType'
    BY <1>1, GotoType DEF LoadRun, WorkersType, HasHead, WorkerPoints, Executing
  <2>2. RowsType'
    BY <1>1 DEF LoadRun, RowsType
  <2> QED
    BY <2>1, <2>2
<1>2. ASSUME NEW w \in Workers, OpenNode(w)
      PROVE  WorkersType' /\ RowsType'
  <2>1. WorkersType'
    <3> DEFINE me == wk[w]
               n == Head(me.queue)
    <3>1. me \in WorkerMemory /\ me.tok \in Token /\ me.queue # <<>>
        BY <1>2 DEF OpenNode, WorkersType
    <3>2. n \in Nodes /\ Tail(me.queue) \in Seq(Nodes) /\ me.queue \in Seq(Nodes)
        BY <3>1, QueueTypes DEF WorkerMemory
    <3>3. me.seen \in SUBSET Nodes /\ me.seen \cup {n} \in SUBSET Nodes
        BY <3>1, <3>2 DEF WorkerMemory
    <3>4. PICK pc \in {"head", "park", "artifact", "enter"},
               q \in {me.queue, Tail(me.queue)}, s \in {me.seen, me.seen \cup {n}} :
              /\ pc = "enter" => q = me.queue
              /\ Remember(w, [me EXCEPT !.pc = pc, !.queue = q, !.seen = s])
        BY <1>2 DEF OpenNode
    <3> DEFINE m == [me EXCEPT !.pc = pc, !.queue = q, !.seen = s]
    <3>5. m \in WorkerMemory /\ m.pc = pc /\ m.tok = me.tok /\ m.queue = q
        BY <3>1, <3>2, <3>3 DEF WorkerMemory, WorkerPoints, Executing
    <3> QED
        BY <3>1, <3>4, <3>5, MemoryType
  <2>2. RowsType'
    BY <1>2 DEF OpenNode, RowsType
  <2> QED
    BY <2>1, <2>2
<1>3. ASSUME NEW w \in Workers, CloseSegment(w)
      PROVE  WorkersType' /\ RowsType'
  <2>1. WorkersType'
    BY <1>3, GotoType DEF CloseSegment, WorkersType, HasHead, WorkerPoints, Executing
  <2>2. RowsType'
    BY <1>3 DEF CloseSegment, RowsType
  <2> QED
    BY <2>1, <2>2
<1>4. ASSUME NEW w \in Workers, SaveCheckpoint(w)
      PROVE  WorkersType' /\ RowsType'
  <2>1. WorkersType'
    <3>1. /\ AfterCheckpoint[wk[w].pc] \in WorkerPoints
          /\ AfterCheckpoint[wk[w].pc] \in {"enter", "work"} => wk[w].pc = "enter"
        BY <1>4 DEF SaveCheckpoint, AfterCheckpoint, WorkerPoints, Executing
    <3>2. wk[w].pc # "idle" /\ "failing" \in WorkerPoints
        BY <1>4 DEF SaveCheckpoint, AfterCheckpoint, WorkerPoints
    <3> QED
        BY <1>4, <3>1, <3>2, GotoType DEF SaveCheckpoint, WorkersType, HasHead
  <2>2. RowsType'
    <3> DEFINE me == wk[w]
               j == me.tok[1]
    <3>1. me \in WorkerMemory /\ me.tok \in Token
        BY <1>4 DEF SaveCheckpoint, AfterCheckpoint, WorkersType
    <3>2. j \in Jobs /\ jobs[j] \in JobRecord
        BY <3>1, ConstantTypes DEF RowsType
    <3>3. me.queue \in Seq(Nodes) /\ me.done \in SUBSET Nodes
        BY <3>1 DEF WorkerMemory
    <3>4. [jobs[j] EXCEPT !.queue = me.queue, !.done = me.done] \in JobRecord
        BY <3>2, <3>3 DEF JobRecord
    <3>5. jobs' \in [Jobs -> JobRecord]
        BY <1>4, <3>2, <3>4 DEF SaveCheckpoint, RowsType
    <3>6. run' \in RunRecord
        BY <1>4, <3>3 DEF SaveCheckpoint, RowsType, RunRecord
    <3>7. endRuns' \subseteq Token
        BY <1>4 DEF SaveCheckpoint, ForgetEnd, RowsType
    <3> QED
        BY <1>4, <3>5, <3>6, <3>7 DEF SaveCheckpoint, RowsType
  <2> QED
    BY <2>1, <2>2
<1>5. ASSUME NEW w \in Workers, RunNode(w)
      PROVE  WorkersType' /\ RowsType'
  <2>1. WorkersType'
    <3> DEFINE me == wk[w]
               n == Head(me.queue)
               pc == IF Kind[n] = "end" THEN "advanceEnd" ELSE "advance"
    <3>1. me \in WorkerMemory /\ me.tok \in Token
        BY <1>5 DEF RunNode, WorkersType
    <3>2. n \in Nodes /\ Tail(me.queue) \in Seq(Nodes)
        BY <1>5, QueueTypes DEF WorkersType, HasHead, WorkerMemory, RunNode
    <3>3. PICK next \in Routes[n] :
              Remember(w, [me EXCEPT !.pc = pc, !.queue = Tail(me.queue) \o next,
                                     !.done = me.done \cup {n}])
        BY <1>5 DEF RunNode
    <3>4. Tail(me.queue) \o next \in Seq(Nodes)
        BY <3>2, QueueJoins, DefinitionAssumption
    <3>5. me.done \cup {n} \in SUBSET Nodes
        BY <3>1, <3>2 DEF WorkerMemory
    <3>6. pc \in WorkerPoints /\ pc \notin {"enter", "work"}
        BY DEF WorkerPoints, Executing
    <3> DEFINE m == [me EXCEPT !.pc = pc, !.queue = Tail(me.queue) \o next,
                               !.done = me.done \cup {n}]
    <3> HIDE DEF pc
    <3>7. m \in WorkerMemory /\ m.pc = pc /\ m.tok = me.tok
        BY <3>1, <3>4, <3>5, <3>6 DEF WorkerMemory
    <3> QED
        BY <3>1, <3>3, <3>6, <3>7, MemoryType
  <2>2. RowsType'
    <3> DEFINE n == Head(wk[w].queue)
    <3>1. n \in Nodes /\ wk[w].tok \in Token
        BY <1>5, QueueTypes DEF WorkersType, HasHead, WorkerMemory, RunNode
    <3>2. Append(trail, n) \in Seq(Nodes)
        BY <3>1 DEF RowsType
    <3>3. trail' \in Seq(Nodes)
        BY <1>5, <3>2 DEF RunNode, EnterState, RowsType
    <3>4. executed' \in [Nodes -> Nat]
        BY <1>5, <3>1 DEF RunNode, RowsType
    <3>5. endRuns' \subseteq Token
        BY <1>5, <3>1 DEF RunNode, RowsType
    <3> QED
        BY <1>5, <3>3, <3>4, <3>5 DEF RunNode, RowsType
  <2> QED
    BY <2>1, <2>2
<1>6. ASSUME NEW w \in Workers, CreateTask(w)
      PROVE  WorkersType' /\ RowsType'
  <2>1. WorkersType'
    <3> DEFINE m == [wk[w] EXCEPT !.pc = "artifact", !.queue = Tail(@)]
    <3>1. wk[w] \in WorkerMemory /\ wk[w].tok \in Token /\ Tail(wk[w].queue) \in Seq(Nodes)
        BY <1>6, QueueTypes DEF CreateTask, WorkersType, HasHead, WorkerMemory
    <3>2. m \in WorkerMemory /\ m.pc = "artifact" /\ m.tok = wk[w].tok
        BY <3>1 DEF WorkerMemory, WorkerPoints, Executing
    <3>3. Remember(w, m)
        BY <1>6 DEF CreateTask
    <3> QED
        BY <3>1, <3>2, <3>3, MemoryType
  <2>2. RowsType'
    BY <1>6 DEF CreateTask, RowsType, TaskSlot, TaskStatuses
  <2> QED
    BY <2>1, <2>2
<1>7. ASSUME NEW w \in Workers, CreateWait(w)
      PROVE  WorkersType' /\ RowsType'
  <2>1. WorkersType'
    <3> DEFINE m == [wk[w] EXCEPT !.pc = "artifact", !.queue = Tail(@)]
    <3>1. wk[w] \in WorkerMemory /\ wk[w].tok \in Token /\ Tail(wk[w].queue) \in Seq(Nodes)
        BY <1>7, QueueTypes DEF CreateWait, WorkersType, HasHead, WorkerMemory
    <3>2. m \in WorkerMemory /\ m.pc = "artifact" /\ m.tok = wk[w].tok
        BY <3>1 DEF WorkerMemory, WorkerPoints, Executing
    <3>3. Remember(w, m)
        BY <1>7 DEF CreateWait
    <3> QED
        BY <3>1, <3>2, <3>3, MemoryType
  <2>2. RowsType'
    <3> DEFINE n == Head(wk[w].queue)
    <3>1. n \in Nodes /\ Tail(wk[w].queue) \in Seq(Nodes) /\ wk[w].done \in SUBSET Nodes
        BY <1>7, QueueTypes DEF WorkersType, HasHead, WorkerMemory, CreateWait
    <3>2. waits' \in [Nodes -> WaitRecord]
        BY <1>7, <3>1 DEF CreateWait, WaitRecord, WaitStatuses, RowsType
    <3> QED
        BY <1>7, <3>2 DEF CreateWait, RowsType
  <2> QED
    BY <2>1, <2>2
<1>8. ASSUME NEW w \in Workers, RefuseArtifact(w)
      PROVE  WorkersType' /\ RowsType'
  <2>1. WorkersType'
    BY <1>8, GotoType DEF RefuseArtifact, WorkersType, HasHead, WorkerPoints, Executing
  <2>2. RowsType'
    BY <1>8 DEF RefuseArtifact, RowsType
  <2> QED
    BY <2>1, <2>2
<1>9. ASSUME NEW w \in Workers, Park(w)
      PROVE  WorkersType' /\ RowsType'
  <2>1. WorkersType'
    BY <1>9, GotoType DEF Park, WorkersType, HasHead, WorkerPoints, Executing
  <2>2. RowsType'
    BY <1>9, UnlockType DEF Park, RowsType, RunStatuses
  <2> QED
    BY <2>1, <2>2
<1>10. ASSUME NEW w \in Workers, Succeed(w)
      PROVE  WorkersType' /\ RowsType'
  <2>1. WorkersType'
    BY <1>10, GotoType DEF Succeed, WorkersType, HasHead, WorkerPoints, Executing
  <2>2. RowsType'
    BY <1>10, UnlockType DEF Succeed, RowsType, RunStatuses
  <2> QED
    BY <2>1, <2>2
<1>11. ASSUME NEW w \in Workers, CompleteJob(w)
      PROVE  WorkersType' /\ RowsType'
  <2>1. WorkersType'
    BY <1>11, GotoType, ReleaseType DEF CompleteJob, WorkerPoints
  <2>2. RowsType'
    <3>1. wk[w].tok \in Token
        BY <1>11 DEF CompleteJob, WorkersType
    <3>2. jobs' \in [Jobs -> JobRecord]
        BY <1>11, <3>1, SetJobType DEF CompleteJob, JobStatuses
    <3>3. run' \in RunRecord
        BY <1>11, UnlockType DEF CompleteJob, RowsType, RunRecord
    <3> QED
        BY <1>11, <3>2, <3>3 DEF CompleteJob, RowsType
  <2> QED
    BY <2>1, <2>2
<1>12. ASSUME NEW w \in Workers, RetryJob(w)
      PROVE  WorkersType' /\ RowsType'
  <2>1. WorkersType'
    BY <1>12, ReleaseType DEF RetryJob
  <2>2. RowsType'
    <3>1. wk[w].tok \in Token
        BY <1>12 DEF RetryJob, WorkersType
    <3>2. jobs' \in [Jobs -> JobRecord]
        BY <1>12, <3>1, SetJobType DEF RetryJob, JobStatuses
    <3>3. run' \in RunRecord
        BY <1>12, UnlockType DEF RetryJob, RowsType, RunStatuses
    <3> QED
        BY <1>12, <3>2, <3>3 DEF RetryJob, RowsType
  <2> QED
    BY <2>1, <2>2
<1>13. ASSUME NEW w \in Workers, FailRun(w)
      PROVE  WorkersType' /\ RowsType'
  <2>1. WorkersType'
    BY <1>13, GotoType DEF FailRun, WorkersType, HasHead, WorkerPoints, Executing
  <2>2. RowsType'
    BY <1>13, UnlockType, CancelType DEF FailRun, RowsType, RunStatuses
  <2> QED
    BY <2>1, <2>2
<1>14. ASSUME NEW w \in Workers, FailJob(w)
      PROVE  WorkersType' /\ RowsType'
  <2>1. WorkersType'
    BY <1>14, ReleaseType DEF FailJob
  <2>2. RowsType'
    <3>1. wk[w].tok \in Token
        BY <1>14 DEF FailJob, WorkersType
    <3>2. jobs' \in [Jobs -> JobRecord]
        BY <1>14, <3>1, SetJobType DEF FailJob, JobStatuses
    <3> QED
        BY <1>14, <3>2 DEF FailJob, RowsType
  <2> QED
    BY <2>1, <2>2
<1>15. ASSUME NEW w \in Workers, RenewLease(w)
      PROVE  WorkersType' /\ RowsType'
  <2>1. WorkersType'
    BY <1>15 DEF RenewLease, WorkersType, HasHead
  <2>2. RowsType'
    <3> DEFINE j == wk[w].tok[1]
    <3>1. j \in Jobs /\ jobs[j] \in JobRecord
        BY <1>15, ConstantTypes DEF RenewLease, RowsType, WorkersType
    <3>2. [jobs[j] EXCEPT !.live = TRUE] \in JobRecord
        BY <3>1 DEF JobRecord
    <3>3. run' \in RunRecord
        BY <1>15 DEF RenewLease, RowsType, RunRecord
    <3> QED
        BY <1>15, <3>1, <3>2, <3>3 DEF RenewLease, RowsType
  <2> QED
    BY <2>1, <2>2
<1>16. ASSUME NEW w \in Workers, Crash(w)
      PROVE  WorkersType' /\ RowsType'
  <2>1. WorkersType'
    BY <1>16, ReleaseType DEF Crash
  <2>2. RowsType'
    <3>1. used.crashes + 1 \in Nat
        BY DEF RowsType
    <3>2. used' \in [crashes : Nat, stalls : Nat, errors : Nat, pauses : Nat]
        BY <1>16, <3>1 DEF Crash, RowsType
    <3> QED
        BY <1>16, <3>2 DEF Crash, RowsType
  <2> QED
    BY <2>1, <2>2
<1>17. ASSUME NEW w \in Workers, ThrowError(w)
      PROVE  WorkersType' /\ RowsType'
  <2>1. WorkersType'
    BY <1>17, GotoType DEF ThrowError, WorkersType, HasHead, WorkerPoints, Executing
  <2>2. RowsType'
    <3>1. used.errors + 1 \in Nat
        BY DEF RowsType
    <3>2. used' \in [crashes : Nat, stalls : Nat, errors : Nat, pauses : Nat]
        BY <1>17, <3>1 DEF ThrowError, RowsType
    <3> QED
        BY <1>17, <3>2 DEF ThrowError, ForgetEnd, RowsType
  <2> QED
    BY <2>1, <2>2
<1>18. ASSUME NEW w \in Workers, NEW j \in Jobs, Claim(w, j)
      PROVE  WorkersType' /\ RowsType'
  <2>1. WorkersType'
    <3> DEFINE tok == <<j, jobs[j].attempt + 1>>
               m == [pc |-> "load", tok |-> tok, queue |-> jobs[j].queue,
                     seen |-> {}, done |-> jobs[j].done]
    <3>1. tok \in Token
        BY <1>18, ClaimDraws
    <3>2. m \in WorkerMemory /\ m.pc = "load" /\ m.tok = tok
        BY <3>1 DEF RowsType, JobRecord, WorkerMemory, WorkerPoints, Executing
    <3>3. Remember(w, m)
        BY <1>18 DEF Claim
    <3> QED
        BY <3>1, <3>2, <3>3, MemoryType
  <2>2. RowsType'
    <3> DEFINE tok == <<j, jobs[j].attempt + 1>>
    <3>0. tok \in Token
        BY <1>18, ClaimDraws
    <3>1. tok \in Token /\ tok[2] \in 0..MaxAttempts
        BY <3>0, BoundAssumption DEF Token
    <3>2. [jobs[j] EXCEPT !.status = "leased", !.attempt = tok[2], !.live = TRUE] \in JobRecord
        BY <3>1 DEF RowsType, JobRecord, JobStatuses
    <3>3. jobs' \in [Jobs -> JobRecord]
        BY <1>18, <3>2 DEF Claim, RowsType
    <3>4. run' \in RunRecord
        BY <1>18, <3>1 DEF Claim, RowsType, RunRecord, RunStatuses
    <3> QED
        BY <1>18, <3>3, <3>4 DEF Claim, RowsType
  <2> QED
    BY <2>1, <2>2
<1>19. ASSUME NEW j \in Jobs, LeaseLapses(j)
      PROVE  WorkersType' /\ RowsType'
  <2>1. WorkersType'
    BY <1>19 DEF LeaseLapses, WorkersType, HasHead
  <2>2. RowsType'
    <3>1. used.stalls + 1 \in Nat
        BY DEF RowsType
    <3>2. used' \in [crashes : Nat, stalls : Nat, errors : Nat, pauses : Nat]
        BY <1>19, <3>1 DEF LeaseLapses, RowsType
    <3>3. [jobs[j] EXCEPT !.live = FALSE] \in JobRecord
        BY DEF RowsType, JobRecord
    <3> QED
        BY <1>19, <3>2, <3>3 DEF LeaseLapses, RowsType
  <2> QED
    BY <2>1, <2>2
<1>20. ASSUME LockLapses
      PROVE  WorkersType' /\ RowsType'
  <2>1. WorkersType'
    BY <1>20 DEF LockLapses, WorkersType, HasHead
  <2>2. RowsType'
    BY <1>20 DEF LockLapses, RowsType, RunRecord
  <2> QED
    BY <2>1, <2>2
<1>21. ASSUME NEW j \in Jobs, ReconcileExhausted(j)
      PROVE  WorkersType' /\ RowsType'
  <2>1. WorkersType'
    BY <1>21 DEF ReconcileExhausted, WorkersType, HasHead
  <2>2. RowsType'
    <3>1. jobs[j].attempt \in 1..MaxAttempts
        BY <1>21, BoundAssumption DEF ReconcileExhausted, RowsType, JobRecord
    <3>2. <<j, jobs[j].attempt>> \in Token
        BY <3>1 DEF Token
    <3>3. jobs' \in [Jobs -> JobRecord]
        BY <1>21, <3>2, SetJobType DEF ReconcileExhausted, JobStatuses
    <3> QED
        BY <1>21, <3>3, CancelType, UnlockType DEF ReconcileExhausted, RowsType, RunStatuses
  <2> QED
    BY <2>1, <2>2
<1>22. ASSUME ReconcileTerminal
      PROVE  WorkersType' /\ RowsType'
  <2>1. WorkersType'
    BY <1>22 DEF ReconcileTerminal, WorkersType, HasHead
  <2>2. RowsType'
    <3>1. \A j \in Jobs, s \in JobStatuses : [jobs[j] EXCEPT !.status = s] \in JobRecord
        BY DEF RowsType, JobRecord
    <3>2. jobs' \in [Jobs -> JobRecord]
        BY <1>22, <3>1 DEF ReconcileTerminal, RowsType, JobStatuses
    <3> QED
        BY <1>22, <3>2 DEF ReconcileTerminal, RowsType
  <2> QED
    BY <2>1, <2>2
<1>23. ASSUME NEW target \in {"cancelled", "terminated"}, ControlRun(target)
      PROVE  WorkersType' /\ RowsType'
  <2>1. WorkersType'
    BY <1>23 DEF ControlRun, WorkersType, HasHead
  <2>2. RowsType'
    <3>1. \A j \in Jobs, s \in JobStatuses : [jobs[j] EXCEPT !.status = s] \in JobRecord
        BY DEF RowsType, JobRecord
    <3>2. jobs' \in [Jobs -> JobRecord]
        BY <1>23, <3>1 DEF ControlRun, RowsType, JobStatuses
    <3> QED
        BY <1>23, <3>2, CancelType, UnlockType DEF ControlRun, RowsType, RunStatuses
  <2> QED
    BY <2>1, <2>2
<1>24. ASSUME PauseRun
      PROVE  WorkersType' /\ RowsType'
  <2>1. WorkersType'
    BY <1>24 DEF PauseRun, WorkersType, HasHead
  <2>2. RowsType'
    <3>1. \A j \in Jobs, s \in JobStatuses : [jobs[j] EXCEPT !.status = s] \in JobRecord
        BY DEF RowsType, JobRecord
    <3>2. jobs' \in [Jobs -> JobRecord]
        BY <1>24, <3>1 DEF PauseRun, RowsType, JobStatuses
    <3>3. used.pauses + 1 \in Nat
        BY DEF RowsType
    <3>4. used' \in [crashes : Nat, stalls : Nat, errors : Nat, pauses : Nat]
        BY <1>24, <3>3 DEF PauseRun, RowsType
    <3> QED
        BY <1>24, <3>2, <3>4, UnlockType DEF PauseRun, RowsType, RunStatuses
  <2> QED
    BY <2>1, <2>2
<1>25. ASSUME ResumeRun
      PROVE  WorkersType' /\ RowsType'
  <2>1. WorkersType'
    BY <1>25 DEF ResumeRun, WorkersType, HasHead
  <2>2. RowsType'
    <3>1. ResumeJob(run.queue, run.done) \in JobRecord
        BY BoundAssumption DEF ResumeJob, RowsType, RunRecord, JobRecord, JobStatuses
    <3>2. run' \in RunRecord
        BY <1>25 DEF ResumeRun, RowsType, RunRecord, RunStatuses
    <3>3. jobs' \in [Jobs -> JobRecord]
        BY <1>25, <3>1 DEF ResumeRun, RowsType
    <3> QED
        BY <1>25, <3>2, <3>3 DEF ResumeRun, RowsType
  <2> QED
    BY <2>1, <2>2
<1>26. ASSUME NEW t \in Nodes \X Copies, ClaimTask(t)
      PROVE  WorkersType' /\ RowsType'
  <2>1. WorkersType'
    BY <1>26 DEF ClaimTask, WorkersType, HasHead
  <2>2. RowsType'
    BY <1>26 DEF ClaimTask, RowsType, TaskStatuses
  <2> QED
    BY <2>1, <2>2
<1>27. ASSUME NEW t \in Nodes \X Copies, ReturnTask(t)
      PROVE  WorkersType' /\ RowsType'
  <2>1. WorkersType'
    BY <1>27 DEF ReturnTask, WorkersType, HasHead
  <2>2. RowsType'
    BY <1>27 DEF ReturnTask, RowsType, TaskStatuses
  <2> QED
    BY <2>1, <2>2
<1>28. ASSUME NEW t \in Nodes \X Copies, CompleteTask(t)
      PROVE  WorkersType' /\ RowsType'
  <2>1. WorkersType'
    BY <1>28 DEF CompleteTask, WorkersType, HasHead
  <2>2. RowsType'
    <3>1. t[1] \in Nodes /\ run.queue \in Seq(Nodes) /\ run.done \in SUBSET Nodes
        BY DEF RowsType, RunRecord
    <3>2. WithoutCurrent(t[1]) \in Seq(Nodes)
        BY <3>1, QueueTypes DEF WithoutCurrent
    <3>3. PICK next \in Routes[t[1]] :
              Continue(WithoutCurrent(t[1]) \o next, run.done \cup {t[1]})
        BY <1>28 DEF CompleteTask
    <3>4. WithoutCurrent(t[1]) \o next \in Seq(Nodes)
        BY <3>1, <3>2, QueueJoins, DefinitionAssumption
    <3>5. run' \in RunRecord /\ jobs' \in [Jobs -> JobRecord]
        BY <3>1, <3>3, <3>4, ContinueType
    <3> QED
        BY <1>28, <3>5 DEF CompleteTask, RowsType, TaskStatuses
  <2> QED
    BY <2>1, <2>2
<1>29. ASSUME NEW t \in Nodes \X Copies, RejectTask(t)
      PROVE  WorkersType' /\ RowsType'
  <2>1. WorkersType'
    BY <1>29 DEF RejectTask, WorkersType, HasHead
  <2>2. RowsType'
    <3>1. Unlock(run, "cancelled") \in RunRecord
        BY UnlockType DEF RowsType, RunStatuses
    <3>2. run' \in RunRecord
        BY <1>29, <3>1 DEF RejectTask, RunRecord
    <3> QED
        BY <1>29, <3>2 DEF RejectTask, RowsType, TaskStatuses
  <2> QED
    BY <2>1, <2>2
<1>30. ASSUME NEW n \in Nodes, TriggerWait(n)
      PROVE  WorkersType' /\ RowsType'
  <2>1. WorkersType'
    BY <1>30 DEF TriggerWait, WorkersType, HasHead
  <2>2. RowsType'
    <3>1. waits[n].queue \in Seq(Nodes) /\ waits[n].done \cup {n} \in SUBSET Nodes
        BY DEF RowsType, WaitRecord
    <3>2. PICK next \in Routes[n] : Continue(waits[n].queue \o next, waits[n].done \cup {n})
        BY <1>30 DEF TriggerWait
    <3>3. waits[n].queue \o next \in Seq(Nodes)
        BY <3>1, QueueJoins, DefinitionAssumption
    <3>4. run' \in RunRecord /\ jobs' \in [Jobs -> JobRecord]
        BY <3>1, <3>2, <3>3, ContinueType
    <3>5. waits[n] \in WaitRecord
        BY DEF RowsType
    <3>6. [waits[n] EXCEPT !.status = "triggered"] \in WaitRecord
        BY <3>5 DEF WaitRecord, WaitStatuses
    <3> QED
        BY <1>30, <3>4, <3>6 DEF TriggerWait, RowsType
  <2> QED
    BY <2>1, <2>2
<1>31. ASSUME UNCHANGED vars
      PROVE  WorkersType' /\ RowsType'
  <2>1. WorkersType'
    BY <1>31 DEF vars, WorkersType, HasHead
  <2>2. RowsType'
    BY <1>31 DEF vars, RowsType
  <2> QED
    BY <2>1, <2>2
<1> QED
    BY <1>1, <1>2, <1>3, <1>4, <1>5, <1>6, <1>7, <1>8, <1>9, <1>10, <1>11, <1>12,
       <1>13, <1>14, <1>15, <1>16, <1>17, <1>18, <1>19, <1>20, <1>21, <1>22, <1>23, <1>24,
       <1>25, <1>26, <1>27, <1>28, <1>29, <1>30, <1>31,
       DomainOfTasks
    DEF Next, WorkerStep, Reconcile, Person

-----------------------------------------------------------------------------
(* Leases: the run lock, the job leases and the tokens in memory.          *)

\* What a step of a worker leaves alone as far as tokens go.
KeepsTokens ==
    \A v \in Workers :
        wk'[v].pc # "idle" => wk[v].pc # "idle" /\ wk'[v].tok = wk[v].tok
KeepsAttempts == \A j \in Jobs : jobs'[j].attempt = jobs[j].attempt

\* As long as no token is drawn, the tokens stay drawn and unique.
LEMMA TokensKept ==
    ASSUME WorkersType, RowsType, TokensDrawn, TokensUnique, KeepsTokens, KeepsAttempts
    PROVE  TokensDrawn' /\ TokensUnique'
<1>1. \A v \in Workers : wk[v].pc # "idle" => wk[v].tok[1] \in Jobs
    BY ConstantTypes DEF WorkersType
<1>2. TokensDrawn'
    BY <1>1 DEF TokensDrawn, KeepsTokens, KeepsAttempts
<1>3. TokensUnique'
    BY DEF TokensUnique, KeepsTokens
<1> QED
    BY <1>2, <1>3

\* Neither the lock nor any job's lease changes hands.
LEMMA LeaseFrame ==
    ASSUME WorkersType, RowsType, LeaseInv, KeepsTokens,
           run'.status = run.status, run'.lock = run.lock,
           run'.lock = NoToken => run'.lockLive = run.lockLive,
           \A j \in Jobs : /\ jobs'[j].status = jobs[j].status
                           /\ jobs'[j].attempt = jobs[j].attempt,
           \A v \in Workers : wk'[v].pc \in {"complete", "failJob"} => wk[v].pc = wk'[v].pc
    PROVE  LeaseInv'
<1>1. TokensDrawn' /\ TokensUnique'
    BY TokensKept DEF KeepsAttempts, LeaseInv
<1>2. run.lock # NoToken => run.lock[1] \in Jobs
    BY ConstantTypes DEF RowsType, RunRecord
<1>3. LockOwnership'
    BY <1>2 DEF LeaseInv, LockOwnership, LeaseHeld
<1>4. Released'
    BY DEF LeaseInv, Released, KeepsTokens
<1>5. Blank'
    BY DEF LeaseInv, Blank
<1> QED
    BY <1>1, <1>3, <1>4, <1>5 DEF LeaseInv

\* The run has no owner afterwards.
LEMMA LeaseUnlocked ==
    ASSUME WorkersType, RowsType, LeaseInv, KeepsTokens, KeepsAttempts, WorkersType',
           run'.status # "running", run'.lock = NoToken, ~run'.lockLive,
           \A j \in Jobs : jobs'[j].status = "absent" => jobs[j].status = "absent"
    PROVE  LeaseInv'
<1>1. TokensDrawn' /\ TokensUnique'
    BY TokensKept DEF LeaseInv
<1>2. LockOwnership' /\ Blank'
    BY DEF LeaseInv, LockOwnership, Blank, KeepsAttempts
<1>3. Released'
    BY ConstantTypes DEF Released, WorkersType
<1> QED
    BY <1>1, <1>2, <1>3 DEF LeaseInv

\* A worker that does not own the run retires its job.
LEMMA LeaseRetired ==
    ASSUME WorkersType, RowsType, LeaseInv,
           NEW w \in Workers, wk[w].pc # "idle", run.lock # wk[w].tok,
           NEW status \in JobStatuses \ {"absent"}, SetJob(wk[w].tok, status),
           run' = run, Release(w)
    PROVE  LeaseInv'
<1> DEFINE tok == wk[w].tok
<1>1. tok \in Token /\ tok[1] \in Jobs /\ wk'[w].pc = "idle" /\ \A v \in Workers \ {w} : wk'[v] = wk[v]
    BY ConstantTypes DEF WorkersType, Release, Remember, IdleWorker
<1>2. KeepsTokens
    BY <1>1 DEF KeepsTokens
<1>3. /\ KeepsAttempts
      /\ \A j \in Jobs : jobs'[j].status = IF LeaseHeld(tok) /\ j = tok[1]
                                           THEN status ELSE jobs[j].status
    BY <1>1 DEF KeepsAttempts, SetJob, RowsType, JobRecord
<1>4. TokensDrawn' /\ TokensUnique'
    BY <1>2, <1>3, TokensKept DEF LeaseInv
<1>5. run.lock # NoToken => run.lock \in Token /\ run.lock[1] \in Jobs
    BY ConstantTypes DEF RowsType, RunRecord
<1>6. run.lock # NoToken /\ LeaseHeld(tok) => run.lock[1] # tok[1]
    BY <1>1, <1>5 DEF LeaseInv, LockOwnership, LeaseHeld, Token
<1>7. LockOwnership'
    BY <1>3, <1>5, <1>6 DEF LeaseInv, LockOwnership, LeaseHeld, KeepsAttempts
<1>8. Released'
    BY <1>1 DEF LeaseInv, Released
<1>9. Blank'
    BY <1>3 DEF LeaseInv, Blank, KeepsAttempts
<1> QED
    BY <1>4, <1>7, <1>8, <1>9 DEF LeaseInv

\* A claim draws a token nobody holds and makes its worker the owner.
LEMMA LeaseClaimed ==
    ASSUME WorkersType, RowsType, LeaseInv, NEW w \in Workers, NEW j \in Jobs, Claim(w, j)
    PROVE  LeaseInv'
<1> DEFINE tok == <<j, jobs[j].attempt + 1>>
<1>1. /\ jobs[j].attempt \in Nat /\ tok \in Token /\ tok # NoToken
      /\ tok[1] = j /\ tok[2] = jobs[j].attempt + 1
    BY ClaimDraws, ConstantTypes
<1>2. /\ wk'[w].tok = tok /\ wk'[w].pc = "load"
      /\ \A v \in Workers \ {w} : wk'[v] = wk[v]
    BY DEF Claim, Remember, WorkersType
<1>3. /\ jobs'[j].status = "leased" /\ jobs'[j].attempt = tok[2]
      /\ \A i \in Jobs \ {j} : jobs'[i] = jobs[i]
    BY DEF Claim, RowsType, JobRecord
<1>4. run'.status = "running" /\ run'.lock = tok /\ run'.lockLive
    BY DEF Claim, RowsType, RunRecord
<1>5. \A v \in Workers : wk[v].pc # "idle" =>
          wk[v].tok[1] \in Jobs /\ wk[v].tok[2] \in Nat /\ wk[v].tok # tok
    BY <1>1, ConstantTypes DEF LeaseInv, TokensDrawn, WorkersType
<1>6. TokensDrawn'
    BY <1>1, <1>2, <1>3, <1>5 DEF LeaseInv, TokensDrawn
<1>7. TokensUnique'
    BY <1>2, <1>5 DEF LeaseInv, TokensUnique
<1>8. Released'
    BY <1>2, <1>4, <1>5 DEF Released
<1>9. LockOwnership' /\ Blank'
    BY <1>1, <1>3, <1>4 DEF LeaseInv, LockOwnership, LeaseHeld, Blank
<1> QED
    BY <1>6, <1>7, <1>8, <1>9 DEF LeaseInv

\* What moving to another point does to the workers' memory.
LEMMA GotoFacts ==
    ASSUME WorkersType, NEW w \in Workers, NEW pc \in WorkerPoints, Goto(w, pc)
    PROVE  /\ wk'[w].pc = pc /\ wk'[w].tok = wk[w].tok
           /\ \A v \in Workers \ {w} : wk'[v] = wk[v]
BY DEF WorkersType, WorkerMemory, Goto, Remember

\* What storing new memory does to the workers' memory.
LEMMA RememberFacts ==
    ASSUME WorkersType, NEW w \in Workers, NEW m, Remember(w, m)
    PROVE  wk'[w] = m /\ \A v \in Workers \ {w} : wk'[v] = wk[v]
BY DEF WorkersType, Remember

\* What going idle does to the workers' memory.
LEMMA ReleaseFacts ==
    ASSUME WorkersType, NEW w \in Workers, Release(w)
    PROVE  wk'[w].pc = "idle" /\ \A v \in Workers \ {w} : wk'[v] = wk[v]
BY DEF WorkersType, Release, Remember, IdleWorker

\* Editing queue, seen or done leaves the token alone.
LEMMA EditedMemory ==
    ASSUME NEW me \in WorkerMemory, NEW pc, NEW q, NEW x
    PROVE  /\ [me EXCEPT !.pc = pc, !.queue = q].pc = pc
           /\ [me EXCEPT !.pc = pc, !.queue = q].tok = me.tok
           /\ [me EXCEPT !.pc = pc, !.queue = q, !.seen = x].pc = pc
           /\ [me EXCEPT !.pc = pc, !.queue = q, !.seen = x].tok = me.tok
           /\ [me EXCEPT !.pc = pc, !.queue = q, !.done = x].pc = pc
           /\ [me EXCEPT !.pc = pc, !.queue = q, !.done = x].tok = me.tok
BY DEF WorkerMemory

\* A worker at a point before its last write to the run steps to another such point.
MovesOn(w) ==
    /\ wk[w].pc # "idle" /\ wk'[w].tok = wk[w].tok
    /\ wk'[w].pc \notin {"complete", "failJob"}
    /\ \A v \in Workers \ {w} : wk'[v] = wk[v]

\* Moving on keeps every token and releases no run.
LEMMA MovesOnTokens ==
    ASSUME NEW w \in Workers, MovesOn(w)
    PROVE  /\ KeepsTokens
           /\ \A v \in Workers : wk'[v].pc \in {"complete", "failJob"} => wk[v].pc = wk'[v].pc
BY DEF MovesOn, KeepsTokens

\* The steps inside a segment move on.
LEMMA SegmentMovesOn ==
    ASSUME WorkersType, RowsType, NEW w \in Workers,
           \/ LoadRun(w) \/ OpenNode(w) \/ CloseSegment(w) \/ SaveCheckpoint(w) \/ RunNode(w)
           \/ CreateTask(w) \/ CreateWait(w) \/ RefuseArtifact(w) \/ ThrowError(w)
    PROVE  MovesOn(w)
<1> wk[w] \in WorkerMemory
    BY DEF WorkersType
<1>1. CASE LoadRun(w)
    BY <1>1, GotoFacts DEF LoadRun, MovesOn, WorkerPoints, Executing
<1>2. CASE OpenNode(w)
  <2>1. PICK pc \in {"head", "park", "artifact", "enter"},
             q \in {wk[w].queue, Tail(wk[w].queue)},
             s \in {wk[w].seen, wk[w].seen \cup {Head(wk[w].queue)}} :
            Remember(w, [wk[w] EXCEPT !.pc = pc, !.queue = q, !.seen = s])
    BY <1>2 DEF OpenNode
  <2>2. /\ wk'[w] = [wk[w] EXCEPT !.pc = pc, !.queue = q, !.seen = s]
        /\ \A v \in Workers \ {w} : wk'[v] = wk[v]
    BY <2>1, RememberFacts
  <2>3. wk'[w].pc = pc /\ wk'[w].tok = wk[w].tok
    BY <2>2, EditedMemory
  <2> QED
    BY <1>2, <2>2, <2>3 DEF OpenNode, MovesOn
<1>3. CASE CloseSegment(w)
    BY <1>3, GotoFacts DEF CloseSegment, MovesOn, WorkerPoints, Executing
<1>4. CASE SaveCheckpoint(w)
  <2>1. AfterCheckpoint[wk[w].pc] \in WorkerPoints \ {"complete", "failJob"}
    BY <1>4 DEF SaveCheckpoint, AfterCheckpoint, WorkerPoints, Executing
  <2>2. wk[w].pc # "idle" /\ "failing" \in WorkerPoints
    BY <1>4 DEF SaveCheckpoint, AfterCheckpoint, WorkerPoints
  <2> QED
    BY <1>4, <2>1, <2>2, GotoFacts DEF SaveCheckpoint, MovesOn
<1>5. CASE RunNode(w)
  <2> DEFINE n == Head(wk[w].queue)
             pc == IF Kind[n] = "end" THEN "advanceEnd" ELSE "advance"
             d == wk[w].done \cup {n}
  <2>0. pc \in {"advance", "advanceEnd"}
    OBVIOUS
  <2>1. PICK next \in Routes[n] :
            Remember(w, [wk[w] EXCEPT !.pc = pc, !.queue = Tail(wk[w].queue) \o next, !.done = d])
    BY <1>5 DEF RunNode
  <2> DEFINE q == Tail(wk[w].queue) \o next
  <2> HIDE DEF pc, d
  <2>2. /\ wk'[w] = [wk[w] EXCEPT !.pc = pc, !.queue = q, !.done = d]
        /\ \A v \in Workers \ {w} : wk'[v] = wk[v]
    BY <2>1, RememberFacts
  <2> HIDE DEF q
  <2>3. wk'[w].pc = pc /\ wk'[w].tok = wk[w].tok
    BY <2>2, EditedMemory
  <2> QED
    BY <1>5, <2>0, <2>2, <2>3 DEF RunNode, MovesOn
<1>6. CASE CreateTask(w)
  <2>1. /\ wk'[w] = [wk[w] EXCEPT !.pc = "artifact", !.queue = Tail(@)]
        /\ \A v \in Workers \ {w} : wk'[v] = wk[v]
    BY <1>6, RememberFacts DEF CreateTask
  <2>2. wk'[w].pc = "artifact" /\ wk'[w].tok = wk[w].tok
    BY <2>1, EditedMemory
  <2> QED
    BY <1>6, <2>1, <2>2 DEF CreateTask, MovesOn
<1>7. CASE CreateWait(w)
  <2>1. /\ wk'[w] = [wk[w] EXCEPT !.pc = "artifact", !.queue = Tail(@)]
        /\ \A v \in Workers \ {w} : wk'[v] = wk[v]
    BY <1>7, RememberFacts DEF CreateWait
  <2>2. wk'[w].pc = "artifact" /\ wk'[w].tok = wk[w].tok
    BY <2>1, EditedMemory
  <2> QED
    BY <1>7, <2>1, <2>2 DEF CreateWait, MovesOn
<1>8. CASE RefuseArtifact(w)
    BY <1>8, GotoFacts DEF RefuseArtifact, MovesOn, WorkerPoints, Executing
<1>9. CASE ThrowError(w)
    BY <1>9, GotoFacts DEF ThrowError, MovesOn, WorkerPoints, Executing
<1> QED
    BY <1>1, <1>2, <1>3, <1>4, <1>5, <1>6, <1>7, <1>8, <1>9

\* The steps inside a segment change neither the lock nor a job's lease.
LEMMA SegmentRows ==
    ASSUME WorkersType, RowsType, NEW w \in Workers,
           \/ LoadRun(w) \/ OpenNode(w) \/ CloseSegment(w) \/ SaveCheckpoint(w) \/ RunNode(w)
           \/ CreateTask(w) \/ CreateWait(w) \/ RefuseArtifact(w) \/ ThrowError(w)
    PROVE  /\ run'.status = run.status /\ run'.lock = run.lock /\ run'.lockLive = run.lockLive
           /\ \A j \in Jobs : /\ jobs'[j].status = jobs[j].status
                              /\ jobs'[j].attempt = jobs[j].attempt
<1>1. CASE SaveCheckpoint(w)
  <2>1. wk[w].tok[1] \in Jobs
    BY <1>1, ConstantTypes DEF SaveCheckpoint, AfterCheckpoint, WorkersType
  <2> DEFINE j == wk[w].tok[1]
             q == wk[w].queue
             d == wk[w].done
  <2>2. CASE run' = run /\ jobs' = jobs
    BY <2>2
  <2>3. CASE /\ run' = [run EXCEPT !.queue = q, !.done = d]
             /\ jobs' = [jobs EXCEPT ![j].queue = q, ![j].done = d]
    <3> HIDE DEF j, q, d
    <3>1. j \in Jobs
        BY <2>1 DEF j
    <3>2. run'.status = run.status /\ run'.lock = run.lock /\ run'.lockLive = run.lockLive
        BY <2>3 DEF RowsType, RunRecord
    <3>3. \A i \in Jobs : jobs'[i].status = jobs[i].status /\ jobs'[i].attempt = jobs[i].attempt
        BY <2>3, <3>1 DEF RowsType, JobRecord
    <3> QED
        BY <3>2, <3>3
  <2>4. \/ run' = run /\ jobs' = jobs
        \/ /\ run' = [run EXCEPT !.queue = q, !.done = d]
           /\ jobs' = [jobs EXCEPT ![j].queue = q, ![j].done = d]
    BY <1>1 DEF SaveCheckpoint
  <2> QED
    BY <2>2, <2>3, <2>4
<1>2. CASE ~SaveCheckpoint(w)
    BY <1>2 DEF LoadRun, OpenNode, CloseSegment, RunNode, CreateTask, CreateWait,
                RefuseArtifact, ThrowError
<1> QED
    BY <1>1, <1>2

\* Every action keeps the lease invariant.
LEMMA LeaseStep ==
    ASSUME WorkersType, RowsType, WorkersType', LeaseInv, [Next]_vars
    PROVE  LeaseInv'
<1>1. ASSUME NEW w \in Workers,
             \/ LoadRun(w) \/ OpenNode(w) \/ CloseSegment(w) \/ SaveCheckpoint(w) \/ RunNode(w)
             \/ CreateTask(w) \/ CreateWait(w) \/ RefuseArtifact(w) \/ ThrowError(w)
      PROVE  LeaseInv'
    BY <1>1, SegmentMovesOn, SegmentRows, MovesOnTokens, LeaseFrame
<1>2. ASSUME NEW w \in Workers, Park(w)
      PROVE  LeaseInv'
  <2>1. CASE run.lock = wk[w].tok /\ run.status = "running"
    <3>1. KeepsTokens
        BY <1>2, <2>1, GotoFacts DEF Park, KeepsTokens, WorkerPoints, Executing
    <3>2. /\ run'.status = "waiting" /\ run'.lock = NoToken /\ ~run'.lockLive
          /\ jobs' = jobs
        BY <1>2, <2>1 DEF Park, Unlock, RowsType, RunRecord
    <3> QED
        BY <3>1, <3>2, LeaseUnlocked DEF KeepsAttempts
  <2>2. CASE ~(run.lock = wk[w].tok /\ run.status = "running")
    <3>1. MovesOn(w)
        BY <1>2, <2>2, GotoFacts DEF Park, MovesOn, WorkerPoints, Executing
    <3> QED
        BY <1>2, <2>2, <3>1, MovesOnTokens, LeaseFrame DEF Park
  <2> QED
    BY <2>1, <2>2
<1>3. ASSUME NEW w \in Workers, Succeed(w)
      PROVE  LeaseInv'
  <2>1. CASE run.lock = wk[w].tok
    <3>1. KeepsTokens
        BY <1>3, <2>1, GotoFacts DEF Succeed, KeepsTokens, WorkerPoints, Executing
    <3>2. /\ run'.status = "success" /\ run'.lock = NoToken /\ ~run'.lockLive
          /\ jobs' = jobs
        BY <1>3, <2>1 DEF Succeed, Unlock, RowsType, RunRecord
    <3> QED
        BY <3>1, <3>2, LeaseUnlocked DEF KeepsAttempts
  <2>2. CASE run.lock # wk[w].tok
    <3>1. MovesOn(w)
        BY <1>3, <2>2, GotoFacts DEF Succeed, MovesOn, WorkerPoints, Executing
    <3> QED
        BY <1>3, <2>2, <3>1, MovesOnTokens, LeaseFrame DEF Succeed
  <2> QED
    BY <2>1, <2>2
<1>4. ASSUME NEW w \in Workers, CompleteJob(w)
      PROVE  LeaseInv'
  <2>1. run.lock # wk[w].tok /\ wk[w].pc # "idle" /\ run' = run
    BY <1>4 DEF CompleteJob, LeaseInv, Released
  <2>2. CASE LeaseHeld(wk[w].tok)
    BY <1>4, <2>1, <2>2, LeaseRetired DEF CompleteJob, JobStatuses
  <2>3. CASE ~LeaseHeld(wk[w].tok)
    <3>1. MovesOn(w)
        BY <1>4, <2>3, GotoFacts DEF CompleteJob, MovesOn, WorkerPoints
    <3> QED
        BY <1>4, <2>1, <2>3, <3>1, MovesOnTokens, LeaseFrame DEF CompleteJob, SetJob
  <2> QED
    BY <2>2, <2>3
<1>5. ASSUME NEW w \in Workers, RetryJob(w)
      PROVE  LeaseInv'
  <2> DEFINE tok == wk[w].tok
  <2>1. tok \in Token /\ tok[1] \in Jobs
    BY <1>5, ConstantTypes DEF RetryJob, WorkersType
  <2>2. KeepsTokens
    BY <1>5, ReleaseFacts DEF RetryJob, KeepsTokens
  <2>3. CASE run.lock = tok /\ LeaseHeld(tok)
    <3>1. run'.status = "queued" /\ run'.lock = NoToken /\ ~run'.lockLive
        BY <1>5, <2>3 DEF RetryJob, Unlock, RowsType, RunRecord
    <3>2. KeepsAttempts /\ \A j \in Jobs : jobs'[j].status = "absent" => jobs[j].status = "absent"
        BY <1>5, <2>1 DEF RetryJob, SetJob, KeepsAttempts, RowsType, JobRecord
    <3> QED
        BY <2>2, <3>1, <3>2, LeaseUnlocked
  <2>4. CASE ~LeaseHeld(tok)
    BY <1>5, <2>2, <2>4, ReleaseFacts, LeaseFrame DEF RetryJob, SetJob
  <2>5. CASE run.lock # tok
    BY <1>5, <2>5, LeaseRetired DEF RetryJob, JobStatuses
  <2> QED
    BY <2>3, <2>4, <2>5
<1>6. ASSUME NEW w \in Workers, FailRun(w)
      PROVE  LeaseInv'
  <2>1. /\ wk'[w].pc = "failJob" /\ wk'[w].tok = wk[w].tok /\ wk[w].pc # "idle"
        /\ \A v \in Workers \ {w} : wk'[v] = wk[v]
    BY <1>6, GotoFacts DEF FailRun, WorkerPoints
  <2>2. KeepsTokens
    BY <2>1 DEF KeepsTokens
  <2>3. CASE run.lock = wk[w].tok
    <3>1. run'.status = "failed" /\ run'.lock = NoToken /\ ~run'.lockLive /\ jobs' = jobs
        BY <1>6, <2>3 DEF FailRun, Unlock, RowsType, RunRecord
    <3> QED
        BY <2>2, <3>1, LeaseUnlocked DEF KeepsAttempts
  <2>4. CASE run.lock # wk[w].tok
    <3>1. run' = run /\ jobs' = jobs
        BY <1>6, <2>4 DEF FailRun
    <3>2. TokensDrawn' /\ TokensUnique'
        BY <2>2, <3>1, TokensKept DEF LeaseInv, KeepsAttempts
    <3>3. Released'
        BY <2>1, <2>4, <3>1 DEF LeaseInv, Released
    <3> QED
        BY <3>1, <3>2, <3>3 DEF LeaseInv, LockOwnership, LeaseHeld, Blank
  <2> QED
    BY <2>3, <2>4
<1>7. ASSUME NEW w \in Workers, FailJob(w)
      PROVE  LeaseInv'
    BY <1>7, LeaseRetired DEF FailJob, JobStatuses, LeaseInv, Released
<1>8. ASSUME NEW w \in Workers, RenewLease(w)
      PROVE  LeaseInv'
  <2>1. wk[w].tok \in Token /\ wk[w].tok[1] \in Jobs
    BY <1>8, ConstantTypes DEF RenewLease, WorkersType
  <2>2. /\ run'.status = run.status /\ run'.lock = run.lock /\ run.lock # NoToken
        /\ \A j \in Jobs : jobs'[j].status = jobs[j].status /\ jobs'[j].attempt = jobs[j].attempt
    BY <1>8, <2>1, ConstantTypes DEF RenewLease, RowsType, RunRecord, JobRecord
  <2> QED
    BY <1>8, <2>2, LeaseFrame DEF RenewLease, KeepsTokens
<1>9. ASSUME NEW w \in Workers, Crash(w)
      PROVE  LeaseInv'
    BY <1>9, ReleaseFacts, LeaseFrame DEF Crash, KeepsTokens
<1>10. ASSUME NEW j \in Jobs, LeaseLapses(j)
      PROVE  LeaseInv'
  <2>1. \A i \in Jobs : jobs'[i].status = jobs[i].status /\ jobs'[i].attempt = jobs[i].attempt
    BY <1>10 DEF LeaseLapses, RowsType, JobRecord
  <2> QED
    BY <1>10, <2>1, LeaseFrame DEF LeaseLapses, KeepsTokens
<1>11. ASSUME LockLapses
      PROVE  LeaseInv'
    BY <1>11, LeaseFrame DEF LockLapses, KeepsTokens, RowsType, RunRecord
<1>12. ASSUME NEW j \in Jobs, ReconcileExhausted(j)
      PROVE  LeaseInv'
  <2>1. run'.status = "failed" /\ run'.lock = NoToken /\ ~run'.lockLive
    BY <1>12 DEF ReconcileExhausted, Unlock, RowsType, RunRecord
  <2>2. KeepsAttempts /\ \A i \in Jobs : jobs'[i].status = "absent" => jobs[i].status = "absent"
    BY <1>12 DEF ReconcileExhausted, SetJob, KeepsAttempts, RowsType, JobRecord
  <2> QED
    BY <1>12, <2>1, <2>2, LeaseUnlocked DEF ReconcileExhausted, KeepsTokens
<1>13. ASSUME ReconcileTerminal
      PROVE  LeaseInv'
  <2>1. run' = run /\ run.status # "running" /\ run.lock = NoToken /\ ~run.lockLive
    BY <1>13 DEF ReconcileTerminal, Terminal, LeaseInv, LockOwnership, Blank
  <2>2. KeepsAttempts /\ \A i \in Jobs : jobs'[i].status = "absent" => jobs[i].status = "absent"
    BY <1>13 DEF ReconcileTerminal, KeepsAttempts, RowsType, JobRecord
  <2> QED
    BY <1>13, <2>1, <2>2, LeaseUnlocked DEF ReconcileTerminal, KeepsTokens
<1>14. ASSUME NEW target \in {"cancelled", "terminated"}, ControlRun(target)
      PROVE  LeaseInv'
  <2>1. run'.status # "running" /\ run'.lock = NoToken /\ ~run'.lockLive
    BY <1>14 DEF ControlRun, Unlock, RowsType, RunRecord
  <2>2. KeepsAttempts /\ \A i \in Jobs : jobs'[i].status = "absent" => jobs[i].status = "absent"
    BY <1>14 DEF ControlRun, KeepsAttempts, RowsType, JobRecord
  <2> QED
    BY <1>14, <2>1, <2>2, LeaseUnlocked DEF ControlRun, KeepsTokens
<1>15. ASSUME PauseRun
      PROVE  LeaseInv'
  <2>1. run'.status # "running" /\ run'.lock = NoToken /\ ~run'.lockLive
    BY <1>15 DEF PauseRun, Unlock, RowsType, RunRecord
  <2>2. KeepsAttempts /\ \A i \in Jobs : jobs'[i].status = "absent" => jobs[i].status = "absent"
    BY <1>15 DEF PauseRun, KeepsAttempts, RowsType, JobRecord
  <2> QED
    BY <1>15, <2>1, <2>2, LeaseUnlocked DEF PauseRun, KeepsTokens
<1>16. ASSUME ResumeRun
      PROVE  LeaseInv'
  <2>1. run'.status # "running" /\ run'.lock = NoToken /\ ~run'.lockLive
    BY <1>16 DEF ResumeRun, RowsType, RunRecord, LeaseInv, LockOwnership, Blank
  <2>2. KeepsAttempts /\ \A i \in Jobs : jobs'[i].status = "absent" => jobs[i].status = "absent"
    <3>1. CASE jobs' = jobs
        BY <3>1 DEF KeepsAttempts
    <3>2. CASE \E j \in Jobs : /\ FreshJob(j)
                              /\ jobs' = [jobs EXCEPT ![j] = ResumeJob(run.queue, run.done)]
        BY <3>2 DEF FreshJob, ResumeJob, KeepsAttempts, RowsType, LeaseInv, Blank
    <3> QED
        BY <1>16, <3>1, <3>2 DEF ResumeRun
  <2> QED
    BY <1>16, <2>1, <2>2, LeaseUnlocked DEF ResumeRun, KeepsTokens
<1>17. ASSUME NEW queue, NEW done, Continue(queue, done), wk' = wk
      PROVE  LeaseInv'
  <2>1. run'.status # "running" /\ run'.lock = NoToken /\ ~run'.lockLive
    BY <1>17 DEF Continue, Unlock, RowsType, RunRecord
  <2>2. KeepsAttempts /\ \A i \in Jobs : jobs'[i].status = "absent" => jobs[i].status = "absent"
    BY <1>17 DEF Continue, FreshJob, ResumeJob, KeepsAttempts, RowsType, LeaseInv, Blank
  <2> QED
    BY <1>17, <2>1, <2>2, LeaseUnlocked DEF KeepsTokens
<1>18. ASSUME NEW t \in Nodes \X Copies,
              ClaimTask(t) \/ ReturnTask(t) \/ CompleteTask(t) \/ RejectTask(t)
      PROVE  LeaseInv'
  <2>1. CASE ClaimTask(t) \/ ReturnTask(t)
    BY <2>1, LeaseFrame DEF ClaimTask, ReturnTask, KeepsTokens
  <2>2. CASE CompleteTask(t)
    BY <2>2, <1>17 DEF CompleteTask
  <2>3. CASE RejectTask(t)
    <3>1. run'.status # "running" /\ run'.lock = NoToken /\ ~run'.lockLive
        BY <2>3 DEF RejectTask, Unlock, RowsType, RunRecord
    <3> QED
        BY <2>3, <3>1, LeaseUnlocked DEF RejectTask, KeepsTokens, KeepsAttempts
  <2> QED
    BY <1>18, <2>1, <2>2, <2>3
<1>19. ASSUME NEW n \in Nodes, TriggerWait(n)
      PROVE  LeaseInv'
    BY <1>19, <1>17 DEF TriggerWait
<1>20. ASSUME UNCHANGED vars
      PROVE  LeaseInv'
    BY <1>20, LeaseFrame DEF vars, KeepsTokens
<1> QED
    BY <1>1, <1>2, <1>3, <1>4, <1>5, <1>6, <1>7, <1>8, <1>9, <1>10, <1>11, <1>12, <1>13,
       <1>14, <1>15, <1>16, <1>18, <1>19, <1>20, LeaseClaimed, DomainOfTasks
    DEF Next, WorkerStep, Reconcile, Person

-----------------------------------------------------------------------------
(* Who takes the run, opens a task, begins a node.                         *)

\* Only a claim gives the run an owner it did not have.
LEMMA WhoLocks ==
    ASSUME WorkersType, RowsType, LeaseInv, [Next]_vars
    PROVE  \/ run'.lock \in {run.lock, NoToken}
           \/ \E w \in Workers, j \in Jobs : Claim(w, j)
<1>1. ASSUME NEW w \in Workers,
             \/ LoadRun(w) \/ OpenNode(w) \/ CloseSegment(w) \/ SaveCheckpoint(w) \/ RunNode(w)
             \/ CreateTask(w) \/ CreateWait(w) \/ RefuseArtifact(w) \/ ThrowError(w)
      PROVE  run'.lock = run.lock
    BY <1>1, SegmentRows
<1>2. ASSUME NEW w \in Workers,
             \/ Park(w) \/ Succeed(w) \/ CompleteJob(w) \/ RetryJob(w) \/ FailRun(w)
             \/ FailJob(w) \/ RenewLease(w) \/ Crash(w)
      PROVE  run'.lock \in {run.lock, NoToken}
    BY <1>2 DEF Park, Succeed, CompleteJob, RetryJob, FailRun, FailJob, RenewLease, Crash,
                Unlock, RowsType, RunRecord
<1>3. ASSUME \/ LockLapses \/ ReconcileTerminal \/ PauseRun \/ ResumeRun \/ UNCHANGED vars
             \/ \E j \in Jobs : LeaseLapses(j) \/ ReconcileExhausted(j)
             \/ \E target \in {"cancelled", "terminated"} : ControlRun(target)
      PROVE  run'.lock \in {run.lock, NoToken}
    BY <1>3 DEF LockLapses, ReconcileTerminal, PauseRun, ResumeRun, vars, LeaseLapses,
                ReconcileExhausted, ControlRun, Unlock, RowsType, RunRecord
<1>4. ASSUME \/ \E t \in Nodes \X Copies :
                   ClaimTask(t) \/ ReturnTask(t) \/ CompleteTask(t) \/ RejectTask(t)
             \/ \E n \in Nodes : TriggerWait(n)
      PROVE  run'.lock \in {run.lock, NoToken}
    BY <1>4 DEF ClaimTask, ReturnTask, CompleteTask, RejectTask, TriggerWait, Continue,
                Unlock, RowsType, RunRecord
<1> QED
    BY <1>1, <1>2, <1>3, <1>4, DomainOfTasks DEF Next, WorkerStep, Reconcile, Person

\* Only the segment's task insert opens a task.
LEMMA WhoOpens ==
    ASSUME WorkersType, RowsType, [Next]_vars
    PROVE  \/ OpenTasks' \subseteq OpenTasks
           \/ \E w \in Workers : CreateTask(w)
<1>1. ASSUME tasks' = tasks
      PROVE  OpenTasks' \subseteq OpenTasks
    BY <1>1 DEF OpenTasks
<1>2. ASSUME CancelArtifacts
      PROVE  OpenTasks' \subseteq OpenTasks
    BY <1>2 DEF CancelArtifacts, OpenTasks
<1>3. ASSUME NEW t \in Nodes \X Copies,
             ClaimTask(t) \/ ReturnTask(t) \/ CompleteTask(t) \/ RejectTask(t)
      PROVE  OpenTasks' \subseteq OpenTasks
    BY <1>3 DEF ClaimTask, ReturnTask, CompleteTask, RejectTask, OpenTasks, RowsType
<1>4. ASSUME NEW w \in Workers,
             \/ WorkerStep(w) \/ RenewLease(w) \/ Crash(w) \/ ThrowError(w)
             \/ \E j \in Jobs : Claim(w, j)
      PROVE  CreateTask(w) \/ tasks' = tasks \/ CancelArtifacts
    BY <1>4 DEF WorkerStep, LoadRun, OpenNode, CloseSegment, SaveCheckpoint, RunNode, CreateWait,
                RefuseArtifact, Park, Succeed, CompleteJob, RetryJob, FailRun, FailJob,
                RenewLease, Crash, ThrowError, Claim
<1>5. ASSUME \/ LockLapses \/ Reconcile \/ PauseRun \/ ResumeRun \/ UNCHANGED vars
             \/ \E j \in Jobs : LeaseLapses(j)
             \/ \E n \in Nodes : TriggerWait(n)
             \/ \E target \in {"cancelled", "terminated"} : ControlRun(target)
      PROVE  tasks' = tasks \/ CancelArtifacts
    BY <1>5 DEF LockLapses, Reconcile, ReconcileTerminal, ReconcileExhausted, PauseRun, ResumeRun,
                vars, LeaseLapses, TriggerWait, ControlRun
<1> QED
    BY <1>1, <1>2, <1>3, <1>4, <1>5, DomainOfTasks DEF Next, Person

\* Only the look for an open artifact lets a worker begin a node.
LEMMA WhoEnters ==
    ASSUME WorkersType, RowsType, [Next]_vars,
           NEW v \in Workers, wk'[v].pc \in {"enter", "work"}
    PROVE  \/ /\ wk[v].pc \in {"enter", "work"} /\ wk'[v].tok = wk[v].tok
              /\ wk'[v].queue = wk[v].queue
           \/ OpenNode(v)
<1> wk[v] \in WorkerMemory
    BY DEF WorkersType
<1>1. CASE wk'[v] = wk[v]
    BY <1>1
<1>2. ASSUME NEW w \in Workers, OpenNode(w) \/ RunNode(w) \/ CreateTask(w) \/ CreateWait(w),
             w # v
      PROVE  wk'[v] = wk[v]
    BY <1>2 DEF OpenNode, RunNode, CreateTask, CreateWait, Remember, WorkersType
<1>3. ASSUME RunNode(v) \/ CreateTask(v) \/ CreateWait(v)
      PROVE  FALSE
  <2>1. CASE RunNode(v)
    <3> DEFINE n == Head(wk[v].queue)
               pc == IF Kind[n] = "end" THEN "advanceEnd" ELSE "advance"
               d == wk[v].done \cup {n}
    <3>0. pc \in {"advance", "advanceEnd"}
        OBVIOUS
    <3>1. PICK next \in Routes[n] :
              Remember(v, [wk[v] EXCEPT !.pc = pc, !.queue = Tail(wk[v].queue) \o next,
                                        !.done = d])
        BY <2>1 DEF RunNode
    <3> DEFINE q == Tail(wk[v].queue) \o next
    <3> HIDE DEF pc, d
    <3>2. wk'[v] = [wk[v] EXCEPT !.pc = pc, !.queue = q, !.done = d]
        BY <3>1, RememberFacts
    <3> HIDE DEF q
    <3> QED
        BY <3>0, <3>2, EditedMemory
  <2>2. CASE CreateTask(v) \/ CreateWait(v)
    <3>1. wk'[v] = [wk[v] EXCEPT !.pc = "artifact", !.queue = Tail(@)]
        BY <2>2, RememberFacts DEF CreateTask, CreateWait
    <3> QED
        BY <3>1, EditedMemory
  <2> QED
    BY <1>3, <2>1, <2>2
<1>4. ASSUME NEW w \in Workers, NEW pc \in WorkerPoints, Goto(w, pc),
             w = v /\ pc = "work" => wk[v].pc = "enter",
             w = v => pc # "enter"
      PROVE  wk[v].pc \in {"enter", "work"} /\ wk'[v].tok = wk[v].tok /\ wk'[v].queue = wk[v].queue
    BY <1>4 DEF Goto, Remember, WorkersType, WorkerMemory
<1>5. ASSUME NEW w \in Workers,
             \/ LoadRun(w) \/ CloseSegment(w) \/ RefuseArtifact(w) \/ ThrowError(w) \/ Park(w)
             \/ Succeed(w) \/ FailRun(w)
      PROVE  \E pc \in WorkerPoints \ {"enter", "work"} : Goto(w, pc)
    BY <1>5 DEF LoadRun, CloseSegment, RefuseArtifact, ThrowError, Park, Succeed, FailRun,
                WorkerPoints, Executing
<1>6. ASSUME NEW w \in Workers, CompleteJob(w) \/ RetryJob(w) \/ FailJob(w) \/ Crash(w)
      PROVE  Release(w) \/ Goto(w, "failing")
    BY <1>6 DEF CompleteJob, RetryJob, FailJob, Crash
<1>7. ASSUME NEW w \in Workers, Release(w)
      PROVE  wk'[v] = wk[v]
    BY <1>7, ReleaseFacts
<1>8. ASSUME NEW w \in Workers, SaveCheckpoint(w)
      PROVE  \E pc \in WorkerPoints \ {"enter"} : Goto(w, pc) /\ (pc = "work" => wk[w].pc = "enter")
    BY <1>8 DEF SaveCheckpoint, AfterCheckpoint, WorkerPoints, Executing
<1>9. ASSUME NEW w \in Workers, NEW j \in Jobs, Claim(w, j)
      PROVE  wk'[v] = wk[v]
    BY <1>9 DEF Claim, Remember, WorkersType
<1>10. "failing" \in WorkerPoints
    BY DEF WorkerPoints
<1>11. ASSUME \/ LockLapses \/ Reconcile \/ Person \/ UNCHANGED vars
              \/ \E w \in Workers : RenewLease(w)
              \/ \E j \in Jobs : LeaseLapses(j)
              \/ \E n \in Nodes : TriggerWait(n)
       PROVE  wk' = wk
    BY <1>11 DEF LockLapses, Reconcile, ReconcileTerminal, ReconcileExhausted, Person, ClaimTask,
                 ReturnTask, CompleteTask, RejectTask, ControlRun, PauseRun, ResumeRun, vars,
                 RenewLease, LeaseLapses, TriggerWait
<1> QED
    BY <1>1, <1>2, <1>3, <1>4, <1>5, <1>6, <1>7, <1>8, <1>9, <1>10, <1>11 DEF Next, WorkerStep

\* Every action keeps open tasks unique per node.
LEMMA OpenStep ==
    ASSUME WorkersType, RowsType, WorkersType', LeaseInv, LeaseInv', OpenInv, [Next]_vars
    PROVE  OpenInv'
<1>1. CASE \E w \in Workers, j \in Jobs : Claim(w, j)
  <2>1. PICK w \in Workers, j \in Jobs : Claim(w, j)
    BY <1>1
  <2>2. /\ wk'[w].pc = "load" /\ run'.lock = wk'[w].tok
        /\ OpenTasks' = OpenTasks
    BY <2>1, RememberFacts DEF Claim, OpenTasks, RowsType, RunRecord
  <2>3. \A v \in Workers \ {w} : wk'[v].pc # "idle" => wk'[v].tok # run'.lock
    BY <2>2 DEF LeaseInv, TokensUnique
  <2>4. NoneOpen'
    BY <2>2, <2>3 DEF NoneOpen
  <2> QED
    BY <2>2, <2>4 DEF OpenInv, OneOpenTask
<1>2. CASE \E w \in Workers : CreateTask(w)
  <2>1. PICK w \in Workers : CreateTask(w)
    BY <1>2
  <2> DEFINE n == Head(wk[w].queue)
  <2>2. /\ wk[w].pc = "work" /\ Kind[n] = "operate" /\ run.lock = wk[w].tok
        /\ run' = run
    BY <2>1 DEF CreateTask, HoldsLease
  <2>3. wk'[w].pc = "artifact"
    <3>1. wk[w] \in WorkerMemory /\ wk'[w] = [wk[w] EXCEPT !.pc = "artifact", !.queue = Tail(@)]
        BY <2>1, RememberFacts DEF CreateTask, WorkersType
    <3> QED
        BY <3>1, EditedMemory
  <2>4. \A v \in Workers \ {w} : wk'[v] = wk[v] /\ (wk[v].pc # "idle" => wk[v].tok # run'.lock)
    BY <2>1, <2>2, RememberFacts DEF CreateTask, LeaseInv, TokensUnique
  <2>5. NoneOpen'
    BY <2>3, <2>4 DEF NoneOpen
  <2>6. \A t \in OpenTasks : t[1] # n
    BY <2>2 DEF OpenInv, NoneOpen
  <2>7. PICK c \in Copies : tasks' = [tasks EXCEPT ![<<n, c>>] = "pending"]
    BY <2>1 DEF CreateTask
  <2>8. OpenTasks' \subseteq OpenTasks \cup {<<n, c>>}
    BY <2>7 DEF OpenTasks, RowsType
  <2>9. OneOpenTask'
    <3> SUFFICES ASSUME NEW s \in OpenTasks', NEW t \in OpenTasks', s[1] = t[1]
                 PROVE  s = t
        BY DEF OneOpenTask
    <3>1. CASE s = <<n, c>>
        BY <2>6, <2>8, <3>1
    <3>2. CASE t = <<n, c>>
        BY <2>6, <2>8, <3>2
    <3>3. CASE s \in OpenTasks /\ t \in OpenTasks
        BY <3>3 DEF OpenInv, OneOpenTask
    <3> QED
        BY <2>8, <3>1, <3>2, <3>3
  <2> QED
    BY <2>5, <2>9 DEF OpenInv
<1>3. CASE /\ ~\E w \in Workers, j \in Jobs : Claim(w, j)
           /\ ~\E w \in Workers : CreateTask(w)
  <2>1. OpenTasks' \subseteq OpenTasks /\ run'.lock \in {run.lock, NoToken}
    BY <1>3, WhoLocks, WhoOpens
  <2>2. OneOpenTask'
    BY <2>1 DEF OpenInv, OneOpenTask
  <2>3. NoneOpen'
    <3> SUFFICES ASSUME NEW v \in Workers, wk'[v].pc \in {"enter", "work"}, run'.lock = wk'[v].tok,
                        Kind[Head(wk'[v].queue)] = "operate", NEW t \in OpenTasks'
                 PROVE  t[1] # Head(wk'[v].queue)
        BY DEF NoneOpen
    <3>1. run'.lock = run.lock
        BY <2>1, ConstantTypes DEF WorkersType
    <3>2. CASE /\ wk[v].pc \in {"enter", "work"} /\ wk'[v].tok = wk[v].tok
               /\ wk'[v].queue = wk[v].queue
        BY <2>1, <3>1, <3>2 DEF OpenInv, NoneOpen
    <3>3. CASE OpenNode(v)
      <4> DEFINE n == Head(wk[v].queue)
                 m(pc, q, s) == [wk[v] EXCEPT !.pc = pc, !.queue = q, !.seen = s]
      <4>1. wk[v] \in WorkerMemory
        BY DEF WorkersType
      <4>2. \A pc, q, s : m(pc, q, s).pc = pc /\ m(pc, q, s).queue = q
        BY <4>1 DEF WorkerMemory
      <4>3. \A pc, q, s : Remember(v, m(pc, q, s)) => wk'[v] = m(pc, q, s)
        BY RememberFacts
      <4>4. /\ ~(Kind[n] = "operate" /\ \E u \in OpenTasks : u[1] = n)
            /\ Remember(v, m("enter", wk[v].queue, wk[v].seen \cup {n}))
        <5> HIDE DEF m
        <5>1. \/ \E q, s : Remember(v, m("head", q, s)) \/ Remember(v, m("park", q, s))
                           \/ Remember(v, m("artifact", q, s))
              \/ /\ ~(Kind[n] = "operate" /\ \E u \in OpenTasks : u[1] = n)
                 /\ Remember(v, m("enter", wk[v].queue, wk[v].seen \cup {n}))
            BY <3>3 DEF OpenNode, m
        <5> QED
            BY <5>1, <4>2, <4>3
      <4>5. wk'[v].queue = wk[v].queue
        <5> HIDE DEF m
        <5> QED
            BY <4>2, <4>3, <4>4
      <4> QED
        BY <2>1, <4>4, <4>5
    <3> QED
        BY <3>2, <3>3, WhoEnters
  <2> QED
    BY <2>2, <2>3 DEF OpenInv
<1> QED
    BY <1>1, <1>2, <1>3

-----------------------------------------------------------------------------
(* The inductive invariant and what follows from it.                       *)

\* The inductive invariant, regrouped.
LEMMA Parts == IInv <=> WorkersType /\ RowsType /\ LeaseInv /\ OpenInv
BY TypeParts DEF IInv, OpenInv

\* The invariant holds once the run is submitted.
LEMMA InitInvariant == Init => IInv
<1> SUFFICES ASSUME Init PROVE IInv
    OBVIOUS
<1>1. TypeOK /\ HasHead
    BY InitType
<1>2. \A w \in Workers : wk[w].pc = "idle"
    BY DEF Init, IdleWorker
<1>3. TokensDrawn /\ TokensUnique /\ Released /\ NoneOpen
    BY <1>2 DEF TokensDrawn, TokensUnique, Released, NoneOpen
<1>4. LockOwnership /\ Blank
    BY DEF Init, LockOwnership, Blank
<1>5. OpenTasks = {}
    BY DEF Init, OpenTasks
<1>6. OneOpenTask
    BY <1>5 DEF OneOpenTask
<1> QED
    BY <1>1, <1>3, <1>4, <1>6 DEF IInv, LeaseInv, OpenInv

\* Every action keeps the invariant.
LEMMA InvariantStep == IInv /\ [Next]_vars => IInv'
<1> SUFFICES ASSUME IInv, [Next]_vars PROVE IInv'
    OBVIOUS
<1>1. WorkersType /\ RowsType /\ LeaseInv /\ OpenInv
    BY Parts
<1>2. TypeOK' /\ HasHead'
    BY TypeStep DEF IInv
<1>3. WorkersType'
    BY <1>2 DEF TypeOK, WorkersType
<1>4. LeaseInv'
    BY <1>1, <1>3, LeaseStep
<1>5. OpenInv'
    BY <1>1, <1>3, <1>4, OpenStep
<1> QED
    BY <1>2, <1>4, <1>5 DEF IInv, OpenInv

\* The inductive invariant holds in every reachable state.
THEOREM Invariance == Spec => []IInv
BY InitInvariant, InvariantStep, PTL DEF Spec

\* Rows and memory are well-typed; no job is claimed more than MaxAttempts times.
THEOREM TypeCorrect == Spec => []TypeOK
BY Invariance, PTL DEF IInv

\* A run is running exactly while it carries the token of a leased job, whatever crashes,
\* stalls, exceptions, commands and decisions interleave (claimNextJob and every Unlock).
THEOREM LockIsOwned == Spec => []LockOwnership
BY Invariance, PTL DEF IInv, LeaseInv

\* No interleaving of reclaimed workers leaves two open tasks on one node, although the
\* look for an existing task and its insert are separate transactions (executeRunSegment).
THEOREM OneTaskOpen == Spec => []OneOpenTask
BY Invariance, PTL DEF IInv, OpenInv

\* At most one process passes saveCheckpoint's two ownership tests.
THEOREM OneWriter == Spec => []SingleWriter
<1>1. IInv => SingleWriter
    BY DEF IInv, LeaseInv, TokensUnique, SingleWriter, Fenced
<1> QED
    BY <1>1, Invariance, PTL

-----------------------------------------------------------------------------
(* A run nobody may execute is not written.                                *)

\* A run that is not running has no lock, so every ownership test fails.
LEMMA NobodyOwns ==
    ASSUME WorkersType, LeaseInv, run.status # "running"
    PROVE  /\ run.lock = NoToken /\ ~run.lockLive
           /\ \A w \in Workers : wk[w].pc # "idle" =>
                 run.lock # wk[w].tok /\ ~Fenced(wk[w].tok) /\ ~HoldsLease(wk[w].tok)
BY ConstantTypes DEF WorkersType, LeaseInv, LockOwnership, Blank, Fenced, HoldsLease

\* Then no worker writes the run, its tasks or its waits ...
LEMMA WorkersWriteNothing ==
    ASSUME WorkersType, LeaseInv, run.status \notin Claimable,
           NEW w \in Workers,
           \/ WorkerStep(w) \/ RenewLease(w) \/ Crash(w) \/ ThrowError(w)
           \/ \E j \in Jobs : Claim(w, j)
    PROVE  run' = run /\ tasks' = tasks /\ waits' = waits
<1>1. /\ wk[w].pc # "idle" =>
            run.lock # wk[w].tok /\ ~Fenced(wk[w].tok) /\ ~HoldsLease(wk[w].tok)
      /\ run.status \notin Claimable
    BY NobodyOwns DEF Claimable
<1>2. CASE Park(w) \/ Succeed(w) \/ CompleteJob(w) \/ RetryJob(w) \/ FailRun(w) \/ FailJob(w)
    BY <1>1, <1>2 DEF Park, Succeed, CompleteJob, RetryJob, FailRun, FailJob
<1>3. CASE LoadRun(w) \/ OpenNode(w) \/ CloseSegment(w) \/ RunNode(w) \/ RefuseArtifact(w)
           \/ ThrowError(w) \/ Crash(w)
    BY <1>3 DEF LoadRun, OpenNode, CloseSegment, RunNode, RefuseArtifact, ThrowError, Crash
<1>4. CASE SaveCheckpoint(w)
    BY <1>1, <1>4 DEF SaveCheckpoint, AfterCheckpoint
<1>5. CASE CreateTask(w) \/ CreateWait(w)
    BY <1>1, <1>5 DEF CreateTask, CreateWait
<1>6. CASE RenewLease(w) \/ \E j \in Jobs : Claim(w, j)
    BY <1>1, <1>6 DEF RenewLease, Claim, Eligible
<1> QED
    BY <1>2, <1>3, <1>4, <1>5, <1>6 DEF WorkerStep

\* ... nor does a reconciler, a timer or a person answering a task.
LEMMA OthersWriteNothing ==
    ASSUME WorkersType, RowsType, LeaseInv, run.status \notin Claimable,
           \/ LockLapses \/ Reconcile \/ UNCHANGED vars
           \/ \E j \in Jobs : LeaseLapses(j)
           \/ \E n \in Nodes : TriggerWait(n)
           \/ \E t \in Nodes \X Copies : CompleteTask(t) \/ RejectTask(t)
    PROVE  run' = run /\ tasks' = tasks /\ waits' = waits
<1>1. run.status \notin Claimable /\ ~Actionable /\ run.status # "waiting" /\ run.lock = NoToken
    BY NobodyOwns DEF Claimable, Actionable
<1> QED
    BY <1>1 DEF LockLapses, Reconcile, ReconcileTerminal, ReconcileExhausted, vars, LeaseLapses,
                TriggerWait, CompleteTask, RejectTask

\* Claiming a task or handing it back changes who holds it and nothing else.
LEMMA ClaimKeepsAnswers ==
    ASSUME RowsType, NEW t \in Nodes \X Copies, ClaimTask(t) \/ ReturnTask(t)
    PROVE  run' = run /\ waits' = waits /\ Answers' = Answers
<1>1. run' = run /\ waits' = waits /\ tasks \in [Nodes \X Copies -> TaskStatuses]
    BY DEF ClaimTask, ReturnTask, RowsType
<1>2. OpenTasks' = OpenTasks
    BY <1>1 DEF ClaimTask, ReturnTask, OpenTasks
<1>3. \A s \in Nodes \X Copies : s \notin OpenTasks => tasks'[s] = tasks[s]
    BY <1>1 DEF ClaimTask, ReturnTask, OpenTasks
<1>4. DOMAIN tasks' = DOMAIN tasks /\ DOMAIN tasks = Nodes \X Copies
    BY <1>1 DEF ClaimTask, ReturnTask
<1> QED
    BY <1>1, <1>2, <1>3, <1>4 DEF Answers

\* For every definition, number of workers, attempt limit and fault: a finished run is final.
THEOREM TerminalStaysFrozen == Spec => TerminalFrozen
<1>1. ASSUME IInv, [Next]_vars, run.status \in Terminal
      PROVE  UNCHANGED <<run, waits, Answers>>
  <2>1. WorkersType /\ RowsType /\ LeaseInv /\ run.status \notin Claimable
    BY <1>1, Parts DEF Terminal, Claimable
  <2>2. ~(PauseRun \/ ResumeRun \/ \E target \in {"cancelled", "terminated"} : ControlRun(target))
    BY <1>1 DEF PauseRun, ResumeRun, ControlRun, Terminal
  <2>3. CASE run' = run /\ tasks' = tasks /\ waits' = waits
    BY <2>3 DEF Answers, OpenTasks
  <2>4. CASE \E t \in Nodes \X Copies : ClaimTask(t) \/ ReturnTask(t)
    BY <2>1, <2>4, ClaimKeepsAnswers
  <2> QED
    BY <1>1, <2>1, <2>2, <2>3, <2>4, WorkersWriteNothing, OthersWriteNothing, DomainOfTasks
    DEF Next, Person
<1>2. IInv /\ [Next]_vars
        => [run.status \in Terminal => UNCHANGED <<run, waits, Answers>>]_vars
    BY <1>1
<1> QED
    BY <1>2, Invariance, PTL DEF Spec, TerminalFrozen

\* A paused run keeps its queue, its context, its questions and its waits until it is resumed
\* or stopped, although the worker finishing its last job is not stopped.
THEOREM BlockedStaysFrozen == Spec => BlockedFrozen
<1> DEFINE Step == run.status = "blocked" /\ run'.status \notin Terminal
                    => run'.queue = run.queue /\ run'.done = run.done /\ UNCHANGED <<waits, Answers>>
<1>1. ASSUME IInv, [Next]_vars, run.status = "blocked", run'.status \notin Terminal
      PROVE  run'.queue = run.queue /\ run'.done = run.done /\ UNCHANGED <<waits, Answers>>
  <2>1. WorkersType /\ RowsType /\ LeaseInv /\ run.status \notin Claimable
    BY <1>1, Parts DEF Claimable
  <2>2. ~(PauseRun \/ \E target \in {"cancelled", "terminated"} : ControlRun(target))
    BY <1>1, <2>1 DEF PauseRun, ControlRun, Unlock, RowsType, RunRecord, Terminal
  <2>3. CASE run'.queue = run.queue /\ run'.done = run.done /\ tasks' = tasks /\ waits' = waits
    BY <2>3 DEF Answers, OpenTasks
  <2>4. ResumeRun => run'.queue = run.queue /\ run'.done = run.done /\ tasks' = tasks
                      /\ waits' = waits
    BY <2>1 DEF ResumeRun, RowsType, RunRecord
  <2>5. CASE \E t \in Nodes \X Copies : ClaimTask(t) \/ ReturnTask(t)
    BY <2>1, <2>5, ClaimKeepsAnswers
  <2> QED
    BY <1>1, <2>1, <2>2, <2>3, <2>4, <2>5, WorkersWriteNothing, OthersWriteNothing, DomainOfTasks
    DEF Next, Person
<1>2. IInv /\ [Next]_vars => [Step]_vars
    BY <1>1
<1> QED
    BY <1>2, Invariance, PTL DEF Spec, BlockedFrozen

\* What a pause or the end of a run froze stays as it was (the guards of every writer).
THEOREM StoppedStaysFrozen == Spec => StoppedFrozen
BY TerminalStaysFrozen, BlockedStaysFrozen DEF StoppedFrozen

-----------------------------------------------------------------------------
(* Every step is a step of RunOwnership or leaves its variables alone.     *)

\* The abstract state after a step that leaves the run without an owner.
Vacated(s) == run'.status = s /\ run'.lock = NoToken /\ run'.lockLive = FALSE

\* Giving the run up vacates it.
LEMMA UnlockVacates ==
    ASSUME RowsType, NEW s, run' = Unlock(run, s)
    PROVE  Vacated(s)
BY DEF RowsType, RunRecord, Unlock, Vacated

\* Without a claim no token is spent.
LEMMA SpentKept ==
    ASSUME KeepsAttempts
    PROVE  Spent' = Spent
BY ConstantTypes DEF Spent, KeepsAttempts

\* A claim spends one token that was not spent before.
LEMMA SpentGrows ==
    ASSUME RowsType, NEW w \in Workers, NEW j \in Jobs, Claim(w, j)
    PROVE  LET tok == <<j, jobs[j].attempt + 1>>
           IN  tok \in Token /\ tok \notin Spent /\ Spent' = Spent \cup {tok}
<1> DEFINE tok == <<j, jobs[j].attempt + 1>>
<1>1. jobs[j].attempt \in Nat /\ tok \in Token
    BY ClaimDraws
<1>2. /\ jobs'[j].attempt = jobs[j].attempt + 1
      /\ \A i \in Jobs \ {j} : jobs'[i] = jobs[i]
    BY DEF Claim, RowsType, JobRecord
<1>3. \A t \in Token : t = <<t[1], t[2]>> /\ t[1] \in Jobs /\ t[2] \in Nat
    BY BoundAssumption DEF Token
<1>4. \A t \in Token : t[2] <= jobs'[t[1]].attempt <=> t[2] <= jobs[t[1]].attempt \/ t = tok
    BY <1>1, <1>2, <1>3
<1>5. tok \notin Spent
    BY <1>1 DEF Spent
<1>6. Spent' = Spent \cup {tok}
    BY <1>1, <1>4 DEF Spent
<1> QED
    BY <1>1, <1>5, <1>6

\* The step of the refinement.
LEMMA RefineStep ==
    ASSUME WorkersType, RowsType, LeaseInv, [Next]_vars
    PROVE  [Ownership!Next]_(Ownership!vars)
<1> USE DEF Ownership!Next, Ownership!vars, Ownership!Vacate
<1>1. ASSUME NEW w \in Workers, NEW j \in Jobs, Claim(w, j)
      PROVE  Ownership!Next
  <2> DEFINE tok == <<j, jobs[j].attempt + 1>>
  <2>1. tok \in Token /\ tok \notin Spent /\ Spent' = Spent \cup {tok}
    BY <1>1, SpentGrows
  <2>2. /\ run.status \in Claimable /\ (run.lock = NoToken \/ ~run.lockLive)
        /\ run'.status = "running" /\ run'.lock = tok /\ run'.lockLive = TRUE
    BY <1>1 DEF Claim, Eligible, LockFree, RowsType, RunRecord
  <2>3. Ownership!Acquire(tok)
    BY <2>1, <2>2 DEF Ownership!Acquire, Claimable
  <2> QED
    BY <2>1, <2>3
<1>2. ASSUME NEW w \in Workers,
             \/ LoadRun(w) \/ OpenNode(w) \/ CloseSegment(w) \/ SaveCheckpoint(w) \/ RunNode(w)
             \/ CreateTask(w) \/ CreateWait(w) \/ RefuseArtifact(w) \/ ThrowError(w)
      PROVE  UNCHANGED Ownership!vars
    BY <1>2, SegmentRows, SpentKept DEF KeepsAttempts
<1>3. ASSUME KeepsAttempts, run.lock # NoToken,
             NEW s \in {"waiting", "queued", "success", "failed"}, Vacated(s)
      PROVE  Ownership!Next
    BY <1>3, SpentKept DEF Ownership!Leave, Vacated
<1>4. ASSUME KeepsAttempts, run' = run
      PROVE  UNCHANGED Ownership!vars
    BY <1>4, SpentKept
<1>5. ASSUME NEW w \in Workers, wk[w].pc # "idle"
      PROVE  wk[w].tok \in Token /\ wk[w].tok[1] \in Jobs /\ wk[w].tok # NoToken
    BY <1>5, ConstantTypes DEF WorkersType
<1>6. ASSUME NEW w \in Workers, NEW status, wk[w].pc # "idle", SetJob(wk[w].tok, status)
      PROVE  KeepsAttempts
    BY <1>5, <1>6 DEF SetJob, KeepsAttempts, RowsType, JobRecord
<1>7. ASSUME NEW w \in Workers, Park(w) \/ Succeed(w) \/ FailRun(w)
      PROVE  Ownership!Next \/ UNCHANGED Ownership!vars
  <2>1. /\ KeepsAttempts /\ wk[w].pc # "idle"
        /\ \/ run' = run
           \/ /\ run.lock = wk[w].tok
              /\ \E s \in {"waiting", "success", "failed"} : run' = Unlock(run, s)
    BY <1>7 DEF Park, Succeed, FailRun, KeepsAttempts
  <2> QED
    BY <1>3, <1>4, <1>5, <2>1, UnlockVacates
<1>8. ASSUME NEW w \in Workers, CompleteJob(w) \/ RetryJob(w) \/ FailJob(w)
      PROVE  Ownership!Next \/ UNCHANGED Ownership!vars
  <2>1. KeepsAttempts /\ wk[w].pc # "idle"
    BY <1>6, <1>8 DEF CompleteJob, RetryJob, FailJob
  <2>2. \/ run' = run
        \/ run.lock = wk[w].tok /\ run' = Unlock(run, "queued")
    BY <1>8 DEF CompleteJob, RetryJob, FailJob, LeaseInv, Released
  <2> QED
    BY <1>3, <1>4, <1>5, <2>1, <2>2, UnlockVacates
<1>9. ASSUME NEW w \in Workers, RenewLease(w)
      PROVE  Ownership!Next \/ UNCHANGED Ownership!vars
  <2>1. /\ run'.status = run.status /\ run'.lock = run.lock /\ run'.lockLive = TRUE
        /\ run.lock # NoToken /\ run.lockLive \in BOOLEAN
    BY <1>5, <1>9 DEF RenewLease, RowsType, RunRecord
  <2>2. KeepsAttempts
    BY <1>5, <1>9 DEF RenewLease, KeepsAttempts, RowsType, JobRecord
  <2> QED
    BY <2>1, <2>2, SpentKept DEF Ownership!Renew
<1>10. ASSUME NEW w \in Workers, Crash(w)
       PROVE  UNCHANGED Ownership!vars
    BY <1>4, <1>10 DEF Crash, KeepsAttempts
<1>11. ASSUME NEW j \in Jobs, LeaseLapses(j)
       PROVE  UNCHANGED Ownership!vars
  <2>1. KeepsAttempts
    BY <1>11 DEF LeaseLapses, KeepsAttempts, RowsType, JobRecord
  <2> QED
    BY <1>4, <1>11, <2>1 DEF LeaseLapses
<1>12. ASSUME LockLapses
       PROVE  Ownership!Next
  <2>1. /\ run'.status = run.status /\ run'.lock = run.lock /\ run'.lockLive = FALSE
        /\ run.lock # NoToken /\ run.lockLive
    BY <1>12 DEF LockLapses, RowsType, RunRecord
  <2> QED
    BY <1>12, <2>1, SpentKept DEF LockLapses, KeepsAttempts, Ownership!Lapse
<1>13. ASSUME NEW j \in Jobs, ReconcileExhausted(j)
       PROVE  Ownership!Next
  <2>1. KeepsAttempts /\ run' = Unlock(run, "failed")
    BY <1>13 DEF ReconcileExhausted, SetJob, KeepsAttempts, RowsType, JobRecord
  <2>2. run.lock # NoToken
    BY <1>13, BoundAssumption DEF ReconcileExhausted, NoToken, Jobs
  <2> QED
    BY <1>3, <2>1, <2>2, UnlockVacates
<1>14. ASSUME ReconcileTerminal
       PROVE  UNCHANGED Ownership!vars
  <2>1. KeepsAttempts
    BY <1>14 DEF ReconcileTerminal, KeepsAttempts, RowsType, JobRecord
  <2> QED
    BY <1>4, <1>14, <2>1 DEF ReconcileTerminal
<1>15. ASSUME NEW target \in {"cancelled", "terminated"}, ControlRun(target)
       PROVE  Ownership!Next
  <2>1. KeepsAttempts /\ run' = Unlock(run, target) /\ run.status \notin Terminal
    BY <1>15 DEF ControlRun, KeepsAttempts, RowsType, JobRecord
  <2> QED
    BY <2>1, UnlockVacates, SpentKept DEF Ownership!Stop, Ownership!Final, Terminal, Vacated
<1>16. ASSUME PauseRun
       PROVE  Ownership!Next
  <2>1. KeepsAttempts /\ run' = Unlock(run, "blocked") /\ run.status \in {"queued", "waiting"}
    BY <1>16 DEF PauseRun, KeepsAttempts, RowsType, JobRecord
  <2> QED
    BY <2>1, UnlockVacates, SpentKept DEF Ownership!Block, Vacated
<1>17. ASSUME NEW queue, NEW done, NEW j \in Jobs, FreshJob(j),
              jobs' = [jobs EXCEPT ![j] = ResumeJob(queue, done)]
       PROVE  KeepsAttempts
    BY <1>17 DEF FreshJob, ResumeJob, KeepsAttempts, RowsType, LeaseInv, Blank
<1>18. ASSUME ResumeRun
       PROVE  Ownership!Next
  <2>1. KeepsAttempts
    BY <1>17, <1>18 DEF ResumeRun, KeepsAttempts
  <2>2. run.status = "blocked" /\ run.lock = NoToken /\ run.lockLive = FALSE
    BY <1>18, NobodyOwns DEF ResumeRun, RowsType, RunRecord
  <2>3. \E s \in {"queued", "waiting"} : Vacated(s)
    BY <1>18, <2>2 DEF ResumeRun, RowsType, RunRecord, Vacated
  <2> QED
    BY <2>1, <2>2, <2>3, SpentKept DEF Ownership!Unblock, Vacated
<1>19. ASSUME NEW queue, NEW done, Continue(queue, done), run.status \in {"running", "waiting"}
       PROVE  Ownership!Next
  <2>1. KeepsAttempts
    BY <1>17, <1>19 DEF Continue
  <2>2. Vacated("queued")
    BY <1>19 DEF Continue, Unlock, RowsType, RunRecord, Vacated
  <2> QED
    BY <1>19, <2>1, <2>2, SpentKept DEF Ownership!Wake, Vacated
<1>20. ASSUME NEW t \in Nodes \X Copies,
              ClaimTask(t) \/ ReturnTask(t) \/ CompleteTask(t) \/ RejectTask(t)
       PROVE  Ownership!Next \/ UNCHANGED Ownership!vars
  <2>1. CASE ClaimTask(t) \/ ReturnTask(t)
    BY <1>4, <2>1 DEF ClaimTask, ReturnTask, KeepsAttempts
  <2>2. CASE CompleteTask(t)
    BY <1>19, <2>2 DEF CompleteTask, Actionable
  <2>3. CASE RejectTask(t)
    <3>1. Vacated("cancelled") /\ run.status \notin Terminal
        BY <2>3 DEF RejectTask, Actionable, Terminal, Unlock, RowsType, RunRecord, Vacated
    <3> QED
        BY <2>3, <3>1, SpentKept DEF RejectTask, KeepsAttempts, Ownership!Stop, Ownership!Final,
                                     Terminal, Vacated
  <2> QED
    BY <1>20, <2>1, <2>2, <2>3
<1>21. ASSUME NEW n \in Nodes, TriggerWait(n)
       PROVE  Ownership!Next
    BY <1>19, <1>21 DEF TriggerWait
<1>22. ASSUME UNCHANGED vars
       PROVE  UNCHANGED Ownership!vars
    BY <1>4, <1>22 DEF vars, KeepsAttempts
<1> HIDE DEF Ownership!Next, Ownership!vars, Ownership!Vacate
<1> QED
    BY <1>1, <1>2, <1>7, <1>8, <1>9, <1>10, <1>11, <1>12, <1>13, <1>14, <1>15, <1>16,
       <1>18, <1>20, <1>21, <1>22, DomainOfTasks
    DEF Next, WorkerStep, Reconcile, Person

\* The jobs, queues and workers of WorkflowRun implement the lease-and-lifecycle contract.
THEOREM Refinement == Spec => ImplementsOwnership
<1>1. Init => Ownership!Init
  <2> SUFFICES ASSUME Init PROVE Ownership!Init
    OBVIOUS
  <2>1. \A j \in Jobs : jobs[j].attempt = 0
    BY DEF Init
  <2>2. Spent = {}
    BY <2>1, BoundAssumption DEF Spent, Token
  <2> QED
    BY <2>2 DEF Init, Ownership!Init
<1>2. IInv /\ [Next]_vars => [Ownership!Next]_(Ownership!vars)
    BY Parts, RefineStep
<1> QED
    BY <1>1, <1>2, Invariance, PTL DEF Spec, ImplementsOwnership, Ownership!Spec

-----------------------------------------------------------------------------
(* A run nobody executes is never stranded.                                *)

\* Something a person, a timer or a message can still answer.
Asked == OpenTasks # {} \/ ActiveWaits # {}

\* A job row a worker may take as soon as it polls.
Takeable(j) == jobs[j].status = "queued" /\ jobs[j].attempt < MaxAttempts

\* A paused run has been paused.
PauseSpent == run.status = "blocked" => used.pauses > 0

\* Unless it was paused and resumed, a queued run has a job to take.
QueuedHasJob == run.status = "queued" /\ used.pauses = 0 => \E j \in Jobs : Takeable(j)

\* The owner goes to park only while something is asked, and it stays so.
ParkedOnAsk ==
    \A w \in Workers : wk[w].pc \in {"artifact", "park"} /\ run.lock = wk[w].tok => Asked

WaitingHasAsk == run.status = "waiting" => Asked

StrandInv == PauseSpent /\ QueuedHasJob /\ ParkedOnAsk /\ WaitingHasAsk

\* What is asked is only withdrawn or answered by a step that takes the run.
LEMMA WhoAnswers ==
    ASSUME WorkersType, RowsType, LeaseInv, [Next]_vars, Asked, ~Asked'
    PROVE  run'.lock = NoToken /\ run'.status \notin {"running", "waiting"}
<1>1. ASSUME OpenTasks \subseteq OpenTasks', ActiveWaits \subseteq ActiveWaits'
      PROVE  FALSE
    BY <1>1 DEF Asked
<1>2. ASSUME tasks' = tasks, waits' = waits
      PROVE  FALSE
    BY <1>2 DEF Asked, OpenTasks, ActiveWaits
<1>3. ASSUME NEW s \in RunStatuses \ {"running", "waiting"}, run' = Unlock(run, s)
      PROVE  run'.lock = NoToken /\ run'.status \notin {"running", "waiting"}
    BY <1>3, UnlockVacates DEF Vacated
<1>4. ASSUME NEW w \in Workers,
             \/ WorkerStep(w) \/ RenewLease(w) \/ Crash(w) \/ ThrowError(w)
             \/ \E j \in Jobs : Claim(w, j)
      PROVE  run'.lock = NoToken /\ run'.status \notin {"running", "waiting"}
  <2>1. CASE CreateTask(w)
    <3>1. OpenTasks \subseteq OpenTasks' /\ waits' = waits
        BY <2>1 DEF CreateTask, TaskSlot, OpenTasks, RowsType
    <3> QED
        BY <1>1, <3>1 DEF ActiveWaits
  <2>2. CASE CreateWait(w)
    <3>1. ActiveWaits \subseteq ActiveWaits' /\ tasks' = tasks
        BY <2>2 DEF CreateWait, ActiveWaits, RowsType
    <3> QED
        BY <1>1, <3>1 DEF OpenTasks
  <2>3. CASE FailRun(w)
    BY <1>2, <1>3, <2>3 DEF FailRun, RunStatuses
  <2> QED
    BY <1>2, <1>4, <2>1, <2>2, <2>3
    DEF WorkerStep, LoadRun, OpenNode, CloseSegment, SaveCheckpoint, RunNode, RefuseArtifact,
        Park, Succeed, CompleteJob, RetryJob, FailJob, RenewLease, Crash, ThrowError, Claim
<1>5. ASSUME \/ LockLapses \/ ReconcileTerminal \/ PauseRun \/ ResumeRun \/ UNCHANGED vars
             \/ \E j \in Jobs : LeaseLapses(j)
      PROVE  FALSE
    BY <1>2, <1>5 DEF LockLapses, ReconcileTerminal, PauseRun, ResumeRun, vars, LeaseLapses
<1>6. ASSUME \/ \E j \in Jobs : ReconcileExhausted(j)
             \/ \E target \in {"cancelled", "terminated"} : ControlRun(target)
      PROVE  run'.lock = NoToken /\ run'.status \notin {"running", "waiting"}
    BY <1>3, <1>6 DEF ReconcileExhausted, ControlRun, RunStatuses
<1>7. ASSUME NEW t \in Nodes \X Copies,
             ClaimTask(t) \/ ReturnTask(t) \/ CompleteTask(t) \/ RejectTask(t)
      PROVE  run'.lock = NoToken /\ run'.status \notin {"running", "waiting"}
  <2>1. CASE ClaimTask(t) \/ ReturnTask(t)
    <3>1. OpenTasks' = OpenTasks /\ waits' = waits
        BY <2>1 DEF ClaimTask, ReturnTask, OpenTasks, RowsType
    <3> QED
        BY <1>1, <3>1 DEF ActiveWaits
  <2>2. CASE CompleteTask(t)
    BY <2>2 DEF CompleteTask, Continue, Unlock, RowsType, RunRecord
  <2>3. CASE RejectTask(t)
    BY <2>3 DEF RejectTask, Unlock, RowsType, RunRecord
  <2> QED
    BY <1>7, <2>1, <2>2, <2>3
<1>8. ASSUME NEW n \in Nodes, TriggerWait(n)
      PROVE  run'.lock = NoToken /\ run'.status \notin {"running", "waiting"}
    BY <1>8 DEF TriggerWait, Continue, Unlock, RowsType, RunRecord
<1> QED
    BY <1>4, <1>5, <1>6, <1>7, <1>8, DomainOfTasks DEF Next, Reconcile, Person

\* A worker's memory changes only by its own steps.
LEMMA OwnSteps ==
    ASSUME WorkersType, RowsType, [Next]_vars, NEW v \in Workers
    PROVE  \/ wk'[v] = wk[v]
           \/ WorkerStep(v) \/ Crash(v) \/ ThrowError(v)
           \/ \E j \in Jobs : Claim(v, j)
<1>1. ASSUME NEW w \in Workers, w # v,
             \/ WorkerStep(w) \/ Crash(w) \/ ThrowError(w) \/ \E j \in Jobs : Claim(w, j)
      PROVE  wk'[v] = wk[v]
  <2>1. \E m : Remember(w, m)
    BY <1>1 DEF WorkerStep, LoadRun, OpenNode, CloseSegment, SaveCheckpoint, RunNode, CreateTask,
                CreateWait, RefuseArtifact, Park, Succeed, CompleteJob, RetryJob, FailRun,
                FailJob, Crash, ThrowError, Claim, Goto, Release
  <2> QED
    BY <1>1, <2>1 DEF Remember, WorkersType
<1>2. ASSUME \/ LockLapses \/ Reconcile \/ Person \/ UNCHANGED vars
             \/ \E w \in Workers : RenewLease(w)
             \/ \E j \in Jobs : LeaseLapses(j)
             \/ \E n \in Nodes : TriggerWait(n)
      PROVE  wk' = wk
    BY <1>2 DEF LockLapses, Reconcile, ReconcileTerminal, ReconcileExhausted, Person, ClaimTask,
                ReturnTask, CompleteTask, RejectTask, ControlRun, PauseRun, ResumeRun, vars,
                RenewLease, LeaseLapses, TriggerWait
<1> QED
    BY <1>1, <1>2 DEF Next

\* What moving to another point changes and what it keeps.
LEMMA GotoKeeps ==
    ASSUME WorkersType, NEW w \in Workers, NEW pc \in WorkerPoints, Goto(w, pc)
    PROVE  /\ wk'[w].pc = pc /\ wk'[w].tok = wk[w].tok /\ wk'[w].queue = wk[w].queue
           /\ wk'[w].seen = wk[w].seen /\ wk'[w].done = wk[w].done
BY DEF WorkersType, WorkerMemory, Goto, Remember

\* What beginning, skipping or reusing the head of the queue does to the memory.
LEMMA OpenNodeFacts ==
    ASSUME WorkersType, NEW w \in Workers, OpenNode(w)
    PROVE  LET n == Head(wk[w].queue)
           IN  /\ wk[w].pc = "head" /\ wk[w].queue # <<>>
               /\ wk'[w].tok = wk[w].tok /\ wk'[w].done = wk[w].done
               /\ \/ /\ n \in wk[w].seen
                     /\ wk'[w].pc = "head" /\ wk'[w].queue = Tail(wk[w].queue)
                  \/ /\ Kind[n] = "wait" /\ n \in ActiveWaits
                     /\ wk'[w].pc = "park" /\ wk'[w].queue = wk[w].queue
                  \/ /\ Kind[n] = "operate" /\ \E t \in OpenTasks : t[1] = n
                     /\ wk'[w].pc = "artifact" /\ wk'[w].queue = Tail(wk[w].queue)
                  \/ /\ n \notin wk[w].seen
                     /\ ~(Kind[n] = "wait" /\ n \in ActiveWaits)
                     /\ ~(Kind[n] = "operate" /\ \E t \in OpenTasks : t[1] = n)
                     /\ wk'[w].pc = "enter" /\ wk'[w].queue = wk[w].queue
<1> DEFINE m(pc, q, s) == [wk[w] EXCEPT !.pc = pc, !.queue = q, !.seen = s]
           n == Head(wk[w].queue)
<1>1. wk[w] \in WorkerMemory
    BY DEF WorkersType
<1>2. \A pc, q, s : /\ m(pc, q, s).pc = pc /\ m(pc, q, s).queue = q
                    /\ m(pc, q, s).tok = wk[w].tok /\ m(pc, q, s).done = wk[w].done
    BY <1>1 DEF WorkerMemory
<1>3. \A pc, q, s : Remember(w, m(pc, q, s)) => wk'[w] = m(pc, q, s)
    BY RememberFacts
<1>4. /\ wk[w].pc = "head" /\ wk[w].queue # <<>>
      /\ \/ n \in wk[w].seen /\ Remember(w, m("head", Tail(wk[w].queue), wk[w].seen))
         \/ /\ Kind[n] = "wait" /\ n \in ActiveWaits
            /\ Remember(w, m("park", wk[w].queue, wk[w].seen))
         \/ /\ Kind[n] = "operate" /\ \E t \in OpenTasks : t[1] = n
            /\ Remember(w, m("artifact", Tail(wk[w].queue), wk[w].seen))
         \/ /\ n \notin wk[w].seen
            /\ ~(Kind[n] = "wait" /\ n \in ActiveWaits)
            /\ ~(Kind[n] = "operate" /\ \E t \in OpenTasks : t[1] = n)
            /\ Remember(w, m("enter", wk[w].queue, wk[w].seen \cup {n}))
    BY DEF OpenNode
<1> HIDE DEF m, n
<1> QED
    BY <1>2, <1>3, <1>4 DEF n

\* What running an automatic node does to the memory.
LEMMA RunNodeFacts ==
    ASSUME WorkersType, NEW w \in Workers, RunNode(w)
    PROVE  LET n == Head(wk[w].queue)
           IN  /\ wk[w].pc = "work" /\ Kind[n] \in {"auto", "state", "end"}
               /\ wk'[w].pc = IF Kind[n] = "end" THEN "advanceEnd" ELSE "advance"
               /\ wk'[w].tok = wk[w].tok /\ wk'[w].seen = wk[w].seen
               /\ wk'[w].done = wk[w].done \cup {n}
               /\ \E next \in Routes[n] : wk'[w].queue = Tail(wk[w].queue) \o next
<1> DEFINE n == Head(wk[w].queue)
           pc == IF Kind[n] = "end" THEN "advanceEnd" ELSE "advance"
           d == wk[w].done \cup {n}
<1>1. /\ wk[w].pc = "work" /\ Kind[n] \in {"auto", "state", "end"} /\ wk[w] \in WorkerMemory
      /\ \E next \in Routes[n] :
            Remember(w, [wk[w] EXCEPT !.pc = pc, !.queue = Tail(wk[w].queue) \o next, !.done = d])
    BY DEF RunNode, WorkersType
<1>2. PICK next \in Routes[n] :
          Remember(w, [wk[w] EXCEPT !.pc = pc, !.queue = Tail(wk[w].queue) \o next, !.done = d])
    BY <1>1
<1> DEFINE q == Tail(wk[w].queue) \o next
<1> HIDE DEF pc, d
<1>3. wk'[w] = [wk[w] EXCEPT !.pc = pc, !.queue = q, !.done = d]
    BY <1>2, RememberFacts
<1> HIDE DEF q
<1>4. /\ wk'[w].pc = pc /\ wk'[w].tok = wk[w].tok /\ wk'[w].seen = wk[w].seen
      /\ wk'[w].done = d /\ wk'[w].queue = q
    BY <1>1, <1>3 DEF WorkerMemory
<1> QED
    BY <1>1, <1>4 DEF pc, d, q

\* What creating a task or a wait does to the memory.
LEMMA CreateFacts ==
    ASSUME WorkersType, NEW w \in Workers, CreateTask(w) \/ CreateWait(w)
    PROVE  /\ wk[w].pc = "work" /\ wk'[w].pc = "artifact"
           /\ wk'[w].queue = Tail(wk[w].queue)
           /\ wk'[w].tok = wk[w].tok /\ wk'[w].seen = wk[w].seen /\ wk'[w].done = wk[w].done
<1>1. /\ wk[w] \in WorkerMemory /\ wk[w].pc = "work"
      /\ wk'[w] = [wk[w] EXCEPT !.pc = "artifact", !.queue = Tail(@)]
    BY RememberFacts DEF CreateTask, CreateWait, WorkersType
<1> QED
    BY <1>1 DEF WorkerMemory

\* What a claim does to the memory.
LEMMA ClaimFacts ==
    ASSUME WorkersType, NEW w \in Workers, NEW j \in Jobs, Claim(w, j)
    PROVE  /\ wk[w].pc = "idle" /\ wk'[w].pc = "load"
           /\ wk'[w].tok = <<j, jobs[j].attempt + 1>>
           /\ wk'[w].queue = jobs[j].queue /\ wk'[w].seen = {} /\ wk'[w].done = jobs[j].done
BY RememberFacts DEF Claim

\* Every other step of a worker goes to another point or to rest.
LEMMA OtherMoves ==
    ASSUME WorkersType, NEW w \in Workers
    PROVE  /\ LoadRun(w) => \E pc \in {"head", "failing"} : Goto(w, pc) /\ wk[w].pc = "load"
           /\ CloseSegment(w) =>
                /\ wk[w].pc = "head" /\ wk[w].queue = <<>>
                /\ \/ Asked /\ Goto(w, "park")
                   \/ ~Asked /\ endRuns # {} /\ Goto(w, "final")
                   \/ ~Asked /\ endRuns = {} /\ Goto(w, "failing")
           /\ SaveCheckpoint(w) =>
                /\ wk[w].pc \in DOMAIN AfterCheckpoint
                /\ \/ Fenced(wk[w].tok) /\ Goto(w, AfterCheckpoint[wk[w].pc])
                   \/ ~Fenced(wk[w].tok) /\ Goto(w, "failing")
           /\ RefuseArtifact(w) => wk[w].pc = "work" /\ Goto(w, "failing")
           /\ ThrowError(w) => wk[w].pc \in Executing /\ Goto(w, "failing")
           /\ Park(w) => wk[w].pc = "park" /\ \E pc \in {"complete", "failing"} : Goto(w, pc)
           /\ Succeed(w) => wk[w].pc = "succeed" /\ \E pc \in {"complete", "failing"} : Goto(w, pc)
           /\ CompleteJob(w) => wk[w].pc = "complete" /\ (Release(w) \/ Goto(w, "failing"))
           /\ RetryJob(w) => wk[w].pc = "failing" /\ Release(w)
           /\ FailRun(w) => wk[w].pc = "failing" /\ Goto(w, "failJob")
           /\ FailJob(w) => wk[w].pc = "failJob" /\ Release(w)
           /\ Crash(w) => wk[w].pc # "idle" /\ Release(w)
<1>1. CloseSegment(w) =>
          /\ wk[w].pc = "head" /\ wk[w].queue = <<>>
          /\ \/ Asked /\ Goto(w, "park")
             \/ ~Asked /\ endRuns # {} /\ Goto(w, "final")
             \/ ~Asked /\ endRuns = {} /\ Goto(w, "failing")
    BY DEF CloseSegment, Asked
<1>2. SaveCheckpoint(w) =>
          /\ wk[w].pc \in DOMAIN AfterCheckpoint
          /\ \/ Fenced(wk[w].tok) /\ Goto(w, AfterCheckpoint[wk[w].pc])
             \/ ~Fenced(wk[w].tok) /\ Goto(w, "failing")
    BY DEF SaveCheckpoint
<1> QED
    BY <1>1, <1>2
    DEF LoadRun, RefuseArtifact, ThrowError, Park, Succeed, CompleteJob, RetryJob, FailRun,
        FailJob, Crash

\* A worker gets to where it parks from there, or from a step that sees something asked.
LEMMA WhoParks ==
    ASSUME WorkersType, RowsType, [Next]_vars,
           NEW v \in Workers, wk'[v].pc \in {"artifact", "park"}
    PROVE  /\ wk[v].pc # "idle" /\ wk'[v].tok = wk[v].tok
           /\ wk[v].pc \in {"artifact", "park"} \/ Asked \/ Asked'
<1> wk[v].pc \in {"artifact", "park"} => wk[v].pc # "idle"
    OBVIOUS
<1>1. CASE wk'[v] = wk[v]
    BY <1>1
<1>2. CASE OpenNode(v)
    BY <1>2, OpenNodeFacts DEF Asked
<1>3. CASE RunNode(v)
    BY <1>3, RunNodeFacts
<1>4. CASE CreateTask(v)
  <2>1. OpenTasks' # {}
    BY <1>4, QueueTypes DEF CreateTask, OpenTasks, RowsType, WorkersType, HasHead, WorkerMemory
  <2> QED
    BY <1>4, <2>1, CreateFacts DEF Asked
<1>5. CASE CreateWait(v)
  <2>1. ActiveWaits' # {}
    BY <1>5, QueueTypes DEF CreateWait, ActiveWaits, RowsType, WorkersType, HasHead, WorkerMemory
  <2> QED
    BY <1>5, <2>1, CreateFacts DEF Asked
<1>6. CASE \E j \in Jobs : Claim(v, j)
    BY <1>6, ClaimFacts
<1>7. CASE SaveCheckpoint(v)
    BY <1>7, OtherMoves, GotoKeeps DEF AfterCheckpoint, WorkerPoints, Executing
<1>8. CASE CloseSegment(v)
    BY <1>8, OtherMoves, GotoKeeps DEF WorkerPoints, Executing
<1>9. CASE \/ LoadRun(v) \/ RefuseArtifact(v) \/ ThrowError(v) \/ Park(v) \/ Succeed(v)
           \/ CompleteJob(v) \/ RetryJob(v) \/ FailRun(v) \/ FailJob(v) \/ Crash(v)
    BY <1>9, OtherMoves, GotoKeeps, ReleaseFacts DEF WorkerPoints, Executing
<1> QED
    BY <1>1, <1>2, <1>3, <1>4, <1>5, <1>6, <1>7, <1>8, <1>9, OwnSteps DEF WorkerStep

\* Nothing but a pause raises the count of pauses, and nothing lowers it.
LEMMA PausesGrow ==
    ASSUME RowsType, [Next]_vars
    PROVE  \/ used'.pauses = used.pauses
           \/ PauseRun /\ used'.pauses = used.pauses + 1
<1>1. CASE PauseRun
    BY <1>1 DEF PauseRun, RowsType
<1>2. CASE \E w \in Workers : ThrowError(w) \/ Crash(w)
    BY <1>2 DEF ThrowError, Crash, RowsType
<1>3. CASE \E j \in Jobs : LeaseLapses(j)
    BY <1>3 DEF LeaseLapses, RowsType
<1>4. CASE used' = used
    BY <1>4
<1> QED
    BY <1>1, <1>2, <1>3, <1>4
    DEF Next, WorkerStep, LoadRun, OpenNode, CloseSegment, SaveCheckpoint, RunNode, CreateTask,
        CreateWait, RefuseArtifact, Park, Succeed, CompleteJob, RetryJob, FailRun, FailJob,
        RenewLease, Claim, LockLapses, Reconcile, ReconcileTerminal, ReconcileExhausted, Person,
        ClaimTask, ReturnTask, CompleteTask, RejectTask, ControlRun, ResumeRun, TriggerWait, vars

\* Every step leaves the run's status and the jobs to take alone, ends or starts the run,
\* parks it, queues it with a job, pauses it or resumes it.
LEMMA WhoRests ==
    ASSUME WorkersType, RowsType, LeaseInv, [Next]_vars
    PROVE  \/ /\ run'.status = run.status
              /\ \A j \in Jobs : jobs[j].status = "queued" => jobs'[j] = jobs[j]
           \/ run'.status \in Terminal \cup {"running"}
           \/ \E w \in Workers : Park(w) /\ run.lock = wk[w].tok /\ run.status = "running"
           \/ run'.status = "queued" /\ \E j \in Jobs : Takeable(j)'
           \/ PauseRun
           \/ ResumeRun
<1> DEFINE Kept == /\ run'.status = run.status
                   /\ \A j \in Jobs : jobs[j].status = "queued" => jobs'[j] = jobs[j]
<1>1. ASSUME run'.status = run.status, jobs' = jobs
      PROVE  Kept
    BY <1>1
<1>2. ASSUME NEW tok, NEW status, SetJob(tok, status), run'.status = run.status
      PROVE  Kept
    BY <1>2 DEF SetJob, LeaseHeld, RowsType
<1>3. ASSUME NEW s \in RunStatuses, run' = Unlock(run, s)
      PROVE  run'.status = s
    BY <1>3, UnlockVacates DEF Vacated
<1>4. ASSUME NEW j \in Jobs, jobs[j].status = "leased",
             \A i \in Jobs : i # j => jobs'[i] = jobs[i], run'.status = run.status
      PROVE  Kept
    BY <1>4
<1>5. ASSUME NEW w \in Workers, RetryJob(w)
      PROVE  Kept \/ (run'.status = "queued" /\ \E j \in Jobs : Takeable(j)')
  <2> DEFINE tok == wk[w].tok
  <2>1. tok \in Token /\ tok[1] \in Jobs /\ tok[2] < MaxAttempts
    BY <1>5, ConstantTypes DEF RetryJob, WorkersType
  <2>2. CASE run.lock = tok /\ LeaseHeld(tok)
    <3>1. run'.status = "queued"
        BY <1>3, <1>5, <2>2 DEF RetryJob, RunStatuses
    <3>2. jobs' = [jobs EXCEPT ![tok[1]].status = "queued"] /\ jobs[tok[1]].attempt = tok[2]
        BY <1>5, <2>2 DEF RetryJob, SetJob, LeaseHeld
    <3>3. jobs'[tok[1]].status = "queued" /\ jobs'[tok[1]].attempt = jobs[tok[1]].attempt
        BY <2>1, <3>2 DEF RowsType, JobRecord
    <3> QED
        BY <2>1, <3>1, <3>2, <3>3 DEF Takeable
  <2>3. CASE ~(run.lock = tok /\ LeaseHeld(tok))
    <3>1. run' = run /\ \E status \in JobStatuses : SetJob(tok, status)
        BY <1>5, <2>3 DEF RetryJob, JobStatuses
    <3> QED
        BY <1>2, <3>1
  <2> QED
    BY <2>2, <2>3
<1>6. ASSUME NEW w \in Workers, CompleteJob(w) \/ FailJob(w)
      PROVE  Kept
  <2>1. run' = run /\ \E status \in JobStatuses : SetJob(wk[w].tok, status)
    BY <1>6 DEF CompleteJob, FailJob, LeaseInv, Released, JobStatuses
  <2> QED
    BY <1>2, <2>1
<1>7. ASSUME NEW w \in Workers, Park(w) \/ Succeed(w) \/ FailRun(w)
      PROVE  \/ Kept \/ run'.status \in Terminal
             \/ Park(w) /\ run.lock = wk[w].tok /\ run.status = "running"
    BY <1>1, <1>3, <1>7 DEF Park, Succeed, FailRun, RunStatuses, Terminal
<1>8. ASSUME NEW w \in Workers, SaveCheckpoint(w)
      PROVE  Kept \/ run'.status = "running"
    BY <1>1, <1>8, SegmentRows DEF SaveCheckpoint, Fenced
<1>9. ASSUME NEW w \in Workers, NEW j \in Jobs, Claim(w, j)
      PROVE  run'.status = "running"
    BY <1>9 DEF Claim, RowsType, RunRecord
<1>10. ASSUME NEW w \in Workers,
              \/ LoadRun(w) \/ OpenNode(w) \/ CloseSegment(w) \/ RunNode(w) \/ CreateTask(w)
              \/ CreateWait(w) \/ RefuseArtifact(w) \/ ThrowError(w) \/ Crash(w)
       PROVE  Kept
    BY <1>1, <1>10 DEF LoadRun, OpenNode, CloseSegment, RunNode, CreateTask, CreateWait,
                       RefuseArtifact, ThrowError, Crash
<1>11. ASSUME NEW w \in Workers, RenewLease(w)
       PROVE  Kept
  <2>1. wk[w].tok[1] \in Jobs /\ jobs[wk[w].tok[1]].status = "leased"
    BY <1>11, ConstantTypes DEF RenewLease, WorkersType, LeaseHeld
  <2>2. run'.status = run.status /\ \A i \in Jobs : i # wk[w].tok[1] => jobs'[i] = jobs[i]
    BY <1>11 DEF RenewLease, RowsType, RunRecord
  <2> QED
    BY <1>4, <2>1, <2>2
<1>12. ASSUME NEW j \in Jobs, LeaseLapses(j)
       PROVE  Kept
  <2>1. jobs[j].status = "leased" /\ run' = run /\ \A i \in Jobs : i # j => jobs'[i] = jobs[i]
    BY <1>12 DEF LeaseLapses, RowsType
  <2> QED
    BY <1>4, <2>1
<1>13. ASSUME \/ LockLapses \/ UNCHANGED vars
              \/ \E t \in Nodes \X Copies : ClaimTask(t) \/ ReturnTask(t)
       PROVE  Kept
  <2>1. run'.status = run.status /\ jobs' = jobs
    BY <1>13 DEF LockLapses, vars, ClaimTask, ReturnTask, RowsType, RunRecord
  <2> QED
    BY <1>1, <2>1
<1>14. ASSUME \/ \E j \in Jobs : ReconcileExhausted(j)
              \/ \E target \in {"cancelled", "terminated"} : ControlRun(target)
       PROVE  run'.status \in Terminal
    BY <1>3, <1>14 DEF ReconcileExhausted, ControlRun, RunStatuses, Terminal
<1>15. ASSUME ReconcileTerminal
       PROVE  run'.status \in Terminal
    BY <1>15 DEF ReconcileTerminal
<1>16. ASSUME NEW t \in Nodes \X Copies, RejectTask(t)
       PROVE  run'.status \in Terminal
    BY <1>16 DEF RejectTask, Unlock, RowsType, RunRecord, Terminal
<1>17. ASSUME NEW queue, NEW done, Continue(queue, done)
       PROVE  run'.status = "queued" /\ \E j \in Jobs : Takeable(j)'
  <2>1. run'.status = "queued"
    BY <1>17 DEF Continue, Unlock, RowsType, RunRecord
  <2>2. PICK j \in Jobs : jobs' = [jobs EXCEPT ![j] = ResumeJob(queue, done)]
    BY <1>17 DEF Continue
  <2>3. jobs'[j].status = "queued" /\ jobs'[j].attempt = 0
    BY <2>2 DEF ResumeJob, RowsType
  <2> QED
    BY <2>1, <2>3, BoundAssumption DEF Takeable
<1>18. ASSUME \/ \E t \in Nodes \X Copies : CompleteTask(t)
              \/ \E n \in Nodes : TriggerWait(n)
       PROVE  run'.status = "queued" /\ \E j \in Jobs : Takeable(j)'
    BY <1>17, <1>18 DEF CompleteTask, TriggerWait
<1> HIDE DEF Kept
<1>19. \/ Kept
       \/ run'.status \in Terminal \cup {"running"}
       \/ \E w \in Workers : Park(w) /\ run.lock = wk[w].tok /\ run.status = "running"
       \/ run'.status = "queued" /\ \E j \in Jobs : Takeable(j)'
       \/ PauseRun
       \/ ResumeRun
    BY <1>5, <1>6, <1>7, <1>8, <1>9, <1>10, <1>11, <1>12, <1>13, <1>14, <1>15, <1>16, <1>18,
       DomainOfTasks
    DEF Next, WorkerStep, Reconcile, Person
<1> QED
    BY <1>19 DEF Kept

\* Every step keeps the invariant that no run is stranded.
LEMMA StrandStep ==
    ASSUME IInv, StrandInv, [Next]_vars
    PROVE  StrandInv'
<1>1. WorkersType /\ RowsType /\ LeaseInv /\ LeaseInv' /\ WorkersType' /\ RowsType'
    <2>1. IInv'
        BY InvariantStep
    <2> QED
        BY <2>1, TypeParts, TypeStep, Parts DEF IInv, TypeOK, WorkersType, RowsType
<1>2. run'.status \in {"running", "waiting"} /\ Asked => Asked'
    BY <1>1, WhoAnswers
<1>3. used'.pauses = used.pauses \/ (PauseRun /\ used'.pauses = used.pauses + 1)
    BY <1>1, PausesGrow
<1>4. used.pauses \in Nat /\ used'.pauses \in Nat
    BY <1>1 DEF RowsType
<1>5. PauseRun => run'.status = "blocked" /\ used'.pauses > 0
  <2>1. PauseRun => run'.status = "blocked"
    BY <1>1, UnlockVacates DEF PauseRun, Vacated
  <2>2. PauseRun => used'.pauses = used.pauses + 1
    BY <1>1 DEF PauseRun, RowsType
  <2> QED
    BY <1>4, <2>1, <2>2
<1>6. ResumeRun =>
        /\ run.status = "blocked" /\ used'.pauses > 0
        /\ run'.status \in {"queued", "waiting"} /\ (run'.status = "waiting" => Asked')
  <2> SUFFICES ASSUME ResumeRun
               PROVE  /\ run.status = "blocked" /\ used'.pauses > 0
                      /\ run'.status \in {"queued", "waiting"}
                      /\ (run'.status = "waiting" => Asked')
    OBVIOUS
  <2>1. run.status = "blocked" /\ used' = used /\ tasks' = tasks /\ waits' = waits
    BY DEF ResumeRun
  <2>2. \/ Asked /\ run'.status = "waiting"
        \/ run'.status = "queued"
    BY <1>1 DEF ResumeRun, Asked, RowsType, RunRecord
  <2>3. Asked' <=> Asked
    BY <2>1 DEF Asked, OpenTasks, ActiveWaits
  <2> QED
    BY <2>1, <2>2, <2>3 DEF StrandInv, PauseSpent
<1>7. \A w \in Workers : Park(w) /\ run.lock = wk[w].tok /\ run.status = "running" =>
          run'.status = "waiting" /\ Asked'
  <2> SUFFICES ASSUME NEW w \in Workers,
                      Park(w), run.lock = wk[w].tok, run.status = "running"
               PROVE  run'.status = "waiting" /\ Asked'
    OBVIOUS
  <2>1. run'.status = "waiting"
    BY <1>1, UnlockVacates DEF Park, Vacated
  <2>2. Asked
    BY DEF Park, StrandInv, ParkedOnAsk
  <2> QED
    BY <1>2, <2>1, <2>2
<1>8. PauseSpent'
  <2> SUFFICES ASSUME run'.status = "blocked" PROVE used'.pauses > 0
    BY DEF PauseSpent
  <2>1. CASE run'.status = run.status
    BY <1>3, <1>4, <2>1 DEF StrandInv, PauseSpent
  <2> QED
    BY <1>1, <1>5, <1>6, <1>7, <2>1, WhoRests DEF Terminal
<1>9. QueuedHasJob'
  <2> SUFFICES ASSUME run'.status = "queued", used'.pauses = 0
               PROVE  \E j \in Jobs : Takeable(j)'
    BY DEF QueuedHasJob
  <2>1. used.pauses = 0
    BY <1>3, <1>4
  <2>2. CASE /\ run'.status = run.status
             /\ \A j \in Jobs : jobs[j].status = "queued" => jobs'[j] = jobs[j]
    BY <2>1, <2>2 DEF StrandInv, QueuedHasJob, Takeable
  <2> QED
    BY <1>1, <1>5, <1>6, <1>7, <2>2, WhoRests DEF Terminal
<1>10. WaitingHasAsk'
  <2> SUFFICES ASSUME run'.status = "waiting" PROVE Asked'
    BY DEF WaitingHasAsk
  <2>1. CASE run'.status = run.status
    BY <1>2, <2>1 DEF StrandInv, WaitingHasAsk
  <2> QED
    BY <1>1, <1>5, <1>6, <1>7, <2>1, WhoRests DEF Terminal
<1>11. ParkedOnAsk'
  <2> SUFFICES ASSUME NEW v \in Workers, wk'[v].pc \in {"artifact", "park"},
                      run'.lock = wk'[v].tok
               PROVE  Asked'
    BY DEF ParkedOnAsk
  <2>1. /\ wk[v].pc # "idle" /\ wk'[v].tok = wk[v].tok
        /\ wk[v].pc \in {"artifact", "park"} \/ Asked \/ Asked'
    BY <1>1, WhoParks
  <2>2. run'.lock # NoToken /\ run'.status = "running"
    BY <1>1, <2>1, ConstantTypes DEF WorkersType, LeaseInv, LockOwnership
  <2>3. run'.lock = run.lock
    <3>1. CASE \E w \in Workers, j \in Jobs : Claim(w, j)
      <4>1. PICK w \in Workers, j \in Jobs : Claim(w, j)
        BY <3>1
      <4>2. wk'[w].pc = "load" /\ run'.lock = wk'[w].tok
        BY <1>1, <4>1, ClaimFacts DEF Claim, RowsType, RunRecord
      <4> QED
        BY <1>1, <4>2 DEF LeaseInv, TokensUnique
    <3> QED
        BY <1>1, <2>2, <3>1, WhoLocks
  <2> QED
    BY <1>2, <2>1, <2>2, <2>3 DEF StrandInv, ParkedOnAsk
<1> QED
    BY <1>8, <1>9, <1>10, <1>11 DEF StrandInv

\* The invariant of a run that is not stranded holds in every reachable state.
THEOREM StrandInvariant == Spec => []StrandInv
<1>1. Init => StrandInv
  <2> SUFFICES ASSUME Init PROVE StrandInv
    OBVIOUS
  <2>1. run.status = "queued" /\ \A w \in Workers : wk[w].pc = "idle"
    BY DEF Init, IdleWorker
  <2>2. 1 \in Jobs /\ jobs[1].status = "queued" /\ jobs[1].attempt = 0
    BY BoundAssumption DEF Init, Jobs
  <2>3. Takeable(1)
    BY <2>2, BoundAssumption DEF Takeable
  <2> QED
    BY <2>1, <2>2, <2>3 DEF StrandInv, PauseSpent, QueuedHasJob, ParkedOnAsk, WaitingHasAsk
<1>2. IInv /\ StrandInv /\ [Next]_vars => StrandInv'
    BY StrandStep
<1> QED
    BY <1>1, <1>2, Invariance, PTL DEF Spec

\* Whatever crashes, stalls and exceptions happen, a run that was never paused is never
\* stranded: queued it has a job to take, waiting it has something to be answered.
THEOREM NobodyStranded == Spec => [](used.pauses = 0 => NeverStranded)
<1>1. StrandInv => (used.pauses = 0 => NeverStranded)
    BY DEF StrandInv, QueuedHasJob, WaitingHasAsk, NeverStranded, Startable, Takeable, Outstanding,
           Asked
<1> QED
    BY <1>1, StrandInvariant, PTL

-----------------------------------------------------------------------------
(* Custody: without crashes and stalls a leased job is in somebody's hands. *)

\* No worker has died and no lease has lapsed under a worker still running.
NoLoss == used.crashes = 0 /\ used.stalls = 0

\* The worker the run's lock names.
Owns(w) == wk[w].pc # "idle" /\ run.lock = wk[w].tok

\* A leased job is unexpired and its token is in the memory of a worker at work.
LeasesHeld ==
    \A j \in Jobs : jobs[j].status = "leased" =>
        /\ jobs[j].live
        /\ \E w \in Workers : wk[w].pc # "idle" /\ wk[w].tok = <<j, jobs[j].attempt>>

LockAlive == run.lock # NoToken => run.lockLive

\* A run that is not over and has a queued job is queued, with that job alone and at that
\* job's checkpoint.
QueuedOnce ==
    \A j \in Jobs : jobs[j].status = "queued" /\ run.status \notin Terminal =>
        /\ run.status = "queued"
        /\ jobs[j].queue = run.queue /\ jobs[j].done = run.done
        /\ \A i \in Jobs : jobs[i].status = "queued" => i = j

\* The owner's job row and the run row are at the same checkpoint ...
SameCheckpoint ==
    run.lock # NoToken =>
        jobs[run.lock[1]].queue = run.queue /\ jobs[run.lock[1]].done = run.done

\* ... which the owner's memory never falls behind.
OwnerAhead == \A w \in Workers : Owns(w) => run.done \subseteq wk[w].done

\* Inside a node, the owner's memory is the checkpoint.
OwnerInNode ==
    \A w \in Workers : Owns(w) /\ wk[w].pc = "work" =>
        run.queue = wk[w].queue /\ run.done = wk[w].done

Custody == LeasesHeld /\ LockAlive /\ QueuedOnce /\ SameCheckpoint /\ OwnerAhead /\ OwnerInNode

\* Nothing undoes a crash or a stall.
LEMMA LossesStay ==
    ASSUME RowsType, [Next]_vars, NoLoss'
    PROVE  /\ NoLoss
           /\ \A w \in Workers : ~Crash(w)
           /\ \A j \in Jobs : LeaseLapses(j) =>
                 ~\E w \in Workers : wk[w].tok = <<j, jobs[j].attempt>>
<1>0. used \in [crashes : Nat, stalls : Nat, errors : Nat, pauses : Nat]
    BY DEF RowsType
<1>1. ASSUME NEW w \in Workers, Crash(w) PROVE FALSE
  <2>1. used'.crashes = used.crashes + 1
    BY <1>0, <1>1 DEF Crash
  <2> QED
    BY <1>0, <2>1 DEF NoLoss
<1>2. ASSUME NEW w \in Workers, ThrowError(w) PROVE NoLoss
    BY <1>0, <1>2 DEF ThrowError, NoLoss
<1>3. ASSUME NEW j \in Jobs, LeaseLapses(j)
      PROVE  NoLoss /\ ~\E w \in Workers : wk[w].tok = <<j, jobs[j].attempt>>
  <2> DEFINE held == \E w \in Workers : wk[w].tok = <<j, jobs[j].attempt>>
  <2>1. used' = IF held THEN [used EXCEPT !.stalls = @ + 1] ELSE used
    BY <1>3 DEF LeaseLapses
  <2> HIDE DEF held
  <2>2. CASE held
    <3>1. used'.stalls = used.stalls + 1
        BY <1>0, <2>1, <2>2
    <3> QED
        BY <1>0, <3>1 DEF NoLoss
  <2>3. CASE ~held
    BY <2>1, <2>3 DEF NoLoss, held
  <2> QED
    BY <2>2, <2>3
<1>4. PauseRun => NoLoss
    BY <1>0 DEF PauseRun, NoLoss
<1>5. used' = used => NoLoss
    BY DEF NoLoss
<1>6. NoLoss
    BY <1>1, <1>2, <1>3, <1>4, <1>5
    DEF Next, WorkerStep, LoadRun, OpenNode, CloseSegment, SaveCheckpoint, RunNode, CreateTask,
        CreateWait, RefuseArtifact, Park, Succeed, CompleteJob, RetryJob, FailRun, FailJob,
        RenewLease, Claim, LockLapses, Reconcile, ReconcileTerminal, ReconcileExhausted, Person,
        ClaimTask, ReturnTask, CompleteTask, RejectTask, ControlRun, ResumeRun, TriggerWait, vars
<1> QED
    BY <1>1, <1>3, <1>6

\* With custody no lease lapses, so nothing is reconciled as exhausted.
LEMMA NothingLapses ==
    ASSUME WorkersType, RowsType, LeaseInv, Custody, [Next]_vars, NoLoss'
    PROVE  /\ \A w \in Workers : ~Crash(w)
           /\ \A j \in Jobs : ~LeaseLapses(j) /\ ~ReconcileExhausted(j)
           /\ ~LockLapses
<1>1. \A j \in Jobs : ~LeaseLapses(j)
    BY LossesStay DEF Custody, LeasesHeld, LeaseLapses
<1>2. ~LockLapses
    BY ConstantTypes DEF LockLapses, Custody, LeasesHeld, LeaseInv, LockOwnership, LeaseHeld,
                         RowsType, RunRecord
<1>3. \A j \in Jobs : ~ReconcileExhausted(j)
    BY DEF ReconcileExhausted, Custody, LeasesHeld
<1> QED
    BY <1>1, <1>2, <1>3, LossesStay

\* A step inside the segment that writes neither the run nor its jobs.
Inward(w) ==
    /\ run' = run /\ jobs' = jobs
    /\ wk[w].pc # "idle" /\ wk'[w].pc \notin {"idle", "work"}
    /\ wk'[w].tok = wk[w].tok /\ wk[w].done \subseteq wk'[w].done
    /\ \A v \in Workers \ {w} : wk'[v] = wk[v]

\* Such a step keeps custody.
LEMMA CustodyInward ==
    ASSUME Custody, NEW w \in Workers, Inward(w)
    PROVE  Custody'
<1>1. LeasesHeld'
  <2>1. \A v \in Workers : wk[v].pc # "idle" => wk'[v].pc # "idle" /\ wk'[v].tok = wk[v].tok
    BY DEF Inward
  <2> QED
    BY <2>1 DEF Inward, Custody, LeasesHeld
<1>2. LockAlive' /\ QueuedOnce' /\ SameCheckpoint'
    BY DEF Inward, Custody, LockAlive, QueuedOnce, SameCheckpoint
<1>3. OwnerAhead' /\ OwnerInNode'
    BY DEF Inward, Custody, OwnerAhead, OwnerInNode, Owns
<1> QED
    BY <1>1, <1>2, <1>3 DEF Custody

\* These steps go inward.
LEMMA WhoGoesInward ==
    ASSUME WorkersType, RowsType, NEW w \in Workers,
           \/ LoadRun(w) \/ OpenNode(w) \/ CloseSegment(w) \/ RunNode(w) \/ CreateTask(w)
           \/ CreateWait(w) \/ RefuseArtifact(w) \/ ThrowError(w)
           \/ SaveCheckpoint(w) /\ ~Fenced(wk[w].tok)
           \/ Park(w) /\ ~(run.lock = wk[w].tok /\ run.status = "running")
           \/ (Succeed(w) \/ FailRun(w)) /\ run.lock # wk[w].tok
    PROVE  Inward(w)
<1>1. \A v \in Workers \ {w} : wk'[v] = wk[v]
  <2>1. \E m : Remember(w, m)
    BY DEF LoadRun, OpenNode, CloseSegment, SaveCheckpoint, RunNode, CreateTask, CreateWait,
           RefuseArtifact, Park, Succeed, FailRun, ThrowError, Goto
  <2> QED
    BY <2>1 DEF Remember, WorkersType
<1>2. run' = run /\ jobs' = jobs
    BY DEF LoadRun, OpenNode, CloseSegment, SaveCheckpoint, RunNode, CreateTask, CreateWait,
           RefuseArtifact, Park, Succeed, FailRun, ThrowError
<1>3. CASE OpenNode(w)
    BY <1>1, <1>2, <1>3, OpenNodeFacts DEF Inward
<1>4. CASE RunNode(w)
  <2>1. wk'[w].pc \in {"advance", "advanceEnd"}
    BY <1>4, RunNodeFacts
  <2>2. wk[w].pc = "work" /\ wk'[w].tok = wk[w].tok /\ wk[w].done \subseteq wk'[w].done
    BY <1>4, RunNodeFacts
  <2> QED
    BY <1>1, <1>2, <2>1, <2>2 DEF Inward
<1>5. CASE CreateTask(w) \/ CreateWait(w)
    BY <1>1, <1>2, <1>5, CreateFacts DEF Inward
<1>6. ASSUME wk[w].pc # "idle",
             \E pc \in {"head", "failing", "park", "final", "failJob"} : Goto(w, pc)
      PROVE  Inward(w)
  <2>1. PICK pc \in {"head", "failing", "park", "final", "failJob"} : Goto(w, pc)
    BY <1>6
  <2>2. pc \in WorkerPoints
    BY DEF WorkerPoints, Executing
  <2> QED
    BY <1>1, <1>2, <1>6, <2>1, <2>2, GotoKeeps DEF Inward
<1>7. CASE LoadRun(w) \/ CloseSegment(w) \/ RefuseArtifact(w) \/ ThrowError(w)
    BY <1>6, <1>7, OtherMoves DEF Executing
<1>8. CASE SaveCheckpoint(w) /\ ~Fenced(wk[w].tok)
    BY <1>6, <1>8 DEF SaveCheckpoint, AfterCheckpoint
<1>9. CASE Park(w) /\ ~(run.lock = wk[w].tok /\ run.status = "running")
    BY <1>6, <1>9 DEF Park
<1>10. CASE (Succeed(w) \/ FailRun(w)) /\ run.lock # wk[w].tok
    BY <1>6, <1>10 DEF Succeed, FailRun
<1> QED
    BY <1>3, <1>4, <1>5, <1>7, <1>8, <1>9, <1>10

\* When the run has no owner afterwards and no worker moves, the rows decide.
LEMMA CustodyVacated ==
    ASSUME WorkersType, Custody, wk' = wk, run'.lock = NoToken, LeasesHeld', QueuedOnce'
    PROVE  Custody'
<1>1. \A w \in Workers : ~Owns(w)'
    BY ConstantTypes DEF Owns, WorkersType
<1> QED
    BY <1>1 DEF Custody, LockAlive, SameCheckpoint, OwnerAhead, OwnerInNode

\* Leases that are left alone or ended stay in somebody's hands.
LEMMA LeasesStay ==
    ASSUME LeasesHeld, wk' = wk,
           \A j \in Jobs : jobs'[j].status = "leased" =>
               /\ jobs[j].status = "leased" /\ jobs'[j].attempt = jobs[j].attempt
               /\ jobs[j].live => jobs'[j].live
    PROVE  LeasesHeld'
BY DEF LeasesHeld

\* The owner gives the run up and goes on: parked, succeeded or failed.
LEMMA CustodyReleased ==
    ASSUME WorkersType, RowsType, LeaseInv, Custody, NEW w \in Workers,
           \/ Park(w) /\ run.lock = wk[w].tok /\ run.status = "running"
           \/ (Succeed(w) \/ FailRun(w)) /\ run.lock = wk[w].tok
    PROVE  Custody'
<1>1. wk[w].pc # "idle" /\ jobs' = jobs /\ run.lock = wk[w].tok
    BY DEF Park, Succeed, FailRun
<1>2. run.status = "running"
    BY <1>1, ConstantTypes DEF LeaseInv, LockOwnership, WorkersType
<1>3. run'.lock = NoToken
    BY <1>1, <1>2, UnlockVacates DEF Park, Succeed, FailRun, Vacated
<1>4. \E pc \in {"complete", "failJob"} : Goto(w, pc)
    BY <1>1, <1>2 DEF Park, Succeed, FailRun
<1>5. wk'[w].pc # "idle" /\ wk'[w].tok = wk[w].tok /\ \A v \in Workers \ {w} : wk'[v] = wk[v]
    BY <1>4, GotoFacts DEF WorkerPoints, Executing
<1>6. \A j \in Jobs : jobs[j].status # "queued"
    BY <1>2 DEF Custody, QueuedOnce, Terminal
<1>7. LeasesHeld'
  <2>1. \A v \in Workers : wk[v].pc # "idle" => wk'[v].pc # "idle" /\ wk'[v].tok = wk[v].tok
    BY <1>5
  <2> QED
    BY <1>1, <2>1 DEF Custody, LeasesHeld
<1>8. QueuedOnce'
    BY <1>1, <1>6 DEF QueuedOnce
<1>9. \A v \in Workers : ~Owns(v)'
  <2> SUFFICES ASSUME NEW v \in Workers, wk'[v].pc # "idle" PROVE wk'[v].tok # NoToken
    BY <1>3 DEF Owns
  <2>1. wk[v].pc # "idle" /\ wk'[v].tok = wk[v].tok
    BY <1>1, <1>5
  <2> QED
    BY <2>1, ConstantTypes DEF WorkersType
<1> QED
    BY <1>3, <1>7, <1>8, <1>9 DEF Custody, LockAlive, SameCheckpoint, OwnerAhead, OwnerInNode

\* A worker that does not own the run ends its lease, if it still has it, and rests.
LEMMA CustodyRetired ==
    ASSUME WorkersType, RowsType, LeaseInv, Custody, NEW w \in Workers, wk[w].pc # "idle",
           NEW status \in {"completed", "failed", "cancelled"}, SetJob(wk[w].tok, status),
           run' = run, run.lock # wk[w].tok, Release(w)
    PROVE  Custody'
<1> DEFINE tok == wk[w].tok
<1>1. tok \in Token /\ tok[1] \in Jobs /\ tok = <<tok[1], tok[2]>>
    BY ConstantTypes DEF WorkersType, Token
<1>2. wk'[w].pc = "idle" /\ \A v \in Workers \ {w} : wk'[v] = wk[v]
    BY ReleaseFacts
<1>3. /\ \A j \in Jobs : j # tok[1] => jobs'[j] = jobs[j]
      /\ LeaseHeld(tok) => jobs'[tok[1]].status = status
      /\ ~LeaseHeld(tok) => jobs' = jobs
    BY <1>1 DEF SetJob, RowsType, JobRecord
<1>4. \A j \in Jobs : jobs'[j].status \in {"queued", "leased"} =>
          /\ jobs'[j] = jobs[j]
          /\ jobs[j].status = "leased" => <<j, jobs[j].attempt>> # tok
    BY <1>1, <1>3 DEF LeaseHeld
<1>5. LeasesHeld'
    BY <1>2, <1>4 DEF Custody, LeasesHeld
<1>6. QueuedOnce'
    BY <1>4 DEF Custody, QueuedOnce
<1>7. SameCheckpoint'
  <2> SUFFICES ASSUME run.lock # NoToken
               PROVE  jobs'[run.lock[1]] = jobs[run.lock[1]]
    BY DEF Custody, SameCheckpoint
  <2>1. run.lock \in Token /\ run.lock[1] \in Jobs /\ LeaseHeld(run.lock)
        /\ run.lock = <<run.lock[1], run.lock[2]>>
    BY ConstantTypes DEF RowsType, RunRecord, LeaseInv, LockOwnership, Token
  <2>2. CASE ~LeaseHeld(tok)
    BY <1>3, <2>2
  <2>3. CASE LeaseHeld(tok)
    <3>1. run.lock[1] # tok[1]
        BY <1>1, <2>1, <2>3 DEF LeaseHeld
    <3> QED
        BY <1>3, <2>1, <3>1
  <2> QED
    BY <2>2, <2>3
<1>8. LockAlive'
    BY DEF Custody, LockAlive
<1>9. OwnerAhead' /\ OwnerInNode'
    BY <1>2 DEF Custody, OwnerAhead, OwnerInNode, Owns
<1> QED
    BY <1>5, <1>6, <1>7, <1>8, <1>9 DEF Custody

\* The owner puts the run and its job back into the queue and rests.
LEMMA CustodyRetried ==
    ASSUME WorkersType, RowsType, LeaseInv, Custody, NEW w \in Workers,
           RetryJob(w), run.lock = wk[w].tok
    PROVE  Custody'
<1> DEFINE tok == wk[w].tok
           j == tok[1]
<1>1. tok \in Token /\ j \in Jobs /\ tok = <<j, tok[2]>> /\ tok # NoToken
    BY ConstantTypes DEF RetryJob, WorkersType, Token
<1>2. wk'[w].pc = "idle" /\ \A v \in Workers \ {w} : wk'[v] = wk[v]
    BY ReleaseFacts DEF RetryJob
<1>3. LeaseHeld(tok) /\ run.status = "running"
    BY <1>1 DEF LeaseInv, LockOwnership
<1>4. /\ jobs'[j].status = "queued" /\ jobs'[j].queue = jobs[j].queue
      /\ jobs'[j].done = jobs[j].done
      /\ \A i \in Jobs : i # j => jobs'[i] = jobs[i]
    BY <1>1, <1>3 DEF RetryJob, SetJob, RowsType, JobRecord
<1>5. /\ run'.status = "queued" /\ run'.lock = NoToken
      /\ run'.queue = run.queue /\ run'.done = run.done
    BY <1>3 DEF RetryJob, Unlock, RowsType, RunRecord
<1>6. \A i \in Jobs : jobs[i].status # "queued"
    BY <1>3 DEF Custody, QueuedOnce, Terminal
<1>7. jobs[j].queue = run.queue /\ jobs[j].done = run.done
    BY <1>1 DEF Custody, SameCheckpoint
<1>8. QueuedOnce'
    BY <1>4, <1>5, <1>6, <1>7 DEF QueuedOnce
<1>9. LeasesHeld'
  <2> SUFFICES ASSUME NEW i \in Jobs, jobs'[i].status = "leased"
               PROVE  /\ jobs'[i].live
                      /\ \E v \in Workers : wk'[v].pc # "idle" /\ wk'[v].tok = <<i, jobs'[i].attempt>>
    BY DEF LeasesHeld
  <2>1. i # j /\ jobs'[i] = jobs[i]
    BY <1>4
  <2>2. PICK v \in Workers : wk[v].pc # "idle" /\ wk[v].tok = <<i, jobs[i].attempt>>
    BY <2>1 DEF Custody, LeasesHeld
  <2>3. v # w
    BY <1>1, <2>1, <2>2
  <2> QED
    BY <1>2, <2>1, <2>2, <2>3 DEF Custody, LeasesHeld
<1>10. \A v \in Workers : ~Owns(v)'
    BY <1>2, <1>5, ConstantTypes DEF Owns, WorkersType
<1> QED
    BY <1>5, <1>8, <1>9, <1>10 DEF Custody, LockAlive, SameCheckpoint, OwnerAhead, OwnerInNode

\* A claim takes the queued job, whose checkpoint is the run's.
LEMMA CustodyClaimed ==
    ASSUME WorkersType, RowsType, LeaseInv, LeaseInv', Custody,
           NEW w \in Workers, NEW j \in Jobs, Claim(w, j)
    PROVE  Custody'
<1> DEFINE tok == <<j, jobs[j].attempt + 1>>
<1>1. jobs[j].status = "queued" /\ run.status \notin Terminal
    BY DEF Claim, Eligible, Custody, LeasesHeld, Claimable, Terminal
<1>2. /\ jobs[j].queue = run.queue /\ jobs[j].done = run.done
      /\ \A i \in Jobs : jobs[i].status = "queued" => i = j
    BY <1>1 DEF Custody, QueuedOnce
<1>3. /\ wk'[w].pc = "load" /\ wk'[w].tok = tok /\ wk'[w].queue = jobs[j].queue
      /\ wk'[w].done = jobs[j].done /\ wk[w].pc = "idle"
      /\ \A v \in Workers \ {w} : wk'[v] = wk[v]
    BY ClaimFacts, RememberFacts DEF Claim
<1>4. /\ jobs'[j].status = "leased" /\ jobs'[j].attempt = tok[2] /\ jobs'[j].live
      /\ jobs'[j].queue = jobs[j].queue /\ jobs'[j].done = jobs[j].done
      /\ \A i \in Jobs \ {j} : jobs'[i] = jobs[i]
    BY DEF Claim, RowsType, JobRecord
<1>5. /\ run'.lock = tok /\ run'.lockLive /\ run'.queue = run.queue /\ run'.done = run.done
      /\ tok[1] = j /\ tok # NoToken
    BY ClaimDraws, ConstantTypes DEF Claim, RowsType, RunRecord
<1>6. LeasesHeld'
    BY <1>3, <1>4 DEF Custody, LeasesHeld
<1>7. QueuedOnce'
    BY <1>2, <1>4 DEF QueuedOnce
<1>8. LockAlive' /\ SameCheckpoint'
    BY <1>2, <1>4, <1>5 DEF LockAlive, SameCheckpoint
<1>9. \A v \in Workers : Owns(v)' => v = w
    BY <1>3, <1>5 DEF Owns, LeaseInv, TokensUnique
<1>10. OwnerAhead' /\ OwnerInNode'
    BY <1>2, <1>3, <1>5, <1>9 DEF OwnerAhead, OwnerInNode
<1> QED
    BY <1>6, <1>7, <1>8, <1>10 DEF Custody

\* The owner's checkpoint reaches its job row and the run row together.
LEMMA CustodySaved ==
    ASSUME WorkersType, RowsType, LeaseInv, LeaseInv', Custody,
           NEW w \in Workers, SaveCheckpoint(w), Fenced(wk[w].tok)
    PROVE  Custody'
<1> DEFINE q == wk[w].queue
           d == wk[w].done
           j == wk[w].tok[1]
<1>1. wk[w].pc # "idle" /\ j \in Jobs /\ run.lock = wk[w].tok /\ run.status = "running"
    BY ConstantTypes DEF SaveCheckpoint, AfterCheckpoint, WorkersType, Fenced
<1>2. /\ jobs' = [jobs EXCEPT ![j].queue = q, ![j].done = d]
      /\ run' = [run EXCEPT !.queue = q, !.done = d]
    BY DEF SaveCheckpoint
<1> HIDE DEF j
<1>3. /\ jobs'[j].status = jobs[j].status /\ jobs'[j].attempt = jobs[j].attempt
      /\ jobs'[j].live = jobs[j].live /\ jobs'[j].queue = q /\ jobs'[j].done = d
      /\ \A i \in Jobs : i # j => jobs'[i] = jobs[i]
    BY <1>1, <1>2 DEF RowsType, JobRecord
<1>4. /\ run'.status = run.status /\ run'.lock = run.lock /\ run'.lockLive = run.lockLive
      /\ run'.queue = q /\ run'.done = d
    BY <1>2 DEF RowsType, RunRecord
<1>5. \E pc \in WorkerPoints \ {"idle"} : Goto(w, pc)
    BY DEF SaveCheckpoint, AfterCheckpoint, WorkerPoints, Executing
<1>6. /\ wk'[w].pc # "idle" /\ wk'[w].tok = wk[w].tok /\ wk'[w].queue = q /\ wk'[w].done = d
      /\ \A v \in Workers \ {w} : wk'[v] = wk[v]
    BY <1>5, GotoKeeps, GotoFacts
<1>7. LeasesHeld'
  <2>1. \A v \in Workers : wk[v].pc # "idle" => wk'[v].pc # "idle" /\ wk'[v].tok = wk[v].tok
    BY <1>6
  <2>2. \A i \in Jobs : /\ jobs'[i].status = jobs[i].status /\ jobs'[i].live = jobs[i].live
                        /\ jobs'[i].attempt = jobs[i].attempt
    BY <1>3
  <2> QED
    BY <2>1, <2>2 DEF Custody, LeasesHeld
<1>8. QueuedOnce'
    BY <1>1, <1>3 DEF Custody, QueuedOnce, Terminal
<1>9. SameCheckpoint'
    BY <1>1, <1>3, <1>4 DEF SameCheckpoint, j
<1>10. LockAlive'
    BY <1>4 DEF Custody, LockAlive
<1>11. \A v \in Workers : Owns(v)' => v = w
    BY <1>1, <1>4, <1>6 DEF Owns, LeaseInv, TokensUnique
<1>12. OwnerAhead' /\ OwnerInNode'
    BY <1>4, <1>6, <1>11 DEF OwnerAhead, OwnerInNode
<1> QED
    BY <1>7, <1>8, <1>9, <1>10, <1>12 DEF Custody

\* A heartbeat keeps custody.
LEMMA CustodyRenewed ==
    ASSUME WorkersType, RowsType, Custody, NEW w \in Workers, RenewLease(w)
    PROVE  Custody'
<1> DEFINE j == wk[w].tok[1]
<1>1. j \in Jobs /\ jobs' = [jobs EXCEPT ![j].live = TRUE] /\ run' = [run EXCEPT !.lockLive = TRUE]
      /\ wk' = wk
    BY ConstantTypes DEF RenewLease, WorkersType
<1> HIDE DEF j
<1>2. \A i \in Jobs :
          /\ jobs'[i].status = jobs[i].status /\ jobs'[i].attempt = jobs[i].attempt
          /\ jobs'[i].queue = jobs[i].queue /\ jobs'[i].done = jobs[i].done
          /\ jobs[i].live => jobs'[i].live
    BY <1>1 DEF RowsType, JobRecord
<1>3. /\ run'.status = run.status /\ run'.lock = run.lock /\ run'.lockLive
      /\ run'.queue = run.queue /\ run'.done = run.done
    BY <1>1 DEF RowsType, RunRecord
<1>4. LeasesHeld'
    BY <1>1, <1>2, LeasesStay DEF Custody
<1>5. QueuedOnce' /\ LockAlive'
    BY <1>2, <1>3 DEF Custody, QueuedOnce, LockAlive
<1>6. SameCheckpoint'
    BY <1>2, <1>3, ConstantTypes DEF Custody, SameCheckpoint, RowsType, RunRecord
<1>7. OwnerAhead' /\ OwnerInNode'
    BY <1>1, <1>3 DEF Custody, OwnerAhead, OwnerInNode, Owns
<1> QED
    BY <1>4, <1>5, <1>6, <1>7 DEF Custody

\* A fresh resume job at the run's checkpoint is the only queued one.
LEMMA CustodyContinued ==
    ASSUME WorkersType, RowsType, LeaseInv, Custody, wk' = wk, NEW queue, NEW done, NEW j \in Jobs,
           run.status \notin Terminal, FreshJob(j), run.status # "queued",
           jobs' = [jobs EXCEPT ![j] = ResumeJob(queue, done)],
           run'.status = "queued", run'.lock = NoToken, run'.queue = queue, run'.done = done
    PROVE  Custody'
<1>1. \A i \in Jobs : jobs[i].status # "queued"
    BY DEF Custody, QueuedOnce
<1>2. /\ jobs'[j].status = "queued" /\ jobs'[j].queue = queue /\ jobs'[j].done = done
      /\ \A i \in Jobs : i # j => jobs'[i] = jobs[i]
    BY DEF ResumeJob, RowsType
<1>3. QueuedOnce'
    BY <1>1, <1>2 DEF QueuedOnce
<1>4. LeasesHeld'
    BY <1>2, LeasesStay DEF Custody
<1> QED
    BY <1>3, <1>4, CustodyVacated

\* Jobs that only leave the queue or end leave custody alone, if the run is vacated.
LEMMA CustodyDropped ==
    ASSUME WorkersType, RowsType, Custody, wk' = wk, run'.lock = NoToken,
           \A j \in Jobs : jobs'[j].status \in {"queued", "leased"} => jobs'[j] = jobs[j],
           \/ run'.status \in Terminal
           \/ \A j \in Jobs : jobs'[j].status # "queued"
    PROVE  Custody'
<1>1. LeasesHeld'
    BY DEF Custody, LeasesHeld
<1>2. QueuedOnce'
    BY DEF QueuedOnce
<1> QED
    BY <1>1, <1>2, CustodyVacated

\* Commands, decisions, triggers and the terminal reconciler keep custody.
LEMMA CustodyOutside ==
    ASSUME WorkersType, RowsType, LeaseInv, Custody,
           \/ ReconcileTerminal \/ PauseRun \/ ResumeRun
           \/ \E target \in {"cancelled", "terminated"} : ControlRun(target)
           \/ \E t \in Nodes \X Copies :
                 ClaimTask(t) \/ ReturnTask(t) \/ CompleteTask(t) \/ RejectTask(t)
           \/ \E n \in Nodes : TriggerWait(n)
           \/ UNCHANGED vars
    PROVE  Custody'
<1>1. CASE ReconcileTerminal
  <2>1. run' = run /\ run.lock = NoToken /\ run.status \in Terminal /\ wk' = wk
    BY <1>1 DEF ReconcileTerminal, LeaseInv, LockOwnership, Terminal
  <2>2. \A j \in Jobs : jobs'[j].status \in {"queued", "leased"} => jobs'[j] = jobs[j]
    BY <1>1 DEF ReconcileTerminal, Outstanding, RowsType, JobRecord
  <2> QED
    BY <2>1, <2>2, CustodyDropped
<1>2. ASSUME NEW target \in {"cancelled", "terminated"}, ControlRun(target) PROVE Custody'
  <2>1. run'.lock = NoToken /\ run'.status \in Terminal /\ wk' = wk
    BY <1>2, UnlockVacates DEF ControlRun, Vacated, Terminal
  <2>2. \A j \in Jobs : jobs'[j].status \in {"queued", "leased"} => jobs'[j] = jobs[j]
    BY <1>2 DEF ControlRun, Outstanding, RowsType, JobRecord
  <2> QED
    BY <2>1, <2>2, CustodyDropped
<1>3. CASE PauseRun
  <2>1. run'.lock = NoToken /\ wk' = wk
    BY <1>3, UnlockVacates DEF PauseRun, Vacated
  <2>2. \A j \in Jobs : /\ jobs'[j].status \in {"queued", "leased"} => jobs'[j] = jobs[j]
                        /\ jobs'[j].status # "queued"
    BY <1>3 DEF PauseRun, RowsType, JobRecord
  <2> QED
    BY <2>1, <2>2, CustodyDropped
<1>4. CASE ResumeRun
  <2>1. run.status = "blocked" /\ run.lock = NoToken /\ run.status \notin Terminal /\ wk' = wk
    BY <1>4, NobodyOwns DEF ResumeRun, Terminal
  <2>2. \A i \in Jobs : jobs[i].status # "queued"
    BY <2>1 DEF Custody, QueuedOnce
  <2>3. run'.lock = NoToken /\ run'.queue = run.queue /\ run'.done = run.done
    BY <1>4, <2>1 DEF ResumeRun, RowsType, RunRecord
  <2>4. CASE jobs' = jobs
    BY <2>1, <2>2, <2>3, <2>4, CustodyDropped
  <2>5. ASSUME NEW j \in Jobs, FreshJob(j), jobs' = [jobs EXCEPT ![j] = ResumeJob(run.queue, run.done)],
               run' = [run EXCEPT !.status = "queued"]
        PROVE  Custody'
    <3>1. run'.status = "queued"
        BY <2>5 DEF RowsType, RunRecord
    <3> QED
        BY <2>1, <2>3, <2>5, <3>1, CustodyContinued
  <2> QED
    BY <1>4, <2>4, <2>5 DEF ResumeRun
<1>5. ASSUME NEW queue, NEW done, Continue(queue, done), run.status \in {"running", "waiting"},
             wk' = wk
      PROVE  Custody'
  <2>1. /\ run'.status = "queued" /\ run'.lock = NoToken
        /\ run'.queue = queue /\ run'.done = done
    BY <1>5 DEF Continue, Unlock, RowsType, RunRecord
  <2>2. PICK j \in Jobs : FreshJob(j) /\ jobs' = [jobs EXCEPT ![j] = ResumeJob(queue, done)]
    BY <1>5 DEF Continue
  <2>3. run.status \notin Terminal /\ run.status # "queued"
    BY <1>5 DEF Terminal
  <2> QED
    BY <1>5, <2>1, <2>2, <2>3, CustodyContinued
<1>6. ASSUME NEW t \in Nodes \X Copies, CompleteTask(t) PROVE Custody'
  <2>1. run.status \in {"running", "waiting"} /\ wk' = wk
    BY <1>6 DEF CompleteTask, Actionable
  <2>2. PICK next \in Routes[t[1]] : Continue(WithoutCurrent(t[1]) \o next, run.done \cup {t[1]})
    BY <1>6 DEF CompleteTask
  <2> QED
    BY <1>5, <2>1, <2>2
<1>7. ASSUME NEW n \in Nodes, TriggerWait(n) PROVE Custody'
  <2>1. run.status \in {"running", "waiting"} /\ wk' = wk
    BY <1>7 DEF TriggerWait
  <2>2. PICK next \in Routes[n] : Continue(waits[n].queue \o next, waits[n].done \cup {n})
    BY <1>7 DEF TriggerWait
  <2> QED
    BY <1>5, <2>1, <2>2
<1>8. ASSUME NEW t \in Nodes \X Copies, RejectTask(t) PROVE Custody'
  <2>1. run'.lock = NoToken /\ run'.status \in Terminal /\ wk' = wk /\ jobs' = jobs
    BY <1>8 DEF RejectTask, Unlock, Terminal, RowsType, RunRecord
  <2> QED
    BY <2>1, CustodyDropped
<1>9. ASSUME run' = run, jobs' = jobs, wk' = wk PROVE Custody'
    BY <1>9 DEF Custody, LeasesHeld, LockAlive, QueuedOnce, SameCheckpoint, OwnerAhead, OwnerInNode,
                Owns
<1>10. ASSUME NEW t \in Nodes \X Copies, ClaimTask(t) \/ ReturnTask(t) PROVE Custody'
    BY <1>9, <1>10 DEF ClaimTask, ReturnTask
<1>11. CASE UNCHANGED vars
    BY <1>9, <1>11 DEF vars
<1> QED
    BY <1>1, <1>2, <1>3, <1>4, <1>6, <1>7, <1>8, <1>10, <1>11

\* Every step without a crash or a stall keeps custody.
LEMMA CustodyStep ==
    ASSUME WorkersType, RowsType, LeaseInv, LeaseInv', Custody, [Next]_vars, NoLoss'
    PROVE  Custody'
<1>1. ASSUME NEW w \in Workers, SaveCheckpoint(w) PROVE Custody'
    BY <1>1, CustodySaved, CustodyInward, WhoGoesInward
<1>2. ASSUME NEW w \in Workers, Park(w) \/ Succeed(w) \/ FailRun(w) PROVE Custody'
    BY <1>2, CustodyReleased, CustodyInward, WhoGoesInward
<1>3. ASSUME NEW w \in Workers, CompleteJob(w) PROVE Custody'
  <2>1. run.lock # wk[w].tok /\ wk[w].pc # "idle" /\ run' = run
    BY <1>3 DEF CompleteJob, LeaseInv, Released
  <2>2. CASE LeaseHeld(wk[w].tok)
    BY <1>3, <2>1, <2>2, CustodyRetired DEF CompleteJob
  <2>3. CASE ~LeaseHeld(wk[w].tok)
    <3>1. jobs' = jobs /\ Goto(w, "failing")
        BY <1>3, <2>3 DEF CompleteJob, SetJob
    <3>2. Inward(w)
        BY <2>1, <3>1, GotoKeeps, GotoFacts DEF Inward, WorkerPoints
    <3> QED
        BY <3>2, CustodyInward
  <2> QED
    BY <2>2, <2>3
<1>4. ASSUME NEW w \in Workers, RetryJob(w) PROVE Custody'
  <2>1. CASE run.lock # wk[w].tok
    BY <1>4, <2>1, CustodyRetired DEF RetryJob
  <2> QED
    BY <1>4, <2>1, CustodyRetried
<1>5. ASSUME NEW w \in Workers, FailJob(w) PROVE Custody'
    BY <1>5, CustodyRetired DEF FailJob, LeaseInv, Released
<1>6. ASSUME NEW w \in Workers,
             \/ LoadRun(w) \/ OpenNode(w) \/ CloseSegment(w) \/ RunNode(w) \/ CreateTask(w)
             \/ CreateWait(w) \/ RefuseArtifact(w) \/ ThrowError(w)
      PROVE  Custody'
    BY <1>6, CustodyInward, WhoGoesInward
<1> QED
    BY <1>1, <1>2, <1>3, <1>4, <1>5, <1>6, CustodyClaimed, CustodyRenewed, CustodyOutside,
       NothingLapses, DomainOfTasks
    DEF Next, WorkerStep, Reconcile, Person

\* Custody holds in every reachable state that follows no crash and no stall.
CustodyInv == NoLoss => Custody

\* So as long as nobody crashed or stalled, whatever the number of workers, jobs and retries,
\* a leased job is in a live worker's hands and its rows are where its owner left them
\* (claimNextJob, saveCheckpoint, completeCurrentHumanCheckpoint).
THEOREM CustodyInvariant == Spec => []CustodyInv
<1>1. Init => CustodyInv
  <2> SUFFICES ASSUME Init PROVE Custody
    BY DEF CustodyInv
  <2>1. \A w \in Workers : wk[w].pc = "idle"
    BY DEF Init, IdleWorker
  <2>2. run.lock = NoToken /\ run.queue = <<StartNode>> /\ run.done = {} /\ run.status = "queued"
    BY DEF Init
  <2>3. \A j \in Jobs : /\ jobs[j].status # "leased"
                        /\ jobs[j].status = "queued" =>
                              j = 1 /\ jobs[j].queue = <<StartNode>> /\ jobs[j].done = {}
    BY DEF Init
  <2> QED
    BY <2>1, <2>2, <2>3 DEF Custody, LeasesHeld, LockAlive, QueuedOnce, SameCheckpoint, OwnerAhead,
                            OwnerInNode, Owns
<1>2. IInv /\ IInv' /\ CustodyInv /\ [Next]_vars => CustodyInv'
    BY Parts, CustodyStep, LossesStay DEF CustodyInv, IInv
<1> QED
    BY <1>1, <1>2, Invariance, PTL DEF Spec

-----------------------------------------------------------------------------
(* The definition graph: what lies ahead of a node.                        *)

\* A set of nodes no selected successor leads out of.
Closed(F) == \A m \in F : \A next \in Routes[m] : \A i \in DOMAIN next : next[i] \in F

\* The nodes an execution that stands at n may still reach, n included.
Ahead(n) == {m \in Nodes : \A F \in SUBSET Nodes : n \in F /\ Closed(F) => m \in F}

\* Nobody is asked anything from here on.
Quiet(n) == \A m \in Ahead(n) : Kind[m] \notin {"operate", "wait"}

\* Of the successors selected together at most one leads to somebody being asked.
OneAsking ==
    \A n \in Nodes : \A next \in Routes[n] : \A i, k \in DOMAIN next :
        ~Quiet(next[i]) /\ ~Quiet(next[k]) => i = k

\* What a node selects are nodes, and they lie ahead of it with all that is ahead of them.
LEMMA AheadFacts ==
    ASSUME NEW n \in Nodes
    PROVE  /\ n \in Ahead(n) /\ Ahead(n) \subseteq Nodes
           /\ \A next \in Routes[n] :
                 /\ next \in Seq(Nodes)
                 /\ \A i \in DOMAIN next :
                       next[i] \in Nodes /\ next[i] \in Ahead(n) /\ Ahead(next[i]) \subseteq Ahead(n)
<1>1. n \in Ahead(n) /\ Ahead(n) \subseteq Nodes
    BY DEF Ahead
<1>2. ASSUME NEW next \in Routes[n], NEW i \in DOMAIN next
      PROVE  next \in Seq(Nodes) /\ next[i] \in Nodes /\ next[i] \in Ahead(n)
             /\ Ahead(next[i]) \subseteq Ahead(n)
  <2>1. next \in Seq(Nodes)
    BY DefinitionAssumption
  <2>2. next[i] \in Nodes
    BY <2>1, ElementOfSeq
  <2>3. \A F \in SUBSET Nodes : n \in F /\ Closed(F) => next[i] \in F
    BY DEF Closed
  <2>4. Ahead(next[i]) \subseteq Ahead(n)
    BY <2>3 DEF Ahead
  <2> QED
    BY <2>1, <2>2, <2>3, <2>4 DEF Ahead
<1>3. \A next \in Routes[n] : next \in Seq(Nodes)
    BY DefinitionAssumption
<1> QED
    BY <1>1, <1>2, <1>3

\* What follows a quiet node is quiet, and a node that asks is not.
LEMMA QuietFacts ==
    ASSUME NEW n \in Nodes
    PROVE  /\ Kind[n] \in {"operate", "wait"} => ~Quiet(n)
           /\ Quiet(n) => \A next \in Routes[n] : \A i \in DOMAIN next : Quiet(next[i])
<1>1. Kind[n] \in {"operate", "wait"} => ~Quiet(n)
    BY AheadFacts DEF Quiet
<1>2. Quiet(n) => \A next \in Routes[n] : \A i \in DOMAIN next : Quiet(next[i])
    BY AheadFacts DEF Quiet
<1> QED
    BY <1>1, <1>2

-----------------------------------------------------------------------------
(* Queues that hold at most one node leading to a question.                *)

AllQuiet(q) == \A i \in DOMAIN q : Quiet(q[i])
OneAsk(q) == \A i, k \in DOMAIN q : ~Quiet(q[i]) /\ ~Quiet(q[k]) => i = k

\* Only the head of the queue leads to a question, and it is the node that asks.
BehindAsk(q, a) == \A i \in DOMAIN q : ~Quiet(q[i]) => i = 1 /\ q[i] = a

\* The positions of a queue: the head, and those of the tail moved by one.
LEMMA TailPlaces ==
    ASSUME NEW q \in Seq(Nodes), q # <<>>
    PROVE  /\ 1 \in DOMAIN q /\ q[1] = Head(q)
           /\ \A i \in DOMAIN Tail(q) : i + 1 \in DOMAIN q /\ i + 1 # 1 /\ Tail(q)[i] = q[i + 1]
           /\ \A i \in DOMAIN Tail(q) : i \in Nat
           /\ \A i \in DOMAIN q : i # 1 => i - 1 \in DOMAIN Tail(q) /\ q[i] = Tail(q)[i - 1]
BY HeadTailProperties

\* The positions of a joined queue: those of the first, then those of the second.
LEMMA JoinPlaces ==
    ASSUME NEW p \in Seq(Nodes), NEW q \in Seq(Nodes)
    PROVE  \A i \in DOMAIN (p \o q) :
              \/ i \in DOMAIN p /\ (p \o q)[i] = p[i]
              \/ i \notin DOMAIN p /\ i - Len(p) \in DOMAIN q /\ (p \o q)[i] = q[i - Len(p)]
                 /\ i \in Nat /\ Len(p) \in Nat
BY ConcatProperties

\* Taking the head away keeps a queue's shape; if the head asks, all the rest is quiet.
LEMMA TailAsks ==
    ASSUME NEW q \in Seq(Nodes), q # <<>>
    PROVE  /\ OneAsk(q) => OneAsk(Tail(q))
           /\ OneAsk(q) /\ ~Quiet(Head(q)) => AllQuiet(Tail(q))
           /\ \A a : BehindAsk(q, a) => AllQuiet(Tail(q))
           /\ AllQuiet(q) => AllQuiet(Tail(q))
BY TailPlaces DEF OneAsk, AllQuiet, BehindAsk

\* A quiet queue has every shape, and a queue with at most one question may follow it.
LEMMA JoinAsks ==
    ASSUME NEW p \in Seq(Nodes), NEW q \in Seq(Nodes)
    PROVE  /\ AllQuiet(p) /\ AllQuiet(q) => AllQuiet(p \o q)
           /\ AllQuiet(p) /\ OneAsk(q) => OneAsk(p \o q)
           /\ OneAsk(p) /\ AllQuiet(q) => OneAsk(p \o q)
           /\ AllQuiet(p) => OneAsk(p) /\ \A a : BehindAsk(p, a)
<1>1. AllQuiet(p) /\ AllQuiet(q) => AllQuiet(p \o q)
    BY JoinPlaces DEF AllQuiet
<1>2. ASSUME AllQuiet(p), OneAsk(q) PROVE OneAsk(p \o q)
  <2> SUFFICES ASSUME NEW i \in DOMAIN (p \o q), NEW k \in DOMAIN (p \o q),
                      ~Quiet((p \o q)[i]), ~Quiet((p \o q)[k])
               PROVE  i = k
    BY DEF OneAsk
  <2>1. /\ i - Len(p) \in DOMAIN q /\ (p \o q)[i] = q[i - Len(p)]
        /\ k - Len(p) \in DOMAIN q /\ (p \o q)[k] = q[k - Len(p)]
        /\ i \in Nat /\ k \in Nat /\ Len(p) \in Nat
    BY <1>2, JoinPlaces DEF AllQuiet
  <2>2. i - Len(p) = k - Len(p)
    BY <1>2, <2>1 DEF OneAsk
  <2> QED
    BY <2>1, <2>2
<1>3. ASSUME OneAsk(p), AllQuiet(q) PROVE OneAsk(p \o q)
  <2> SUFFICES ASSUME NEW i \in DOMAIN (p \o q), NEW k \in DOMAIN (p \o q),
                      ~Quiet((p \o q)[i]), ~Quiet((p \o q)[k])
               PROVE  i = k
    BY DEF OneAsk
  <2>1. /\ i \in DOMAIN p /\ (p \o q)[i] = p[i]
        /\ k \in DOMAIN p /\ (p \o q)[k] = p[k]
    BY <1>3, JoinPlaces DEF AllQuiet
  <2> QED
    BY <1>3, <2>1 DEF OneAsk
<1>4. AllQuiet(p) => OneAsk(p) /\ \A a : BehindAsk(p, a)
    BY DEF AllQuiet, OneAsk, BehindAsk
<1> QED
    BY <1>1, <1>2, <1>3, <1>4

-----------------------------------------------------------------------------
(* What a step can do to the two views of the execution, the run row's and *)
(* its owner's, and to the questions that are open.                        *)

\* The nodes that wait for a person, a timer or a message, and those that had their answer.
AskedNodes == {t[1] : t \in OpenTasks} \cup ActiveWaits
Decided == {t[1] : t \in {u \in DOMAIN tasks : tasks[u] = "completed"}}
           \cup {n \in Nodes : waits[n].status = "triggered"}

\* Tasks are put by operate nodes and subscriptions by wait nodes.
ArtifactKinds ==
    /\ \A t \in Nodes \X Copies : tasks[t] # "absent" => Kind[t[1]] = "operate"
    /\ \A n \in Nodes : waits[n].status # "absent" => Kind[n] = "wait"

RunStays == run'.queue = run.queue /\ run'.done = run.done
OwnersStay ==
    \A v \in Workers : Owns(v)' =>
        Owns(v) /\ wk'[v].queue = wk[v].queue /\ wk'[v].done = wk[v].done
OnlyOwner(w) == Owns(w) /\ \A v \in Workers : Owns(v)' => v = w
NobodyNext == \A v \in Workers : ~Owns(v)'

\* No question is put, and a subscription that stays active keeps the context it stored.
Shrinks ==
    /\ OpenTasks' \subseteq OpenTasks
    /\ \A n \in Nodes : waits'[n].status = "active" => waits'[n] = waits[n]
Decides(D) == Decided' \subseteq Decided \cup D

\* Both views stay, and what is open may be withdrawn.
Rests == RunStays /\ OwnersStay /\ Shrinks /\ Decides({})

\* The owner's view becomes the run's.
Saves(w) ==
    /\ SaveCheckpoint(w) /\ Fenced(wk[w].tok)
    /\ Owns(w) /\ run'.queue = wk[w].queue /\ run'.done = wk[w].done
    /\ OwnersStay /\ Shrinks /\ Decides({})

\* The owner drops the head of its queue: seen before, or asked already.
Drops(w) ==
    /\ OnlyOwner(w) /\ RunStays /\ Shrinks /\ Decides({})
    /\ wk[w].pc = "head" /\ wk[w].queue # <<>>
    /\ Head(wk[w].queue) \in wk[w].seen \/ Head(wk[w].queue) \in AskedNodes
    /\ wk'[w].queue = Tail(wk[w].queue) /\ wk'[w].done = wk[w].done

\* The owner executes the automatic node at the head of its queue.
Runs(w) ==
    LET n == Head(wk[w].queue)
    IN  /\ OnlyOwner(w) /\ RunStays /\ Shrinks /\ Decides({})
        /\ wk[w].pc = "work" /\ Kind[n] \in {"auto", "state", "end"}
        /\ \E next \in Routes[n] : wk'[w].queue = Tail(wk[w].queue) \o next
        /\ wk'[w].done = wk[w].done \cup {n}
        /\ Kind[n] = "end" => wk'[w].pc = "advanceEnd"

\* The owner puts the question of the node at the head of its queue.
Asks(w) ==
    LET n == Head(wk[w].queue)
    IN  /\ OnlyOwner(w) /\ RunStays /\ Decides({})
        /\ wk[w].pc = "work" /\ Kind[n] \in {"operate", "wait"} /\ n \notin AskedNodes
        /\ n \in AskedNodes' /\ AskedNodes' \subseteq AskedNodes \cup {n}
        /\ \A m \in Nodes : waits'[m].status = "active" =>
              \/ waits'[m] = waits[m]
              \/ m = n /\ waits'[m].queue = Tail(wk[w].queue) /\ waits'[m].done = wk[w].done
        /\ wk'[w].queue = Tail(wk[w].queue) /\ wk'[w].done = wk[w].done
        /\ wk'[w].pc = "artifact"

\* A new owner starts from the run's view.
Takes(w) ==
    /\ run.status \notin Terminal
    /\ RunStays /\ Shrinks /\ Decides({})
    /\ \A v \in Workers : Owns(v)' => v = w
    /\ wk'[w].queue = run.queue /\ wk'[w].done = run.done

\* A person answers: the run goes on behind the node that asked.
Answered(a) ==
    /\ run.status \notin Terminal
    /\ a \in AskedNodes /\ Kind[a] = "operate" /\ a \notin AskedNodes' /\ NobodyNext
    /\ \E next \in Routes[a] : run'.queue = WithoutCurrent(a) \o next
    /\ run'.done = run.done \cup {a}
    /\ Shrinks /\ Decides({a})

\* A rejection ends the run.
Refused(a) ==
    /\ a \in AskedNodes /\ Kind[a] = "operate" /\ a \notin AskedNodes' /\ NobodyNext
    /\ run'.queue = run.queue /\ run'.done = run.done \cup {a}
    /\ run'.status \in Terminal
    /\ Shrinks /\ Decides({a})

\* A timer or a message fires: the run goes on from what the wait stored.
Fired(a) ==
    /\ a \in ActiveWaits /\ a \notin AskedNodes' /\ NobodyNext
    /\ \E next \in Routes[a] : run'.queue = waits[a].queue \o next
    /\ run'.done = waits[a].done \cup {a}
    /\ Shrinks /\ Decides({a})

\* What is asked are nodes, and fewer questions leave fewer nodes asking.
LEMMA AskedFacts ==
    ASSUME RowsType, RowsType'
    PROVE  /\ AskedNodes \subseteq Nodes /\ ActiveWaits \subseteq AskedNodes
           /\ \A t \in OpenTasks : t \in Nodes \X Copies /\ t[1] \in AskedNodes
           /\ Shrinks => AskedNodes' \subseteq AskedNodes /\ ActiveWaits' \subseteq ActiveWaits
<1>1. OpenTasks \subseteq Nodes \X Copies /\ ActiveWaits \subseteq Nodes
    BY DEF OpenTasks, ActiveWaits, RowsType
<1>2. Shrinks => ActiveWaits' \subseteq ActiveWaits
    BY DEF Shrinks, ActiveWaits
<1> QED
    BY <1>1, <1>2 DEF AskedNodes, Shrinks

\* Steps that leave tasks and waits alone, or only cancel them.
LEMMA ArtifactsShrink ==
    ASSUME RowsType, RowsType', (tasks' = tasks /\ waits' = waits) \/ CancelArtifacts
    PROVE  Shrinks /\ Decides({})
<1>1. CASE tasks' = tasks /\ waits' = waits
    BY <1>1 DEF Shrinks, Decides, Decided, OpenTasks
<1>2. CASE CancelArtifacts
  <2>1. \A t \in Nodes \X Copies : tasks'[t] = tasks[t] \/ tasks'[t] = "cancelled"
    BY <1>2 DEF CancelArtifacts, RowsType
  <2>2. \A n \in Nodes : waits'[n] = waits[n] \/ waits'[n].status = "cancelled"
    BY <1>2 DEF CancelArtifacts, RowsType, WaitRecord
  <2>3. DOMAIN tasks = Nodes \X Copies /\ DOMAIN tasks' = Nodes \X Copies
    BY DEF RowsType
  <2>4. Shrinks
    BY <2>1, <2>2, <2>3 DEF Shrinks, OpenTasks
  <2> QED
    BY <2>1, <2>2, <2>3, <2>4 DEF Decides, Decided
<1> QED
    BY <1>1, <1>2

\* Steps that give nobody the run and change no view of a busy worker.
LEMMA ViewsStay ==
    ASSUME WorkersType', run'.lock \in {run.lock, NoToken},
           \A v \in Workers : wk'[v].pc # "idle" =>
               /\ wk[v].pc # "idle" /\ wk'[v].tok = wk[v].tok
               /\ wk'[v].queue = wk[v].queue /\ wk'[v].done = wk[v].done
    PROVE  OwnersStay
BY ConstantTypes DEF OwnersStay, Owns, WorkersType

\* Nobody owns a run without a lock.
LEMMA UnlockedNobody ==
    ASSUME WorkersType', run'.lock = NoToken
    PROVE  NobodyNext
BY ConstantTypes DEF NobodyNext, Owns, WorkersType

\* After a worker's step that keeps the lock, only it or the owner it left may own the run.
LEMMA OwnerAlone ==
    ASSUME WorkersType, LeaseInv, NEW w \in Workers, wk[w].pc # "idle",
           run'.lock = run.lock, wk'[w].tok = wk[w].tok,
           \A v \in Workers \ {w} : wk'[v] = wk[v]
    PROVE  /\ Owns(w) => OnlyOwner(w)
           /\ ~Owns(w) => OwnersStay
BY DEF Owns, OnlyOwner, OwnersStay, LeaseInv, TokensUnique

\* Every action keeps the kinds of what was asked.
LEMMA KindsStep ==
    ASSUME WorkersType, RowsType, RowsType', ArtifactKinds, [Next]_vars
    PROVE  ArtifactKinds'
<1>1. ASSUME \A t \in Nodes \X Copies : tasks'[t] # "absent" => tasks[t] # "absent",
             \A n \in Nodes : waits'[n].status # "absent" => waits[n].status # "absent"
      PROVE  ArtifactKinds'
    BY <1>1 DEF ArtifactKinds
<1>2. CASE tasks' = tasks /\ waits' = waits
    BY <1>1, <1>2
<1>3. CASE CancelArtifacts
  <2>1. \A t \in Nodes \X Copies : tasks'[t] # "absent" => tasks[t] # "absent"
    BY <1>3 DEF CancelArtifacts, RowsType, OpenTasks
  <2>2. \A n \in Nodes : waits'[n].status # "absent" => waits[n].status # "absent"
    BY <1>3 DEF CancelArtifacts, RowsType, ActiveWaits
  <2> QED
    BY <1>1, <2>1, <2>2
<1>4. ASSUME NEW t \in Nodes \X Copies,
             ClaimTask(t) \/ ReturnTask(t) \/ CompleteTask(t) \/ RejectTask(t)
      PROVE  ArtifactKinds'
    BY <1>1, <1>4 DEF ClaimTask, ReturnTask, CompleteTask, RejectTask, RowsType
<1>5. ASSUME NEW n \in Nodes, TriggerWait(n)
      PROVE  ArtifactKinds'
    BY <1>1, <1>5 DEF TriggerWait, RowsType
<1>6. ASSUME NEW w \in Workers, CreateTask(w)
      PROVE  ArtifactKinds'
    BY <1>6 DEF CreateTask, ArtifactKinds, RowsType
<1>7. ASSUME NEW w \in Workers, CreateWait(w)
      PROVE  ArtifactKinds'
    BY <1>7 DEF CreateWait, ArtifactKinds, RowsType
<1>8. ASSUME NEW w \in Workers, WorkerStep(w), ~CreateTask(w), ~CreateWait(w)
      PROVE  ArtifactKinds'
    BY <1>2, <1>3, <1>8
    DEF WorkerStep, LoadRun, OpenNode, CloseSegment, SaveCheckpoint, RunNode, RefuseArtifact, Park,
        Succeed, CompleteJob, RetryJob, FailRun, FailJob
<1>9. ASSUME \/ LockLapses \/ Reconcile \/ PauseRun \/ ResumeRun \/ UNCHANGED vars
             \/ \E target \in {"cancelled", "terminated"} : ControlRun(target)
             \/ \E w \in Workers : RenewLease(w) \/ Crash(w) \/ ThrowError(w)
                                   \/ \E j \in Jobs : Claim(w, j)
             \/ \E j \in Jobs : LeaseLapses(j)
      PROVE  ArtifactKinds'
    BY <1>2, <1>3, <1>9
    DEF LockLapses, Reconcile, ReconcileTerminal, ReconcileExhausted, PauseRun, ResumeRun, vars,
        ControlRun, RenewLease, Crash, ThrowError, Claim, LeaseLapses
<1> QED
    BY <1>4, <1>5, <1>6, <1>7, <1>8, <1>9, DomainOfTasks DEF Next, Person

\* Steps of a worker that change neither its queue nor its context.
LEMMA WorkerRests ==
    ASSUME WorkersType, RowsType, WorkersType', RowsType', NEW w \in Workers,
           \/ LoadRun(w) \/ CloseSegment(w) \/ RefuseArtifact(w) \/ ThrowError(w)
           \/ SaveCheckpoint(w) /\ ~Fenced(wk[w].tok)
           \/ Park(w) \/ Succeed(w) \/ FailRun(w)
           \/ CompleteJob(w) \/ RetryJob(w) \/ FailJob(w) \/ Crash(w)
    PROVE  Rests
<1>1. (tasks' = tasks /\ waits' = waits) \/ CancelArtifacts
    BY DEF LoadRun, CloseSegment, RefuseArtifact, ThrowError, SaveCheckpoint, Park, Succeed, FailRun,
           CompleteJob, RetryJob, FailJob, Crash
<1>2. run' = run \/ \E s : run' = Unlock(run, s)
    BY DEF LoadRun, CloseSegment, RefuseArtifact, ThrowError, SaveCheckpoint, Park, Succeed, FailRun,
           CompleteJob, RetryJob, FailJob, Crash
<1>3. RunStays /\ run'.lock \in {run.lock, NoToken}
    BY <1>2 DEF RunStays, Unlock, RowsType, RunRecord
<1>4. \/ Release(w)
      \/ wk[w].pc # "idle" /\ \E pc \in {"head", "failing", "park", "final", "complete", "failJob"} :
                                  Goto(w, pc)
    BY OtherMoves DEF Executing, AfterCheckpoint
<1>5. ASSUME NEW v \in Workers, wk'[v].pc # "idle"
      PROVE  /\ wk[v].pc # "idle" /\ wk'[v].tok = wk[v].tok
             /\ wk'[v].queue = wk[v].queue /\ wk'[v].done = wk[v].done
  <2>1. CASE Release(w)
    BY <1>5, <2>1, ReleaseFacts
  <2>2. ASSUME wk[w].pc # "idle",
               NEW pc \in {"head", "failing", "park", "final", "complete", "failJob"}, Goto(w, pc)
        PROVE  /\ wk[v].pc # "idle" /\ wk'[v].tok = wk[v].tok
               /\ wk'[v].queue = wk[v].queue /\ wk'[v].done = wk[v].done
    <3>1. pc \in WorkerPoints
        BY DEF WorkerPoints, Executing
    <3>2. CASE v = w
        BY <2>2, <3>1, <3>2, GotoKeeps
    <3>3. CASE v # w
        BY <1>5, <2>2, <3>1, <3>3, GotoFacts
    <3> QED
        BY <3>2, <3>3
  <2> QED
    BY <1>4, <2>1, <2>2
<1> QED
    BY <1>1, <1>3, <1>5, ArtifactsShrink, ViewsStay DEF Rests

\* Steps of nobody's segment: time, reconcilers, heartbeats and commands.
LEMMA OutsideRests ==
    ASSUME WorkersType, RowsType, WorkersType', RowsType',
           \/ LockLapses \/ Reconcile \/ PauseRun \/ ResumeRun \/ UNCHANGED vars
           \/ \E target \in {"cancelled", "terminated"} : ControlRun(target)
           \/ \E w \in Workers : RenewLease(w)
           \/ \E j \in Jobs : LeaseLapses(j)
           \/ \E t \in Nodes \X Copies : ClaimTask(t) \/ ReturnTask(t)
    PROVE  Rests
<1>1. wk' = wk
    BY DEF LockLapses, Reconcile, ReconcileTerminal, ReconcileExhausted, PauseRun, ResumeRun, vars,
           ControlRun, RenewLease, LeaseLapses, ClaimTask, ReturnTask
<1>2. \/ run' = run \/ \E s : run' = Unlock(run, s)
      \/ \E s : run' = [run EXCEPT !.status = s]
      \/ \E b : run' = [run EXCEPT !.lockLive = b]
    BY DEF LockLapses, Reconcile, ReconcileTerminal, ReconcileExhausted, PauseRun, ResumeRun, vars,
           ControlRun, RenewLease, LeaseLapses, ClaimTask, ReturnTask
<1>3. RunStays /\ run'.lock \in {run.lock, NoToken}
    BY <1>2 DEF RunStays, Unlock, RowsType, RunRecord
<1>4. OwnersStay
    BY <1>1, <1>3, ViewsStay
<1>5. Shrinks /\ Decides({})
  <2>1. CASE \E t \in Nodes \X Copies : ClaimTask(t) \/ ReturnTask(t)
    <3>1. PICK t \in Nodes \X Copies : ClaimTask(t) \/ ReturnTask(t)
        BY <2>1
    <3>2. waits' = waits /\ OpenTasks' = OpenTasks
        BY <3>1 DEF ClaimTask, ReturnTask, OpenTasks, RowsType
    <3>3. {u \in DOMAIN tasks' : tasks'[u] = "completed"} = {u \in DOMAIN tasks : tasks[u] = "completed"}
        BY <3>1 DEF ClaimTask, ReturnTask, RowsType
    <3> QED
        BY <3>2, <3>3 DEF Shrinks, Decides, Decided
  <2>2. (tasks' = tasks /\ waits' = waits) \/ CancelArtifacts
        \/ \E t \in Nodes \X Copies : ClaimTask(t) \/ ReturnTask(t)
    BY DEF LockLapses, Reconcile, ReconcileTerminal, ReconcileExhausted, PauseRun, ResumeRun, vars,
           ControlRun, RenewLease, LeaseLapses
  <2> QED
    BY <2>1, <2>2, ArtifactsShrink
<1> QED
    BY <1>3, <1>4, <1>5 DEF Rests

\* Reading and executing the queue.
LEMMA QueueMoves ==
    ASSUME WorkersType, RowsType, WorkersType', RowsType', LeaseInv, NEW w \in Workers,
           OpenNode(w) \/ RunNode(w)
    PROVE  Rests \/ Drops(w) \/ Runs(w)
<1>1. /\ wk[w].pc # "idle" /\ wk'[w].tok = wk[w].tok /\ run' = run
      /\ tasks' = tasks /\ waits' = waits
    BY OpenNodeFacts, RunNodeFacts DEF OpenNode, RunNode
<1>2. \A v \in Workers \ {w} : wk'[v] = wk[v]
  <2>1. \E m : Remember(w, m)
    BY DEF OpenNode, RunNode
  <2> QED
    BY <2>1 DEF Remember, WorkersType
<1>3. RunStays /\ Shrinks /\ Decides({})
    BY <1>1, ArtifactsShrink DEF RunStays
<1>4. CASE ~Owns(w)
    BY <1>1, <1>2, <1>3, <1>4, OwnerAlone DEF Rests
<1>5. CASE Owns(w) /\ RunNode(w)
    BY <1>1, <1>2, <1>3, <1>5, OwnerAlone, RunNodeFacts DEF Runs
<1>6. CASE Owns(w) /\ OpenNode(w)
  <2>1. wk[w].pc = "head" /\ wk[w].queue # <<>>
    BY <1>6 DEF OpenNode
  <2>2. wk'[w].done = wk[w].done
    BY <1>6, OpenNodeFacts
  <2>3. CASE wk'[w].queue = wk[w].queue
    BY <1>1, <1>2, <1>3, <2>2, <2>3 DEF Rests, OwnersStay, Owns
  <2>4. CASE /\ wk'[w].queue = Tail(wk[w].queue)
             /\ Head(wk[w].queue) \in wk[w].seen \/ \E t \in OpenTasks : t[1] = Head(wk[w].queue)
    <3>1. Head(wk[w].queue) \in wk[w].seen \/ Head(wk[w].queue) \in AskedNodes
        BY <2>4 DEF AskedNodes
    <3> QED
        BY <1>1, <1>2, <1>3, <1>6, <2>1, <2>2, <2>4, <3>1, OwnerAlone DEF Drops
  <2> QED
    BY <1>6, <2>3, <2>4, OpenNodeFacts
<1> QED
    BY <1>4, <1>5, <1>6

\* Putting a question: the node had none open.
LEMMA QuestionMoves ==
    ASSUME WorkersType, RowsType, WorkersType', RowsType', LeaseInv, OpenInv, ArtifactKinds,
           NEW w \in Workers, CreateTask(w) \/ CreateWait(w)
    PROVE  Asks(w)
<1> DEFINE n == Head(wk[w].queue)
<1>1. /\ wk[w].pc = "work" /\ wk'[w].queue = Tail(wk[w].queue) /\ wk'[w].tok = wk[w].tok
      /\ wk'[w].done = wk[w].done /\ wk'[w].pc = "artifact"
    BY CreateFacts
<1>2. n \in Nodes /\ Owns(w) /\ run' = run /\ Kind[n] \in {"operate", "wait"}
    BY <1>1, QueueTypes DEF CreateTask, CreateWait, HoldsLease, Owns, WorkersType, HasHead, WorkerMemory
<1>3. \A v \in Workers \ {w} : wk'[v] = wk[v]
    BY RememberFacts DEF CreateTask, CreateWait
<1>4. OnlyOwner(w) /\ RunStays
    BY <1>1, <1>2, <1>3, OwnerAlone DEF RunStays
<1> HIDE DEF n
<1>5. CASE CreateTask(w)
  <2>1. PICK c \in Copies : tasks[<<n, c>>] = "absent" /\ tasks' = [tasks EXCEPT ![<<n, c>>] = "pending"]
    BY <1>5 DEF CreateTask, TaskSlot, n
  <2>2. Kind[n] = "operate" /\ waits' = waits
    BY <1>5 DEF CreateTask, n
  <2>3. \A t \in OpenTasks : t[1] # n
    BY <1>1, <1>2, <2>2 DEF OpenInv, NoneOpen, Owns, n
  <2>4. n \notin ActiveWaits
    BY <2>2 DEF ActiveWaits, ArtifactKinds
  <2>5. n \notin AskedNodes
    BY <2>3, <2>4 DEF AskedNodes
  <2>6. OpenTasks' \subseteq OpenTasks \cup {<<n, c>>}
    BY <2>1 DEF OpenTasks, RowsType
  <2>7. AskedNodes' \subseteq AskedNodes \cup {n} /\ n \in AskedNodes'
    <3>1. <<n, c>> \in OpenTasks'
        BY <1>2, <2>1 DEF OpenTasks, RowsType
    <3>2. n \in AskedNodes'
        BY <3>1 DEF AskedNodes
    <3> QED
        BY <2>2, <2>6, <3>2 DEF AskedNodes, ActiveWaits
  <2>8. {u \in DOMAIN tasks' : tasks'[u] = "completed"} = {u \in DOMAIN tasks : tasks[u] = "completed"}
    BY <2>1 DEF RowsType
  <2>9. Decides({})
    BY <2>2, <2>8 DEF Decides, Decided
  <2> QED
    BY <1>1, <1>2, <1>4, <2>2, <2>5, <2>7, <2>9 DEF Asks, n
<1>6. CASE CreateWait(w)
  <2>1. /\ waits[n].status = "absent" /\ Kind[n] = "wait" /\ tasks' = tasks
        /\ waits' = [waits EXCEPT ![n] = [status |-> "active", queue |-> Tail(wk[w].queue),
                                          done |-> wk[w].done]]
    BY <1>6 DEF CreateWait, n
  <2>2. n \notin AskedNodes
    BY <2>1 DEF AskedNodes, ActiveWaits, OpenTasks, ArtifactKinds, RowsType
  <2>3. /\ \A m \in Nodes : m # n => waits'[m] = waits[m]
        /\ waits'[n].status = "active" /\ waits'[n].queue = Tail(wk[w].queue)
        /\ waits'[n].done = wk[w].done
    BY <1>2, <2>1 DEF RowsType
  <2>4. ActiveWaits' \subseteq ActiveWaits \cup {n} /\ OpenTasks' = OpenTasks
    BY <2>1, <2>3 DEF ActiveWaits, OpenTasks
  <2>5. AskedNodes' \subseteq AskedNodes \cup {n} /\ n \in AskedNodes'
    BY <1>2, <2>3, <2>4 DEF AskedNodes, ActiveWaits
  <2>6. \A m \in Nodes : waits'[m].status = "triggered" => waits[m].status = "triggered"
    BY <2>3
  <2>7. Decides({})
    BY <2>1, <2>6 DEF Decides, Decided
  <2>8. \A m \in Nodes : waits'[m].status = "active" =>
            \/ waits'[m] = waits[m]
            \/ m = n /\ waits'[m].queue = Tail(wk[w].queue) /\ waits'[m].done = wk[w].done
    BY <2>3
  <2> QED
    BY <1>1, <1>2, <1>4, <2>2, <2>5, <2>7, <2>8 DEF Asks, n
<1> QED
    BY <1>5, <1>6

\* A claim.
LEMMA ClaimMoves ==
    ASSUME WorkersType, RowsType, WorkersType', RowsType', LeaseInv, LeaseInv', Custody,
           NEW w \in Workers, NEW j \in Jobs, Claim(w, j)
    PROVE  Takes(w)
<1>1. jobs[j].status = "queued" /\ run.status \notin Terminal
    BY DEF Claim, Eligible, Custody, LeasesHeld, Claimable, Terminal
<1>2. jobs[j].queue = run.queue /\ jobs[j].done = run.done
    BY <1>1 DEF Custody, QueuedOnce
<1>3. run'.lock = wk'[w].tok /\ RunStays
    BY ClaimFacts DEF Claim, RunStays, RowsType, RunRecord
<1>4. wk'[w].queue = run.queue /\ wk'[w].done = run.done /\ wk'[w].pc = "load"
    BY <1>2, ClaimFacts
<1>5. \A v \in Workers : Owns(v)' => v = w
    BY <1>3, <1>4 DEF Owns, LeaseInv, TokensUnique
<1>6. Shrinks /\ Decides({})
    BY ArtifactsShrink DEF Claim
<1> QED
    BY <1>1, <1>3, <1>4, <1>5, <1>6 DEF Takes

\* Answers, rejections and triggers.
LEMMA AnswerMoves ==
    ASSUME WorkersType, RowsType, WorkersType', RowsType', OpenInv, ArtifactKinds,
           NEW a \in Nodes,
           \/ TriggerWait(a)
           \/ \E c \in Copies : CompleteTask(<<a, c>>) \/ RejectTask(<<a, c>>)
    PROVE  Answered(a) \/ Refused(a) \/ Fired(a)
<1>1. ASSUME NEW queue, NEW done, Continue(queue, done)
      PROVE  run'.queue = queue /\ run'.done = done /\ run'.lock = NoToken
    BY <1>1 DEF Continue, Unlock, RowsType, RunRecord
<1>2. ASSUME NEW c \in Copies, CompleteTask(<<a, c>>) \/ RejectTask(<<a, c>>)
      PROVE  Answered(a) \/ Refused(a)
  <2> DEFINE t == <<a, c>>
  <2>1. /\ tasks[t] = "claimed" /\ tasks' = [tasks EXCEPT ![t] = "completed"] /\ waits' = waits
        /\ t \in Nodes \X Copies /\ t[1] = a
    BY <1>2 DEF CompleteTask, RejectTask
  <2>2. Kind[a] = "operate"
    BY <2>1 DEF ArtifactKinds
  <2> HIDE DEF t
  <2>3. t \in OpenTasks /\ OpenTasks' = OpenTasks \ {t} /\ t \in DOMAIN tasks
    BY <2>1 DEF OpenTasks, RowsType
  <2>4. a \in AskedNodes /\ a \notin AskedNodes'
    <3>1. a \notin ActiveWaits /\ ActiveWaits' = ActiveWaits
        BY <2>1, <2>2 DEF ActiveWaits, ArtifactKinds
    <3>2. \A u \in OpenTasks' : u[1] # a
        BY <2>1, <2>3 DEF OpenInv, OneOpenTask
    <3> QED
        BY <2>1, <2>3, <3>1, <3>2 DEF AskedNodes
  <2>5. Shrinks
    BY <2>1, <2>3 DEF Shrinks
  <2>6. \A u \in DOMAIN tasks' : u \in DOMAIN tasks /\ (tasks'[u] = "completed" => u = t \/ tasks[u] = "completed")
    BY <2>1 DEF RowsType
  <2>7. Decides({a})
    BY <2>1, <2>6 DEF Decides, Decided
  <2>8. CASE CompleteTask(<<a, c>>)
    <3>1. PICK next \in Routes[a] : Continue(WithoutCurrent(a) \o next, run.done \cup {a})
        BY <2>8 DEF CompleteTask
    <3>2. run'.queue = WithoutCurrent(a) \o next /\ run'.done = run.done \cup {a} /\ NobodyNext
        BY <1>1, <3>1, UnlockedNobody
    <3>3. run.status \notin Terminal
        BY <2>8 DEF CompleteTask, Actionable, Terminal
    <3> QED
        BY <2>2, <2>4, <2>5, <2>7, <3>2, <3>3 DEF Answered
  <2>9. CASE RejectTask(<<a, c>>)
    <3>1. /\ run'.queue = run.queue /\ run'.done = run.done \cup {a} /\ run'.lock = NoToken
          /\ run'.status \in Terminal
        BY <2>9 DEF RejectTask, Unlock, RowsType, RunRecord, Terminal
    <3> QED
        BY <2>2, <2>4, <2>5, <2>7, <3>1, UnlockedNobody DEF Refused
  <2> QED
    BY <1>2, <2>8, <2>9
<1>3. CASE TriggerWait(a)
  <2>1. /\ waits[a].status = "active" /\ tasks' = tasks
        /\ waits' = [waits EXCEPT ![a].status = "triggered"]
    BY <1>3 DEF TriggerWait
  <2>2. Kind[a] = "wait" /\ a \in ActiveWaits
    BY <2>1 DEF ArtifactKinds, ActiveWaits
  <2>3. waits'[a].status = "triggered" /\ \A n \in Nodes : n # a => waits'[n] = waits[n]
    BY <2>1 DEF RowsType, WaitRecord
  <2>4. Shrinks /\ OpenTasks' = OpenTasks
    BY <2>1, <2>3 DEF Shrinks, OpenTasks
  <2>5. a \notin AskedNodes'
    BY <2>2, <2>3, <2>4 DEF AskedNodes, ActiveWaits, OpenTasks, ArtifactKinds, RowsType
  <2>6. \A n \in Nodes : waits'[n].status = "triggered" => n = a \/ waits[n].status = "triggered"
    BY <2>3
  <2>7. Decides({a})
    BY <2>1, <2>6 DEF Decides, Decided
  <2>8. PICK next \in Routes[a] : Continue(waits[a].queue \o next, waits[a].done \cup {a})
    BY <1>3 DEF TriggerWait
  <2>9. run'.queue = waits[a].queue \o next /\ run'.done = waits[a].done \cup {a} /\ NobodyNext
    BY <1>1, <2>8, UnlockedNobody
  <2> QED
    BY <2>2, <2>4, <2>5, <2>7, <2>9 DEF Fired
<1> QED
    BY <1>2, <1>3

\* A checkpoint by the owner.
LEMMA SaveMoves ==
    ASSUME WorkersType, RowsType, WorkersType', RowsType', NEW w \in Workers,
           SaveCheckpoint(w), Fenced(wk[w].tok)
    PROVE  Saves(w)
<1>1. run'.queue = wk[w].queue /\ run'.done = wk[w].done /\ run'.lock = run.lock
    BY DEF SaveCheckpoint, RowsType, RunRecord
<1>2. Owns(w)
    BY DEF SaveCheckpoint, AfterCheckpoint, Owns, Fenced
<1>3. PICK pc \in WorkerPoints \ {"idle"} : Goto(w, pc)
    BY DEF SaveCheckpoint, AfterCheckpoint, WorkerPoints, Executing
<1>4. \A v \in Workers : wk'[v].pc # "idle" =>
          /\ wk[v].pc # "idle" /\ wk'[v].tok = wk[v].tok
          /\ wk'[v].queue = wk[v].queue /\ wk'[v].done = wk[v].done
    BY <1>2, <1>3, GotoKeeps, GotoFacts DEF Owns
<1>5. Shrinks /\ Decides({})
    BY ArtifactsShrink DEF SaveCheckpoint
<1> QED
    BY <1>1, <1>2, <1>4, <1>5, ViewsStay DEF Saves

\* Every step without a crash or a stall is one of these.
LEMMA Moves ==
    ASSUME WorkersType, RowsType, WorkersType', RowsType', LeaseInv, LeaseInv', OpenInv,
           ArtifactKinds, Custody, [Next]_vars, NoLoss'
    PROVE  \/ Rests
           \/ \E w \in Workers : Saves(w) \/ Drops(w) \/ Runs(w) \/ Asks(w) \/ Takes(w)
           \/ \E a \in Nodes : Answered(a) \/ Refused(a) \/ Fired(a)
<1> DEFINE Goal == \/ Rests
                   \/ \E w \in Workers : Saves(w) \/ Drops(w) \/ Runs(w) \/ Asks(w) \/ Takes(w)
                   \/ \E a \in Nodes : Answered(a) \/ Refused(a) \/ Fired(a)
<1>1. ASSUME NEW w \in Workers, WorkerStep(w) PROVE Goal
  <2>1. CASE OpenNode(w) \/ RunNode(w)
    BY <2>1, QueueMoves
  <2>2. CASE CreateTask(w) \/ CreateWait(w)
    BY <2>2, QuestionMoves
  <2>3. CASE SaveCheckpoint(w) /\ Fenced(wk[w].tok)
    BY <2>3, SaveMoves
  <2>4. CASE \/ LoadRun(w) \/ CloseSegment(w) \/ RefuseArtifact(w)
             \/ SaveCheckpoint(w) /\ ~Fenced(wk[w].tok)
             \/ Park(w) \/ Succeed(w) \/ FailRun(w)
             \/ CompleteJob(w) \/ RetryJob(w) \/ FailJob(w)
    BY <2>4, WorkerRests
  <2> QED
    BY <1>1, <2>1, <2>2, <2>3, <2>4 DEF WorkerStep
<1>2. ASSUME NEW w \in Workers, Crash(w) \/ ThrowError(w) PROVE Goal
    BY <1>2, WorkerRests
<1>3. ASSUME NEW w \in Workers, NEW j \in Jobs, Claim(w, j) PROVE Goal
    BY <1>3, ClaimMoves
<1>4. ASSUME \/ LockLapses \/ Reconcile \/ PauseRun \/ ResumeRun \/ UNCHANGED vars
             \/ \E target \in {"cancelled", "terminated"} : ControlRun(target)
             \/ \E w \in Workers : RenewLease(w)
             \/ \E j \in Jobs : LeaseLapses(j)
             \/ \E t \in Nodes \X Copies : ClaimTask(t) \/ ReturnTask(t)
      PROVE  Goal
    BY <1>4, OutsideRests
<1>5. ASSUME NEW t \in Nodes \X Copies, CompleteTask(t) \/ RejectTask(t) PROVE Goal
  <2>1. PICK a \in Nodes, c \in Copies : t = <<a, c>>
    OBVIOUS
  <2>2. \E d \in Copies : CompleteTask(<<a, d>>) \/ RejectTask(<<a, d>>)
    BY <1>5, <2>1
  <2> QED
    BY <2>2, AnswerMoves
<1>6. ASSUME NEW n \in Nodes, TriggerWait(n) PROVE Goal
    BY <1>6, AnswerMoves
<1> HIDE DEF Goal
<1>7. Goal
    BY <1>1, <1>2, <1>3, <1>4, <1>5, <1>6, DomainOfTasks DEF Next, Person
<1> QED
    BY <1>7 DEF Goal

-----------------------------------------------------------------------------
(* One question at a time, and nothing but it leads to another.            *)

\* Both views of the queue hold at most one node that leads to a question ...
OneAskAhead ==
    /\ OneAsk(run.queue)
    /\ \A w \in Workers : Owns(w) => OneAsk(wk[w].queue)

\* ... which while a question is open is the node that put it, at the head.
AskerAhead ==
    \A a \in AskedNodes :
        /\ BehindAsk(run.queue, a)
        /\ \A w \in Workers : Owns(w) => BehindAsk(wk[w].queue, a)

OneQuestion == \A a, b \in AskedNodes : a = b

\* Behind a wait nobody else is asked but by what follows it.
StoredQuiet == \A n \in ActiveWaits : AllQuiet(waits[n].queue)

AskInv == OneAskAhead /\ AskerAhead /\ OneQuestion /\ StoredQuiet

\* Every answer is in the run's context, and in what an active wait stored.
Recorded ==
    /\ Decided \subseteq run.done
    /\ \A n \in ActiveWaits : Decided \subseteq waits[n].done

\* Only nodes of the two asking kinds wait for an answer.
LEMMA AskersAsk ==
    ASSUME RowsType, ArtifactKinds
    PROVE  /\ \A a \in AskedNodes : a \in Nodes /\ Kind[a] \in {"operate", "wait"}
           /\ \A a \in ActiveWaits : a \in AskedNodes /\ Kind[a] = "wait"
           /\ \A t \in OpenTasks : t[1] \in AskedNodes /\ Kind[t[1]] = "operate"
<1>1. \A a \in ActiveWaits : a \in Nodes /\ Kind[a] = "wait"
    BY DEF ActiveWaits, ArtifactKinds
<1>2. \A t \in OpenTasks : t[1] \in Nodes /\ Kind[t[1]] = "operate"
  <2> SUFFICES ASSUME NEW t \in OpenTasks PROVE t[1] \in Nodes /\ Kind[t[1]] = "operate"
    OBVIOUS
  <2>1. t \in Nodes \X Copies /\ tasks[t] # "absent"
    BY DEF OpenTasks, RowsType
  <2> QED
    BY <2>1 DEF ArtifactKinds
<1> QED
    BY <1>1, <1>2 DEF AskedNodes

\* The queues of the run, of its owner and of the waits are queues.
LEMMA QueuesTyped ==
    ASSUME WorkersType, RowsType
    PROVE  /\ run.queue \in Seq(Nodes)
           /\ \A w \in Workers : wk[w].queue \in Seq(Nodes)
           /\ \A n \in Nodes : waits[n].queue \in Seq(Nodes)
BY DEF WorkersType, RowsType, WorkerMemory, RunRecord, WaitRecord

\* What is left of a queue once the node that asks is taken away is quiet.
LEMMA WithoutAsker ==
    ASSUME WorkersType, RowsType, NEW a \in Nodes, BehindAsk(run.queue, a)
    PROVE  WithoutCurrent(a) \in Seq(Nodes) /\ AllQuiet(WithoutCurrent(a))
<1>1. run.queue \in Seq(Nodes)
    BY QueuesTyped
<1>2. CASE run.queue # <<>> /\ Head(run.queue) = a
    BY <1>1, <1>2, TailAsks, QueueTypes DEF WithoutCurrent
<1>3. CASE run.queue # <<>> /\ Head(run.queue) # a
    BY <1>1, <1>3, TailPlaces DEF WithoutCurrent, BehindAsk, AllQuiet
<1>4. CASE run.queue = <<>>
    BY <1>1, <1>4 DEF WithoutCurrent, AllQuiet
<1> QED
    BY <1>2, <1>3, <1>4

\* Resting, saving and claiming keep the shape of what lies ahead.
LEMMA AskStays ==
    ASSUME WorkersType, RowsType, RowsType', OneAsking, AskInv,
           Rests \/ \E w \in Workers : Saves(w) \/ Takes(w)
    PROVE  AskInv'
<1>1. AskedNodes' \subseteq AskedNodes /\ Shrinks
    BY AskedFacts DEF Rests, Saves, Takes
<1>2. /\ \/ run'.queue = run.queue
         \/ \E w \in Workers : Owns(w) /\ run'.queue = wk[w].queue
      /\ \A v \in Workers : Owns(v)' =>
            \/ Owns(v) /\ wk'[v].queue = wk[v].queue
            \/ wk'[v].queue = run.queue
    BY DEF Rests, Saves, Takes, RunStays, OwnersStay
<1>3. OneAskAhead'
    BY <1>2 DEF AskInv, OneAskAhead
<1>4. AskerAhead'
    BY <1>1, <1>2 DEF AskInv, AskerAhead
<1>5. OneQuestion' /\ StoredQuiet'
    BY <1>1, AskedFacts DEF AskInv, OneQuestion, StoredQuiet, Shrinks, ActiveWaits
<1> QED
    BY <1>3, <1>4, <1>5 DEF AskInv

\* So does dropping the head of the queue.
LEMMA AskDrops ==
    ASSUME WorkersType, RowsType, RowsType', OneAsking, AskInv, NEW w \in Workers, Drops(w)
    PROVE  AskInv'
<1>1. AskedNodes' \subseteq AskedNodes /\ Shrinks
    BY AskedFacts DEF Drops
<1>2. /\ Owns(w) /\ wk[w].queue \in Seq(Nodes) /\ wk[w].queue # <<>>
      /\ wk'[w].queue = Tail(wk[w].queue) /\ run'.queue = run.queue
      /\ \A v \in Workers : Owns(v)' => v = w
    BY QueuesTyped DEF Drops, OnlyOwner, RunStays
<1>3. OneAskAhead'
    BY <1>2, TailAsks DEF AskInv, OneAskAhead
<1>4. \A a \in AskedNodes : BehindAsk(Tail(wk[w].queue), a)
    BY <1>2, TailAsks DEF AskInv, AskerAhead, AllQuiet, BehindAsk
<1>5. AskerAhead'
    BY <1>1, <1>2, <1>4 DEF AskInv, AskerAhead
<1>6. OneQuestion' /\ StoredQuiet'
    BY <1>1, AskedFacts DEF AskInv, OneQuestion, StoredQuiet, Shrinks, ActiveWaits
<1> QED
    BY <1>3, <1>5, <1>6 DEF AskInv

\* Executing a node replaces it by what it leads to.
LEMMA AskRuns ==
    ASSUME WorkersType, RowsType, RowsType', ArtifactKinds, OneAsking, AskInv,
           NEW w \in Workers, Runs(w)
    PROVE  AskInv'
<1> DEFINE q == wk[w].queue
           n == Head(q)
<1>1. AskedNodes' \subseteq AskedNodes /\ Shrinks
    BY AskedFacts DEF Runs
<1>2. /\ Owns(w) /\ q \in Seq(Nodes) /\ q # <<>> /\ n \in Nodes /\ Tail(q) \in Seq(Nodes)
      /\ run'.queue = run.queue /\ \A v \in Workers : Owns(v)' => v = w
      /\ Kind[n] \in {"auto", "state", "end"}
    BY QueuesTyped, QueueTypes DEF Runs, OnlyOwner, RunStays, WorkersType, HasHead
<1>3. PICK next \in Routes[n] : wk'[w].queue = Tail(q) \o next
    BY DEF Runs
<1>4. next \in Seq(Nodes)
    BY <1>2, AheadFacts
<1>5. OneAsk(q)
    BY <1>2 DEF AskInv, OneAskAhead
<1>6. OneAsk(next)
    BY <1>2 DEF OneAsking, OneAsk
<1> HIDE DEF q, n
<1>7. OneAsk(Tail(q) \o next)
  <2>1. CASE Quiet(n)
    BY <1>2, <1>4, <1>5, <2>1, QuietFacts, TailAsks, JoinAsks DEF AllQuiet
  <2>2. CASE ~Quiet(n)
    BY <1>2, <1>4, <1>5, <1>6, <2>2, TailAsks, JoinAsks DEF n
  <2> QED
    BY <2>1, <2>2
<1>8. OneAskAhead'
    BY <1>2, <1>3, <1>7 DEF AskInv, OneAskAhead
<1>9. \A a \in AskedNodes : BehindAsk(Tail(q) \o next, a)
  <2> SUFFICES ASSUME NEW a \in AskedNodes PROVE BehindAsk(Tail(q) \o next, a)
    OBVIOUS
  <2>1. BehindAsk(q, a)
    BY <1>2 DEF AskInv, AskerAhead, q
  <2>2. Kind[a] \in {"operate", "wait"}
    BY AskersAsk
  <2>3. Quiet(n)
    BY <1>2, <2>1, <2>2, TailPlaces DEF BehindAsk, n
  <2>4. AllQuiet(Tail(q)) /\ AllQuiet(next)
    BY <1>2, <1>3, <2>1, <2>3, TailAsks, QuietFacts DEF AllQuiet
  <2>5. AllQuiet(Tail(q) \o next) /\ Tail(q) \o next \in Seq(Nodes)
    BY <1>2, <1>4, <2>4, JoinAsks, QueueJoins
  <2> QED
    BY <2>5 DEF AllQuiet, BehindAsk
<1>10. AskerAhead'
    BY <1>1, <1>2, <1>3, <1>9 DEF AskInv, AskerAhead
<1>11. OneQuestion' /\ StoredQuiet'
    BY <1>1, AskedFacts DEF AskInv, OneQuestion, StoredQuiet, Shrinks, ActiveWaits
<1> QED
    BY <1>8, <1>10, <1>11 DEF AskInv

\* The inductive invariant on both sides of a step, regrouped.
LEMMA BothParts ==
    ASSUME IInv, IInv'
    PROVE  /\ WorkersType /\ RowsType /\ LeaseInv /\ OpenInv
           /\ WorkersType' /\ RowsType' /\ LeaseInv' /\ OpenInv'
<1>1. WorkersType /\ RowsType /\ LeaseInv /\ OpenInv
    BY Parts
<1>2. WorkersType' /\ RowsType'
    BY DEF IInv, TypeOK, WorkersType, RowsType
<1> QED
    BY <1>1, <1>2 DEF IInv

\* Putting a question: no other was open, and the rest of the queue is quiet.
LEMMA AskAsks ==
    ASSUME WorkersType, RowsType, RowsType', ArtifactKinds, OwnerInNode, OneAsking, AskInv,
           NEW w \in Workers, Asks(w)
    PROVE  AskInv'
<1> DEFINE q == wk[w].queue
           n == Head(q)
<1>1. /\ Owns(w) /\ q \in Seq(Nodes) /\ q # <<>> /\ n \in Nodes /\ Tail(q) \in Seq(Nodes)
      /\ run.queue = q /\ run'.queue = q /\ \A v \in Workers : Owns(v)' => v = w
      /\ Kind[n] \in {"operate", "wait"} /\ n \notin AskedNodes
      /\ AskedNodes' \subseteq AskedNodes \cup {n} /\ wk'[w].queue = Tail(q)
    BY QueuesTyped, QueueTypes DEF Asks, OnlyOwner, RunStays, WorkersType, HasHead, OwnerInNode
<1>2. ~Quiet(n) /\ OneAsk(q) /\ q[1] = n /\ 1 \in DOMAIN q
    BY <1>1, QuietFacts, TailPlaces DEF AskInv, OneAskAhead
<1>3. AskedNodes = {}
    BY <1>1, <1>2 DEF AskInv, AskerAhead, BehindAsk
<1>4. AllQuiet(Tail(q)) /\ BehindAsk(q, n)
    BY <1>1, <1>2, TailAsks DEF OneAsk, BehindAsk
<1>5. \A m \in ActiveWaits' : waits'[m].queue = Tail(q)
    BY <1>3, AskedFacts DEF Asks, ActiveWaits
<1> HIDE DEF q, n
<1>6. StoredQuiet'
    BY <1>4, <1>5 DEF StoredQuiet
<1>7. AskedNodes' \subseteq {n}
    BY <1>1, <1>3
<1>8. OneQuestion'
    BY <1>7 DEF OneQuestion
<1>9. OneAsk(Tail(q)) /\ BehindAsk(Tail(q), n)
    BY <1>1, <1>4, JoinAsks
<1>10. OneAskAhead'
    BY <1>1, <1>2, <1>9 DEF OneAskAhead
<1>11. AskerAhead'
    BY <1>1, <1>4, <1>7, <1>9 DEF AskerAhead
<1> QED
    BY <1>6, <1>8, <1>10, <1>11 DEF AskInv

\* An answer closes the only question; the run continues with one branch that may ask.
LEMMA AskAnswers ==
    ASSUME WorkersType, RowsType, RowsType', OneAsking, AskInv,
           NEW a \in Nodes, Answered(a) \/ Refused(a) \/ Fired(a)
    PROVE  AskInv' /\ AskedNodes' = {}
<1>1. AskedNodes' \subseteq AskedNodes /\ a \in AskedNodes /\ a \notin AskedNodes' /\ NobodyNext
    BY AskedFacts DEF Answered, Refused, Fired
<1>2. AskedNodes' = {}
    BY <1>1 DEF AskInv, OneQuestion
<1>3. ActiveWaits' = {}
    BY <1>2 DEF AskedNodes
<1>4. OneAsk(run'.queue)
  <2>1. ASSUME NEW p \in Seq(Nodes), AllQuiet(p), NEW next \in Routes[a]
        PROVE  OneAsk(p \o next)
    <3>1. next \in Seq(Nodes) /\ OneAsk(next)
        BY AheadFacts DEF OneAsking, OneAsk
    <3> QED
        BY <2>1, <3>1, JoinAsks
  <2>2. CASE Answered(a)
    BY <1>1, <2>1, <2>2, WithoutAsker DEF Answered, AskInv, AskerAhead
  <2>3. CASE Refused(a)
    BY <2>3 DEF Refused, AskInv, OneAskAhead
  <2>4. CASE Fired(a)
    BY <2>1, <2>4, QueuesTyped DEF Fired, AskInv, StoredQuiet
  <2> QED
    BY <2>2, <2>3, <2>4
<1>5. OneAskAhead'
    BY <1>1, <1>4 DEF OneAskAhead, NobodyNext
<1> QED
    BY <1>2, <1>3, <1>5 DEF AskInv, AskerAhead, OneQuestion, StoredQuiet

\* So every step keeps at most one question open.
LEMMA AskStep ==
    ASSUME IInv, IInv', ArtifactKinds, Custody, OneAsking, AskInv, [Next]_vars, NoLoss'
    PROVE  AskInv'
<1>1. WorkersType /\ RowsType /\ WorkersType' /\ RowsType' /\ LeaseInv /\ LeaseInv' /\ OpenInv
    BY BothParts
<1> QED
    BY <1>1, Moves, AskStays, AskDrops, AskRuns, AskAsks, AskAnswers DEF Custody

\* And every step keeps the answers.
LEMMA RecordedStep ==
    ASSUME IInv, IInv', ArtifactKinds, Custody, OneAsking, AskInv, Recorded, [Next]_vars, NoLoss'
    PROVE  Recorded'
<1>1. WorkersType /\ RowsType /\ WorkersType' /\ RowsType' /\ LeaseInv /\ LeaseInv' /\ OpenInv
    BY BothParts
<1>2. ASSUME Rests \/ \E w \in Workers : Saves(w) \/ Drops(w) \/ Runs(w) \/ Takes(w)
      PROVE  Recorded'
  <2>1. Shrinks /\ Decided' \subseteq Decided
    BY <1>2 DEF Rests, Saves, Drops, Runs, Takes, Decides
  <2>2. run.done \subseteq run'.done
    BY <1>2 DEF Rests, Saves, Drops, Runs, Takes, RunStays, Custody, OwnerAhead
  <2> QED
    BY <2>1, <2>2 DEF Recorded, Shrinks, ActiveWaits
<1>3. ASSUME NEW w \in Workers, Asks(w)
      PROVE  Recorded'
  <2>1. Decided' \subseteq Decided /\ run'.done = run.done /\ run.done \subseteq wk[w].done
    BY <1>3 DEF Asks, Decides, RunStays, OnlyOwner, Custody, OwnerAhead
  <2>2. \A n \in ActiveWaits' : waits'[n] = waits[n] \/ waits'[n].done = wk[w].done
    BY <1>3 DEF Asks, ActiveWaits
  <2> QED
    BY <2>1, <2>2 DEF Recorded, ActiveWaits
<1>4. ASSUME NEW a \in Nodes, Answered(a) \/ Refused(a) \/ Fired(a)
      PROVE  Recorded'
  <2>1. ActiveWaits' = {}
    BY <1>1, <1>4, AskAnswers DEF AskedNodes
  <2>2. Decided' \subseteq Decided \cup {a}
    BY <1>4 DEF Answered, Refused, Fired, Decides
  <2>3. Decided \cup {a} \subseteq run'.done
    BY <1>4 DEF Answered, Refused, Fired, Recorded
  <2> QED
    BY <2>1, <2>2, <2>3 DEF Recorded
<1> QED
    BY <1>1, <1>2, <1>3, <1>4, Moves

\* The kinds of what was asked, whatever happened.
THEOREM KindsInvariant == Spec => []ArtifactKinds
<1>1. Init => ArtifactKinds
    BY DEF Init, ArtifactKinds
<1>2. IInv /\ IInv' /\ ArtifactKinds /\ [Next]_vars => ArtifactKinds'
    BY BothParts, KindsStep
<1> QED
    BY <1>1, <1>2, Invariance, PTL DEF Spec

\* One question at a time, and every answer in the context.
AskedInv == NoLoss /\ OneAsking => AskInv /\ Recorded

\* If no two successors selected together both lead to somebody being asked, then as long as
\* nobody crashes or stalls at most one question is open and no answer is lost, whatever
\* the number of workers and whatever throws and is retried (executeRunSegment, Continue).
THEOREM OneQuestionAtATime == Spec => []AskedInv
<1>1. Init => AskedInv
  <2> SUFFICES ASSUME Init PROVE AskInv /\ Recorded
    BY DEF AskedInv
  <2>1. AskedNodes = {} /\ ActiveWaits = {} /\ Decided = {}
    BY DEF Init, AskedNodes, OpenTasks, ActiveWaits, Decided
  <2>2. run.queue = <<StartNode>> /\ \A w \in Workers : ~Owns(w)
    BY DEF Init, IdleWorker, Owns
  <2>3. OneAsk(<<StartNode>>)
    BY DEF OneAsk
  <2> QED
    BY <2>1, <2>2, <2>3 DEF AskInv, OneAskAhead, AskerAhead, OneQuestion, StoredQuiet, Recorded
<1>2. /\ IInv /\ IInv' /\ ArtifactKinds /\ CustodyInv /\ AskedInv /\ [Next]_vars
      => AskedInv'
    BY Parts, LossesStay, AskStep, RecordedStep DEF AskedInv, CustodyInv
<1> QED
    BY <1>1, <1>2, Invariance, KindsInvariant, CustodyInvariant, PTL DEF Spec

\* No decision and no trigger is lost on its way into the context of the run, if no two
\* successors selected together both ask and no worker has died or stalled; with two
\* questions side by side, or a crash between the checkpoint of a decision and the next,
\* there are counterexamples (persistWorkflowWait, completeCurrentHumanCheckpoint).
THEOREM DecisionsReachContext == Spec => [](OneAsking /\ NoLoss => DecisionsRecorded)
<1>1. IInv /\ AskedInv => (OneAsking /\ NoLoss => DecisionsRecorded)
  <2> SUFFICES ASSUME IInv, AskedInv, OneAsking, NoLoss PROVE DecisionsRecorded
    OBVIOUS
  <2>1. Decided \subseteq run.done
    BY DEF AskedInv, Recorded
  <2> QED
    BY <2>1 DEF Decided, DecisionsRecorded
<1> QED
    BY <1>1, Invariance, OneQuestionAtATime, PTL

-----------------------------------------------------------------------------
(* One visit: what lies ahead has not been done.                           *)

Ends == {n \in Nodes : Kind[n] = "end"}

\* What an execution at n may still do, but for ending.
Future(n) == Ahead(n) \ Ends

\* No path of the definition leads back to a node, and successors selected together share
\* nothing but the end.
OneVisit ==
    \A n \in Nodes : \A next \in Routes[n] : \A i \in DOMAIN next :
        /\ n \notin Ahead(next[i])
        /\ \A k \in DOMAIN next : i # k => Ahead(next[i]) \cap Ahead(next[k]) \subseteq Ends

\* The futures of the nodes of a queue are disjoint and nothing in them is done.
Apart(q, d) ==
    /\ \A i, k \in DOMAIN q : i # k => Future(q[i]) \cap Future(q[k]) = {}
    /\ \A i \in DOMAIN q : Future(q[i]) \cap d = {}

FarFrom(q, a) == \A i \in DOMAIN q : Future(q[i]) \cap Future(a) = {}

\* The future of a node that asks is not done either, nor in the queue but for the node itself.
AskApart(q, d, a) ==
    /\ Future(a) \cap d = {}
    /\ \A i \in DOMAIN q : (i = 1 /\ q[i] = a) \/ Future(q[i]) \cap Future(a) = {}

\* A shorter queue is apart, too, and so are its nodes from the head taken away.
LEMMA TailApart ==
    ASSUME NEW q \in Seq(Nodes), q # <<>>, NEW d
    PROVE  /\ Apart(q, d) => /\ Apart(Tail(q), d) /\ FarFrom(Tail(q), Head(q))
                             /\ AskApart(q, d, Head(q)) /\ AskApart(Tail(q), d, Head(q))
           /\ \A a : AskApart(q, d, a) =>
                 /\ AskApart(Tail(q), d, a) /\ FarFrom(Tail(q), a)
                 /\ Head(q) # a => FarFrom(q, a) /\ Future(Head(q)) \cap Future(a) = {}
<1>1. /\ 1 \in DOMAIN q /\ q[1] = Head(q)
      /\ \A i \in DOMAIN Tail(q) : i + 1 \in DOMAIN q /\ i + 1 # 1 /\ Tail(q)[i] = q[i + 1] /\ i \in Nat
    BY TailPlaces
<1>2. ASSUME Apart(q, d)
      PROVE  /\ Apart(Tail(q), d) /\ FarFrom(Tail(q), Head(q))
             /\ AskApart(q, d, Head(q)) /\ AskApart(Tail(q), d, Head(q))
  <2>1. Apart(Tail(q), d)
    <3>1. ASSUME NEW i \in DOMAIN Tail(q), NEW k \in DOMAIN Tail(q), i # k
          PROVE  Future(Tail(q)[i]) \cap Future(Tail(q)[k]) = {}
      <4>1. i + 1 \in DOMAIN q /\ k + 1 \in DOMAIN q /\ i + 1 # k + 1
        BY <1>1, <3>1
      <4> QED
        BY <1>1, <1>2, <4>1 DEF Apart
    <3>2. \A i \in DOMAIN Tail(q) : Future(Tail(q)[i]) \cap d = {}
        BY <1>1, <1>2 DEF Apart
    <3> QED
        BY <3>1, <3>2 DEF Apart
  <2>2. FarFrom(Tail(q), Head(q))
    BY <1>1, <1>2 DEF Apart, FarFrom
  <2>3. Future(Head(q)) \cap d = {}
    BY <1>1, <1>2 DEF Apart
  <2>4. \A i \in DOMAIN q : (i = 1 /\ q[i] = Head(q)) \/ Future(q[i]) \cap Future(Head(q)) = {}
    BY <1>1, <1>2 DEF Apart
  <2> QED
    BY <2>1, <2>2, <2>3, <2>4 DEF AskApart, FarFrom
<1>3. ASSUME NEW a, AskApart(q, d, a)
      PROVE  /\ AskApart(Tail(q), d, a) /\ FarFrom(Tail(q), a)
             /\ Head(q) # a => FarFrom(q, a) /\ Future(Head(q)) \cap Future(a) = {}
  <2>1. FarFrom(Tail(q), a)
    BY <1>1, <1>3 DEF AskApart, FarFrom
  <2>2. AskApart(Tail(q), d, a)
    BY <1>3, <2>1 DEF AskApart, FarFrom
  <2>3. Head(q) # a => FarFrom(q, a) /\ Future(Head(q)) \cap Future(a) = {}
    BY <1>1, <1>3 DEF AskApart, FarFrom
  <2> QED
    BY <2>1, <2>2, <2>3
<1> QED
    BY <1>2, <1>3

\* A node is in its own future unless it ends the run, and its successors' futures are parts
\* of its own that leave it out.
LEMMA FutureFacts ==
    ASSUME NEW n \in Nodes
    PROVE  /\ n \in Future(n) \/ n \in Ends
           /\ \A m : Future(m) \cap Ends = {}
           /\ \A next \in Routes[n] : \A i \in DOMAIN next :
                 /\ Future(next[i]) \subseteq Future(n)
                 /\ OneVisit => n \notin Future(next[i])
                 /\ OneVisit => \A k \in DOMAIN next : i # k => Future(next[i]) \cap Future(next[k]) = {}
BY AheadFacts DEF Future, OneVisit

\* Replacing a node by its successors keeps a queue apart from what is done, the node included.
LEMMA JoinApart ==
    ASSUME OneVisit, NEW n \in Nodes, NEW next \in Routes[n], NEW p \in Seq(Nodes), NEW d,
           Apart(p, d), FarFrom(p, n), Future(n) \cap d = {}
    PROVE  Apart(p \o next, d \cup {n})
<1> DEFINE q == p \o next
<1>1. next \in Seq(Nodes)
    BY AheadFacts
<1>2. \A i \in DOMAIN q :
         \/ i \in DOMAIN p /\ q[i] = p[i]
         \/ i \notin DOMAIN p /\ i - Len(p) \in DOMAIN next /\ q[i] = next[i - Len(p)]
            /\ i \in Nat /\ Len(p) \in Nat
    BY <1>1, JoinPlaces
<1> HIDE DEF q
<1>3. ASSUME NEW i \in DOMAIN q, NEW k \in DOMAIN q, i # k
      PROVE  Future(q[i]) \cap Future(q[k]) = {}
  <2>1. CASE i \in DOMAIN p /\ k \in DOMAIN p
    BY <1>2, <1>3, <2>1 DEF Apart
  <2>2. CASE i \in DOMAIN p /\ k \notin DOMAIN p
    <3>1. q[i] = p[i] /\ k - Len(p) \in DOMAIN next /\ q[k] = next[k - Len(p)]
        BY <1>2, <2>2
    <3> QED
        BY <2>2, <3>1, FutureFacts DEF FarFrom
  <2>3. CASE i \notin DOMAIN p /\ k \in DOMAIN p
    <3>1. q[k] = p[k] /\ i - Len(p) \in DOMAIN next /\ q[i] = next[i - Len(p)]
        BY <1>2, <2>3
    <3> QED
        BY <2>3, <3>1, FutureFacts DEF FarFrom
  <2>4. CASE i \notin DOMAIN p /\ k \notin DOMAIN p
    <3>1. /\ i - Len(p) \in DOMAIN next /\ q[i] = next[i - Len(p)]
          /\ k - Len(p) \in DOMAIN next /\ q[k] = next[k - Len(p)]
          /\ i \in Nat /\ k \in Nat /\ Len(p) \in Nat
        BY <1>2, <2>4
    <3>2. i - Len(p) # k - Len(p)
        BY <1>3, <3>1
    <3> QED
        BY <3>1, <3>2, FutureFacts
  <2> QED
    BY <2>1, <2>2, <2>3, <2>4
<1>4. ASSUME NEW i \in DOMAIN q
      PROVE  Future(q[i]) \cap (d \cup {n}) = {}
  <2>1. CASE i \in DOMAIN p
    BY <1>2, <2>1, FutureFacts DEF Apart, FarFrom
  <2>2. CASE i \notin DOMAIN p
    <3>1. i - Len(p) \in DOMAIN next /\ q[i] = next[i - Len(p)]
        BY <1>2, <2>2
    <3> QED
        BY <3>1, FutureFacts
  <2> QED
    BY <2>1, <2>2
<1> QED
    BY <1>3, <1>4 DEF Apart, q

\* And it stays apart from somebody who asks elsewhere.
LEMMA JoinAskApart ==
    ASSUME OneVisit, NEW n \in Nodes, NEW next \in Routes[n], NEW p \in Seq(Nodes), NEW d, NEW a,
           FarFrom(p, a), Future(n) \cap Future(a) = {}, Future(a) \cap d = {}
    PROVE  AskApart(p \o next, d \cup {n}, a)
<1> DEFINE q == p \o next
<1>1. next \in Seq(Nodes)
    BY AheadFacts
<1>2. \A i \in DOMAIN q :
         \/ i \in DOMAIN p /\ q[i] = p[i]
         \/ i \notin DOMAIN p /\ i - Len(p) \in DOMAIN next /\ q[i] = next[i - Len(p)]
    BY <1>1, JoinPlaces
<1> HIDE DEF q
<1>3. \A i \in DOMAIN q : Future(q[i]) \cap Future(a) = {}
    BY <1>2, FutureFacts DEF FarFrom
<1>4. Future(a) \cap (d \cup {n}) = {}
    BY FutureFacts
<1> QED
    BY <1>3, <1>4 DEF AskApart, q

\* Only the end of the run withdraws a question.
CancelledAtEnd ==
    /\ \A t \in Nodes \X Copies : tasks[t] = "cancelled" => run.status \in Terminal
    /\ \A n \in Nodes : waits[n].status = "cancelled" => run.status \in Terminal

\* A run that is over stays over, and its row as it is.
LEMMA TerminalStays ==
    ASSUME WorkersType, RowsType, LeaseInv, [Next]_vars, run.status \in Terminal
    PROVE  run' = run /\ run'.status \in Terminal
<1>1. run.status \notin Claimable /\ run.status # "blocked" /\ ~Actionable
    BY DEF Terminal, Claimable, Actionable
<1>2. CASE run' = run
    BY <1>2
<1>3. ASSUME NEW w \in Workers,
             \/ WorkerStep(w) \/ RenewLease(w) \/ Crash(w) \/ ThrowError(w)
             \/ \E j \in Jobs : Claim(w, j)
      PROVE  run' = run
    BY <1>1, <1>3, WorkersWriteNothing
<1>4. ASSUME \/ LockLapses \/ Reconcile \/ UNCHANGED vars
             \/ \E j \in Jobs : LeaseLapses(j)
             \/ \E n \in Nodes : TriggerWait(n)
             \/ \E t \in Nodes \X Copies : CompleteTask(t) \/ RejectTask(t)
      PROVE  run' = run
    BY <1>1, <1>4, OthersWriteNothing
<1>5. ASSUME \/ PauseRun \/ ResumeRun
             \/ \E target \in {"cancelled", "terminated"} : ControlRun(target)
             \/ \E t \in Nodes \X Copies : ClaimTask(t) \/ ReturnTask(t)
      PROVE  run' = run
    BY <1>1, <1>5 DEF PauseRun, ResumeRun, ControlRun, ClaimTask, ReturnTask, Terminal
<1> QED
    BY <1>2, <1>3, <1>4, <1>5, DomainOfTasks DEF Next, Person

\* A step withdraws a question only if it ends the run.
LEMMA CancelledStep ==
    ASSUME WorkersType, RowsType, RowsType', LeaseInv, CancelledAtEnd, [Next]_vars
    PROVE  CancelledAtEnd'
<1>1. ASSUME \A t \in Nodes \X Copies : tasks'[t] = "cancelled" => tasks[t] = "cancelled",
             \A n \in Nodes : waits'[n].status = "cancelled" => waits[n].status = "cancelled"
      PROVE  CancelledAtEnd'
    BY <1>1, TerminalStays DEF CancelledAtEnd
<1>2. CASE tasks' = tasks /\ waits' = waits
    BY <1>1, <1>2
<1>3. ASSUME NEW s \in Terminal, run' = Unlock(run, s)
      PROVE  CancelledAtEnd'
    BY <1>3, UnlockVacates DEF Vacated, CancelledAtEnd
<1>4. ASSUME NEW t \in Nodes \X Copies,
             ClaimTask(t) \/ ReturnTask(t) \/ CompleteTask(t) \/ RejectTask(t)
      PROVE  CancelledAtEnd'
    BY <1>1, <1>4 DEF ClaimTask, ReturnTask, CompleteTask, RejectTask, RowsType
<1>5. ASSUME NEW n \in Nodes, TriggerWait(n)
      PROVE  CancelledAtEnd'
    BY <1>1, <1>5 DEF TriggerWait, RowsType, WaitRecord
<1>6. ASSUME NEW w \in Workers, CreateTask(w)
      PROVE  CancelledAtEnd'
    BY <1>1, <1>6 DEF CreateTask, RowsType
<1>7. ASSUME NEW w \in Workers, CreateWait(w)
      PROVE  CancelledAtEnd'
    BY <1>1, <1>7 DEF CreateWait, RowsType
<1>8. ASSUME NEW w \in Workers, WorkerStep(w), ~CreateTask(w), ~CreateWait(w)
      PROVE  CancelledAtEnd'
    BY <1>2, <1>3, <1>8
    DEF WorkerStep, LoadRun, OpenNode, CloseSegment, SaveCheckpoint, RunNode, RefuseArtifact, Park,
        Succeed, CompleteJob, RetryJob, FailRun, FailJob, Terminal
<1>9. ASSUME \/ LockLapses \/ Reconcile \/ PauseRun \/ ResumeRun \/ UNCHANGED vars
             \/ \E target \in {"cancelled", "terminated"} : ControlRun(target)
             \/ \E w \in Workers : RenewLease(w) \/ Crash(w) \/ ThrowError(w)
                                   \/ \E j \in Jobs : Claim(w, j)
             \/ \E j \in Jobs : LeaseLapses(j)
      PROVE  CancelledAtEnd'
    BY <1>2, <1>3, <1>9
    DEF LockLapses, Reconcile, ReconcileTerminal, ReconcileExhausted, PauseRun, ResumeRun, vars,
        ControlRun, RenewLease, Crash, ThrowError, Claim, LeaseLapses, Terminal
<1> QED
    BY <1>4, <1>5, <1>6, <1>7, <1>8, <1>9, DomainOfTasks DEF Next, Person

\* Questions are withdrawn only when the run ends, whatever happened.
THEOREM CancelledInvariant == Spec => []CancelledAtEnd
<1>1. Init => CancelledAtEnd
    BY DEF Init, CancelledAtEnd
<1>2. IInv /\ IInv' /\ CancelledAtEnd /\ [Next]_vars => CancelledAtEnd'
    BY BothParts, CancelledStep
<1> QED
    BY <1>1, <1>2, Invariance, PTL DEF Spec

-----------------------------------------------------------------------------

\* What lies ahead in the views of the run and its owner has not been done ...
ViewsApart ==
    /\ run.status \notin Terminal => Apart(run.queue, run.done)
    /\ \A w \in Workers : Owns(w) => Apart(wk[w].queue, wk[w].done)

\* ... and neither has what the open question leads to.
AskersApart ==
    \A a \in AskedNodes :
        /\ AskApart(run.queue, run.done, a)
        /\ \A w \in Workers : Owns(w) => AskApart(wk[w].queue, wk[w].done, a)

\* The same for the context a wait stored.
StoredApart ==
    \A n \in ActiveWaits :
        Apart(waits[n].queue, waits[n].done) /\ AskApart(waits[n].queue, waits[n].done, n)

VisitInv == ViewsApart /\ AskersApart /\ StoredApart

\* Resting, saving and claiming keep the visits apart.
LEMMA VisitStays ==
    ASSUME WorkersType, RowsType, RowsType', LeaseInv, VisitInv, [Next]_vars,
           Rests \/ \E w \in Workers : Saves(w) \/ Takes(w)
    PROVE  VisitInv'
<1>1. AskedNodes' \subseteq AskedNodes /\ Shrinks
    BY AskedFacts DEF Rests, Saves, Takes
<1>2. run'.status \notin Terminal => run.status \notin Terminal
    BY TerminalStays
<1>3. /\ \/ RunStays
         \/ \E w \in Workers : Owns(w) /\ run'.queue = wk[w].queue /\ run'.done = wk[w].done
      /\ \A v \in Workers : Owns(v)' =>
            \/ Owns(v) /\ wk'[v].queue = wk[v].queue /\ wk'[v].done = wk[v].done
            \/ run.status \notin Terminal /\ wk'[v].queue = run.queue /\ wk'[v].done = run.done
    BY DEF Rests, Saves, Takes, OwnersStay
<1>4. ViewsApart'
    BY <1>2, <1>3 DEF VisitInv, ViewsApart, RunStays
<1>5. AskersApart'
    BY <1>1, <1>3 DEF VisitInv, AskersApart, RunStays
<1>6. StoredApart'
    BY <1>1, AskedFacts DEF VisitInv, StoredApart, Shrinks, ActiveWaits
<1> QED
    BY <1>4, <1>5, <1>6 DEF VisitInv

\* So does dropping the head of the queue ...
LEMMA VisitDrops ==
    ASSUME WorkersType, RowsType, RowsType', LeaseInv, VisitInv, [Next]_vars,
           NEW w \in Workers, Drops(w)
    PROVE  VisitInv'
<1>1. AskedNodes' \subseteq AskedNodes /\ Shrinks
    BY AskedFacts DEF Drops
<1>2. /\ Owns(w) /\ wk[w].queue \in Seq(Nodes) /\ wk[w].queue # <<>>
      /\ wk'[w].queue = Tail(wk[w].queue) /\ wk'[w].done = wk[w].done
      /\ RunStays /\ \A v \in Workers : Owns(v)' => v = w
    BY QueuesTyped DEF Drops, OnlyOwner
<1>3. run'.status \notin Terminal => run.status \notin Terminal
    BY TerminalStays
<1>4. ViewsApart'
    BY <1>2, <1>3, TailApart DEF VisitInv, ViewsApart, RunStays
<1>5. AskersApart'
    BY <1>1, <1>2, TailApart DEF VisitInv, AskersApart, RunStays
<1>6. StoredApart'
    BY <1>1, AskedFacts DEF VisitInv, StoredApart, Shrinks, ActiveWaits
<1> QED
    BY <1>4, <1>5, <1>6 DEF VisitInv

\* ... and executing it: what follows lies ahead of it alone.
LEMMA VisitRuns ==
    ASSUME WorkersType, RowsType, RowsType', LeaseInv, ArtifactKinds, OneVisit, VisitInv,
           [Next]_vars, NEW w \in Workers, Runs(w)
    PROVE  VisitInv'
<1> DEFINE q == wk[w].queue
           d == wk[w].done
           n == Head(q)
<1>1. AskedNodes' \subseteq AskedNodes /\ Shrinks
    BY AskedFacts DEF Runs
<1>2. /\ Owns(w) /\ q \in Seq(Nodes) /\ q # <<>> /\ n \in Nodes /\ Tail(q) \in Seq(Nodes)
      /\ RunStays /\ \A v \in Workers : Owns(v)' => v = w
      /\ Kind[n] \in {"auto", "state", "end"}
    BY QueuesTyped, QueueTypes DEF Runs, OnlyOwner, WorkersType, HasHead
<1>3. PICK next \in Routes[n] : wk'[w].queue = Tail(q) \o next
    BY DEF Runs
<1>4. wk'[w].done = d \cup {n}
    BY DEF Runs
<1>5. Apart(q, d)
    BY <1>2 DEF VisitInv, ViewsApart
<1> HIDE DEF q, d, n
<1>6. Apart(Tail(q), d) /\ FarFrom(Tail(q), n) /\ Future(n) \cap d = {}
    BY <1>2, <1>5, TailApart DEF n, AskApart
<1>7. Apart(Tail(q) \o next, d \cup {n})
    BY <1>2, <1>3, <1>6, JoinApart
<1>8. run'.status \notin Terminal => run.status \notin Terminal
    BY TerminalStays
<1>9. ViewsApart'
    BY <1>2, <1>3, <1>4, <1>7, <1>8 DEF VisitInv, ViewsApart, RunStays
<1>10. ASSUME NEW a \in AskedNodes
       PROVE  AskApart(Tail(q) \o next, d \cup {n}, a)
  <2>1. AskApart(q, d, a)
    BY <1>2 DEF VisitInv, AskersApart, q, d
  <2>2. n # a
    BY <1>2, AskersAsk
  <2>3. Future(a) \cap d = {}
    BY <2>1 DEF AskApart
  <2>4. FarFrom(Tail(q), a) /\ (Head(q) # a => Future(Head(q)) \cap Future(a) = {})
    BY <1>2, <2>1, TailApart
  <2>5. Future(n) \cap Future(a) = {}
    BY <2>2, <2>4 DEF n
  <2> QED
    BY <1>2, <1>3, <2>3, <2>4, <2>5, JoinAskApart
<1>11. AskersApart'
    BY <1>1, <1>2, <1>3, <1>4, <1>10 DEF VisitInv, AskersApart, RunStays
<1>12. StoredApart'
    BY <1>1, AskedFacts DEF VisitInv, StoredApart, Shrinks, ActiveWaits
<1> QED
    BY <1>9, <1>11, <1>12 DEF VisitInv

\* Putting a question keeps the visits apart.
LEMMA VisitAsks ==
    ASSUME WorkersType, RowsType, RowsType', LeaseInv, ArtifactKinds, OwnerInNode, OneVisit,
           AskInv, VisitInv, [Next]_vars, NEW w \in Workers, Asks(w)
    PROVE  VisitInv'
<1> DEFINE q == wk[w].queue
           d == wk[w].done
           n == Head(q)
<1>1. /\ Owns(w) /\ q \in Seq(Nodes) /\ q # <<>> /\ n \in Nodes
      /\ run.queue = q /\ run.done = d /\ RunStays /\ \A v \in Workers : Owns(v)' => v = w
      /\ Kind[n] \in {"operate", "wait"} /\ n \notin AskedNodes
      /\ AskedNodes' \subseteq AskedNodes \cup {n}
      /\ wk'[w].queue = Tail(q) /\ wk'[w].done = d
    BY QueuesTyped, QueueTypes DEF Asks, OnlyOwner, WorkersType, HasHead, OwnerInNode
<1>2. ~Quiet(n) /\ q[1] = n /\ 1 \in DOMAIN q
    BY <1>1, QuietFacts, TailPlaces
<1>3. AskedNodes = {}
    BY <1>1, <1>2 DEF AskInv, AskerAhead, BehindAsk
<1>4. Apart(q, d)
    BY <1>1 DEF VisitInv, ViewsApart
<1>5. Apart(Tail(q), d) /\ AskApart(q, d, n) /\ AskApart(Tail(q), d, n)
    BY <1>1, <1>4, TailApart
<1>6. \A m \in ActiveWaits' : m = n /\ waits'[m].queue = Tail(q) /\ waits'[m].done = d
    BY <1>3, AskedFacts DEF Asks, ActiveWaits
<1> HIDE DEF q, d, n
<1>7. ViewsApart'
    BY <1>1, <1>4, <1>5 DEF ViewsApart, RunStays
<1>8. AskersApart'
    BY <1>1, <1>3, <1>5 DEF AskersApart, RunStays
<1>9. StoredApart'
    BY <1>5, <1>6 DEF StoredApart
<1> QED
    BY <1>7, <1>8, <1>9 DEF VisitInv

\* An answer goes on behind the node that asked.
LEMMA VisitAnswers ==
    ASSUME WorkersType, RowsType, RowsType', LeaseInv, ArtifactKinds, OneAsking, OneVisit,
           AskInv, VisitInv, NEW a \in Nodes, Answered(a) \/ Refused(a) \/ Fired(a)
    PROVE  VisitInv'
<1>1. AskedNodes' = {} /\ NobodyNext
    BY AskAnswers DEF Answered, Refused, Fired
<1>2. AskersApart' /\ StoredApart'
    BY <1>1 DEF AskersApart, StoredApart, AskedNodes
<1>3. run'.status \notin Terminal => Apart(run'.queue, run'.done)
  <2>1. CASE Answered(a)
    <3> DEFINE p == WithoutCurrent(a)
    <3>1. /\ run.queue \in Seq(Nodes) /\ a \in AskedNodes
          /\ Apart(run.queue, run.done) /\ AskApart(run.queue, run.done, a)
        BY <2>1, QueuesTyped DEF Answered, VisitInv, ViewsApart, AskersApart
    <3>2. p \in Seq(Nodes) /\ Apart(p, run.done) /\ FarFrom(p, a)
      <4>1. CASE run.queue # <<>> /\ Head(run.queue) = a
        BY <3>1, <4>1, TailApart, QueueTypes DEF WithoutCurrent
      <4>2. CASE run.queue # <<>> /\ Head(run.queue) # a
        BY <3>1, <4>2, TailApart DEF WithoutCurrent
      <4>3. CASE run.queue = <<>>
        BY <3>1, <4>3 DEF WithoutCurrent, FarFrom
      <4> QED
        BY <4>1, <4>2, <4>3
    <3>3. Future(a) \cap run.done = {}
        BY <3>1 DEF AskApart
    <3> HIDE DEF p
    <3>4. PICK next \in Routes[a] : run'.queue = p \o next
        BY <2>1 DEF Answered, p
    <3>5. Apart(p \o next, run.done \cup {a})
        BY <3>2, <3>3, JoinApart
    <3> QED
        BY <2>1, <3>4, <3>5 DEF Answered
  <2>2. CASE Refused(a)
    BY <2>2 DEF Refused
  <2>3. CASE Fired(a)
    <3> DEFINE p == waits[a].queue
               d == waits[a].done
    <3>1. p \in Seq(Nodes) /\ Apart(p, d) /\ AskApart(p, d, a) /\ AllQuiet(p) /\ ~Quiet(a)
        BY <2>3, QueuesTyped, AskersAsk, QuietFacts
        DEF Fired, VisitInv, StoredApart, AskInv, StoredQuiet
    <3> HIDE DEF p, d
    <3>2. FarFrom(p, a) /\ Future(a) \cap d = {}
        BY <3>1 DEF AskApart, FarFrom, AllQuiet
    <3>3. PICK next \in Routes[a] : run'.queue = p \o next
        BY <2>3 DEF Fired, p
    <3>4. Apart(p \o next, d \cup {a})
        BY <3>1, <3>2, JoinApart
    <3> QED
        BY <2>3, <3>3, <3>4 DEF Fired, d
  <2> QED
    BY <2>1, <2>2, <2>3
<1>4. ViewsApart'
    BY <1>1, <1>3 DEF ViewsApart, NobodyNext
<1> QED
    BY <1>2, <1>4 DEF VisitInv

\* The node the owner is in has not had its answer.
LEMMA HeadUndecided ==
    ASSUME WorkersType, RowsType, OwnerInNode, Recorded, VisitInv, NEW w \in Workers, Owns(w),
           wk[w].pc = "work", Head(wk[w].queue) \notin Ends
    PROVE  Head(wk[w].queue) \notin Decided
<1> DEFINE n == Head(wk[w].queue)
<1>1. /\ Apart(wk[w].queue, wk[w].done) /\ run.done = wk[w].done
      /\ wk[w].queue \in Seq(Nodes) /\ wk[w].queue # <<>>
    BY QueuesTyped DEF VisitInv, ViewsApart, OwnerInNode, WorkersType, HasHead
<1>2. n \in Nodes
    BY <1>1, QueueTypes
<1>3. n \notin run.done
    BY <1>1, <1>2, TailPlaces, FutureFacts DEF Apart
<1> QED
    BY <1>3 DEF Recorded

\* No second task is created on a node.
LEMMA AskedOnceStep ==
    ASSUME WorkersType, RowsType, RowsType', LeaseInv, OpenInv, CancelledAtEnd, OwnerInNode,
           Recorded, VisitInv, AskedOnce, [Next]_vars
    PROVE  AskedOnce'
<1> SUFFICES ASSUME NEW n \in Nodes, NEW c \in Copies, c > 1, tasks'[<<n, c>>] # "absent"
             PROVE  FALSE
    BY DEF AskedOnce
<1>1. tasks[<<n, c>>] = "absent"
    BY DEF AskedOnce
<1>2. PICK w \in Workers : CreateTask(w) /\ tasks'[<<n, c>>] # tasks[<<n, c>>]
  <2>1. ASSUME tasks' = tasks \/ CancelArtifacts PROVE FALSE
    BY <1>1, <2>1 DEF CancelArtifacts, OpenTasks, RowsType
  <2>2. ASSUME NEW t \in Nodes \X Copies,
               ClaimTask(t) \/ ReturnTask(t) \/ CompleteTask(t) \/ RejectTask(t)
        PROVE  FALSE
    BY <1>1, <2>2 DEF ClaimTask, ReturnTask, CompleteTask, RejectTask, RowsType
  <2>3. \/ \E w \in Workers : CreateTask(w)
        \/ tasks' = tasks \/ CancelArtifacts
        \/ \E t \in Nodes \X Copies :
              ClaimTask(t) \/ ReturnTask(t) \/ CompleteTask(t) \/ RejectTask(t)
    BY DomainOfTasks
    DEF Next, WorkerStep, LoadRun, OpenNode, CloseSegment, SaveCheckpoint, RunNode, CreateWait,
        RefuseArtifact, Park, Succeed, CompleteJob, RetryJob, FailRun, FailJob, RenewLease, Crash,
        ThrowError, Claim, LeaseLapses, LockLapses, Reconcile, ReconcileTerminal,
        ReconcileExhausted, TriggerWait, Person, ControlRun, PauseRun, ResumeRun, vars
  <2> QED
    BY <1>1, <2>1, <2>2, <2>3
<1>3. n = Head(wk[w].queue) /\ TaskSlot(n, c) /\ Kind[n] = "operate"
  <2>1. PICK b \in Copies : TaskSlot(Head(wk[w].queue), b)
                            /\ tasks' = [tasks EXCEPT ![<<Head(wk[w].queue), b>>] = "pending"]
    BY <1>2 DEF CreateTask
  <2>2. <<n, c>> = <<Head(wk[w].queue), b>>
    BY <1>2, <2>1 DEF RowsType
  <2> QED
    BY <1>2, <2>1, <2>2 DEF CreateTask
<1>4. wk[w].pc = "work" /\ Owns(w) /\ run.status = "running"
    BY <1>2 DEF CreateTask, HoldsLease, Owns
<1>5. 1 \in Copies /\ 1 < c
    BY BoundAssumption DEF Copies
<1>6. tasks[<<n, 1>>] # "absent"
    BY <1>3, <1>5 DEF TaskSlot
<1>7. <<n, 1>> \notin OpenTasks
    BY <1>3, <1>4, <1>5 DEF OpenInv, NoneOpen, Owns
<1>8. tasks[<<n, 1>>] # "cancelled"
    BY <1>4, <1>5 DEF CancelledAtEnd, Terminal
<1>9. tasks[<<n, 1>>] = "completed"
    BY <1>5, <1>6, <1>7, <1>8 DEF OpenTasks, RowsType, TaskStatuses
<1>10. n \in Decided
    BY <1>5, <1>9 DEF Decided, RowsType
<1>11. n \notin Ends
    BY <1>3 DEF Ends
<1> QED
    BY <1>3, <1>4, <1>10, <1>11, HeadUndecided

\* One visit of every node, so one question per node.
VisitedInv == NoLoss /\ OneAsking /\ OneVisit => VisitInv /\ AskedOnce

\* If no path leads back to a node, and successors selected together share nothing but the
\* end and do not both ask, then without crashes and stalls nothing that lies ahead of the
\* execution has been done already, and no node is asked a second time (executeRunSegment,
\* completeCurrentHumanCheckpoint).
THEOREM OneVisitEach == Spec => []VisitedInv
<1>1. Init => VisitedInv
  <2> SUFFICES ASSUME Init PROVE VisitInv /\ AskedOnce
    BY DEF VisitedInv
  <2>1. AskedNodes = {} /\ ActiveWaits = {} /\ AskedOnce
    BY DEF Init, AskedNodes, OpenTasks, ActiveWaits, AskedOnce
  <2>2. run.queue = <<StartNode>> /\ run.done = {} /\ \A w \in Workers : ~Owns(w)
    BY DEF Init, IdleWorker, Owns
  <2>3. Apart(<<StartNode>>, {})
    BY DEF Apart
  <2> QED
    BY <2>1, <2>2, <2>3 DEF VisitInv, ViewsApart, AskersApart, StoredApart
<1>2. ASSUME IInv, IInv', ArtifactKinds, CancelledAtEnd, CustodyInv, AskedInv, VisitedInv,
             [Next]_vars, NoLoss', OneAsking, OneVisit
      PROVE  VisitInv' /\ AskedOnce'
  <2>1. NoLoss /\ Custody /\ OwnerInNode /\ AskInv /\ Recorded /\ VisitInv /\ AskedOnce
    BY <1>2, BothParts, LossesStay DEF CustodyInv, Custody, AskedInv, VisitedInv
  <2>2. VisitInv'
    BY <1>2, <2>1, BothParts, Moves, VisitStays, VisitDrops, VisitRuns, VisitAsks, VisitAnswers
  <2> QED
    BY <1>2, <2>1, <2>2, BothParts, AskedOnceStep
<1>3. /\ IInv /\ IInv' /\ ArtifactKinds /\ CancelledAtEnd /\ CustodyInv /\ AskedInv
      /\ VisitedInv /\ [Next]_vars
      => VisitedInv'
    BY <1>2 DEF VisitedInv
<1> QED
    BY <1>1, <1>3, Invariance, KindsInvariant, CancelledInvariant, CustodyInvariant,
       OneQuestionAtATime, PTL DEF Spec

\* One visit of a node puts one question to people, however often the segment is retried.
THEOREM NobodyAskedTwice == Spec => [](OneAsking /\ OneVisit /\ NoLoss => AskedOnce)
<1>1. VisitedInv => (OneAsking /\ OneVisit /\ NoLoss => AskedOnce)
    BY DEF VisitedInv
<1> QED
    BY <1>1, OneVisitEach, PTL

-----------------------------------------------------------------------------
(* While a question is open nothing else is under way.                     *)

\* What is selected together with a branch that asks is the end of the run.
AskAlone ==
    \A n \in Nodes : \A next \in Routes[n] : \A i, k \in DOMAIN next :
        ~Quiet(next[i]) /\ i # k => next[k] \in Ends

\* Next to a node of the queue that leads to a question there are only ends.
Alone(q) == \A i, k \in DOMAIN q : ~Quiet(q[i]) /\ i # k => q[k] \in Ends

AllEnds(q) == \A i \in DOMAIN q : q[i] \in Ends

\* Of a node that asks only ends and itself are queued.
EndsBehind(q, a) == \A i \in DOMAIN q : q[i] \in Ends \/ (i = 1 /\ q[i] = a)

AloneInv ==
    /\ Alone(run.queue) /\ \A w \in Workers : Owns(w) => Alone(wk[w].queue)
    /\ \A a \in AskedNodes :
          EndsBehind(run.queue, a) /\ \A w \in Workers : Owns(w) => EndsBehind(wk[w].queue, a)
    /\ \A n \in ActiveWaits : AllEnds(waits[n].queue)

\* An end asks nothing and selects nothing.
LEMMA EndsQuiet ==
    ASSUME NEW n \in Ends
    PROVE  Quiet(n) /\ \A next \in Routes[n] : next = <<>>
<1>1. n \in Nodes /\ Kind[n] = "end" /\ \A next \in Routes[n] : next = <<>>
    BY DefinitionAssumption DEF Ends
<1>2. Closed({n})
    BY <1>1 DEF Closed
<1>3. Ahead(n) \subseteq {n}
    BY <1>1, <1>2 DEF Ahead
<1> QED
    BY <1>1, <1>3 DEF Quiet

\* Branches that ask alone ask one at a time.
LEMMA AloneAsksOne == AskAlone => OneAsking
BY EndsQuiet DEF AskAlone, OneAsking

\* Tails and joins of such queues.
LEMMA TailAlone ==
    ASSUME NEW q \in Seq(Nodes), q # <<>>
    PROVE  /\ Alone(q) => Alone(Tail(q))
           /\ Alone(q) /\ ~Quiet(Head(q)) => AllEnds(Tail(q)) /\ EndsBehind(q, Head(q))
           /\ Alone(q) /\ Head(q) \notin Ends => AllQuiet(Tail(q))
           /\ AllEnds(q) => AllEnds(Tail(q))
           /\ \A a : EndsBehind(q, a) => AllEnds(Tail(q)) /\ EndsBehind(Tail(q), a)
           /\ \A a : EndsBehind(q, a) /\ Head(q) # a => AllEnds(q)
<1>1. /\ 1 \in DOMAIN q /\ q[1] = Head(q)
      /\ \A i \in DOMAIN Tail(q) : i + 1 \in DOMAIN q /\ i + 1 # 1 /\ Tail(q)[i] = q[i + 1] /\ i \in Nat
    BY TailPlaces
<1>2. Alone(q) => Alone(Tail(q))
  <2> SUFFICES ASSUME Alone(q), NEW i \in DOMAIN Tail(q), NEW k \in DOMAIN Tail(q),
                      ~Quiet(Tail(q)[i]), i # k
               PROVE  Tail(q)[k] \in Ends
    BY DEF Alone
  <2>1. i + 1 \in DOMAIN q /\ k + 1 \in DOMAIN q /\ i + 1 # k + 1
    BY <1>1
  <2> QED
    BY <1>1, <2>1 DEF Alone
<1>3. Alone(q) /\ ~Quiet(Head(q)) => AllEnds(Tail(q)) /\ EndsBehind(q, Head(q))
    BY <1>1 DEF Alone, AllEnds, EndsBehind
<1>4. Alone(q) /\ Head(q) \notin Ends => AllQuiet(Tail(q))
    BY <1>1 DEF Alone, AllQuiet
<1>5. AllEnds(q) => AllEnds(Tail(q))
    BY <1>1 DEF AllEnds
<1>6. \A a : EndsBehind(q, a) => AllEnds(Tail(q)) /\ EndsBehind(Tail(q), a)
    BY <1>1 DEF AllEnds, EndsBehind
<1>7. \A a : EndsBehind(q, a) /\ Head(q) # a => AllEnds(q)
    BY <1>1 DEF AllEnds, EndsBehind
<1> QED
    BY <1>2, <1>3, <1>4, <1>5, <1>6, <1>7

\* Queues joined.
LEMMA JoinAlone ==
    ASSUME NEW p \in Seq(Nodes), NEW q \in Seq(Nodes)
    PROVE  /\ AllEnds(p) /\ Alone(q) => Alone(p \o q)
           /\ AllQuiet(p) /\ AllQuiet(q) => Alone(p \o q)
           /\ q = <<>> => p \o q = p
<1>1. \A i \in DOMAIN (p \o q) :
          \/ i \in DOMAIN p /\ (p \o q)[i] = p[i]
          \/ i \notin DOMAIN p /\ i - Len(p) \in DOMAIN q /\ (p \o q)[i] = q[i - Len(p)]
             /\ i \in Nat /\ Len(p) \in Nat
    BY JoinPlaces
<1>2. ASSUME AllEnds(p), Alone(q) PROVE Alone(p \o q)
  <2> SUFFICES ASSUME NEW i \in DOMAIN (p \o q), NEW k \in DOMAIN (p \o q),
                      ~Quiet((p \o q)[i]), i # k
               PROVE  (p \o q)[k] \in Ends
    BY DEF Alone
  <2>1. /\ i - Len(p) \in DOMAIN q /\ (p \o q)[i] = q[i - Len(p)]
        /\ i \in Nat /\ Len(p) \in Nat
    BY <1>1, <1>2, EndsQuiet DEF AllEnds
  <2>2. CASE k \in DOMAIN p
    BY <1>1, <1>2, <2>2 DEF AllEnds
  <2>3. CASE k \notin DOMAIN p
    <3>1. k - Len(p) \in DOMAIN q /\ (p \o q)[k] = q[k - Len(p)] /\ k \in Nat
        BY <1>1, <2>3
    <3>2. i - Len(p) # k - Len(p)
        BY <2>1, <3>1
    <3> QED
        BY <1>2, <2>1, <3>1, <3>2 DEF Alone
  <2> QED
    BY <2>2, <2>3
<1>3. AllQuiet(p) /\ AllQuiet(q) => Alone(p \o q)
    BY JoinAsks DEF AllQuiet, Alone
<1>4. q = <<>> => p \o q = p
    BY ConcatEmptySeq
<1> QED
    BY <1>2, <1>3, <1>4

\* Every step without a crash or a stall keeps questions alone.
LEMMA AloneStep ==
    ASSUME IInv, IInv', ArtifactKinds, Custody, AskAlone, AskInv, AloneInv, [Next]_vars, NoLoss'
    PROVE  AloneInv'
<1>1. /\ WorkersType /\ RowsType /\ WorkersType' /\ RowsType' /\ LeaseInv /\ LeaseInv' /\ OpenInv
      /\ OwnerInNode /\ OneAsking
    BY BothParts, AloneAsksOne DEF Custody
<1>2. ASSUME Shrinks
      PROVE  /\ AskedNodes' \subseteq AskedNodes
             /\ \A n \in ActiveWaits' : AllEnds(waits'[n].queue)
    BY <1>1, <1>2, AskedFacts DEF AloneInv, Shrinks, ActiveWaits
<1>3. ASSUME Rests \/ \E w \in Workers : Saves(w) \/ Takes(w)
      PROVE  AloneInv'
  <2>1. Shrinks
    BY <1>3 DEF Rests, Saves, Takes
  <2>2. /\ \/ run'.queue = run.queue
           \/ \E w \in Workers : Owns(w) /\ run'.queue = wk[w].queue
        /\ \A v \in Workers : Owns(v)' =>
              \/ Owns(v) /\ wk'[v].queue = wk[v].queue
              \/ wk'[v].queue = run.queue
    BY <1>3 DEF Rests, Saves, Takes, RunStays, OwnersStay
  <2>3. Alone(run'.queue) /\ \A v \in Workers : Owns(v)' => Alone(wk'[v].queue)
    BY <2>2 DEF AloneInv
  <2>4. \A a \in AskedNodes' :
           /\ EndsBehind(run'.queue, a)
           /\ \A v \in Workers : Owns(v)' => EndsBehind(wk'[v].queue, a)
    BY <1>2, <2>1, <2>2 DEF AloneInv
  <2> QED
    BY <1>2, <2>1, <2>3, <2>4 DEF AloneInv
<1>4. ASSUME NEW w \in Workers, Drops(w) \/ Runs(w)
      PROVE  AloneInv'
  <2> DEFINE q == wk[w].queue
             n == Head(q)
  <2>1. Shrinks /\ run'.queue = run.queue /\ Owns(w) /\ \A v \in Workers : Owns(v)' => v = w
    BY <1>4 DEF Drops, Runs, OnlyOwner, RunStays
  <2>2. q \in Seq(Nodes) /\ q # <<>> /\ n \in Nodes /\ Tail(q) \in Seq(Nodes)
    BY <1>1, <1>4, QueuesTyped, QueueTypes DEF Drops, Runs, WorkersType, HasHead
  <2>3. Alone(q) /\ \A a \in AskedNodes : EndsBehind(q, a)
    BY <2>1 DEF AloneInv
  <2> HIDE DEF q, n
  <2>4. /\ Alone(wk'[w].queue)
        /\ \A a \in AskedNodes : EndsBehind(wk'[w].queue, a)
    <3>1. CASE Drops(w)
        BY <2>2, <2>3, <3>1, TailAlone DEF Drops, q
    <3>2. CASE Runs(w)
      <4>1. PICK next \in Routes[n] : wk'[w].queue = Tail(q) \o next
        BY <3>2 DEF Runs, q, n
      <4>2. next \in Seq(Nodes) /\ Alone(next) /\ Kind[n] \in {"auto", "state", "end"}
        BY <2>2, <3>2, AheadFacts DEF AskAlone, Alone, Runs, q, n
      <4>3. CASE n \in Ends
        <5>1. wk'[w].queue = Tail(q)
            BY <2>2, <4>1, <4>2, <4>3, EndsQuiet, JoinAlone
        <5> QED
            BY <2>2, <2>3, <5>1, TailAlone
      <4>4. CASE n \notin Ends
        <5>1. AskedNodes = {}
          <6> SUFFICES ASSUME NEW a \in AskedNodes PROVE FALSE
            OBVIOUS
          <6>1. n # a
            BY <1>1, <4>2, AskersAsk
          <6>2. AllEnds(q)
            BY <2>2, <2>3, <6>1, TailAlone DEF n
          <6> QED
            BY <2>2, <4>4, <6>2, TailPlaces DEF AllEnds, n
        <5>2. Alone(Tail(q) \o next)
          <6>1. CASE Quiet(n)
            <7>1. AllQuiet(next)
                BY <2>2, <6>1, QuietFacts DEF AllQuiet
            <7>2. AllQuiet(Tail(q))
                BY <2>2, <2>3, <4>4, TailAlone DEF n
            <7> QED
                BY <2>2, <4>2, <7>1, <7>2, JoinAlone
          <6>2. CASE ~Quiet(n)
            <7>1. AllEnds(Tail(q))
                BY <2>2, <2>3, <6>2, TailAlone DEF n
            <7> QED
                BY <2>2, <4>2, <7>1, JoinAlone
          <6> QED
            BY <6>1, <6>2
        <5> QED
            BY <4>1, <5>1, <5>2
      <4> QED
        BY <4>3, <4>4
    <3> QED
        BY <1>4, <3>1, <3>2
  <2>5. AskedNodes' \subseteq AskedNodes
    BY <1>2, <2>1
  <2> QED
    BY <1>2, <2>1, <2>4, <2>5 DEF AloneInv
<1>5. ASSUME NEW w \in Workers, Asks(w)
      PROVE  AloneInv'
  <2> DEFINE q == wk[w].queue
             n == Head(q)
  <2>1. /\ Owns(w) /\ q \in Seq(Nodes) /\ q # <<>> /\ n \in Nodes
        /\ run.queue = q /\ run'.queue = q /\ \A v \in Workers : Owns(v)' => v = w
        /\ Kind[n] \in {"operate", "wait"} /\ n \notin AskedNodes
        /\ AskedNodes' \subseteq AskedNodes \cup {n} /\ wk'[w].queue = Tail(q)
    BY <1>1, <1>5, QueuesTyped, QueueTypes
    DEF Asks, OnlyOwner, RunStays, WorkersType, HasHead, OwnerInNode
  <2>2. ~Quiet(n) /\ q[1] = n /\ 1 \in DOMAIN q
    BY <2>1, QuietFacts, TailPlaces
  <2>3. AskedNodes = {}
    BY <2>1, <2>2 DEF AskInv, AskerAhead, BehindAsk
  <2>4. Alone(q)
    BY <2>1 DEF AloneInv
  <2>5. AllEnds(Tail(q)) /\ EndsBehind(q, n) /\ Alone(Tail(q)) /\ EndsBehind(Tail(q), n)
    BY <2>1, <2>2, <2>4, TailAlone
  <2>6. \A m \in ActiveWaits' : waits'[m].queue = Tail(q)
    BY <1>1, <1>5, <2>3, AskedFacts DEF Asks, ActiveWaits
  <2> HIDE DEF q, n
  <2> QED
    BY <2>1, <2>3, <2>4, <2>5, <2>6 DEF AloneInv
<1>6. ASSUME NEW a \in Nodes, Answered(a) \/ Refused(a) \/ Fired(a)
      PROVE  AloneInv'
  <2>1. AskedNodes' = {} /\ ActiveWaits' = {} /\ NobodyNext
    BY <1>1, <1>6, AskAnswers DEF AskedNodes, Answered, Refused, Fired
  <2>2. ASSUME NEW p \in Seq(Nodes), AllEnds(p), NEW next \in Routes[a]
        PROVE  Alone(p \o next)
    <3>1. next \in Seq(Nodes) /\ Alone(next)
        BY AheadFacts DEF AskAlone, Alone
    <3> QED
        BY <2>2, <3>1, JoinAlone
  <2>3. run.queue \in Seq(Nodes)
    BY <1>1, QueuesTyped
  <2>4. CASE Answered(a)
    <3>1. EndsBehind(run.queue, a)
        BY <2>4 DEF Answered, AloneInv
    <3>2. AllEnds(WithoutCurrent(a)) /\ WithoutCurrent(a) \in Seq(Nodes)
      <4>1. CASE run.queue # <<>> /\ Head(run.queue) = a
        BY <2>3, <3>1, <4>1, TailAlone, QueueTypes DEF WithoutCurrent
      <4>2. CASE run.queue # <<>> /\ Head(run.queue) # a
        BY <2>3, <3>1, <4>2, TailAlone DEF WithoutCurrent
      <4>3. CASE run.queue = <<>>
        BY <2>3, <4>3 DEF WithoutCurrent, AllEnds
      <4> QED
        BY <4>1, <4>2, <4>3
    <3>3. Alone(run'.queue)
        BY <2>2, <2>4, <3>2 DEF Answered
    <3> QED
        BY <2>1, <3>3 DEF AloneInv, NobodyNext
  <2>5. CASE Refused(a)
    BY <2>1, <2>5 DEF Refused, AloneInv, NobodyNext
  <2>6. CASE Fired(a)
    <3>1. Alone(run'.queue)
        BY <1>1, <2>2, <2>6, QueuesTyped DEF Fired, AloneInv
    <3> QED
        BY <2>1, <3>1 DEF AloneInv, NobodyNext
  <2> QED
    BY <1>6, <2>4, <2>5, <2>6
<1> QED
    BY <1>1, <1>3, <1>4, <1>5, <1>6, Moves

-----------------------------------------------------------------------------
(* Entering a state.                                                       *)

\* What a segment has seen it has done, but for the node it is in.
SeenInv ==
    \A w \in Workers :
        /\ wk[w].pc \in {"load", "head", "advance", "advanceEnd"} => wk[w].seen \subseteq wk[w].done
        /\ wk[w].pc \in {"enter", "work"} => wk[w].seen \subseteq wk[w].done \cup {Head(wk[w].queue)}

\* Beginning a node sees it; skipping or reusing one sees nothing new.
LEMMA OpenNodeSees ==
    ASSUME WorkersType, NEW v \in Workers, OpenNode(v)
    PROVE  \/ wk'[v].seen = wk[v].seen /\ wk'[v].pc \in {"head", "park", "artifact"}
           \/ /\ wk'[v].seen = wk[v].seen \cup {Head(wk[v].queue)} /\ wk'[v].pc = "enter"
              /\ wk'[v].queue = wk[v].queue
<1> DEFINE m(pc, q, s) == [wk[v] EXCEPT !.pc = pc, !.queue = q, !.seen = s]
           n == Head(wk[v].queue)
<1>1. \A pc, q, s : m(pc, q, s).pc = pc /\ m(pc, q, s).queue = q /\ m(pc, q, s).seen = s
    BY DEF WorkersType, WorkerMemory
<1>2. \A pc, q, s : Remember(v, m(pc, q, s)) => wk'[v] = m(pc, q, s)
    BY RememberFacts
<1>3. \/ \E q : Remember(v, m("head", q, wk[v].seen)) \/ Remember(v, m("park", q, wk[v].seen))
                \/ Remember(v, m("artifact", q, wk[v].seen))
      \/ Remember(v, m("enter", wk[v].queue, wk[v].seen \cup {n}))
    BY DEF OpenNode
<1> HIDE DEF m, n
<1>4. ASSUME NEW q, Remember(v, m("head", q, wk[v].seen)) \/ Remember(v, m("park", q, wk[v].seen))
                    \/ Remember(v, m("artifact", q, wk[v].seen))
      PROVE  wk'[v].seen = wk[v].seen /\ wk'[v].pc \in {"head", "park", "artifact"}
    BY <1>1, <1>2, <1>4
<1>5. ASSUME Remember(v, m("enter", wk[v].queue, wk[v].seen \cup {n}))
      PROVE  /\ wk'[v].seen = wk[v].seen \cup {n} /\ wk'[v].pc = "enter"
             /\ wk'[v].queue = wk[v].queue
    BY <1>1, <1>2, <1>5
<1> QED
    BY <1>3, <1>4, <1>5 DEF n

\* Every step keeps what is seen within what is done.
LEMMA SeenStep ==
    ASSUME WorkersType, RowsType, SeenInv, [Next]_vars
    PROVE  SeenInv'
<1> SUFFICES ASSUME NEW v \in Workers
             PROVE  /\ wk'[v].pc \in {"load", "head", "advance", "advanceEnd"} =>
                          wk'[v].seen \subseteq wk'[v].done
                    /\ wk'[v].pc \in {"enter", "work"} =>
                          wk'[v].seen \subseteq wk'[v].done \cup {Head(wk'[v].queue)}
    BY DEF SeenInv
<1> DEFINE Goal == /\ wk'[v].pc \in {"load", "head", "advance", "advanceEnd"} =>
                          wk'[v].seen \subseteq wk'[v].done
                   /\ wk'[v].pc \in {"enter", "work"} =>
                          wk'[v].seen \subseteq wk'[v].done \cup {Head(wk'[v].queue)}
<1>1. CASE wk'[v] = wk[v]
    BY <1>1 DEF SeenInv
<1>2. CASE OpenNode(v)
  <2>1. wk[v].pc = "head"
    BY <1>2 DEF OpenNode
  <2>2. wk[v].seen \subseteq wk[v].done
    BY <2>1 DEF SeenInv
  <2>3. \/ wk'[v].seen = wk[v].seen /\ wk'[v].pc \in {"head", "park", "artifact"}
        \/ /\ wk'[v].seen = wk[v].seen \cup {Head(wk[v].queue)} /\ wk'[v].pc = "enter"
           /\ wk'[v].queue = wk[v].queue
    BY <1>2, OpenNodeSees
  <2>4. wk'[v].done = wk[v].done
    BY <1>2, OpenNodeFacts
  <2> QED
    BY <2>2, <2>3, <2>4
<1>3. CASE RunNode(v)
    BY <1>3, RunNodeFacts DEF SeenInv
<1>4. CASE CreateTask(v) \/ CreateWait(v)
    BY <1>4, CreateFacts
<1>5. CASE \E j \in Jobs : Claim(v, j)
    BY <1>5, ClaimFacts
<1>6. ASSUME NEW pc \in WorkerPoints, Goto(v, pc),
             \/ pc \notin {"load", "head", "advance", "advanceEnd", "enter", "work"}
             \/ wk[v].pc = "enter" /\ pc = "work"
             \/ wk[v].pc \in {"load", "advance", "advanceEnd"} /\ pc = "head"
      PROVE  Goal
    BY <1>6, GotoKeeps DEF SeenInv
<1>7. CASE \/ LoadRun(v) \/ CloseSegment(v) \/ SaveCheckpoint(v) \/ RefuseArtifact(v)
           \/ ThrowError(v) \/ Park(v) \/ Succeed(v) \/ CompleteJob(v) \/ RetryJob(v)
           \/ FailRun(v) \/ FailJob(v) \/ Crash(v)
  <2>1. \/ Release(v)
        \/ \E pc \in {"failing", "park", "final", "succeed", "complete", "failJob"} : Goto(v, pc)
        \/ wk[v].pc = "enter" /\ Goto(v, "work")
        \/ wk[v].pc \in {"load", "advance", "advanceEnd"} /\ Goto(v, "head")
    BY <1>7, OtherMoves DEF AfterCheckpoint
  <2>2. \A pc \in {"failing", "park", "final", "succeed", "complete", "failJob", "work", "head"} :
            pc \in WorkerPoints
    BY DEF WorkerPoints, Executing
  <2>3. CASE Release(v)
    BY <2>3, ReleaseFacts
  <2> QED
    BY <1>6, <2>1, <2>2, <2>3
<1> QED
    BY <1>1, <1>2, <1>3, <1>4, <1>5, <1>7, OwnSteps DEF WorkerStep

\* Whatever happened, a segment has done what it has seen.
THEOREM SeenInvariant == Spec => []SeenInv
<1>1. Init => SeenInv
    BY DEF Init, SeenInv, IdleWorker
<1>2. IInv /\ SeenInv /\ [Next]_vars => SeenInv'
    BY Parts, SeenStep
<1> QED
    BY <1>1, <1>2, Invariance, PTL DEF Spec

\* A worker about to enter a state.
Enters(w) == wk[w].pc = "work" /\ Kind[Head(wk[w].queue)] = "state"

\* The state has not been done, the run's queue still starts with it and nobody is asked;
\* the worker owns the run, or the run was stopped under it.
EntersFresh ==
    \A w \in Workers : Enters(w) =>
        /\ Head(wk[w].queue) \notin run.done /\ wk[w].queue = run.queue
        /\ AskedNodes = {}
        /\ Owns(w) \/ run.status \in Terminal

EntersAlone == \A v, w \in Workers : Enters(v) /\ Enters(w) => v = w

\* A worker inside a node has been there before the step, or has just checkpointed.
LEMMA WhoWorks ==
    ASSUME WorkersType, RowsType, [Next]_vars, NEW v \in Workers, wk'[v].pc = "work"
    PROVE  \/ wk'[v] = wk[v]
           \/ SaveCheckpoint(v) /\ Fenced(wk[v].tok) /\ wk[v].pc = "enter"
<1>1. CASE OpenNode(v)
    BY <1>1, OpenNodeFacts
<1>2. CASE RunNode(v)
    BY <1>2, RunNodeFacts
<1>3. CASE CreateTask(v) \/ CreateWait(v)
    BY <1>3, CreateFacts
<1>4. CASE \E j \in Jobs : Claim(v, j)
    BY <1>4, ClaimFacts
<1>5. CASE SaveCheckpoint(v)
    BY <1>5, OtherMoves, GotoKeeps DEF AfterCheckpoint, WorkerPoints, Executing
<1>6. CASE CloseSegment(v)
    BY <1>6, OtherMoves, GotoKeeps DEF WorkerPoints, Executing
<1>7. CASE \/ LoadRun(v) \/ RefuseArtifact(v) \/ ThrowError(v) \/ Park(v) \/ Succeed(v)
           \/ CompleteJob(v) \/ RetryJob(v) \/ FailRun(v) \/ FailJob(v) \/ Crash(v)
    BY <1>7, OtherMoves, GotoKeeps, ReleaseFacts DEF WorkerPoints, Executing
<1> QED
    BY <1>1, <1>2, <1>3, <1>4, <1>5, <1>6, <1>7, OwnSteps DEF WorkerStep

\* A running run is put back into the queue by its owner or by an answer.
LEMMA WhoQueues ==
    ASSUME WorkersType, RowsType, [Next]_vars, run.status = "running", run'.status = "queued"
    PROVE  \/ \E w \in Workers : RetryJob(w) /\ run.lock = wk[w].tok
           \/ AskedNodes # {}
<1>1. ASSUME NEW s, run' = Unlock(run, s), s # "queued" PROVE FALSE
    BY <1>1 DEF Unlock, RowsType, RunRecord
<1>2. ASSUME run'.status = run.status PROVE FALSE
    BY <1>2
<1>3. ASSUME NEW w \in Workers,
             \/ WorkerStep(w) \/ RenewLease(w) \/ Crash(w) \/ ThrowError(w)
             \/ \E j \in Jobs : Claim(w, j)
      PROVE  RetryJob(w) /\ run.lock = wk[w].tok
  <2>1. CASE RetryJob(w)
    BY <1>2, <2>1 DEF RetryJob
  <2>2. CASE CompleteJob(w)
    BY <1>1, <1>2, <2>2 DEF CompleteJob
  <2>3. CASE SaveCheckpoint(w) \/ RenewLease(w) \/ \E j \in Jobs : Claim(w, j)
    BY <1>2, <2>3 DEF SaveCheckpoint, RenewLease, Claim, RowsType, RunRecord
  <2>4. CASE Park(w) \/ Succeed(w) \/ FailRun(w)
    BY <1>1, <1>2, <2>4 DEF Park, Succeed, FailRun
  <2> QED
    BY <1>2, <1>3, <2>1, <2>2, <2>3, <2>4
    DEF WorkerStep, LoadRun, OpenNode, CloseSegment, RunNode, CreateTask, CreateWait,
        RefuseArtifact, FailJob, Crash, ThrowError
<1>4. ASSUME \/ LockLapses \/ ReconcileTerminal \/ PauseRun \/ ResumeRun \/ UNCHANGED vars
             \/ \E j \in Jobs : LeaseLapses(j) \/ ReconcileExhausted(j)
             \/ \E target \in {"cancelled", "terminated"} : ControlRun(target)
      PROVE  FALSE
    BY <1>1, <1>2, <1>4 DEF LockLapses, ReconcileTerminal, PauseRun, ResumeRun, vars, LeaseLapses,
                            ReconcileExhausted, ControlRun, RowsType, RunRecord
<1>5. ASSUME NEW t \in Nodes \X Copies,
             ClaimTask(t) \/ ReturnTask(t) \/ CompleteTask(t) \/ RejectTask(t)
      PROVE  AskedNodes # {}
  <2>1. t \in OpenTasks
    BY <1>5 DEF ClaimTask, ReturnTask, CompleteTask, RejectTask, OpenTasks, RowsType
  <2> QED
    BY <2>1 DEF AskedNodes
<1>6. ASSUME NEW n \in Nodes, TriggerWait(n)
      PROVE  AskedNodes # {}
    BY <1>6 DEF TriggerWait, AskedNodes, ActiveWaits
<1> QED
    BY <1>3, <1>4, <1>5, <1>6, DomainOfTasks DEF Next, Reconcile, Person

\* As long as the owner is inside a node and nobody is asked, only a stop takes the run from it.
LEMMA WhoStops ==
    ASSUME WorkersType, RowsType, LeaseInv, LeaseInv', Custody, [Next]_vars,
           NEW w \in Workers, Owns(w), wk[w].pc = "work", wk'[w] = wk[w], AskedNodes = {}
    PROVE  Owns(w)' \/ run'.status \in Terminal
<1>1. run.lock # NoToken /\ run.status = "running" /\ run.lockLive
    BY ConstantTypes DEF Owns, WorkersType, LeaseInv, LockOwnership, Custody, LockAlive
<1>2. \A v \in Workers : (wk[v].pc # "idle" /\ run.lock = wk[v].tok) => v = w
    BY DEF Owns, LeaseInv, TokensUnique
<1>3. run'.status = "running" => Owns(w)'
  <2> SUFFICES ASSUME run'.status = "running" PROVE Owns(w)'
    OBVIOUS
  <2>1. run'.lock # NoToken
    BY DEF LeaseInv, LockOwnership
  <2>2. ~\E v \in Workers, j \in Jobs : Claim(v, j)
    BY <1>1 DEF Claim, Eligible, LockFree
  <2>3. run'.lock = run.lock
    BY <2>1, <2>2, WhoLocks
  <2> QED
    BY <2>3 DEF Owns
<1>4. ~PauseRun /\ ~ResumeRun
    BY <1>1 DEF PauseRun, ResumeRun
<1>5. ASSUME NEW v \in Workers, Park(v) /\ run.lock = wk[v].tok PROVE FALSE
  <2>1. v = w
    BY <1>2, <1>5 DEF Park
  <2> QED
    BY <1>5, <2>1 DEF Park
<1>6. run'.status # "queued"
  <2> SUFFICES ASSUME run'.status = "queued" PROVE FALSE
    OBVIOUS
  <2>1. PICK v \in Workers : RetryJob(v) /\ run.lock = wk[v].tok
    BY <1>1, WhoQueues
  <2>2. v = w
    BY <1>2, <2>1 DEF RetryJob
  <2> QED
    BY <2>1, <2>2 DEF RetryJob
<1> QED
    BY <1>1, <1>3, <1>4, <1>5, <1>6, WhoRests

\* A worker about to enter a state has just checkpointed it, or still stands there.
LEMMA EntersStep ==
    ASSUME IInv, IInv', ArtifactKinds, Custody, AskInv, VisitInv, AloneInv, EntersFresh, EntersAlone,
           [Next]_vars, NoLoss'
    PROVE  EntersFresh' /\ EntersAlone'
<1>1. /\ WorkersType /\ RowsType /\ WorkersType' /\ RowsType' /\ LeaseInv /\ LeaseInv' /\ OpenInv
      /\ OwnerInNode
    BY BothParts DEF Custody
<1>2. ASSUME NEW w \in Workers, Enters(w)', SaveCheckpoint(w), Fenced(wk[w].tok), wk[w].pc = "enter"
      PROVE  /\ Head(wk'[w].queue) \notin run'.done /\ wk'[w].queue = run'.queue
             /\ AskedNodes' = {} /\ Owns(w)'
  <2> DEFINE q == wk[w].queue
             n == Head(q)
  <2>1. wk'[w].queue = q /\ wk'[w].pc = "work" /\ wk'[w].tok = wk[w].tok
    BY <1>1, <1>2, GotoKeeps DEF SaveCheckpoint, AfterCheckpoint, WorkerPoints, Executing
  <2>2. run'.queue = q /\ run'.done = wk[w].done /\ run'.lock = run.lock
    BY <1>1, <1>2 DEF SaveCheckpoint, RowsType, RunRecord
  <2>3. Owns(w) /\ Owns(w)'
    BY <1>2, <2>1, <2>2 DEF Owns, Fenced
  <2>4. q \in Seq(Nodes) /\ q # <<>> /\ n \in Nodes /\ Kind[n] = "state"
    BY <1>1, <1>2, <2>1, QueuesTyped, QueueTypes DEF WorkersType, HasHead, Enters
  <2>5. Apart(q, wk[w].done) /\ \A a \in AskedNodes : EndsBehind(q, a)
    BY <2>3 DEF VisitInv, ViewsApart, AloneInv
  <2>6. 1 \in DOMAIN q /\ q[1] = n /\ n \in Future(n)
    BY <2>4, TailPlaces, FutureFacts DEF Ends
  <2>7. n \notin wk[w].done
    BY <2>5, <2>6 DEF Apart
  <2>8. AskedNodes = {}
    BY <1>1, <2>4, <2>5, <2>6, AskersAsk DEF EndsBehind, Ends
  <2>9. AskedNodes' = {}
    BY <1>1, <1>2, <2>8, ArtifactsShrink, AskedFacts DEF SaveCheckpoint
  <2> QED
    BY <2>1, <2>2, <2>3, <2>7, <2>9
<1>3. ASSUME NEW w \in Workers, Enters(w)', wk'[w] = wk[w]
      PROVE  /\ Head(wk'[w].queue) \notin run'.done /\ wk'[w].queue = run'.queue
             /\ AskedNodes' = {} /\ (Owns(w)' \/ run'.status \in Terminal)
  <2>1. /\ Enters(w) /\ AskedNodes = {} /\ wk[w].pc = "work"
        /\ Head(wk[w].queue) \notin run.done /\ wk[w].queue = run.queue
        /\ Owns(w) \/ run.status \in Terminal
    BY <1>3 DEF Enters, EntersFresh
  <2>2. \A v \in Workers : Owns(v) => v = w
  <3>1. \A v \in Workers : Owns(v) => run.status = "running"
        BY <1>1, ConstantTypes DEF Owns, WorkersType, LeaseInv, LockOwnership
    <3> QED
        BY <1>1, <2>1, <3>1 DEF Owns, LeaseInv, TokensUnique, Terminal
  <2>3. run'.queue = run.queue /\ run'.done = run.done
    <3>1. CASE RunStays
        BY <3>1 DEF RunStays
    <3>2. ASSUME NEW v \in Workers, Saves(v)
          PROVE  run'.queue = run.queue /\ run'.done = run.done
      <4>1. v = w /\ Owns(w)
        BY <2>2, <3>2 DEF Saves
      <4> QED
        BY <1>1, <2>1, <3>2, <4>1 DEF Saves, OwnerInNode
    <3>3. ASSUME NEW a \in Nodes, Answered(a) \/ Refused(a) \/ Fired(a)
          PROVE  FALSE
        BY <1>1, <2>1, <3>3, AskersAsk DEF Answered, Refused, Fired
    <3> QED
        BY <1>1, <3>1, <3>2, <3>3, Moves DEF Rests, Drops, Runs, Asks, Takes
  <2>4. AskedNodes' = {}
    <3>1. CASE Shrinks
        BY <1>1, <2>1, <3>1, AskedFacts
    <3>2. ASSUME NEW v \in Workers, Asks(v)
          PROVE  FALSE
      <4>1. v = w
        BY <2>2, <3>2 DEF Asks, OnlyOwner
      <4> QED
        BY <2>1, <3>2, <4>1 DEF Asks, Enters
    <3> QED
        BY <1>1, <3>1, <3>2, Moves DEF Rests, Saves, Drops, Runs, Takes, Answered, Refused, Fired
  <2>5. Owns(w)' \/ run'.status \in Terminal
    <3>1. CASE Owns(w)
        BY <1>1, <1>3, <2>1, <3>1, WhoStops
    <3>2. CASE run.status \in Terminal
        BY <1>1, <3>2, TerminalStays
    <3> QED
        BY <2>1, <3>1, <3>2
  <2> QED
    BY <1>3, <2>1, <2>3, <2>4, <2>5
<1>4. \A w \in Workers : Enters(w)' =>
         \/ wk'[w] = wk[w]
         \/ SaveCheckpoint(w) /\ Fenced(wk[w].tok) /\ wk[w].pc = "enter"
    BY <1>1, WhoWorks DEF Enters
<1>5. EntersFresh'
    BY <1>2, <1>3, <1>4 DEF EntersFresh
<1>6. ASSUME NEW v \in Workers, NEW w \in Workers, Enters(v)', Enters(w)'
      PROVE  v = w
  <2>1. CASE Owns(v)' /\ Owns(w)'
    BY <1>1, <2>1 DEF Owns, LeaseInv, TokensUnique
  <2>2. CASE run'.status \in Terminal
    <3>1. \A u \in Workers : ~Owns(u)'
        BY <1>1, <2>2, ConstantTypes DEF Owns, WorkersType, LeaseInv, LockOwnership, Terminal
    <3>2. wk'[v] = wk[v] /\ wk'[w] = wk[w]
        BY <1>2, <1>4, <1>6, <3>1
    <3>3. Enters(v) /\ Enters(w)
        BY <1>6, <3>2 DEF Enters
    <3> QED
        BY <3>3 DEF EntersAlone
  <2> QED
    BY <1>5, <1>6, <2>1, <2>2 DEF EntersFresh
<1> QED
    BY <1>5, <1>6 DEF EntersAlone

-----------------------------------------------------------------------------
(* The trail of states.                                                    *)

\* What was entered is done, but for the state the queue stands at.
TrailIn(q, d) ==
    \A i \in DOMAIN trail : trail[i] \in d \/ (q # <<>> /\ i = Len(trail) /\ trail[i] = Head(q))

RunTrail == TrailIn(run.queue, run.done)
OwnersTrail == \A w \in Workers : Owns(w) => TrailIn(wk[w].queue, wk[w].done)

\* No state is recorded twice.
NoneTwice == \A i, k \in DOMAIN trail : trail[i] = trail[k] => i = k

TrailInv ==
    /\ \A i \in DOMAIN trail : Kind[trail[i]] = "state"
    /\ NoneTwice
    /\ RunTrail /\ OwnersTrail
    /\ \A n \in ActiveWaits : \A i \in DOMAIN trail : trail[i] \in waits[n].done

\* The trail grows only by a worker entering a state.
LEMMA WhoTrails ==
    ASSUME [Next]_vars
    PROVE  \/ trail' = trail
           \/ \E w \in Workers : RunNode(w) /\ Enters(w) /\ EnterState(Head(wk[w].queue))
<1>1. ASSUME NEW w \in Workers, RunNode(w)
      PROVE  \/ trail' = trail
             \/ RunNode(w) /\ Enters(w) /\ EnterState(Head(wk[w].queue))
    BY <1>1 DEF RunNode, Enters
<1> QED
    BY <1>1
    DEF Next, WorkerStep, LoadRun, OpenNode, CloseSegment, SaveCheckpoint, CreateTask,
        CreateWait, RefuseArtifact, Park, Succeed, CompleteJob, RetryJob, FailRun, FailJob,
        RenewLease, Claim, LockLapses, Reconcile, ReconcileTerminal, ReconcileExhausted, Person,
        ClaimTask, ReturnTask, CompleteTask, RejectTask, ControlRun, PauseRun, ResumeRun,
        TriggerWait, LeaseLapses, Crash, ThrowError, vars

\* Entering a state that is not done yet records it once.
LEMMA TrailEnters ==
    ASSUME IInv, IInv', Custody, EntersFresh, TrailInv, [Next]_vars,
           NEW w \in Workers, RunNode(w), Enters(w), EnterState(Head(wk[w].queue))
    PROVE  TrailInv'
<1> DEFINE n == Head(wk[w].queue)
<1>1. /\ WorkersType /\ RowsType /\ WorkersType' /\ RowsType' /\ LeaseInv /\ LeaseInv'
      /\ OwnerInNode
    BY BothParts DEF Custody
<1>2. /\ run' = run /\ tasks' = tasks /\ waits' = waits /\ Kind[n] = "state"
      /\ n \notin run.done /\ wk[w].queue = run.queue /\ AskedNodes = {} /\ run.queue # <<>>
      /\ Owns(w) \/ run.status \in Terminal
    BY <1>1 DEF RunNode, Enters, EntersFresh, WorkersType, HasHead
<1>3. trail \in Seq(Nodes) /\ n \in Nodes
    BY <1>1, <1>2, QueueTypes, QueuesTyped DEF RowsType
<1>4. trail' = IF trail # <<>> /\ trail[Len(trail)] = n THEN trail ELSE Append(trail, n)
    BY DEF EnterState
<1>5. TrailIn(run.queue, run.done) /\ n = Head(run.queue)
    BY <1>2 DEF TrailInv, RunTrail
<1> HIDE DEF n
<1>6. \A i \in DOMAIN trail : trail[i] = n => i = Len(trail)
    BY <1>2, <1>5 DEF TrailIn
<1>7. /\ \A i \in DOMAIN trail' : \/ i \in DOMAIN trail /\ trail'[i] = trail[i]
                                  \/ i = Len(trail') /\ trail'[i] = n
      /\ \A i \in DOMAIN trail' : trail'[i] = n => i = Len(trail')
      /\ \A i \in DOMAIN trail : i \in DOMAIN trail' /\ trail'[i] = trail[i]
  <2>1. CASE trail # <<>> /\ trail[Len(trail)] = n
    BY <1>4, <1>6, <2>1
  <2>2. CASE ~(trail # <<>> /\ trail[Len(trail)] = n)
    <3>1. trail' = Append(trail, n) /\ \A i \in DOMAIN trail : trail[i] # n
        BY <1>3, <1>4, <1>6, <2>2
    <3>2. /\ Len(trail') = Len(trail) + 1 /\ trail'[Len(trail')] = n
          /\ DOMAIN trail' = 1..(Len(trail) + 1) /\ DOMAIN trail = 1..Len(trail)
          /\ \A i \in DOMAIN trail : trail'[i] = trail[i]
        BY <1>3, <3>1
    <3> QED
        BY <1>3, <3>1, <3>2
  <2> QED
    BY <2>1, <2>2
<1>8. \A i \in DOMAIN trail' : Kind[trail'[i]] = "state"
    BY <1>2, <1>7 DEF TrailInv
<1>9. NoneTwice'
    BY <1>7 DEF TrailInv, NoneTwice
<1>10. \A i \in DOMAIN trail' : trail'[i] \in run.done \/ (i = Len(trail') /\ trail'[i] = n)
    BY <1>5, <1>7 DEF TrailIn
<1>11. RunTrail'
    BY <1>2, <1>5, <1>10 DEF RunTrail, TrailIn
<1>12. OwnersTrail'
  <2> SUFFICES ASSUME NEW v \in Workers, Owns(v)'
               PROVE  \A i \in DOMAIN trail' : trail'[i] \in wk'[v].done
    BY DEF OwnersTrail, TrailIn
  <2>1. run.lock # NoToken /\ run.status \notin Terminal
    BY <1>1, <1>2, ConstantTypes DEF Owns, WorkersType, LeaseInv, LockOwnership, Terminal
  <2>2. Owns(w) /\ wk'[w].pc # "idle" /\ wk'[w].tok = wk[w].tok
    BY <1>1, <1>2, <2>1, RunNodeFacts
  <2>3. v = w
    BY <1>1, <1>2, <2>2 DEF Owns, LeaseInv, TokensUnique
  <2>4. wk'[w].done = run.done \cup {n}
    BY <1>1, <2>2, RunNodeFacts DEF OwnerInNode, n
  <2> QED
    BY <1>10, <2>3, <2>4
<1>13. ActiveWaits' = {}
    BY <1>2 DEF AskedNodes, ActiveWaits
<1> QED
    BY <1>8, <1>9, <1>11, <1>12, <1>13 DEF TrailInv

\* Any other step keeps the trail within what is done.
LEMMA TrailStays ==
    ASSUME IInv, IInv', ArtifactKinds, Custody, SeenInv, AskInv, AloneInv, OneAsking, TrailInv,
           [Next]_vars, NoLoss', trail' = trail
    PROVE  TrailInv'
<1>1. /\ WorkersType /\ RowsType /\ WorkersType' /\ RowsType' /\ LeaseInv /\ LeaseInv' /\ OpenInv
    BY BothParts
<1>2. /\ \A i \in DOMAIN trail' : Kind[trail'[i]] = "state"
      /\ NoneTwice'
    BY DEF TrailInv, NoneTwice
<1>3. ASSUME Shrinks
      PROVE  \A n \in ActiveWaits' : \A i \in DOMAIN trail' : trail'[i] \in waits'[n].done
    BY <1>3 DEF Shrinks, TrailInv, ActiveWaits
<1>4. ASSUME Rests \/ \E w \in Workers : Saves(w) \/ Takes(w)
      PROVE  TrailInv'
  <2>1. Shrinks
    BY <1>4 DEF Rests, Saves, Takes
  <2>2. /\ \/ run'.queue = run.queue /\ run'.done = run.done
           \/ \E w \in Workers : Owns(w) /\ run'.queue = wk[w].queue /\ run'.done = wk[w].done
        /\ \A v \in Workers : Owns(v)' =>
              \/ Owns(v) /\ wk'[v].queue = wk[v].queue /\ wk'[v].done = wk[v].done
              \/ wk'[v].queue = run.queue /\ wk'[v].done = run.done
    BY <1>4 DEF Rests, Saves, Takes, RunStays, OwnersStay
  <2>3. RunTrail' /\ OwnersTrail'
    BY <2>2 DEF TrailInv, RunTrail, OwnersTrail, TrailIn
  <2> QED
    BY <1>2, <1>3, <2>1, <2>3 DEF TrailInv
<1>5. ASSUME NEW w \in Workers, Drops(w) \/ Runs(w) \/ Asks(w)
      PROVE  TrailInv'
  <2> DEFINE n == Head(wk[w].queue)
  <2>1. /\ Owns(w) /\ run'.queue = run.queue /\ run'.done = run.done
        /\ \A v \in Workers : Owns(v)' => v = w
        /\ wk[w].done \subseteq wk'[w].done
    BY <1>5 DEF Drops, Runs, Asks, OnlyOwner, RunStays
  <2>2. TrailIn(wk[w].queue, wk[w].done)
    BY <2>1 DEF TrailInv, OwnersTrail
  <2>3. \A i \in DOMAIN trail : trail[i] \in wk'[w].done
    <3>1. CASE Runs(w)
        BY <2>2, <3>1 DEF TrailIn, Runs
    <3>2. CASE Asks(w)
        BY <2>1, <2>2, <3>2 DEF TrailIn, TrailInv, Asks
    <3>3. CASE Drops(w) /\ n \in wk[w].seen
        BY <2>1, <2>2, <3>3 DEF TrailIn, SeenInv, Drops
    <3>4. CASE Drops(w) /\ n \in AskedNodes
        BY <1>1, <2>1, <2>2, <3>4, AskersAsk DEF TrailIn, TrailInv
    <3> QED
        BY <1>5, <3>1, <3>2, <3>3, <3>4 DEF Drops
  <2>4. RunTrail' /\ OwnersTrail'
    BY <2>1, <2>3 DEF TrailInv, RunTrail, OwnersTrail, TrailIn
  <2>5. \A m \in ActiveWaits' : \A i \in DOMAIN trail' : trail'[i] \in waits'[m].done
    <3>1. CASE Asks(w)
      <4>1. \A m \in ActiveWaits' : (m \in ActiveWaits /\ waits'[m] = waits[m]) \/ waits'[m].done = wk'[w].done
        BY <3>1 DEF Asks, ActiveWaits
      <4> QED
        BY <2>3, <4>1 DEF TrailInv
    <3>2. CASE Drops(w) \/ Runs(w)
        BY <1>3, <3>2 DEF Drops, Runs
    <3> QED
        BY <1>5, <3>1, <3>2
  <2> QED
    BY <1>2, <2>4, <2>5 DEF TrailInv
<1>6. ASSUME NEW a \in Nodes, Answered(a) \/ Refused(a) \/ Fired(a)
      PROVE  TrailInv'
  <2>1. ActiveWaits' = {} /\ NobodyNext
    BY <1>1, <1>6, AskAnswers DEF AskedNodes, Answered, Refused, Fired
  <2>2. \A i \in DOMAIN trail : trail[i] \in run'.done
    <3>1. CASE Fired(a)
        BY <3>1 DEF Fired, TrailInv
    <3>2. CASE Answered(a) \/ Refused(a)
      <4>1. /\ run'.done = run.done \cup {a} /\ EndsBehind(run.queue, a) /\ Kind[a] = "operate"
            /\ run.queue \in Seq(Nodes)
        BY <1>1, <3>2, QueuesTyped DEF Answered, Refused, AloneInv
      <4>2. run.queue # <<>> => Head(run.queue) \in Ends \/ Head(run.queue) = a
        BY <4>1, TailPlaces DEF EndsBehind
      <4> QED
        BY <4>1, <4>2 DEF TrailInv, RunTrail, TrailIn, Ends
    <3> QED
        BY <1>6, <3>1, <3>2
  <2>3. RunTrail'
    BY <2>2 DEF RunTrail, TrailIn
  <2> QED
    BY <1>2, <2>1, <2>3 DEF TrailInv, OwnersTrail, NobodyNext
<1> QED
    BY <1>1, <1>4, <1>5, <1>6, Moves

\* Questions are put alone, states are entered fresh, and the trail is what was entered.
EnteredInv ==
    NoLoss /\ AskAlone /\ OneVisit => AloneInv /\ EntersFresh /\ EntersAlone /\ TrailInv

\* If next to a branch that asks only the end is selected and no path leads back, then
\* without crashes and stalls a worker enters a state with nobody asked and the run's queue
\* still standing at it, and never one already recorded, although the record is not fenced
\* by the lease and an exception may come between it and the checkpoint (persistStateNode).
THEOREM EnteredInvariant == Spec => []EnteredInv
<1>1. Init => EnteredInv
  <2> SUFFICES ASSUME Init PROVE AloneInv /\ EntersFresh /\ EntersAlone /\ TrailInv
    BY DEF EnteredInv
  <2>1. AskedNodes = {} /\ ActiveWaits = {} /\ trail = <<>> /\ DOMAIN trail = {}
    BY DEF Init, AskedNodes, OpenTasks, ActiveWaits
  <2>2. run.queue = <<StartNode>> /\ \A w \in Workers : ~Owns(w) /\ ~Enters(w)
    BY DEF Init, IdleWorker, Owns, Enters
  <2>3. Alone(<<StartNode>>)
    BY DEF Alone
  <2>4. AloneInv
    BY <2>1, <2>2, <2>3 DEF AloneInv
  <2>5. TrailInv
    BY <2>1, <2>2 DEF TrailInv, RunTrail, OwnersTrail, TrailIn, NoneTwice
  <2> QED
    BY <2>2, <2>4, <2>5 DEF EntersFresh, EntersAlone
<1>2. ASSUME IInv, IInv', ArtifactKinds, CustodyInv, SeenInv, AskedInv, VisitedInv, EnteredInv,
             [Next]_vars, NoLoss', AskAlone, OneVisit
      PROVE  AloneInv' /\ EntersFresh' /\ EntersAlone' /\ TrailInv'
  <2>1. OneAsking /\ NoLoss /\ Custody
    BY <1>2, BothParts, LossesStay, AloneAsksOne DEF CustodyInv
  <2>2. AskInv /\ VisitInv /\ AloneInv /\ EntersFresh /\ EntersAlone /\ TrailInv
    BY <1>2, <2>1 DEF AskedInv, VisitedInv, EnteredInv
  <2>3. AloneInv'
    BY <1>2, <2>1, <2>2, AloneStep
  <2>4. EntersFresh' /\ EntersAlone'
    BY <1>2, <2>1, <2>2, EntersStep
  <2>5. TrailInv'
    BY <1>2, <2>1, <2>2, WhoTrails, TrailEnters, TrailStays
  <2> QED
    BY <2>3, <2>4, <2>5
<1>3. /\ IInv /\ IInv' /\ ArtifactKinds /\ CustodyInv /\ SeenInv /\ AskedInv /\ VisitedInv
      /\ EnteredInv /\ [Next]_vars
      => EnteredInv'
    BY <1>2 DEF EnteredInv
<1> QED
    BY <1>1, <1>3, Invariance, KindsInvariant, CustodyInvariant, SeenInvariant,
       OneQuestionAtATime, OneVisitEach, PTL DEF Spec

-----------------------------------------------------------------------------
(* The worker dies between the entry and the checkpoint: a run nobody is     *)
(* asked in, whose workers may crash but do not stall.                       *)

\* The definition has neither tasks nor waits.
Unasked == \A n \in Nodes : Kind[n] \notin {"operate", "wait"}

Busy(w) == wk[w].pc # "idle"

\* The worker's lease on the run and on its job is unexpired.
Holds(w) == Owns(w) /\ run.lockLive /\ jobs[wk[w].tok[1]].live

\* One worker at most is at work; it holds the run, or the run is over.
SoloInv ==
    /\ \A v, w \in Workers : Busy(v) /\ Busy(w) => v = w
    /\ \A w \in Workers : Busy(w) => run.status \in Terminal \/ Holds(w)
    /\ \A w \in Workers : wk[w].pc \notin {"artifact", "park"}
    /\ run.status # "waiting"

\* A run that is not over has one job at most, at the run's checkpoint, whoever dies.
SoleJob ==
    run.status \notin Terminal => \A j \in Outstanding :
        /\ jobs[j].queue = run.queue /\ jobs[j].done = run.done
        /\ jobs[j].status = "queued" => run.status = "queued"
        /\ jobs[j].status = "leased" => run.lock = <<j, jobs[j].attempt>>
        /\ \A i \in Outstanding : i = j

\* Where nothing asks, no task and no wait is ever created, answered or triggered.
LEMMA NothingAsked ==
    ASSUME WorkersType, RowsType, ArtifactKinds, Unasked
    PROVE  /\ OpenTasks = {} /\ ActiveWaits = {}
           /\ \A w \in Workers : ~CreateTask(w) /\ ~CreateWait(w) /\ ~RefuseArtifact(w)
           /\ \A t \in DOMAIN tasks :
                 ~ClaimTask(t) /\ ~ReturnTask(t) /\ ~CompleteTask(t) /\ ~RejectTask(t)
           /\ \A n \in Nodes : ~TriggerWait(n)
<1>1. \A t \in Nodes \X Copies : tasks[t] = "absent"
    BY DEF ArtifactKinds, Unasked
<1>2. \A n \in Nodes : waits[n].status = "absent"
    BY DEF ArtifactKinds, Unasked
<1>3. DOMAIN tasks = Nodes \X Copies
    BY DomainOfTasks
<1>4. \A w \in Workers : wk[w].pc = "work" => Head(wk[w].queue) \in Nodes
    BY QueuesTyped, QueueTypes DEF WorkersType, HasHead
<1>5. \A w \in Workers : ~CreateTask(w) /\ ~CreateWait(w) /\ ~RefuseArtifact(w)
    BY <1>4 DEF CreateTask, CreateWait, RefuseArtifact, Unasked
<1> QED
    BY <1>1, <1>2, <1>3, <1>5 DEF OpenTasks, ActiveWaits, ClaimTask, ReturnTask, CompleteTask,
                             RejectTask, TriggerWait

\* A run with a lock is running and its job is leased; one without has no leased job.
LEMMA SoloFacts ==
    ASSUME WorkersType, RowsType, LeaseInv, SoloInv, SoleJob
    PROVE  /\ \A w \in Workers : Holds(w) => run.status = "running" /\ run.lock # NoToken /\ LeaseHeld(wk[w].tok)
           /\ run.status \in {"queued", "blocked"} =>
                 /\ \A w \in Workers : ~Busy(w)
                 /\ run.lock = NoToken /\ \A j \in Jobs : jobs[j].status # "leased"
           /\ run.status = "blocked" => Outstanding = {}
<1>1. \A w \in Workers : Holds(w) => run.status = "running" /\ run.lock # NoToken /\ LeaseHeld(wk[w].tok)
    BY ConstantTypes DEF Holds, Owns, WorkersType, LeaseInv, LockOwnership
<1>2. ASSUME run.status \in {"queued", "blocked"}
      PROVE  /\ \A w \in Workers : ~Busy(w)
             /\ run.lock = NoToken /\ \A j \in Jobs : jobs[j].status # "leased"
  <2>1. run.lock = NoToken
    BY <1>2 DEF LeaseInv, LockOwnership
  <2>2. \A j \in Jobs : <<j, jobs[j].attempt>> # NoToken
    BY BoundAssumption DEF Jobs, NoToken
  <2>3. \A j \in Jobs : jobs[j].status # "leased"
    BY <1>2, <2>1, <2>2 DEF SoleJob, Outstanding, Terminal
  <2> QED
    BY <1>1, <1>2, <2>1, <2>3 DEF SoloInv, Terminal
<1>3. run.status = "blocked" => Outstanding = {}
    BY <1>2 DEF SoleJob, Outstanding, Terminal
<1> QED
    BY <1>1, <1>2, <1>3

\* Where neither a lease nor a lock is touched and no worker begins, one worker is left at most.
LEMMA SoloKept ==
    ASSUME WorkersType, RowsType, SoloInv,
           \A v \in Workers : Busy(v)' => Busy(v) /\ wk'[v].tok = wk[v].tok,
           \A v \in Workers : wk'[v].pc \notin {"artifact", "park"},
           run'.status = run.status, run'.lock = run.lock, run.lockLive => run'.lockLive,
           \A j \in Jobs : jobs[j].live => jobs'[j].live
    PROVE  SoloInv'
<1>1. \A w \in Workers : Busy(w) => wk[w].tok[1] \in Jobs
    BY ConstantTypes DEF Busy, WorkersType
<1>2. \A w \in Workers : Busy(w)' /\ Holds(w) => Holds(w)'
    BY <1>1 DEF Holds, Owns, Busy
<1> QED
    BY <1>2 DEF SoloInv

\* Nor is one added where the run ends.
LEMMA SoloEnds ==
    ASSUME SoloInv, run'.status \in Terminal,
           \A v \in Workers : Busy(v)' => Busy(v),
           \A v \in Workers : wk'[v].pc \notin {"artifact", "park"}
    PROVE  SoloInv' /\ SoleJob'
BY DEF SoloInv, SoleJob, Terminal

\* A worker's step past the segment leaves the others alone, and itself busy or at rest.
LEMMA SoloLeaves ==
    ASSUME WorkersType, SoloInv, NEW w \in Workers,
           \/ Succeed(w) \/ CompleteJob(w) \/ RetryJob(w) \/ FailRun(w) \/ FailJob(w) \/ Crash(w)
    PROVE  /\ Busy(w)
           /\ \A v \in Workers : Busy(v)' => Busy(v) /\ wk'[v].tok = wk[v].tok
           /\ \A v \in Workers : wk'[v].pc \notin {"artifact", "park"}
<1>1. Busy(w) /\ (Release(w) \/ \E pc \in {"complete", "failing", "failJob"} : Goto(w, pc))
    BY OtherMoves DEF Busy
<1>2. CASE Release(w)
    BY <1>1, <1>2, ReleaseFacts DEF Busy, SoloInv
<1>3. ASSUME NEW pc \in {"complete", "failing", "failJob"}, Goto(w, pc)
      PROVE  /\ \A v \in Workers : Busy(v)' => Busy(v) /\ wk'[v].tok = wk[v].tok
             /\ \A v \in Workers : wk'[v].pc \notin {"artifact", "park"}
  <2>1. pc \in WorkerPoints
    BY DEF WorkerPoints, Executing
  <2> QED
    BY <1>1, <1>3, <2>1, GotoFacts DEF Busy, SoloInv
<1> QED
    BY <1>1, <1>2, <1>3

\* Inside the segment only the checkpoint writes, to the one job and to the run.
LEMMA SoloSegment ==
    ASSUME WorkersType, RowsType, WorkersType', LeaseInv, ArtifactKinds, Unasked, SoloInv, SoleJob,
           [Next]_vars, NEW w \in Workers,
           \/ LoadRun(w) \/ OpenNode(w) \/ CloseSegment(w) \/ SaveCheckpoint(w) \/ RunNode(w)
           \/ ThrowError(w)
    PROVE  SoloInv' /\ SoleJob'
<1>1. MovesOn(w) /\ run'.status = run.status /\ run'.lock = run.lock /\ run'.lockLive = run.lockLive
      /\ \A j \in Jobs : jobs'[j].status = jobs[j].status /\ jobs'[j].attempt = jobs[j].attempt
    BY SegmentMovesOn, SegmentRows
<1>2. \A v \in Workers : wk'[v].pc \notin {"artifact", "park"}
  <2>1. tasks' = tasks /\ waits' = waits
    BY DEF LoadRun, OpenNode, CloseSegment, SaveCheckpoint, RunNode, ThrowError
  <2>2. ~Asked
    BY NothingAsked DEF Asked
  <2>3. ~Asked'
    BY <2>1, <2>2 DEF Asked, OpenTasks, ActiveWaits
  <2> QED
    BY <2>2, <2>3, WhoParks DEF SoloInv
<1>3. \/ jobs' = jobs /\ run' = run
      \/ /\ SaveCheckpoint(w) /\ Fenced(wk[w].tok)
         /\ jobs' = [jobs EXCEPT ![wk[w].tok[1]].queue = wk[w].queue, ![wk[w].tok[1]].done = wk[w].done]
         /\ run' = [run EXCEPT !.queue = wk[w].queue, !.done = wk[w].done]
    BY DEF LoadRun, OpenNode, CloseSegment, SaveCheckpoint, RunNode, ThrowError
<1>4. CASE jobs' = jobs /\ run' = run
  <2>1. SoloInv'
    BY <1>1, <1>2, <1>4, SoloKept DEF MovesOn, Busy
  <2> QED
    BY <1>4, <2>1 DEF SoleJob, Outstanding
<1>5. CASE /\ SaveCheckpoint(w) /\ Fenced(wk[w].tok)
           /\ jobs' = [jobs EXCEPT ![wk[w].tok[1]].queue = wk[w].queue, ![wk[w].tok[1]].done = wk[w].done]
           /\ run' = [run EXCEPT !.queue = wk[w].queue, !.done = wk[w].done]
  <2> DEFINE j == wk[w].tok[1]
             q == wk[w].queue
             d == wk[w].done
  <2>1. j \in Jobs
    BY <1>1, ConstantTypes DEF MovesOn, WorkersType
  <2>2. run.status = "running" /\ run.lock = wk[w].tok
    BY <1>5 DEF Fenced
  <2>3. jobs' = [jobs EXCEPT ![j].queue = q, ![j].done = d] /\ run' = [run EXCEPT !.queue = q, !.done = d]
    BY <1>5
  <2>4. \A i \in Outstanding : i = j
    <3>1. ASSUME NEW i \in Outstanding PROVE i = j
      <4>1. jobs[i].status = "leased"
        BY <2>2 DEF SoleJob, Outstanding, Terminal
      <4> QED
        BY <2>2, <4>1 DEF SoleJob, Terminal
    <3> QED
        BY <3>1
  <2> HIDE DEF j, q, d
  <2>5. /\ run'.queue = q /\ run'.done = d
        /\ jobs'[j].queue = q /\ jobs'[j].done = d
        /\ \A i \in Jobs : jobs'[i].live = jobs[i].live
    BY <2>1, <2>3 DEF RowsType, RunRecord, JobRecord
  <2>6. SoloInv'
    BY <1>1, <1>2, <2>5, SoloKept DEF MovesOn, Busy
  <2>7. Outstanding' = Outstanding
    BY <1>1 DEF Outstanding
  <2>8. SoleJob'
    BY <1>1, <2>1, <2>2, <2>4, <2>5, <2>7 DEF SoleJob, Outstanding
  <2> QED
    BY <2>6, <2>8
<1> QED
    BY <1>3, <1>4, <1>5

\* Nothing a dying worker, a retry, a claim, a pause or a stop does adds a second worker or a
\* second job to the run.
LEMMA SoloStep ==
    ASSUME WorkersType, RowsType, WorkersType', RowsType', LeaseInv, LeaseInv', ArtifactKinds,
           Unasked, SoloInv, SoleJob, [Next]_vars, used'.stalls = 0
    PROVE  SoloInv' /\ SoleJob'
<1>1. ASSUME NEW w \in Workers, Succeed(w) \/ CompleteJob(w) \/ FailRun(w) \/ FailJob(w)
      PROVE  SoloInv' /\ SoleJob'
  <2>1. /\ Busy(w) /\ wk[w].tok \in Token /\ wk[w].tok[1] \in Jobs
        /\ wk[w].pc \in {"complete", "failJob"} => run.lock # wk[w].tok
        /\ run.lock # wk[w].tok => run.status \in Terminal
    BY <1>1, SoloLeaves, ConstantTypes DEF LeaseInv, Released, SoloInv, Holds, Owns, Busy, WorkersType
  <2>2. \A s : Unlock(run, s).status = s
    BY DEF Unlock, RowsType, RunRecord
  <2>3. run'.status \in Terminal
    BY <1>1, <2>1, <2>2 DEF Succeed, CompleteJob, FailRun, FailJob, Terminal
  <2> QED
    BY <1>1, <2>3, SoloLeaves, SoloEnds
<1>2. ASSUME NEW w \in Workers, RetryJob(w)
      PROVE  SoloInv' /\ SoleJob'
  <2> DEFINE tok == wk[w].tok
             j == tok[1]
             s == IF run.lock = tok THEN "queued"
                  ELSE IF run.status = "waiting" THEN "completed" ELSE "cancelled"
  <2>1. Busy(w) /\ \A v \in Workers : ~Busy(v)' /\ wk'[v].pc \notin {"artifact", "park"}
    BY <1>2, SoloLeaves, ReleaseFacts DEF RetryJob, Busy, SoloInv
  <2>2. CASE run.lock # tok
    <3>1. run.status \in Terminal /\ run' = run
        BY <1>2, <2>1, <2>2 DEF RetryJob, SoloInv, Holds, Owns
    <3> QED
        BY <2>1, <3>1, SoloEnds
  <2>3. CASE run.lock = tok
    <3>1. /\ run.status = "running" /\ LeaseHeld(tok) /\ j \in Jobs /\ run.lock # NoToken
        BY <2>1, <2>3, ConstantTypes DEF LeaseInv, LockOwnership, WorkersType, Busy
    <3>2. jobs' = [jobs EXCEPT ![j].status = "queued"] /\ run' = Unlock(run, "queued")
        BY <1>2, <2>3, <3>1 DEF RetryJob, SetJob
    <3>3. \A i \in Outstanding : i = j
        BY <2>3, <3>1 DEF SoleJob, Outstanding, Terminal
    <3> HIDE DEF j, tok
    <3>4. /\ run'.status = "queued" /\ run'.queue = run.queue /\ run'.done = run.done
          /\ jobs'[j].status = "queued" /\ jobs'[j].queue = jobs[j].queue
          /\ jobs'[j].done = jobs[j].done
          /\ \A i \in Jobs : i # j => jobs'[i] = jobs[i]
        BY <3>1, <3>2 DEF Unlock, RowsType, RunRecord, JobRecord
    <3>5. j \in Outstanding /\ run.status \notin Terminal
        BY <3>1 DEF Outstanding, LeaseHeld, Terminal, j
    <3>6. SoleJob'
        BY <3>3, <3>4, <3>5 DEF SoleJob, Outstanding
    <3> QED
        BY <2>1, <3>4, <3>6 DEF SoloInv
  <2> QED
    BY <2>2, <2>3
<1>3. ASSUME NEW w \in Workers, Crash(w)
      PROVE  SoloInv' /\ SoleJob'
  <2>1. run' = run /\ jobs' = jobs
    BY <1>3 DEF Crash
  <2> QED
    BY <1>3, <2>1, SoloLeaves, SoloKept DEF SoleJob, Outstanding
<1>4. ASSUME NEW w \in Workers, RenewLease(w)
      PROVE  SoloInv' /\ SoleJob'
  <2> DEFINE j == wk[w].tok[1]
  <2>1. j \in Jobs /\ jobs' = [jobs EXCEPT ![j].live = TRUE] /\ run' = [run EXCEPT !.lockLive = TRUE]
        /\ wk' = wk
    BY <1>4, ConstantTypes DEF RenewLease, WorkersType
  <2> HIDE DEF j
  <2>2. /\ \A i \in Jobs : /\ jobs'[i].status = jobs[i].status /\ jobs'[i].attempt = jobs[i].attempt
                           /\ jobs'[i].queue = jobs[i].queue /\ jobs'[i].done = jobs[i].done
                           /\ jobs[i].live => jobs'[i].live
        /\ run'.status = run.status /\ run'.lock = run.lock /\ run'.lockLive
        /\ run'.queue = run.queue /\ run'.done = run.done
    BY <2>1 DEF RowsType, JobRecord, RunRecord
  <2>3. SoloInv'
    BY <2>1, <2>2, SoloKept DEF Busy, SoloInv
  <2> QED
    BY <2>2, <2>3 DEF SoleJob, Outstanding
<1>5. ASSUME NEW w \in Workers, NEW j \in Jobs, Claim(w, j)
      PROVE  SoloInv' /\ SoleJob'
  <2> DEFINE tok == <<j, jobs[j].attempt + 1>>
  <2>1. /\ run.status \notin Terminal /\ (run.lock = NoToken \/ ~run.lockLive) /\ j \in Outstanding
        /\ run.status # "blocked"
    BY <1>5 DEF Claim, Eligible, LockFree, Claimable, Terminal, Outstanding
  <2>2. \A v \in Workers : ~Busy(v)
    BY <2>1, SoloFacts DEF SoloInv, Holds
  <2>3. /\ wk'[w].pc = "load" /\ wk'[w].tok = tok /\ \A v \in Workers \ {w} : wk'[v] = wk[v]
    BY <1>5, ClaimFacts, RememberFacts DEF Claim
  <2>4. /\ jobs'[j].status = "leased" /\ jobs'[j].attempt = tok[2] /\ jobs'[j].live
        /\ jobs'[j].queue = jobs[j].queue /\ jobs'[j].done = jobs[j].done
        /\ \A i \in Jobs \ {j} : jobs'[i] = jobs[i]
    BY <1>5 DEF Claim, RowsType, JobRecord
  <2>5. /\ run'.lock = tok /\ run'.lockLive /\ run'.queue = run.queue /\ run'.done = run.done
        /\ run'.status = "running" /\ tok[1] = j
    BY <1>5 DEF Claim, RowsType, RunRecord
  <2>6. SoloInv'
    BY <2>2, <2>3, <2>4, <2>5 DEF SoloInv, Holds, Owns, Busy
  <2>7. SoleJob'
    BY <2>1, <2>4, <2>5 DEF SoleJob, Outstanding
  <2> QED
    BY <2>6, <2>7
<1>6. ASSUME NEW j \in Jobs, LeaseLapses(j)
      PROVE  SoloInv' /\ SoleJob'
  <2> DEFINE held == \E w \in Workers : wk[w].tok = <<j, jobs[j].attempt>>
  <2>1. used' = IF held THEN [used EXCEPT !.stalls = @ + 1] ELSE used
    BY <1>6 DEF LeaseLapses
  <2> HIDE DEF held
  <2>2. ~held
    BY <2>1 DEF RowsType
  <2>3. \A w \in Workers : Holds(w) => wk[w].tok[1] # j
    <3>1. ASSUME NEW w \in Workers, Holds(w), wk[w].tok[1] = j
          PROVE  FALSE
      <4>1. LeaseHeld(wk[w].tok) /\ wk[w].tok \in Token
        BY <3>1, SoloFacts DEF WorkersType, Holds, Owns
      <4>2. wk[w].tok = <<j, jobs[j].attempt>>
        BY <3>1, <4>1 DEF LeaseHeld, Token
      <4> QED
        BY <2>2, <4>2 DEF held
    <3> QED
        BY <3>1
  <2>4. /\ run' = run /\ wk' = wk /\ jobs' = [jobs EXCEPT ![j].live = FALSE]
    BY <1>6 DEF LeaseLapses
  <2>5. \A i \in Jobs : /\ jobs'[i].status = jobs[i].status /\ jobs'[i].attempt = jobs[i].attempt
                        /\ jobs'[i].queue = jobs[i].queue /\ jobs'[i].done = jobs[i].done
                        /\ i # j => jobs'[i] = jobs[i]
    BY <2>4 DEF RowsType, JobRecord
  <2>6. \A w \in Workers : Holds(w) => Holds(w)'
    <3>1. \A w \in Workers : Holds(w) => wk[w].tok[1] \in Jobs
        BY ConstantTypes DEF Holds, Owns, WorkersType
    <3> QED
        BY <2>3, <2>4, <2>5, <3>1 DEF Holds, Owns
  <2>7. SoloInv'
    BY <2>4, <2>6 DEF SoloInv, Busy
  <2> QED
    BY <2>4, <2>5, <2>7 DEF SoleJob, Outstanding
<1>7. ASSUME LockLapses
      PROVE  SoloInv' /\ SoleJob'
  <2>1. /\ run.lock # NoToken /\ ~jobs[run.lock[1]].live /\ wk' = wk /\ jobs' = jobs
        /\ run' = [run EXCEPT !.lockLive = FALSE]
    BY <1>7 DEF LockLapses
  <2>2. /\ run'.status = run.status /\ run'.lock = run.lock
        /\ run'.queue = run.queue /\ run'.done = run.done
    BY <2>1 DEF RowsType, RunRecord
  <2>3. run.status = "running"
    BY <2>1 DEF LeaseInv, LockOwnership
  <2>4. \A w \in Workers : ~Busy(w)
    BY <2>1, <2>3 DEF SoloInv, Holds, Owns, Terminal
  <2>5. SoloInv'
    BY <2>1, <2>2, <2>4 DEF SoloInv, Busy
  <2> QED
    BY <2>1, <2>2, <2>5 DEF SoleJob, Outstanding
<1>8. ASSUME Reconcile \/ \E target \in {"cancelled", "terminated"} : ControlRun(target)
      PROVE  SoloInv' /\ SoleJob'
  <2>1. wk' = wk /\ run'.status \in Terminal
    BY <1>8 DEF Reconcile, ReconcileTerminal, ReconcileExhausted, ControlRun, Unlock, Terminal, RowsType,
                RunRecord
  <2> QED
    BY <2>1, SoloEnds DEF SoloInv, Busy
<1>9. ASSUME PauseRun
      PROVE  SoloInv' /\ SoleJob'
  <2>1. run.status = "queued"
    BY <1>9 DEF PauseRun, SoloInv
  <2>2. (\A w \in Workers : ~Busy(w)) /\ \A j \in Jobs : jobs[j].status # "leased"
    BY <2>1, SoloFacts
  <2>3. /\ run'.status = "blocked" /\ wk' = wk
        /\ \A j \in Jobs : jobs'[j].status \notin {"queued", "leased"}
    BY <1>9, <2>2 DEF PauseRun, Unlock, RowsType, RunRecord, JobRecord
  <2> QED
    BY <2>2, <2>3 DEF SoloInv, Busy, SoleJob, Outstanding
<1>10. ASSUME ResumeRun
      PROVE  SoloInv' /\ SoleJob'
  <2>1. run.status = "blocked" /\ Outstanding = {} /\ \A w \in Workers : ~Busy(w)
    BY <1>10, SoloFacts DEF ResumeRun
  <2>2. PICK j \in Jobs : FreshJob(j) /\ jobs' = [jobs EXCEPT ![j] = ResumeJob(run.queue, run.done)]
    BY <1>10, <2>1, NothingAsked DEF ResumeRun, ReusableJob
  <2>3. run' = [run EXCEPT !.status = "queued"] /\ wk' = wk
    BY <1>10, NothingAsked DEF ResumeRun
  <2>4. /\ run'.status = "queued" /\ run'.queue = run.queue /\ run'.done = run.done
        /\ jobs'[j].status = "queued" /\ jobs'[j].queue = run.queue /\ jobs'[j].done = run.done
        /\ \A i \in Jobs : i # j => jobs'[i] = jobs[i]
    BY <2>2, <2>3 DEF ResumeJob, RowsType, RunRecord
  <2>5. SoleJob'
    BY <2>1, <2>4 DEF SoleJob, Outstanding
  <2> QED
    BY <2>1, <2>3, <2>4, <2>5 DEF SoloInv, Busy
<1>11. ASSUME UNCHANGED vars
      PROVE  SoloInv' /\ SoleJob'
    BY <1>11 DEF vars, SoloInv, SoleJob, Busy, Holds, Owns, Outstanding
<1>12. \A w \in Workers : ~Park(w)
    BY DEF Park, SoloInv
<1> QED
    BY <1>1, <1>2, <1>3, <1>4, <1>5, <1>6, <1>7, <1>8, <1>9, <1>10, <1>11, <1>12,
       SoloSegment, NothingAsked DEF Next, WorkerStep, Person

-----------------------------------------------------------------------------
(* What a lone worker records.                                             *)

\* Inside a node the worker's memory is the run's checkpoint, whoever wrote that; nothing ahead
\* is done; and what was entered is done, but for the state a queue stands at.
SoloTrail ==
    /\ \A w \in Workers : wk[w].pc = "work" => wk[w].queue = run.queue /\ wk[w].done = run.done
    /\ Apart(run.queue, run.done) /\ \A w \in Workers : Busy(w) => Apart(wk[w].queue, wk[w].done)
    /\ \A i \in DOMAIN trail : Kind[trail[i]] = "state"
    /\ NoneTwice
    /\ RunTrail /\ \A w \in Workers : Busy(w) => TrailIn(wk[w].queue, wk[w].done)

\* Steps that record nothing, after which each worker at work has what it had or the checkpoint.
LEMMA SoloTrailRests ==
    ASSUME SoloTrail, trail' = trail, run'.queue = run.queue, run'.done = run.done,
           \A v \in Workers : Busy(v)' =>
              \/ /\ Busy(v) /\ wk'[v].queue = wk[v].queue /\ wk'[v].done = wk[v].done
                 /\ wk'[v].pc = "work" => wk[v].pc = "work"
              \/ wk'[v].queue = run.queue /\ wk'[v].done = run.done /\ wk'[v].pc # "work"
    PROVE  SoloTrail'
<1>1. NoneTwice' /\ RunTrail' /\ \A i \in DOMAIN trail' : Kind[trail'[i]] = "state"
    BY DEF SoloTrail, NoneTwice, RunTrail, TrailIn
<1>2. \A v \in Workers : wk'[v].pc = "work" => wk'[v].queue = run'.queue /\ wk'[v].done = run'.done
    BY DEF SoloTrail, Busy
<1>3. \A v \in Workers : Busy(v)' => /\ Apart(wk[v].queue, wk[v].done)'
                                     /\ TrailIn(wk[v].queue, wk[v].done)'
    BY DEF SoloTrail, RunTrail, TrailIn
<1>4. Apart(run.queue, run.done)'
    BY DEF SoloTrail
<1> QED
    BY <1>1, <1>2, <1>3, <1>4 DEF SoloTrail

\* The lone worker skips or begins the head of its queue.
LEMMA SoloTrailOpens ==
    ASSUME WorkersType, RowsType, SeenInv, SoloInv, SoloInv', SoloTrail, NEW w \in Workers, OpenNode(w)
    PROVE  SoloTrail'
<1> DEFINE q == wk[w].queue
           n == Head(q)
<1>1. /\ run' = run /\ trail' = trail /\ Busy(w) /\ q \in Seq(Nodes) /\ q # <<>> /\ n \in Nodes
      /\ \A v \in Workers : Busy(v)' => v = w
  <2>1. Busy(w) /\ run' = run /\ trail' = trail /\ q # <<>> /\ MovesOn(w)
    BY SegmentMovesOn DEF OpenNode, Busy
  <2>2. \A v \in Workers : Busy(v)' => v = w
    BY <2>1 DEF SoloInv, MovesOn, Busy
  <2> QED
    BY <2>1, <2>2, QueuesTyped, QueueTypes
<1>2. /\ wk'[w].done = wk[w].done /\ wk'[w].pc # "work"
      /\ wk'[w].queue = q \/ (n \in wk[w].seen /\ wk'[w].queue = Tail(q))
    BY OpenNodeFacts DEF SoloInv
<1>3. CASE wk'[w].queue = q
    BY <1>1, <1>2, <1>3, SoloTrailRests
<1>4. CASE n \in wk[w].seen /\ wk'[w].queue = Tail(q)
  <2>1. n \in wk[w].done
    BY <1>4 DEF SeenInv, OpenNode
  <2>2. Apart(q, wk[w].done) /\ TrailIn(q, wk[w].done)
    BY <1>1 DEF SoloTrail
  <2>3. Apart(Tail(q), wk[w].done)
    BY <1>1, <2>2, TailApart
  <2>4. TrailIn(Tail(q), wk[w].done)
    BY <1>1, <2>1, <2>2 DEF TrailIn
  <2> HIDE DEF q, n
  <2>5. \A v \in Workers : Busy(v)' => Apart(wk[v].queue, wk[v].done)'
    BY <1>1, <1>2, <1>4, <2>3
  <2>6. \A v \in Workers : Busy(v)' => TrailIn(wk[v].queue, wk[v].done)'
    BY <1>1, <1>2, <1>4, <2>4 DEF TrailIn
  <2>7. \A v \in Workers : wk'[v].pc # "work"
    BY <1>1, <1>2 DEF Busy
  <2>8. NoneTwice' /\ RunTrail' /\ \A i \in DOMAIN trail' : Kind[trail'[i]] = "state"
    BY <1>1 DEF SoloTrail, NoneTwice, RunTrail, TrailIn
  <2> QED
    BY <1>1, <2>5, <2>6, <2>7, <2>8 DEF SoloTrail
<1> QED
    BY <1>2, <1>3, <1>4

\* The lone worker's checkpoint becomes the run's.
LEMMA SoloTrailSaves ==
    ASSUME WorkersType, RowsType, SoloInv, SoloTrail, NEW w \in Workers, SaveCheckpoint(w)
    PROVE  SoloTrail'
<1>1. MovesOn(w) /\ Busy(w) /\ trail' = trail
    BY SegmentMovesOn DEF SaveCheckpoint, MovesOn, Busy
<1>2. \E pc \in WorkerPoints : Goto(w, pc) /\ (pc = "failing" \/ Fenced(wk[w].tok))
    BY DEF SaveCheckpoint, AfterCheckpoint, WorkerPoints, Executing
<1>3. /\ wk'[w].queue = wk[w].queue /\ wk'[w].done = wk[w].done
      /\ \A v \in Workers : Busy(v)' => v = w
    BY <1>1, <1>2, GotoKeeps DEF MovesOn, Busy, SoloInv
<1>4. CASE ~Fenced(wk[w].tok)
  <2>1. run' = run /\ wk'[w].pc = "failing"
    BY <1>2, <1>4, GotoKeeps DEF SaveCheckpoint
  <2> QED
    BY <1>1, <1>3, <2>1, SoloTrailRests
<1>5. CASE Fenced(wk[w].tok)
  <2>1. run'.queue = wk[w].queue /\ run'.done = wk[w].done
    BY <1>5 DEF SaveCheckpoint, RowsType, RunRecord
  <2>2. Apart(wk[w].queue, wk[w].done) /\ TrailIn(wk[w].queue, wk[w].done)
    BY <1>1 DEF SoloTrail
  <2>3. RunTrail' /\ \A v \in Workers : Busy(v)' => TrailIn(wk[v].queue, wk[v].done)'
    BY <1>1, <1>3, <2>1, <2>2 DEF RunTrail, TrailIn
  <2>4. \A v \in Workers : Busy(v)' => Apart(wk[v].queue, wk[v].done)'
    BY <1>3, <2>2
  <2>5. \A v \in Workers : wk'[v].pc = "work" => wk'[v].queue = run'.queue /\ wk'[v].done = run'.done
    BY <1>3, <2>1 DEF Busy
  <2>6. NoneTwice' /\ \A i \in DOMAIN trail' : Kind[trail'[i]] = "state"
    BY <1>1 DEF SoloTrail, NoneTwice
  <2> QED
    BY <2>1, <2>2, <2>3, <2>4, <2>5, <2>6 DEF SoloTrail
<1> QED
    BY <1>4, <1>5

\* The lone worker executes a node, a state whose entry an earlier attempt may have recorded.
LEMMA SoloTrailRuns ==
    ASSUME WorkersType, RowsType, SoloInv, OneVisit, SoloTrail, NEW w \in Workers, RunNode(w)
    PROVE  SoloTrail'
<1> DEFINE q == wk[w].queue
           n == Head(q)
           d == wk[w].done
<1>1. /\ run' = run /\ Busy(w) /\ q = run.queue /\ d = run.done
      /\ q \in Seq(Nodes) /\ q # <<>> /\ n \in Nodes /\ Tail(q) \in Seq(Nodes)
    BY QueuesTyped, QueueTypes DEF RunNode, Busy, SoloTrail, WorkersType, HasHead
<1>2. MovesOn(w) /\ wk'[w].pc # "work" /\ wk'[w].done = d \cup {n}
    BY SegmentMovesOn, RunNodeFacts
<1>3. PICK next \in Routes[n] : wk'[w].queue = Tail(q) \o next
    BY RunNodeFacts
<1>4. \A v \in Workers : Busy(v)' => v = w
    BY <1>1, <1>2 DEF MovesOn, Busy, SoloInv
<1>5. Apart(q, d) /\ TrailIn(q, d)
    BY <1>1 DEF SoloTrail
<1>6. Apart(wk[w].queue, wk[w].done)'
  <2>1. Apart(Tail(q), d) /\ FarFrom(Tail(q), n) /\ Future(n) \cap d = {}
    BY <1>1, <1>5, TailApart DEF AskApart
  <2> HIDE DEF q, n, d
  <2>2. Apart(Tail(q) \o next, d \cup {n})
    BY <1>1, <2>1, JoinApart
  <2>3. wk'[w].queue = Tail(q) \o next /\ wk'[w].done = d \cup {n}
    BY <1>2, <1>3
  <2> QED
    BY <2>2, <2>3 DEF Apart
<1>7. \A i \in DOMAIN trail : trail[i] = n => i = Len(trail) \/ n \in d
    BY <1>5 DEF TrailIn
<1>8. Kind[n] = "state" => n \notin d
  <2>1. n \in Future(n) \/ n \in Ends
    BY <1>1, FutureFacts
  <2> QED
    BY <1>1, <1>5, <2>1, TailPlaces DEF Apart, Ends
<1>9. /\ trail \in Seq(Nodes)
      /\ trail' = trail \/ (Kind[n] = "state" /\ EnterState(n))
    BY DEF RunNode, RowsType
<1> HIDE DEF n, d, q
<1>10. CASE trail' = trail
  <2>1. NoneTwice' /\ RunTrail' /\ \A i \in DOMAIN trail' : Kind[trail'[i]] = "state"
    BY <1>1, <1>10 DEF SoloTrail, NoneTwice, RunTrail, TrailIn
  <2>2. TrailIn(wk[w].queue, wk[w].done)'
    BY <1>2, <1>5, <1>10 DEF TrailIn, n
  <2> QED
    BY <1>1, <1>2, <1>4, <1>6, <2>1, <2>2 DEF SoloTrail, Busy
<1>11. CASE Kind[n] = "state" /\ trail' = Append(trail, n) /\ ~(trail # <<>> /\ trail[Len(trail)] = n)
  <2>1. \A i \in DOMAIN trail : trail[i] # n
    BY <1>7, <1>8, <1>9, <1>11
  <2>2. /\ Len(trail') = Len(trail) + 1 /\ trail'[Len(trail')] = n
        /\ DOMAIN trail' = 1..(Len(trail) + 1) /\ DOMAIN trail = 1..Len(trail) /\ Len(trail) \in Nat
        /\ \A i \in DOMAIN trail : trail'[i] = trail[i]
    BY <1>1, <1>9, <1>11
  <2>3. NoneTwice'
    BY <2>1, <2>2 DEF SoloTrail, NoneTwice
  <2>4. \A i \in DOMAIN trail' : Kind[trail'[i]] = "state"
    BY <1>11, <2>2 DEF SoloTrail
  <2>5. \A i \in DOMAIN trail : trail[i] \in d
    BY <1>5, <2>1 DEF TrailIn, n
  <2>6. \A i \in DOMAIN trail' : trail'[i] \in d \/ (i = Len(trail') /\ trail'[i] = n)
    BY <2>2, <2>5
  <2>7. RunTrail'
    BY <1>1, <2>6 DEF RunTrail, TrailIn, n
  <2>8. TrailIn(wk[w].queue, wk[w].done)'
    BY <1>2, <2>6 DEF TrailIn
  <2> QED
    BY <1>1, <1>2, <1>4, <1>6, <2>3, <2>4, <2>7, <2>8 DEF SoloTrail, Busy
<1> QED
    BY <1>9, <1>10, <1>11 DEF EnterState

\* Every step keeps the record of a run that asks nobody.
LEMMA SoloTrailStep ==
    ASSUME WorkersType, RowsType, WorkersType', RowsType', LeaseInv, LeaseInv', ArtifactKinds,
           Unasked, OneVisit, SeenInv, SoloInv, SoleJob, SoloTrail, [Next]_vars, used'.stalls = 0
    PROVE  SoloTrail'
<1>0. SoloInv'
    BY SoloStep
<1>1. \A s : Unlock(run, s).queue = run.queue /\ Unlock(run, s).done = run.done
    BY DEF Unlock, RowsType, RunRecord
<1>2. ASSUME NEW w \in Workers,
             \/ LoadRun(w) \/ CloseSegment(w) \/ ThrowError(w) \/ Succeed(w) \/ CompleteJob(w)
             \/ RetryJob(w) \/ FailRun(w) \/ FailJob(w) \/ Crash(w)
      PROVE  SoloTrail'
  <2>1. trail' = trail /\ run'.queue = run.queue /\ run'.done = run.done
    BY <1>1, <1>2 DEF LoadRun, CloseSegment, ThrowError, Succeed, CompleteJob, RetryJob, FailRun,
                      FailJob, Crash
  <2>2. \/ Release(w)
        \/ /\ wk[w].pc # "idle"
           /\ \E pc \in {"head", "failing", "park", "final", "complete", "failJob"} : Goto(w, pc)
    BY <1>2, OtherMoves DEF Executing
  <2>3. \A v \in Workers : Busy(v)' => /\ Busy(v) /\ wk'[v].queue = wk[v].queue /\ wk'[v].done = wk[v].done
                                       /\ wk'[v].pc = "work" => wk[v].pc = "work"
    <3>1. CASE Release(w)
        BY <3>1, ReleaseFacts DEF Busy
    <3>2. ASSUME NEW pc \in {"head", "failing", "park", "final", "complete", "failJob"}, Goto(w, pc),
                 wk[w].pc # "idle"
          PROVE  \A v \in Workers : Busy(v)' =>
                    /\ Busy(v) /\ wk'[v].queue = wk[v].queue /\ wk'[v].done = wk[v].done
                    /\ wk'[v].pc = "work" => wk[v].pc = "work"
      <4>1. pc \in WorkerPoints
        BY DEF WorkerPoints, Executing
      <4> QED
        BY <3>2, <4>1, GotoKeeps, GotoFacts DEF Busy
    <3> QED
        BY <2>2, <3>1, <3>2
  <2> QED
    BY <2>1, <2>3, SoloTrailRests
<1>3. ASSUME NEW w \in Workers, NEW j \in Jobs, Claim(w, j)
      PROVE  SoloTrail'
  <2>1. j \in Outstanding /\ run.status \notin Terminal
    BY <1>3 DEF Claim, Eligible, Claimable, Terminal, Outstanding
  <2>2. jobs[j].queue = run.queue /\ jobs[j].done = run.done
    BY <2>1 DEF SoleJob
  <2>3. /\ wk'[w].queue = run.queue /\ wk'[w].done = run.done /\ wk'[w].pc # "work"
        /\ \A v \in Workers \ {w} : wk'[v] = wk[v]
    BY <1>3, <2>2, ClaimFacts, RememberFacts DEF Claim
  <2>4. trail' = trail /\ run'.queue = run.queue /\ run'.done = run.done
    BY <1>3 DEF Claim, RowsType, RunRecord
  <2> QED
    BY <2>3, <2>4, SoloTrailRests DEF Busy
<1>4. ASSUME \/ LockLapses \/ Reconcile \/ PauseRun \/ ResumeRun \/ UNCHANGED vars
             \/ \E w \in Workers : RenewLease(w)
             \/ \E j \in Jobs : LeaseLapses(j)
             \/ \E target \in {"cancelled", "terminated"} : ControlRun(target)
      PROVE  SoloTrail'
  <2>1. wk' = wk /\ trail' = trail
    BY <1>4 DEF LockLapses, Reconcile, ReconcileTerminal, ReconcileExhausted, PauseRun, ResumeRun,
                vars, RenewLease, LeaseLapses, ControlRun
  <2>2. run'.queue = run.queue /\ run'.done = run.done
    <3>1. CASE LockLapses \/ ResumeRun \/ \E w \in Workers : RenewLease(w)
        BY <3>1 DEF LockLapses, ResumeRun, RenewLease, RowsType, RunRecord
    <3>2. CASE Reconcile \/ PauseRun \/ \E target \in {"cancelled", "terminated"} : ControlRun(target)
        BY <1>1, <3>2 DEF Reconcile, ReconcileTerminal, ReconcileExhausted, PauseRun, ControlRun
    <3>3. CASE UNCHANGED vars \/ \E j \in Jobs : LeaseLapses(j)
        BY <3>3 DEF vars, LeaseLapses
    <3> QED
        BY <1>4, <3>1, <3>2, <3>3
  <2> QED
    BY <2>1, <2>2, SoloTrailRests DEF Busy
<1>5. \A w \in Workers : ~Park(w)
    BY DEF Park, SoloInv
<1> QED
    BY <1>0, <1>2, <1>3, <1>4, <1>5, NothingAsked, SoloTrailOpens, SoloTrailSaves, SoloTrailRuns
    DEF Next, WorkerStep, Person

\* The invariant of a run nobody is asked in, for as long as no lease lapses under a live worker.
LoneInv == Unasked /\ OneVisit /\ used.stalls = 0 => SoloInv /\ SoleJob /\ SoloTrail

\* Nothing undoes a stall.
LEMMA StallsStay ==
    ASSUME RowsType, [Next]_vars, used'.stalls = 0
    PROVE  used.stalls = 0
<1>0. used \in [crashes : Nat, stalls : Nat, errors : Nat, pauses : Nat]
    BY DEF RowsType
<1>1. used'.stalls = used.stalls \/ used'.stalls = used.stalls + 1
    BY <1>0
    DEF Next, WorkerStep, LoadRun, OpenNode, CloseSegment, SaveCheckpoint, RunNode, CreateTask,
        CreateWait, RefuseArtifact, Park, Succeed, CompleteJob, RetryJob, FailRun, FailJob,
        RenewLease, Claim, LockLapses, Reconcile, ReconcileTerminal, ReconcileExhausted, Person,
        ClaimTask, ReturnTask, CompleteTask, RejectTask, ControlRun, PauseRun, ResumeRun,
        TriggerWait, LeaseLapses, Crash, ThrowError, vars
<1> QED
    BY <1>0, <1>1

\* In a definition without tasks and waits, crashes between the entry of a state and the
\* checkpoint leave one job at the run's checkpoint, whose next worker finds the state current.
THEOREM LoneInvariant == Spec => []LoneInv
<1>1. Init => LoneInv
  <2> SUFFICES ASSUME Init PROVE SoloInv /\ SoleJob /\ SoloTrail
    BY DEF LoneInv
  <2>1. /\ \A w \in Workers : wk[w].pc = "idle"
        /\ run.status = "queued" /\ run.queue = <<StartNode>> /\ run.done = {}
        /\ trail = <<>> /\ DOMAIN trail = {}
    BY DEF Init, IdleWorker
  <2>2. \A j \in Outstanding : j = 1 /\ jobs[j].status = "queued"
                              /\ jobs[j].queue = run.queue /\ jobs[j].done = run.done
    BY DEF Init, Outstanding
  <2>3. Apart(<<StartNode>>, {})
    BY DEF Apart
  <2>4. SoloInv /\ SoleJob
    BY <2>1, <2>2 DEF SoloInv, SoleJob, Busy
  <2>5. SoloTrail
    BY <2>1, <2>3 DEF SoloTrail, NoneTwice, RunTrail, TrailIn, Busy
  <2> QED
    BY <2>4, <2>5
<1>2. IInv /\ IInv' /\ ArtifactKinds /\ SeenInv /\ LoneInv /\ [Next]_vars => LoneInv'
  <2> SUFFICES ASSUME IInv, IInv', ArtifactKinds, SeenInv, LoneInv, [Next]_vars,
                      Unasked, OneVisit, used'.stalls = 0
               PROVE  SoloInv' /\ SoleJob' /\ SoloTrail'
    BY DEF LoneInv, Unasked, OneVisit
  <2>1. /\ WorkersType /\ RowsType /\ LeaseInv
        /\ WorkersType' /\ RowsType' /\ LeaseInv'
    BY BothParts
  <2>2. SoloInv /\ SoleJob /\ SoloTrail
    BY <2>1, StallsStay DEF LoneInv
  <2> QED
    BY <2>1, <2>2, SoloStep, SoloTrailStep
<1> QED
    BY <1>1, <1>2, Invariance, KindsInvariant, SeenInvariant, PTL DEF Spec

\* One entry is recorded per visit of a state although workers die between the record and the
\* checkpoint, where the definition asks nobody; where a branch that asks is selected beside the
\* end only, although anything throws in between and decisions displace the worker.
THEOREM EnteredOnce ==
    Spec => [](OneVisit /\ (Unasked \/ (AskAlone /\ used.crashes = 0)) => StatesEnteredOnce)
<1>1. EnteredInv /\ LoneInv
      => (OneVisit /\ (Unasked \/ (AskAlone /\ used.crashes = 0)) => StatesEnteredOnce)
    BY DEF EnteredInv, LoneInv, TrailInv, SoloTrail, NoneTwice, NoLoss, StatesEnteredOnce
<1> QED
    BY <1>1, EnteredInvariant, LoneInvariant, PTL

-----------------------------------------------------------------------------
(* Success is complete.                                                    *)

\* Every node but the end selects a successor.
Continues == \A n \in Nodes : Kind[n] # "end" => <<>> \notin Routes[n]

\* The context holds the output of the end node.
Ended(d) == d \cap Ends # {}

\* The run has ended, has something to execute, or waits for somebody.
Promise(q, d) == Ended(d) \/ q # <<>> \/ AskedNodes # {}
RunPromise == run.status \notin Terminal => Promise(run.queue, run.done)
OwnersPromise == \A w \in Workers : Owns(w) => Promise(wk[w].queue, wk[w].done)

\* Once the owner means to finish, nobody is asked and the end has its output; a run that
\* succeeded keeps it so.
FinishInv ==
    /\ \A w \in Workers : Owns(w) /\ wk[w].pc \in {"final", "succeed"} =>
          AskedNodes = {} /\ Ended(wk[w].done)
    /\ \A w \in Workers : Owns(w) /\ wk[w].pc = "succeed" => Ended(run.done)
    /\ run.status = "success" => AskedNodes = {} /\ Ended(run.done)

PromiseInv == RunPromise /\ OwnersPromise /\ FinishInv

\* A question is withdrawn by its answer or by the end of the run.
LEMMA WhoWithdraws ==
    ASSUME WorkersType, RowsType, RowsType', [Next]_vars
    PROVE  \/ AskedNodes \subseteq AskedNodes'
           \/ run'.status \in Terminal
           \/ \E a \in Nodes : \/ TriggerWait(a)
                               \/ \E c \in Copies : CompleteTask(<<a, c>>) \/ RejectTask(<<a, c>>)
<1>1. ASSUME OpenTasks \subseteq OpenTasks', ActiveWaits \subseteq ActiveWaits'
      PROVE  AskedNodes \subseteq AskedNodes'
    BY <1>1 DEF AskedNodes
<1>2. CASE tasks' = tasks /\ waits' = waits
    BY <1>1, <1>2 DEF OpenTasks, ActiveWaits
<1>3. ASSUME NEW t \in Nodes \X Copies, ClaimTask(t) \/ ReturnTask(t)
      PROVE  AskedNodes \subseteq AskedNodes'
    BY <1>1, <1>3 DEF ClaimTask, ReturnTask, OpenTasks, ActiveWaits, RowsType
<1>4. ASSUME NEW t \in Nodes \X Copies, CompleteTask(t) \/ RejectTask(t)
      PROVE  \E a \in Nodes : \E c \in Copies : CompleteTask(<<a, c>>) \/ RejectTask(<<a, c>>)
    BY <1>4
<1>5. ASSUME NEW w \in Workers, CreateTask(w)
      PROVE  AskedNodes \subseteq AskedNodes'
    BY <1>1, <1>5 DEF CreateTask, TaskSlot, OpenTasks, ActiveWaits, RowsType
<1>6. ASSUME NEW w \in Workers, CreateWait(w)
      PROVE  AskedNodes \subseteq AskedNodes'
    BY <1>1, <1>6 DEF CreateWait, OpenTasks, ActiveWaits, RowsType
<1>7. ASSUME NEW s \in Terminal, run' = Unlock(run, s)
      PROVE  run'.status \in Terminal
    BY <1>7, UnlockVacates DEF Vacated
<1>8. {"failed", "cancelled", "terminated"} \subseteq Terminal
    BY DEF Terminal
<1>9. ASSUME NEW w \in Workers, FailRun(w)
      PROVE  UNCHANGED <<tasks, waits>> \/ run'.status \in Terminal
    BY <1>7, <1>8, <1>9 DEF FailRun
<1>10. ASSUME \/ \E j \in Jobs : ReconcileExhausted(j)
              \/ \E target \in {"cancelled", "terminated"} : ControlRun(target)
       PROVE  run'.status \in Terminal
    BY <1>7, <1>8, <1>10 DEF ReconcileExhausted, ControlRun
<1>11. ASSUME \/ LockLapses \/ ReconcileTerminal \/ PauseRun \/ ResumeRun \/ UNCHANGED vars
              \/ \E w \in Workers :
                    \/ LoadRun(w) \/ OpenNode(w) \/ CloseSegment(w) \/ SaveCheckpoint(w)
                    \/ RunNode(w) \/ RefuseArtifact(w) \/ Park(w) \/ Succeed(w)
                    \/ CompleteJob(w) \/ RetryJob(w) \/ FailJob(w)
                    \/ RenewLease(w) \/ Crash(w) \/ ThrowError(w)
                    \/ \E j \in Jobs : Claim(w, j)
              \/ \E j \in Jobs : LeaseLapses(j)
       PROVE  tasks' = tasks /\ waits' = waits
    BY <1>11
    DEF LockLapses, ReconcileTerminal, PauseRun, ResumeRun, vars, LoadRun, OpenNode, CloseSegment,
        SaveCheckpoint, RunNode, RefuseArtifact, Park, Succeed, CompleteJob, RetryJob, FailJob,
        RenewLease, Crash, ThrowError, Claim, LeaseLapses
<1> QED
    BY <1>2, <1>3, <1>4, <1>5, <1>6, <1>9, <1>10, <1>11, DomainOfTasks
    DEF Next, WorkerStep, Reconcile, Person

\* A worker that keeps its token and owns the run owned it before.
LEMMA SameOwner ==
    ASSUME WorkersType, WorkersType', RowsType, LeaseInv, LeaseInv', [Next]_vars,
           NEW v \in Workers, Owns(v)', wk[v].pc # "idle", wk'[v].tok = wk[v].tok
    PROVE  Owns(v)
<1>1. run'.lock # NoToken
    BY ConstantTypes DEF Owns, WorkersType
<1>2. ASSUME NEW w \in Workers, NEW j \in Jobs, Claim(w, j)
      PROVE  FALSE
  <2>1. wk[w].pc = "idle" /\ wk'[w].pc = "load" /\ run'.lock = wk'[w].tok
    BY <1>2, ClaimFacts DEF Claim, RowsType, RunRecord
  <2>2. v = w
    BY <2>1 DEF Owns, LeaseInv, TokensUnique
  <2> QED
    BY <2>1, <2>2
<1> QED
    BY <1>1, <1>2, WhoLocks DEF Owns

\* Who means to finish has just found nothing to execute and nobody asked ...
LEMMA WhoFinishes ==
    ASSUME WorkersType, RowsType, [Next]_vars, NEW v \in Workers, wk'[v].pc \in {"final", "succeed"}
    PROVE  \/ wk'[v] = wk[v]
           \/ /\ wk'[v].pc = "final" /\ wk[v].pc = "head" /\ wk[v].queue = <<>> /\ ~Asked
              /\ wk'[v].tok = wk[v].tok /\ wk'[v].done = wk[v].done /\ run' = run
           \/ wk'[v].pc = "succeed" /\ wk[v].pc = "final" /\ SaveCheckpoint(v) /\ Fenced(wk[v].tok)
<1>1. CASE OpenNode(v)
    BY <1>1, OpenNodeFacts
<1>2. CASE RunNode(v)
    BY <1>2, RunNodeFacts
<1>3. CASE CreateTask(v) \/ CreateWait(v)
    BY <1>3, CreateFacts
<1>4. CASE \E j \in Jobs : Claim(v, j)
    BY <1>4, ClaimFacts
<1>5. CASE SaveCheckpoint(v)
    BY <1>5, OtherMoves, GotoKeeps DEF AfterCheckpoint, WorkerPoints, Executing
<1>6. CASE CloseSegment(v)
    BY <1>6, OtherMoves, GotoKeeps DEF CloseSegment, WorkerPoints, Executing
<1>7. CASE \/ LoadRun(v) \/ RefuseArtifact(v) \/ ThrowError(v) \/ Park(v) \/ Succeed(v)
           \/ CompleteJob(v) \/ RetryJob(v) \/ FailRun(v) \/ FailJob(v) \/ Crash(v)
    BY <1>7, OtherMoves, GotoKeeps, ReleaseFacts DEF WorkerPoints, Executing
<1> QED
    BY <1>1, <1>2, <1>3, <1>4, <1>5, <1>6, <1>7, OwnSteps DEF WorkerStep

\* ... and a run succeeds by its owner's last write.
LEMMA WhoSucceeds ==
    ASSUME WorkersType, RowsType, [Next]_vars, run.status # "success", run'.status = "success"
    PROVE  /\ run'.done = run.done /\ tasks' = tasks /\ waits' = waits
           /\ \E w \in Workers : Owns(w) /\ wk[w].pc = "succeed"
<1>1. ASSUME NEW s, run' = Unlock(run, s), s # "success" PROVE FALSE
    BY <1>1 DEF Unlock, RowsType, RunRecord
<1>2. ASSUME run'.status = run.status PROVE FALSE
    BY <1>2
<1>3. ASSUME NEW w \in Workers,
             \/ WorkerStep(w) \/ RenewLease(w) \/ Crash(w) \/ ThrowError(w)
             \/ \E j \in Jobs : Claim(w, j)
      PROVE  Succeed(w) /\ run.lock = wk[w].tok
  <2>1. CASE Succeed(w)
    BY <1>2, <2>1 DEF Succeed
  <2>2. CASE CompleteJob(w)
    BY <1>1, <1>2, <2>2 DEF CompleteJob
  <2>3. CASE SaveCheckpoint(w) \/ RenewLease(w) \/ \E j \in Jobs : Claim(w, j)
    BY <1>2, <2>3 DEF SaveCheckpoint, RenewLease, Claim, RowsType, RunRecord
  <2>4. CASE Park(w) \/ RetryJob(w) \/ FailRun(w)
    BY <1>1, <1>2, <2>4 DEF Park, RetryJob, FailRun
  <2> QED
    BY <1>2, <1>3, <2>1, <2>2, <2>3, <2>4
    DEF WorkerStep, LoadRun, OpenNode, CloseSegment, RunNode, CreateTask, CreateWait,
        RefuseArtifact, FailJob, Crash, ThrowError
<1>4. ASSUME \/ LockLapses \/ ReconcileTerminal \/ PauseRun \/ ResumeRun \/ UNCHANGED vars
             \/ \E j \in Jobs : LeaseLapses(j) \/ ReconcileExhausted(j)
             \/ \E target \in {"cancelled", "terminated"} : ControlRun(target)
      PROVE  FALSE
    BY <1>1, <1>2, <1>4 DEF LockLapses, ReconcileTerminal, PauseRun, ResumeRun, vars, LeaseLapses,
                            ReconcileExhausted, ControlRun, RowsType, RunRecord
<1>5. ASSUME NEW queue, NEW done, Continue(queue, done) PROVE FALSE
    BY <1>5 DEF Continue, Unlock, RowsType, RunRecord
<1>6. ASSUME NEW t \in Nodes \X Copies,
             ClaimTask(t) \/ ReturnTask(t) \/ CompleteTask(t) \/ RejectTask(t)
      PROVE  FALSE
  <2>1. CASE RejectTask(t)
    BY <2>1 DEF RejectTask, Unlock, RowsType, RunRecord
  <2> QED
    BY <1>2, <1>5, <1>6, <2>1 DEF ClaimTask, ReturnTask, CompleteTask
<1>7. ASSUME NEW n \in Nodes, TriggerWait(n) PROVE FALSE
    BY <1>5, <1>7 DEF TriggerWait
<1>8. PICK w \in Workers : Succeed(w) /\ run.lock = wk[w].tok
    BY <1>3, <1>4, <1>6, <1>7, DomainOfTasks DEF Next, Reconcile, Person
<1>9. run'.done = run.done
    BY <1>8 DEF Succeed, Unlock, RowsType, RunRecord
<1> QED
    BY <1>8, <1>9 DEF Succeed, Owns

\* An owner's context and the run's only grow while the run is owned.
LEMMA RunGrows ==
    ASSUME IInv, IInv', ArtifactKinds, Custody, [Next]_vars, NoLoss', NEW v \in Workers, Owns(v)'
    PROVE  run.done \subseteq run'.done
<1>1. CASE RunStays
    BY <1>1 DEF RunStays
<1>2. ASSUME NEW w \in Workers, Saves(w)
      PROVE  run.done \subseteq run'.done
    BY <1>2 DEF Saves, Custody, OwnerAhead
<1>3. ASSUME NEW a \in Nodes, Answered(a) \/ Refused(a) \/ Fired(a)
      PROVE  FALSE
    BY <1>3 DEF Answered, Refused, Fired, NobodyNext
<1> QED
    BY <1>1, <1>2, <1>3, BothParts, Moves DEF Rests, Drops, Runs, Asks, Takes

\* Only the owner puts a question, from within a node.
LEMMA WhoAsks ==
    ASSUME IInv, IInv', ArtifactKinds, Custody, [Next]_vars, NoLoss', AskedNodes = {}
    PROVE  AskedNodes' = {} \/ \E w \in Workers : Asks(w)
<1>1. CASE Shrinks
    BY <1>1, BothParts, AskedFacts
<1> QED
    BY <1>1, BothParts, Moves DEF Rests, Saves, Drops, Runs, Takes, Answered, Refused, Fired

\* Every step without a crash or a stall keeps the promise that something is left to do.
LEMMA PromiseStep ==
    ASSUME IInv, IInv', ArtifactKinds, Custody, SeenInv, VisitInv, Continues, PromiseInv,
           [Next]_vars, NoLoss'
    PROVE  RunPromise' /\ OwnersPromise'
<1>1. /\ WorkersType /\ RowsType /\ WorkersType' /\ RowsType' /\ LeaseInv /\ LeaseInv' /\ OpenInv
    BY BothParts
<1>2. ASSUME run'.status \in Terminal
      PROVE  RunPromise' /\ OwnersPromise'
  <2>1. NobodyNext
    BY <1>1, <1>2, ConstantTypes DEF NobodyNext, Owns, WorkersType, LeaseInv, LockOwnership, Terminal
  <2> QED
    BY <1>2, <2>1 DEF RunPromise, OwnersPromise, NobodyNext
<1>3. run'.status \notin Terminal => run.status \notin Terminal
    BY <1>1, TerminalStays
<1>4. ASSUME NEW a \in Nodes, Answered(a) \/ Refused(a) \/ Fired(a)
      PROVE  RunPromise' /\ OwnersPromise'
  <2>1. ASSUME NEW p \in Seq(Nodes), Kind[a] # "end", NEW next \in Routes[a]
        PROVE  p \o next # <<>>
    <3>1. next \in Seq(Nodes) /\ next # <<>>
        BY <2>1, AheadFacts DEF Continues
    <3> QED
        BY <3>1
  <2>2. CASE Refused(a)
    BY <1>2, <2>2 DEF Refused
  <2>3. CASE Answered(a)
    <3>1. WithoutCurrent(a) \in Seq(Nodes)
        BY <1>1, QueuesTyped, QueueTypes DEF WithoutCurrent
    <3>2. run'.queue # <<>>
        BY <2>1, <2>3, <3>1 DEF Answered
    <3> QED
        BY <2>3, <3>2 DEF Answered, NobodyNext, RunPromise, OwnersPromise, Promise
  <2>4. CASE Fired(a)
    <3>1. run'.queue # <<>>
        BY <1>1, <2>1, <2>4, QueuesTyped, AskersAsk DEF Fired
    <3> QED
        BY <2>4, <3>1 DEF Fired, NobodyNext, RunPromise, OwnersPromise, Promise
  <2> QED
    BY <1>4, <2>2, <2>3, <2>4
<1>5. ASSUME AskedNodes \subseteq AskedNodes', run'.status \notin Terminal,
             Rests \/ \E w \in Workers : Saves(w) \/ Takes(w)
      PROVE  RunPromise' /\ OwnersPromise'
  <2>1. /\ \/ run'.queue = run.queue /\ run'.done = run.done
           \/ \E w \in Workers : Owns(w) /\ run'.queue = wk[w].queue /\ run'.done = wk[w].done
        /\ \A v \in Workers : Owns(v)' =>
              \/ Owns(v) /\ wk'[v].queue = wk[v].queue /\ wk'[v].done = wk[v].done
              \/ wk'[v].queue = run.queue /\ wk'[v].done = run.done
    BY <1>5 DEF Rests, Saves, Takes, RunStays, OwnersStay
  <2>2. Promise(run.queue, run.done) /\ \A v \in Workers : Owns(v) => Promise(wk[v].queue, wk[v].done)
    BY <1>3, <1>5 DEF PromiseInv, RunPromise, OwnersPromise
  <2>3. RunPromise'
    BY <1>5, <2>1, <2>2 DEF RunPromise, Promise
  <2>4. OwnersPromise'
    BY <1>5, <2>1, <2>2 DEF OwnersPromise, Promise
  <2> QED
    BY <2>3, <2>4
<1>6. ASSUME AskedNodes \subseteq AskedNodes', run'.status \notin Terminal,
             NEW w \in Workers, Drops(w) \/ Runs(w) \/ Asks(w)
      PROVE  RunPromise' /\ OwnersPromise'
  <2> DEFINE q == wk[w].queue
             n == Head(q)
  <2>1. /\ RunStays /\ Owns(w) /\ \A v \in Workers : Owns(v)' => v = w
        /\ q \in Seq(Nodes) /\ q # <<>> /\ n \in Nodes /\ Tail(q) \in Seq(Nodes)
    BY <1>1, <1>6, QueuesTyped, QueueTypes DEF Drops, Runs, Asks, OnlyOwner, WorkersType, HasHead
  <2>2. RunPromise'
    BY <1>3, <1>6, <2>1 DEF PromiseInv, RunPromise, Promise, RunStays
  <2>3. Ended(wk'[w].done) \/ wk'[w].queue # <<>> \/ AskedNodes' # {}
    <3>1. CASE Asks(w)
        BY <3>1 DEF Asks
    <3>2. CASE Runs(w)
      <4>1. PICK next \in Routes[n] : wk'[w].queue = Tail(q) \o next
        BY <3>2 DEF Runs
      <4>2. next \in Seq(Nodes) /\ wk'[w].done = wk[w].done \cup {n}
        BY <2>1, <3>2, AheadFacts DEF Runs
      <4>3. CASE Kind[n] = "end"
        BY <2>1, <4>2, <4>3 DEF Ended, Ends
      <4>4. CASE Kind[n] # "end"
        <5>1. next # <<>>
            BY <2>1, <4>4 DEF Continues
        <5> HIDE DEF q, n
        <5> QED
            BY <2>1, <4>1, <4>2, <5>1
      <4> QED
        BY <4>3, <4>4
    <3>3. CASE Drops(w)
      <4>1. CASE n \in AskedNodes
        BY <1>6, <4>1
      <4>2. CASE n \in wk[w].seen
        <5>1. n \in wk[w].done /\ wk'[w].done = wk[w].done
            BY <3>3, <4>2 DEF SeenInv, Drops
        <5>2. Apart(q, wk[w].done)
            BY <2>1 DEF VisitInv, ViewsApart
        <5>3. n \notin Future(n)
            BY <2>1, <5>1, <5>2, TailPlaces DEF Apart
        <5>4. n \in Ends
            BY <2>1, <5>3, FutureFacts
        <5> QED
            BY <5>1, <5>4 DEF Ended
      <4> QED
        BY <3>3, <4>1, <4>2 DEF Drops
    <3> QED
        BY <1>6, <3>1, <3>2, <3>3
  <2>4. OwnersPromise'
    BY <2>1, <2>3 DEF OwnersPromise, Promise
  <2> QED
    BY <2>2, <2>4
<1>7. ASSUME NEW a \in Nodes, \/ TriggerWait(a)
                              \/ \E c \in Copies : CompleteTask(<<a, c>>) \/ RejectTask(<<a, c>>)
      PROVE  RunPromise' /\ OwnersPromise'
    BY <1>1, <1>4, <1>7, AnswerMoves
<1> QED
    BY <1>1, <1>2, <1>4, <1>5, <1>6, <1>7, Moves, WhoWithdraws

\* Every step without a crash or a stall keeps what finishing requires.
LEMMA FinishStep ==
    ASSUME IInv, IInv', ArtifactKinds, Custody, PromiseInv, [Next]_vars, NoLoss'
    PROVE  FinishInv'
<1>1. /\ WorkersType /\ RowsType /\ WorkersType' /\ RowsType' /\ LeaseInv /\ LeaseInv' /\ OpenInv
    BY BothParts
<1>2. Asked <=> AskedNodes # {}
    BY DEF Asked, AskedNodes
<1>3. ASSUME NEW v \in Workers, Owns(v)', wk'[v].pc \in {"final", "succeed"}
      PROVE  AskedNodes' = {} /\ Ended(wk'[v].done)
  <2>1. /\ Owns(v) /\ AskedNodes = {} /\ Ended(wk[v].done) /\ wk[v].pc # "work"
        /\ wk'[v].done = wk[v].done
    <3>1. CASE wk'[v] = wk[v]
      <4>1. Owns(v)
        BY <1>1, <1>3, <3>1, SameOwner DEF Owns
      <4> QED
        BY <1>3, <3>1, <4>1 DEF PromiseInv, FinishInv
    <3>2. CASE /\ wk'[v].pc = "final" /\ wk[v].pc = "head" /\ wk[v].queue = <<>> /\ ~Asked
               /\ wk'[v].tok = wk[v].tok /\ wk'[v].done = wk[v].done /\ run' = run
      <4>1. Owns(v)
        BY <1>3, <3>2 DEF Owns
      <4> QED
        BY <1>2, <3>2, <4>1 DEF PromiseInv, OwnersPromise, Promise
    <3>3. CASE wk[v].pc = "final" /\ SaveCheckpoint(v) /\ Fenced(wk[v].tok)
      <4>1. Owns(v)
        BY <3>3 DEF Owns, Fenced
      <4>2. wk'[v].done = wk[v].done
        BY <1>1, <3>3, GotoKeeps, OtherMoves DEF AfterCheckpoint, WorkerPoints, Executing
      <4> QED
        BY <3>3, <4>1, <4>2 DEF PromiseInv, FinishInv
    <3> QED
        BY <1>1, <1>3, <3>1, <3>2, <3>3, WhoFinishes
  <2>2. ASSUME NEW w \in Workers, Asks(w) PROVE FALSE
    BY <1>3, <2>1, <2>2 DEF Asks, OnlyOwner
  <2> QED
    BY <2>1, <2>2, WhoAsks
<1>4. ASSUME NEW v \in Workers, Owns(v)', wk'[v].pc = "succeed"
      PROVE  Ended(run'.done)
  <2>1. CASE wk'[v] = wk[v]
    <3>1. Ended(run.done)
        BY <1>1, <1>4, <2>1, SameOwner DEF Owns, PromiseInv, FinishInv
    <3> QED
        BY <1>4, <3>1, RunGrows DEF Ended
  <2>2. CASE SaveCheckpoint(v) /\ Fenced(wk[v].tok) /\ wk[v].pc = "final"
    <3>1. run'.done = wk[v].done /\ Owns(v)
        BY <1>1, <2>2 DEF SaveCheckpoint, Owns, Fenced, RowsType, RunRecord
    <3> QED
        BY <2>2, <3>1 DEF PromiseInv, FinishInv
  <2> QED
    BY <1>1, <1>4, <2>1, <2>2, WhoFinishes
<1>5. ASSUME run'.status = "success"
      PROVE  AskedNodes' = {} /\ Ended(run'.done)
  <2>1. CASE run.status = "success"
    <3>1. AskedNodes = {} /\ Ended(run.done) /\ run' = run
        BY <1>1, <2>1, TerminalStays DEF PromiseInv, FinishInv, Terminal
    <3>2. ASSUME NEW w \in Workers, Asks(w) PROVE FALSE
        BY <1>1, <2>1, <3>2, NobodyOwns DEF Asks, OnlyOwner, Owns
    <3> QED
        BY <3>1, <3>2, WhoAsks
  <2>2. CASE run.status # "success"
    <3>1. /\ run'.done = run.done /\ tasks' = tasks /\ waits' = waits
          /\ \E w \in Workers : Owns(w) /\ wk[w].pc = "succeed"
        BY <1>1, <1>5, <2>2, WhoSucceeds
    <3>2. AskedNodes' = AskedNodes
        BY <3>1 DEF AskedNodes, OpenTasks, ActiveWaits
    <3> QED
        BY <3>1, <3>2 DEF PromiseInv, FinishInv
  <2> QED
    BY <2>1, <2>2
<1> QED
    BY <1>3, <1>4, <1>5 DEF FinishInv

\* Something is left to do until the end has its output.
PromisedInv == NoLoss /\ OneAsking /\ OneVisit /\ Continues => PromiseInv

\* If moreover every node but the end selects a successor, the run always has something to
\* execute, somebody to wait for, or the output of its end; so whoever finishes has it.
THEOREM PromiseInvariant == Spec => []PromisedInv
<1>1. Init => PromisedInv
  <2> SUFFICES ASSUME Init PROVE PromiseInv
    BY DEF PromisedInv
  <2>1. run.queue # <<>> /\ run.status # "success" /\ \A w \in Workers : ~Owns(w)
    BY DEF Init, IdleWorker, Owns
  <2> QED
    BY <2>1 DEF PromiseInv, RunPromise, OwnersPromise, FinishInv, Promise
<1>2. ASSUME IInv, IInv', ArtifactKinds, CustodyInv, SeenInv, VisitedInv, PromisedInv,
             [Next]_vars, NoLoss', OneAsking, OneVisit, Continues
      PROVE  PromiseInv'
  <2>1. Custody /\ VisitInv /\ PromiseInv
    BY <1>2, BothParts, LossesStay DEF CustodyInv, VisitedInv, PromisedInv
  <2> QED
    BY <1>2, <2>1, PromiseStep, FinishStep DEF PromiseInv
<1>3. /\ IInv /\ IInv' /\ ArtifactKinds /\ CustodyInv /\ SeenInv /\ VisitedInv /\ PromisedInv
      /\ [Next]_vars
      => PromisedInv'
    BY <1>2 DEF PromisedInv
<1> QED
    BY <1>1, <1>3, Invariance, KindsInvariant, CustodyInvariant, SeenInvariant, OneVisitEach,
       PTL DEF Spec

\* A run that succeeded has the output of its end and every decision in its context, and
\* nothing is left open for a person or a timer (the end of executeRunSegment, which looks
\* for open tasks, open waits and a successful end node in that order).
THEOREM SuccessIsComplete ==
    Spec => [](OneAsking /\ OneVisit /\ Continues /\ NoLoss => SuccessComplete)
<1>1. /\ IInv /\ AskedInv /\ PromisedInv
      => (OneAsking /\ OneVisit /\ Continues /\ NoLoss => SuccessComplete)
  <2> SUFFICES ASSUME IInv, AskedInv, PromisedInv, OneAsking, OneVisit, Continues, NoLoss,
                      run.status = "success"
               PROVE  /\ \E n \in run.done : Kind[n] = "end"
                      /\ \A t \in DOMAIN tasks : tasks[t] = "completed" => t[1] \in run.done
                      /\ OpenTasks = {} /\ ActiveWaits = {}
    BY DEF SuccessComplete
  <2>1. AskedNodes = {} /\ Ended(run.done)
    BY DEF PromisedInv, PromiseInv, FinishInv
  <2>2. Decided \subseteq run.done
    BY DEF AskedInv, Recorded
  <2>3. \E n \in run.done : Kind[n] = "end"
    BY <2>1 DEF Ended, Ends
  <2>4. \A t \in DOMAIN tasks : tasks[t] = "completed" => t[1] \in run.done
    BY <2>2 DEF Decided
  <2>5. OpenTasks = {} /\ ActiveWaits = {}
    BY <2>1 DEF AskedNodes
  <2> QED
    BY <2>3, <2>4, <2>5
<1> QED
    BY <1>1, Invariance, OneQuestionAtATime, PromiseInvariant, PTL

-----------------------------------------------------------------------------
(* The end of the run is executed once per claim and not forgotten.        *)

\* Whatever happened: a worker in a node has seen it, a claim whose end node completed has
\* seen the end and does not enter it again, and only drawn claims have completed an end.
EndRunsInv ==
    /\ \A w \in Workers : wk[w].pc \in {"enter", "work"} => Head(wk[w].queue) \in wk[w].seen
    /\ \A w \in Workers : wk[w].pc # "idle" /\ wk[w].tok \in endRuns => wk[w].seen \cap Ends # {}
    /\ \A w \in Workers : wk[w].pc \in {"enter", "work"} /\ Head(wk[w].queue) \in Ends =>
          wk[w].tok \notin endRuns
    /\ \A w \in Workers : wk[w].pc = "advanceEnd" => wk[w].tok \in endRuns
    /\ endRuns \subseteq Spent

\* Completed ends that no failure can take back any more.
Settled == {tok \in endRuns : \A w \in Workers : wk[w].pc = "advanceEnd" => wk[w].tok # tok}

\* Drawn tokens stay drawn.
LEMMA SpentStays ==
    ASSUME WorkersType, RowsType, LeaseInv, [Next]_vars
    PROVE  Spent \subseteq Spent'
<1>0. ASSUME NEW tok, NEW s, SetJob(tok, s) PROVE KeepsAttempts
    BY <1>0 DEF SetJob, KeepsAttempts, RowsType, JobRecord
<1>1. ASSUME KeepsAttempts PROVE Spent \subseteq Spent'
    BY <1>1, SpentKept
<1>2. ASSUME NEW w \in Workers, NEW j \in Jobs, Claim(w, j) PROVE Spent \subseteq Spent'
    BY <1>2, SpentGrows
<1>3. ASSUME NEW queue, NEW done, Continue(queue, done) PROVE KeepsAttempts
    BY <1>3 DEF Continue, FreshJob, ResumeJob, KeepsAttempts, RowsType, LeaseInv, Blank
<1>4. ASSUME NEW w \in Workers, WorkerStep(w) \/ RenewLease(w) \/ Crash(w) \/ ThrowError(w)
      PROVE  KeepsAttempts
  <2>1. CASE \/ LoadRun(w) \/ OpenNode(w) \/ CloseSegment(w) \/ RunNode(w) \/ CreateTask(w)
             \/ CreateWait(w) \/ RefuseArtifact(w) \/ Park(w) \/ Succeed(w) \/ FailRun(w)
             \/ Crash(w) \/ ThrowError(w)
    BY <2>1 DEF LoadRun, OpenNode, CloseSegment, RunNode, CreateTask, CreateWait, RefuseArtifact,
                Park, Succeed, FailRun, Crash, ThrowError, KeepsAttempts
  <2>2. CASE SaveCheckpoint(w)
    <3>1. wk[w].tok[1] \in Jobs
        BY <2>2, ConstantTypes DEF SaveCheckpoint, AfterCheckpoint, WorkersType
    <3>2. CASE jobs' = jobs
        BY <3>2 DEF KeepsAttempts
    <3>3. CASE jobs' = [jobs EXCEPT ![wk[w].tok[1]].queue = wk[w].queue,
                                    ![wk[w].tok[1]].done = wk[w].done]
        BY <3>1, <3>3 DEF KeepsAttempts, RowsType, JobRecord
    <3> QED
        BY <2>2, <3>2, <3>3 DEF SaveCheckpoint
  <2>4. CASE RenewLease(w)
    BY <2>4 DEF RenewLease, KeepsAttempts, RowsType, JobRecord
  <2>3. CASE CompleteJob(w) \/ RetryJob(w) \/ FailJob(w)
    <3>1. jobs' = jobs \/ \E s : SetJob(wk[w].tok, s)
        BY <2>3 DEF CompleteJob, RetryJob, FailJob, SetJob
    <3> QED
        BY <1>0, <3>1 DEF KeepsAttempts
  <2> QED
    BY <1>4, <2>1, <2>2, <2>3, <2>4 DEF WorkerStep
<1>5. ASSUME \/ LockLapses \/ Reconcile \/ PauseRun \/ UNCHANGED vars
             \/ \E target \in {"cancelled", "terminated"} : ControlRun(target)
             \/ \E j \in Jobs : LeaseLapses(j)
      PROVE  KeepsAttempts
  <2>1. CASE LockLapses \/ UNCHANGED vars
    BY <2>1 DEF LockLapses, vars, KeepsAttempts
  <2>2. CASE ReconcileTerminal
    BY <2>2 DEF ReconcileTerminal, KeepsAttempts, RowsType, JobRecord
  <2>6. CASE PauseRun
    BY <2>6 DEF PauseRun, KeepsAttempts, RowsType, JobRecord
  <2>3. ASSUME NEW j \in Jobs, LeaseLapses(j) PROVE KeepsAttempts
    BY <2>3 DEF LeaseLapses, KeepsAttempts, RowsType, JobRecord
  <2>4. ASSUME NEW j \in Jobs, ReconcileExhausted(j) PROVE KeepsAttempts
    BY <2>4 DEF ReconcileExhausted, SetJob, KeepsAttempts, RowsType, JobRecord
  <2>5. ASSUME NEW target, ControlRun(target) PROVE KeepsAttempts
    BY <2>5 DEF ControlRun, KeepsAttempts, RowsType, JobRecord
  <2> QED
    BY <1>5, <2>1, <2>2, <2>3, <2>4, <2>5, <2>6 DEF Reconcile
<1>6. ASSUME ResumeRun PROVE KeepsAttempts
  <2>1. CASE jobs' = jobs
    BY <2>1 DEF KeepsAttempts
  <2>2. CASE \E j \in Jobs : /\ FreshJob(j)
                            /\ jobs' = [jobs EXCEPT ![j] = ResumeJob(run.queue, run.done)]
    BY <2>2 DEF FreshJob, ResumeJob, KeepsAttempts, RowsType, LeaseInv, Blank
  <2> QED
    BY <1>6, <2>1, <2>2 DEF ResumeRun
<1>7. ASSUME NEW t \in Nodes \X Copies,
             ClaimTask(t) \/ ReturnTask(t) \/ CompleteTask(t) \/ RejectTask(t)
      PROVE  KeepsAttempts
    BY <1>3, <1>7 DEF ClaimTask, ReturnTask, CompleteTask, RejectTask, KeepsAttempts
<1>8. ASSUME NEW n \in Nodes, TriggerWait(n) PROVE KeepsAttempts
    BY <1>3, <1>8 DEF TriggerWait
<1> QED
    BY <1>1, <1>2, <1>4, <1>5, <1>6, <1>7, <1>8, DomainOfTasks DEF Next, Person

\* A busy worker keeps its token and what it has seen, or has just claimed.
LEMMA WorkerKeeps ==
    ASSUME WorkersType, RowsType, [Next]_vars, NEW v \in Workers, wk'[v].pc # "idle"
    PROVE  \/ \E j \in Jobs : Claim(v, j)
           \/ wk[v].pc # "idle" /\ wk'[v].tok = wk[v].tok /\ wk[v].seen \subseteq wk'[v].seen
<1>1. CASE OpenNode(v)
    BY <1>1, OpenNodeFacts, OpenNodeSees DEF OpenNode
<1>2. CASE RunNode(v)
    BY <1>2, RunNodeFacts
<1>3. CASE CreateTask(v) \/ CreateWait(v)
    BY <1>3, CreateFacts
<1>4. CASE \/ LoadRun(v) \/ CloseSegment(v) \/ SaveCheckpoint(v) \/ RefuseArtifact(v)
           \/ ThrowError(v) \/ Park(v) \/ Succeed(v) \/ CompleteJob(v) \/ RetryJob(v)
           \/ FailRun(v) \/ FailJob(v) \/ Crash(v)
  <2>1. \/ Release(v)
        \/ wk[v].pc # "idle" /\ \E pc \in WorkerPoints : Goto(v, pc)
    BY <1>4, OtherMoves DEF AfterCheckpoint, WorkerPoints, Executing
  <2> QED
    BY <2>1, GotoKeeps, ReleaseFacts
<1> QED
    BY <1>1, <1>2, <1>3, <1>4, OwnSteps DEF WorkerStep

\* The completed ends change by executing an end, or by an exception right after it.
LEMMA WhoEnds ==
    ASSUME WorkersType, RowsType, [Next]_vars
    PROVE  \/ endRuns' = endRuns
           \/ \E w \in Workers : /\ RunNode(w) /\ Kind[Head(wk[w].queue)] = "end"
                                 /\ endRuns' = endRuns \cup {wk[w].tok}
           \/ \E w \in Workers : /\ wk[w].pc = "advanceEnd" /\ wk'[w].pc = "failing"
                                 /\ endRuns' = endRuns \ {wk[w].tok}
<1>1. ASSUME NEW w \in Workers, ForgetEnd(w), Goto(w, "failing")
      PROVE  \/ endRuns' = endRuns
             \/ /\ wk[w].pc = "advanceEnd" /\ wk'[w].pc = "failing"
                /\ endRuns' = endRuns \ {wk[w].tok}
    BY <1>1, GotoKeeps DEF ForgetEnd, WorkerPoints
<1>2. ASSUME NEW w \in Workers, RunNode(w)
      PROVE  \/ endRuns' = endRuns
             \/ Kind[Head(wk[w].queue)] = "end" /\ endRuns' = endRuns \cup {wk[w].tok}
    BY <1>2 DEF RunNode
<1>3. ASSUME NEW w \in Workers, SaveCheckpoint(w) \/ ThrowError(w)
      PROVE  endRuns' = endRuns \/ (ForgetEnd(w) /\ Goto(w, "failing"))
    BY <1>3 DEF SaveCheckpoint, ThrowError
<1> QED
    BY <1>1, <1>2, <1>3
    DEF Next, WorkerStep, LoadRun, OpenNode, CloseSegment, CreateTask,
        CreateWait, RefuseArtifact, Park, Succeed, CompleteJob, RetryJob, FailRun, FailJob,
        RenewLease, Claim, LockLapses, Reconcile, ReconcileTerminal, ReconcileExhausted, Person,
        ClaimTask, ReturnTask, CompleteTask, RejectTask, ControlRun, PauseRun, ResumeRun,
        TriggerWait, LeaseLapses, Crash, vars

\* Right after an end a worker has just executed one, or has not moved.
LEMMA WhoIsPastEnd ==
    ASSUME WorkersType, RowsType, [Next]_vars, NEW v \in Workers
    PROVE  /\ wk'[v].pc = "advanceEnd" =>
                \/ wk'[v] = wk[v]
                \/ RunNode(v) /\ Kind[Head(wk[v].queue)] = "end"
           /\ wk[v].pc = "advanceEnd" =>
                \/ wk'[v] = wk[v]
                \/ wk'[v].pc \in {"idle", "failing"}
                \/ SaveCheckpoint(v) /\ Fenced(wk[v].tok) /\ wk'[v].pc = "head"
           /\ wk[v].pc = "failing" => wk'[v] = wk[v] \/ wk'[v].pc \in {"idle", "failing", "failJob"}
<1>1. CASE OpenNode(v)
    BY <1>1, OpenNodeFacts
<1>2. CASE RunNode(v)
    BY <1>2, RunNodeFacts
<1>3. CASE CreateTask(v) \/ CreateWait(v)
    BY <1>3, CreateFacts
<1>4. CASE \E j \in Jobs : Claim(v, j)
    BY <1>4, ClaimFacts
<1>5. CASE SaveCheckpoint(v)
    BY <1>5, OtherMoves, GotoKeeps DEF AfterCheckpoint, WorkerPoints, Executing
<1>6. CASE CloseSegment(v) \/ LoadRun(v)
    BY <1>6, OtherMoves, GotoKeeps DEF WorkerPoints, Executing
<1>7. CASE RefuseArtifact(v) \/ ThrowError(v) \/ Park(v) \/ Succeed(v) \/ FailRun(v)
    BY <1>7, OtherMoves, GotoKeeps DEF WorkerPoints, Executing
<1>8. CASE CompleteJob(v) \/ RetryJob(v) \/ FailJob(v) \/ Crash(v)
    BY <1>8, OtherMoves, GotoKeeps, ReleaseFacts DEF WorkerPoints, Executing
<1> QED
    BY <1>1, <1>2, <1>3, <1>4, <1>5, <1>6, <1>7, <1>8, OwnSteps DEF WorkerStep

\* Every step keeps the account of completed ends.
LEMMA EndRunsStep ==
    ASSUME WorkersType, RowsType, LeaseInv, EndRunsInv, [Next]_vars
    PROVE  EndRunsInv'
<1>1. ASSUME NEW v \in Workers, wk'[v].pc \in {"enter", "work"}
      PROVE  /\ Head(wk'[v].queue) \in wk'[v].seen
             /\ \/ /\ wk[v].pc \in {"enter", "work"} /\ wk'[v].queue = wk[v].queue
                   /\ ~RunNode(v)
                \/ OpenNode(v) /\ Head(wk'[v].queue) \notin wk[v].seen
  <2>1. CASE /\ wk[v].pc \in {"enter", "work"} /\ wk'[v].tok = wk[v].tok
             /\ wk'[v].queue = wk[v].queue
    <3>1. wk[v].seen \subseteq wk'[v].seen
        BY <1>1, <2>1, WorkerKeeps, ClaimFacts
    <3> QED
        BY <1>1, <2>1, <3>1, RunNodeFacts DEF EndRunsInv
  <2>2. CASE OpenNode(v)
    BY <1>1, <2>2, OpenNodeFacts, OpenNodeSees
  <2> QED
    BY <1>1, <2>1, <2>2, WhoEnters
<1>2. ASSUME NEW v \in Workers, wk'[v].pc # "idle", wk'[v].tok \in endRuns'
      PROVE  wk'[v].seen \cap Ends # {}
  <2>1. ASSUME NEW j \in Jobs, Claim(v, j) PROVE FALSE
    <3>1. endRuns' = endRuns /\ wk'[v].tok \notin Spent
        BY <2>1, ClaimFacts, SpentGrows DEF Claim
    <3> QED
        BY <1>2, <3>1 DEF EndRunsInv
  <2>2. wk[v].pc # "idle" /\ wk'[v].tok = wk[v].tok /\ wk[v].seen \subseteq wk'[v].seen
    BY <1>2, <2>1, WorkerKeeps
  <2>3. CASE wk[v].tok \in endRuns
    BY <2>2, <2>3 DEF EndRunsInv
  <2>4. CASE wk[v].tok \notin endRuns
    <3>1. PICK w \in Workers : /\ RunNode(w) /\ Kind[Head(wk[w].queue)] = "end"
                               /\ endRuns' = endRuns \cup {wk[w].tok}
        BY <1>2, <2>2, <2>4, WhoEnds
    <3>2. w = v
        BY <1>2, <2>2, <2>4, <3>1, RunNodeFacts DEF LeaseInv, TokensUnique
    <3>3. wk[v].pc = "work" /\ Head(wk[v].queue) \in Nodes
        BY <3>1, <3>2, RunNodeFacts, QueueTypes, QueuesTyped DEF WorkersType, HasHead
    <3>4. Head(wk[v].queue) \in wk[v].seen \cap Ends
        BY <3>1, <3>2, <3>3 DEF EndRunsInv, Ends
    <3> QED
        BY <2>2, <3>4
  <2> QED
    BY <2>3, <2>4
<1>3. ASSUME NEW v \in Workers, wk'[v].pc \in {"enter", "work"}, Head(wk'[v].queue) \in Ends,
             wk'[v].tok \in endRuns'
      PROVE  FALSE
  <2>0. \A j \in Jobs : ~Claim(v, j)
    BY <1>3, ClaimFacts
  <2>1. wk[v].pc # "idle" /\ wk'[v].tok = wk[v].tok
    BY <1>3, <2>0, WorkerKeeps
  <2>2. CASE OpenNode(v) /\ Head(wk'[v].queue) \notin wk[v].seen
    <3>1. endRuns' = endRuns
        BY <2>2 DEF OpenNode
    <3>2. PICK m \in wk[v].seen : m \in Ends
        BY <1>3, <2>1, <3>1 DEF EndRunsInv
    <3>3. m = Head(wk'[v].queue)
        BY <1>3, <3>2, DefinitionAssumption DEF Ends
    <3> QED
        BY <2>2, <3>2, <3>3
  <2>3. CASE wk[v].pc \in {"enter", "work"} /\ wk'[v].queue = wk[v].queue /\ ~RunNode(v)
    <3>1. wk[v].tok \notin endRuns
        BY <1>3, <2>3 DEF EndRunsInv
    <3>2. PICK w \in Workers : RunNode(w) /\ endRuns' = endRuns \cup {wk[w].tok}
        BY <1>3, <2>1, <3>1, WhoEnds
    <3>3. w = v
        BY <1>3, <2>1, <3>1, <3>2, RunNodeFacts DEF LeaseInv, TokensUnique
    <3> QED
        BY <2>3, <3>2, <3>3
  <2> QED
    BY <1>1, <1>3, <2>2, <2>3
<1>4. ASSUME NEW v \in Workers, wk'[v].pc = "advanceEnd"
      PROVE  wk'[v].tok \in endRuns'
  <2>1. CASE RunNode(v) /\ Kind[Head(wk[v].queue)] = "end"
    <3>1. endRuns' = endRuns \cup {wk[v].tok} /\ wk'[v].tok = wk[v].tok
        BY <2>1, RunNodeFacts DEF RunNode
    <3> QED
        BY <3>1
  <2>2. CASE wk'[v] = wk[v]
    <3>1. wk[v].tok \in endRuns
        BY <1>4, <2>2 DEF EndRunsInv
    <3>2. ASSUME NEW w \in Workers, wk[w].pc = "advanceEnd", wk'[w].pc = "failing",
                 wk[w].tok = wk[v].tok
          PROVE  FALSE
        BY <1>4, <2>2, <3>2 DEF LeaseInv, TokensUnique
    <3> QED
        BY <2>2, <3>1, <3>2, WhoEnds
  <2> QED
    BY <1>4, <2>1, <2>2, WhoIsPastEnd
<1>5. endRuns' \subseteq Spent'
  <2>1. ASSUME NEW w \in Workers, RunNode(w) PROVE wk[w].tok \in Spent
    BY <2>1, RunNodeFacts DEF LeaseInv, TokensDrawn, Spent, WorkersType
  <2> QED
    BY <2>1, WhoEnds, SpentStays DEF EndRunsInv
<1> QED
    BY <1>1, <1>2, <1>3, <1>4, <1>5 DEF EndRunsInv

\* Whatever happened, each claim completes the end at most once, and only if it was drawn.
THEOREM EndRunsInvariant == Spec => []EndRunsInv
<1>1. Init => EndRunsInv
    BY DEF Init, EndRunsInv, IdleWorker
<1>2. IInv /\ EndRunsInv /\ [Next]_vars => EndRunsInv'
    BY Parts, EndRunsStep
<1> QED
    BY <1>1, <1>2, Invariance, PTL DEF Spec

\* What is settled stays settled.
LEMMA SettledStays ==
    ASSUME WorkersType, RowsType, LeaseInv, EndRunsInv, [Next]_vars
    PROVE  Settled \subseteq Settled'
<1> SUFFICES ASSUME NEW tok \in Settled PROVE tok \in Settled'
    OBVIOUS
<1>1. tok \in endRuns'
    BY WhoEnds DEF Settled
<1>2. ASSUME NEW w \in Workers, wk'[w].pc = "advanceEnd", wk'[w].tok = tok PROVE FALSE
  <2>1. CASE wk'[w] = wk[w]
    BY <1>2, <2>1 DEF Settled
  <2>2. CASE RunNode(w) /\ Kind[Head(wk[w].queue)] = "end"
    <3>1. wk[w].pc = "work" /\ wk'[w].tok = wk[w].tok /\ Head(wk[w].queue) \in Ends
        BY <2>2, RunNodeFacts, QueueTypes, QueuesTyped DEF WorkersType, HasHead, Ends
    <3> QED
        BY <1>2, <3>1 DEF EndRunsInv, Settled
  <2> QED
    BY <1>2, <2>1, <2>2, WhoIsPastEnd
<1> QED
    BY <1>1, <1>2 DEF Settled

\* A context that holds the end's output rests on a settled end, unless its owner has just
\* executed the end or is about to give the execution up.
EndKept ==
    /\ Ended(run.done) => Settled # {}
    /\ \A w \in Workers :
          Owns(w) /\ wk[w].pc \notin {"failing", "advanceEnd"} /\ Ended(wk[w].done) => Settled # {}
    /\ \A n \in ActiveWaits : Ended(waits[n].done) => Settled # {}

\* The checkpoint behind an end settles it.
LEMMA CheckpointSettles ==
    ASSUME WorkersType, RowsType, LeaseInv, LeaseInv', EndRunsInv, NEW w \in Workers,
           wk[w].pc = "advanceEnd", SaveCheckpoint(w), Fenced(wk[w].tok), wk'[w].pc = "head"
    PROVE  Settled' # {}
<1>1. endRuns' = endRuns /\ wk[w].tok \in endRuns
    BY DEF SaveCheckpoint, EndRunsInv
<1>2. wk'[w].tok = wk[w].tok
    BY OtherMoves, GotoKeeps DEF AfterCheckpoint, WorkerPoints, Executing
<1>3. \A v \in Workers : wk'[v].pc = "advanceEnd" => wk'[v].tok # wk[w].tok
    BY <1>2 DEF LeaseInv, TokensUnique
<1> QED
    BY <1>1, <1>3 DEF Settled

\* Every step without a crash or a stall keeps the end.
LEMMA EndKeptStep ==
    ASSUME IInv, IInv', ArtifactKinds, Custody, EndRunsInv, EndKept, [Next]_vars, NoLoss'
    PROVE  EndKept'
<1>1. /\ WorkersType /\ RowsType /\ WorkersType' /\ RowsType' /\ LeaseInv /\ LeaseInv' /\ OpenInv
    BY BothParts
<1> SUFFICES ASSUME Settled' = {} PROVE EndKept'
    BY DEF EndKept
<1>2. Settled = {}
    BY <1>1, SettledStays
<1>3. /\ ~Ended(run.done)
      /\ \A w \in Workers : Owns(w) /\ Ended(wk[w].done) => wk[w].pc \in {"failing", "advanceEnd"}
      /\ \A n \in ActiveWaits : ~Ended(waits[n].done)
    BY <1>2 DEF EndKept
<1>4. \A d, a : Ended(d \cup {a}) => Ended(d) \/ a \in Ends
    BY DEF Ended
<1>5. ASSUME NEW w \in Workers, Saves(w) PROVE ~Ended(wk[w].done)
  <2>1. wk[w].pc # "failing" /\ Owns(w)
    BY <1>5 DEF Saves, SaveCheckpoint, AfterCheckpoint
  <2>2. wk[w].pc = "advanceEnd" => wk'[w].pc = "head"
    BY <1>1, <1>5, OtherMoves, GotoKeeps DEF Saves, AfterCheckpoint, WorkerPoints, Executing
  <2>3. wk[w].pc # "advanceEnd"
    BY <1>1, <1>5, <2>2, CheckpointSettles DEF Saves
  <2> QED
    BY <1>3, <2>1, <2>3
<1>6. ~Ended(run'.done)
  <2>1. CASE RunStays
    BY <1>3, <2>1 DEF RunStays
  <2>2. ASSUME NEW w \in Workers, Saves(w) PROVE ~Ended(run'.done)
    BY <1>5, <2>2 DEF Saves
  <2>3. ASSUME NEW a \in Nodes, Answered(a) \/ Refused(a) PROVE ~Ended(run'.done)
    <3>1. run'.done = run.done \cup {a} /\ a \notin Ends
        BY <2>3 DEF Answered, Refused, Ends
    <3> QED
        BY <1>3, <1>4, <3>1
  <2>4. ASSUME NEW a \in Nodes, Fired(a) PROVE ~Ended(run'.done)
    <3>1. run'.done = waits[a].done \cup {a} /\ a \notin Ends /\ a \in ActiveWaits
        BY <1>1, <2>4, AskersAsk DEF Fired, Ends
    <3> QED
        BY <1>3, <1>4, <3>1
  <2> QED
    BY <1>1, <2>1, <2>2, <2>3, <2>4, Moves DEF Rests, Drops, Runs, Asks, Takes
<1>7. ASSUME NEW v \in Workers, Owns(v)', Ended(wk'[v].done)
      PROVE  wk'[v].pc \in {"failing", "advanceEnd"}
  <2>1. CASE OwnersStay
    <3>1. Owns(v) /\ wk'[v].done = wk[v].done /\ wk[v].pc \in {"failing", "advanceEnd"}
        BY <1>3, <1>7, <2>1 DEF OwnersStay
    <3>2. wk'[v].pc \notin {"idle", "failJob"}
        BY <1>1, <1>7 DEF Owns, LeaseInv, Released
    <3>3. ~(wk[v].pc = "advanceEnd" /\ SaveCheckpoint(v) /\ Fenced(wk[v].tok) /\ wk'[v].pc = "head")
        BY <1>1, CheckpointSettles
    <3> QED
        BY <1>1, <3>1, <3>2, <3>3, WhoIsPastEnd
  <2>2. ASSUME NEW w \in Workers, Drops(w) \/ Asks(w) PROVE FALSE
    <3>1. w = v /\ Owns(v) /\ wk'[v].done = wk[v].done /\ wk[v].pc \in {"head", "work"}
        BY <1>7, <2>2 DEF Drops, Asks, OnlyOwner
    <3> QED
        BY <1>3, <1>7, <3>1
  <2>3. ASSUME NEW w \in Workers, Runs(w) PROVE wk'[v].pc = "advanceEnd"
    <3> DEFINE n == Head(wk[v].queue)
    <3>1. /\ w = v /\ Owns(v) /\ wk[v].pc = "work" /\ wk'[v].done = wk[v].done \cup {n}
          /\ Kind[n] = "end" => wk'[v].pc = "advanceEnd"
        BY <1>7, <2>3 DEF Runs, OnlyOwner
    <3>2. n \in Ends
        BY <1>3, <1>4, <1>7, <3>1
    <3> QED
        BY <3>1, <3>2 DEF Ends
  <2>4. ASSUME NEW w \in Workers, Takes(w) PROVE FALSE
    BY <1>3, <1>7, <2>4 DEF Takes
  <2>5. ASSUME NEW a \in Nodes, Answered(a) \/ Refused(a) \/ Fired(a) PROVE FALSE
    BY <1>7, <2>5 DEF Answered, Refused, Fired, NobodyNext
  <2> QED
    BY <1>1, <2>1, <2>2, <2>3, <2>4, <2>5, Moves DEF Rests, Saves
<1>8. \A n \in ActiveWaits' : ~Ended(waits'[n].done)
  <2>1. CASE Shrinks
    BY <1>3, <2>1 DEF Shrinks, ActiveWaits
  <2>2. ASSUME NEW w \in Workers, Asks(w) PROVE \A n \in ActiveWaits' : ~Ended(waits'[n].done)
    <3>1. ~Ended(wk[w].done)
        BY <1>3, <2>2 DEF Asks, OnlyOwner
    <3>2. \A n \in ActiveWaits' :
             (n \in ActiveWaits /\ waits'[n] = waits[n]) \/ waits'[n].done = wk[w].done
        BY <2>2 DEF Asks, ActiveWaits
    <3> QED
        BY <1>3, <3>1, <3>2
  <2> QED
    BY <1>1, <2>1, <2>2, Moves DEF Rests, Saves, Drops, Runs, Takes, Answered, Refused, Fired
<1> QED
    BY <1>6, <1>7, <1>8 DEF EndKept

\* Without crashes and stalls the end in the context is one that completed for good.
EndKeptInv == NoLoss => EndKept

\* An exception right after the end takes its completion back (the catch block of
\* executeRunSegment marks the node run failed); the context a retry starts from never holds
\* an end that was taken back, or CloseSegment would find no successful end and fail the run.
THEOREM EndKeptInvariant == Spec => []EndKeptInv
<1>1. Init => EndKeptInv
  <2> SUFFICES ASSUME Init PROVE EndKept
    BY DEF EndKeptInv
  <2>1. run.done = {} /\ ActiveWaits = {} /\ \A w \in Workers : ~Owns(w)
    BY DEF Init, IdleWorker, Owns, ActiveWaits
  <2> QED
    BY <2>1 DEF EndKept, Ended
<1>2. /\ IInv /\ IInv' /\ ArtifactKinds /\ CustodyInv /\ EndRunsInv /\ EndKeptInv /\ [Next]_vars
      => EndKeptInv'
    BY BothParts, LossesStay, EndKeptStep DEF CustodyInv, EndKeptInv
<1> QED
    BY <1>1, <1>2, Invariance, KindsInvariant, CustodyInvariant, EndRunsInvariant, PTL DEF Spec

-----------------------------------------------------------------------------
(* Failure is earned.                                                      *)

\* The owner in a wait node has seen that no subscription of it is active.
WaitUnasked ==
    \A w \in Workers :
        Owns(w) /\ wk[w].pc \in {"enter", "work"} /\ Kind[Head(wk[w].queue)] = "wait" =>
            Head(wk[w].queue) \notin ActiveWaits

\* Every attempt but the last was ended by an exception, and a failing one by its own.
ErrorsCounted ==
    /\ run.lock # NoToken => used.errors + 1 >= run.lock[2]
    /\ \A w \in Workers : Owns(w) /\ wk[w].pc = "failing" => used.errors >= wk[w].tok[2]
    /\ \A j \in Jobs : jobs[j].status = "queued" /\ run.status \notin Terminal =>
          used.errors >= jobs[j].attempt
    /\ run.status = "failed" => used.errors >= MaxAttempts

\* The owner's test of its wait node stays true.
LEMMA WaitUnaskedStep ==
    ASSUME IInv, IInv', ArtifactKinds, Custody, WaitUnasked, [Next]_vars, NoLoss'
    PROVE  WaitUnasked'
<1>1. /\ WorkersType /\ RowsType /\ WorkersType' /\ RowsType' /\ LeaseInv /\ LeaseInv' /\ OpenInv
    BY BothParts
<1> SUFFICES ASSUME NEW v \in Workers, Owns(v)', wk'[v].pc \in {"enter", "work"},
                    Kind[Head(wk'[v].queue)] = "wait"
             PROVE  Head(wk'[v].queue) \notin ActiveWaits'
    BY DEF WaitUnasked
<1>2. CASE OpenNode(v)
  <2>1. ActiveWaits' = ActiveWaits
    BY <1>2 DEF OpenNode, ActiveWaits
  <2> QED
    BY <1>1, <1>2, <2>1, OpenNodeFacts
<1>3. CASE /\ wk[v].pc \in {"enter", "work"} /\ wk'[v].tok = wk[v].tok
           /\ wk'[v].queue = wk[v].queue
  <2>1. Head(wk[v].queue) \notin ActiveWaits
    BY <1>1, <1>3, SameOwner DEF WaitUnasked
  <2>2. CASE Shrinks
    BY <1>1, <1>3, <2>1, <2>2, AskedFacts
  <2>3. ASSUME NEW w \in Workers, Asks(w) PROVE FALSE
    BY <2>3 DEF Asks, OnlyOwner
  <2> QED
    BY <1>1, <2>2, <2>3, Moves DEF Rests, Saves, Drops, Runs, Takes, Answered, Refused, Fired
<1> QED
    BY <1>1, <1>2, <1>3, WhoEnters

\* A worker begins to fail by an exception, or at a test of the code.
LEMMA WhoFails ==
    ASSUME WorkersType, RowsType, [Next]_vars, NEW v \in Workers, wk'[v].pc = "failing"
    PROVE  /\ wk[v].pc # "idle" /\ wk'[v].tok = wk[v].tok
           /\ \/ wk[v].pc = "failing"
              \/ ThrowError(v)
              \/ LoadRun(v) /\ run.status \in Terminal
              \/ CloseSegment(v) /\ ~Asked /\ endRuns = {}
              \/ wk[v].pc # "failing" /\ SaveCheckpoint(v) /\ ~Fenced(wk[v].tok)
              \/ RefuseArtifact(v)
              \/ Park(v) /\ ~(run.lock = wk[v].tok /\ run.status = "running")
              \/ Succeed(v) /\ run.lock # wk[v].tok
              \/ wk[v].pc = "complete"
<1>1. wk[v].pc # "idle" /\ wk'[v].tok = wk[v].tok
    BY WorkerKeeps, ClaimFacts
<1>2. CASE wk'[v] = wk[v]
    BY <1>1, <1>2
<1>3. CASE OpenNode(v)
    BY <1>3, OpenNodeFacts
<1>4. CASE RunNode(v)
    BY <1>4, RunNodeFacts
<1>5. CASE CreateTask(v) \/ CreateWait(v)
    BY <1>5, CreateFacts
<1>6. CASE \E j \in Jobs : Claim(v, j)
    BY <1>6, ClaimFacts
<1>7. CASE SaveCheckpoint(v)
    BY <1>1, <1>7, OtherMoves, GotoKeeps DEF AfterCheckpoint, WorkerPoints, Executing
<1>8. CASE CloseSegment(v)
    BY <1>1, <1>8, OtherMoves, GotoKeeps DEF WorkerPoints, Executing
<1>9. CASE LoadRun(v)
  <2>1. Goto(v, IF run.status \in Terminal THEN "failing" ELSE "head")
    BY <1>9 DEF LoadRun
  <2> QED
    BY <1>1, <1>9, <2>1, GotoKeeps DEF WorkerPoints, Executing
<1>10. CASE Park(v) \/ Succeed(v)
  <2>1. /\ Park(v) => Goto(v, IF run.lock = wk[v].tok /\ run.status = "running"
                              THEN "complete" ELSE "failing")
        /\ Succeed(v) => Goto(v, IF run.lock = wk[v].tok THEN "complete" ELSE "failing")
    BY DEF Park, Succeed
  <2> QED
    BY <1>1, <1>10, <2>1, GotoKeeps DEF WorkerPoints, Executing
<1>11. CASE RefuseArtifact(v) \/ ThrowError(v) \/ CompleteJob(v)
    BY <1>1, <1>11, OtherMoves
<1>12. CASE RetryJob(v) \/ FailRun(v) \/ FailJob(v) \/ Crash(v)
    BY <1>12, OtherMoves, GotoKeeps, ReleaseFacts DEF WorkerPoints
<1> QED
    BY <1>2, <1>3, <1>4, <1>5, <1>6, <1>7, <1>8, <1>9, <1>10, <1>11, <1>12, OwnSteps
    DEF WorkerStep

\* No test of the code fails the owner of the run: only an exception does.
LEMMA OwnerFailsByError ==
    ASSUME IInv, IInv', ArtifactKinds, CancelledAtEnd, Custody, Recorded, VisitInv, PromiseInv,
           EndRunsInv, EndKept, WaitUnasked, [Next]_vars,
           NEW v \in Workers, Owns(v)', wk'[v].pc = "failing"
    PROVE  /\ Owns(v) /\ wk'[v].tok = wk[v].tok
           /\ wk[v].pc = "failing" \/ ThrowError(v)
<1>1. /\ WorkersType /\ RowsType /\ WorkersType' /\ RowsType' /\ LeaseInv /\ LeaseInv' /\ OpenInv
      /\ OwnerInNode /\ LockAlive
    BY BothParts DEF Custody
<1>2. Owns(v) /\ wk[v].pc # "idle" /\ wk'[v].tok = wk[v].tok
    BY <1>1, WhoFails, SameOwner
<1>3. /\ run.lock # NoToken /\ run.status = "running" /\ Fenced(wk[v].tok)
      /\ HoldsLease(wk[v].tok)
    BY <1>1, <1>2, ConstantTypes
    DEF Owns, WorkersType, LeaseInv, LockOwnership, LockAlive, Fenced, HoldsLease
<1>4. run.status \notin Terminal /\ wk[v].pc # "complete"
    BY <1>1, <1>2, <1>3 DEF Terminal, Owns, LeaseInv, Released
<1>5. ~(CloseSegment(v) /\ ~Asked /\ endRuns = {})
  <2> SUFFICES ASSUME CloseSegment(v), ~Asked, endRuns = {} PROVE FALSE
    OBVIOUS
  <2>1. wk[v].pc = "head" /\ wk[v].queue = <<>> /\ AskedNodes = {}
    BY DEF CloseSegment, Asked, AskedNodes
  <2>2. Ended(wk[v].done)
    BY <1>2, <2>1 DEF PromiseInv, OwnersPromise, Promise
  <2>3. Settled # {}
    BY <1>2, <2>1, <2>2 DEF EndKept
  <2> QED
    BY <2>3 DEF Settled
<1>6. ~RefuseArtifact(v)
  <2> SUFFICES ASSUME RefuseArtifact(v) PROVE FALSE
    OBVIOUS
  <2> DEFINE n == Head(wk[v].queue)
  <2>1. /\ wk[v].pc = "work"
        /\ \/ Kind[n] = "operate" /\ tasks[<<n, 1>>] # "absent"
           \/ Kind[n] = "wait" /\ waits[n].status # "absent"
    BY <1>3 DEF RefuseArtifact
  <2>2. n \in Nodes /\ n \notin Ends
    BY <1>1, <2>1, QueueTypes, QueuesTyped DEF WorkersType, HasHead, Ends
  <2>3. n \notin Decided
    BY <1>1, <1>2, <2>1, <2>2, HeadUndecided
  <2>4. 1 \in Copies
    BY BoundAssumption DEF Copies
  <2>5. CASE Kind[n] = "operate" /\ tasks[<<n, 1>>] # "absent"
    <3>1. <<n, 1>> \notin OpenTasks
        BY <1>1, <1>2, <2>1, <2>5 DEF OpenInv, NoneOpen, Owns
    <3>2. tasks[<<n, 1>>] # "cancelled"
        BY <1>4, <2>2, <2>4 DEF CancelledAtEnd
    <3>3. tasks[<<n, 1>>] = "completed"
        BY <1>1, <2>2, <2>4, <2>5, <3>1, <3>2 DEF OpenTasks, RowsType, TaskStatuses
    <3> QED
        BY <1>1, <2>2, <2>3, <2>4, <3>3 DEF Decided, RowsType
  <2>6. CASE Kind[n] = "wait" /\ waits[n].status # "absent"
    <3>1. n \notin ActiveWaits
        BY <1>2, <2>1, <2>6 DEF WaitUnasked
    <3>2. waits[n].status # "cancelled"
        BY <1>4, <2>2 DEF CancelledAtEnd
    <3>3. waits[n].status = "triggered"
        BY <1>1, <2>2, <2>6, <3>1, <3>2 DEF ActiveWaits, RowsType, WaitRecord, WaitStatuses
    <3> QED
        BY <2>2, <2>3, <3>3 DEF Decided
  <2> QED
    BY <2>1, <2>5, <2>6
<1> QED
    BY <1>1, <1>2, <1>3, <1>4, <1>5, <1>6, WhoFails DEF Owns

\* A job is queued by its creation, or by an owner that gives it back.
LEMMA WhoRequeues ==
    ASSUME WorkersType, RowsType, LeaseInv, [Next]_vars, NEW j \in Jobs, jobs'[j].status = "queued"
    PROVE  \/ jobs[j].status = "queued" /\ jobs'[j].attempt = jobs[j].attempt
           \/ jobs'[j].attempt = 0
           \/ \E w \in Workers : /\ Owns(w) /\ wk[w].pc = "failing"
                                 /\ jobs'[j].attempt = wk[w].tok[2]
<1> DEFINE Goal == \/ jobs[j].status = "queued" /\ jobs'[j].attempt = jobs[j].attempt
                   \/ jobs'[j].attempt = 0
                   \/ \E w \in Workers : /\ Owns(w) /\ wk[w].pc = "failing"
                                         /\ jobs'[j].attempt = wk[w].tok[2]
<1>1. ASSUME jobs' = jobs PROVE Goal
    BY <1>1
<1>2. ASSUME NEW tok, NEW s, s # "queued", SetJob(tok, s) PROVE Goal
    BY <1>2 DEF SetJob, RowsType, JobRecord
<1>3. ASSUME NEW w \in Workers, RetryJob(w) PROVE Goal
  <2> DEFINE tok == wk[w].tok
  <2>1. \/ jobs' = jobs
        \/ \E s : s # "queued" /\ SetJob(tok, s)
        \/ run.lock = tok /\ LeaseHeld(tok) /\ jobs' = [jobs EXCEPT ![tok[1]].status = "queued"]
    <3>1. CASE run.lock = tok
        BY <1>3, <3>1 DEF RetryJob, SetJob
    <3>2. CASE run.lock # tok
      <4>1. SetJob(tok, "completed") \/ SetJob(tok, "cancelled")
        BY <1>3, <3>2 DEF RetryJob
      <4> QED
        BY <4>1
    <3> QED
        BY <3>1, <3>2
  <2>2. CASE run.lock = tok /\ LeaseHeld(tok) /\ jobs' = [jobs EXCEPT ![tok[1]].status = "queued"]
    <3>1. Owns(w) /\ wk[w].pc = "failing"
        BY <1>3, <2>2 DEF RetryJob, Owns
    <3>2. CASE j = tok[1]
      <4>1. jobs'[j].attempt = tok[2]
        BY <2>2, <3>2 DEF LeaseHeld, RowsType, JobRecord
      <4> QED
        BY <3>1, <4>1
    <3>3. CASE j # tok[1]
        BY <2>2, <3>3 DEF RowsType
    <3> QED
        BY <3>2, <3>3
  <2> QED
    BY <1>1, <1>2, <2>1, <2>2
<1>4. ASSUME NEW w \in Workers, CompleteJob(w) \/ FailJob(w) PROVE Goal
    BY <1>2, <1>4 DEF CompleteJob, FailJob
<1>5. ASSUME NEW w \in Workers, SaveCheckpoint(w) PROVE Goal
  <2>1. wk[w].tok[1] \in Jobs
    BY <1>5, ConstantTypes DEF SaveCheckpoint, AfterCheckpoint, WorkersType
  <2>2. CASE jobs' = [jobs EXCEPT ![wk[w].tok[1]].queue = wk[w].queue,
                                  ![wk[w].tok[1]].done = wk[w].done]
    BY <2>1, <2>2 DEF RowsType, JobRecord
  <2> QED
    BY <1>1, <1>5, <2>2 DEF SaveCheckpoint
<1>6. ASSUME NEW w \in Workers, RenewLease(w) PROVE Goal
    BY <1>6 DEF RenewLease, RowsType, JobRecord
<1>7. ASSUME NEW w \in Workers, NEW i \in Jobs, Claim(w, i) PROVE Goal
    BY <1>7 DEF Claim, RowsType, JobRecord
<1>8. ASSUME NEW w \in Workers, WorkerStep(w) \/ Crash(w) \/ ThrowError(w) PROVE Goal
  <2>1. CASE \/ LoadRun(w) \/ OpenNode(w) \/ CloseSegment(w) \/ RunNode(w) \/ CreateTask(w)
             \/ CreateWait(w) \/ RefuseArtifact(w) \/ Park(w) \/ Succeed(w) \/ FailRun(w)
             \/ Crash(w) \/ ThrowError(w)
    BY <1>1, <2>1 DEF LoadRun, OpenNode, CloseSegment, RunNode, CreateTask, CreateWait,
                      RefuseArtifact, Park, Succeed, FailRun, Crash, ThrowError
  <2> QED
    BY <1>3, <1>4, <1>5, <1>8, <2>1 DEF WorkerStep
<1>9. ASSUME NEW queue, NEW done, Continue(queue, done) PROVE Goal
    BY <1>9 DEF Continue, FreshJob, ResumeJob, RowsType
<1>10. ASSUME NEW t \in Nodes \X Copies,
              ClaimTask(t) \/ ReturnTask(t) \/ CompleteTask(t) \/ RejectTask(t)
       PROVE  Goal
    BY <1>1, <1>9, <1>10 DEF ClaimTask, ReturnTask, CompleteTask, RejectTask
<1>11. ASSUME NEW n \in Nodes, TriggerWait(n) PROVE Goal
    BY <1>9, <1>11 DEF TriggerWait
<1>12. ASSUME ResumeRun PROVE Goal
  <2>1. CASE \E i \in Jobs : /\ FreshJob(i)
                             /\ jobs' = [jobs EXCEPT ![i] = ResumeJob(run.queue, run.done)]
    BY <2>1 DEF FreshJob, ResumeJob, RowsType
  <2> QED
    BY <1>1, <1>12, <2>1 DEF ResumeRun
<1>13. CASE PauseRun
    BY <1>13 DEF PauseRun, RowsType, JobRecord
<1>14. CASE ReconcileTerminal
    BY <1>14 DEF ReconcileTerminal, Outstanding, RowsType, JobRecord
<1>15. ASSUME NEW target, ControlRun(target) PROVE Goal
    BY <1>15 DEF ControlRun, Outstanding, RowsType, JobRecord
<1>16. ASSUME NEW i \in Jobs, LeaseLapses(i) PROVE Goal
    BY <1>16 DEF LeaseLapses, RowsType, JobRecord
<1>17. ASSUME NEW i \in Jobs, ReconcileExhausted(i) PROVE Goal
    BY <1>2, <1>17 DEF ReconcileExhausted
<1>18. CASE LockLapses \/ UNCHANGED vars
    BY <1>1, <1>18 DEF LockLapses, vars
<1> QED
    BY <1>6, <1>7, <1>8, <1>10, <1>11, <1>12, <1>13, <1>14, <1>15, <1>16, <1>17, <1>18,
       DomainOfTasks
    DEF Next, Reconcile, Person

\* Exceptions are only ever added to, and each is counted.
LEMMA ErrorsGrow ==
    ASSUME RowsType, [Next]_vars
    PROVE  /\ used.errors \in Nat /\ used'.errors \in Nat /\ used'.errors >= used.errors
           /\ \A w \in Workers : ThrowError(w) => used'.errors = used.errors + 1
<1>0. used.errors \in Nat
    BY DEF RowsType
<1>1. \A w \in Workers : ThrowError(w) => used'.errors = used.errors + 1
    BY DEF ThrowError, RowsType
<1>2. CASE PauseRun \/ \E w \in Workers : Crash(w)
  <2>1. used'.errors = used.errors
    BY <1>2 DEF PauseRun, Crash, RowsType
  <2> QED
    BY <1>0, <1>1, <2>1
<1>3. CASE \E j \in Jobs : LeaseLapses(j)
  <2>1. used'.errors = used.errors
    BY <1>3 DEF LeaseLapses, RowsType
  <2> QED
    BY <1>0, <1>1, <2>1
<1>4. CASE \E w \in Workers : ThrowError(w)
    BY <1>0, <1>1, <1>4
<1>5. CASE used' = used
    BY <1>0, <1>1, <1>5
<1> QED
    BY <1>2, <1>3, <1>4, <1>5
    DEF Next, WorkerStep, LoadRun, OpenNode, CloseSegment, SaveCheckpoint, RunNode, CreateTask,
        CreateWait, RefuseArtifact, Park, Succeed, CompleteJob, RetryJob, FailRun, FailJob,
        RenewLease, Claim, LockLapses, Reconcile, ReconcileTerminal, ReconcileExhausted, Person,
        ClaimTask, ReturnTask, CompleteTask, RejectTask, ControlRun, ResumeRun, TriggerWait, vars

\* A run fails by an owner whose attempts are used up, or by the reconciler.
LEMMA WhoFailsRun ==
    ASSUME WorkersType, RowsType, [Next]_vars, run.status # "failed", run'.status = "failed"
    PROVE  \/ \E w \in Workers : Owns(w) /\ wk[w].pc = "failing" /\ wk[w].tok[2] >= MaxAttempts
           \/ \E j \in Jobs : ReconcileExhausted(j)
<1>1. ASSUME NEW s, run' = Unlock(run, s), s # "failed" PROVE FALSE
    BY <1>1 DEF Unlock, RowsType, RunRecord
<1>2. ASSUME run'.status = run.status PROVE FALSE
    BY <1>2
<1>3. ASSUME NEW w \in Workers,
             \/ WorkerStep(w) \/ RenewLease(w) \/ Crash(w) \/ ThrowError(w)
             \/ \E j \in Jobs : Claim(w, j)
      PROVE  Owns(w) /\ wk[w].pc = "failing" /\ wk[w].tok[2] >= MaxAttempts
  <2>1. CASE FailRun(w)
    BY <1>2, <2>1 DEF FailRun, Owns
  <2>2. CASE CompleteJob(w)
    BY <1>1, <1>2, <2>2 DEF CompleteJob
  <2>3. CASE SaveCheckpoint(w) \/ RenewLease(w) \/ \E j \in Jobs : Claim(w, j)
    BY <1>2, <2>3 DEF SaveCheckpoint, RenewLease, Claim, RowsType, RunRecord
  <2>4. CASE Park(w) \/ RetryJob(w) \/ Succeed(w)
    BY <1>1, <1>2, <2>4 DEF Park, RetryJob, Succeed, Unlock, RowsType, RunRecord
  <2> QED
    BY <1>2, <1>3, <2>1, <2>2, <2>3, <2>4
    DEF WorkerStep, LoadRun, OpenNode, CloseSegment, RunNode, CreateTask, CreateWait,
        RefuseArtifact, FailJob, Crash, ThrowError
<1>4. ASSUME \/ LockLapses \/ ReconcileTerminal \/ PauseRun \/ ResumeRun \/ UNCHANGED vars
             \/ \E j \in Jobs : LeaseLapses(j)
             \/ \E target \in {"cancelled", "terminated"} : ControlRun(target)
      PROVE  FALSE
    BY <1>1, <1>2, <1>4 DEF LockLapses, ReconcileTerminal, PauseRun, ResumeRun, vars, LeaseLapses,
                            ControlRun, RowsType, RunRecord
<1>5. ASSUME NEW queue, NEW done, Continue(queue, done) PROVE FALSE
    BY <1>5 DEF Continue, Unlock, RowsType, RunRecord
<1>6. ASSUME NEW t \in Nodes \X Copies,
             ClaimTask(t) \/ ReturnTask(t) \/ CompleteTask(t) \/ RejectTask(t)
      PROVE  FALSE
  <2>1. CASE RejectTask(t)
    BY <2>1 DEF RejectTask, Unlock, RowsType, RunRecord
  <2> QED
    BY <1>2, <1>5, <1>6, <2>1 DEF ClaimTask, ReturnTask, CompleteTask
<1>7. ASSUME NEW n \in Nodes, TriggerWait(n) PROVE FALSE
    BY <1>5, <1>7 DEF TriggerWait
<1> QED
    BY <1>3, <1>4, <1>6, <1>7, DomainOfTasks DEF Next, Reconcile, Person

\* A lock is kept, given back, or drawn for a job that was queued under a live run.
LEMMA WhoLocksAfresh ==
    ASSUME WorkersType, RowsType, LeaseInv, Custody, [Next]_vars
    PROVE  \/ run'.lock \in {run.lock, NoToken}
           \/ \E j \in Jobs : /\ jobs[j].status = "queued" /\ run.status \notin Terminal
                              /\ run'.lock = <<j, jobs[j].attempt + 1>>
<1>1. ASSUME NEW w \in Workers, NEW j \in Jobs, Claim(w, j)
      PROVE  /\ jobs[j].status = "queued" /\ run.status \notin Terminal
             /\ run'.lock = <<j, jobs[j].attempt + 1>>
  <2>1. jobs[j].status = "queued" /\ run.status \notin Terminal
    BY <1>1 DEF Claim, Eligible, Claimable, Terminal, Custody, LeasesHeld
  <2>2. run'.lock = <<j, jobs[j].attempt + 1>>
    BY <1>1 DEF Claim, RowsType, RunRecord
  <2> QED
    BY <2>1, <2>2
<1> QED
    BY <1>1, WhoLocks

\* Every step without a crash or a stall keeps the account of exceptions.
LEMMA ErrorsStep ==
    ASSUME IInv, IInv', ArtifactKinds, CancelledAtEnd, Custody, Recorded, VisitInv, PromiseInv,
           EndRunsInv, EndKept, WaitUnasked, ErrorsCounted, [Next]_vars, NoLoss'
    PROVE  ErrorsCounted'
<1>1. WorkersType /\ RowsType /\ WorkersType' /\ RowsType' /\ LeaseInv /\ LeaseInv'
    BY BothParts
<1>2. /\ used.errors \in Nat /\ used'.errors \in Nat /\ used'.errors >= used.errors
      /\ \A w \in Workers : ThrowError(w) => used'.errors = used.errors + 1
    BY <1>1, ErrorsGrow
<1>3. ASSUME run'.lock # NoToken PROVE used'.errors + 1 >= run'.lock[2]
  <2>1. CASE run'.lock = run.lock
    <3>1. run.lock[2] \in Nat
        BY <1>1, <1>3, <2>1, ConstantTypes DEF RowsType, RunRecord
    <3>2. used.errors + 1 >= run.lock[2]
        BY <1>3, <2>1 DEF ErrorsCounted
    <3> QED
        BY <1>2, <2>1, <3>1, <3>2
  <2>2. ASSUME NEW j \in Jobs, jobs[j].status = "queued", run.status \notin Terminal,
               run'.lock = <<j, jobs[j].attempt + 1>>
        PROVE  used'.errors + 1 >= run'.lock[2]
    <3>1. used.errors >= jobs[j].attempt /\ jobs[j].attempt \in Nat
        BY <1>1, <2>2 DEF ErrorsCounted, RowsType, JobRecord
    <3>2. run'.lock[2] = jobs[j].attempt + 1
        BY <2>2
    <3> QED
        BY <1>2, <3>1, <3>2
  <2> QED
    BY <1>1, <1>3, <2>1, <2>2, WhoLocksAfresh
<1>4. ASSUME NEW v \in Workers, Owns(v)', wk'[v].pc = "failing"
      PROVE  used'.errors >= wk'[v].tok[2]
  <2>1. /\ Owns(v) /\ wk'[v].tok = wk[v].tok
        /\ wk[v].pc = "failing" \/ ThrowError(v)
    BY <1>4, OwnerFailsByError
  <2>2. wk[v].tok \in Token /\ wk[v].tok[2] \in Nat /\ run.lock = wk[v].tok /\ run.lock # NoToken
    BY <1>1, <2>1, ConstantTypes DEF Owns, WorkersType
  <2>3. CASE wk[v].pc = "failing"
    <3>1. used.errors >= wk[v].tok[2]
        BY <2>1, <2>3 DEF ErrorsCounted
    <3> QED
        BY <1>2, <2>1, <2>2, <3>1
  <2>4. CASE ThrowError(v)
    <3>1. used.errors + 1 >= wk[v].tok[2]
        BY <2>2 DEF ErrorsCounted
    <3> QED
        BY <1>2, <2>1, <2>4, <3>1
  <2> QED
    BY <2>1, <2>3, <2>4
<1>5. ASSUME NEW j \in Jobs, jobs'[j].status = "queued", run'.status \notin Terminal
      PROVE  used'.errors >= jobs'[j].attempt
  <2>0. run.status \notin Terminal
    BY <1>1, <1>5, TerminalStays
  <2>1. run.status \notin Terminal /\ jobs[j].attempt \in Nat
    BY <1>1, <2>0 DEF RowsType, JobRecord
  <2>2. CASE jobs[j].status = "queued" /\ jobs'[j].attempt = jobs[j].attempt
    <3>1. used.errors >= jobs[j].attempt
        BY <2>1, <2>2 DEF ErrorsCounted
    <3> QED
        BY <1>2, <2>1, <2>2, <3>1
  <2>3. CASE jobs'[j].attempt = 0
    BY <1>2, <2>3
  <2>4. ASSUME NEW w \in Workers, Owns(w), wk[w].pc = "failing", jobs'[j].attempt = wk[w].tok[2]
        PROVE  used'.errors >= jobs'[j].attempt
    <3>1. used.errors >= wk[w].tok[2]
        BY <2>4 DEF ErrorsCounted
    <3>2. wk[w].tok[2] \in Nat
        BY <1>1, <2>4, ConstantTypes DEF Owns, WorkersType
    <3> QED
        BY <1>2, <2>4, <3>1, <3>2
  <2> QED
    BY <1>1, <1>5, <2>2, <2>3, <2>4, WhoRequeues
<1>6. ASSUME run'.status = "failed" PROVE used'.errors >= MaxAttempts
  <2>0. MaxAttempts \in Nat
    BY BoundAssumption
  <2>1. CASE run.status = "failed"
    <3>1. used.errors >= MaxAttempts
        BY <2>1 DEF ErrorsCounted
    <3> QED
        BY <1>2, <2>0, <3>1
  <2>2. ASSUME NEW w \in Workers, Owns(w), wk[w].pc = "failing", wk[w].tok[2] >= MaxAttempts
        PROVE  used'.errors >= MaxAttempts
    <3>1. used.errors >= wk[w].tok[2]
        BY <2>2 DEF ErrorsCounted
    <3>2. wk[w].tok[2] \in Nat
        BY <1>1, <2>2, ConstantTypes DEF Owns, WorkersType
    <3> QED
        BY <1>2, <2>0, <2>2, <3>1, <3>2
  <2> QED
    BY <1>1, <1>6, <2>1, <2>2, WhoFailsRun, NothingLapses
<1> QED
    BY <1>3, <1>4, <1>5, <1>6 DEF ErrorsCounted

\* Without a crash or a stall each attempt that was given up cost an exception.
FailedInv == NoLoss /\ OneAsking /\ OneVisit /\ Continues => WaitUnasked /\ ErrorsCounted

\* So every attempt that was given up, and the last one, cost an exception.
THEOREM FailureInvariant == Spec => []FailedInv
<1>1. Init => FailedInv
  <2> SUFFICES ASSUME Init PROVE WaitUnasked /\ ErrorsCounted
    BY DEF FailedInv
  <2>1. /\ run.lock = NoToken /\ run.status = "queued" /\ used.errors = 0
        /\ \A w \in Workers : ~Owns(w)
        /\ \A j \in Jobs : jobs[j].attempt = 0
    BY DEF Init, IdleWorker, Owns
  <2> QED
    BY <2>1 DEF WaitUnasked, ErrorsCounted
<1>2. ASSUME IInv, IInv', ArtifactKinds, CancelledAtEnd, CustodyInv, AskedInv, VisitedInv,
             PromisedInv, EndRunsInv, EndKeptInv, FailedInv, [Next]_vars,
             NoLoss', OneAsking, OneVisit, Continues
      PROVE  (WaitUnasked /\ ErrorsCounted)'
  <2>1. /\ NoLoss /\ Custody /\ Recorded /\ VisitInv /\ PromiseInv /\ EndKept
        /\ WaitUnasked /\ ErrorsCounted
    BY <1>2, BothParts, LossesStay
    DEF CustodyInv, AskedInv, VisitedInv, PromisedInv, EndKeptInv, FailedInv
  <2>2. WaitUnasked'
    BY <1>2, <2>1, WaitUnaskedStep
  <2>3. ErrorsCounted'
    BY <1>2, <2>1, ErrorsStep
  <2> QED
    BY <2>2, <2>3
<1>3. /\ IInv /\ IInv' /\ ArtifactKinds /\ CancelledAtEnd /\ CustodyInv /\ AskedInv /\ VisitedInv
      /\ PromisedInv /\ EndRunsInv /\ EndKeptInv /\ FailedInv /\ [Next]_vars
      => FailedInv'
    BY <1>2 DEF FailedInv
<1> QED
    BY <1>1, <1>3, Invariance, KindsInvariant, CancelledInvariant, CustodyInvariant,
       OneQuestionAtATime, OneVisitEach, PromiseInvariant, EndRunsInvariant, EndKeptInvariant,
       PTL DEF Spec

\* A run that failed, without a crash or a stall, has had MaxAttempts exceptions: no sequence
\* of decisions, timers, pauses and stops makes the engine fail a run by its own tests
\* (handleJobFailure, and every throw of executeRunSegment that is not a node's).
THEOREM FailureIsEarned ==
    Spec => [](OneAsking /\ OneVisit /\ Continues /\ NoLoss => FailureEarned)
<1>1. IInv /\ FailedInv => (OneAsking /\ OneVisit /\ Continues /\ NoLoss => FailureEarned)
  <2> SUFFICES ASSUME IInv, FailedInv, OneAsking, OneVisit, Continues, NoLoss,
                      run.status = "failed"
               PROVE  used.crashes + used.stalls + used.errors >= MaxAttempts
    BY DEF FailureEarned
  <2>1. used.errors >= MaxAttempts /\ used.crashes = 0 /\ used.stalls = 0
    BY DEF FailedInv, ErrorsCounted, NoLoss
  <2>2. used.errors \in Nat /\ MaxAttempts \in Nat
    BY Parts, BoundAssumption DEF RowsType
  <2> QED
    BY <2>1, <2>2
<1> QED
    BY <1>1, Invariance, FailureInvariant, PTL
=============================================================================
