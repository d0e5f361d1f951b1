----------------------------- MODULE DataflowJob -----------------------------
(***************************************************************************)
(* One admitted dataflow run and its job: workers claim the job under a    *)
(* lease, execute the nodes of the plan in topological order, each between *)
(* two fenced transactions, and complete, retry or fail the run; a user    *)
(* may cancel it at any moment (p2-service.ts, dataflow-run-control.ts).   *)
(*                                                                         *)
(* A lease token is the attempt that drew it.  Rows, schemas and lineage   *)
(* are abstracted: a node either has its artifact or not.  The plan of the *)
(* run was validated when it was admitted, so claimDataflowJob's branches  *)
(* for an invalid plan and for a job whose run has ended (RunMatchesJob)   *)
(* are left out.                                                           *)
(***************************************************************************)
EXTENDS Naturals, Sequences

CONSTANTS
    Workers,
    Order,          \* executionPlan.topologicalOrder
    Parents,        \* [node -> set of nodes it reads]
    MaxAttempts,    \* dataflow_run_job.maxAttempts
    MaxCrashes,     \* bound: workers that die
    MaxStalls       \* bound: leases that lapse under a living worker

Nodes == {Order[i] : i \in DOMAIN Order}

ASSUME DataflowAssumption ==
    /\ Order \in Seq(Nodes) /\ Order # <<>>
    /\ \A i, k \in DOMAIN Order : Order[i] = Order[k] => i = k
    /\ \A i \in DOMAIN Order : Parents[Order[i]] \subseteq {Order[k] : k \in 1..(i - 1)}
    /\ MaxAttempts \in Nat \ {0} /\ MaxCrashes \in Nat /\ MaxStalls \in Nat

VARIABLES
    run,            \* dataflow_run.status
    job,            \* dataflow_run_job: status, attempt, leaseToken, whether the lease is valid
    node,           \* dataflow_node_run: status and jobLeaseToken
    artifacts,      \* nodes with a dataflow_dataset_artifact
    checkpoint,     \* completedNodeIds in dataflow_run.checkpointJson
    wk,             \* each worker: point in processDataflowJob, token, outputs in memory
    used            \* how much of each bound has been spent

stored == <<run, job, node, artifacts, checkpoint>>
vars == <<run, job, node, artifacts, checkpoint, wk, used>>

Ended == {"success", "failed", "cancelled"}
NoToken == 0
Tokens == 0..MaxAttempts
Idle == [pc |-> "idle", token |-> NoToken, node |-> Order[1], outputs |-> {}]

TypeOK ==
    /\ run \in {"queued", "running"} \cup Ended
    /\ job \in [status : {"queued", "leased", "completed", "failed", "cancelled"},
                attempt : 0..MaxAttempts, token : Tokens, valid : BOOLEAN]
    /\ node \in [Nodes -> [status : {"none", "running"} \cup Ended, token : Tokens]]
    /\ artifacts \subseteq Nodes /\ checkpoint \subseteq Nodes
    /\ wk \in [Workers -> [pc : {"idle", "load", "start", "compute", "finish", "failnode", "handle"},
                           token : Tokens, node : Nodes, outputs : SUBSET Nodes]]
    /\ used \in [crashes : 0..MaxCrashes, stalls : 0..MaxStalls]

Init ==
    /\ run = "queued"
    /\ job = [status |-> "queued", attempt |-> 0, token |-> NoToken, valid |-> FALSE]
    /\ node = [n \in Nodes |-> [status |-> "none", token |-> NoToken]]
    /\ artifacts = {} /\ checkpoint = {}
    /\ wk = [w \in Workers |-> Idle]
    /\ used = [crashes |-> 0, stalls |-> 0]

Goto(w, pc) == wk' = [wk EXCEPT ![w].pc = pc]

\* Faulty variant: a lapsed lease is left to its worker.
ClaimableQueued == job.attempt < MaxAttempts /\ job.status = "queued"

\* Queued, or leased under a lease that has lapsed, with an attempt left.
Claimable ==
    /\ job.attempt < MaxAttempts
    /\ job.status = "queued" \/ (job.status = "leased" /\ ~job.valid)

Claim(w) ==
    /\ wk[w].pc = "idle" /\ Claimable
    /\ job' = [status |-> "leased", attempt |-> job.attempt + 1,
               token |-> job.attempt + 1, valid |-> TRUE]
    /\ run' = "running"
    /\ wk' = [wk EXCEPT ![w] = [Idle EXCEPT !.pc = "load", !.token = job.attempt + 1]]
    /\ UNCHANGED <<node, artifacts, checkpoint, used>>

\* loadDataflowCheckpoint joins successful node runs with their artifacts.
Succeeded == {n \in artifacts : node[n].status = "success"}

\* Faulty variant: a retry starts from nothing.
LoadNothing(w) ==
    /\ wk[w].pc = "load"
    /\ wk' = [wk EXCEPT ![w].pc = "start", ![w].outputs = {}]
    /\ UNCHANGED <<run, job, node, artifacts, checkpoint, used>>

Load(w) ==
    /\ wk[w].pc = "load"
    /\ wk' = [wk EXCEPT ![w].pc = "start", ![w].outputs = Succeeded]
    /\ UNCHANGED <<run, job, node, artifacts, checkpoint, used>>

\* assertDataflowJobLease
HoldsLease(w) == job.status = "leased" /\ job.token = wk[w].token /\ job.valid

\* Not the owner any more: a cancellation stops the worker, anything else is an error.
Refused(w, pc) ==
    /\ ~HoldsLease(w)
    /\ IF job.status = "cancelled" THEN wk' = [wk EXCEPT ![w] = Idle] ELSE Goto(w, pc)
    /\ UNCHANGED <<run, job, node, artifacts, checkpoint, used>>

\* What is left of the plan, by position.
Pending(w) == {i \in DOMAIN Order : Order[i] \notin wk[w].outputs}

\* The first node without outputs is begun, again if an earlier attempt had begun it.
StartNode(w) ==
    /\ wk[w].pc = "start" /\ Pending(w) # {}
    /\ \/ /\ HoldsLease(w)
          /\ \E i \in Pending(w) :
                /\ \A k \in Pending(w) : i <= k
                /\ node' = [node EXCEPT ![Order[i]] = [status |-> "running", token |-> wk[w].token]]
                /\ wk' = [wk EXCEPT ![w].pc = "compute", ![w].node = Order[i]]
          /\ UNCHANGED <<run, job, artifacts, checkpoint, used>>
       \/ Refused(w, "handle")

\* The connector call or transformation; it may take long and it may fail.
Compute(w) ==
    /\ wk[w].pc = "compute"
    /\ \E pc \in {"finish", "failnode"} : Goto(w, pc)
    /\ UNCHANGED <<run, job, node, artifacts, checkpoint, used>>

\* Artifact, node run and checkpoint commit together, fenced by lease, node run and status.
FinishNode(w) ==
    /\ wk[w].pc = "finish"
    /\ \/ /\ HoldsLease(w)
          /\ IF /\ node[wk[w].node].status = "running" /\ node[wk[w].node].token = wk[w].token
                /\ wk[w].node \notin artifacts /\ run = "running"
             THEN /\ artifacts' = artifacts \cup {wk[w].node}
                  /\ node' = [node EXCEPT ![wk[w].node].status = "success"]
                  /\ checkpoint' = wk[w].outputs \cup {wk[w].node}
                  /\ wk' = [wk EXCEPT ![w].pc = "start", ![w].outputs = @ \cup {wk[w].node}]
             ELSE Goto(w, "failnode") /\ UNCHANGED <<artifacts, node, checkpoint>>
          /\ UNCHANGED <<run, job, used>>
       \/ Refused(w, "failnode")

\* The node's error is recorded under the lease.
FailNode(w) ==
    /\ wk[w].pc = "failnode"
    /\ \/ /\ HoldsLease(w)
          /\ node' = IF node[wk[w].node].status = "running" /\ node[wk[w].node].token = wk[w].token
                     THEN [node EXCEPT ![wk[w].node].status = "failed"] ELSE node
          /\ Goto(w, "handle")
          /\ UNCHANGED <<run, job, artifacts, checkpoint, used>>
       \/ Refused(w, "handle")

Release(status) == [job EXCEPT !.status = status, !.token = NoToken, !.valid = FALSE]

\* All nodes have outputs: job and run are completed in one transaction.
Complete(w) ==
    /\ wk[w].pc = "start" /\ Pending(w) = {}
    /\ \/ /\ HoldsLease(w)
          /\ job' = Release("completed") /\ run' = "success"
          /\ wk' = [wk EXCEPT ![w] = Idle]
          /\ UNCHANGED <<node, artifacts, checkpoint, used>>
       \/ Refused(w, "handle")

\* A worker that lost its lease gives up; the others retry or fail job and run.
HandleFailure(w) ==
    /\ wk[w].pc = "handle"
    /\ wk' = [wk EXCEPT ![w] = Idle]
    /\ IF HoldsLease(w)
       THEN LET outcome == IF wk[w].token < MaxAttempts THEN "queued" ELSE "failed"
            IN  job' = Release(outcome) /\ run' = outcome
       ELSE UNCHANGED <<job, run>>
    /\ UNCHANGED <<node, artifacts, checkpoint, used>>

\* The timer of processDataflowJob extends the lease it holds, also one just lapsed.
Renew(w) ==
    /\ wk[w].pc # "idle" /\ job.status = "leased" /\ job.token = wk[w].token /\ ~job.valid
    /\ job' = [job EXCEPT !.valid = TRUE]
    /\ UNCHANGED <<run, node, artifacts, checkpoint, wk, used>>

\* The process is suspended, or the database out of reach, for longer than the lease.
Stall ==
    /\ job.status = "leased" /\ job.valid /\ used.stalls < MaxStalls
    /\ \E w \in Workers : wk[w].pc # "idle" /\ wk[w].token = job.token
    /\ job' = [job EXCEPT !.valid = FALSE]
    /\ used' = [used EXCEPT !.stalls = @ + 1]
    /\ UNCHANGED <<run, node, artifacts, checkpoint, wk>>

Crash(w) ==
    /\ wk[w].pc # "idle" /\ used.crashes < MaxCrashes
    /\ wk' = [wk EXCEPT ![w] = Idle]
    /\ used' = [used EXCEPT !.crashes = @ + 1]
    /\ UNCHANGED <<run, job, node, artifacts, checkpoint>>

\* The lease of a dead worker lapses.
Lapse ==
    /\ job.status = "leased" /\ job.valid
    /\ \A w \in Workers : wk[w].pc = "idle" \/ wk[w].token # job.token
    /\ job' = [job EXCEPT !.valid = FALSE]
    /\ UNCHANGED <<run, node, artifacts, checkpoint, wk, used>>

StopNodes(rows) ==
    [n \in Nodes |-> IF rows[n].status = "running" THEN [rows[n] EXCEPT !.status = "cancelled"] ELSE rows[n]]

\* cancelDataflowRun: a run that has ended is only reported.
Cancel ==
    /\ run \notin Ended /\ job.status \in {"queued", "leased"}
    /\ job' = Release("cancelled") /\ run' = "cancelled"
    /\ node' = StopNodes(node)
    /\ UNCHANGED <<artifacts, checkpoint, wk, used>>

-----------------------------------------------------------------------------
Step(w) ==
    \/ Load(w) \/ StartNode(w) \/ Compute(w) \/ FinishNode(w) \/ FailNode(w)
    \/ Complete(w) \/ HandleFailure(w)

Next ==
    \/ \E w \in Workers : Claim(w) \/ Step(w) \/ Renew(w) \/ Crash(w)
    \/ Stall \/ Lapse \/ Cancel

Spec == Init /\ [][Next]_vars

\* Workers poll and execute, and time passes; nobody need cancel.
FairSpec ==
    /\ Spec
    /\ WF_vars(\E w \in Workers : Claim(w)) /\ WF_vars(Lapse)
    /\ \A w \in Workers : WF_vars(Step(w)) /\ SF_vars(Renew(w))

-----------------------------------------------------------------------------
(* Properties.                                                             *)

\* Job and run are moved in one transaction wherever they are moved, so that a cancellation
\* never meets a job and a run that disagree (cancelDataflowRun refuses such a run).
RunMatchesJob == <<job.status, run>> \in
    {<<"queued", "queued">>, <<"leased", "running">>, <<"completed", "success">>,
     <<"failed", "failed">>, <<"cancelled", "cancelled">>}

\* The persisted checkpoint, the node runs that succeeded and the artifacts are the same set,
\* although each worker writes the checkpoint from its own memory (runDataflowDefinition).
CheckpointExact == checkpoint = artifacts /\ Succeeded = artifacts

\* A node is executed only after all it reads has been published, also by an attempt that
\* resumes from another's checkpoint.
ParentsFirst ==
    \A n \in Nodes : node[n].status # "none" => Parents[n] \subseteq artifacts

\* A run that succeeded or was cancelled has no node executing: a worker that missed the
\* cancellation starts nothing.
EndedQuiet ==
    run \in {"success", "cancelled"} => \A n \in Nodes : node[n].status # "running"

\* What an ended run published never changes, whatever its former workers still do.
EndedFrozen ==
    [][(run \in Ended) => UNCHANGED stored]_vars

\* What was published stays published: no attempt executes a node that has its artifact.
ArtifactsFinal ==
    [][\A n \in artifacts : n \in artifacts' /\ node'[n] = node[n]]_vars

\* The last attempt's worker died, or lost its lease.
Abandoned ==
    /\ job.status = "leased" /\ job.attempt = MaxAttempts /\ ~job.valid
    /\ \A w \in Workers : wk[w].pc = "idle" \/ wk[w].token # job.token

\* An admitted run ends, unless the worker of its last attempt dies.
RunEnds == <>(run \in Ended \/ Abandoned)

\* An admitted run ends ("Admission is durable at commit. The process worker owns execution").
RunAlwaysEnds == <>(run \in Ended)
=============================================================================
