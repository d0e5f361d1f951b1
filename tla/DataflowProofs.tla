----------------------------- MODULE DataflowProofs -----------------------------
(***************************************************************************)
(* Proofs about data flows: their runs (DataflowJob), for every plan,      *)
(* number of workers, attempt limit and number of faults, and their        *)
(* schedule (DataflowSchedule), for any set of servers and cron            *)
(* expressions and for every bound.  The two share no variable; each part  *)
(* has an invariant of its own.                                            *)
(***************************************************************************)
EXTENDS DataflowJob, DataflowSchedule, TLAPS

(***************************************************************************)
(* Runs.  What a node publishes is decided by the worker's memory (its     *)
(* outputs), and what protects the database is the token of the lease, so  *)
(* the invariant says that tokens are never shared (TokenInv) and that the *)
(* memory of the worker holding the job's token is the set of artifacts    *)
(* (MemoryInv).                                                            *)
(***************************************************************************)

WorkerStates == {"idle", "load", "start", "compute", "finish", "failnode", "handle"}

\* The worker has the token of the job's lease, lapsed or not.
Owner(w) == wk[w].pc # "idle" /\ job.status = "leased" /\ job.token = wk[w].token

\* A lease carries the number of its attempt; every token in memory was drawn by an attempt,
\* and by one worker.
TokenInv ==
    /\ job.status = "leased" => job.token = job.attempt
    /\ \A w \in Workers : wk[w].pc # "idle" => wk[w].token \in 1..job.attempt
    /\ \A v, w \in Workers : v # w /\ wk[v].pc # "idle" /\ wk[w].pc # "idle" =>
           wk[v].token # wk[w].token

\* The owner's memory is what was published.
MemoryInv ==
    \A w \in Workers : Owner(w) /\ wk[w].pc # "load" => wk[w].outputs = artifacts

IInv ==
    /\ TypeOK /\ RunMatchesJob /\ TokenInv /\ MemoryInv
    /\ CheckpointExact /\ ParentsFirst /\ EndedQuiet

-----------------------------------------------------------------------------
LEMMA OrderNodes == \A i \in DOMAIN Order : Order[i] \in Nodes
BY DEF Nodes

LEMMA FirstNode == Order[1] \in Nodes
<1>1. Order \in Seq(Nodes) /\ Order # <<>>
  BY DataflowAssumption
<1>2. 1 \in DOMAIN Order
  BY <1>1
<1> QED BY <1>2 DEF Nodes

\* The start value of a worker.
LEMMA IdleType ==
    Idle \in [pc : WorkerStates, token : Tokens, node : Nodes, outputs : SUBSET Nodes]
BY FirstNode, DataflowAssumption DEF Idle, Tokens, NoToken, WorkerStates

LEMMA InitInv == Init => IInv
<1> SUFFICES ASSUME Init PROVE IInv
  OBVIOUS
<1> USE DataflowAssumption DEF Init
<1>1. TypeOK
  BY IdleType DEF TypeOK, Tokens, NoToken, Ended, WorkerStates
<1>2. RunMatchesJob
  BY DEF RunMatchesJob
<1>3. TokenInv /\ MemoryInv
  BY DEF TokenInv, MemoryInv, Owner, Idle
<1>4. CheckpointExact
  BY DEF CheckpointExact, Succeeded
<1>5. ParentsFirst /\ EndedQuiet
  BY DEF ParentsFirst, EndedQuiet
<1> QED BY <1>1, <1>2, <1>3, <1>4, <1>5 DEF IInv

\* What a fenced step knows: the run is running, and the worker's memory is exact.
LEMMA FencedFacts ==
    ASSUME IInv, NEW w \in Workers, HoldsLease(w), wk[w].pc # "idle"
    PROVE  /\ run = "running" /\ job.status = "leased" /\ Owner(w)
           /\ wk[w].pc # "load" => wk[w].outputs = artifacts
           /\ \A v \in Workers : v # w => ~Owner(v)
<1>1. job.status = "leased" /\ job.token = wk[w].token
  BY DEF HoldsLease
<1>2. run = "running"
  BY <1>1 DEF IInv, RunMatchesJob
<1>3. \A v \in Workers : v # w => ~Owner(v)
  BY <1>1 DEF IInv, TokenInv, Owner
<1> QED BY <1>1, <1>2, <1>3 DEF IInv, MemoryInv, Owner

-----------------------------------------------------------------------------
(* One lemma per step; the steps that change nothing stored share one.      *)

\* No worker draws a token, and the job keeps its own.
LEMMA TokenKept ==
    ASSUME TokenInv, job' = job,
           \A v \in Workers : wk'[v].pc # "idle" => wk[v].pc # "idle" /\ wk'[v].token = wk[v].token
    PROVE  TokenInv'
BY DEF TokenInv

LEMMA ClaimInv ==
    ASSUME IInv, NEW w \in Workers, Claim(w) PROVE IInv'
<1> USE DataflowAssumption DEF Claim, Claimable
<1>1. job.attempt \in 0..MaxAttempts /\ job.attempt + 1 \in 1..MaxAttempts
  BY DEF IInv, TypeOK
<1>2. [Idle EXCEPT !.pc = "load", !.token = job.attempt + 1]
        \in [pc : WorkerStates, token : Tokens, node : Nodes, outputs : SUBSET Nodes]
  <2>1. job.attempt + 1 \in Tokens /\ "load" \in WorkerStates
    BY <1>1 DEF Tokens, WorkerStates
  <2> QED BY <2>1, IdleType
<1>3. wk' = [wk EXCEPT ![w] = [Idle EXCEPT !.pc = "load", !.token = job.attempt + 1]]
  OBVIOUS
<1>4. TypeOK'
  BY <1>1, <1>2, <1>3 DEF IInv, TypeOK, Tokens, WorkerStates
<1>5. /\ wk'[w].pc = "load" /\ wk'[w].token = job.attempt + 1
      /\ \A v \in Workers : v # w => wk'[v] = wk[v]
  BY <1>2, <1>3 DEF IInv, TypeOK, Idle
<1>6. job'.token = job.attempt + 1 /\ job'.attempt = job.attempt + 1 /\ job'.status = "leased"
  OBVIOUS
<1>7. TokenInv'
  <2>1. \A v \in Workers : v # w /\ wk'[v].pc # "idle" => wk'[v].token \in 1..job.attempt
    BY <1>5 DEF IInv, TokenInv
  <2>2. \A v \in Workers : wk'[v].pc # "idle" => wk'[v].token \in 1..job'.attempt
    BY <1>1, <1>5, <1>6, <2>1
  <2>3. \A v \in Workers : v # w /\ wk'[v].pc # "idle" => wk'[v].token # wk'[w].token
    BY <1>1, <1>5, <2>1
  <2>4. \A v, u \in Workers : v # u /\ wk'[v].pc # "idle" /\ wk'[u].pc # "idle" =>
            wk'[v].token # wk'[u].token
    BY <1>5, <2>3 DEF IInv, TokenInv
  <2> QED BY <1>6, <2>2, <2>4 DEF TokenInv
<1>8. \A v \in Workers : v # w => ~Owner(v)'
  BY <1>1, <1>5, <1>6 DEF IInv, TokenInv, Owner
<1>9. MemoryInv'
  BY <1>5, <1>8 DEF MemoryInv
<1>10. RunMatchesJob'
  BY <1>6 DEF RunMatchesJob
<1>11. CheckpointExact' /\ ParentsFirst' /\ EndedQuiet'
  BY DEF IInv, CheckpointExact, Succeeded, ParentsFirst, EndedQuiet
<1> QED BY <1>4, <1>7, <1>9, <1>10, <1>11 DEF IInv

\* A worker moves, or is forgotten, and nothing that is stored changes.
LEMMA QuietInv ==
    ASSUME IInv, NEW w \in Workers, UNCHANGED stored,
           used' \in [crashes : 0..MaxCrashes, stalls : 0..MaxStalls],
           NEW after \in [pc : WorkerStates, token : Tokens, node : Nodes, outputs : SUBSET Nodes],
           wk' = [wk EXCEPT ![w] = after],
           after.pc # "idle" => wk[w].pc # "idle" /\ after.token = wk[w].token,
           after.pc \notin {"idle", "load"} => after.outputs = artifacts
                                               \/ (wk[w].pc # "load" /\ after.outputs = wk[w].outputs)
    PROVE  IInv'
<1> USE DEF stored
<1>1. TypeOK'
  BY DEF IInv, TypeOK, WorkerStates
<1>2. wk'[w] = after /\ \A v \in Workers : v # w => wk'[v] = wk[v]
  BY DEF IInv, TypeOK
<1>3. TokenInv'
  BY <1>2 DEF IInv, TokenInv
<1>4. \A v \in Workers : Owner(v)' => Owner(v)
  BY <1>2 DEF Owner
<1>5. MemoryInv'
  <2> SUFFICES ASSUME NEW v \in Workers, Owner(v)', wk'[v].pc # "load"
               PROVE  wk'[v].outputs = artifacts
    BY DEF MemoryInv
  <2>1. CASE v # w
    BY <2>1, <1>2, <1>4 DEF IInv, MemoryInv
  <2>2. CASE v = w
    BY <2>2, <1>2, <1>4 DEF IInv, MemoryInv, Owner
  <2> QED BY <2>1, <2>2
<1>6. RunMatchesJob' /\ CheckpointExact' /\ ParentsFirst' /\ EndedQuiet'
  BY DEF IInv, RunMatchesJob, CheckpointExact, Succeeded, ParentsFirst, EndedQuiet
<1> QED BY <1>1, <1>3, <1>5, <1>6 DEF IInv

\* Moving a worker's point alone is such a step.
LEMMA GotoInv ==
    ASSUME IInv, NEW w \in Workers, NEW pc \in WorkerStates \ {"load"}, wk[w].pc \notin {"idle", "load"},
           Goto(w, pc), UNCHANGED <<stored, used>>
    PROVE  IInv'
<1> DEFINE after == [wk[w] EXCEPT !.pc = pc]
<1>1. /\ after \in [pc : WorkerStates, token : Tokens, node : Nodes, outputs : SUBSET Nodes]
      /\ after.token = wk[w].token /\ after.outputs = wk[w].outputs
      /\ used' \in [crashes : 0..MaxCrashes, stalls : 0..MaxStalls]
  BY DEF IInv, TypeOK, WorkerStates, stored
<1>2. wk' = [wk EXCEPT ![w] = after]
  BY DEF Goto, IInv, TypeOK
<1> HIDE DEF after
<1> QED BY <1>1, <1>2, QuietInv DEF stored

LEMMA DropInv ==
    ASSUME IInv, NEW w \in Workers, UNCHANGED stored, wk' = [wk EXCEPT ![w] = Idle],
           used' \in [crashes : 0..MaxCrashes, stalls : 0..MaxStalls]
    PROVE  IInv'
<1>1. Idle.pc = "idle"
  BY DEF Idle
<1> QED BY <1>1, IdleType, QuietInv

LEMMA RefusedInv ==
    ASSUME IInv, NEW w \in Workers, NEW pc \in WorkerStates \ {"load"}, wk[w].pc \notin {"idle", "load"},
           Refused(w, pc)
    PROVE  IInv'
<1>1. CASE job.status = "cancelled"
  <2>1. used' \in [crashes : 0..MaxCrashes, stalls : 0..MaxStalls]
    BY DEF IInv, TypeOK, Refused
  <2> QED BY <1>1, <2>1, DropInv DEF Refused, stored
<1>2. CASE job.status # "cancelled"
  BY <1>2, GotoInv DEF Refused, stored
<1> QED BY <1>1, <1>2

LEMMA LoadInv ==
    ASSUME IInv, NEW w \in Workers, Load(w) PROVE IInv'
<1> DEFINE after == [wk[w] EXCEPT !.pc = "start", !.outputs = Succeeded]
<1>1. Succeeded = artifacts /\ Succeeded \subseteq Nodes
  BY DEF IInv, CheckpointExact, TypeOK
<1>2. /\ after \in [pc : WorkerStates, token : Tokens, node : Nodes, outputs : SUBSET Nodes]
      /\ after.token = wk[w].token /\ after.outputs = artifacts
      /\ used' \in [crashes : 0..MaxCrashes, stalls : 0..MaxStalls] /\ wk[w].pc # "idle"
  BY <1>1 DEF IInv, TypeOK, WorkerStates, Load
<1>3. wk' = [wk EXCEPT ![w] = after]
  BY DEF Load, IInv, TypeOK
<1> HIDE DEF after
<1> QED BY <1>2, <1>3, QuietInv DEF stored, Load

LEMMA StartNodeInv ==
    ASSUME IInv, NEW w \in Workers, StartNode(w) PROVE IInv'
<1>1. CASE Refused(w, "handle")
  BY <1>1, RefusedInv DEF WorkerStates, StartNode
<1>2. ASSUME HoldsLease(w), UNCHANGED <<run, job, artifacts, checkpoint, used>>,
             NEW i \in Pending(w), \A k \in Pending(w) : i <= k,
             node' = [node EXCEPT ![Order[i]] = [status |-> "running", token |-> wk[w].token]],
             wk' = [wk EXCEPT ![w].pc = "compute", ![w].node = Order[i]]
      PROVE  IInv'
  <2>1. /\ run = "running" /\ wk[w].outputs = artifacts
        /\ i \in DOMAIN Order /\ Order[i] \in Nodes /\ Order[i] \notin artifacts
    BY <1>2, FencedFacts, OrderNodes DEF StartNode, Pending
  <2>2. TypeOK'
    <3>1. [status |-> "running", token |-> wk[w].token]
            \in [status : {"none", "running"} \cup Ended, token : Tokens]
      BY DEF IInv, TypeOK
    <3>2. node' \in [Nodes -> [status : {"none", "running"} \cup Ended, token : Tokens]]
      BY <1>2, <3>1 DEF IInv, TypeOK
    <3>3. wk' \in [Workers -> [pc : WorkerStates, token : Tokens, node : Nodes, outputs : SUBSET Nodes]]
      <4>1. wk[w] \in [pc : WorkerStates, token : Tokens, node : Nodes, outputs : SUBSET Nodes]
        BY DEF IInv, TypeOK, WorkerStates
      <4>2. [wk[w] EXCEPT !.pc = "compute", !.node = Order[i]]
              \in [pc : WorkerStates, token : Tokens, node : Nodes, outputs : SUBSET Nodes]
        BY <2>1, <4>1 DEF WorkerStates
      <4>3. wk' = [wk EXCEPT ![w] = [wk[w] EXCEPT !.pc = "compute", !.node = Order[i]]]
        BY <1>2 DEF IInv, TypeOK
      <4> QED BY <4>2, <4>3 DEF IInv, TypeOK, WorkerStates
    <3> QED BY <1>2, <3>2, <3>3 DEF IInv, TypeOK, WorkerStates
  <2>3. /\ wk'[w].pc = "compute" /\ wk'[w].token = wk[w].token /\ wk'[w].outputs = wk[w].outputs
        /\ wk[w].pc = "start" /\ \A v \in Workers : v # w => wk'[v] = wk[v]
    BY <1>2 DEF IInv, TypeOK, StartNode
  <2>4. TokenInv'
    BY <1>2, <2>3, TokenKept DEF IInv
  <2>5. MemoryInv'
    BY <1>2, <2>1, <2>3 DEF IInv, MemoryInv, Owner
  <2>6. /\ node'[Order[i]].status = "running"
        /\ \A n \in Nodes : n # Order[i] => node'[n] = node[n]
    BY <1>2, <2>1 DEF IInv, TypeOK
  <2>7. CheckpointExact'
    BY <1>2, <2>1, <2>6 DEF IInv, TypeOK, CheckpointExact, Succeeded
  <2>8. Parents[Order[i]] \subseteq artifacts
    <3> SUFFICES ASSUME NEW n \in Parents[Order[i]] PROVE n \in artifacts
      OBVIOUS
    <3>1. PICK k \in 1..(i - 1) : n = Order[k]
      BY <2>1, DataflowAssumption
    <3>2. i \in 1..Len(Order) /\ DOMAIN Order = 1..Len(Order) /\ Len(Order) \in Nat
      BY <2>1, DataflowAssumption
    <3>3. k \in DOMAIN Order /\ k < i /\ i \in Nat /\ k \in Nat
      BY <3>2
    <3>4. k \notin Pending(w)
      BY <3>3, <1>2
    <3> QED BY <3>1, <3>3, <3>4, <2>1 DEF Pending
  <2>9. ParentsFirst'
    BY <1>2, <2>6, <2>8 DEF IInv, ParentsFirst
  <2>10. RunMatchesJob' /\ EndedQuiet'
    BY <1>2, <2>1 DEF IInv, RunMatchesJob, EndedQuiet
  <2> QED BY <2>2, <2>4, <2>5, <2>7, <2>9, <2>10 DEF IInv
<1> QED BY <1>1, <1>2 DEF StartNode

LEMMA ComputeInv ==
    ASSUME IInv, NEW w \in Workers, Compute(w) PROVE IInv'
<1>1. PICK pc \in {"finish", "failnode"} : Goto(w, pc)
  BY DEF Compute
<1> QED BY <1>1, GotoInv DEF Compute, WorkerStates, stored

LEMMA FinishNodeInv ==
    ASSUME IInv, NEW w \in Workers, FinishNode(w) PROVE IInv'
<1> DEFINE n == wk[w].node
<1>1. CASE Refused(w, "failnode")
  BY <1>1, RefusedInv DEF WorkerStates, FinishNode
<1>2. CASE Goto(w, "failnode") /\ UNCHANGED <<artifacts, node, checkpoint, run, job, used>>
  BY <1>2, GotoInv DEF WorkerStates, FinishNode, stored
<1>3. ASSUME HoldsLease(w), UNCHANGED <<run, job, used>>,
             node[n].status = "running", n \notin artifacts, run = "running",
             artifacts' = artifacts \cup {n},
             node' = [node EXCEPT ![n].status = "success"],
             checkpoint' = wk[w].outputs \cup {n},
             wk' = [wk EXCEPT ![w].pc = "start", ![w].outputs = @ \cup {n}]
      PROVE  IInv'
  <2>1. /\ wk[w].outputs = artifacts /\ n \in Nodes
        /\ \A v \in Workers : v # w => ~Owner(v)
    BY <1>3, FencedFacts DEF FinishNode, IInv, TypeOK
  <2>2. TypeOK'
    BY <1>3, <2>1 DEF IInv, TypeOK, FinishNode, Ended
  <2>3. /\ wk'[w].token = wk[w].token /\ wk'[w].outputs = artifacts'
        /\ wk[w].pc = "finish" /\ wk'[w].pc = "start"
        /\ \A v \in Workers : v # w => wk'[v] = wk[v]
    BY <1>3, <2>1 DEF IInv, TypeOK, FinishNode
  <2>4. TokenInv'
    BY <1>3, <2>3, TokenKept DEF IInv
  <2>5. MemoryInv'
    BY <1>3, <2>1, <2>3 DEF MemoryInv, Owner
  <2>6. /\ node'[n].status = "success"
        /\ \A other \in Nodes : other # n => node'[other] = node[other]
    BY <1>3, <2>1 DEF IInv, TypeOK
  <2>7. CheckpointExact'
    BY <1>3, <2>1, <2>6 DEF IInv, TypeOK, CheckpointExact, Succeeded
  <2>8. ParentsFirst'
    BY <1>3, <2>6 DEF IInv, ParentsFirst
  <2>9. RunMatchesJob' /\ EndedQuiet'
    BY <1>3 DEF IInv, RunMatchesJob, EndedQuiet
  <2> QED BY <2>2, <2>4, <2>5, <2>7, <2>8, <2>9 DEF IInv
<1> QED BY <1>1, <1>2, <1>3 DEF FinishNode

LEMMA FailNodeInv ==
    ASSUME IInv, NEW w \in Workers, FailNode(w) PROVE IInv'
<1> DEFINE n == wk[w].node
<1>1. CASE Refused(w, "handle")
  BY <1>1, RefusedInv DEF WorkerStates, FailNode
<1>2. CASE Goto(w, "handle") /\ UNCHANGED <<run, job, artifacts, checkpoint, used, node>>
  BY <1>2, GotoInv DEF WorkerStates, FailNode, stored
<1>3. ASSUME HoldsLease(w), UNCHANGED <<run, job, artifacts, checkpoint, used>>,
             node[n].status = "running", node' = [node EXCEPT ![n].status = "failed"],
             Goto(w, "handle")
      PROVE  IInv'
  <2>1. run = "running" /\ n \in Nodes /\ wk[w].pc = "failnode"
    BY <1>3, FencedFacts DEF FailNode, IInv, TypeOK
  <2>2. TypeOK'
    <3>1. node' \in [Nodes -> [status : {"none", "running"} \cup Ended, token : Tokens]]
      BY <1>3, <2>1 DEF IInv, TypeOK, Ended
    <3>2. wk' \in [Workers -> [pc : WorkerStates, token : Tokens, node : Nodes, outputs : SUBSET Nodes]]
      BY <1>3 DEF IInv, TypeOK, Goto, WorkerStates
    <3> QED BY <1>3, <3>1, <3>2 DEF IInv, TypeOK, WorkerStates
  <2>3. /\ wk'[w].token = wk[w].token /\ wk'[w].outputs = wk[w].outputs /\ wk'[w].pc = "handle"
        /\ \A v \in Workers : v # w => wk'[v] = wk[v]
    BY <1>3 DEF IInv, TypeOK, Goto
  <2>4. TokenInv'
    BY <1>3, <2>1, <2>3, TokenKept DEF IInv
  <2>5. MemoryInv'
    BY <1>3, <2>1, <2>3 DEF IInv, MemoryInv, Owner
  <2>6. /\ node'[n].status = "failed"
        /\ \A other \in Nodes : other # n => node'[other] = node[other]
    BY <1>3, <2>1 DEF IInv, TypeOK
  <2>7. CheckpointExact'
    BY <1>3, <2>1, <2>6 DEF IInv, TypeOK, CheckpointExact, Succeeded
  <2>8. ParentsFirst'
    BY <1>3, <2>6 DEF IInv, ParentsFirst
  <2>9. RunMatchesJob' /\ EndedQuiet'
    BY <1>3, <2>1 DEF IInv, RunMatchesJob, EndedQuiet
  <2> QED BY <2>2, <2>4, <2>5, <2>7, <2>8, <2>9 DEF IInv
<1> QED BY <1>1, <1>2, <1>3 DEF FailNode

\* Job and run end together, or go back to the queue together, and nobody holds the lease.
LEMMA ReleaseInv ==
    ASSUME IInv, NEW status \in {"queued", "completed", "failed", "cancelled"},
           NEW after \in {"queued"} \cup Ended,
           job' = Release(status), run' = after, UNCHANGED <<artifacts, checkpoint, used>>,
           <<status, after>> \in {<<"queued", "queued">>, <<"completed", "success">>,
                                  <<"failed", "failed">>, <<"cancelled", "cancelled">>},
           wk' = wk \/ \E w \in Workers : wk' = [wk EXCEPT ![w] = Idle],
           node' = node \/ node' = StopNodes(node),
           after \in {"success", "cancelled"} => \A n \in Nodes : node'[n].status # "running"
    PROVE  IInv'
<1>1. /\ job'.status = status /\ job'.attempt = job.attempt
      /\ job' \in [status : {"queued", "leased", "completed", "failed", "cancelled"},
                   attempt : 0..MaxAttempts, token : Tokens, valid : BOOLEAN]
  <2>1. NoToken \in Tokens
    BY DataflowAssumption DEF Tokens, NoToken
  <2>2. job \in [status : {"queued", "leased", "completed", "failed", "cancelled"},
                attempt : 0..MaxAttempts, token : Tokens, valid : BOOLEAN]
    BY DEF IInv, TypeOK
  <2> QED BY <2>1, <2>2 DEF Release
<1>2. /\ node' \in [Nodes -> [status : {"none", "running"} \cup Ended, token : Tokens]]
      /\ \A n \in Nodes : /\ node'[n].status = "success" <=> node[n].status = "success"
                          /\ node'[n].status = "none" <=> node[n].status = "none"
  <2>1. CASE node' = node
    BY <2>1 DEF IInv, TypeOK
  <2>2. CASE node' = StopNodes(node)
    <3>1. ASSUME NEW n \in Nodes
          PROVE  /\ node'[n] \in [status : {"none", "running"} \cup Ended, token : Tokens]
                 /\ node'[n].status = "success" <=> node[n].status = "success"
                 /\ node'[n].status = "none" <=> node[n].status = "none"
      <4>1. node[n] \in [status : {"none", "running"} \cup Ended, token : Tokens]
        BY DEF IInv, TypeOK
      <4>2. node'[n] = IF node[n].status = "running"
                       THEN [node[n] EXCEPT !.status = "cancelled"] ELSE node[n]
        BY <2>2 DEF StopNodes
      <4> QED BY <4>1, <4>2 DEF Ended
    <3> QED BY <2>2, <3>1 DEF StopNodes
  <2> QED BY <2>1, <2>2
<1>3. /\ wk' \in [Workers -> [pc : WorkerStates, token : Tokens, node : Nodes, outputs : SUBSET Nodes]]
      /\ \A w \in Workers : wk'[w] = wk[w] \/ wk'[w].pc = "idle"
  <2>1. CASE wk' = wk
    BY <2>1 DEF IInv, TypeOK, WorkerStates
  <2>2. ASSUME NEW w \in Workers, wk' = [wk EXCEPT ![w] = Idle]
        PROVE  <1>3!1 /\ <1>3!2
    BY <2>2, IdleType DEF IInv, TypeOK, WorkerStates, Idle
  <2> QED BY <2>1, <2>2
<1>4. TypeOK'
  BY <1>1, <1>2, <1>3 DEF IInv, TypeOK, WorkerStates
<1>5. TokenInv' /\ MemoryInv'
  BY <1>1, <1>3 DEF IInv, TokenInv, MemoryInv, Owner
<1>6. CheckpointExact' /\ ParentsFirst'
  BY <1>2 DEF IInv, CheckpointExact, Succeeded, ParentsFirst, TypeOK
<1>7. RunMatchesJob' /\ EndedQuiet'
  BY <1>1 DEF RunMatchesJob, EndedQuiet
<1> QED BY <1>4, <1>5, <1>6, <1>7 DEF IInv

LEMMA CompleteInv ==
    ASSUME IInv, NEW w \in Workers, Complete(w) PROVE IInv'
<1>1. CASE Refused(w, "handle")
  BY <1>1, RefusedInv DEF WorkerStates, Complete
<1>2. ASSUME HoldsLease(w), job' = Release("completed"), run' = "success",
             wk' = [wk EXCEPT ![w] = Idle], UNCHANGED <<node, artifacts, checkpoint, used>>
      PROVE  IInv'
  <2>1. wk[w].outputs = artifacts
    BY <1>2, FencedFacts DEF Complete
  <2>2. \A n \in Nodes : n \in artifacts
    BY <2>1 DEF Nodes, Complete, Pending
  <2>3. \A n \in Nodes : node'[n].status # "running"
    BY <1>2, <2>2 DEF IInv, CheckpointExact, Succeeded
  <2> QED BY <1>2, <2>3, ReleaseInv DEF Ended
<1> QED BY <1>1, <1>2 DEF Complete

LEMMA HandleFailureInv ==
    ASSUME IInv, NEW w \in Workers, HandleFailure(w) PROVE IInv'
<1>1. CASE HoldsLease(w)
  <2>1. PICK outcome \in {"queued", "failed"} : job' = Release(outcome) /\ run' = outcome
    BY <1>1 DEF HandleFailure
  <2>2. wk' = [wk EXCEPT ![w] = Idle] /\ UNCHANGED <<node, artifacts, checkpoint, used>>
    BY DEF HandleFailure
  <2> QED BY <2>1, <2>2, ReleaseInv DEF Ended
<1>2. CASE ~HoldsLease(w)
  <2>1. used' \in [crashes : 0..MaxCrashes, stalls : 0..MaxStalls]
    BY DEF IInv, TypeOK, HandleFailure
  <2> QED BY <1>2, <2>1, DropInv DEF HandleFailure, stored
<1> QED BY <1>1, <1>2

LEMMA CancelInv ==
    ASSUME IInv, Cancel PROVE IInv'
<1>1. \A n \in Nodes : node'[n].status # "running"
  <2> SUFFICES ASSUME NEW n \in Nodes PROVE node'[n].status # "running"
    OBVIOUS
  <2>1. node[n] \in [status : {"none", "running"} \cup Ended, token : Tokens]
    BY DEF IInv, TypeOK
  <2> QED BY <2>1 DEF Cancel, StopNodes
<1>2. /\ job' = Release("cancelled") /\ run' = "cancelled" /\ node' = StopNodes(node) /\ wk' = wk
      /\ UNCHANGED <<artifacts, checkpoint, used>>
  BY DEF Cancel
<1> QED BY <1>1, <1>2, ReleaseInv DEF Ended

\* Only whether the lease is valid changes.
LEMMA ValidityInv ==
    ASSUME IInv, NEW valid \in BOOLEAN, job' = [job EXCEPT !.valid = valid],
           UNCHANGED <<run, node, artifacts, checkpoint, wk>>,
           used' \in [crashes : 0..MaxCrashes, stalls : 0..MaxStalls]
    PROVE  IInv'
<1>1. /\ job'.status = job.status /\ job'.attempt = job.attempt /\ job'.token = job.token
      /\ job' \in [status : {"queued", "leased", "completed", "failed", "cancelled"},
                   attempt : 0..MaxAttempts, token : Tokens, valid : BOOLEAN]
  BY DEF IInv, TypeOK
<1>2. TypeOK'
  BY <1>1 DEF IInv, TypeOK
<1>3. TokenInv' /\ MemoryInv' /\ RunMatchesJob'
  BY <1>1 DEF IInv, TokenInv, MemoryInv, RunMatchesJob, Owner
<1>4. CheckpointExact' /\ ParentsFirst' /\ EndedQuiet'
  BY DEF IInv, CheckpointExact, Succeeded, ParentsFirst, EndedQuiet
<1> QED BY <1>2, <1>3, <1>4 DEF IInv

LEMMA LeaseInv ==
    ASSUME IInv, (\E w \in Workers : Renew(w) \/ Crash(w)) \/ Stall \/ Lapse PROVE IInv'
<1> USE DataflowAssumption
<1>1. ASSUME NEW w \in Workers, Renew(w) PROVE IInv'
  <2>1. used' \in [crashes : 0..MaxCrashes, stalls : 0..MaxStalls]
    BY <1>1 DEF IInv, TypeOK, Renew
  <2> QED BY <1>1, <2>1, ValidityInv DEF Renew
<1>2. ASSUME NEW w \in Workers, Crash(w) PROVE IInv'
  <2>1. used' \in [crashes : 0..MaxCrashes, stalls : 0..MaxStalls]
    BY <1>2 DEF IInv, TypeOK, Crash
  <2> QED BY <1>2, <2>1, DropInv DEF Crash, stored
<1>3. CASE Stall
  <2>1. used' \in [crashes : 0..MaxCrashes, stalls : 0..MaxStalls]
    BY <1>3 DEF IInv, TypeOK, Stall
  <2> QED BY <1>3, <2>1, ValidityInv DEF Stall
<1>4. CASE Lapse
  <2>1. used' \in [crashes : 0..MaxCrashes, stalls : 0..MaxStalls]
    BY <1>4 DEF IInv, TypeOK, Lapse
  <2> QED BY <1>4, <2>1, ValidityInv DEF Lapse
<1> QED BY <1>1, <1>2, <1>3, <1>4

LEMMA StutterInv ==
    ASSUME IInv, UNCHANGED vars PROVE IInv'
BY DEF IInv, vars, TypeOK, RunMatchesJob, TokenInv, MemoryInv, Owner, CheckpointExact,
       Succeeded, ParentsFirst, EndedQuiet

LEMMA NextInv == IInv /\ [Next]_vars => IInv'
<1> SUFFICES ASSUME IInv, [Next]_vars PROVE IInv'
  OBVIOUS
<1>1. ASSUME NEW w \in Workers, Claim(w) PROVE IInv'
  BY <1>1, ClaimInv
<1>2. ASSUME NEW w \in Workers, Step(w) PROVE IInv'
  BY <1>2, LoadInv, StartNodeInv, ComputeInv, FinishNodeInv, FailNodeInv, CompleteInv,
     HandleFailureInv DEF Step
<1>3. CASE UNCHANGED vars
  BY <1>3, StutterInv
<1> QED BY <1>1, <1>2, <1>3, LeaseInv, CancelInv DEF Next

-----------------------------------------------------------------------------
\* The invariant is inductive.
THEOREM InductiveInvariant == Spec => []IInv
<1>1. Init => IInv
  BY InitInv
<1>2. IInv /\ [Next]_vars => IInv'
  BY NextInv
<1> QED BY <1>1, <1>2, PTL DEF Spec

\* Every variable keeps its type (the tables' columns and the worker's locals).
THEOREM TypeCorrect == Spec => []TypeOK
<1>1. IInv => TypeOK
  BY DEF IInv
<1> QED BY <1>1, InductiveInvariant, PTL

\* A job and its run never disagree (every transaction that moves one moves the other), so
\* that cancelDataflowRun never refuses a run for an inconsistent job.
THEOREM JobAndRunAgree == Spec => []RunMatchesJob
<1>1. IInv => RunMatchesJob
  BY DEF IInv
<1> QED BY <1>1, InductiveInvariant, PTL

\* The checkpoint each attempt writes from its own memory is exactly what has been published,
\* whichever attempt published it (runDataflowDefinition, loadDataflowCheckpoint).
THEOREM ResumesExactly == Spec => []CheckpointExact
<1>1. IInv => CheckpointExact
  BY DEF IInv
<1> QED BY <1>1, InductiveInvariant, PTL

\* No node is executed before all it reads is published (runDataflowDefinition).
THEOREM ParentsComeFirst == Spec => []ParentsFirst
<1>1. IInv => ParentsFirst
  BY DEF IInv
<1> QED BY <1>1, InductiveInvariant, PTL

\* No node is left executing in a run that succeeded or was cancelled (cancelDataflowRun).
THEOREM NothingRunsAfterTheEnd == Spec => []EndedQuiet
<1>1. IInv => EndedQuiet
  BY DEF IInv
<1> QED BY <1>1, InductiveInvariant, PTL

LEMMA EndedStep ==
    ASSUME IInv, [Next]_vars, run \in Ended PROVE UNCHANGED stored
<1>1. job.status \notin {"queued", "leased"}
  BY DEF IInv, RunMatchesJob, Ended
<1>2. \A w \in Workers : ~HoldsLease(w)
  BY <1>1 DEF HoldsLease
<1>3. ASSUME NEW w \in Workers, Step(w) PROVE UNCHANGED stored
  BY <1>2, <1>3 DEF Step, Load, StartNode, Compute, FinishNode, FailNode, Complete,
     HandleFailure, Refused, stored
<1>4. ASSUME NEW w \in Workers, Claim(w) \/ Renew(w) \/ Crash(w) PROVE UNCHANGED stored
  BY <1>1, <1>4 DEF Claim, Claimable, Renew, Crash, stored
<1>5. CASE Stall \/ Lapse \/ Cancel
  BY <1>1, <1>5 DEF Stall, Lapse, Cancel
<1>6. CASE UNCHANGED vars
  BY <1>6 DEF vars, stored
<1> QED BY <1>3, <1>4, <1>5, <1>6 DEF Next

\* Nothing of a run that has ended is written again, whatever its former workers still do.
THEOREM EndIsFinal == Spec => EndedFrozen
<1>1. IInv /\ [Next]_vars => [(run \in Ended) => UNCHANGED stored]_vars
  BY EndedStep
<1> QED BY <1>1, InductiveInvariant, PTL DEF Spec, EndedFrozen

LEMMA PublishedStep ==
    ASSUME IInv, [Next]_vars, NEW n \in artifacts PROVE n \in artifacts' /\ node'[n] = node[n]
<1>1. n \in Nodes /\ node[n].status = "success"
  BY DEF IInv, TypeOK, CheckpointExact, Succeeded
<1>2. ASSUME NEW w \in Workers, StartNode(w) PROVE n \in artifacts' /\ node'[n] = node[n]
  <2>1. CASE Refused(w, "handle")
    BY <2>1 DEF Refused
  <2>2. ASSUME HoldsLease(w), UNCHANGED artifacts, NEW i \in Pending(w),
               node' = [node EXCEPT ![Order[i]] = [status |-> "running", token |-> wk[w].token]]
        PROVE  n \in artifacts' /\ node'[n] = node[n]
    <3>1. Order[i] # n
      BY <1>2, <2>2, FencedFacts DEF StartNode, Pending
    <3> QED BY <1>1, <2>2, <3>1 DEF IInv, TypeOK
  <2> QED BY <1>2, <2>1, <2>2 DEF StartNode
<1>3. ASSUME NEW w \in Workers, FinishNode(w) \/ FailNode(w)
      PROVE  n \in artifacts' /\ node'[n] = node[n]
  BY <1>1, <1>3 DEF FinishNode, FailNode, Refused, IInv, TypeOK
<1>4. ASSUME NEW w \in Workers,
             Claim(w) \/ Load(w) \/ Compute(w) \/ Complete(w) \/ HandleFailure(w) \/ Renew(w) \/ Crash(w)
      PROVE  n \in artifacts' /\ node'[n] = node[n]
  BY <1>4 DEF Claim, Load, Compute, Complete, HandleFailure, Renew, Crash, Refused
<1>5. CASE Stall \/ Lapse \/ UNCHANGED vars
  BY <1>5 DEF Stall, Lapse, vars
<1>6. CASE Cancel
  BY <1>1, <1>6 DEF Cancel, StopNodes
<1> QED BY <1>2, <1>3, <1>4, <1>5, <1>6 DEF Next, Step

\* What one attempt published no later attempt touches (startNode and finishNode in
\* runDataflowDefinition).
THEOREM PublishedOnce == Spec => ArtifactsFinal
<1>1. IInv /\ [Next]_vars => [\A n \in artifacts : n \in artifacts' /\ node'[n] = node[n]]_vars
  BY PublishedStep
<1> QED BY <1>1, InductiveInvariant, PTL DEF Spec, ArtifactsFinal

(***************************************************************************)
(* The schedule.  What relates a server's old reading to the present       *)
(* schedule is time: the instant of an active schedule lies after every    *)
(* admission, because it was computed from the clock at or after the last  *)
(* one (TimeInv), and a pause moves the revision past every bucket paused  *)
(* before (PausedInv).                                                     *)
(***************************************************************************)

\* A scheduled run was admitted when its instant had come; the instant of an active schedule
\* lies after all of that.
TimeInv ==
    /\ \A i \in DOMAIN runs : runs[i].at <= clock
    /\ \A i \in Scheduled : runs[i].due <= runs[i].at
    /\ schedule.status = "active" => \A i \in Scheduled : runs[i].at < schedule.next

PausedInv == \A b \in paused : b.revision \in Nat /\ b.revision < schedule.revision

ScheduleInv ==
    /\ ScheduleTypeOK /\ TimeInv /\ PausedInv
    /\ OncePerInstant /\ RunOrPaused /\ ArchivedQuiet

Schedules == [status : {"none", "paused", "active", "deleted"}, revision : Nat,
              cron : Crons, next : Nat \cup {Never}]
Rows == [revision : Nat, due : Nat \cup {Never}, at : Instants]
Scans == [pc : {"idle", "admit", "failed"}, revision : Nat, due : Nat \cup {Never}]

-----------------------------------------------------------------------------
\* The instant computed lies after the one it is computed from.
LEMMA NextInstantLater ==
    ASSUME NEW cron \in Crons, NEW after \in Instants
    PROVE  NextInstant(cron, after) \in Nat /\ NextInstant(cron, after) > after
<1>1. \E t \in cron : t > after /\ \A s \in cron : s > after => t <= s
  BY ScheduleAssumption
<1>2. NextInstant(cron, after) \in cron /\ NextInstant(cron, after) > after
  BY <1>1 DEF NextInstant
<1> QED BY <1>2, ScheduleAssumption

\* Times are natural numbers, and an admission is not in the future.
LEMMA TimeFacts ==
    ASSUME ScheduleInv
    PROVE  /\ clock \in Nat
           /\ \A i \in DOMAIN runs : runs[i] \in Rows /\ runs[i].at \in Nat /\ runs[i].at <= clock
<1>1. Instants \subseteq Nat
  BY ScheduleAssumption DEF Instants
<1>2. \A i \in DOMAIN runs : runs[i] \in Rows
  <2>1. runs \in Seq(Rows)
    BY DEF ScheduleInv, ScheduleTypeOK, Rows
  <2> QED BY <2>1
<1>3. \A i \in DOMAIN runs : runs[i].at \in Nat
  BY <1>1, <1>2 DEF Rows
<1> QED BY <1>1, <1>2, <1>3 DEF ScheduleInv, ScheduleTypeOK, TimeInv

LEMMA ScheduleInitInv == ScheduleInit => ScheduleInv
<1> SUFFICES ASSUME ScheduleInit PROVE ScheduleInv
  OBVIOUS
<1>1. PICK cron \in Crons :
         schedule = [status |-> "none", revision |-> 0, cron |-> cron, next |-> Never]
  BY DEF ScheduleInit
<1>2. schedule \in Schedules
  BY <1>1 DEF Schedules
<1>3. scan \in [Servers -> Scans]
  BY DEF ScheduleInit, NoScan, Scans
<1>4. clock \in Instants /\ runs \in Seq(Rows) /\ DOMAIN runs = {} /\ Scheduled = {}
  BY ScheduleAssumption DEF ScheduleInit, Instants, Scheduled
<1>5. ScheduleTypeOK
  BY <1>2, <1>3, <1>4 DEF ScheduleInit, ScheduleTypeOK, Schedules, Scans, Rows
<1>6. TimeInv /\ PausedInv
  BY <1>1, <1>4 DEF ScheduleInit, TimeInv, PausedInv
<1>7. OncePerInstant /\ RunOrPaused /\ ArchivedQuiet
  BY <1>4 DEF ScheduleInit, OncePerInstant, RunOrPaused, ArchivedQuiet
<1> QED BY <1>5, <1>6, <1>7 DEF ScheduleInv

-----------------------------------------------------------------------------
\* The schedule is revised; the new instant, if there is one, lies after the clock.
LEMMA RevisedInv ==
    ASSUME ScheduleInv, NEW status \in {"paused", "active", "deleted"}, NEW cron \in Crons,
           NEW next \in Nat \cup {Never}, Revised(status, cron, next),
           status = "active" => flow # "archived" /\ next > clock
    PROVE  ScheduleInv'
<1>1. /\ schedule' \in Schedules /\ schedule'.revision = schedule.revision + 1
      /\ schedule'.status = status /\ schedule'.next = next /\ schedule.revision \in Nat
  BY DEF Revised, Schedules, ScheduleInv, ScheduleTypeOK
<1>2. UNCHANGED <<flow, project, owner, clock, scan, runs, open, paused>>
  BY DEF Revised
<1>3. ScheduleTypeOK'
  BY <1>1, <1>2 DEF ScheduleInv, ScheduleTypeOK, Schedules
<1>4. clock \in Nat /\ \A i \in Scheduled : runs[i].at \in Nat /\ runs[i].at <= clock
  BY TimeFacts DEF Scheduled
<1>5. Scheduled' = Scheduled
  BY <1>2 DEF Scheduled
<1>6. TimeInv'
  <2>1. status = "active" => \A i \in Scheduled : runs[i].at < next
    BY <1>4
  <2> QED BY <1>1, <1>2, <1>5, <2>1 DEF ScheduleInv, TimeInv
<1>7. PausedInv'
  <2>1. \A b \in paused : b.revision \in Nat /\ b.revision < schedule.revision + 1
    BY <1>1 DEF ScheduleInv, PausedInv
  <2> QED BY <1>1, <1>2, <2>1 DEF PausedInv
<1>8. OncePerInstant' /\ RunOrPaused'
  BY <1>2, <1>5 DEF ScheduleInv, OncePerInstant, RunOrPaused
<1>9. ArchivedQuiet'
  BY <1>1, <1>2 DEF ScheduleInv, ArchivedQuiet
<1> QED BY <1>3, <1>6, <1>7, <1>8, <1>9 DEF ScheduleInv

LEMMA PeopleInv ==
    ASSUME ScheduleInv, (\E cron \in Crons : Save(cron)) \/ Activate \/ Pause \/ Delete PROVE ScheduleInv'
<1>1. schedule.cron \in Crons /\ clock \in Instants /\ Never \in Nat \cup {Never}
  BY DEF ScheduleInv, ScheduleTypeOK
<1>2. ASSUME NEW cron \in Crons, Save(cron) PROVE ScheduleInv'
  BY <1>1, <1>2, RevisedInv DEF Save
<1>3. CASE Activate
  <2>1. NextInstant(schedule.cron, clock) \in Nat /\ NextInstant(schedule.cron, clock) > clock
    BY <1>1, NextInstantLater
  <2>2. flow # "archived" /\ Revised("active", schedule.cron, NextInstant(schedule.cron, clock))
    BY <1>3 DEF Activate
  <2> QED BY <1>1, <2>1, <2>2, RevisedInv
<1>4. CASE Pause \/ Delete
  BY <1>1, <1>4, RevisedInv DEF Pause, Delete, Withdraw
<1> QED BY <1>2, <1>3, <1>4

\* A step that leaves schedule, flow, project and runs alone.
LEMMA QuietScheduleInv ==
    ASSUME ScheduleInv, UNCHANGED <<schedule, flow, project, runs, paused>>,
           owner' \in {"active", "inactive"}, clock' \in Instants, clock' >= clock,
           scan' \in [Servers -> Scans], open' \subseteq open
    PROVE  ScheduleInv'
<1>1. ScheduleTypeOK'
  BY DEF ScheduleInv, ScheduleTypeOK, Scans
<1>2. Scheduled' = Scheduled
  BY DEF Scheduled
<1>3. \A i \in DOMAIN runs : runs[i].at <= clock'
  <2>1. clock' \in Nat
    BY ScheduleAssumption DEF Instants
  <2> QED BY <2>1, TimeFacts
<1>4. TimeInv' /\ PausedInv'
  BY <1>2, <1>3 DEF ScheduleInv, TimeInv, PausedInv
<1>5. OncePerInstant' /\ RunOrPaused' /\ ArchivedQuiet'
  BY <1>2 DEF ScheduleInv, OncePerInstant, RunOrPaused, ArchivedQuiet
<1> QED BY <1>1, <1>4, <1>5 DEF ScheduleInv

LEMMA SettleType ==
    ASSUME ScheduleInv, NEW v \in Servers, NEW pc \in {"idle", "failed"}, Settle(v, pc)
    PROVE  scan' \in [Servers -> Scans]
<1>1. scan \in [Servers -> Scans]
  BY DEF ScheduleInv, ScheduleTypeOK, Scans
<1>2. NoScan \in Scans
  BY DEF NoScan, Scans
<1>3. [scan[v] EXCEPT !.pc = pc] \in Scans
  BY <1>1 DEF Scans
<1> QED BY <1>1, <1>2, <1>3 DEF Settle

LEMMA ServerInv ==
    ASSUME ScheduleInv, NEW v \in Servers,
           Scan(v) \/ Superseded(v) \/ Reject(v) \/ Defer(v) \/ ServerDies(v)
    PROVE  ScheduleInv'
<1>1. UNCHANGED <<schedule, flow, project, owner, clock, runs, open, paused>>
  BY DEF Scan, Superseded, Reject, Defer, ServerDies
<1>2. scan' \in [Servers -> Scans]
  <2>1. CASE Scan(v)
    <3>1. [pc |-> "admit", revision |-> schedule.revision, due |-> schedule.next] \in Scans
      BY DEF ScheduleInv, ScheduleTypeOK, Scans
    <3> QED BY <2>1, <3>1 DEF Scan, ScheduleInv, ScheduleTypeOK, Scans
  <2>2. CASE Superseded(v) \/ Reject(v) \/ Defer(v) \/ ServerDies(v)
    BY <2>2, SettleType DEF Superseded, Reject, Defer, ServerDies
  <2> QED BY <2>1, <2>2
<1>3. clock' \in Instants /\ clock' >= clock /\ owner' \in {"active", "inactive"}
  BY <1>1, TimeFacts DEF ScheduleInv, ScheduleTypeOK
<1> QED BY <1>1, <1>2, <1>3, QuietScheduleInv

\* A run is appended: what the earlier rows say stays.
LEMMA AppendFacts ==
    ASSUME ScheduleInv, NEW row \in Rows, runs' = Append(runs, row)
    PROVE  /\ runs' \in Seq(Rows) /\ DOMAIN runs' = DOMAIN runs \cup {Len(runs) + 1}
           /\ runs'[Len(runs) + 1] = row /\ Len(runs) + 1 \notin DOMAIN runs
           /\ \A i \in DOMAIN runs : runs'[i] = runs[i] /\ i < Len(runs) + 1
           /\ \A i \in DOMAIN runs : i \in Scheduled' <=> i \in Scheduled
           /\ Len(runs) + 1 \in Scheduled' <=> row.revision # 0
           /\ Scheduled' \subseteq DOMAIN runs \cup {Len(runs) + 1}
           /\ DOMAIN runs \subseteq Nat /\ Len(runs) + 1 \in Nat
<1>1. runs \in Seq(Rows)
  BY DEF ScheduleInv, ScheduleTypeOK, Rows
<1>2. /\ runs' \in Seq(Rows) /\ DOMAIN runs' = DOMAIN runs \cup {Len(runs) + 1}
      /\ runs'[Len(runs) + 1] = row /\ Len(runs) + 1 \notin DOMAIN runs
      /\ \A i \in DOMAIN runs : runs'[i] = runs[i] /\ i < Len(runs) + 1
      /\ DOMAIN runs \subseteq Nat /\ Len(runs) + 1 \in Nat
  BY <1>1
<1> QED BY <1>2 DEF Scheduled

LEMMA StartManuallyInv ==
    ASSUME ScheduleInv, StartManually PROVE ScheduleInv'
<1> DEFINE row == [Manual EXCEPT !.at = clock]
<1>1. row \in Rows /\ row.revision = 0 /\ row.at = clock
  BY DEF Manual, Rows, ScheduleInv, ScheduleTypeOK
<1>2. runs' = Append(runs, row) /\ UNCHANGED <<schedule, flow, project, owner, clock, scan, paused>>
  BY DEF StartManually
<1> HIDE DEF row
<1>3. /\ runs' \in Seq(Rows) /\ DOMAIN runs' = DOMAIN runs \cup {Len(runs) + 1}
      /\ runs'[Len(runs) + 1] = row /\ \A i \in DOMAIN runs : runs'[i] = runs[i]
      /\ Scheduled' = Scheduled
  BY <1>1, <1>2, AppendFacts DEF Scheduled
<1>4. open' = open \cup {Len(runs) + 1} /\ flow # "archived"
  BY DEF StartManually
<1>5. ScheduleTypeOK'
  BY <1>2, <1>3, <1>4 DEF ScheduleInv, ScheduleTypeOK, Rows
<1>6. \A i \in DOMAIN runs' : runs'[i].at <= clock
  BY <1>1, <1>3, TimeFacts
<1>7. TimeInv' /\ PausedInv'
  BY <1>2, <1>3, <1>6 DEF ScheduleInv, TimeInv, PausedInv, Scheduled
<1>8. OncePerInstant' /\ RunOrPaused'
  BY <1>2, <1>3 DEF ScheduleInv, OncePerInstant, RunOrPaused, Scheduled
<1>9. ArchivedQuiet'
  BY <1>2, <1>4 DEF ScheduleInv, ArchivedQuiet
<1> QED BY <1>5, <1>7, <1>8, <1>9 DEF ScheduleInv

\* The run admitted is for the present instant, which has come and lies after all earlier
\* admissions; the next one lies after this admission.
LEMMA AdmitInv ==
    ASSUME ScheduleInv, NEW v \in Servers, Admit(v) PROVE ScheduleInv'
<1> DEFINE row == [revision |-> scan[v].revision, due |-> scan[v].due, at |-> clock]
           last == Len(runs) + 1
<1>1. /\ schedule.status = "active" /\ schedule.next <= clock /\ flow = "published"
      /\ schedule.revision = scan[v].revision /\ schedule.next = scan[v].due
  BY DEF Admit, Runnable, StillDue
<1>2. /\ row \in Rows /\ row.at = clock
      /\ row.revision = schedule.revision /\ row.due = schedule.next
  BY <1>1 DEF Rows, ScheduleInv, ScheduleTypeOK
<1>3. /\ runs' = Append(runs, row) /\ open' = open \cup {last}
      /\ schedule' = [schedule EXCEPT !.next = Following]
      /\ UNCHANGED <<flow, project, owner, clock, paused>>
  BY DEF Admit
<1>4. Following \in Nat /\ Following > clock
  BY NextInstantLater DEF Following, ScheduleInv, ScheduleTypeOK
<1>5. /\ schedule' \in Schedules /\ schedule'.next = Following /\ schedule'.status = "active"
      /\ schedule'.revision = schedule.revision
  BY <1>1, <1>3, <1>4 DEF ScheduleInv, ScheduleTypeOK, Schedules
<1>6. scan' \in [Servers -> Scans]
  BY SettleType DEF Admit
<1> HIDE DEF row, last
<1>7. /\ runs' \in Seq(Rows) /\ DOMAIN runs' = DOMAIN runs \cup {last} /\ runs'[last] = row
      /\ last \notin DOMAIN runs
      /\ \A i \in DOMAIN runs : runs'[i] = runs[i] /\ i < last
      /\ \A i \in Scheduled' : i \in Scheduled \/ i = last
      /\ Scheduled \subseteq DOMAIN runs /\ DOMAIN runs \subseteq Nat /\ last \in Nat
  BY <1>2, <1>3, AppendFacts DEF Scheduled, last
<1>8. ScheduleTypeOK'
  BY <1>3, <1>5, <1>6, <1>7 DEF ScheduleInv, ScheduleTypeOK, Rows, Scans, Schedules
<1>9. \A i \in DOMAIN runs' : runs'[i].at <= clock
  BY <1>2, <1>7, TimeFacts
<1>10. \A i \in Scheduled' : runs'[i].due <= runs'[i].at /\ runs'[i].at < Following
  <2> SUFFICES ASSUME NEW i \in Scheduled'
               PROVE  runs'[i].due <= runs'[i].at /\ runs'[i].at < Following
    OBVIOUS
  <2>1. CASE i \in Scheduled
    BY <2>1, <1>4, <1>7, TimeFacts DEF ScheduleInv, TimeInv
  <2>2. CASE i = last
    BY <2>2, <1>1, <1>2, <1>4, <1>7, TimeFacts
  <2> QED BY <2>1, <2>2, <1>7
<1>11. TimeInv'
  BY <1>3, <1>5, <1>9, <1>10 DEF TimeInv
<1>12. PausedInv'
  BY <1>3, <1>5 DEF ScheduleInv, PausedInv
<1>13. OncePerInstant'
  <2> SUFFICES ASSUME NEW i \in Scheduled', NEW k \in Scheduled', i < k
               PROVE  runs'[i].at < runs'[k].due
    BY DEF OncePerInstant
  <2>1. CASE k \in Scheduled
    <3>1. i # last
      <4>1. k < last /\ k \in Nat /\ i \in Nat /\ last \in Nat
        BY <2>1, <1>7 DEF Scheduled
      <4> QED BY <4>1
    <3> QED BY <2>1, <3>1, <1>7 DEF ScheduleInv, OncePerInstant
  <2>2. CASE k = last
    <3>1. i \in Scheduled
      <4>1. i # k
        BY <1>7, <2>2
      <4> QED BY <4>1, <2>2, <1>7
    <3>2. runs[i].at < schedule.next
      BY <3>1, <1>1 DEF ScheduleInv, TimeInv
    <3> QED BY <3>1, <3>2, <2>2, <1>2, <1>7
  <2> QED BY <2>1, <2>2, <1>7
<1>14. RunOrPaused'
  <2> SUFFICES ASSUME NEW i \in Scheduled'
               PROVE  [revision |-> runs'[i].revision, due |-> runs'[i].due] \notin paused
    BY <1>3 DEF RunOrPaused
  <2>1. CASE i \in Scheduled
    BY <2>1, <1>7 DEF ScheduleInv, RunOrPaused
  <2>2. CASE i = last
    <3>1. \A b \in paused : b.revision # schedule.revision
      BY DEF ScheduleInv, PausedInv, ScheduleTypeOK
    <3>2. runs'[i].revision = schedule.revision
      BY <2>2, <1>2, <1>7
    <3> QED BY <3>1, <3>2
  <2> QED BY <2>1, <2>2, <1>7
<1>15. ArchivedQuiet'
  BY <1>1, <1>3 DEF ScheduleInv, ArchivedQuiet
<1> QED BY <1>8, <1>11, <1>12, <1>13, <1>14, <1>15 DEF ScheduleInv

\* The schedule is paused only if it still shows the instant that was read, which has no run:
\* a run's instant lies before its admission, the instant of an active schedule after it.
LEMMA PauseFailedInv ==
    ASSUME ScheduleInv, NEW v \in Servers, PauseFailed(v) PROVE ScheduleInv'
<1>1. scan' \in [Servers -> Scans] /\ UNCHANGED <<flow, project, owner, clock, runs, open>>
  BY SettleType DEF PauseFailed
<1>2. CASE ~SameDue(v)
  <2>1. clock' \in Instants /\ clock' >= clock /\ owner' \in {"active", "inactive"}
    BY <1>1, TimeFacts DEF ScheduleInv, ScheduleTypeOK
  <2> QED BY <1>1, <1>2, <2>1, QuietScheduleInv DEF PauseFailed
<1>3. CASE SameDue(v)
  <2>1. /\ schedule' \in Schedules /\ schedule'.status = "paused"
        /\ schedule.revision \in Nat /\ schedule'.revision = schedule.revision + 1
    <3>1. schedule \in Schedules /\ Never \in Nat \cup {Never}
      BY DEF ScheduleInv, ScheduleTypeOK, Schedules
    <3>2. schedule' = [schedule EXCEPT !.status = "paused", !.revision = schedule.revision + 1,
                                       !.next = Never]
      BY <1>3 DEF PauseFailed
    <3>3. schedule.revision \in Nat /\ schedule.revision + 1 \in Nat
      BY <3>1 DEF Schedules
    <3> QED BY <3>1, <3>2, <3>3 DEF Schedules
  <2>2. /\ paused' = paused \cup {Bucket(v)} /\ schedule.status = "active"
        /\ Bucket(v).revision = schedule.revision /\ Bucket(v).due = schedule.next
    BY <1>3 DEF PauseFailed, SameDue, Bucket
  <2>3. Scheduled' = Scheduled /\ Scheduled \subseteq DOMAIN runs
    BY <1>1 DEF Scheduled
  <2>4. ScheduleTypeOK'
    BY <1>1, <2>1 DEF ScheduleInv, ScheduleTypeOK, Schedules, Scans
  <2>5. TimeInv'
    BY <1>1, <2>1, <2>3 DEF ScheduleInv, TimeInv
  <2>6. PausedInv'
    <3>1. \A b \in paused : b.revision \in Nat /\ b.revision < schedule.revision + 1
      BY <2>1 DEF ScheduleInv, PausedInv
    <3>2. Bucket(v).revision \in Nat /\ Bucket(v).revision < schedule.revision + 1
      BY <2>1, <2>2
    <3> QED BY <2>1, <2>2, <3>1, <3>2 DEF PausedInv
  <2>7. RunOrPaused'
    <3> SUFFICES ASSUME NEW i \in Scheduled
                 PROVE  [revision |-> runs[i].revision, due |-> runs[i].due] \notin paused'
      BY <1>1, <2>3 DEF RunOrPaused
    <3>1. runs[i].due <= runs[i].at /\ runs[i].at < schedule.next
      BY <2>2 DEF ScheduleInv, TimeInv
    <3>2. runs[i].due # schedule.next
      <4>1. runs[i].at \in Nat /\ runs[i].due \in Int /\ schedule.next \in Int
        BY <2>3, TimeFacts DEF Rows, Never, ScheduleInv, ScheduleTypeOK
      <4> QED BY <3>1, <4>1
    <3>3. [revision |-> runs[i].revision, due |-> runs[i].due] # Bucket(v)
      BY <3>2, <2>2
    <3> QED BY <3>3, <2>2 DEF ScheduleInv, RunOrPaused
  <2>8. OncePerInstant' /\ ArchivedQuiet'
    BY <1>1, <2>1, <2>3 DEF ScheduleInv, OncePerInstant, ArchivedQuiet
  <2> QED BY <2>4, <2>5, <2>6, <2>7, <2>8 DEF ScheduleInv
<1> QED BY <1>2, <1>3

\* The flow, the project or the owner moves.
LEMMA MoveInv ==
    ASSUME ScheduleInv, UNCHANGED <<schedule, clock, scan, runs, open, paused>>,
           flow' \in {"draft", "published", "archived"}, project' \in {"active", "archived"},
           owner' \in {"active", "inactive"},
           flow' = "archived" => flow = "archived" \/ Quiet,
           project' = "archived" => flow' = "archived"
    PROVE  ScheduleInv'
<1>1. ScheduleTypeOK' /\ Scheduled' = Scheduled
  BY DEF ScheduleInv, ScheduleTypeOK, Scheduled
<1>2. TimeInv' /\ PausedInv' /\ OncePerInstant' /\ RunOrPaused'
  BY <1>1 DEF ScheduleInv, TimeInv, PausedInv, OncePerInstant, RunOrPaused
<1>3. ArchivedQuiet'
  BY DEF ScheduleInv, ArchivedQuiet, Quiet
<1> QED BY <1>1, <1>2, <1>3 DEF ScheduleInv

LEMMA MovesInv ==
    ASSUME ScheduleInv, Publish \/ Unpublish \/ Archive \/ Restore \/ ArchiveProject \/ RestoreProject
                 \/ ChangeOwner
    PROVE  ScheduleInv'
<1>1. /\ flow \in {"draft", "published", "archived"} /\ project \in {"active", "archived"}
      /\ owner \in {"active", "inactive"}
      /\ project = "archived" => flow = "archived"
  BY DEF ScheduleInv, ScheduleTypeOK, ArchivedQuiet
<1>2. CASE Publish \/ Unpublish \/ Restore
  BY <1>1, <1>2, MoveInv DEF Publish, Unpublish, Restore, Move
<1>3. CASE Archive \/ ArchiveProject
  BY <1>1, <1>3, MoveInv DEF Archive, ArchiveProject, Move
<1>4. CASE RestoreProject
  BY <1>1, <1>4, MoveInv DEF RestoreProject, Move
<1>5. CASE ChangeOwner
  BY <1>1, <1>5, MoveInv DEF ChangeOwner, Move
<1> QED BY <1>2, <1>3, <1>4, <1>5

LEMMA TimePassesInv ==
    ASSUME ScheduleInv, EndRun \/ Tick \/ UNCHANGED scheduleVars PROVE ScheduleInv'
<1>1. scan' \in [Servers -> Scans] /\ owner' \in {"active", "inactive"}
  BY DEF EndRun, Tick, scheduleVars, ScheduleInv, ScheduleTypeOK, Scans
<1>2. clock' \in Instants /\ clock' >= clock
  <2>1. clock \in Instants /\ clock \in Nat /\ Horizon \in Nat
    BY TimeFacts, ScheduleAssumption DEF ScheduleInv, ScheduleTypeOK
  <2>2. CASE clock' = clock
    BY <2>1, <2>2
  <2>3. CASE Tick
    BY <2>1, <2>3 DEF Tick, Instants
  <2> QED BY <2>2, <2>3 DEF EndRun, scheduleVars
<1>3. open' \subseteq open /\ UNCHANGED <<schedule, flow, project, runs, paused>>
  BY DEF EndRun, Tick, scheduleVars
<1> QED BY <1>1, <1>2, <1>3, QuietScheduleInv

LEMMA ScheduleNextInv == ScheduleInv /\ [ScheduleNext]_scheduleVars => ScheduleInv'
<1> SUFFICES ASSUME ScheduleInv, [ScheduleNext]_scheduleVars PROVE ScheduleInv'
  OBVIOUS
<1>1. ASSUME NEW v \in Servers, Scan(v) \/ Attempt(v) \/ Defer(v) \/ PauseFailed(v) \/ ServerDies(v)
      PROVE  ScheduleInv'
  BY <1>1, ServerInv, AdmitInv, PauseFailedInv DEF Attempt
<1> QED BY <1>1, PeopleInv, StartManuallyInv, MovesInv, TimePassesInv DEF ScheduleNext

-----------------------------------------------------------------------------
\* The invariant is inductive.
THEOREM ScheduleInvariant == ScheduleSpec => []ScheduleInv
<1> QED BY ScheduleInitInv, ScheduleNextInv, PTL DEF ScheduleSpec

\* Every variable keeps its type.
THEOREM ScheduleTypeCorrect == ScheduleSpec => []ScheduleTypeOK
<1>1. ScheduleInv => ScheduleTypeOK
  BY DEF ScheduleInv
<1> QED BY <1>1, ScheduleInvariant, PTL

\* However many servers read the same due schedule, an instant gets one run, and the instants
\* missed are made up by one (queueDueNativeDataflowsOnce, advanceNativeDataflowSchedule).
THEOREM AdmittedOnce == ScheduleSpec => []OncePerInstant
<1>1. ScheduleInv => OncePerInstant
  BY DEF ScheduleInv
<1> QED BY <1>1, ScheduleInvariant, PTL

\* No server pauses the schedule for an instant that has its run, also if it never heard of its
\* own commit (the update after a failed admission in queueDueNativeDataflowsOnce).
THEOREM NeverRunAndPaused == ScheduleSpec => []RunOrPaused
<1>1. ScheduleInv => RunOrPaused
  BY DEF ScheduleInv
<1> QED BY <1>1, ScheduleInvariant, PTL

\* An archived flow is quiet, whatever was under way when it was archived (archiveWorkflow,
\* changeProjectStatus).
THEOREM ArchivedStaysQuiet == ScheduleSpec => []ArchivedQuiet
<1>1. ScheduleInv => ArchivedQuiet
  BY DEF ScheduleInv
<1> QED BY <1>1, ScheduleInvariant, PTL
=================================================================================
