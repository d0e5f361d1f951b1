------------------------------ MODULE SourceTest ------------------------------
(***************************************************************************)
(* The connection tests of one data source (p2-service.ts): tests are      *)
(* queued with the hash of the configuration of that moment, claimed by    *)
(* workers under a lease, probe the source, and verify it if it still has  *)
(* that configuration; meanwhile people edit, disable or restore it.       *)
(*                                                                         *)
(* A configuration (connection and credential) is one value, equal to its  *)
(* hash.  updateDataSource reads the row and writes it back in a later     *)
(* statement.  A lease token is a number that is never drawn twice.        *)
(***************************************************************************)
EXTENDS Naturals, FiniteSets

CONSTANTS
    Configs,
    Tests,          \* bound: requests to test the source
    Edits,          \* bound: requests to update it
    Workers,
    MaxAttempts,    \* data_source_test_run.maxAttempts
    MaxCrashes,     \* bound: workers that die
    MaxStalls,      \* bound: leases that lapse under a living worker
    MaxFaults       \* bound: both together

ASSUME SourceTestAssumption ==
    /\ Configs # {} /\ IsFiniteSet(Tests)
    /\ MaxAttempts \in Nat \ {0} /\ MaxCrashes \in Nat /\ MaxStalls \in Nat
    /\ MaxFaults \in Nat

VARIABLES
    source,     \* data_source: its configuration and status
    test,       \* data_source_test_run, one row for each request
    wk,         \* each worker: the test it holds and what it read with it
    edit,       \* each update: its input, and the row it read
    probed,     \* history: configurations probed with success
    used

vars == <<source, test, wk, edit, probed, used>>

Unchanged == "unchanged"    \* a field the request leaves out
None == "none"

NoTest == [status |-> "none", hash |-> None, attempt |-> 0, token |-> 0, valid |-> FALSE]
Idle == [pc |-> "idle", test |-> None, token |-> 0, attempt |-> 0, config |-> None, seen |-> None, retry |-> FALSE]
NoEdit == [pc |-> "none", config |-> Unchanged, status |-> Unchanged, read |-> None, seen |-> None]

Finished == {"success", "failed"}
Statuses == {"draft", "verified", "disabled"}
MaxTokens == MaxAttempts * Cardinality(Tests)

TypeOK ==
    /\ source \in [config : Configs, status : Statuses]
    /\ test \in [Tests -> [status : {"none", "queued", "leased"} \cup Finished, hash : Configs \cup {None},
                           attempt : 0..MaxAttempts, token : 0..MaxTokens, valid : BOOLEAN]]
    /\ \A w \in Workers : /\ wk[w].pc \in {"idle", "probe", "verify", "fail"}
                          /\ wk[w].pc # "idle" => wk[w].test \in Tests
    /\ probed \subseteq Configs
    /\ used \in [crashes : 0..MaxCrashes, stalls : 0..MaxStalls, tokens : 0..MaxTokens]

FaultLeft == used.crashes + used.stalls < MaxFaults

\* Configurations are interchangeable: it does not matter which one is the first.
Init ==
    /\ source \in [config : {CHOOSE config \in Configs : TRUE}, status : {"draft", "disabled"}]
    /\ test = [t \in Tests |-> NoTest]
    /\ wk = [w \in Workers |-> Idle]
    /\ edit = [e \in Edits |-> NoEdit]
    /\ probed = {}
    /\ used = [crashes |-> 0, stalls |-> 0, tokens |-> 0]

-----------------------------------------------------------------------------
(* Tests.                                                                  *)

\* testDataSource: a disabled source is refused.
Submit(t) ==
    /\ test[t].status = "none" /\ source.status # "disabled"
    /\ test' = [test EXCEPT ![t].status = "queued", ![t].hash = source.config]
    /\ UNCHANGED <<source, wk, edit, probed, used>>

Exhausted(t) == test[t].status = "leased" /\ ~test[t].valid /\ test[t].attempt >= MaxAttempts

\* Faulty variant: tests at their attempt limit are left alone.
FinalizeNone == test

\* The first statement of every claim ends what can never be claimed again.
Finalized ==
    [t \in Tests |-> IF Exhausted(t)
                     THEN [test[t] EXCEPT !.status = "failed", !.token = 0] ELSE test[t]]

Claimable(t) ==
    /\ test[t].attempt < MaxAttempts
    /\ test[t].status = "queued" \/ (test[t].status = "leased" /\ ~test[t].valid)

\* The test is leased and read together with the source's present configuration.
Claim(w, t) ==
    /\ wk[w].pc = "idle" /\ Claimable(t) /\ used.tokens < MaxTokens
    /\ test' = [Finalized EXCEPT ![t].status = "leased", ![t].attempt = @ + 1,
                                 ![t].token = used.tokens + 1, ![t].valid = TRUE]
    /\ wk' = [wk EXCEPT ![w] = [pc |-> "probe", test |-> t, token |-> used.tokens + 1,
                                attempt |-> test[t].attempt + 1, config |-> source.config,
                                seen |-> source.status, retry |-> FALSE]]
    /\ used' = [used EXCEPT !.tokens = @ + 1]
    /\ UNCHANGED <<source, edit, probed>>

\* Nothing to claim: the poll still ends the exhausted tests.
ClaimNone(w) ==
    /\ wk[w].pc = "idle" /\ ~\E t \in Tests : Claimable(t)
    /\ \E t \in Tests : Exhausted(t)
    /\ test' = Finalized
    /\ UNCHANGED <<source, wk, edit, probed, used>>

\* The probe takes its time; network failures may be retried, others not.
Probe(w) ==
    /\ wk[w].pc = "probe"
    /\ \/ /\ wk[w].seen # "disabled"
          /\ wk' = [wk EXCEPT ![w].pc = "verify"]
          /\ probed' = probed \cup {wk[w].config}
       \/ /\ \E retry \in (IF wk[w].seen = "disabled" THEN {FALSE} ELSE BOOLEAN) :
                wk' = [wk EXCEPT ![w].pc = "fail", ![w].retry = retry]
          /\ UNCHANGED probed
    /\ UNCHANGED <<source, test, edit, used>>

\* Faulty variant: the result is applied to whatever the source has become.
CurrentAlways(w) == TRUE

\* Faulty variant: only the configuration is compared.
CurrentConfig(w) == source.config = test[wk[w].test].hash

\* Configuration and status are compared under the lock on the source.
Current(w) == source.status # "disabled" /\ source.config = test[wk[w].test].hash

Owns(w) == test[wk[w].test].status = "leased" /\ test[wk[w].test].token = wk[w].token

\* Test and source are updated together; a stale result or a lost lease is a failure.
Verify(w) ==
    /\ wk[w].pc = "verify"
    /\ IF Current(w) /\ Owns(w)
       THEN /\ test' = [test EXCEPT ![wk[w].test].status = "success", ![wk[w].test].token = 0]
            /\ source' = [source EXCEPT !.status = "verified"]
            /\ wk' = [wk EXCEPT ![w] = Idle]
       ELSE /\ wk' = [wk EXCEPT ![w].pc = "fail", ![w].retry = FALSE]
            /\ UNCHANGED <<test, source>>
    /\ UNCHANGED <<edit, probed, used>>

\* A retryable failure queues the test again while attempts are left.
Fail(w) ==
    /\ wk[w].pc = "fail"
    /\ wk' = [wk EXCEPT ![w] = Idle]
    /\ test' = IF Owns(w)
               THEN [test EXCEPT ![wk[w].test].token = 0, ![wk[w].test].status =
                        IF wk[w].retry /\ wk[w].attempt < MaxAttempts THEN "queued" ELSE "failed"]
               ELSE test
    /\ UNCHANGED <<source, edit, probed, used>>

Crash(w) ==
    /\ wk[w].pc # "idle" /\ used.crashes < MaxCrashes /\ FaultLeft
    /\ wk' = [wk EXCEPT ![w] = Idle]
    /\ used' = [used EXCEPT !.crashes = @ + 1]
    /\ UNCHANGED <<source, test, edit, probed>>

\* Nothing renews these leases: 60 seconds after the claim they lapse.
Lapse(t) ==
    /\ test[t].status = "leased" /\ test[t].valid
    /\ LET held == \E w \in Workers : wk[w].pc # "idle" /\ wk[w].token = test[t].token
       IN  IF held THEN /\ used.stalls < MaxStalls /\ FaultLeft
                        /\ used' = [used EXCEPT !.stalls = @ + 1]
                   ELSE UNCHANGED used
    /\ test' = [test EXCEPT ![t].valid = FALSE]
    /\ UNCHANGED <<source, wk, edit, probed>>

-----------------------------------------------------------------------------
(* Updates.                                                                *)

\* updateDataSource reads the row for a request with or without a configuration, a status.
ReadSource(e) ==
    /\ edit[e].pc = "none"
    /\ \E config \in Configs \cup {Unchanged}, status \in {Unchanged, "draft", "disabled"} :
          edit' = [edit EXCEPT ![e] = [pc |-> "read", config |-> config, status |-> status,
                                       read |-> source.config, seen |-> source.status]]
    /\ UNCHANGED <<source, test, wk, probed, used>>

NextStatus(e) ==
    IF edit[e].status = "disabled" \/ (edit[e].seen = "disabled" /\ edit[e].status # "draft")
    THEN "disabled"
    ELSE IF edit[e].config # Unchanged THEN "draft"
    ELSE IF edit[e].status # Unchanged THEN edit[e].status ELSE edit[e].seen

\* What the request leaves out is written back as it was read.
WriteSource(e) ==
    /\ edit[e].pc = "read"
    /\ source' = [config |-> IF edit[e].config = Unchanged THEN edit[e].read ELSE edit[e].config,
                  status |-> NextStatus(e)]
    /\ edit' = [edit EXCEPT ![e].pc = "done"]
    /\ UNCHANGED <<test, wk, probed, used>>

-----------------------------------------------------------------------------
Step(w) == Probe(w) \/ Verify(w) \/ Fail(w)
Poll(w) == ClaimNone(w) \/ \E t \in Tests : Claim(w, t)

Next ==
    \/ \E t \in Tests : Submit(t) \/ Lapse(t)
    \/ \E w \in Workers : Poll(w) \/ Step(w) \/ Crash(w)
    \/ \E e \in Edits : ReadSource(e) \/ WriteSource(e)

Spec == Init /\ [][Next]_vars

\* Workers poll, probes end (they have deadlines), and the leases of the dead lapse.
FairSpec ==
    /\ Spec
    /\ WF_vars(\E w \in Workers : Poll(w))
    /\ \A w \in Workers : WF_vars(Step(w))
    /\ \A t \in Tests : WF_vars(Lapse(t))

-----------------------------------------------------------------------------
(* Properties.                                                             *)

\* A verified source was probed with the configuration it has ("the configuration changed
\* during the test: this result does not change the source", processDataSourceTest).
VerifiedEarned == source.status = "verified" => source.config \in probed

\* A disabled source is enabled again only by a request that asks for it: neither a test
\* that ends late nor an edit of its connection does (the comment in updateDataSource).
DisabledKept ==
    [][source.status = "disabled" /\ source'.status # "disabled"
          => \E e \in Edits : edit[e].pc = "read" /\ edit'[e].pc = "done" /\ edit[e].status = "draft"]_vars

\* A requested test ends, also if the worker of its last attempt dies ("so a crashed worker
\* cannot leave a permanent lease", claimDataSourceTest).
TestEnds == \A t \in Tests : test[t].status = "queued" ~> test[t].status \in Finished
=============================================================================
