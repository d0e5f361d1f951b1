---------------------------- MODULE SourceTestProofs ----------------------------
(***************************************************************************)
(* Proofs about SourceTest, for any configurations, tests, updates,        *)
(* workers and bounds.                                                     *)
(*                                                                         *)
(* A test compares the configuration it was requested for with the one the *)
(* source has when the result comes; it probed the one the source had when *)
(* it was claimed.  If these two differ, the source has left the first of  *)
(* them between request and claim, and the comparison fails as long as the *)
(* source does not return to it (MatchInv).  This is the whole argument,   *)
(* and the hypothesis NeverBack is what it needs.                          *)
(***************************************************************************)
EXTENDS SourceTest, FiniteSetTheorems, TLAPS

Holdings == [pc : {"probe", "verify", "fail"}, test : Tests, token : 1..MaxTokens,
             attempt : 1..MaxAttempts, config : Configs, seen : Statuses, retry : BOOLEAN]
Requests == [pc : {"read", "done"}, config : Configs \cup {Unchanged},
             status : {Unchanged, "draft", "disabled"}, read : Configs, seen : Statuses]
TestRows == [status : {"none", "queued", "leased"} \cup Finished, hash : Configs \cup {None},
             attempt : 0..MaxAttempts, token : 0..MaxTokens, valid : BOOLEAN]

TypeInv ==
    /\ source \in [config : Configs, status : Statuses]
    /\ test \in [Tests -> TestRows]
    /\ wk \in [Workers -> Holdings \cup {Idle}]
    /\ edit \in [Edits -> Requests \cup {NoEdit}]
    /\ probed \subseteq Configs
    /\ used \in [crashes : 0..MaxCrashes, stalls : 0..MaxStalls, tokens : 0..MaxTokens]

BusyAt(w) == wk[w].pc # "idle"

\* Only a test that was requested is held.
HeldInv == \A w \in Workers : BusyAt(w) => test[wk[w].test].status # "none"

\* A lease token is drawn once.
TokenInv ==
    /\ \A w \in Workers : BusyAt(w) => wk[w].token <= used.tokens
    /\ \A v, w \in Workers : BusyAt(v) /\ BusyAt(w) /\ wk[v].token = wk[w].token => v = w

\* What a worker is about to report it has probed; what an update has read had been probed.
ProbeInv ==
    /\ \A w \in Workers : wk[w].pc = "verify" => wk[w].config \in probed
    /\ \A e \in Edits : edit[e].pc = "read" /\ edit[e].seen = "verified" => edit[e].read \in probed
    /\ VerifiedEarned

\* A worker probes the configuration its test was requested for, or one the source took
\* after it; then the source has not gone back to the first.
MatchInv ==
    \A w \in Workers : BusyAt(w) => \/ wk[w].config = test[wk[w].test].hash
                                    \/ source.config # test[wk[w].test].hash

\* While no two updates overlap, an update sees that the source is disabled.
SeenInv ==
    \A e \in Edits : edit[e].pc = "read" /\ source.status = "disabled" => edit[e].seen = "disabled"

\* A source does not return to a configuration a test was requested for.
BackStep ==
    source'.config # source.config =>
        \A t \in Tests : test[t].status # "none" => test[t].hash # source'.config
NeverBack == [][BackStep]_vars

\* At most one update is between its read and its write.
OneEditor == \A e, f \in Edits : edit[e].pc = "read" /\ edit[f].pc = "read" => e = f

\* Two workers that own a test are one: its result is written by one of them only.
OneOwner ==
    \A v, w \in Workers :
        /\ BusyAt(v) /\ BusyAt(w) /\ wk[v].test = wk[w].test
        /\ Owns(v) /\ Owns(w)
        => v = w

-----------------------------------------------------------------------------
(* Types.                                                                  *)

LEMMA TokensNat == MaxTokens \in Nat
<1>1. Cardinality(Tests) \in Nat
  BY SourceTestAssumption, FS_CardinalityType
<1> QED BY <1>1, SourceTestAssumption, SMT DEF MaxTokens

LEMMA IdleFacts ==
    /\ Idle.pc = "idle" /\ NoEdit.pc = "none"
    /\ \A h \in Holdings : h.pc # "idle"
    /\ \A r \in Requests : r.pc # "none"
BY DEF Idle, NoEdit, Holdings, Requests

\* What the type invariant says of a busy worker and of a begun update.
LEMMA Facts ==
    ASSUME TypeInv
    PROVE  /\ \A w \in Workers : BusyAt(w) => wk[w] \in Holdings
           /\ \A w \in Workers : wk[w] \in Holdings \cup {Idle}
           /\ \A e \in Edits : edit[e].pc \in {"read", "done"} => edit[e] \in Requests
           /\ \A t \in Tests : test[t] \in TestRows
BY IdleFacts DEF TypeInv, BusyAt

LEMMA TypeInit == Init => TypeInv
<1> SUFFICES ASSUME Init PROVE TypeInv
  OBVIOUS
<1>1. (CHOOSE config \in Configs : TRUE) \in Configs
  BY SourceTestAssumption
<1>2. source \in [config : Configs, status : Statuses]
  BY <1>1 DEF Init, Statuses
<1>3. NoTest \in TestRows
  BY TokensNat, SourceTestAssumption DEF NoTest, TestRows, None
<1>4. used \in [crashes : 0..MaxCrashes, stalls : 0..MaxStalls, tokens : 0..MaxTokens]
  BY TokensNat, SourceTestAssumption DEF Init
<1> QED BY <1>2, <1>3, <1>4 DEF Init, TypeInv

\* The row of a test that gives its lease back.
LEMMA RowFacts ==
    ASSUME NEW r \in TestRows, NEW status \in {"queued", "leased"} \cup Finished
    PROVE  /\ [r EXCEPT !.status = status, !.token = 0] \in TestRows
           /\ [r EXCEPT !.status = status, !.token = 0].hash = r.hash
           /\ [r EXCEPT !.status = status, !.token = 0].status = status
<1>1. 0 \in 0..MaxTokens
  BY TokensNat
<1>2. status \in {"none", "queued", "leased"} \cup Finished
  OBVIOUS
<1> HIDE DEF Finished
<1> QED BY <1>1, <1>2 DEF TestRows

\* Ending the exhausted tests keeps the rows well formed.
LEMMA FinalizedFacts ==
    ASSUME TypeInv
    PROVE  /\ Finalized \in [Tests -> TestRows]
           /\ \A t \in Tests : /\ Finalized[t].hash = test[t].hash
                               /\ test[t].status # "none" => Finalized[t].status # "none"
                               /\ test[t].status = "none" => Finalized[t].status = "none"
<1>1. \A t \in Tests : [test[t] EXCEPT !.status = "failed", !.token = 0] \in TestRows
  BY RowFacts, Facts DEF Finished
<1>2. Finalized \in [Tests -> TestRows]
  BY <1>1, Facts DEF Finalized
<1>3. ASSUME NEW t \in Tests
      PROVE  /\ Finalized[t].hash = test[t].hash
             /\ test[t].status # "none" => Finalized[t].status # "none"
             /\ test[t].status = "none" => Finalized[t].status = "none"
  <2>1. test[t] \in TestRows
    BY Facts
  <2>2. Finalized[t] = IF Exhausted(t) THEN [test[t] EXCEPT !.status = "failed", !.token = 0]
                       ELSE test[t]
    BY DEF Finalized
  <2> QED BY <2>1, <2>2 DEF Exhausted, TestRows
<1> QED BY <1>2, <1>3

LEMMA TypeSubmit == ASSUME TypeInv, NEW t \in Tests, Submit(t) PROVE TypeInv'
<1>1. [test[t] EXCEPT !.status = "queued", !.hash = source.config] \in TestRows
  BY Facts DEF TypeInv, TestRows
<1>2. test' = [test EXCEPT ![t] = [test[t] EXCEPT !.status = "queued", !.hash = source.config]]
  BY DEF Submit, TypeInv
<1> QED BY <1>1, <1>2 DEF Submit, TypeInv

\* The rows after a claim: the claimed test, and every other as Finalized leaves it.
LEMMA ClaimFacts ==
    ASSUME TypeInv, NEW w \in Workers, NEW t \in Tests, Claim(w, t)
    PROVE  /\ wk' = [wk EXCEPT ![w] = wk'[w]] /\ wk'[w] \in Holdings
           /\ wk'[w].pc = "probe" /\ wk'[w].test = t /\ wk'[w].config = source.config
           /\ wk'[w].token = used.tokens + 1 /\ used'.tokens = used.tokens + 1
           /\ test' \in [Tests -> TestRows]
           /\ \A u \in Tests : test'[u].hash = test[u].hash
           /\ \A u \in Tests : test[u].status # "none" => test'[u].status # "none"
           /\ test'[t].status # "none"
           /\ \A u \in Tests : u # t => test'[u].status = Finalized[u].status
<1> DEFINE held == [pc |-> "probe", test |-> t, token |-> used.tokens + 1,
                    attempt |-> test[t].attempt + 1, config |-> source.config,
                    seen |-> source.status, retry |-> FALSE]
           row == [Finalized[t] EXCEPT !.status = "leased", !.attempt = @ + 1,
                                       !.token = used.tokens + 1, !.valid = TRUE]
<1>1. used.tokens + 1 \in 1..MaxTokens /\ used'.tokens = used.tokens + 1
  BY TokensNat DEF Claim, TypeInv
<1>2. test[t].attempt + 1 \in 1..MaxAttempts /\ ~Exhausted(t)
  BY Facts, SourceTestAssumption DEF Claim, Claimable, Exhausted, TestRows
<1>3. Finalized[t] = test[t]
  BY <1>2 DEF Finalized
<1>4. held \in Holdings
  BY <1>1, <1>2 DEF Holdings, TypeInv
<1>5. wk' = [wk EXCEPT ![w] = held] /\ wk'[w] = held
  BY DEF Claim, TypeInv
<1>6. row \in TestRows /\ row.hash = test[t].hash /\ row.status = "leased"
  <2>1. test[t] \in TestRows /\ used.tokens + 1 \in 0..MaxTokens /\ test[t].attempt + 1 \in 0..MaxAttempts
    BY <1>1, <1>2, TokensNat, SourceTestAssumption, Facts
  <2> QED BY <1>3, <2>1 DEF TestRows
<1>7. test' = [Finalized EXCEPT ![t] = row]
  BY FinalizedFacts DEF Claim
<1>8. test' \in [Tests -> TestRows] /\ test'[t] = row
      /\ \A u \in Tests : u # t => test'[u] = Finalized[u]
  BY <1>6, <1>7, FinalizedFacts
<1> HIDE DEF row
<1>9. \A u \in Tests : test'[u].hash = test[u].hash
  BY <1>6, <1>8, FinalizedFacts
<1>10. \A u \in Tests : test[u].status # "none" => test'[u].status # "none"
  BY <1>6, <1>8, FinalizedFacts
<1>11. test'[t].status # "none" /\ \A u \in Tests : u # t => test'[u].status = Finalized[u].status
  BY <1>6, <1>8
<1>12. /\ wk' = [wk EXCEPT ![w] = wk'[w]] /\ wk'[w] \in Holdings
       /\ wk'[w].pc = "probe" /\ wk'[w].test = t /\ wk'[w].config = source.config
       /\ wk'[w].token = used.tokens + 1
  <2>1. /\ held.pc = "probe" /\ held.test = t /\ held.config = source.config
        /\ held.token = used.tokens + 1
    OBVIOUS
  <2> HIDE DEF held
  <2> QED BY <1>4, <1>5, <2>1
<1> QED BY <1>1, <1>8, <1>9, <1>10, <1>11, <1>12

LEMMA TypeClaim == ASSUME TypeInv, NEW w \in Workers, NEW t \in Tests, Claim(w, t) PROVE TypeInv'
<1>1. wk' \in [Workers -> Holdings \cup {Idle}]
  BY ClaimFacts DEF TypeInv
<1>2. used' \in [crashes : 0..MaxCrashes, stalls : 0..MaxStalls, tokens : 0..MaxTokens]
  BY TokensNat DEF Claim, TypeInv
<1> QED BY <1>1, <1>2, ClaimFacts DEF Claim, TypeInv

\* The steps that leave tokens, tests and updates alone, or only change a test's row.
LEMMA TypeProbe == ASSUME TypeInv, NEW w \in Workers, Probe(w) PROVE TypeInv'
<1>1. wk[w] \in Holdings
  BY Facts DEF Probe, BusyAt
<1>2. wk' \in [Workers -> Holdings \cup {Idle}] /\ probed' \subseteq Configs
  <2>1. CASE /\ wk' = [wk EXCEPT ![w].pc = "verify"] /\ probed' = probed \cup {wk[w].config}
    <3>1. [wk[w] EXCEPT !.pc = "verify"] \in Holdings /\ wk[w].config \in Configs
      BY <1>1 DEF Holdings
    <3> QED BY <2>1, <3>1 DEF TypeInv
  <2>2. ASSUME NEW retry \in BOOLEAN, wk' = [wk EXCEPT ![w].pc = "fail", ![w].retry = retry],
               UNCHANGED probed
        PROVE  wk' \in [Workers -> Holdings \cup {Idle}] /\ probed' \subseteq Configs
    <3>1. [wk[w] EXCEPT !.pc = "fail", !.retry = retry] \in Holdings
      BY <1>1 DEF Holdings
    <3>2. wk' = [wk EXCEPT ![w] = [wk[w] EXCEPT !.pc = "fail", !.retry = retry]]
      BY <2>2 DEF TypeInv
    <3> QED BY <2>2, <3>1, <3>2 DEF TypeInv
  <2> QED BY <2>1, <2>2 DEF Probe
<1> QED BY <1>2 DEF Probe, TypeInv

LEMMA TypeVerify == ASSUME TypeInv, NEW w \in Workers, Verify(w) PROVE TypeInv'
<1>1. wk[w] \in Holdings /\ wk[w].test \in Tests
  BY Facts DEF Verify, BusyAt, Holdings
<1>2. CASE Current(w) /\ Owns(w)
  <2>1. [test[wk[w].test] EXCEPT !.status = "success", !.token = 0] \in TestRows
    BY <1>1, RowFacts, Facts DEF Finished
  <2>2. test' = [test EXCEPT ![wk[w].test] = [@ EXCEPT !.status = "success", !.token = 0]]
    BY <1>2 DEF Verify, TypeInv
  <2>3. source' \in [config : Configs, status : Statuses]
    BY <1>2 DEF Verify, TypeInv, Statuses
  <2> QED BY <1>1, <1>2, <2>1, <2>2, <2>3 DEF Verify, TypeInv
<1>3. CASE ~(Current(w) /\ Owns(w))
  <2>1. [wk[w] EXCEPT !.pc = "fail", !.retry = FALSE] \in Holdings
    BY <1>1 DEF Holdings
  <2>2. wk' = [wk EXCEPT ![w] = [wk[w] EXCEPT !.pc = "fail", !.retry = FALSE]]
    BY <1>3 DEF Verify, TypeInv
  <2> QED BY <1>3, <2>1, <2>2 DEF Verify, TypeInv
<1> QED BY <1>2, <1>3

\* The row a failure leaves.
LEMMA FailFacts ==
    ASSUME TypeInv, NEW w \in Workers, Fail(w)
    PROVE  /\ test' \in [Tests -> TestRows]
           /\ \A t \in Tests : /\ test'[t].hash = test[t].hash
                               /\ test[t].status # "none" => test'[t].status # "none"
                               /\ test[t].status = "none" => test'[t].status = "none"
<1>1. wk[w].test \in Tests
  BY Facts DEF Fail, BusyAt, Holdings
<1>2. CASE ~Owns(w)
  BY <1>2 DEF Fail, TypeInv
<1>3. CASE Owns(w)
  <2> DEFINE new == IF wk[w].retry /\ wk[w].attempt < MaxAttempts THEN "queued" ELSE "failed"
             row == [test[wk[w].test] EXCEPT !.status = new, !.token = 0]
  <2>1. row \in TestRows /\ row.hash = test[wk[w].test].hash /\ row.status # "none"
    <3>1. test[wk[w].test] \in TestRows /\ new \in {"queued", "leased"} \cup Finished
      BY <1>1, Facts DEF Finished
    <3>2. new # "none"
      OBVIOUS
    <3> HIDE DEF new
    <3> QED BY <3>1, <3>2, RowFacts
  <2>2. test' = [test EXCEPT ![wk[w].test] = row] /\ test[wk[w].test].status = "leased"
    BY <1>1, <1>3 DEF Fail, TypeInv, Owns
  <2> HIDE DEF row
  <2> QED BY <1>1, <2>1, <2>2 DEF TypeInv
<1> QED BY <1>2, <1>3

LEMMA TypeFail == ASSUME TypeInv, NEW w \in Workers, Fail(w) PROVE TypeInv'
BY FailFacts DEF Fail, TypeInv

LEMMA TypeCrash == ASSUME TypeInv, NEW w \in Workers, Crash(w) PROVE TypeInv'
<1>1. used' \in [crashes : 0..MaxCrashes, stalls : 0..MaxStalls, tokens : 0..MaxTokens]
  BY SourceTestAssumption DEF Crash, TypeInv
<1> QED BY <1>1 DEF Crash, TypeInv

LEMMA TypeLapse == ASSUME TypeInv, NEW t \in Tests, Lapse(t) PROVE TypeInv'
<1>1. used' \in [crashes : 0..MaxCrashes, stalls : 0..MaxStalls, tokens : 0..MaxTokens]
  BY SourceTestAssumption DEF Lapse, TypeInv
<1>2. [test[t] EXCEPT !.valid = FALSE] \in TestRows
  BY Facts DEF TestRows
<1>3. test' \in [Tests -> TestRows]
  BY <1>2 DEF Lapse, TypeInv
<1> QED BY <1>1, <1>3 DEF Lapse, TypeInv

LEMMA TypeRead == ASSUME TypeInv, NEW e \in Edits, ReadSource(e) PROVE TypeInv'
<1>1. PICK config \in Configs \cup {Unchanged}, status \in {Unchanged, "draft", "disabled"} :
        edit' = [edit EXCEPT ![e] = [pc |-> "read", config |-> config, status |-> status,
                                     read |-> source.config, seen |-> source.status]]
  BY DEF ReadSource
<1>2. [pc |-> "read", config |-> config, status |-> status, read |-> source.config,
       seen |-> source.status] \in Requests
  BY DEF Requests, TypeInv
<1> QED BY <1>1, <1>2 DEF ReadSource, TypeInv

\* What an update writes is a configuration and a status, and only what it read is verified.
LEMMA WriteFacts ==
    ASSUME TypeInv, NEW e \in Edits, WriteSource(e)
    PROVE  /\ edit[e] \in Requests
           /\ source' \in [config : Configs, status : Statuses]
           /\ source'.status = "verified" => /\ edit[e].seen = "verified"
                                             /\ source'.config = edit[e].read
           /\ source'.status = NextStatus(e)
           /\ edit' = [edit EXCEPT ![e] = [edit[e] EXCEPT !.pc = "done"]]
           /\ edit' \in [Edits -> Requests \cup {NoEdit}]
<1>1. edit[e] \in Requests
  BY Facts DEF WriteSource
<1>2. NextStatus(e) \in Statuses /\ (NextStatus(e) = "verified" =>
         edit[e].seen = "verified" /\ edit[e].config = Unchanged)
  BY <1>1 DEF NextStatus, Statuses, Requests, Unchanged
<1>3. [edit[e] EXCEPT !.pc = "done"] \in Requests
  BY <1>1 DEF Requests
<1>4. edit' = [edit EXCEPT ![e] = [edit[e] EXCEPT !.pc = "done"]]
  BY DEF WriteSource, TypeInv
<1>5. source' \in [config : Configs, status : Statuses]
  BY <1>1, <1>2 DEF WriteSource, Requests
<1>6. edit' \in [Edits -> Requests \cup {NoEdit}]
  BY <1>3, <1>4 DEF TypeInv
<1> QED BY <1>1, <1>2, <1>4, <1>5, <1>6 DEF WriteSource

LEMMA TypeWrite == ASSUME TypeInv, NEW e \in Edits, WriteSource(e) PROVE TypeInv'
BY WriteFacts DEF WriteSource, TypeInv

LEMMA TypeNone == ASSUME TypeInv, NEW w \in Workers, ClaimNone(w) PROVE TypeInv'
BY FinalizedFacts DEF ClaimNone, TypeInv

LEMMA TypeStep == TypeInv /\ [Next]_vars => TypeInv'
<1>1. TypeInv /\ UNCHANGED vars => TypeInv'
  BY DEF TypeInv, vars
<1> QED BY <1>1, TypeSubmit, TypeClaim, TypeNone, TypeProbe, TypeVerify, TypeFail, TypeCrash,
           TypeLapse, TypeRead, TypeWrite DEF Next, Poll, Step

LEMMA TypeHolds == Spec => []TypeInv
<1> QED BY TypeInit, TypeStep, PTL DEF Spec

\* Rows, tokens and statuses stay in their ranges; no test is tried more often than
\* MaxAttempts times (claimDataSourceTest).
THEOREM TypeCorrect == Spec => []TypeOK
<1>1. TypeInv => TypeOK
  BY Facts DEF TypeInv, TypeOK, TestRows, Holdings, Idle, BusyAt
<1> QED BY <1>1, TypeHolds, PTL

-----------------------------------------------------------------------------
(* A verified source was probed.                                           *)

IInv == TypeInv /\ HeldInv /\ ProbeInv /\ MatchInv

LEMMA InitInv == Init => IInv
<1> SUFFICES ASSUME Init PROVE IInv
  OBVIOUS
<1>1. \A w \in Workers : wk[w].pc = "idle"
  BY DEF Init, Idle
<1>2. \A e \in Edits : edit[e].pc = "none"
  BY DEF Init, NoEdit
<1>3. source.status # "verified"
  BY DEF Init
<1> QED BY <1>1, <1>2, <1>3, TypeInit
        DEF IInv, HeldInv, ProbeInv, MatchInv, BusyAt, VerifiedEarned

\* A step that only touches test rows keeps the invariant if no row loses its hash or
\* becomes one that was never requested.
LEMMA RowsStep ==
    ASSUME IInv, TypeInv', UNCHANGED <<source, wk, edit, probed>>,
           \A t \in Tests : test[t].status # "none" => /\ test'[t].status # "none"
                                                       /\ test'[t].hash = test[t].hash
    PROVE  IInv'
<1>1. \A w \in Workers : BusyAt(w) => wk[w].test \in Tests /\ test[wk[w].test].status # "none"
  BY Facts DEF IInv, HeldInv, Holdings
<1>2. HeldInv'
  BY <1>1 DEF IInv, HeldInv, BusyAt
<1>3. ProbeInv'
  BY DEF IInv, ProbeInv, VerifiedEarned
<1>4. MatchInv'
  BY <1>1 DEF IInv, MatchInv, BusyAt
<1> QED BY <1>2, <1>3, <1>4 DEF IInv

\* A worker that moves on within its test, or leaves it, disturbs nobody.
LEMMA WorkerStep ==
    ASSUME IInv, TypeInv', NEW w \in Workers, BusyAt(w), UNCHANGED <<source, edit>>,
           probed \subseteq probed',
           NEW h \in Holdings \cup {Idle}, wk' = [wk EXCEPT ![w] = h],
           h.pc # "idle" => h.test = wk[w].test /\ h.config = wk[w].config,
           h.pc = "verify" => h.config \in probed',
           \A t \in Tests : test[t].status # "none" => /\ test'[t].status # "none"
                                                       /\ test'[t].hash = test[t].hash
    PROVE  IInv'
<1>1. wk'[w] = h /\ \A v \in Workers : v # w => wk'[v] = wk[v]
  BY DEF IInv, TypeInv
<1>2. \A v \in Workers : BusyAt(v) => wk[v].test \in Tests /\ test[wk[v].test].status # "none"
  BY Facts DEF IInv, HeldInv, Holdings
<1>3. \A v \in Workers : BusyAt(v)' => /\ BusyAt(v) /\ wk'[v].test = wk[v].test
                                       /\ wk'[v].config = wk[v].config
  BY <1>1 DEF BusyAt
<1>4. HeldInv'
  BY <1>2, <1>3 DEF HeldInv
<1>5. ProbeInv'
  <2>1. \A v \in Workers : wk'[v].pc = "verify" => wk'[v].config \in probed'
    BY <1>1 DEF IInv, ProbeInv
  <2> QED BY <2>1 DEF IInv, ProbeInv, VerifiedEarned
<1>6. MatchInv'
  BY <1>2, <1>3 DEF IInv, MatchInv
<1> QED BY <1>4, <1>5, <1>6 DEF IInv

LEMMA SubmitInv == ASSUME IInv, NEW t \in Tests, Submit(t) PROVE IInv'
<1>1. \A u \in Tests : test[u].status # "none" => test'[u] = test[u]
  BY DEF Submit, IInv, TypeInv
<1>2. TypeInv'
  BY TypeSubmit DEF IInv
<1> QED BY <1>1, <1>2, RowsStep DEF Submit

\* A claim takes the configuration of this moment.
LEMMA ClaimInv == ASSUME IInv, NEW w \in Workers, NEW t \in Tests, Claim(w, t) PROVE IInv'
<1>1. TypeInv /\ TypeInv'
  BY TypeClaim DEF IInv
<1>2. /\ wk'[w].pc = "probe" /\ wk'[w].test = t /\ wk'[w].config = source.config
      /\ UNCHANGED <<source, edit, probed>>
  BY <1>1, ClaimFacts DEF Claim
<1>3. \A v \in Workers : v # w => wk'[v] = wk[v]
  BY <1>1, ClaimFacts DEF TypeInv
<1>4. \A v \in Workers : BusyAt(v) => /\ wk[v].test \in Tests /\ test[wk[v].test].status # "none"
  BY <1>1, Facts DEF IInv, HeldInv, Holdings
<1>5. /\ \A u \in Tests : test'[u].hash = test[u].hash
      /\ \A u \in Tests : test[u].status # "none" => test'[u].status # "none"
      /\ test'[t].status # "none"
  BY <1>1, ClaimFacts
<1>6. HeldInv'
  <2> SUFFICES ASSUME NEW v \in Workers, BusyAt(v)' PROVE test'[wk'[v].test].status # "none"
    BY DEF HeldInv
  <2>1. CASE v = w
    BY <1>2, <1>5, <2>1
  <2>2. CASE v # w
    BY <1>3, <1>4, <1>5, <2>2 DEF BusyAt
  <2> QED BY <2>1, <2>2
<1>7. ProbeInv'
  <2>1. \A v \in Workers : wk'[v].pc = "verify" => wk'[v].config \in probed'
    BY <1>2, <1>3 DEF IInv, ProbeInv
  <2> QED BY <1>2, <2>1 DEF IInv, ProbeInv, VerifiedEarned
<1>8. MatchInv'
  <2> SUFFICES ASSUME NEW v \in Workers, BusyAt(v)'
               PROVE  \/ wk'[v].config = test'[wk'[v].test].hash
                      \/ source'.config # test'[wk'[v].test].hash
    BY DEF MatchInv
  <2>1. CASE v = w
    BY <1>2, <2>1
  <2>2. CASE v # w
    BY <1>2, <1>3, <1>4, <1>5, <2>2 DEF IInv, MatchInv, BusyAt
  <2> QED BY <2>1, <2>2
<1> QED BY <1>1, <1>6, <1>7, <1>8 DEF IInv

LEMMA ClaimNoneInv == ASSUME IInv, NEW w \in Workers, ClaimNone(w) PROVE IInv'
<1>1. \A t \in Tests : test[t].status # "none" => /\ test'[t].status # "none"
                                                  /\ test'[t].hash = test[t].hash
  BY FinalizedFacts DEF ClaimNone, IInv
<1>2. TypeInv'
  BY TypeNone DEF IInv
<1> QED BY <1>1, <1>2, RowsStep DEF ClaimNone

LEMMA LapseInv == ASSUME IInv, NEW t \in Tests, Lapse(t) PROVE IInv'
<1>1. \A u \in Tests : test'[u].status = test[u].status /\ test'[u].hash = test[u].hash
  <2>1. \A u \in Tests : test[u] \in TestRows /\ test'[u] = IF u = t THEN [test[t] EXCEPT !.valid = FALSE]
                                                           ELSE test[u]
    BY Facts DEF Lapse, IInv, TypeInv
  <2> QED BY <2>1 DEF TestRows
<1>2. TypeInv'
  BY TypeLapse DEF IInv
<1> QED BY <1>1, <1>2, RowsStep DEF Lapse

LEMMA ProbeStepInv == ASSUME IInv, NEW w \in Workers, Probe(w) PROVE IInv'
<1>1. wk[w] \in Holdings /\ BusyAt(w)
  BY Facts DEF Probe, BusyAt, IInv
<1>2. TypeInv'
  BY TypeProbe DEF IInv
<1>3. CASE /\ wk' = [wk EXCEPT ![w].pc = "verify"] /\ probed' = probed \cup {wk[w].config}
  <2> DEFINE h == [wk[w] EXCEPT !.pc = "verify"]
  <2>1. /\ h \in Holdings /\ h.test = wk[w].test /\ h.config = wk[w].config
    BY <1>1 DEF Holdings
  <2>2. wk' = [wk EXCEPT ![w] = h]
    BY <1>3 DEF IInv, TypeInv
  <2> HIDE DEF h
  <2> QED BY <1>1, <1>2, <1>3, <2>1, <2>2, WorkerStep DEF Probe
<1>4. ASSUME NEW retry \in BOOLEAN, wk' = [wk EXCEPT ![w].pc = "fail", ![w].retry = retry],
             UNCHANGED probed
      PROVE  IInv'
  <2> DEFINE h == [wk[w] EXCEPT !.pc = "fail", !.retry = retry]
  <2>1. /\ h \in Holdings /\ h.test = wk[w].test /\ h.config = wk[w].config /\ h.pc = "fail"
    BY <1>1 DEF Holdings
  <2>2. wk' = [wk EXCEPT ![w] = h]
    BY <1>4 DEF IInv, TypeInv
  <2> HIDE DEF h
  <2> QED BY <1>1, <1>2, <1>4, <2>1, <2>2, WorkerStep DEF Probe
<1> QED BY <1>3, <1>4 DEF Probe

\* The result is applied only if the source still has the configuration requested; then it
\* is also the one probed.
LEMMA VerifyInv == ASSUME IInv, NEW w \in Workers, Verify(w) PROVE IInv'
<1>1. wk[w] \in Holdings /\ BusyAt(w) /\ wk[w].test \in Tests
  BY Facts DEF Verify, BusyAt, IInv, Holdings
<1>2. TypeInv'
  BY TypeVerify DEF IInv
<1>3. CASE ~(Current(w) /\ Owns(w))
  <2> DEFINE h == [wk[w] EXCEPT !.pc = "fail", !.retry = FALSE]
  <2>1. /\ h \in Holdings /\ h.test = wk[w].test /\ h.config = wk[w].config /\ h.pc = "fail"
    BY <1>1 DEF Holdings
  <2>2. wk' = [wk EXCEPT ![w] = h] /\ UNCHANGED <<source, edit, probed, test>>
    BY <1>3 DEF IInv, TypeInv, Verify
  <2> HIDE DEF h
  <2> QED BY <1>1, <1>2, <1>3, <2>1, <2>2, WorkerStep
<1>4. CASE Current(w) /\ Owns(w)
  <2>1. source.config = wk[w].config /\ source.config \in probed
    BY <1>1, <1>4 DEF Current, IInv, MatchInv, ProbeInv, Verify
  <2>2. /\ wk' = [wk EXCEPT ![w] = Idle] /\ source' = [source EXCEPT !.status = "verified"]
        /\ UNCHANGED <<edit, probed, used>>
    BY <1>4 DEF Verify
  <2>3. source'.config = source.config
    BY <2>2 DEF IInv, TypeInv
  <2>4. \A t \in Tests : test[t].status # "none" => /\ test'[t].status # "none"
                                                    /\ test'[t].hash = test[t].hash
    <3>1. test' = [test EXCEPT ![wk[w].test] = [@ EXCEPT !.status = "success", !.token = 0]]
      BY <1>4 DEF Verify, IInv, TypeInv
    <3>2. /\ [test[wk[w].test] EXCEPT !.status = "success", !.token = 0].hash = test[wk[w].test].hash
          /\ [test[wk[w].test] EXCEPT !.status = "success", !.token = 0].status = "success"
      BY <1>1, Facts, RowFacts DEF IInv, Finished
    <3> QED BY <1>1, <3>1, <3>2 DEF IInv, TypeInv
  <2>5. Idle.pc = "idle" /\ wk'[w] = Idle /\ \A v \in Workers : v # w => wk'[v] = wk[v]
    BY <2>2, IdleFacts DEF IInv, TypeInv
  <2>6. \A v \in Workers : BusyAt(v)' => BusyAt(v) /\ wk'[v] = wk[v] /\ wk[v].test \in Tests
                                         /\ test[wk[v].test].status # "none"
    BY <2>5, Facts DEF BusyAt, IInv, HeldInv, Holdings
  <2>7. HeldInv'
    BY <2>4, <2>6 DEF HeldInv
  <2>8. ProbeInv'
    <3>1. \A v \in Workers : wk'[v].pc = "verify" => wk'[v].config \in probed'
      BY <2>2, <2>5 DEF IInv, ProbeInv
    <3>2. VerifiedEarned'
      BY <2>1, <2>2, <2>3 DEF VerifiedEarned
    <3> QED BY <2>2, <3>1, <3>2 DEF IInv, ProbeInv
  <2>9. MatchInv'
    BY <2>3, <2>4, <2>6 DEF IInv, MatchInv
  <2> QED BY <1>2, <2>7, <2>8, <2>9 DEF IInv
<1> QED BY <1>3, <1>4

LEMMA FailInv == ASSUME IInv, NEW w \in Workers, Fail(w) PROVE IInv'
<1>1. BusyAt(w) /\ TypeInv' /\ Idle.pc = "idle" /\ Idle \in Holdings \cup {Idle}
  BY TypeFail, IdleFacts DEF Fail, BusyAt, IInv
<1>2. wk' = [wk EXCEPT ![w] = Idle] /\ UNCHANGED <<source, edit, probed, used>>
  BY DEF Fail
<1>3. \A t \in Tests : test[t].status # "none" => /\ test'[t].status # "none"
                                                  /\ test'[t].hash = test[t].hash
  BY FailFacts DEF IInv
<1> QED BY <1>1, <1>2, <1>3, WorkerStep

LEMMA CrashInv == ASSUME IInv, NEW w \in Workers, Crash(w) PROVE IInv'
<1>1. BusyAt(w) /\ TypeInv' /\ Idle.pc = "idle" /\ Idle \in Holdings \cup {Idle}
  BY TypeCrash, IdleFacts DEF Crash, BusyAt, IInv
<1>2. wk' = [wk EXCEPT ![w] = Idle] /\ UNCHANGED <<source, edit, probed, test>>
  BY DEF Crash
<1>3. \A t \in Tests : test'[t] = test[t]
  BY <1>2
<1> QED BY <1>1, <1>2, <1>3, WorkerStep

LEMMA ReadInv == ASSUME IInv, NEW e \in Edits, ReadSource(e) PROVE IInv'
<1>1. UNCHANGED <<source, test, wk, probed, used>> /\ TypeInv'
  BY TypeRead DEF ReadSource, IInv
<1>2. /\ edit'[e].read = source.config /\ edit'[e].seen = source.status
      /\ \A f \in Edits : f # e => edit'[f] = edit[f]
  BY DEF ReadSource, IInv, TypeInv
<1>3. ProbeInv'
  BY <1>1, <1>2 DEF IInv, ProbeInv, VerifiedEarned
<1> QED BY <1>1, <1>3 DEF IInv, HeldInv, MatchInv, BusyAt

\* An update verifies nothing: what it leaves verified it had read so.
LEMMA WriteInv == ASSUME IInv, NEW e \in Edits, WriteSource(e), BackStep PROVE IInv'
<1>1. UNCHANGED <<test, wk, probed, used>> /\ TypeInv'
  BY TypeWrite DEF WriteSource, IInv
<1>2. /\ source'.status = "verified" => /\ edit[e].seen = "verified"
                                        /\ source'.config = edit[e].read
      /\ edit[e].pc = "read" /\ edit'[e].pc = "done"
      /\ \A f \in Edits : f # e => edit'[f] = edit[f]
  <2>1. TypeInv /\ edit[e].pc = "read"
    BY DEF WriteSource, IInv
  <2>2. /\ source'.status = "verified" => /\ edit[e].seen = "verified"
                                          /\ source'.config = edit[e].read
        /\ edit' = [edit EXCEPT ![e] = [edit[e] EXCEPT !.pc = "done"]]
    BY <2>1, WriteFacts
  <2>3. edit'[e].pc = "done"
    BY <2>1, WriteFacts DEF WriteSource, TypeInv, Requests
  <2> QED BY <2>1, <2>2, <2>3 DEF TypeInv
<1>3. ProbeInv'
  BY <1>1, <1>2 DEF IInv, ProbeInv, VerifiedEarned
<1>4. HeldInv'
  BY <1>1 DEF IInv, HeldInv, BusyAt
<1>5. MatchInv'
  <2>1. \A w \in Workers : BusyAt(w) => wk[w].test \in Tests /\ test[wk[w].test].status # "none"
    BY Facts DEF IInv, HeldInv, Holdings
  <2> QED BY <1>1, <2>1 DEF IInv, MatchInv, BusyAt, BackStep
<1> QED BY <1>1, <1>3, <1>4, <1>5 DEF IInv

LEMMA NextInv == IInv /\ [Next]_vars /\ [BackStep]_vars => IInv'
<1>1. IInv /\ UNCHANGED vars => IInv'
  BY DEF IInv, vars, TypeInv, HeldInv, ProbeInv, MatchInv, BusyAt, VerifiedEarned
<1>2. ASSUME NEW e \in Edits, IInv, WriteSource(e), [BackStep]_vars PROVE IInv'
  <2>1. edit' # edit
    <3>1. edit[e].pc = "read" /\ edit'[e].pc = "done"
      BY <1>2 DEF WriteSource, IInv, TypeInv
    <3> QED BY <3>1
  <2>2. BackStep
    BY <1>2, <2>1 DEF vars
  <2> QED BY <1>2, <2>2, WriteInv
<1> QED BY <1>1, <1>2, SubmitInv, ClaimInv, ClaimNoneInv, ProbeStepInv, VerifyInv, FailInv,
           CrashInv, LapseInv, ReadInv DEF Next, Poll, Step

\* A source that does not return to a configuration a test was requested for is verified only
\* by a probe of the configuration it has, whatever is edited, disabled, retried or lost
\* meanwhile (processDataSourceTest).
THEOREM VerifiedIsEarned == Spec /\ NeverBack => []VerifiedEarned
<1>1. IInv => VerifiedEarned
  BY DEF IInv, ProbeInv
<1> QED BY <1>1, InitInv, NextInv, PTL DEF Spec, NeverBack

-----------------------------------------------------------------------------
(* A lease has one owner; a disabled source stays so.                      *)

LEMMA TokenStep ==
    ASSUME TypeInv, TokenInv, [Next]_vars
    PROVE  TokenInv'
<1>1. ASSUME used'.tokens = used.tokens,
             \A w \in Workers : BusyAt(w)' => BusyAt(w) /\ wk'[w].token = wk[w].token
      PROVE  TokenInv'
  BY <1>1 DEF TokenInv
<1>2. ASSUME NEW w \in Workers, NEW t \in Tests, Claim(w, t) PROVE TokenInv'
  <2>1. /\ wk'[w].token = used.tokens + 1 /\ used'.tokens = used.tokens + 1
        /\ \A v \in Workers : v # w => wk'[v] = wk[v]
    BY <1>2, ClaimFacts DEF TypeInv
  <2>2. used.tokens \in Nat /\ \A v \in Workers : BusyAt(v) => wk[v].token \in Nat
    BY Facts, TokensNat DEF TypeInv, Holdings
  <2>3. \A v \in Workers : v # w /\ BusyAt(v)' => /\ BusyAt(v) /\ wk'[v].token = wk[v].token
                                                  /\ wk'[v].token \in Nat
                                                  /\ wk'[v].token <= used.tokens
    BY <2>1, <2>2 DEF BusyAt, TokenInv
  <2>4. \A v \in Workers : v # w /\ BusyAt(v)' => wk'[v].token # wk'[w].token
    BY <2>1, <2>2, <2>3
  <2>5. \A v \in Workers : BusyAt(v)' => wk'[v].token <= used'.tokens
    BY <2>1, <2>2, <2>3
  <2>6. ASSUME NEW u \in Workers, NEW v \in Workers, BusyAt(u)', BusyAt(v)',
               wk'[u].token = wk'[v].token
        PROVE  u = v
    BY <2>3, <2>4, <2>6 DEF TokenInv
  <2> QED BY <2>5, <2>6 DEF TokenInv
<1>3. ASSUME NEW w \in Workers, wk' = [wk EXCEPT ![w] = Idle], used'.tokens = used.tokens
      PROVE  TokenInv'
  BY <1>1, <1>3, IdleFacts DEF TypeInv, BusyAt
<1>4. ASSUME NEW w \in Workers, Probe(w) \/ Verify(w) \/ Fail(w) PROVE TokenInv'
  <2>1. wk[w] \in Holdings /\ BusyAt(w) /\ UNCHANGED used
    BY <1>4, Facts DEF Probe, Verify, Fail, BusyAt
  <2>2. CASE wk' = [wk EXCEPT ![w] = Idle]
    BY <1>3, <2>1, <2>2
  <2>3. CASE wk' = [wk EXCEPT ![w].pc = "verify"]
    BY <1>1, <2>1, <2>3 DEF TypeInv, BusyAt, Holdings
  <2>4. ASSUME NEW retry \in BOOLEAN, wk' = [wk EXCEPT ![w].pc = "fail", ![w].retry = retry]
        PROVE  TokenInv'
    BY <1>1, <2>1, <2>4 DEF TypeInv, BusyAt, Holdings
  <2>5. \/ wk' = [wk EXCEPT ![w] = Idle] \/ wk' = [wk EXCEPT ![w].pc = "verify"]
        \/ \E retry \in BOOLEAN : wk' = [wk EXCEPT ![w].pc = "fail", ![w].retry = retry]
    BY <1>4 DEF Probe, Verify, Fail
  <2> QED BY <2>2, <2>3, <2>4, <2>5
<1>5. ASSUME NEW w \in Workers, Crash(w) PROVE TokenInv'
  BY <1>3, <1>5 DEF Crash, TypeInv
<1>6. CASE UNCHANGED wk /\ used'.tokens = used.tokens
  BY <1>1, <1>6 DEF BusyAt
<1>7. [Next]_vars => \/ UNCHANGED wk /\ used'.tokens = used.tokens
                     \/ \E w \in Workers : Crash(w) \/ Probe(w) \/ Verify(w) \/ Fail(w)
                     \/ \E w \in Workers, t \in Tests : Claim(w, t)
  BY DEF Next, Poll, Step, vars, Submit, Lapse, ClaimNone, ReadSource, WriteSource, TypeInv
<1> QED BY <1>2, <1>4, <1>5, <1>6, <1>7

\* However leases lapse and tests are claimed again, at most one worker passes the fence of a
\* test: the result of a displaced one is refused (processDataSourceTest).
THEOREM OwnerIsOne == Spec => []OneOwner
<1>1. Init => TokenInv
  BY IdleFacts DEF Init, TokenInv, BusyAt
<1>2. TokenInv => OneOwner
  BY DEF TokenInv, OneOwner, Owns
<1> QED BY <1>1, <1>2, TypeHolds, TokenStep, PTL DEF Spec

\* An update that overlaps no other has seen that the source is disabled.
LEMMA SeenStep ==
    ASSUME TypeInv, SeenInv, OneEditor, [Next]_vars
    PROVE  SeenInv'
<1>1. CASE UNCHANGED <<source, edit>>
  BY <1>1 DEF SeenInv
<1>2. ASSUME NEW w \in Workers, Verify(w) PROVE SeenInv'
  <2>1. UNCHANGED edit /\ (source' = source \/ source' = [source EXCEPT !.status = "verified"])
    BY <1>2 DEF Verify
  <2> QED BY <2>1 DEF SeenInv, TypeInv
<1>3. ASSUME NEW e \in Edits, ReadSource(e) PROVE SeenInv'
  <2>1. /\ UNCHANGED source /\ edit'[e].seen = source.status
        /\ \A f \in Edits : f # e => edit'[f] = edit[f]
    BY <1>3 DEF ReadSource, TypeInv
  <2> QED BY <2>1 DEF SeenInv
<1>4. ASSUME NEW e \in Edits, WriteSource(e) PROVE SeenInv'
  <2>1. edit[e].pc = "read" /\ edit[e] \in Requests
        /\ edit' = [edit EXCEPT ![e] = [edit[e] EXCEPT !.pc = "done"]]
    BY <1>4, WriteFacts DEF WriteSource
  <2>2. edit'[e].pc = "done" /\ \A f \in Edits : f # e => edit'[f] = edit[f]
    BY <2>1 DEF TypeInv, Requests
  <2>3. \A f \in Edits : edit'[f].pc # "read"
    BY <2>1, <2>2 DEF OneEditor
  <2> QED BY <2>3 DEF SeenInv
<1>5. [Next]_vars => \/ UNCHANGED <<source, edit>>
                     \/ \E w \in Workers : Verify(w)
                     \/ \E e \in Edits : ReadSource(e) \/ WriteSource(e)
  BY DEF Next, Poll, Step, vars, Submit, Lapse, ClaimNone, Claim, Probe, Fail, Crash
<1> QED BY <1>1, <1>2, <1>3, <1>4, <1>5

EnableStep ==
    source.status = "disabled" /\ source'.status # "disabled"
        => \E e \in Edits : edit[e].pc = "read" /\ edit'[e].pc = "done" /\ edit[e].status = "draft"

LEMMA EnableIsAsked ==
    ASSUME TypeInv, SeenInv, [Next]_vars
    PROVE  [EnableStep]_vars
<1> SUFFICES ASSUME source.status = "disabled", source'.status # "disabled"
             PROVE  \E e \in Edits : /\ edit[e].pc = "read" /\ edit'[e].pc = "done"
                                     /\ edit[e].status = "draft"
  BY DEF EnableStep
<1>1. \A w \in Workers : ~Verify(w)
  <2> SUFFICES ASSUME NEW w \in Workers, Verify(w) PROVE FALSE
    OBVIOUS
  <2>1. ~Current(w)
    BY DEF Current
  <2> QED BY <2>1 DEF Verify
<1>2. PICK e \in Edits : WriteSource(e)
  BY <1>1 DEF Next, Poll, Step, vars, Submit, Lapse, ClaimNone, Claim, Probe, Fail, Crash, ReadSource
<1>3. /\ edit[e].pc = "read" /\ edit[e].seen = "disabled" /\ edit[e] \in Requests
      /\ edit' = [edit EXCEPT ![e] = [edit[e] EXCEPT !.pc = "done"]]
      /\ NextStatus(e) # "disabled"
  BY <1>2, WriteFacts DEF WriteSource, SeenInv
<1>4. edit'[e].pc = "done"
  BY <1>3 DEF TypeInv, Requests
<1>5. edit[e].status = "draft"
  BY <1>3 DEF NextStatus
<1> QED BY <1>3, <1>4, <1>5

\* While updates do not overlap, a disabled source is enabled by nobody but an update that
\* asks for it: neither by a test that ends late nor by an edit of its connection
\* (updateDataSource, processDataSourceTest).
THEOREM DisabledIsKept == Spec /\ []OneEditor => DisabledKept
<1>1. Init => SeenInv
  BY DEF Init, SeenInv, NoEdit
<1> QED BY <1>1, TypeHolds, SeenStep, EnableIsAsked, PTL DEF Spec, DisabledKept, EnableStep
=================================================================================
