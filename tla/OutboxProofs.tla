----------------------------- MODULE OutboxProofs -----------------------------
(***************************************************************************)
(* Proofs about Outbox, for any events, processes, attempts and faults.    *)
(*                                                                         *)
(* A leased event is held by a process that will settle it, or the attempt *)
(* it was leased for died or could not settle it; a queued one has an      *)
(* attempt left and a failed one has none (HolderInv).  That a process     *)
(* holds an event is said by the attempt it drew, which no claim repeats.  *)
(*                                                                         *)
(* What the service accepted of an event is bounded by an account of three *)
(* debts and three payments (AccountInv), for any number of processes.     *)
(***************************************************************************)
EXTENDS Outbox, TLAPS, FiniteSetTheorems

Busy == [pc : {"send", "settle", "giveUp"}, event : Events, attempt : 1..MaxAttempts]

HolderInv ==
    \A e \in Events :
        /\ rows[e].status = "leased" => HeldBySomeone(e) \/ <<e, rows[e].attempt>> \in broken
        /\ rows[e].status = "queued" => rows[e].attempt < MaxAttempts
        /\ rows[e].status = "failed" => rows[e].attempt = MaxAttempts

\* A row that does not exist yet has no attempts.
AbsentInv == \A e \in Events : rows[e].status = "absent" => rows[e].attempt = 0

IInv == TypeOK /\ AbsentInv /\ HolderInv

-----------------------------------------------------------------------------
LEMMA InitInv == Init => IInv
<1> SUFFICES ASSUME Init PROVE IInv
  OBVIOUS
<1>1. rows \in [Events -> [status : RowStatuses, attempt : 0..MaxAttempts, live : BOOLEAN]]
  BY OutboxAssumption DEF Init, RowStatuses
<1>2. TypeOK
  BY <1>1 DEF Init, TypeOK
<1>3. \A e \in Events : rows[e].status = "absent" /\ rows[e].attempt = 0
  BY DEF Init
<1>4. AbsentInv /\ HolderInv
  BY <1>3 DEF AbsentInv, HolderInv
<1> QED BY <1>2, <1>4 DEF IInv

\* A process that is not idle is busy with one event.
LEMMA WorkerFacts ==
    ASSUME TypeOK, NEW w \in Workers, wk[w].pc # "idle" PROVE wk[w] \in Busy
BY DEF TypeOK, Busy, Idle

LEMMA RowFacts ==
    ASSUME TypeOK, NEW e \in Events
    PROVE  /\ rows[e] \in [status : RowStatuses, attempt : 0..MaxAttempts, live : BOOLEAN]
           /\ rows[e].attempt \in Nat
BY DEF TypeOK

\* A holder that keeps event and attempt goes on holding a row whose status and attempt stay.
LEMMA HeldKept ==
    ASSUME NEW d \in Events, rows'[d].status = rows[d].status, rows'[d].attempt = rows[d].attempt,
           \A v \in Workers : wk[v].event = d /\ Holds(v) =>
               wk'[v].event = d /\ wk'[v].attempt = wk[v].attempt
    PROVE  HeldBySomeone(d) => HeldBySomeone(d)'
BY DEF HeldBySomeone, Holds

\* The rows stay, and no holder leaves unless its attempt is broken.
LEMMA RowsKept ==
    ASSUME IInv, UNCHANGED rows, TypeOK', broken \subseteq broken',
           \A v \in Workers : Holds(v) /\ wk[v].event \in Events =>
               \/ wk'[v].event = wk[v].event /\ wk'[v].attempt = wk[v].attempt
               \/ <<wk[v].event, wk[v].attempt>> \in broken'
    PROVE  IInv'
<1>1. ASSUME NEW d \in Events, HeldBySomeone(d)
      PROVE  HeldBySomeone(d)' \/ <<d, rows'[d].attempt>> \in broken'
  <2>1. PICK v \in Workers : wk[v].event = d /\ Holds(v)
    BY <1>1 DEF HeldBySomeone
  <2>2. CASE wk'[v].event = wk[v].event /\ wk'[v].attempt = wk[v].attempt
    BY <2>1, <2>2 DEF HeldBySomeone, Holds
  <2>3. CASE <<wk[v].event, wk[v].attempt>> \in broken'
    BY <2>1, <2>3 DEF Holds
  <2> QED BY <2>1, <2>2, <2>3
<1>2. HolderInv'
  BY <1>1 DEF IInv, HolderInv
<1> QED BY <1>2 DEF IInv, AbsentInv

\* One row moves, and a process of another row keeps it.
LEMMA OneRow ==
    ASSUME IInv, NEW e \in Events, TypeOK', UNCHANGED broken, rows'[e].status # "absent",
           \A d \in Events : d # e => rows'[d] = rows[d],
           \A v \in Workers : wk[v].event \in Events \ {e} =>
               wk'[v].event = wk[v].event /\ wk'[v].attempt = wk[v].attempt,
           rows'[e].status = "leased" =>
               HeldBySomeone(e)' \/ <<e, rows'[e].attempt>> \in broken,
           rows'[e].status = "queued" => rows'[e].attempt < MaxAttempts,
           rows'[e].status = "failed" => rows'[e].attempt = MaxAttempts
    PROVE  IInv'
<1>1. \A d \in Events : d # e => (HeldBySomeone(d) => HeldBySomeone(d)')
  BY HeldKept
<1>2. AbsentInv'
  BY DEF IInv, AbsentInv
<1>3. HolderInv'
  BY <1>1 DEF IInv, HolderInv
<1> QED BY <1>2, <1>3 DEF IInv

LEMMA EnqueueInv ==
    ASSUME IInv, NEW e \in Events, Enqueue(e) PROVE IInv'
<1>1. TypeOK'
  BY DEF Enqueue, IInv, TypeOK, RowStatuses
<1>2. /\ rows'[e].status = "queued" /\ rows'[e].attempt = 0
      /\ \A d \in Events : d # e => rows'[d] = rows[d]
  BY DEF Enqueue, IInv, TypeOK, AbsentInv
<1>3. UNCHANGED <<wk, broken>> /\ 0 < MaxAttempts
  BY OutboxAssumption DEF Enqueue
<1> QED BY <1>1, <1>2, <1>3, OneRow

LEMMA LapseInv ==
    ASSUME IInv, NEW e \in Events, LeaseLapses(e) PROVE IInv'
<1>1. TypeOK' /\ UNCHANGED <<wk, broken>>
  <2>1. /\ used' = used \/ used' = [used EXCEPT !.stalls = used.stalls + 1]
        /\ UNCHANGED <<wk, accepted, broken>>
    BY DEF LeaseLapses
  <2>2. used' \in [crashes : Nat, stalls : Nat, errors : Nat, lost : Nat]
    BY <2>1 DEF IInv, TypeOK
  <2>3. rows' \in [Events -> [status : RowStatuses, attempt : 0..MaxAttempts, live : BOOLEAN]]
    BY DEF LeaseLapses, IInv, TypeOK
  <2> QED BY <2>1, <2>2, <2>3 DEF IInv, TypeOK
<1>2. /\ rows'[e].status = "leased" /\ rows[e].status = "leased"
      /\ rows'[e].attempt = rows[e].attempt
      /\ \A d \in Events : d # e => rows'[d] = rows[d]
  BY DEF LeaseLapses, IInv, TypeOK
<1>3. HeldBySomeone(e) => HeldBySomeone(e)'
  BY <1>1, <1>2, HeldKept
<1>4. HeldBySomeone(e)' \/ <<e, rows'[e].attempt>> \in broken
  BY <1>2, <1>3 DEF IInv, HolderInv
<1> QED BY <1>1, <1>2, <1>4, OneRow

LEMMA ClaimInv ==
    ASSUME IInv, NEW w \in Workers, NEW e \in Events, Claim(w, e) PROVE IInv'
<1> DEFINE attempt == rows[e].attempt + 1
           lease == [status |-> "leased", attempt |-> attempt, live |-> TRUE]
           work == [pc |-> "send", event |-> e, attempt |-> attempt]
<1>1. attempt \in 1..MaxAttempts
  BY RowFacts, OutboxAssumption DEF Claim, Eligible, IInv
<1>2. lease \in [status : RowStatuses, attempt : 0..MaxAttempts, live : BOOLEAN] /\ work \in Busy
  BY <1>1 DEF RowStatuses, Busy
<1>3. rows' = [rows EXCEPT ![e] = lease] /\ wk' = [wk EXCEPT ![w] = work] /\ UNCHANGED <<accepted, broken, used>>
  BY DEF Claim
<1>4. lease.status = "leased" /\ lease.attempt = attempt /\ work.event = e /\ work.attempt = attempt
  OBVIOUS
<1> HIDE DEF lease, work, attempt
<1>5. TypeOK'
  BY <1>2, <1>3 DEF IInv, TypeOK, Busy
<1>6. /\ rows'[e] = lease /\ \A d \in Events : d # e => rows'[d] = rows[d]
      /\ wk'[w] = work /\ \A v \in Workers : v # w => wk'[v] = wk[v]
  BY <1>3 DEF IInv, TypeOK
<1>7. HeldBySomeone(e)'
  BY <1>4, <1>6 DEF HeldBySomeone, Holds
<1>8. wk[w].event = NoEvent
  BY DEF Claim, Idle
<1>9. \A v \in Workers : wk[v].event \in Events \ {e} =>
          wk'[v].event = wk[v].event /\ wk'[v].attempt = wk[v].attempt
  BY <1>6, <1>8, OutboxAssumption
<1> QED BY <1>3, <1>4, <1>5, <1>6, <1>7, <1>9, OneRow

\* A process that moves keeps its event and its attempt.
LEMMA GotoFacts ==
    ASSUME IInv, NEW w \in Workers, wk[w].pc # "idle", NEW pc \in {"send", "settle", "giveUp"},
           Goto(w, pc)
    PROVE  /\ wk' \in [Workers -> Busy \cup {Idle}]
           /\ \A v \in Workers : wk'[v].event = wk[v].event /\ wk'[v].attempt = wk[v].attempt
BY WorkerFacts DEF Goto, IInv, TypeOK, Busy

LEMMA SendInv ==
    ASSUME IInv, NEW w \in Workers, Send(w) PROVE IInv'
<1>1. PICK pc \in {"settle", "giveUp"} : Goto(w, pc)
  BY DEF Send
<1>2. wk[w].pc # "idle" /\ UNCHANGED <<rows, broken>>
  BY DEF Send
<1>3. /\ wk' \in [Workers -> Busy \cup {Idle}]
      /\ \A v \in Workers : wk'[v].event = wk[v].event /\ wk'[v].attempt = wk[v].attempt
  BY <1>1, <1>2, GotoFacts
<1>4. wk[w].event \in Events
  BY <1>2, WorkerFacts DEF IInv, Busy
<1>5. accepted' \in [Events -> Nat]
  BY <1>4 DEF Send, IInv, TypeOK
<1>6. used' \in [crashes : Nat, stalls : Nat, errors : Nat, lost : Nat]
  BY DEF Send, IInv, TypeOK
<1>7. TypeOK'
  BY <1>2, <1>3, <1>5, <1>6 DEF IInv, TypeOK, Busy
<1> QED BY <1>2, <1>3, <1>7, RowsKept

\* A holder settles its row and is idle again.
LEMMA SettleInv ==
    ASSUME IInv, NEW w \in Workers, wk[w].pc # "idle", Holds(w),
           NEW status \in {"queued", "delivered", "failed"}, Settle(w, status),
           status = "queued" => wk[w].attempt < MaxAttempts,
           status = "failed" => wk[w].attempt = MaxAttempts,
           wk' = [wk EXCEPT ![w] = Idle], UNCHANGED <<accepted, broken, used>>
    PROVE  IInv'
<1> DEFINE e == wk[w].event
<1>1. e \in Events /\ rows[e].attempt = wk[w].attempt
  BY WorkerFacts DEF IInv, Busy, Holds
<1>2. rows[e] \in [status : RowStatuses, attempt : 0..MaxAttempts, live : BOOLEAN]
  BY <1>1, RowFacts DEF IInv
<1> DEFINE row == [rows[e] EXCEPT !.status = status, !.live = FALSE]
<1>3. /\ row \in [status : RowStatuses, attempt : 0..MaxAttempts, live : BOOLEAN]
      /\ row.status = status /\ row.attempt = rows[e].attempt
  BY <1>2 DEF RowStatuses
<1>4. rows' = [rows EXCEPT ![e] = row]
  BY <1>1 DEF Settle, IInv, TypeOK
<1> HIDE DEF row
<1>5. TypeOK'
  BY <1>1, <1>3, <1>4 DEF IInv, TypeOK
<1>6. /\ rows'[e] = row /\ \A d \in Events : d # e => rows'[d] = rows[d]
      /\ \A v \in Workers : v # w => wk'[v] = wk[v]
  BY <1>1, <1>4 DEF IInv, TypeOK
<1>7. \A v \in Workers : wk[v].event \in Events \ {e} =>
          wk'[v].event = wk[v].event /\ wk'[v].attempt = wk[v].attempt
  BY <1>6
<1>8. /\ rows'[e].status \notin {"absent", "leased"}
      /\ rows'[e].status = "queued" => rows'[e].attempt < MaxAttempts
      /\ rows'[e].status = "failed" => rows'[e].attempt = MaxAttempts
  BY <1>1, <1>3, <1>6
<1> HIDE DEF e
<1> QED BY <1>1, <1>5, <1>6, <1>7, <1>8, OneRow

\* Nothing of the process that leaves unsettled is no matter once its attempt is broken.
LEMMA BreakInv ==
    ASSUME IInv, NEW w \in Workers, wk[w].pc # "idle", Break(w), UNCHANGED <<rows, accepted>>,
           wk' = [wk EXCEPT ![w] = Idle],
           used' \in [crashes : Nat, stalls : Nat, errors : Nat, lost : Nat]
    PROVE  IInv'
<1>1. wk[w].event \in Events /\ wk[w].attempt \in 1..MaxAttempts
  BY WorkerFacts DEF IInv, Busy
<1>2. /\ wk' \in [Workers -> Busy \cup {Idle}] /\ \A v \in Workers : v # w => wk'[v] = wk[v]
      /\ broken \subseteq broken' /\ <<wk[w].event, wk[w].attempt>> \in broken'
      /\ broken' \subseteq Events \X (1..MaxAttempts)
  BY <1>1 DEF Break, IInv, TypeOK, Busy
<1>3. TypeOK'
  BY <1>2 DEF IInv, TypeOK, Busy
<1> QED BY <1>2, <1>3, RowsKept

LEMMA CompleteInv ==
    ASSUME IInv, NEW w \in Workers, Complete(w) PROVE IInv'
<1>1. wk[w].pc # "idle" /\ UNCHANGED <<accepted, broken>>
  BY DEF Complete
<1>2. CASE Holds(w) /\ Settle(w, "delivered") /\ wk' = [wk EXCEPT ![w] = Idle] /\ UNCHANGED used
  BY <1>1, <1>2, SettleInv
<1>3. CASE /\ Goto(w, "giveUp") /\ UNCHANGED rows
           /\ UNCHANGED used \/ used' = [used EXCEPT !.errors = @ + 1]
  <2>1. /\ wk' \in [Workers -> Busy \cup {Idle}]
        /\ \A v \in Workers : wk'[v].event = wk[v].event /\ wk'[v].attempt = wk[v].attempt
    BY <1>1, <1>3, GotoFacts
  <2>2. used' \in [crashes : Nat, stalls : Nat, errors : Nat, lost : Nat]
    BY <1>3 DEF IInv, TypeOK
  <2>3. TypeOK'
    BY <1>1, <1>3, <2>1, <2>2 DEF IInv, TypeOK, Busy
  <2> QED BY <1>1, <1>3, <2>1, <2>3, RowsKept
<1> QED BY <1>2, <1>3 DEF Complete

LEMMA FailInv ==
    ASSUME IInv, NEW w \in Workers, Fail(w) PROVE IInv'
<1>1. /\ wk[w].pc # "idle" /\ UNCHANGED accepted /\ wk' = [wk EXCEPT ![w] = Idle]
      /\ wk' \in [Workers -> Busy \cup {Idle}] /\ \A v \in Workers : v # w => wk'[v] = wk[v]
  BY DEF Fail, IInv, TypeOK, Busy
<1>2. CASE Holds(w) /\ Settle(w, AfterFailure(w)) /\ UNCHANGED <<broken, used>>
  <2>1. wk[w].attempt \in 1..MaxAttempts /\ MaxAttempts \in Nat
    BY <1>1, WorkerFacts, OutboxAssumption DEF IInv, Busy
  <2>2. /\ AfterFailure(w) \in {"queued", "failed"}
        /\ AfterFailure(w) = "queued" => wk[w].attempt < MaxAttempts
        /\ AfterFailure(w) = "failed" => wk[w].attempt = MaxAttempts
    BY <2>1 DEF AfterFailure
  <2> QED BY <1>1, <1>2, <2>2, SettleInv
<1>3. CASE ~Holds(w) /\ UNCHANGED <<rows, broken, used>>
  <2>1. TypeOK'
    BY <1>1, <1>3 DEF IInv, TypeOK, Busy
  <2> QED BY <1>1, <1>3, <2>1, RowsKept
<1>4. CASE used' = [used EXCEPT !.errors = @ + 1] /\ Break(w) /\ UNCHANGED rows
  <2>1. used' \in [crashes : Nat, stalls : Nat, errors : Nat, lost : Nat]
    BY <1>4 DEF IInv, TypeOK
  <2> QED BY <1>1, <1>4, <2>1, BreakInv
<1> QED BY <1>2, <1>3, <1>4 DEF Fail

LEMMA CrashInv ==
    ASSUME IInv, NEW w \in Workers, Crash(w) PROVE IInv'
<1>1. /\ wk[w].pc # "idle" /\ Break(w) /\ UNCHANGED <<rows, accepted>>
      /\ wk' = [wk EXCEPT ![w] = Idle]
  BY DEF Crash, IInv, TypeOK, Idle
<1>2. used' \in [crashes : Nat, stalls : Nat, errors : Nat, lost : Nat]
  BY DEF Crash, IInv, TypeOK
<1> QED BY <1>1, <1>2, BreakInv

LEMMA NextInv == IInv /\ [Next]_vars => IInv'
<1>1. IInv /\ UNCHANGED vars => IInv'
  BY DEF IInv, vars, TypeOK, AbsentInv, HolderInv, HeldBySomeone, Holds
<1> QED BY <1>1, EnqueueInv, LapseInv, ClaimInv, SendInv, CompleteInv, FailInv, CrashInv
        DEF Next, Dispatch

-----------------------------------------------------------------------------
\* The invariant is inductive.
THEOREM InductiveInvariant == Spec => []IInv
<1> QED BY InitInv, NextInv, PTL DEF Spec

\* Every variable keeps its type; in particular no event is claimed more than maxAttempts
\* times (claimNextOutboxEvent).
THEOREM TypeCorrect == Spec => []TypeOK
<1>1. IInv => TypeOK
  BY DEF IInv
<1> QED BY <1>1, InductiveInvariant, PTL

\* An event is given up after all its attempts only, and nobody will ever settle it only if its
\* own last attempt died or could not settle it, with any number of processes
\* (claimNextOutboxEvent, failOutboxEvent).
THEOREM LossesAreEarned == Spec => []LossesEarned
<1>1. IInv => LossesEarned
  <2> SUFFICES ASSUME IInv, NEW e \in Events
               PROVE  /\ rows[e].status = "failed" => rows[e].attempt = MaxAttempts
                      /\ Lost(e) => <<e, MaxAttempts>> \in broken
    BY DEF LossesEarned
  <2>1. MaxAttempts \in Nat
    BY OutboxAssumption
  <2>2. rows[e].status = "failed" => rows[e].attempt = MaxAttempts
    BY DEF IInv, HolderInv
  <2>3. CASE Lost(e) /\ rows[e].status = "queued"
    BY <2>1, <2>3 DEF IInv, HolderInv, Lost
  <2>4. CASE Lost(e) /\ rows[e].status = "leased"
    BY <2>4 DEF IInv, HolderInv, Lost
  <2> QED BY <2>2, <2>3, <2>4 DEF Lost
<1> QED BY <1>1, InductiveInvariant, PTL

-----------------------------------------------------------------------------
(***************************************************************************)
(* What the service accepted is paid for: by the delivery, by the holder   *)
(* that has sent and not settled, or by a fault.  A lease that lapses under*)
(* its holder pays for what that holder may still send once another one    *)
(* has claimed the event.                                                  *)
(***************************************************************************)
Holding(v, e) == /\ wk[v].event = e /\ rows[e].status = "leased"
                 /\ rows[e].attempt = wk[v].attempt

\* Processes that lost the event and have not sent it yet.
Stragglers(e) == {v \in Workers : wk[v].event = e /\ wk[v].pc = "send" /\ ~Holding(v, e)}
SentByHolder(e) == \E v \in Workers : Holding(v, e) /\ wk[v].pc = "settle"
LapsedUnderHolder(e) == ~rows[e].live /\ \E v \in Workers : Holding(v, e)
One(condition) == IF condition THEN 1 ELSE 0

Account(e) == accepted[e] + Cardinality(Stragglers(e)) + One(LapsedUnderHolder(e))
                  <= Faults + One(rows[e].status = "delivered") + One(SentByHolder(e))

AccountInv == \A e \in Events : Account(e)

\* No two processes have the same attempt at an event, and none a later one than the row.
AttemptInv ==
    \A e \in Events, v \in Workers : wk[v].event = e =>
        /\ wk[v].attempt <= rows[e].attempt
        /\ \A w \in Workers \ {v} : wk[w].event = e => wk[w].attempt # wk[v].attempt

LEMMA HolderFacts ==
    ASSUME TypeOK, AttemptInv, NEW e \in Events
    PROVE  /\ \A v \in Workers : Holding(v, e) <=> wk[v].event = e /\ Holds(v)
           /\ \A v, w \in Workers : Holding(v, e) /\ Holding(w, e) => v = w
           /\ HeldBySomeone(e) <=> \E v \in Workers : Holding(v, e)
           /\ (\E v \in Workers : Holding(v, e)) => rows[e].status = "leased"
BY DEF Holding, Holds, AttemptInv, HeldBySomeone

LEMMA CountFacts ==
    ASSUME TypeOK, NEW e \in Events
    PROVE  /\ Stragglers(e) \subseteq Workers /\ IsFiniteSet(Stragglers(e)) /\ Cardinality(Stragglers(e)) \in Nat
           /\ accepted[e] \in Nat /\ Faults \in Nat
<1>1. Stragglers(e) \in SUBSET Workers
  BY DEF Stragglers
<1>2. IsFiniteSet(Stragglers(e))
  BY <1>1, OutboxAssumption, FS_Subset
<1> QED BY <1>1, <1>2, FS_CardinalityType DEF TypeOK, Faults

\* The rows and processes of an event stay, and no fault is taken back.
LEMMA AccountKept ==
    ASSUME TypeOK, TypeOK', NEW e \in Events, Account(e), rows'[e] = rows[e], accepted'[e] = accepted[e], Faults <= Faults',
           \A v \in Workers : (wk[v].event = e \/ wk'[v].event = e) => wk'[v] = wk[v]
    PROVE  Account(e)'
<1>1. \A v \in Workers : Holding(v, e)' <=> Holding(v, e)
  BY DEF Holding
<1>2. Stragglers(e)' = Stragglers(e) /\ (SentByHolder(e)' <=> SentByHolder(e))
      /\ (LapsedUnderHolder(e)' <=> LapsedUnderHolder(e))
  <2>1. \A v \in Workers : (wk[v].event = e \/ wk'[v].event = e) => wk'[v] = wk[v]
    OBVIOUS
  <2>2. \A v \in Workers : Holding(v, e) => wk[v].event = e
    BY DEF Holding
  <2>3. Stragglers(e)' = Stragglers(e)
    BY <1>1, <2>1 DEF Stragglers
  <2>4. SentByHolder(e)' <=> SentByHolder(e)
    BY <1>1, <2>1, <2>2 DEF SentByHolder
  <2>5. LapsedUnderHolder(e)' <=> LapsedUnderHolder(e)
    BY <1>1 DEF LapsedUnderHolder
  <2> QED BY <2>3, <2>4, <2>5
<1>3. Faults \in Nat /\ Faults' \in Nat /\ accepted[e] \in Nat /\ Cardinality(Stragglers(e)) \in Nat
  <2>1. Faults' \in Nat
    BY DEF Faults, TypeOK
  <2> QED BY <2>1, CountFacts
<1> DEFINE n == Cardinality(Stragglers(e))
           l == One(LapsedUnderHolder(e))
           s == One(SentByHolder(e))
           d == One(rows[e].status = "delivered")
<1>4. n \in Nat /\ l \in Nat /\ s \in Nat /\ d \in Nat
  BY <1>3 DEF One
<1>5. accepted[e] + n + l <= Faults + d + s
  BY DEF Account
<1>6. Cardinality(Stragglers(e))' = n /\ One(LapsedUnderHolder(e))' = l /\ One(SentByHolder(e))' = s
      /\ One(rows[e].status = "delivered")' = d
  BY <1>2 DEF One
<1> HIDE DEF n, l, s, d
<1>7. accepted'[e] + n + l <= Faults' + d + s
  BY <1>3, <1>4, <1>5
<1> QED BY <1>3, <1>6, <1>7 DEF Account

AInv == TypeOK /\ AttemptInv /\ AccountInv

\* Between two accounts of the same event.
LEMMA AccountStep ==
    ASSUME TypeOK, TypeOK', NEW e \in Events, Account(e),
           NEW sends \in Nat, NEW strays \in Int, NEW faults \in Nat,
           accepted'[e] = accepted[e] + sends,
           Cardinality(Stragglers(e)') = Cardinality(Stragglers(e)) + strays,
           Faults' = Faults + faults,
           sends + strays + One(LapsedUnderHolder(e)') + One(rows[e].status = "delivered") + One(SentByHolder(e))
               <= faults + One(LapsedUnderHolder(e)) + One(rows'[e].status = "delivered") + One(SentByHolder(e)')
    PROVE  Account(e)'
<1> DEFINE n == Cardinality(Stragglers(e))
           a == accepted[e]
           l == One(LapsedUnderHolder(e))
           s == One(SentByHolder(e))
           d == One(rows[e].status = "delivered")
           l2 == One(LapsedUnderHolder(e)')
           s2 == One(SentByHolder(e)')
           d2 == One(rows'[e].status = "delivered")
<1>1. a \in Nat /\ n \in Nat /\ Faults \in Nat
  BY CountFacts
<1>2. l \in Nat /\ s \in Nat /\ d \in Nat /\ l2 \in Nat /\ s2 \in Nat /\ d2 \in Nat
  BY DEF One
<1>3. a + n + l <= Faults + d + s
  BY DEF Account
<1>4. sends + strays + l2 + d + s <= faults + l + d2 + s2
  OBVIOUS
<1>5. Account(e)' <=> accepted'[e] + Cardinality(Stragglers(e)') + l2 <= Faults' + d2 + s2
  BY DEF Account, One
<1> HIDE DEF n, a, l, s, d, l2, s2, d2
<1>6. accepted'[e] = a + sends /\ Cardinality(Stragglers(e)') = n + strays /\ Faults' = Faults + faults
  BY DEF a, n
<1>7. a + sends + (n + strays) + l2 <= (Faults + faults) + d2 + s2
  BY <1>1, <1>2, <1>3, <1>4
<1> QED BY <1>5, <1>6, <1>7

LEMMA EnqueueAccount ==
    ASSUME AInv, TypeOK', NEW e \in Events, Enqueue(e) PROVE AttemptInv' /\ AccountInv'
<1>1. /\ rows[e].status = "absent" /\ rows'[e].status = "queued" /\ rows'[e].attempt = rows[e].attempt
      /\ \A d \in Events : d # e => rows'[d] = rows[d]
      /\ UNCHANGED <<wk, accepted, used>>
  BY DEF Enqueue, AInv, TypeOK
<1>2. AttemptInv'
  BY <1>1 DEF AInv, AttemptInv
<1>3. \A d \in Events : d # e => Account(d)'
  BY <1>1, AccountKept, CountFacts DEF AInv, AccountInv, Faults
<1>4. \A v \in Workers : ~Holding(v, e) /\ ~Holding(v, e)'
  BY <1>1 DEF Holding
<1>5. /\ Stragglers(e)' = Stragglers(e) /\ ~SentByHolder(e) /\ ~LapsedUnderHolder(e)'
      /\ ~LapsedUnderHolder(e)
  BY <1>1, <1>4 DEF Stragglers, SentByHolder, LapsedUnderHolder
<1>6. Account(e)'
  <2>1. 0 \in Nat /\ accepted'[e] = accepted[e] + 0 /\ Faults' = Faults + 0
        /\ Cardinality(Stragglers(e)') = Cardinality(Stragglers(e)) + 0
    BY <1>1, <1>5, CountFacts DEF AInv, Faults
  <2>2. 0 + 0 + One(LapsedUnderHolder(e)') + One(rows[e].status = "delivered") + One(SentByHolder(e))
            <= 0 + One(LapsedUnderHolder(e)) + One(rows'[e].status = "delivered") + One(SentByHolder(e)')
    BY <1>1, <1>5 DEF One
  <2> QED BY <2>1, <2>2, AccountStep DEF AInv, AccountInv
<1> QED BY <1>2, <1>3, <1>6 DEF AccountInv

LEMMA LapseAccount ==
    ASSUME AInv, TypeOK', NEW e \in Events, LeaseLapses(e) PROVE AttemptInv' /\ AccountInv'
<1>1. /\ rows[e].status = "leased" /\ rows'[e].status = "leased" /\ rows'[e].attempt = rows[e].attempt
      /\ rows[e].live /\ ~rows'[e].live
      /\ \A d \in Events : d # e => rows'[d] = rows[d]
      /\ UNCHANGED <<wk, accepted>>
  BY DEF LeaseLapses, AInv, TypeOK
<1>2. Faults' = Faults + One(HeldBySomeone(e))
  BY DEF LeaseLapses, Faults, One, AInv, TypeOK
<1>3. AttemptInv'
  BY <1>1 DEF AInv, AttemptInv
<1>4. One(HeldBySomeone(e)) \in Nat
  BY DEF One
<1>5. \A d \in Events : d # e => Account(d)'
  <2>1. Faults <= Faults'
    BY <1>2, <1>4, CountFacts DEF AInv
  <2> QED BY <1>1, <2>1, AccountKept DEF AInv, AccountInv
<1>6. \A v \in Workers : Holding(v, e)' <=> Holding(v, e)
  BY <1>1 DEF Holding
<1>7. /\ Stragglers(e)' = Stragglers(e) /\ (SentByHolder(e)' <=> SentByHolder(e))
      /\ ~LapsedUnderHolder(e) /\ (LapsedUnderHolder(e)' <=> HeldBySomeone(e))
  <2>1. HeldBySomeone(e) <=> \E v \in Workers : Holding(v, e)
    BY HolderFacts DEF AInv
  <2> QED BY <1>1, <1>6, <2>1 DEF Stragglers, SentByHolder, LapsedUnderHolder
<1>8. Account(e)'
  <2> DEFINE f == One(HeldBySomeone(e))
  <2>1. 0 \in Nat /\ accepted'[e] = accepted[e] + 0 /\ Faults' = Faults + f /\ f \in Nat
        /\ Cardinality(Stragglers(e)') = Cardinality(Stragglers(e)) + 0
    BY <1>1, <1>2, <1>4, <1>7, CountFacts DEF AInv
  <2>2. 0 + 0 + One(LapsedUnderHolder(e)') + One(rows[e].status = "delivered") + One(SentByHolder(e))
            <= f + One(LapsedUnderHolder(e)) + One(rows'[e].status = "delivered") + One(SentByHolder(e)')
    BY <1>1, <1>7 DEF One
  <2> HIDE DEF f
  <2> QED BY <2>1, <2>2, AccountStep DEF AInv, AccountInv
<1> QED BY <1>3, <1>5, <1>8 DEF AccountInv

LEMMA ClaimAccount ==
    ASSUME AInv, TypeOK', NEW w \in Workers, NEW e \in Events, Claim(w, e) PROVE AttemptInv' /\ AccountInv'
<1>1. /\ wk[w] = Idle /\ Eligible(e) /\ rows[e].attempt \in Nat
      /\ rows'[e].status = "leased" /\ rows'[e].attempt = rows[e].attempt + 1 /\ rows'[e].live = TRUE
      /\ wk'[w].event = e /\ wk'[w].attempt = rows[e].attempt + 1 /\ wk'[w].pc = "send"
      /\ \A d \in Events : d # e => rows'[d] = rows[d]
      /\ \A v \in Workers : v # w => wk'[v] = wk[v]
      /\ UNCHANGED <<accepted, used>>
  BY DEF Claim, AInv, TypeOK
<1>2. wk[w].event \notin Events
  BY <1>1, OutboxAssumption DEF Idle
<1>3. \A d \in Events, v \in Workers : wk[v].event = d => wk[v].attempt \in Nat /\ rows[d].attempt \in Nat
  BY <1>2 DEF AInv, TypeOK, Idle
<1>4. AttemptInv'
  <2> SUFFICES ASSUME NEW d \in Events, NEW v \in Workers, wk'[v].event = d
               PROVE  /\ wk'[v].attempt <= rows'[d].attempt
                      /\ \A x \in Workers \ {v} : wk'[x].event = d => wk'[x].attempt # wk'[v].attempt
    BY DEF AttemptInv
  <2>1. \A x \in Workers : x # w /\ wk[x].event = e => wk[x].attempt <= rows[e].attempt /\ wk[x].attempt \in Nat
    BY <1>3 DEF AInv, AttemptInv
  <2>2. CASE v = w
    BY <1>1, <2>1, <2>2
  <2>3. CASE v # w /\ d = e
    BY <1>1, <2>1, <2>3 DEF AInv, AttemptInv
  <2>4. CASE v # w /\ d # e
    BY <1>1, <2>4 DEF AInv, AttemptInv
  <2> QED BY <2>2, <2>3, <2>4
<1>5. \A d \in Events : d # e => Account(d)'
  <2>1. Faults' = Faults /\ Faults \in Nat
    BY <1>1, CountFacts DEF AInv, Faults
  <2>2. \A d \in Events : d # e => \A v \in Workers : (wk[v].event = d \/ wk'[v].event = d) => wk'[v] = wk[v]
    BY <1>1, <1>2
  <2> QED BY <1>1, <2>1, <2>2, AccountKept DEF AInv, AccountInv
<1>6. Holding(w, e)' /\ \A v \in Workers : v # w => ~Holding(v, e)'
  BY <1>1, <1>3 DEF Holding, AInv, AttemptInv
<1>7. ~LapsedUnderHolder(e)' /\ rows[e].status # "delivered" /\ rows'[e].status # "delivered"
  BY <1>1 DEF LapsedUnderHolder, Eligible
<1>8. Stragglers(e)' = {v \in Workers : wk[v].event = e /\ wk[v].pc = "send"}
  BY <1>1, <1>2, <1>6 DEF Stragglers
<1>9. 0 \in Nat /\ 1 \in Nat /\ accepted'[e] = accepted[e] + 0 /\ Faults' = Faults + 0 /\ Account(e)
  BY <1>1, CountFacts DEF AInv, Faults, AccountInv
<1>10. CASE \A v \in Workers : ~Holding(v, e)
  <2>1. Stragglers(e)' = Stragglers(e) /\ ~SentByHolder(e)
    BY <1>8, <1>10 DEF Stragglers, SentByHolder
  <2>2. Cardinality(Stragglers(e)') = Cardinality(Stragglers(e)) + 0
    BY <2>1, CountFacts DEF AInv
  <2>3. 0 + 0 + One(LapsedUnderHolder(e)') + One(rows[e].status = "delivered") + One(SentByHolder(e))
            <= 0 + One(LapsedUnderHolder(e)) + One(rows'[e].status = "delivered") + One(SentByHolder(e)')
    BY <1>7, <2>1 DEF One
  <2>4. Account(e)'
    BY <1>9, <2>2, <2>3, AccountStep DEF AInv
  <2> QED BY <1>4, <1>5, <2>4 DEF AccountInv
<1>11. ASSUME NEW h \in Workers, Holding(h, e) PROVE AttemptInv' /\ AccountInv'
  <2>1. \A v \in Workers : Holding(v, e) <=> v = h
    BY <1>11, HolderFacts DEF AInv
  <2>2. LapsedUnderHolder(e)
    BY <1>1, <1>11 DEF LapsedUnderHolder, Eligible, Holding
  <2>3. CASE wk[h].pc = "send"
    <3>1. Stragglers(e)' = Stragglers(e) \cup {h} /\ h \notin Stragglers(e)
      BY <1>8, <1>11, <2>1, <2>3 DEF Stragglers, Holding
    <3>2. Cardinality(Stragglers(e)') = Cardinality(Stragglers(e)) + 1
      BY <3>1, CountFacts, FS_AddElement DEF AInv
    <3>3. ~SentByHolder(e)
      BY <2>1, <2>3 DEF SentByHolder
    <3>4. 0 + 1 + One(LapsedUnderHolder(e)') + One(rows[e].status = "delivered") + One(SentByHolder(e))
              <= 0 + One(LapsedUnderHolder(e)) + One(rows'[e].status = "delivered") + One(SentByHolder(e)')
      BY <1>7, <2>2, <3>3 DEF One
    <3>5. Account(e)'
      BY <1>9, <3>2, <3>4, AccountStep DEF AInv
    <3> QED BY <1>4, <1>5, <3>5 DEF AccountInv
  <2>4. CASE wk[h].pc # "send"
    <3>1. Stragglers(e)' = Stragglers(e)
      BY <1>8, <2>1, <2>4 DEF Stragglers
    <3>2. Cardinality(Stragglers(e)') = Cardinality(Stragglers(e)) + 0
      BY <3>1, CountFacts DEF AInv
    <3>3. 0 + 0 + One(LapsedUnderHolder(e)') + One(rows[e].status = "delivered") + One(SentByHolder(e))
              <= 0 + One(LapsedUnderHolder(e)) + One(rows'[e].status = "delivered") + One(SentByHolder(e)')
      BY <1>7, <2>2 DEF One
    <3>4. Account(e)'
      BY <1>9, <3>2, <3>3, AccountStep DEF AInv
    <3> QED BY <1>4, <1>5, <3>4 DEF AccountInv
  <2> QED BY <2>3, <2>4
<1> QED BY <1>10, <1>11

\* A process moves on with its event, or leaves it.
LEMMA AttemptKept ==
    ASSUME AInv, \A d \in Events : rows'[d].attempt = rows[d].attempt,
           \A v \in Workers : \/ wk'[v] = Idle
                              \/ wk'[v].event = wk[v].event /\ wk'[v].attempt = wk[v].attempt
    PROVE  AttemptInv'
<1> Idle.event \notin Events
  BY OutboxAssumption DEF Idle
<1> QED BY DEF AInv, AttemptInv

LEMMA OthersKept ==
    ASSUME AInv, TypeOK', NEW w \in Workers, NEW e \in Events, wk[w].event = e,
           \A v \in Workers : v # w => wk'[v] = wk[v], wk'[w].event = e \/ wk'[w] = Idle,
           \A d \in Events : d # e => rows'[d] = rows[d] /\ accepted'[d] = accepted[d],
           Faults <= Faults'
    PROVE  \A d \in Events : d # e => Account(d)'
<1> SUFFICES ASSUME NEW d \in Events, d # e PROVE Account(d)'
  OBVIOUS
<1>1. wk'[w].event # d
  BY OutboxAssumption DEF Idle
<1>2. \A v \in Workers : (wk[v].event = d \/ wk'[v].event = d) => wk'[v] = wk[v]
  BY <1>1
<1> QED BY <1>2, AccountKept DEF AInv, AccountInv

\* A process is busy with one event.
LEMMA BusyFacts ==
    ASSUME AInv, NEW w \in Workers, wk[w].pc # "idle"
    PROVE  /\ wk[w].event \in Events /\ wk[w] \in Busy
           /\ \A d \in Events : rows[d] \in [status : RowStatuses, attempt : 0..MaxAttempts, live : BOOLEAN]
BY WorkerFacts, RowFacts DEF AInv, Busy

LEMMA SendAccount ==
    ASSUME AInv, TypeOK', NEW w \in Workers, Send(w) PROVE AttemptInv' /\ AccountInv'
<1>0. PICK e \in Events : e = wk[w].event /\ wk[w].pc = "send"
  BY BusyFacts DEF Send
<1>1. wk[w].pc = "send" /\ e \in Events /\ wk[w].event = e /\ UNCHANGED rows
  BY <1>0 DEF Send
<1>2. /\ wk'[w].event = e /\ wk'[w].attempt = wk[w].attempt
      /\ \A v \in Workers : v # w => wk'[v] = wk[v]
      /\ \A d \in Events : d # e => accepted'[d] = accepted[d]
      /\ \/ /\ wk'[w].pc = "settle" /\ accepted'[e] \in {accepted[e], accepted[e] + 1}
            /\ UNCHANGED used
         \/ wk'[w].pc = "giveUp" /\ accepted'[e] = accepted[e] /\ UNCHANGED used
         \/ /\ wk'[w].pc = "giveUp" /\ accepted'[e] = accepted[e] + 1
            /\ used' = [used EXCEPT !.lost = used.lost + 1]
  BY <1>1, BusyFacts DEF Send, Goto, AInv, TypeOK, Busy
<1>3. AttemptInv'
  BY <1>1, <1>2, AttemptKept
<1>4. Faults \in Nat /\ accepted[e] \in Nat
  BY <1>1, CountFacts DEF AInv
<1>11. Faults' = Faults \/ Faults' = Faults + 1
  BY <1>2 DEF Faults, AInv, TypeOK
<1>5. \A d \in Events : d # e => Account(d)'
  <2>1. Faults <= Faults'
    BY <1>4, <1>11
  <2> QED BY <1>1, <1>2, <2>1, OthersKept
<1>6. \A v \in Workers : Holding(v, e)' <=> Holding(v, e)
  BY <1>1, <1>2 DEF Holding
<1>7. /\ LapsedUnderHolder(e)' <=> LapsedUnderHolder(e)
      /\ SentByHolder(e) => SentByHolder(e)'
      /\ Stragglers(e)' = Stragglers(e) \ {w}
      /\ rows'[e].status = rows[e].status
  <2>1. LapsedUnderHolder(e)' <=> LapsedUnderHolder(e)
    BY <1>1, <1>6 DEF LapsedUnderHolder
  <2>2. SentByHolder(e) => SentByHolder(e)'
    BY <1>1, <1>2, <1>6 DEF SentByHolder
  <2>3. Stragglers(e)' = Stragglers(e) \ {w}
    BY <1>1, <1>2, <1>6 DEF Stragglers
  <2> QED BY <1>1, <2>1, <2>2, <2>3
<1>8. PICK sends \in {0, 1}, lost \in {0, 1} :
          /\ accepted'[e] = accepted[e] + sends /\ Faults' = Faults + lost
          /\ sends = 1 => lost = 1 \/ wk'[w].pc = "settle"
  <2>1. accepted[e] = accepted[e] + 0 /\ Faults = Faults + 0
    BY <1>4
  <2>2. CASE UNCHANGED used
    <3>1. Faults' = Faults + 0
      BY <2>1, <2>2 DEF Faults
    <3>2. accepted'[e] = accepted[e] + 0 \/ (accepted'[e] = accepted[e] + 1 /\ wk'[w].pc = "settle")
      <4>1. used' # [used EXCEPT !.lost = used.lost + 1]
        BY <2>2 DEF AInv, TypeOK
      <4> QED BY <1>2, <2>1, <4>1
    <3>3. CASE accepted'[e] = accepted[e] + 0
      BY <3>1, <3>3
    <3>4. CASE accepted'[e] = accepted[e] + 1 /\ wk'[w].pc = "settle"
      BY <3>1, <3>4
    <3> QED BY <3>2, <3>3, <3>4
  <2>3. CASE accepted'[e] = accepted[e] + 1 /\ used' = [used EXCEPT !.lost = used.lost + 1]
    <3>1. Faults' = Faults + 1
      BY <2>3 DEF Faults, AInv, TypeOK
    <3> QED BY <2>3, <3>1
  <2> QED BY <1>2, <2>2, <2>3
<1>9. CASE Holding(w, e)
  <2>1. w \notin Stragglers(e)
    BY <1>9 DEF Stragglers
  <2>2. Cardinality(Stragglers(e)') = Cardinality(Stragglers(e)) + 0
    <3>1. Stragglers(e)' = Stragglers(e)
      BY <1>7, <2>1
    <3> QED BY <1>1, <3>1, CountFacts DEF AInv
  <2>3. sends = 1 => lost = 1 \/ (SentByHolder(e)' /\ ~SentByHolder(e))
    <3>1. ~SentByHolder(e)
      BY <1>1, <1>9, HolderFacts DEF SentByHolder, AInv
    <3>2. sends = 1 => lost = 1 \/ SentByHolder(e)'
      BY <1>6, <1>8, <1>9 DEF SentByHolder
    <3> QED BY <3>1, <3>2
  <2>4. sends + 0 + One(LapsedUnderHolder(e)') + One(rows[e].status = "delivered") + One(SentByHolder(e))
            <= lost + One(LapsedUnderHolder(e)) + One(rows'[e].status = "delivered") + One(SentByHolder(e)')
    BY <1>7, <2>3 DEF One
  <2>5. Account(e)'
    BY <1>1, <1>8, <2>2, <2>4, AccountStep DEF AInv, AccountInv
  <2> QED BY <1>3, <1>5, <2>5 DEF AccountInv
<1>10. CASE ~Holding(w, e)
  <2>1. w \in Stragglers(e)
    BY <1>1, <1>10 DEF Stragglers
  <2>2. Cardinality(Stragglers(e)') = Cardinality(Stragglers(e)) + (-1)
    BY <1>1, <1>7, <2>1, CountFacts, FS_RemoveElement DEF AInv
  <2>3. sends + (-1) + One(LapsedUnderHolder(e)') + One(rows[e].status = "delivered") + One(SentByHolder(e))
            <= lost + One(LapsedUnderHolder(e)) + One(rows'[e].status = "delivered") + One(SentByHolder(e)')
    BY <1>7 DEF One
  <2>4. Account(e)'
    BY <1>1, <1>8, <2>2, <2>3, AccountStep DEF AInv, AccountInv
  <2> QED BY <1>3, <1>5, <2>4 DEF AccountInv
<1> QED BY <1>9, <1>10

\* A fault pays for whatever the process held.
LEMMA FaultAccount ==
    ASSUME AInv, TypeOK', NEW w \in Workers, wk[w].pc # "idle", UNCHANGED <<rows, accepted>>,
           \A v \in Workers : v # w => wk'[v] = wk[v],
           \/ wk'[w] = Idle
           \/ wk'[w].event = wk[w].event /\ wk'[w].attempt = wk[w].attempt /\ wk'[w].pc # "send",
           Faults' = Faults + 1
    PROVE  AttemptInv' /\ AccountInv'
<1>0. PICK e \in Events : e = wk[w].event
  BY BusyFacts
<1>1. e \in Events /\ wk[w].event = e
  BY <1>0
<1>2. AttemptInv'
  BY AttemptKept
<1>3. Faults \in Nat
  BY <1>1, CountFacts DEF AInv
<1>4. \A d \in Events : d # e => Account(d)'
  <2>1. Faults <= Faults'
    BY <1>3
  <2> QED BY <1>1, <2>1, OthersKept
<1>5. \A v \in Workers : Holding(v, e)' => Holding(v, e)
  BY <1>1, OutboxAssumption DEF Holding, Idle
<1>6. \A v \in Workers : v # w => (Holding(v, e)' <=> Holding(v, e))
  BY DEF Holding
<1>7. wk'[w].pc # "send"
  BY DEF Idle
<1>8. /\ LapsedUnderHolder(e)' => LapsedUnderHolder(e)
      /\ Stragglers(e)' = Stragglers(e) \ {w}
  <2>1. LapsedUnderHolder(e)' => LapsedUnderHolder(e)
    BY <1>5 DEF LapsedUnderHolder
  <2>2. Stragglers(e)' = Stragglers(e) \ {w}
    BY <1>6, <1>7 DEF Stragglers
  <2> QED BY <2>1, <2>2
<1>9. PICK strays \in {-1, 0} : Cardinality(Stragglers(e)') = Cardinality(Stragglers(e)) + strays
  <2>1. Cardinality(Stragglers(e) \ {w}) = IF w \in Stragglers(e) THEN Cardinality(Stragglers(e)) - 1
                                           ELSE Cardinality(Stragglers(e))
    BY <1>1, CountFacts, FS_RemoveElement DEF AInv
  <2> QED BY <1>1, <1>8, <2>1, CountFacts DEF AInv
<1>10. 0 + strays + One(LapsedUnderHolder(e)') + One(rows[e].status = "delivered") + One(SentByHolder(e))
           <= 1 + One(LapsedUnderHolder(e)) + One(rows'[e].status = "delivered") + One(SentByHolder(e)')
  BY <1>8 DEF One
<1>11. Account(e)'
  <2>1. 0 \in Nat /\ 1 \in Nat /\ strays \in Int /\ accepted'[e] = accepted[e] + 0
    BY <1>1, CountFacts DEF AInv
  <2> QED BY <1>1, <1>9, <1>10, <2>1, AccountStep DEF AInv, AccountInv
<1> QED BY <1>2, <1>4, <1>11 DEF AccountInv

\* Settled by the holder: what it had sent counts as delivered.
LEMMA SettleAccount ==
    ASSUME AInv, TypeOK', NEW w \in Workers, wk[w].pc \in {"settle", "giveUp"}, Holds(w),
           NEW status \in {"queued", "delivered", "failed"}, Settle(w, status),
           wk[w].pc = "settle" => status = "delivered",
           wk' = [wk EXCEPT ![w] = Idle], UNCHANGED <<accepted, used>>
    PROVE  AttemptInv' /\ AccountInv'
<1>0. PICK e \in Events : e = wk[w].event
  BY BusyFacts
<1>1. e \in Events /\ wk[w].event = e /\ Holding(w, e) /\ rows[e].status = "leased"
  BY <1>0 DEF Holding, Holds
<1>2. /\ rows'[e].status = status /\ rows'[e].attempt = rows[e].attempt
      /\ \A d \in Events : d # e => rows'[d] = rows[d]
      /\ wk'[w] = Idle /\ \A v \in Workers : v # w => wk'[v] = wk[v]
  BY <1>1, BusyFacts DEF Settle, AInv, TypeOK
<1>3. AttemptInv'
  BY <1>2, AttemptKept
<1>4. Faults' = Faults /\ Faults \in Nat
  BY <1>1, CountFacts DEF AInv, Faults
<1>5. \A d \in Events : d # e => Account(d)'
  BY <1>1, <1>2, <1>4, OthersKept
<1>6. \A v \in Workers : ~Holding(v, e)' /\ (v # w => ~Holding(v, e))
  BY <1>1, <1>2, HolderFacts DEF Holding, AInv
<1>7. wk'[w].pc # "send"
  BY <1>2 DEF Idle
<1>8. ~LapsedUnderHolder(e)' /\ Stragglers(e)' = Stragglers(e) /\ (SentByHolder(e) => status = "delivered")
  <2>1. ~LapsedUnderHolder(e)'
    BY <1>6 DEF LapsedUnderHolder
  <2>2. Stragglers(e)' = Stragglers(e)
    BY <1>1, <1>2, <1>6, <1>7 DEF Stragglers
  <2>3. SentByHolder(e) => status = "delivered"
    BY <1>6 DEF SentByHolder
  <2> QED BY <2>1, <2>2, <2>3
<1>9. 0 + 0 + One(LapsedUnderHolder(e)') + One(rows[e].status = "delivered") + One(SentByHolder(e))
          <= 0 + One(LapsedUnderHolder(e)) + One(rows'[e].status = "delivered") + One(SentByHolder(e)')
  BY <1>1, <1>2, <1>8 DEF One
<1>10. Account(e)'
  <2>1. 0 \in Nat /\ 0 \in Int /\ accepted'[e] = accepted[e] + 0 /\ Faults' = Faults + 0
        /\ Cardinality(Stragglers(e)') = Cardinality(Stragglers(e)) + 0
    BY <1>1, <1>4, <1>8, CountFacts DEF AInv
  <2> QED BY <1>1, <1>9, <2>1, AccountStep DEF AInv, AccountInv
<1> QED BY <1>3, <1>5, <1>10 DEF AccountInv

\* Who lost the event can neither settle it nor owe anything for it.
LEMMA LoserAccount ==
    ASSUME AInv, TypeOK', NEW w \in Workers, wk[w].pc \in {"settle", "giveUp"}, ~Holds(w),
           UNCHANGED <<rows, accepted, used>>,
           \A v \in Workers : v # w => wk'[v] = wk[v],
           \/ wk'[w] = Idle
           \/ wk'[w].event = wk[w].event /\ wk'[w].attempt = wk[w].attempt /\ wk'[w].pc # "send"
    PROVE  AttemptInv' /\ AccountInv'
<1>0. PICK e \in Events : e = wk[w].event
  BY BusyFacts
<1>1. e \in Events /\ wk[w].event = e /\ ~Holding(w, e)
  BY <1>0 DEF Holding, Holds
<1>2. AttemptInv'
  BY AttemptKept
<1>3. Faults' = Faults /\ Faults \in Nat
  BY <1>1, CountFacts DEF AInv, Faults
<1>4. \A d \in Events : d # e => Account(d)'
  BY <1>1, <1>3, OthersKept
<1>5. ~Holding(w, e)' /\ \A v \in Workers : Holding(v, e)' <=> Holding(v, e)
  BY <1>1, OutboxAssumption DEF Holding, Idle
<1>6. wk'[w].pc # "send"
  BY DEF Idle
<1>7. /\ LapsedUnderHolder(e)' <=> LapsedUnderHolder(e)
      /\ SentByHolder(e)' <=> SentByHolder(e)
      /\ Stragglers(e)' = Stragglers(e)
  <2>1. LapsedUnderHolder(e)' <=> LapsedUnderHolder(e)
    BY <1>5 DEF LapsedUnderHolder
  <2>2. SentByHolder(e)' <=> SentByHolder(e)
    BY <1>1, <1>5 DEF SentByHolder
  <2>3. Stragglers(e)' = Stragglers(e)
    BY <1>5, <1>6 DEF Stragglers
  <2> QED BY <2>1, <2>2, <2>3
<1>8. 0 + 0 + One(LapsedUnderHolder(e)') + One(rows[e].status = "delivered") + One(SentByHolder(e))
          <= 0 + One(LapsedUnderHolder(e)) + One(rows'[e].status = "delivered") + One(SentByHolder(e)')
  BY <1>7 DEF One
<1>9. Account(e)'
  <2>1. 0 \in Nat /\ 0 \in Int /\ accepted'[e] = accepted[e] + 0 /\ Faults' = Faults + 0
        /\ Cardinality(Stragglers(e)') = Cardinality(Stragglers(e)) + 0
    BY <1>1, <1>3, <1>7, CountFacts DEF AInv
  <2> QED BY <1>1, <1>8, <2>1, AccountStep DEF AInv, AccountInv
<1> QED BY <1>2, <1>4, <1>9 DEF AccountInv

LEMMA DispatchAccount ==
    ASSUME AInv, TypeOK', NEW w \in Workers, Complete(w) \/ Fail(w) \/ Crash(w) PROVE AttemptInv' /\ AccountInv'
<1>1. wk[w].pc # "idle"
  BY DEF Complete, Fail, Crash, AInv, TypeOK, Idle
<1>2. ASSUME wk' = [wk EXCEPT ![w] = Idle] \/ Goto(w, "giveUp")
      PROVE  /\ \A v \in Workers : v # w => wk'[v] = wk[v]
             /\ \/ wk'[w] = Idle
                \/ wk'[w].event = wk[w].event /\ wk'[w].attempt = wk[w].attempt /\ wk'[w].pc # "send"
  BY <1>1, <1>2, BusyFacts DEF Goto, AInv, TypeOK, Busy
<1>3. wk' = [wk EXCEPT ![w] = Idle] \/ Goto(w, "giveUp")
  BY DEF Complete, Fail, Crash
<1>4. CASE /\ wk[w].pc \in {"settle", "giveUp"} /\ ~Holds(w) /\ UNCHANGED <<rows, accepted, used>>
  BY <1>2, <1>3, <1>4, LoserAccount
<1>5. CASE /\ UNCHANGED <<rows, accepted>>
           /\ \/ used' = [used EXCEPT !.errors = used.errors + 1]
              \/ used' = [used EXCEPT !.crashes = used.crashes + 1]
  <2>1. Faults' = Faults + 1
    BY <1>5 DEF Faults, AInv, TypeOK
  <2> QED BY <1>1, <1>2, <1>3, <1>5, <2>1, FaultAccount
<1>6. CASE /\ wk[w].pc = "settle" /\ Holds(w) /\ Settle(w, "delivered")
           /\ wk' = [wk EXCEPT ![w] = Idle] /\ UNCHANGED <<accepted, used>>
  BY <1>6, SettleAccount
<1>7. CASE /\ wk[w].pc = "giveUp" /\ Holds(w) /\ Settle(w, AfterFailure(w))
           /\ wk' = [wk EXCEPT ![w] = Idle] /\ UNCHANGED <<accepted, used>>
  <2>1. AfterFailure(w) \in {"queued", "delivered", "failed"}
    BY DEF AfterFailure
  <2> QED BY <1>7, <2>1, SettleAccount
<1> QED BY <1>4, <1>5, <1>6, <1>7 DEF Complete, Fail, Crash

LEMMA InitAccount == Init => AttemptInv /\ AccountInv
<1> SUFFICES ASSUME Init PROVE AttemptInv /\ AccountInv
  OBVIOUS
<1>1. \A w \in Workers : wk[w].event \notin Events
  BY OutboxAssumption DEF Init, Idle
<1>2. AttemptInv
  BY <1>1 DEF AttemptInv
<1>3. ASSUME NEW e \in Events PROVE Account(e)
  <2>1. accepted[e] = 0 /\ Faults = 0 /\ rows[e].status = "absent"
    BY DEF Init, Faults
  <2>2. Stragglers(e) = {} /\ ~SentByHolder(e) /\ ~LapsedUnderHolder(e)
    BY <1>1 DEF Stragglers, SentByHolder, LapsedUnderHolder, Holding
  <2>3. Cardinality(Stragglers(e)) = 0
    BY <2>2, FS_EmptySet
  <2> QED BY <2>1, <2>2, <2>3 DEF Account, One
<1> QED BY <1>2, <1>3 DEF AccountInv

\* What the service accepted is accounted for in every reachable state.
THEOREM AccountInvariant == Spec => [](AttemptInv /\ AccountInv)
<1>1. TypeOK /\ TypeOK' /\ AttemptInv /\ AccountInv /\ [Next]_vars => AttemptInv' /\ AccountInv'
  <2> SUFFICES ASSUME AInv, TypeOK', [Next]_vars PROVE AttemptInv' /\ AccountInv'
    BY DEF AInv
  <2>1. CASE UNCHANGED vars
    <3>1. UNCHANGED <<rows, wk, accepted, used>>
      BY <2>1 DEF vars
    <3>2. AttemptInv'
      BY <3>1 DEF AInv, AttemptInv
    <3>3. \A d \in Events : Faults <= Faults'
      BY <3>1, CountFacts DEF AInv, Faults
    <3>4. \A d \in Events : Account(d)'
      BY <3>1, <3>3, AccountKept DEF AInv, AccountInv
    <3> QED BY <3>2, <3>4 DEF AccountInv
  <2>2. CASE Next
    BY <2>2, EnqueueAccount, LapseAccount, ClaimAccount, SendAccount, DispatchAccount DEF Next, Dispatch
  <2> QED BY <2>1, <2>2
<1>2. IInv => TypeOK
  BY DEF IInv
<1> QED BY <1>1, <1>2, InitAccount, InductiveInvariant, PTL DEF Spec

\* An event that nobody dispatches any more was sent once if it counts as delivered, and beyond
\* that at most once per crash, stall, failed statement or lost answer, with any number of processes.
THEOREM DeliveriesAreAccounted == Spec => []DeliveriesAccounted
<1>1. TypeOK /\ AccountInv => DeliveriesAccounted
  <2> SUFFICES ASSUME TypeOK, AccountInv, NEW e \in Events, rows[e].status # "leased",
                      ~\E w \in Workers : wk[w].event = e
               PROVE  accepted[e] <= Faults + (IF rows[e].status = "delivered" THEN 1 ELSE 0)
    BY DEF DeliveriesAccounted
  <2>1. Stragglers(e) = {} /\ ~SentByHolder(e) /\ ~LapsedUnderHolder(e)
    BY DEF Stragglers, SentByHolder, LapsedUnderHolder, Holding
  <2>2. Cardinality(Stragglers(e)) = 0
    BY <2>1, FS_EmptySet
  <2>3. accepted[e] + 0 + 0 <= Faults + One(rows[e].status = "delivered") + 0
    BY <2>1, <2>2 DEF AccountInv, Account, One
  <2>4. accepted[e] \in Nat /\ Faults \in Nat
    BY CountFacts
  <2> QED BY <2>3, <2>4 DEF One
<1>2. IInv => TypeOK
  BY DEF IInv
<1> QED BY <1>1, <1>2, AccountInvariant, InductiveInvariant, PTL
=============================================================================
