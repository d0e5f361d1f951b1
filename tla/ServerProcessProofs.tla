--------------------------- MODULE ServerProcessProofs ---------------------------
(***************************************************************************)
(* Proofs about what lives in the memory of one server process: the        *)
(* polling and shutdown of its channels (WorkerChannels), for any channels *)
(* and signals, and its service calls (ServiceCalls), for any tasks,       *)
(* limits, thresholds and bounds.  The two share no variable; each part    *)
(* has an invariant of its own.                                            *)
(***************************************************************************)
EXTENDS WorkerChannels, ServiceCalls, TLAPS

(***************************************************************************)
(* Channels.  The pool may be closed because of three facts taken          *)
(* together: the flags are exact (FlagsExact), a shutdown that waited has  *)
(* seen all of them clear, and no flag is set again once the worker is     *)
(* stopping, because the microtask of a wake-up looks at stopping before   *)
(* it polls.                                                               *)
(***************************************************************************)

\* A shutdown past its first wait has set stopping; one past the second has seen every
\* channel idle, and they stay idle.
StopInv ==
    /\ \A s \in Signals : stops[s] \notin {"none", "closing"} => worker.stopping
    /\ \A s \in Signals : stops[s] \in {"drained", "closed"} => \A c \in Channels : ~processing[c]
    /\ ~pool => \E s \in Signals : stops[s] = "closed"

\* Only a request that was taken is running.
RequestInv == server.running <= server.taken

IInv == TypeOK /\ RequestInv /\ FlagsExact /\ StopInv

LEMMA InitInv == Init => IInv
<1> SUFFICES ASSUME Init PROVE IInv
  OBVIOUS
<1>1. worker \in [started : BOOLEAN, stopping : BOOLEAN, timer : BOOLEAN]
  BY DEF Init
<1>2. \A c \in Channels : ~processing[c] /\ polls[c] = [looking |-> 0, working |-> 0]
  BY DEF Init
<1>3. processing \in [Channels -> BOOLEAN] /\ micro \in BOOLEAN /\ pool \in BOOLEAN
  BY DEF Init
<1>4. polls \in [Channels -> [looking : 0..1, working : 0..1]]
  BY DEF Init
<1>5. /\ work \in [Channels -> 0..MaxWork]
      /\ server \in [state : {"listening", "closing", "closed"},
                     taken : 0..MaxRequests, running : 0..MaxRequests]
      /\ server.running <= server.taken
  BY ChannelAssumption DEF Init
<1>6. stops \in [Signals -> {"none", "closing", "draining", "drained", "closed", "timedOut"}]
  BY DEF Init
<1>7. TypeOK
  BY <1>1, <1>3, <1>4, <1>5, <1>6 DEF TypeOK
<1>8. FlagsExact
  <2> SUFFICES ASSUME NEW c \in Channels
               PROVE  polls[c].looking + polls[c].working = (IF processing[c] THEN 1 ELSE 0)
    BY DEF FlagsExact
  <2>1. ~processing[c]
    BY <1>2
  <2>2. polls[c].looking + polls[c].working = 0
    BY <1>2
  <2> QED BY <2>1, <2>2
<1>9. StopInv
  BY DEF Init, StopInv
<1> QED BY <1>5, <1>7, <1>8, <1>9 DEF IInv, RequestInv

\* What the flags mean for one channel.
LEMMA ChannelFacts ==
    ASSUME IInv, NEW c \in Channels
    PROVE  /\ polls[c] \in [looking : 0..1, working : 0..1] /\ processing[c] \in BOOLEAN
           /\ polls[c].looking > 0 => processing[c] /\ polls[c].looking = 1 /\ polls[c].working = 0
           /\ polls[c].working > 0 => processing[c] /\ polls[c].working = 1 /\ polls[c].looking = 0
           /\ ~processing[c] => polls[c].looking = 0 /\ polls[c].working = 0
BY DEF IInv, TypeOK, FlagsExact

\* The steps of a poll move one channel and leave the shutdown alone.
LEMMA PollStepInv ==
    ASSUME IInv, NEW c \in Channels, NEW after \in [looking : 0..1, working : 0..1],
           polls' = [polls EXCEPT ![c] = after],
           \/ processing' = processing /\ processing[c] /\ after.looking + after.working = 1
           \/ Release(c) /\ after.looking + after.working = 0,
           work' \in [Channels -> 0..MaxWork], UNCHANGED <<worker, micro, server, stops, pool>>
    PROVE  IInv'
<1>1. processing' \in [Channels -> BOOLEAN]
  BY DEF IInv, TypeOK, Release
<1>2. TypeOK'
  BY <1>1 DEF IInv, TypeOK
<1>3. /\ polls'[c] = after /\ \A d \in Channels : d # c => polls'[d] = polls[d]
      /\ \A d \in Channels : d # c => processing'[d] = processing[d]
      /\ \A d \in Channels : processing'[d] => processing[d]
      /\ after.looking + after.working = (IF processing'[c] THEN 1 ELSE 0)
  BY DEF IInv, TypeOK, Release
<1>4. FlagsExact'
  BY <1>3 DEF IInv, FlagsExact
<1>5. StopInv'
  BY <1>3 DEF IInv, StopInv
<1> QED BY <1>2, <1>4, <1>5 DEF IInv, RequestInv

LEMMA TakeInv ==
    ASSUME IInv, NEW c \in Channels, Take(c) PROVE IInv'
<1> DEFINE after == [looking |-> polls[c].looking - 1, working |-> polls[c].working + 1]
<1>1. after.looking + after.working = 1 /\ after \in [looking : 0..1, working : 0..1]
  BY ChannelFacts DEF Take
<1>2. processing[c] /\ processing' = processing
  BY ChannelFacts DEF Take
<1>3. polls' = [polls EXCEPT ![c] = after]
  BY DEF Take, IInv, TypeOK
<1>4. work' \in [Channels -> 0..MaxWork]
  BY ChannelAssumption DEF Take, IInv, TypeOK
<1> HIDE DEF after
<1> QED BY <1>1, <1>2, <1>3, <1>4, PollStepInv DEF Take

LEMMA EndPollInv ==
    ASSUME IInv, NEW c \in Channels, FindNothing(c) \/ Finish(c) PROVE IInv'
<1>1. CASE FindNothing(c)
  <2> DEFINE after == [polls[c] EXCEPT !.looking = @ - 1]
  <2>1. after.looking + after.working = 0 /\ after \in [looking : 0..1, working : 0..1]
    BY <1>1, ChannelFacts DEF FindNothing
  <2>2. polls' = [polls EXCEPT ![c] = after] /\ work' \in [Channels -> 0..MaxWork]
    BY <1>1 DEF FindNothing, IInv, TypeOK
  <2> HIDE DEF after
  <2> QED BY <1>1, <2>1, <2>2, PollStepInv DEF FindNothing
<1>2. CASE Finish(c)
  <2> DEFINE after == [polls[c] EXCEPT !.working = @ - 1]
  <2>1. after.looking + after.working = 0 /\ after \in [looking : 0..1, working : 0..1]
    BY <1>2, ChannelFacts DEF Finish
  <2>2. polls' = [polls EXCEPT ![c] = after] /\ work' \in [Channels -> 0..MaxWork]
    BY <1>2 DEF Finish, IInv, TypeOK
  <2> HIDE DEF after
  <2> QED BY <1>2, <2>1, <2>2, PollStepInv DEF Finish
<1> QED BY <1>1, <1>2

\* A wake-up's microtask starts polls only while the worker is not stopping, that is, while no
\* shutdown has waited for the channels.
LEMMA PollInv ==
    ASSUME IInv, Poll PROVE IInv'
<1>1. CASE worker.stopping
  BY <1>1 DEF Poll, IInv, TypeOK, RequestInv, FlagsExact, StopInv
<1>2. CASE ~worker.stopping
  <2>1. processing' = [c \in Channels |-> TRUE] /\ micro' = FALSE
    BY <1>2 DEF Poll
  <2>2. polls' = [c \in Channels |-> IF Idle(c) THEN [polls[c] EXCEPT !.looking = @ + 1] ELSE polls[c]]
    BY <1>2 DEF Poll
  <2>3. ASSUME NEW c \in Channels
        PROVE  /\ polls'[c] \in [looking : 0..1, working : 0..1]
               /\ polls'[c].looking + polls'[c].working = 1
    <3>1. CASE Idle(c)
      BY <2>2, <3>1, ChannelFacts DEF Idle
    <3>2. CASE ~Idle(c)
      BY <2>2, <3>2, ChannelFacts DEF Idle, IInv, FlagsExact
    <3> QED BY <3>1, <3>2
  <2>4. FlagsExact'
    BY <2>1, <2>3 DEF FlagsExact
  <2>5. UNCHANGED <<worker, work, server, stops, pool>>
    BY DEF Poll
  <2>6. polls' \in [Channels -> [looking : 0..1, working : 0..1]]
    BY <2>2, <2>3
  <2>7. TypeOK'
    BY <2>1, <2>5, <2>6 DEF IInv, TypeOK
  <2>8. StopInv'
    BY <1>2, <2>5 DEF IInv, StopInv
  <2> QED BY <2>4, <2>5, <2>7, <2>8 DEF IInv, RequestInv
<1>3. worker.stopping \in BOOLEAN
  BY DEF IInv, TypeOK
<1> QED BY <1>1, <1>2, <1>3

LEMMA WakingInv ==
    ASSUME IInv, Start \/ Tick PROVE IInv'
<1>1. CASE Start
  <2>1. TypeOK' /\ FlagsExact' /\ RequestInv'
    BY <1>1 DEF Start, IInv, TypeOK, FlagsExact, RequestInv
  <2>2. StopInv'
    BY <1>1 DEF Start, IInv, StopInv
  <2> QED BY <2>1, <2>2 DEF IInv
<1>2. CASE Tick
  <2>1. micro' \in BOOLEAN
    BY <1>2 DEF Tick, Wake, IInv, TypeOK
  <2> QED BY <1>2, <2>1 DEF Tick, IInv, TypeOK, RequestInv, FlagsExact, StopInv
<1> QED BY <1>1, <1>2

LEMMA RequestsInv ==
    ASSUME IInv, TakeRequest \/ EndRequest \/ CloseServer PROVE IInv'
<1>1. UNCHANGED <<worker, processing, polls, stops, pool>>
  BY DEF TakeRequest, EndRequest, CloseServer
<1>2. /\ server' \in [state : {"listening", "closing", "closed"},
                      taken : 0..MaxRequests, running : 0..MaxRequests]
      /\ server'.running <= server'.taken
  <2>1. CASE TakeRequest
    <3>1. /\ server \in [state : {"listening", "closing", "closed"},
                         taken : 0..MaxRequests, running : 0..MaxRequests]
          /\ server.running <= server.taken /\ server.taken < MaxRequests
      BY <2>1 DEF TakeRequest, IInv, TypeOK, RequestInv
    <3>2. server.taken + 1 \in 0..MaxRequests /\ server.running + 1 \in 0..MaxRequests
      BY <3>1, ChannelAssumption
    <3>3. server' = [server EXCEPT !.taken = server.taken + 1, !.running = server.running + 1]
      BY <2>1 DEF TakeRequest
    <3>4. server'.taken = server.taken + 1 /\ server'.running = server.running + 1
      BY <3>1, <3>3
    <3>5. server'.running <= server'.taken
      BY <3>1, <3>4, ChannelAssumption
    <3>6. server' \in [state : {"listening", "closing", "closed"},
                      taken : 0..MaxRequests, running : 0..MaxRequests]
      BY <3>1, <3>2, <3>3
    <3> QED BY <3>5, <3>6
  <2>2. CASE EndRequest
    BY <2>2, ChannelAssumption DEF EndRequest, IInv, TypeOK, RequestInv
  <2>3. CASE CloseServer
    BY <2>3 DEF CloseServer, IInv, TypeOK, RequestInv
  <2> QED BY <2>1, <2>2, <2>3
<1>3. micro' \in BOOLEAN
  BY DEF TakeRequest, EndRequest, CloseServer, Wake, IInv, TypeOK
<1>4. work' \in [Channels -> 0..MaxWork]
  BY ChannelAssumption DEF TakeRequest, EndRequest, CloseServer, IInv, TypeOK
<1> QED BY <1>1, <1>2, <1>3, <1>4 DEF IInv, TypeOK, RequestInv, FlagsExact, StopInv

LEMMA ShutdownInv ==
    ASSUME IInv, NEW s \in Signals, Signal(s) \/ Shutdown(s) PROVE IInv'
<1>1. UNCHANGED <<processing, polls, micro, work>>
  BY DEF Signal, Shutdown, BeginStop, Drained, GiveUp, ClosePool
<1>2. FlagsExact' /\ RequestInv'
  BY <1>1 DEF IInv, TypeOK, FlagsExact, RequestInv, Signal, Shutdown, BeginStop, Drained, GiveUp,
     ClosePool
<1>3. CASE Signal(s)
  <2>1. TypeOK'
    BY <1>3 DEF Signal, IInv, TypeOK
  <2>2. StopInv'
    BY <1>3 DEF Signal, IInv, TypeOK, StopInv
  <2> QED BY <1>2, <2>1, <2>2 DEF IInv
<1>4. CASE BeginStop(s)
  <2>1. TypeOK'
    BY <1>4 DEF BeginStop, IInv, TypeOK
  <2>2. StopInv'
    BY <1>4 DEF BeginStop, IInv, TypeOK, StopInv
  <2> QED BY <1>2, <2>1, <2>2 DEF IInv
<1>5. CASE Drained(s)
  <2>1. TypeOK'
    BY <1>5 DEF Drained, IInv, TypeOK
  <2>2. StopInv'
    BY <1>5 DEF Drained, Busy, IInv, TypeOK, StopInv
  <2> QED BY <1>2, <2>1, <2>2 DEF IInv
<1>6. CASE GiveUp(s)
  <2>1. TypeOK'
    BY <1>6 DEF GiveUp, IInv, TypeOK
  <2>2. StopInv'
    BY <1>6 DEF GiveUp, IInv, TypeOK, StopInv
  <2> QED BY <1>2, <2>1, <2>2 DEF IInv
<1>7. CASE ClosePool(s)
  <2>1. TypeOK'
    BY <1>7 DEF ClosePool, IInv, TypeOK
  <2>2. StopInv'
    BY <1>7 DEF ClosePool, IInv, TypeOK, StopInv
  <2> QED BY <1>2, <2>1, <2>2 DEF IInv
<1> QED BY <1>3, <1>4, <1>5, <1>6, <1>7 DEF Shutdown

LEMMA NextInv == IInv /\ [Next]_vars => IInv'
<1>1. IInv /\ UNCHANGED vars => IInv'
  BY DEF IInv, vars, TypeOK, RequestInv, FlagsExact, StopInv
<1> QED BY <1>1, TakeInv, EndPollInv, PollInv, WakingInv, RequestsInv, ShutdownInv DEF Next

\* The invariant is inductive.
THEOREM InductiveInvariant == Spec => []IInv
<1> QED BY InitInv, NextInv, PTL DEF Spec

\* Every variable keeps its type.
THEOREM TypeCorrect == Spec => []TypeOK
<1>1. IInv => TypeOK
  BY DEF IInv
<1> QED BY <1>1, InductiveInvariant, PTL

\* A channel's processing flag is set exactly while its one poll is under way (the polls'
\* try/finally).
THEOREM FlagsAreExact == Spec => []FlagsExact
<1>1. IInv => FlagsExact
  BY DEF IInv
<1> QED BY <1>1, InductiveInvariant, PTL

\* The pool is never closed under a poll, and no poll starts after it is closed
\* (stopWorkflowWorker, then closeDb).
THEOREM PoolClosesLast == Spec => []PoolOutlivesWork
<1>1. IInv => PoolOutlivesWork
  <2> SUFFICES ASSUME IInv, ~pool PROVE PoolOutlivesWork
    BY DEF PoolOutlivesWork
  <2>1. PICK s \in Signals : stops[s] = "closed"
    BY DEF IInv, StopInv
  <2>2. worker.stopping /\ \A c \in Channels : ~processing[c]
    BY <2>1 DEF IInv, StopInv
  <2>3. \A c \in Channels : polls[c] = [looking |-> 0, working |-> 0]
    BY <2>2, ChannelFacts
  <2> QED BY <2>2, <2>3 DEF PoolOutlivesWork
<1> QED BY <1>1, InductiveInvariant, PTL

(***************************************************************************)
(* Service calls.  The breaker forgets failures when an entry that is not  *)
(* open is met (Admit), but never invents one: what it counts is part of   *)
(* the present run of failures (CountInv).                                 *)
(***************************************************************************)

\* What is in the three maps, and a task for every call.
CallMaps ==
    /\ call \in [Processes -> [pc : {"check", "calling", "backoff"}, task : Tasks, attempt : Nat]
                                  \cup {NoCall}]
    /\ circuit \in [Processes -> [failures : Nat, open : BOOLEAN]]
    /\ active \in [Processes -> Nat] /\ streak \in [Processes -> Nat]

CountInv == \A p \in Processes : circuit[p].failures <= streak[p]

\* A map with one entry replaced.
At(f, p, v) == [f EXCEPT ![p] = v]

CallsInv == CallMaps /\ CountInv /\ SlotsExact

Calls == [pc : {"check", "calling", "backoff"}, task : Tasks, attempt : Nat]
Entries == [failures : Nat, open : BOOLEAN]

-----------------------------------------------------------------------------
LEMMA CallsInitInv == CallsInit => CallsInv
<1> SUFFICES ASSUME CallsInit PROVE CallsInv
  OBVIOUS
<1>1. Closed \in Entries /\ Closed.failures = 0 /\ NoCall.pc = "idle"
  BY DEF Closed, Entries, NoCall
<1>2. CallMaps
  BY <1>1 DEF CallsInit, CallMaps, Entries
<1>3. CountInv
  BY <1>1 DEF CallsInit, CountInv
<1>4. SlotsExact
  BY <1>1 DEF CallsInit, SlotsExact
<1> QED BY <1>2, <1>3, <1>4 DEF CallsInv

\* One process moves to a state of its own that is sound.
LEMMA ProcessStep ==
    ASSUME CallsInv, NEW p \in Processes,
           NEW c \in Calls \cup {NoCall}, call' = At(call, p, c),
           NEW entry \in Entries, circuit' = At(circuit, p, entry),
           NEW slots \in Nat, active' = At(active, p, slots),
           NEW run \in Nat, streak' = At(streak, p, run),
           entry.failures <= run,
           slots = (IF c.pc = "calling" THEN 1 ELSE 0)
    PROVE  CallsInv'
<1>1. CallMaps'
  BY DEF CallsInv, CallMaps, Calls, Entries, At
<1>2. /\ call'[p] = c /\ circuit'[p] = entry /\ active'[p] = slots /\ streak'[p] = run
      /\ \A q \in Processes : q # p => /\ call'[q] = call[q] /\ circuit'[q] = circuit[q]
                                       /\ active'[q] = active[q] /\ streak'[q] = streak[q]
  BY DEF CallsInv, CallMaps, At
<1>3. CountInv'
  BY <1>2 DEF CallsInv, CountInv
<1>4. SlotsExact'
  BY <1>2 DEF CallsInv, SlotsExact
<1> QED BY <1>1, <1>3, <1>4 DEF CallsInv

LEMMA CallFacts ==
    ASSUME CallsInv, NEW p \in Processes
    PROVE  /\ call[p] \in Calls \cup {NoCall} /\ circuit[p] \in Entries
           /\ call[p].pc # "idle" => call[p] \in Calls
           /\ active[p] \in Nat /\ streak[p] \in Nat
           /\ circuit[p].failures <= streak[p]
           /\ active[p] = (IF call[p].pc = "calling" THEN 1 ELSE 0)
           /\ call = At(call, p, call[p]) /\ circuit = At(circuit, p, circuit[p])
           /\ active = At(active, p, active[p]) /\ streak = At(streak, p, streak[p])
BY DEF CallsInv, CallMaps, CountInv, SlotsExact, Calls, Entries, NoCall, At

LEMMA ConstantFacts ==
    /\ NoCall.pc = "idle" /\ NoCall \in Calls \cup {NoCall}
    /\ Closed \in Entries /\ Closed.failures = 0 /\ Closed.open = FALSE
BY DEF NoCall, Closed, Entries

LEMMA StartInv ==
    ASSUME CallsInv, NEW p \in Processes, NEW t \in Tasks, StartCall(p, t) PROVE CallsInv'
<1> DEFINE c == [pc |-> "check", task |-> t, attempt |-> 1]
<1>1. c \in Calls /\ c.pc = "check" /\ call' = At(call, p, c)
  BY DEF Calls, StartCall, At
<1>2. call[p].pc = "idle" /\ UNCHANGED <<circuit, active, streak>>
  BY ConstantFacts DEF StartCall
<1> HIDE DEF c
<1> QED BY <1>1, <1>2, CallFacts, ProcessStep

LEMMA AdmitInv ==
    ASSUME CallsInv, NEW p \in Processes, Admit(p) PROVE CallsInv'
<1>1. call[p].pc = "check" /\ UNCHANGED streak
  BY DEF Admit
<1>2. CASE call' = At(call, p, NoCall) /\ UNCHANGED <<circuit, active>>
  BY <1>1, <1>2, CallFacts, ConstantFacts, ProcessStep
<1>3. ASSUME call' = [call EXCEPT ![p].pc = "calling"], circuit' = At(circuit, p, Closed),
             active' = [active EXCEPT ![p] = @ + 1]
      PROVE  CallsInv'
  <2> DEFINE c == [call[p] EXCEPT !.pc = "calling"]
  <2>1. c \in Calls /\ c.pc = "calling"
    BY <1>1, CallFacts DEF Calls
  <2>2. call' = At(call, p, c)
    BY <1>3 DEF At
  <2>3. active' = At(active, p, 1)
    <3>1. active[p] = 0
      BY <1>1, CallFacts
    <3> QED BY <1>3, <3>1 DEF At
  <2> HIDE DEF c
  <2> QED BY <1>1, <1>3, <2>1, <2>2, <2>3, CallFacts, ConstantFacts, ProcessStep
<1> QED BY <1>2, <1>3 DEF Admit, At

\* An attempt that ends gives its slot back.
LEMMA ReleaseFacts ==
    ASSUME CallsInv, NEW p \in Processes, call[p].pc = "calling", ReleaseSlot(p)
    PROVE  active' = At(active, p, 0)
<1>1. active[p] = 1
  BY CallFacts DEF At
<1> QED BY <1>1 DEF ReleaseSlot, At

LEMMA SucceedInv ==
    ASSUME CallsInv, NEW p \in Processes, Succeed(p) PROVE CallsInv'
<1>1. /\ call' = At(call, p, NoCall) /\ circuit' = At(circuit, p, Closed)
      /\ streak' = At(streak, p, 0) /\ active' = At(active, p, 0)
  BY ReleaseFacts DEF Succeed, At
<1> QED BY <1>1, CallFacts, ConstantFacts, ProcessStep

LEMMA FailCallInv ==
    ASSUME CallsInv, NEW p \in Processes, FailCall(p) PROVE CallsInv'
<1> DEFINE failures == circuit[p].failures + 1
           entry == [failures |-> failures, open |-> Opens(p, failures)]
<1>1. call[p].pc = "calling" /\ call[p] \in Calls
  BY CallFacts DEF FailCall
<1>2. entry \in Entries /\ entry.failures <= streak[p] + 1 /\ streak[p] + 1 \in Nat
  <2>1. circuit[p].failures \in Nat /\ streak[p] \in Nat /\ circuit[p].failures <= streak[p]
    BY CallFacts DEF Entries
  <2>2. Opens(p, failures) \in BOOLEAN
    BY DEF Opens
  <2> HIDE DEF failures
  <2>3. entry \in Entries
    <3>1. failures \in Nat
      BY <2>1 DEF failures
    <3> QED BY <2>2, <3>1 DEF Entries
  <2>4. entry.failures = circuit[p].failures + 1
    BY DEF failures
  <2> QED BY <2>1, <2>3, <2>4
<1>3. circuit' = At(circuit, p, entry) /\ streak' = At(streak, p, streak[p] + 1)
  BY DEF FailCall, At
<1>4. active' = At(active, p, 0)
  BY <1>1, ReleaseFacts DEF FailCall, At
<1> HIDE DEF entry, failures
<1>5. PICK c \in {[call[p] EXCEPT !.pc = "backoff"], NoCall} : call' = At(call, p, c)
  BY DEF FailCall, At
<1>6. c \in Calls \cup {NoCall} /\ c.pc # "calling"
  BY <1>1, <1>5, ConstantFacts DEF Calls
<1> QED BY <1>2, <1>3, <1>4, <1>5, <1>6, ProcessStep

LEMMA EndBackoffInv ==
    ASSUME CallsInv, NEW p \in Processes, EndBackoff(p) PROVE CallsInv'
<1> DEFINE c == [call[p] EXCEPT !.pc = "check", !.attempt = @ + 1]
<1>1. call[p].pc = "backoff" /\ call[p] \in Calls
  BY CallFacts DEF EndBackoff
<1>2. c \in Calls /\ c.pc = "check"
  <2>1. call[p].attempt + 1 \in Nat
    BY <1>1 DEF Calls
  <2> QED BY <1>1, <2>1 DEF Calls
<1>3. call' = At(call, p, c)
  BY DEF EndBackoff, CallsInv, CallMaps, At
<1>4. UNCHANGED <<circuit, active, streak>>
  BY DEF EndBackoff
<1> HIDE DEF c
<1> QED BY <1>1, <1>2, <1>3, <1>4, CallFacts, ProcessStep

LEMMA CircuitLapsesInv ==
    ASSUME CallsInv, NEW p \in Processes, CircuitLapses(p) PROVE CallsInv'
<1> DEFINE entry == [circuit[p] EXCEPT !.open = FALSE]
<1>1. entry \in Entries /\ entry.failures <= streak[p]
  BY CallFacts DEF Entries
<1>2. circuit' = At(circuit, p, entry) /\ UNCHANGED <<call, active, streak>>
  BY DEF CircuitLapses, At
<1> HIDE DEF entry
<1> QED BY <1>1, <1>2, CallFacts, ProcessStep

LEMMA RestartInv ==
    ASSUME CallsInv, NEW p \in Processes, Restart(p) PROVE CallsInv'
<1>1. /\ call' = At(call, p, NoCall) /\ circuit' = At(circuit, p, Closed)
      /\ active' = At(active, p, 0) /\ streak' = At(streak, p, 0)
  BY DEF Restart, At
<1> QED BY <1>1, ConstantFacts, ProcessStep

LEMMA CallsNextInv == CallsInv /\ [CallsNext]_callVars => CallsInv'
<1>1. CallsInv /\ UNCHANGED callVars => CallsInv'
  BY DEF CallsInv, callVars, CallMaps, CountInv, SlotsExact
<1> QED BY <1>1, StartInv, AdmitInv, SucceedInv, FailCallInv, EndBackoffInv, CircuitLapsesInv, RestartInv
        DEF CallsNext, CallStep

-----------------------------------------------------------------------------
\* The invariant is inductive.
THEOREM CallsInductive == CallsSpec => []CallsInv
<1> QED BY CallsInitInv, CallsNextInv, PTL DEF CallsSpec

\* Every way out of an attempt gives the concurrency slot back, once
\* (acquireServiceConcurrency and its finally).
THEOREM SlotsAreExact == CallsSpec => []SlotsExact
<1>1. CallsInv => SlotsExact
  BY DEF CallsInv
<1> QED BY <1>1, CallsInductive, PTL

LEMMA OpenStep ==
    ASSUME CallsInv, [CallsNext]_callVars, NEW p \in Processes, circuit'[p].open, ~circuit[p].open
    PROVE  streak'[p] >= Threshold[call[p].task]
<1>1. circuit'[p] # circuit[p]
  OBVIOUS
<1>2. circuit \in [Processes -> Entries] /\ Closed.open = FALSE
  BY ConstantFacts DEF CallsInv, CallMaps, Entries
<1>3. ASSUME NEW q \in Processes, Admit(q) \/ Succeed(q) \/ CircuitLapses(q) \/ Restart(q)
      PROVE  circuit'[p] = circuit[p] \/ ~circuit'[p].open
  BY <1>2, <1>3 DEF Admit, Succeed, CircuitLapses, Restart, Entries
<1>4. ASSUME NEW q \in Processes, NEW t \in Tasks, StartCall(q, t)
      PROVE  circuit'[p] = circuit[p]
  BY <1>4 DEF StartCall
<1>5. ASSUME NEW q \in Processes, EndBackoff(q) PROVE circuit'[p] = circuit[p]
  BY <1>5 DEF EndBackoff
<1>6. PICK q \in Processes : FailCall(q)
  BY <1>1, <1>3, <1>4, <1>5 DEF CallsNext, CallStep, callVars
<1>7. q = p
  BY <1>1, <1>2, <1>6 DEF FailCall
<1>8. circuit'[p].open = (circuit[p].failures + 1 >= Threshold[call[p].task])
  BY <1>2, <1>6, <1>7 DEF FailCall, Opens
<1>9. streak'[p] = streak[p] + 1
  BY <1>6, <1>7 DEF FailCall, CallsInv, CallMaps
<1>10. /\ circuit[p].failures \in Nat /\ streak[p] \in Nat /\ circuit[p].failures <= streak[p]
       /\ Threshold[call[p].task] \in Nat
  <2>1. call[p].task \in Tasks
    BY <1>6, <1>7, CallFacts DEF FailCall, Calls
  <2> QED BY <2>1, CallFacts, ServiceAssumption DEF Entries
<1>11. circuit[p].failures + 1 >= Threshold[call[p].task]
  BY <1>8
<1> QED BY <1>9, <1>10, <1>11

\* The breaker opens only after as many failures in a row as the failing task's threshold,
\* whichever tasks share the key and however often the process restarts (executeHttpServiceTask).
THEOREM OpensOnlyOnFailures == CallsSpec => OpenEarned
<1>1. CallsInv /\ [CallsNext]_callVars =>
        [\A p \in Processes : circuit'[p].open /\ ~circuit[p].open
                                  => streak'[p] >= Threshold[call[p].task]]_callVars
  BY OpenStep
<1> QED BY <1>1, CallsInductive, PTL DEF CallsSpec, OpenEarned
=================================================================================
