----------------------------- MODULE WorkerChannels -----------------------------
(***************************************************************************)
(* The scheduling of background work inside one server process: a timer    *)
(* and finished requests wake the worker, a wake-up polls three channels   *)
(* (workflow jobs, dataflow jobs, data-source tests) that run side by side *)
(* on the event loop, and a signal shuts the process down.                 *)
(* Every action is one turn of the event loop, or one microtask.  What a   *)
(* poll does before it looks for a job (outbox, reconcilers) is part of    *)
(* looking.                                                                *)
(***************************************************************************)
EXTENDS Naturals

CONSTANTS
    Channels,       \* "workflow", "dataflow", "sourceTest"
    Woken,          \* channels whose producers wake the worker when they queue work
    Prompt,         \* channels whose jobs are known to end
    Signals,        \* SIGTERM, SIGINT: each runs the shutdown once
    MaxRequests,    \* bound: requests the server takes
    MaxWork         \* bound: jobs waiting in a channel

ASSUME ChannelAssumption ==
    /\ Woken \subseteq Channels /\ Prompt \subseteq Channels
    /\ MaxRequests \in Nat /\ MaxWork \in Nat

VARIABLES
    worker,         \* started, stopping and timer of workflow-worker.ts
    processing,     \* the channels' processing flags
    polls,          \* polls under way in each channel: looking for a job, working on one
    micro,          \* TRUE: a wake-up is queued as a microtask
    work,           \* jobs waiting in the database, by channel
    server,         \* the HTTP server: its state, requests taken and still running
    stops,          \* where each signal's shutdown stands
    pool            \* TRUE: the shared connection pool is open

vars == <<worker, processing, polls, micro, work, server, stops, pool>>

TypeOK ==
    /\ worker \in [started : BOOLEAN, stopping : BOOLEAN, timer : BOOLEAN]
    /\ processing \in [Channels -> BOOLEAN]
    /\ polls \in [Channels -> [looking : 0..1, working : 0..1]]
    /\ micro \in BOOLEAN
    /\ work \in [Channels -> 0..MaxWork]
    /\ server \in [state : {"listening", "closing", "closed"},
                   taken : 0..MaxRequests, running : 0..MaxRequests]
    /\ stops \in [Signals -> {"none", "closing", "draining", "drained", "closed", "timedOut"}]
    /\ pool \in BOOLEAN

Init ==
    /\ worker = [started |-> FALSE, stopping |-> FALSE, timer |-> FALSE]
    /\ processing = [c \in Channels |-> FALSE]
    /\ polls = [c \in Channels |-> [looking |-> 0, working |-> 0]]
    /\ micro = FALSE
    /\ work = [c \in Channels |-> 0]
    /\ server = [state |-> "listening", taken |-> 0, running |-> 0]
    /\ stops = [s \in Signals |-> "none"]
    /\ pool = TRUE

\* wakeWorkflowWorker
Wake == micro' = (micro \/ ~worker.stopping)

\* startWorkflowWorker, in the callback of server.listen.
Start ==
    /\ ~worker.started /\ \A s \in Signals : stops[s] = "none"
    /\ worker' = [started |-> TRUE, stopping |-> FALSE, timer |-> TRUE]
    /\ micro' = TRUE
    /\ UNCHANGED <<processing, polls, work, server, stops, pool>>

Tick ==
    /\ worker.timer
    /\ Wake
    /\ UNCHANGED <<worker, processing, polls, work, server, stops, pool>>

\* Faulty variant: one flag for all channels.
IdleAll(c) == \A d \in Channels : ~processing[d]

Idle(c) == ~processing[c]

\* Faulty variant: the microtask does not look again whether the worker stops.
PollAnyway ==
    /\ micro /\ micro' = FALSE
    /\ processing' = [c \in Channels |-> TRUE]
    /\ polls' = [c \in Channels |-> IF Idle(c) THEN [polls[c] EXCEPT !.looking = @ + 1] ELSE polls[c]]
    /\ UNCHANGED <<worker, work, server, stops, pool>>

\* The microtask of a wake-up: each idle channel starts a poll, which sets its flag at once.
Poll ==
    /\ micro /\ micro' = FALSE
    /\ IF worker.stopping THEN UNCHANGED <<processing, polls>>
       ELSE /\ processing' = [c \in Channels |-> TRUE]
            /\ polls' = [c \in Channels |-> IF Idle(c) THEN [polls[c] EXCEPT !.looking = @ + 1]
                                            ELSE polls[c]]
    /\ UNCHANGED <<worker, work, server, stops, pool>>

\* The poll claims a job.
Take(c) ==
    /\ polls[c].looking > 0 /\ work[c] > 0
    /\ polls' = [polls EXCEPT ![c] = [looking |-> @.looking - 1, working |-> @.working + 1]]
    /\ work' = [work EXCEPT ![c] = @ - 1]
    /\ UNCHANGED <<worker, processing, micro, server, stops, pool>>

\* The finally block of a poll.
Release(c) == processing' = [processing EXCEPT ![c] = FALSE]

\* There is no job, or the database refuses.
FindNothing(c) ==
    /\ polls[c].looking > 0
    /\ polls' = [polls EXCEPT ![c].looking = @ - 1]
    /\ Release(c)
    /\ UNCHANGED <<worker, micro, work, server, stops, pool>>

\* The job ends, well or badly.
Finish(c) ==
    /\ polls[c].working > 0
    /\ polls' = [polls EXCEPT ![c].working = @ - 1]
    /\ Release(c)
    /\ UNCHANGED <<worker, micro, work, server, stops, pool>>

TakeRequest ==
    /\ server.state = "listening" /\ server.taken < MaxRequests
    /\ server' = [server EXCEPT !.taken = @ + 1, !.running = @ + 1]
    /\ UNCHANGED <<worker, processing, polls, micro, work, stops, pool>>

\* A request ends; it may have queued a job.
EndRequest ==
    /\ server.running > 0
    /\ server' = [server EXCEPT !.running = @ - 1]
    /\ \/ UNCHANGED <<micro, work>>
       \/ \E c \in Channels :
            /\ work[c] < MaxWork
            /\ work' = [work EXCEPT ![c] = @ + 1]
            /\ IF c \in Woken THEN Wake ELSE UNCHANGED micro
    /\ UNCHANGED <<worker, processing, polls, stops, pool>>

(***************************************************************************)
(* Shutdown.                                                               *)
(***************************************************************************)

Signal(s) ==
    /\ worker.started \/ worker.stopping
    /\ stops[s] = "none"
    /\ stops' = [stops EXCEPT ![s] = "closing"]
    /\ server' = [server EXCEPT !.state = IF @ = "listening" THEN "closing" ELSE @]
    /\ UNCHANGED <<worker, processing, polls, micro, work, pool>>

CloseServer ==
    /\ server.state = "closing" /\ server.running = 0
    /\ server' = [server EXCEPT !.state = "closed"]
    /\ UNCHANGED <<worker, processing, polls, micro, work, stops, pool>>

\* stopWorkflowWorker, called when the server has closed.
BeginStop(s) ==
    /\ stops[s] = "closing" /\ server.state = "closed"
    /\ worker' = [started |-> FALSE, stopping |-> TRUE, timer |-> FALSE]
    /\ stops' = [stops EXCEPT ![s] = "draining"]
    /\ UNCHANGED <<processing, polls, micro, work, server, pool>>

\* anyChannelProcessing
Busy == \E c \in Channels : processing[c]

Drained(s) ==
    /\ stops[s] = "draining" /\ ~Busy
    /\ stops' = [stops EXCEPT ![s] = "drained"]
    /\ UNCHANGED <<worker, processing, polls, micro, work, server, pool>>

\* Faulty variant: the wait has no deadline.
GiveUpNever(s) == FALSE /\ UNCHANGED vars

\* timeoutMs has passed: stopWorkflowWorker throws, the shutdown logs and leaves the pool open.
GiveUp(s) ==
    /\ stops[s] = "draining" /\ Busy
    /\ stops' = [stops EXCEPT ![s] = "timedOut"]
    /\ UNCHANGED <<worker, processing, polls, micro, work, server, pool>>

ClosePool(s) ==
    /\ stops[s] = "drained"
    /\ pool' = FALSE
    /\ stops' = [stops EXCEPT ![s] = "closed"]
    /\ UNCHANGED <<worker, processing, polls, micro, work, server>>

Shutdown(s) == BeginStop(s) \/ Drained(s) \/ GiveUp(s) \/ ClosePool(s)

Next ==
    \/ Start \/ Tick \/ Poll
    \/ \E c \in Channels : Take(c) \/ FindNothing(c) \/ Finish(c)
    \/ TakeRequest \/ EndRequest \/ CloseServer
    \/ \E s \in Signals : Signal(s) \/ Shutdown(s)

Spec == Init /\ [][Next]_vars

\* The event loop runs what is due: the timer, microtasks and the steps of a poll.  A poll that
\* finds a job waiting takes it (SF: its claim may be refused by a failing database now and then).
\* Jobs end in the Prompt channels only; requests end, and the shutdown's deadline passes.
FairSpec ==
    /\ Spec
    /\ WF_vars(Start) /\ WF_vars(Tick) /\ WF_vars(Poll)
    /\ \A c \in Channels : SF_vars(Take(c)) /\ WF_vars(Take(c) \/ FindNothing(c))
    /\ \A c \in Prompt : WF_vars(Finish(c))
    /\ WF_vars(EndRequest) /\ WF_vars(CloseServer)
    /\ \A s \in Signals : WF_vars(Shutdown(s))

(***************************************************************************)
(* Properties.                                                             *)
(***************************************************************************)

\* The pool is closed only when no poll is under way and none can start: neither a wake-up
\* queued before the stop nor a channel still working finds it closed (stopWorkflowWorker).
PoolOutlivesWork ==
    ~pool => /\ \A c \in Channels : polls[c] = [looking |-> 0, working |-> 0]
             /\ worker.stopping

\* A channel's flag says exactly whether its one poll is under way; a flag left set would stop
\* the channel for good (the try/finally of the three poll functions).
FlagsExact ==
    \A c \in Channels :
        polls[c].looking + polls[c].working = (IF processing[c] THEN 1 ELSE 0)

\* A job waiting in a prompt channel is taken unless the worker stops, although wake-ups are
\* dropped while the channel is busy and other channels may hang: "a slow data connector must
\* not hold the state/control dispatcher" (workflow-worker.ts:122).
WorkTaken ==
    \A c \in Prompt : work[c] > 0 ~> (work[c] = 0 \/ worker.stopping)

\* A signal ends in a closed pool or a reported timeout, even when a job never ends.
ShutdownEnds ==
    \A s \in Signals : stops[s] = "closing" ~> stops[s] \in {"closed", "timedOut"}
=================================================================================
