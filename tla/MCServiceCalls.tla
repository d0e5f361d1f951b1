---------------------------- MODULE MCServiceCalls ----------------------------
(* A read, a probe with a breaker that trips at once, and an unsafe write. *)
EXTENDS ServiceCalls

SharedTasks == {"read", "probe", "write"}
TriesOf == [read |-> 3, probe |-> 2, write |-> 2]
ThresholdOf == [read |-> 2, probe |-> 1, write |-> 2]
LimitOf == [read |-> 1, probe |-> 1, write |-> 2]
SafeToRetry == {"read", "probe"}

\* One read alone.
OneRead == {"read"}
ReadTries == [read |-> 3]
ReadThreshold == [read |-> 2]
ReadLimit == [read |-> 1]
=============================================================================
