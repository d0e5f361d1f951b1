---------------------------- MODULE MCParallelRun ----------------------------
(* Small broadcasting definitions for the model checker.                   *)
EXTENDS ParallelRun, MCLoopCursor, MCDefinitionGraph

KindOf == [start |-> "auto", fork |-> "router", outer |-> "router", inner |-> "router", ask |-> "operate", sign |-> "operate",
           check |-> "auto", hold |-> "message", clock |-> "timer", meet |-> "join",
           merge |-> "join", last |-> "join", side |-> "auto", left |-> "auto", right |-> "auto", end |-> "end"]
KindsOf(nodes) == [n \in nodes |-> KindOf[n]]
To(n) == {<<n>>}

\* One of two frames: a human branch and a message branch behind an automatic node, the only
\* one that may be dispatched; or a router inside a branch, whose join's output is one
\* branch's of the outer frame, and two edges behind it that meet again.
BothRoutes == [
    start |-> {<<"fork">>, <<"outer">>},
    fork  |-> {<<"ask", "check">>, <<"check">>},
    ask   |-> To("meet"), check |-> To("hold"), hold |-> To("meet"),
    outer |-> {<<"inner", "sign">>},
    inner |-> {<<"clock", "side">>, <<"side", "clock">>},
    clock |-> To("merge"), side |-> To("merge"), merge |-> To("last"), sign |-> To("last"),
    meet  |-> To("end"), last |-> {<<"left", "right">>},
    left  |-> To("end"), right |-> To("end"), end |-> {<<>>}]
BothNodes == DOMAIN BothRoutes
BothJoins == [fork |-> "meet", outer |-> "last", inner |-> "merge"]
BothKind == KindsOf(BothNodes)

\* Its frames nest and it runs one way.
BothDepth == [n \in BothNodes |->
    CASE n \in {"start", "fork", "outer", "left", "right", "end"} -> 0
      [] n \in {"inner", "ask", "check", "hold", "sign", "meet", "last"} -> 1
      [] n \in {"clock", "side", "merge"} -> 2]
BothRank == [n \in BothNodes |->
    CASE n = "start" -> 0 [] n \in {"fork", "outer"} -> 1
      [] n \in {"inner", "ask", "check", "sign"} -> 2 [] n \in {"hold", "clock", "side"} -> 3
      [] n \in {"meet", "merge"} -> 4 [] n = "last" -> 5 [] n \in {"left", "right"} -> 6 [] n = "end" -> 7]
ASSUME BothNest == Nodes = BothNodes => WellNested(BothDepth, BothRank)
ASSUME BothSplitLate == Nodes = BothNodes => SplitsLate({"left", "right", "end"})

MeetOnly == [fork |-> "meet"]

\* One branch splits into automatic nodes that both go to the join: its token arrives twice.
DiamondNodes == {"start", "fork", "ask", "check", "left", "right", "side", "meet", "end"}
DiamondRoutes == [n \in DiamondNodes |->
    CASE n = "start" -> To("fork") [] n = "fork" -> {<<"side", "check">>, <<"ask", "check">>}
      [] n = "check" -> {<<"left", "right">>}
      [] n \in {"ask", "left", "right", "side"} -> To("meet")
      [] n = "meet" -> To("end") [] n = "end" -> {<<>>}]
DiamondKind == KindsOf(DiamondNodes)

\* One branch splits without a router of its own: both its exits reach the join.
SplitNodes == {"start", "fork", "ask", "check", "side", "meet", "end"}
SplitRoutes == [n \in SplitNodes |->
    CASE n = "start" -> To("fork") [] n = "fork" -> {<<"check", "side">>}
      [] n = "check" -> {<<"meet", "ask">>}
      [] n \in {"ask", "side"} -> To("meet")
      [] n = "meet" -> To("end") [] n = "end" -> {<<>>}]
SplitKind == KindsOf(SplitNodes)

\* Two tasks in two branches, nothing else.
PairNodes == {"start", "fork", "ask", "clock", "meet", "end"}
PairRoutes == [n \in PairNodes |->
    CASE n = "start" -> To("fork") [] n = "fork" -> {<<"ask", "clock">>}
      [] n \in {"ask", "clock"} -> To("meet")
      [] n = "meet" -> To("end") [] n = "end" -> {<<>>}]
PairKind == KindsOf(PairNodes)

\* A definition the compiler accepts (Bypass of MCDefinitionGraph): a branch returns over a
\* loop edge to a node whose other exit is the end.
BypassNodes == {"start", "fork", "check", "left", "side", "meet", "end"}
BypassRoutes == [n \in BypassNodes |->
    CASE n = "start" -> To("fork") [] n = "fork" -> {<<"check", "side">>}
      [] n = "check" -> {<<"meet">>, <<"left">>} [] n = "left" -> {<<"check">>, <<"end">>}
      [] n = "side" -> To("meet")
      [] n = "meet" -> To("end") [] n = "end" -> {<<>>}]
BypassKind == KindsOf(BypassNodes)

NoLegacy == {}
AskLegacy == {"ask"}
=============================================================================
