---------------------------- MODULE MCDataflowJob ----------------------------
(* A plan of three nodes for the model checker.                            *)
EXTENDS DataflowJob

\* The join reads the source and the filtered rows.
JoinOrder == <<"source", "filter", "join">>
JoinParents == [n \in {"source", "filter", "join"} |->
    CASE n = "source" -> {} [] n = "filter" -> {"source"} [] n = "join" -> {"source", "filter"}]
=============================================================================
