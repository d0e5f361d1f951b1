---------------------------- MODULE MCWorkflowRun ----------------------------
(* Small definitions for the model checker.                               *)
EXTENDS WorkflowRun

\* Every kind of node on one of two paths: an end node that runs before a human operation,
\* and states around a human operation, a wait or both.
AllRoutes == [start   |-> {<<"draft">>, <<"end", "confirm">>},
              draft   |-> {<<"review">>, <<"hold">>},
              review  |-> {<<"filed">>, <<"hold">>},
              hold    |-> {<<"filed">>},
              filed   |-> {<<"end">>},
              confirm |-> {<<"end">>},
              end     |-> {<<>>}]
AllNodes == DOMAIN AllRoutes

\* Two states in a row, a human operation before a state, or a wait.
ShortRoutes == [start  |-> {<<"draft">>, <<"review">>, <<"hold">>},
                draft  |-> {<<"filed">>},
                review |-> {<<"filed">>},
                hold   |-> {<<"end">>},
                filed  |-> {<<"end">>},
                end    |-> {<<>>}]
ShortNodes == DOMAIN ShortRoutes

KindOf == [start |-> "auto", draft |-> "state", review |-> "operate", confirm |-> "operate",
           hold |-> "wait", filed |-> "state", end |-> "end"]
AllKind == KindOf
ShortKind == [n \in ShortNodes |-> KindOf[n]]

\* A human operation and a wait asked side by side.
PairRoutes == [start |-> {<<"review", "hold">>}, review |-> {<<"end">>},
               hold |-> {<<"end">>}, end |-> {<<>>}]
PairNodes == DOMAIN PairRoutes
PairKind == [n \in PairNodes |-> KindOf[n]]

\* A state selected beside a human operation that leads to another state.
BesideRoutes == [start |-> {<<"review", "draft">>}, review |-> {<<"filed">>},
                 draft |-> {<<"end">>}, filed |-> {<<"end">>}, end |-> {<<>>}]
BesideNodes == DOMAIN BesideRoutes
BesideKind == [n \in BesideNodes |-> KindOf[n]]

NoLegacy == {}
ReviewLegacy == {"review"}
=============================================================================
