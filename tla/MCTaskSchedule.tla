---------------------------- MODULE MCTaskSchedule ----------------------------
(***************************************************************************)
(* Instances of TaskSchedule: a vote of two to which a third can be added, *)
(* and a vote of one to which a second can be, beside a pool in another    *)
(* branch.                                                                 *)
(***************************************************************************)
EXTENDS TaskSchedule

CONSTANTS ann, bob, cyn

OneVote == <<"vote", "vote", "vote">>
Sequential == [g \in {"vote"} |-> "sequential"]
LateThird == <<{ann}, {bob}, {}>>

VoteAndPool == <<"vote", "vote", "pool">>
InOrder == [g \in {"vote", "pool"} |-> IF g = "vote" THEN "sequential" ELSE "single"]
LateSecond == <<{ann}, {}, {ann, bob}>>
===============================================================================
