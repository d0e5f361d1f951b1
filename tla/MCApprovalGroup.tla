---------------------------- MODULE MCApprovalGroup ----------------------------
(***************************************************************************)
(* Instances of ApprovalGroup: up to three members.                        *)
(***************************************************************************)
EXTENDS ApprovalGroup, TLC

CONSTANTS ann, bob, cyn, s1, s2

Vote(signers, mode, percent, legacy) ==
    [signers |-> signers, mode |-> mode, percent |-> percent, legacy |-> legacy]

\* Any of two, half of two (first asking for one or for both: the share is known to a basis
\* point), a third of three (first asking for one or for two), and two in order.  Two members leave
\* room for a third.
AnyOfTwo == Vote(<<ann, bob>>, "orSignFor", 10000, FALSE)
HalfOfTwo == Vote(<<ann, bob>>, "andSignFor", 5000, TRUE)
ThirdOfThree == Vote(<<ann, bob, cyn>>, "andSignFor", 3333, TRUE)
TwoInOrder == Vote(<<ann, bob>>, "sequentialSignFor", 10000, TRUE)
EveryForm == {AnyOfTwo, HalfOfTwo, ThirdOfThree, TwoInOrder}

\* Three who sign in order.
ThreeInOrder == {Vote(<<ann, bob, cyn>>, "sequentialSignFor", 10000, FALSE)}

\* Two events where they sign in order, so that a deactivated member's task can be moved; else one.
EventsOf == [f \in Forms |-> IF f = TwoInOrder THEN 2 ELSE 1]

RequestSymmetry == Permutations({s1, s2})
================================================================================
