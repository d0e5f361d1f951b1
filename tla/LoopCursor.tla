------------------------------ MODULE LoopCursor ------------------------------
(***************************************************************************)
(* The loop cursor of an execution branch: how often each declared loop    *)
(* edge was traversed on the way here.  Cursors are values kept in the     *)
(* run's context; these operators restore, advance and merge them.  A      *)
(* persisted cursor is a sequence of entries; a valid one is a function    *)
(* from the loop edges traversed to their counts, so the canonical order   *)
(* of the code is the equality of functions.                               *)
(***************************************************************************)
EXTENDS Integers, Sequences, FiniteSetsExt, Functions

MaxIterations == 1000
MaxDurableSteps == 10000    \* MAX_DURABLE_WORKFLOW_STEPS

Refused == [refused |-> 0]    \* the code throws
AnyHandle == "any"
EmptyCursor == [e \in {} |-> 0]

CountOf(cursor, e) == IF e \in DOMAIN cursor THEN cursor[e] ELSE 0

\* Counts are never coerced: a duplicate or a count outside 1..1000 refuses the checkpoint.
Restore(entries) ==
    IF /\ IsInjective([i \in DOMAIN entries |-> entries[i].edgeId])
       /\ \A i \in DOMAIN entries : entries[i].count \in 1..MaxIterations
    THEN [e \in {entries[i].edgeId : i \in DOMAIN entries} |->
            (CHOOSE entry \in Range(entries) : entry.edgeId = e).count]
    ELSE Refused

\* limits: the loop edges of the run's definition and their maxIterations.
Validate(entries, limits) ==
    LET cursor == Restore(entries)
    IN  IF /\ cursor # Refused
           /\ Range(limits) \subseteq 1..MaxIterations
           /\ DOMAIN cursor \subseteq DOMAIN limits
           /\ \A e \in DOMAIN cursor : cursor[e] <= limits[e]
        THEN cursor ELSE Refused

Advance(cursor, e, limits) ==
    CASE e \notin DOMAIN limits -> cursor
      [] e \in DOMAIN limits /\ CountOf(cursor, e) + 1 > limits[e] -> Refused
      [] OTHER -> [d \in DOMAIN cursor \cup {e} |-> CountOf(cursor, d) + IF d = e THEN 1 ELSE 0]

MergeCursors(cursors) ==
    [e \in UNION {DOMAIN c : c \in cursors} |-> Max({CountOf(c, e) : c \in cursors})]

\* One cursor per successor; edges that lead to the same node are merged.  An edge is
\* a record of its id, source, target and handle; without a handle every edge is selected.
SuccessorCursors(cursor, edges, limits, source, next, handle) ==
    LET Selected(n) == {e \in edges : e.source = source /\ e.target = n /\ handle \in {AnyHandle, e.handle}}
        Advanced(n) == {Advance(cursor, e.id, limits) : e \in Selected(n)}
    IN  IF \E i \in DOMAIN next : Selected(next[i]) = {} \/ Refused \in Advanced(next[i])
        THEN Refused
        ELSE [i \in DOMAIN next |-> MergeCursors(Advanced(next[i]))]

\* workflowLoopVisitIdentity: node, branch and cursor; the enclosing scope is constant.
Visit(node, branch, cursor) == <<node, branch, cursor>>

\* The step budget: executionStepCount and executionChargedVisit.
Charge(budget, visit, max) ==
    CASE budget.visit = visit -> budget
      [] budget.visit # visit /\ budget.count >= max -> Refused
      [] OTHER -> [count |-> budget.count + 1, visit |-> visit]
===============================================================================
