----------------------------- MODULE MCLoopCursor -----------------------------
(***************************************************************************)
(* The loop cursor against its reference definitions: nested loops with an *)
(* edge out and two ways back, walked from the start for up to seven edges.*)
(***************************************************************************)
EXTENDS LoopCursor, SequencesExt

Edge(id, source, target, handle) == [id |-> id, source |-> source, target |-> target, handle |-> handle]

\* review returns to draft ("again" or "also", both on "no") and to start ("outer").
LoopEdges == {
    Edge("in", "start", "draft", "ok"), Edge("on", "draft", "review", "ok"),
    Edge("again", "review", "draft", "no"), Edge("also", "review", "draft", "no"),
    Edge("outer", "review", "start", "ok"), Edge("self", "draft", "draft", "no"),
    Edge("out", "review", "end", "ok")}
Limits == [e \in {"again", "also", "outer", "self"} |-> IF e = "again" THEN 1 ELSE 2]
Tighter == [Limits EXCEPT !["self"] = 1]
Ids == {e.id : e \in LoopEdges}

Reached(w) == IF w = <<>> THEN "start" ELSE Last(w).target

\* Walks along the edges from the start.
Longer(walks) == walks \cup UNION {{Append(w, e) : e \in {d \in LoopEdges : d.source = Reached(w)}} : w \in walks}
Walks == LET walk[n \in 0..7] == IF n = 0 THEN {<<>>} ELSE Longer(walk[n - 1]) IN walk[7]

Along(w) == FoldLeft(LAMBDA c, e : IF c = Refused THEN c ELSE Advance(c, e.id, Limits), EmptyCursor, w)
Traversed(w, id) == Cardinality({i \in DOMAIN w : w[i].id = id})
Prefix(w, n) == SubSeq(w, 1, n)

\* Every cursor within the limits, and the ways to persist it.
Cursors == UNION {{c \in [dom -> 1..2] : \A e \in dom : c[e] <= Limits[e]} : dom \in SUBSET DOMAIN Limits}
Saved(c) == {[i \in DOMAIN order |-> [edgeId |-> order[i], count |-> c[order[i]]]] : order \in SetToSeqs(DOMAIN c)}
Leq(c, d) == \A e \in DOMAIN Limits : CountOf(c, e) <= CountOf(d, e)

\* Along every walk the cursor counts the traversals of each loop edge and no other edge,
\* and the walk is refused exactly when some loop edge was taken more often than allowed.
ASSUME CursorCountsTraversals == \A w \in Walks :
    IF \E id \in DOMAIN Limits : Traversed(w, id) > Limits[id]
    THEN Along(w) = Refused
    ELSE \A id \in Ids : CountOf(Along(w), id) = IF id \in DOMAIN Limits THEN Traversed(w, id) ELSE 0

\* Two visits of one node on one walk have different cursors (the compiler wants a loop edge
\* in every cycle), so their tasks, waits and node runs have different identities.
ASSUME VisitsDiffer == \A w \in Walks : Along(w) # Refused =>
    \A i, j \in 0..Len(w) : (i < j /\ Reached(Prefix(w, i)) = Reached(Prefix(w, j))) =>
        Along(Prefix(w, i)) # Along(Prefix(w, j))

\* A checkpoint restores to the cursor it was saved from, in whatever order its entries
\* are; one of another definition or with a repeated edge is refused.
ASSUME SavedRestores == \A c \in Cursors : \A entries \in Saved(c) :
    /\ Restore(entries) = c /\ Validate(entries, Limits) = c
    /\ Validate(entries, Tighter) = IF CountOf(c, "self") > 1 THEN Refused ELSE c
    /\ Validate(entries, [e \in {"again"} |-> 1]) = IF DOMAIN c \subseteq {"again"} THEN c ELSE Refused
    /\ entries # <<>> => Restore(Append(entries, entries[1])) = Refused
    /\ Restore(Append(entries, [edgeId |-> "out", count |-> 0])) = Refused
    /\ Restore(Append(entries, [edgeId |-> "out", count |-> MaxIterations + 1])) = Refused

\* A join's cursor is the least one no arriving branch is ahead of: no branch gains an
\* iteration by waiting for another.
ASSUME MergeIsLeast == \A c, d \in Cursors :
    LET m == MergeCursors({c, d})
    IN  /\ m \in Cursors /\ Leq(c, m) /\ Leq(d, m)
        /\ \A u \in Cursors : (Leq(c, u) /\ Leq(d, u)) => Leq(m, u)

\* A successor gets the cursor advanced along the edges selected: two edges to one node on
\* one handle count once each, and one of them exhausted refuses the step.
ASSUME SuccessorsAdvance == \A c \in Cursors :
    /\ SuccessorCursors(c, LoopEdges, Limits, "review", <<"draft">>, "no") =
        (IF CountOf(c, "again") = 1 \/ CountOf(c, "also") = 2 THEN Refused
         ELSE <<Advance(Advance(c, "again", Limits), "also", Limits)>>)
    /\ SuccessorCursors(c, LoopEdges, Limits, "review", <<"end", "start">>, "ok") =
        (IF CountOf(c, "outer") = 2 THEN Refused ELSE <<c, Advance(c, "outer", Limits)>>)
    /\ SuccessorCursors(c, LoopEdges, Limits, "review", <<"end">>, AnyHandle) = <<c>>
    /\ SuccessorCursors(c, LoopEdges, Limits, "review", <<"draft">>, "ok") = Refused

\* The visits of a walk of which each is replayed up to twice are charged once each, and
\* the walk is refused exactly when it has more visits than the budget.
Visits(w) == [i \in 1..(Len(w) + 1) |-> Visit(Reached(Prefix(w, i - 1)), <<>>, Along(Prefix(w, i - 1)))]
Replayed(w, twice) == FlattenSeq([i \in 1..(Len(w) + 1) |->
    IF i \in twice THEN <<Visits(w)[i], Visits(w)[i]>> ELSE <<Visits(w)[i]>>])
Charged(visits, max) == FoldLeft(
    LAMBDA b, v : IF b = Refused THEN b ELSE Charge(b, v, max), [count |-> 0, visit |-> <<>>], visits)
ASSUME VisitsChargedOnce == \A w \in {v \in Walks : Len(v) <= 4 /\ Along(v) # Refused} :
    \A twice \in SUBSET (1..(Len(w) + 1)), max \in 1..5 :
        LET b == Charged(Replayed(w, twice), max)
        IN  IF Len(w) + 1 > max THEN b = Refused ELSE b.count = Len(w) + 1
===============================================================================
