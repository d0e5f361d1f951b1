--------------------------- MODULE DefinitionGraph ---------------------------
(***************************************************************************)
(* What the compiler asks of the graph of a control flow before it may be  *)
(* published: reachability, loops, parallel regions, and the topological   *)
(* order that a data flow is executed in.                                  *)
(*                                                                         *)
(* A definition d has nodes, one start and one end, edges (records of      *)
(* source, target and whether they are loop edges, at most one per pair of *)
(* nodes) and joinOf, the join of each broadcast router.  Node types,      *)
(* handles and configurations are left out.                                *)
(***************************************************************************)
EXTENDS Naturals, Sequences, FiniteSetsExt, SequencesExt

Outgoing(d, n) == {e \in d.edges : e.source = n}
Incoming(d, n) == {e \in d.edges : e.target = n}
Exits(d, n) == {e \in Outgoing(d, n) : ~e.loop}
Targets(edges) == {e.target : e \in edges}

\* A queue of nodes to visit and a set of those visited: what the arcs lead to.
RECURSIVE Visited(_, _)
Visited(found, arcs) ==
    LET more == {a[2] : a \in {b \in arcs : b[1] \in found}} \ found
    IN  IF more = {} THEN found ELSE Visited(found \cup more, arcs)

Reachable(d) == Visited({d.start}, {<<e.source, e.target>> : e \in d.edges})
CanReachEnd(d) == Visited({d.end}, {<<e.target, e.source>> : e \in d.edges})

\* stronglyConnectedComponents: Tarjan's algorithm; succ maps a node to its successors and
\* an index is the number of nodes visited before.
LowerTo(st, n, index) == [st EXCEPT !.low[n] = Min({@, index})]
RECURSIVE Enter(_, _, _)
Enter(succ, st, n) ==
    LET index == Cardinality(DOMAIN st.indices)
        Follow(m, s) ==
            CASE m \notin DOMAIN s.indices ->
                    LET below == Enter(succ, s, m) IN LowerTo(below, n, below.low[m])
              [] m \in Range(s.stack) -> LowerTo(s, n, s.indices[m])
              [] OTHER -> s
        done == FoldSet(Follow, [st EXCEPT !.stack = Append(@, n), !.indices = @ @@ n :> index,
                                           !.low = @ @@ n :> index], succ[n])
        base == CHOOSE i \in DOMAIN done.stack : done.stack[i] = n
    IN  IF done.low[n] # index THEN done
        ELSE [done EXCEPT !.stack = SubSeq(@, 1, base - 1),
                          !.components = @ \cup {Range(SubSeq(done.stack, base, Len(done.stack)))}]

Components(succ) ==
    FoldSet(LAMBDA n, st : IF n \in DOMAIN st.indices THEN st ELSE Enter(succ, st, n),
            [stack |-> <<>>, indices |-> <<>>, low |-> <<>>, components |-> {}],
            DOMAIN succ).components

AllSuccessors(d) == [n \in d.nodes |-> Targets(Outgoing(d, n))]
PlainSuccessors(d) == [n \in d.nodes |-> Targets(Exits(d, n))]
Within(d, members) == {e \in d.edges : e.source \in members /\ e.target \in members}
Cyclic(succ) == {c \in Components(succ) : Cardinality(c) > 1}

\* WF_LOOP_NOT_DECLARED and WF_LOOP_NOT_BOUNDED: the second is left to regions that have a
\* loop edge, the others were reported by the first.
UndeclaredLoops(d) == {c \in Cyclic(AllSuccessors(d)) : \A e \in Within(d, c) : ~e.loop}
UnboundedLoops(d) ==
    LET regions == {c \in Components(AllSuccessors(d)) : \E e \in Within(d, c) : e.loop}
    IN  {c \in Cyclic(PlainSuccessors(d)) : \E region \in regions : c \subseteq region}
LoopsNotCyclic(d) ==
    LET onCycle == UNION {Within(d, c) : c \in Cyclic(AllSuccessors(d))}
    IN  {e \in d.edges \ onCycle : e.loop /\ e.source # e.target}

\* allPathsReachTarget: the nodes whose every plain exit already reaches the target.
RECURSIVE Guaranteed(_, _, _)
Guaranteed(d, blocked, found) ==
    LET more == {n \in d.nodes \ (found \cup {blocked}) :
                    Exits(d, n) # {} /\ Targets(Exits(d, n)) \subseteq found}
    IN  IF more = {} THEN found ELSE Guaranteed(d, blocked, found \cup more)

MissesJoin(d, r) == {e \in Outgoing(d, r) : e.target \notin Guaranteed(d, r, {d.joinOf[r]})}

\* The nodes of the router's branches, and the loop edges that cross their border.
Branches(d, r) ==
    LET border == {r, d.joinOf[r]}
    IN  Visited(Targets(Outgoing(d, r)) \ border,
                {<<e.source, e.target>> : e \in {f \in d.edges : f.target \notin border}})
ScopeMismatches(d, r) ==
    LET inside == Branches(d, r)
    IN  {e \in d.edges : e.loop /\
            \/ e.source \in inside /\ e.target \notin inside \cup {d.joinOf[r]}
            \/ e.source \notin inside \cup {r} /\ e.target \in inside}

ParallelValid(d, r) ==
    /\ Cardinality(Outgoing(d, r)) >= 2
    /\ Cardinality(Incoming(d, d.joinOf[r])) >= 2
    /\ MissesJoin(d, r) = {}
    /\ ScopeMismatches(d, r) = {}

EndpointsValid(d) ==
    /\ Incoming(d, d.start) = {} /\ Outgoing(d, d.start) # {}
    /\ Outgoing(d, d.end) = {}
    /\ d.nodes \subseteq Reachable(d) /\ d.nodes \subseteq CanReachEnd(d)

Accepted(d) ==
    /\ \A e \in d.edges : e.source = e.target => e.loop
    /\ EndpointsValid(d)
    /\ \A r \in DOMAIN d.joinOf : ParallelValid(d, r)
    /\ UndeclaredLoops(d) = {} /\ UnboundedLoops(d) = {} /\ LoopsNotCyclic(d) = {}

\* The plan's topologicalOrder: node ids are compared as numbers; null if nodes remain.
NoOrder == <<>>
RECURSIVE Sorted(_, _, _, _)
Sorted(d, order, queue, degree) ==
    IF queue = {} THEN order
    ELSE LET n == Min(queue)
             left == [m \in d.nodes |-> degree[m] - Cardinality({e \in Exits(d, n) : e.target = m})]
         IN  Sorted(d, Append(order, n),
                    (queue \ {n}) \cup {m \in Targets(Exits(d, n)) : left[m] = 0}, left)
TopologicalOrder(d) ==
    LET degree == [n \in d.nodes |-> Cardinality({e \in Incoming(d, n) : ~e.loop})]
        order == Sorted(d, <<>>, {n \in d.nodes : degree[n] = 0}, degree)
    IN  IF Len(order) = Cardinality(d.nodes) THEN order ELSE NoOrder
===============================================================================
