-------------------------- MODULE MCDefinitionGraph --------------------------
(***************************************************************************)
(* The compiler's graph checks against reference definitions, over every   *)
(* graph of a shape.                                                       *)
(***************************************************************************)
EXTENDS DefinitionGraph

Link(s, t, loop) == [source |-> s, target |-> t, loop |-> loop]
Kinds == {"none", "plain", "loop"}
\* The edges of an assignment of kinds to pairs of nodes.
EdgesOf(kinds) == {Link(p[1], p[2], kinds[p] = "loop") : p \in {q \in DOMAIN kinds : kinds[q] # "none"}}

\* Every graph of four nodes without self-loops, as a successor function.
Fours == {succ \in [1..4 -> SUBSET (1..4)] : \A n \in 1..4 : n \notin succ[n]}
Connected(succ) ==
    LET reach == [n \in 1..4 |-> Visited({n}, {<<a, b>> \in (1..4) \X (1..4) : b \in succ[a]})]
    IN  [n \in 1..4 |-> {m \in reach[n] : n \in reach[m]}]

\* The components are the classes of mutual reachability.
ASSUME ComponentsAreClasses == \A succ \in Fours : Components(succ) = Range(Connected(succ))

\* Loops: start 0, end 9 behind node 3, any plain or loop edges among nodes 1 to 3 and from 3 to itself.
Looped ==
    {[nodes |-> {0, 1, 2, 3, 9}, start |-> 0, end |-> 9, joinOf |-> <<>>,
      edges |-> {Link(0, 1, FALSE), Link(3, 9, FALSE)} \cup EdgesOf(kinds)] :
        kinds \in [{p \in (1..3) \X (1..3) : p[1] # p[2] \/ p[1] = 3} -> Kinds]}
Plain(d) == {e \in d.edges : ~e.loop}
PlainCycle(d) ==
    LET arcs == {<<e.source, e.target>> : e \in Plain(d)}
    IN  \E n \in d.nodes : n \in Visited({e.target : e \in Exits(d, n)}, arcs)

\* A loop without a bounded edge is reported once or more, and nothing else is: a definition
\* without plain self-edges is refused for its loops' bounds iff it has a plain cycle.
ASSUME UnboundedReported == \A d \in Looped :
    (\A e \in d.edges : e.source = e.target => e.loop) =>
        (UndeclaredLoops(d) \cup UnboundedLoops(d) # {} <=> PlainCycle(d))

\* An accepted definition has a topological order: every node once, the source of each
\* plain edge before its target, so that a data flow runs parents first.
ASSUME AcceptedIsOrdered == \A d \in {c \in Looped : Accepted(c)} :
    LET order == TopologicalOrder(d)
        At(n) == CHOOSE i \in DOMAIN order : order[i] = n
    IN  /\ Range(order) = d.nodes /\ Len(order) = Cardinality(d.nodes)
        /\ \A e \in d.edges : ~e.loop => At(e.source) < At(e.target)

\* A definition without an order is one with a plain cycle.
ASSUME OrderUnlessCycle == \A d \in Looped : TopologicalOrder(d) = NoOrder <=> PlainCycle(d)

\* Regions: router 1 with branches 2 and 3, 3 goes to join 5, 4 is another node; any plain or
\* loop edges lead from 2 and 4 to each other, the join, the router and the end.
Regions ==
    {[nodes |-> 0..6, start |-> 0, end |-> 6, joinOf |-> 1 :> 5,
      edges |-> {Link(0, 1, FALSE), Link(1, 2, FALSE), Link(1, 3, FALSE), Link(3, 5, FALSE), Link(5, 6, FALSE)}
                \cup EdgesOf(kinds)] :
        kinds \in [{2} \X {4, 5, 1, 6} \cup {4} \X {2, 5, 1, 6} -> Kinds]}

\* Walks of the given edges from a branch that have not met the join.
RECURSIVE Before(_, _, _)
Before(d, edges, walks) ==
    LET longer == {Append(w, e.target) : w \in {v \in walks : Len(v) < 4}, e \in edges}
        more == {w \in longer : /\ w[Len(w)] # d.joinOf[1]
                                /\ \E e \in edges : e.source = w[Len(w) - 1] /\ e.target = w[Len(w)]}
    IN  IF more \subseteq walks THEN walks ELSE Before(d, edges, walks \cup more)
Lost(d, w) == LET n == w[Len(w)]
              IN  n = 1 \/ Exits(d, n) = {} \/ \E i \in 1..(Len(w) - 1) : w[i] = n

\* A branch is said to reach the join exactly when no walk of plain edges from it meets the
\* router, a dead end or itself before the join.
ASSUME GuaranteedIsAllWalks == \A d \in Regions :
    2 \in Guaranteed(d, 1, {5}) <=> \A w \in Before(d, Plain(d), {<<2>>}) : ~Lost(d, w)

\* The nodes a branch may run before the join: an accepted one never leaves for the router
\* again, and for the end only over a node that no plain edge of the branch leads to.
Bypasses(d) == \E e \in d.edges : e.source \in Branches(d, 1) /\ e.target \in {1, 6}
ByPlainEdges(d) == Visited({2, 3}, {<<e.source, e.target>> : e \in {f \in Plain(d) : f.target # 5}})
ASSUME BypassNeedsLoop == \A d \in {c \in Regions : Accepted(c)} :
    LET inside == Branches(d, 1)
        plainly == ByPlainEdges(d)
    IN  \A e \in d.edges : (e.source \in inside /\ e.target \in {1, 6}) => e.source \notin plainly

\* Such definitions are accepted: the branch of node 2 returns over a loop edge to node 4,
\* whose other exit is the end, although the compiler wants every exit of a branch to reach
\* the join (workflow-compiler.ts:1072).
Bypass == [nodes |-> 0..6, start |-> 0, end |-> 6, joinOf |-> 1 :> 5,
           edges |-> {Link(0, 1, FALSE), Link(1, 2, FALSE), Link(1, 3, FALSE), Link(3, 5, FALSE), Link(5, 6, FALSE),
                      Link(2, 5, FALSE), Link(2, 4, TRUE), Link(4, 2, FALSE), Link(4, 6, FALSE)}]
ASSUME BypassAccepted == Accepted(Bypass) /\ Bypasses(Bypass)
===============================================================================
