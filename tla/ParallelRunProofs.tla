-------------------------- MODULE ParallelRunProofs --------------------------
(***************************************************************************)
(* Proofs about ParallelRun, for every definition whose branches nest and  *)
(* tasks that are assigned (no candidate pool).                            *)
(*                                                                         *)
(* The tokens in play, those of queued entries and of tasks and waits to   *)
(* be continued, are paths in the forest of frames: every token on a path  *)
(* is one its frame still expects, paths that share a token go on in the   *)
(* same frame and end together, and every expected token lies on a path.   *)
(* A step either leaves the set of paths alone or takes one path out of    *)
(* it, shortens it by one token or lengthens it by a fork; the first part  *)
(* shows what each of these does to any such set.                          *)
(*                                                                         *)
(* On this rests a second invariant, about contexts and scopes: what nodes *)
(* put out is in the context at hand or in what an open frame will merge.  *)
(***************************************************************************)
EXTENDS ParallelRun, SequenceTheorems, TLAPS

\* The depth and the rank by which a definition nests.
Nested == \E depth, rank \in [Nodes -> Nat] : WellNested(depth, rank)
Depth == CHOOSE depth \in [Nodes -> Nat] : \E rank \in [Nodes -> Nat] : WellNested(depth, rank)
Rank == CHOOSE rank \in [Nodes -> Nat] : WellNested(Depth, rank)

LEMMA NestedFacts ==
    ASSUME Nested
    PROVE  Depth \in [Nodes -> Nat] /\ Rank \in [Nodes -> Nat] /\ WellNested(Depth, Rank)
BY DEF Nested, Depth, Rank

-----------------------------------------------------------------------------
(* Sets of paths.                                                          *)

Frames == [Frame -> [expected : SUBSET Nodes, arrived : SUBSET Nodes]]
Path == Seq(BranchToken) \ {<<>>}

Live(P, fr) == \A s \in P : \A p \in DOMAIN s :
    s[p].branch \in fr[s[p].frame].expected \ fr[s[p].frame].arrived
Agree(P) == \A s, z \in P : \A p \in DOMAIN s, q \in DOMAIN z :
    s[p].frame = z[q].frame => p = q /\ \A i \in 1..(p - 1) : s[i] = z[i]
Meet(P) == \A s, z \in P : \A p \in DOMAIN s \cap DOMAIN z : s[p] = z[p] =>
    /\ p = Len(s) <=> p = Len(z)
    /\ p < Len(s) => s[p + 1].frame = z[p + 1].frame
Counted(fr) == \A f \in Frame : fr[f].arrived \subseteq fr[f].expected
Covered(P, fr) == \A f \in Frame : \A b \in fr[f].expected \ fr[f].arrived :
    \E s \in P : \E p \in DOMAIN s : s[p] = [frame |-> f, branch |-> b]

Forest(P, fr) == Live(P, fr) /\ Agree(P) /\ Meet(P) /\ Counted(fr)

\* fr2 is fr after the token t has arrived.
Arrived(fr, fr2, t) ==
    /\ \A f \in Frame : f # t.frame => fr2[f] = fr[f]
    /\ fr2[t.frame].expected = fr[t.frame].expected
    /\ fr2[t.frame].arrived = fr[t.frame].arrived \cup {t.branch}

LEMMA PathFacts ==
    ASSUME NEW s \in Path
    PROVE  /\ Len(s) \in Nat \ {0} /\ DOMAIN s = 1..Len(s)
           /\ LastToken(s) \in BranchToken /\ LastToken(s) = s[Len(s)]
           /\ \A p \in DOMAIN s : s[p] \in BranchToken /\ s[p].frame \in Frame /\ s[p].branch \in Nodes
           /\ Parent(s) \in Seq(BranchToken) /\ Len(Parent(s)) = Len(s) - 1
           /\ \A p \in 1..(Len(s) - 1) : Parent(s)[p] = s[p]
           /\ Parent(s) = <<>> <=> Len(s) = 1
<1>1. Len(s) \in Nat \ {0} /\ DOMAIN s = 1..Len(s)
  BY DEF Path
<1>2. \A p \in DOMAIN s : s[p] \in BranchToken /\ s[p].frame \in Frame /\ s[p].branch \in Nodes
  <2>1. s \in Seq(BranchToken)
    BY DEF Path
  <2>2. \A p \in DOMAIN s : s[p] \in BranchToken
    BY <2>1
  <2> QED BY <2>2 DEF BranchToken
<1>3. LastToken(s) \in BranchToken /\ LastToken(s) = s[Len(s)]
  BY <1>1, <1>2 DEF LastToken
<1>4. /\ Parent(s) \in Seq(BranchToken) /\ Len(Parent(s)) = Len(s) - 1
      /\ \A p \in 1..(Len(s) - 1) : Parent(s)[p] = s[p]
  BY <1>1, SubSeqProperties DEF Parent, Path
<1>5. Parent(s) = <<>> <=> Len(s) = 1
  BY <1>1, <1>4, EmptySeq
<1> QED BY <1>1, <1>2, <1>3, <1>4, <1>5

\* The last token of a path lies on no other path.
LEMMA OnlyHolder ==
    ASSUME NEW P \in SUBSET Path, Agree(P), Meet(P), NEW s \in P, NEW z \in P,
           NEW q \in DOMAIN z, z[q] = LastToken(s)
    PROVE  z = s /\ q = Len(s)
<1>1. Len(s) \in DOMAIN s /\ s[Len(s)] = z[q] /\ Len(s) \in Nat
  BY PathFacts
<1>2. q = Len(s) /\ \A i \in 1..(Len(s) - 1) : z[i] = s[i]
  BY <1>1 DEF Agree
<1>3. q \in DOMAIN s \cap DOMAIN z /\ z[q] = s[q]
  BY <1>1, <1>2
<1>4. Len(z) = Len(s)
  BY <1>2, <1>3 DEF Meet
<1>5. \A i \in 1..Len(s) : z[i] = s[i]
  BY <1>1, <1>2, <1>3
<1>6. z \in Seq(BranchToken) /\ s \in Seq(BranchToken)
  BY DEF Path
<1>7. z = s
  BY <1>4, <1>5, <1>6, SeqEqual
<1> QED BY <1>2, <1>7

LEMMA FewerPaths ==
    ASSUME NEW P, NEW P2 \in SUBSET P, Agree(P), Meet(P)
    PROVE  Agree(P2) /\ Meet(P2)
<1>1. Agree(P2)
  BY DEF Agree
<1>2. Meet(P2)
  BY DEF Meet
<1> QED BY <1>1, <1>2

\* A branch arrives: nobody else holds its token.
LEMMA ArriveForest ==
    ASSUME NEW P \in SUBSET Path, NEW fr \in Frames, NEW fr2 \in Frames, Forest(P, fr),
           NEW s \in P, Arrived(fr, fr2, LastToken(s))
    PROVE  Forest(P \ {s}, fr2)
<1> DEFINE t == LastToken(s)
<1>t. t \in BranchToken /\ t.frame \in Frame /\ t.branch \in Nodes /\ t = s[Len(s)] /\ Len(s) \in DOMAIN s
  BY PathFacts
<1>1. Live(P \ {s}, fr2)
  <2> SUFFICES ASSUME NEW z \in P \ {s}, NEW p \in DOMAIN z
               PROVE  z[p].branch \in fr2[z[p].frame].expected \ fr2[z[p].frame].arrived
    BY DEF Live
  <2>1. z[p].branch \in fr[z[p].frame].expected \ fr[z[p].frame].arrived
    BY DEF Forest, Live
  <2>2. z[p] \in BranchToken /\ z[p].frame \in Frame
    BY PathFacts
  <2>3. z[p] # t
    BY OnlyHolder DEF Forest
  <2>4. CASE z[p].frame # t.frame
    BY <2>1, <2>2, <2>4 DEF Arrived
  <2>5. CASE z[p].frame = t.frame
    <3>1. z[p].branch # t.branch
      BY <1>t, <2>2, <2>3, <2>5 DEF BranchToken
    <3> QED BY <2>1, <2>5, <3>1 DEF Arrived
  <2> QED BY <2>4, <2>5
<1>2. Agree(P \ {s}) /\ Meet(P \ {s})
  BY FewerPaths DEF Forest
<1>3. t.branch \in fr[t.frame].expected
  BY <1>t DEF Forest, Live
<1>4. Counted(fr2)
  BY <1>t, <1>3 DEF Forest, Counted, Arrived
<1> QED BY <1>1, <1>2, <1>4 DEF Forest

\* While the frame waits for another branch, that branch carries what is above the frame.
LEMMA ArriveCovered ==
    ASSUME NEW P \in SUBSET Path, NEW fr \in Frames, NEW fr2 \in Frames, Forest(P, fr), Covered(P, fr),
           NEW s \in P, Arrived(fr, fr2, LastToken(s)),
           fr2[LastToken(s).frame].arrived # fr2[LastToken(s).frame].expected
    PROVE  Covered(P \ {s}, fr2)
<1> DEFINE t == LastToken(s)
<1>t. t \in BranchToken /\ t.frame \in Frame /\ t.branch \in Nodes /\ t = s[Len(s)] /\ Len(s) \in DOMAIN s
      /\ t = [frame |-> t.frame, branch |-> t.branch]
  BY PathFacts DEF BranchToken
<1> SUFFICES ASSUME NEW f \in Frame, NEW b \in fr2[f].expected \ fr2[f].arrived
             PROVE  \E z \in P \ {s} : \E p \in DOMAIN z : z[p] = [frame |-> f, branch |-> b]
  BY DEF Covered
<1>1. b \in fr[f].expected \ fr[f].arrived /\ (f = t.frame => b # t.branch)
  BY <1>t DEF Arrived
<1>2. PICK z \in P : \E p \in DOMAIN z : z[p] = [frame |-> f, branch |-> b]
  BY <1>1 DEF Covered
<1>3. PICK p \in DOMAIN z : z[p] = [frame |-> f, branch |-> b]
  BY <1>2
<1>4. CASE z # s
  BY <1>3, <1>4
<1>5. CASE z = s
  <2>1. f # t.frame
    BY <1>t, <1>1, <1>3, <1>5, PathFacts DEF Forest, Agree
  <2>2. PICK c \in fr[t.frame].expected : c \notin fr[t.frame].arrived /\ c # t.branch
    <3>1. fr[t.frame].arrived \cup {t.branch} \subseteq fr[t.frame].expected
      BY <1>t DEF Forest, Live, Counted
    <3>2. fr[t.frame].arrived \cup {t.branch} # fr[t.frame].expected
      BY DEF Arrived
    <3> QED BY <3>1, <3>2
  <2>3. PICK y \in P : \E q \in DOMAIN y : y[q] = [frame |-> t.frame, branch |-> c]
    BY <1>t, <2>2 DEF Covered
  <2>4. PICK q \in DOMAIN y : y[q] = [frame |-> t.frame, branch |-> c]
    BY <2>3
  <2>5. y[q].frame = s[Len(s)].frame /\ y[q] # t
    BY <1>t, <2>2, <2>4
  <2>6. q = Len(s) /\ \A i \in 1..(Len(s) - 1) : y[i] = s[i]
    BY <1>t, <2>5 DEF Forest, Agree
  <2>7. y # s
    BY <1>t, <2>5, <2>6
  <2>8. p \in 1..(Len(s) - 1)
    <3>1. p \in 1..Len(s) /\ Len(s) \in Nat
      BY <1>5, PathFacts
    <3>2. p # Len(s)
      BY <1>t, <1>3, <1>5, <2>1
    <3> QED BY <3>1, <3>2
  <2>9. y[p] = [frame |-> f, branch |-> b] /\ p \in DOMAIN y
    BY <1>3, <1>5, <2>6, <2>8, PathFacts
  <2> QED BY <2>7, <2>9
<1> QED BY <1>4, <1>5

\* The last branch arrives: its path loses the token of the frame that is released.
LEMMA ReleaseForest ==
    ASSUME NEW P \in SUBSET Path, NEW fr \in Frames, NEW fr2 \in Frames, Forest(P, fr),
           NEW s \in P, Arrived(fr, fr2, LastToken(s)),
           fr2[LastToken(s).frame].arrived = fr2[LastToken(s).frame].expected,
           Parent(s) # <<>>
    PROVE  Parent(s) \notin P /\ Forest((P \ {s}) \cup {Parent(s)}, fr2)
<1> DEFINE t == LastToken(s)
           u == Parent(s)
           P2 == (P \ {s}) \cup {u}
<1>t. t \in BranchToken /\ t.frame \in Frame /\ t.branch \in Nodes /\ t = s[Len(s)] /\ Len(s) \in DOMAIN s
      /\ t = [frame |-> t.frame, branch |-> t.branch]
  BY PathFacts DEF BranchToken
<1>u. /\ u \in Seq(BranchToken) /\ u \in Path /\ Len(u) = Len(s) - 1 /\ Len(u) \in Nat \ {0}
      /\ DOMAIN u = 1..Len(u) /\ DOMAIN s = 1..Len(s) /\ Len(s) \in Nat
      /\ \A p \in DOMAIN u : u[p] = s[p] /\ p \in DOMAIN s
  <2>1. /\ u \in Seq(BranchToken) /\ Len(u) = Len(s) - 1 /\ \A p \in 1..(Len(s) - 1) : u[p] = s[p]
        /\ Len(s) \in Nat \ {0} /\ DOMAIN s = 1..Len(s)
    BY PathFacts
  <2>2. u \in Path
    BY <2>1 DEF Path
  <2>3. Len(u) \in Nat \ {0} /\ DOMAIN u = 1..Len(u)
    BY <2>2, PathFacts
  <2> HIDE DEF u
  <2> QED BY <2>1, <2>2, <2>3
<1>f. Live(P, fr) /\ Agree(P) /\ Meet(P) /\ Counted(fr)
  BY DEF Forest
\* Only this branch was missing.
<1>o. \A z \in P : \A p \in DOMAIN z : z[p].frame = t.frame => z = s
  <2> SUFFICES ASSUME NEW z \in P, NEW p \in DOMAIN z, z[p].frame = t.frame
               PROVE  z = s
    OBVIOUS
  <2>1. z[p].branch \in fr[t.frame].expected \ fr[t.frame].arrived
    BY <1>f DEF Live
  <2>2. z[p].branch = t.branch
    BY <2>1 DEF Arrived
  <2>3. z[p] = t
    BY <1>t, <2>2, PathFacts DEF BranchToken
  <2> QED BY <1>f, <2>3, OnlyHolder
\* A path that shares a token with u and is not s goes on exactly as u does.
<1>m. \A z \in P \ {s} : \A p \in DOMAIN u \cap DOMAIN z : u[p] = z[p] =>
         p < Len(u) /\ p < Len(z) /\ u[p + 1].frame = z[p + 1].frame
  <2> SUFFICES ASSUME NEW z \in P \ {s}, NEW p \in DOMAIN u \cap DOMAIN z, u[p] = z[p]
               PROVE  p < Len(u) /\ p < Len(z) /\ u[p + 1].frame = z[p + 1].frame
    OBVIOUS
  <2>0. DOMAIN z = 1..Len(z) /\ Len(z) \in Nat
    BY PathFacts
  <2>1. p \in DOMAIN s \cap DOMAIN z /\ s[p] = z[p] /\ p < Len(s)
    BY <1>u
  <2>2. p # Len(z) /\ s[p + 1].frame = z[p + 1].frame
    BY <1>f, <2>1, <1>u DEF Meet
  <2>3. p < Len(z) /\ p + 1 \in DOMAIN z
    BY <2>0, <2>2
  <2>4. z[p + 1].frame # t.frame
    BY <1>o, <2>3
  <2>5. p # Len(u)
    BY <1>t, <1>u, <2>2, <2>4
  <2>6. p < Len(u) /\ p + 1 \in DOMAIN u
    BY <1>u, <2>5
  <2> QED BY <1>u, <2>2, <2>3, <2>6
<1>n. u \notin P
  <2>1. SUFFICES ASSUME u \in P PROVE FALSE
    OBVIOUS
  <2>2. u # s
    BY <1>u
  <2>3. Len(u) \in DOMAIN u
    BY <1>u
  <2>4. u \in P \ {s} /\ Len(u) \in DOMAIN u \cap DOMAIN u /\ u[Len(u)] = u[Len(u)]
    BY <2>1, <2>2, <2>3
  <2> HIDE DEF u
  <2>5. Len(u) < Len(u)
    BY <1>m, <2>4
  <2> QED BY <1>u, <2>5
<1>1. Live(P2, fr2)
  <2> SUFFICES ASSUME NEW z \in P2, NEW p \in DOMAIN z
               PROVE  z[p].branch \in fr2[z[p].frame].expected \ fr2[z[p].frame].arrived
    BY DEF Live
  <2>1. PICK y \in P : \E q \in DOMAIN y : y[q] = z[p] /\ (y = s => q # Len(s))
    <3>1. CASE z \in P \ {s}
      BY <3>1
    <3>2. CASE z = u
      BY <3>2, <1>u
    <3> QED BY <3>1, <3>2
  <2>q. PICK q \in DOMAIN y : y[q] = z[p] /\ (y = s => q # Len(s))
    BY <2>1
  <2>2. y[q].branch \in fr[y[q].frame].expected \ fr[y[q].frame].arrived /\ y[q].frame \in Frame
    BY <1>f, PathFacts DEF Live
  <2>3. y[q].frame # t.frame
    <3>1. CASE y = s
      BY <3>1, <2>q, <1>f, <1>t DEF Agree
    <3>2. CASE y # s
      BY <3>2, <1>o
    <3> QED BY <3>1, <3>2
  <2> QED BY <2>q, <2>2, <2>3 DEF Arrived
<1>2. Agree(P2)
  <2> SUFFICES ASSUME NEW x \in P2, NEW z \in P2, NEW p \in DOMAIN x, NEW q \in DOMAIN z,
                      x[p].frame = z[q].frame
               PROVE  p = q /\ \A i \in 1..(p - 1) : x[i] = z[i]
    BY DEF Agree
  <2> DEFINE lift(y) == IF y = u THEN s ELSE y
  <2>1. \A y \in P2 : lift(y) \in P /\ \A i \in DOMAIN y : i \in DOMAIN lift(y) /\ lift(y)[i] = y[i]
    BY <1>u
  <2>2. DOMAIN x = 1..Len(x) /\ DOMAIN z = 1..Len(z) /\ Len(x) \in Nat /\ Len(z) \in Nat
    BY <1>u, PathFacts
  <2>3. lift(x) \in P /\ lift(z) \in P /\ p \in DOMAIN lift(x) /\ q \in DOMAIN lift(z)
        /\ lift(x)[p].frame = lift(z)[q].frame
    BY <2>1
  <2>4. p = q /\ \A i \in 1..(p - 1) : lift(x)[i] = lift(z)[i]
    <3> HIDE DEF lift
    <3> QED BY <1>f, <2>3 DEF Agree
  <2>5. \A i \in 1..(p - 1) : i \in DOMAIN x /\ i \in DOMAIN z
    BY <2>2, <2>4
  <2> HIDE DEF lift
  <2> QED BY <2>1, <2>4, <2>5
<1>3. Meet(P2)
  <2> SUFFICES ASSUME NEW x \in P2, NEW z \in P2, NEW p \in DOMAIN x \cap DOMAIN z, x[p] = z[p]
               PROVE  /\ p = Len(x) <=> p = Len(z)
                      /\ p < Len(x) => x[p + 1].frame = z[p + 1].frame
    BY DEF Meet
  <2>1. CASE x \in P \ {s} /\ z \in P \ {s}
    BY <1>f, <2>1 DEF Meet
  <2>2. CASE x = z
    BY <2>2
  <2> HIDE DEF u, P2
  <2>3. CASE x = u /\ z \in P \ {s}
    BY <1>m, <2>3
  <2>4. CASE z = u /\ x \in P \ {s}
    BY <1>m, <2>4
  <2> QED BY <2>1, <2>2, <2>3, <2>4 DEF P2
<1>4. Counted(fr2)
  <2>1. t.branch \in fr[t.frame].expected
    BY <1>t, <1>f DEF Live
  <2> QED BY <1>t, <1>f, <2>1 DEF Counted, Arrived
<1> QED BY <1>1, <1>2, <1>3, <1>4, <1>n DEF Forest

\* The last branch of an outermost frame arrives: its path ends.
LEMMA ReleaseCovered ==
    ASSUME NEW P \in SUBSET Path, NEW fr \in Frames, NEW fr2 \in Frames, Forest(P, fr), Covered(P, fr),
           NEW s \in P, Arrived(fr, fr2, LastToken(s)),
           fr2[LastToken(s).frame].arrived = fr2[LastToken(s).frame].expected
    PROVE  Covered((P \ {s}) \cup ({Parent(s)} \ {<<>>}), fr2)
<1> DEFINE t == LastToken(s)
           P2 == (P \ {s}) \cup ({Parent(s)} \ {<<>>})
<1>t. t.frame \in Frame /\ t = s[Len(s)]
  BY PathFacts
<1> SUFFICES ASSUME NEW f \in Frame, NEW b \in fr2[f].expected \ fr2[f].arrived
             PROVE  \E z \in P2 : \E p \in DOMAIN z : z[p] = [frame |-> f, branch |-> b]
  BY DEF Covered
<1>1. f # t.frame /\ b \in fr[f].expected \ fr[f].arrived
  BY <1>t DEF Arrived
<1>2. PICK z \in P : \E p \in DOMAIN z : z[p] = [frame |-> f, branch |-> b]
  BY <1>1 DEF Covered
<1>3. PICK p \in DOMAIN z : z[p] = [frame |-> f, branch |-> b]
  BY <1>2
<1>4. CASE z # s
  BY <1>3, <1>4
<1>5. CASE z = s
  <2>1. p \in 1..Len(s) /\ Len(s) \in Nat
    BY <1>5, PathFacts
  <2>2. p # Len(s)
    BY <1>t, <1>1, <1>3, <1>5
  <2>3. p \in 1..(Len(s) - 1)
    BY <2>1, <2>2
  <2>4. Parent(s) # <<>> /\ p \in DOMAIN Parent(s) /\ Parent(s)[p] = [frame |-> f, branch |-> b]
    BY <2>1, <2>3, <1>3, <1>5, PathFacts
  <2> QED BY <2>4
<1> QED BY <1>4, <1>5

\* The paths of a frame's branches below the path s of its router.
Branches(s, f, B) == {Append(s, [frame |-> f, branch |-> b]) : b \in B}

\* fr2 is fr with the frame f opened for the branches B.
Opened(fr, fr2, f, B) ==
    /\ fr2[f].expected = B /\ fr2[f].arrived = {}
    /\ \A g \in Frame : g # f => fr2[g] = fr[g]

\* A router opens the frame f: its path is lengthened by one token for each branch.
LEMMA ForkForest ==
    ASSUME NEW P \in SUBSET Path, NEW fr \in Frames, NEW fr2 \in Frames, Forest(P, fr),
           NEW s \in Seq(BranchToken), s \in P \/ s = <<>>, NEW f \in Frame, fr[f].expected = {},
           NEW B \in SUBSET Nodes, Opened(fr, fr2, f, B)
    PROVE  LET N == Branches(s, f, B)
           IN  /\ N \subseteq Path /\ N \cap P = {} /\ Forest((P \ {s}) \cup N, fr2)
               /\ B # {} /\ Covered(P, fr) => Covered((P \ {s}) \cup N, fr2)
<1> DEFINE N == Branches(s, f, B)
           P2 == (P \ {s}) \cup N
<1>f. Live(P, fr) /\ Agree(P) /\ Meet(P) /\ Counted(fr)
  BY DEF Forest
<1>b. N = Branches(s, f, B)
  OBVIOUS
<1> HIDE DEF N
<1>g. fr2[f].expected = B /\ fr2[f].arrived = {} /\ \A g \in Frame : g # f => fr2[g] = fr[g]
  BY DEF Opened
<1>s. /\ Len(s) \in Nat /\ DOMAIN s = 1..Len(s)
      /\ \A p \in DOMAIN s : s \in P /\ s[p] \in BranchToken /\ s[p].frame \in Frame
  <2>1. Len(s) \in Nat /\ DOMAIN s = 1..Len(s) /\ \A p \in DOMAIN s : s[p] \in BranchToken
    OBVIOUS
  <2>2. \A p \in DOMAIN s : s # <<>>
    BY <2>1
  <2> QED BY <2>1, <2>2 DEF BranchToken
<1>a. \A x \in N : /\ x \in Path /\ Len(x) = Len(s) + 1 /\ DOMAIN x = 1..(Len(s) + 1)
                   /\ \A p \in 1..Len(s) : x[p] = s[p]
                   /\ x[Len(s) + 1].frame = f /\ x[Len(s) + 1].branch \in B
  <2> SUFFICES ASSUME NEW b \in B, NEW x, x = Append(s, [frame |-> f, branch |-> b])
               PROVE  /\ x \in Path /\ Len(x) = Len(s) + 1 /\ DOMAIN x = 1..(Len(s) + 1)
                      /\ \A p \in 1..Len(s) : x[p] = s[p]
                      /\ x[Len(s) + 1].frame = f /\ x[Len(s) + 1].branch \in B
    BY DEF Branches, N
  <2>1. [frame |-> f, branch |-> b] \in BranchToken
    BY DEF BranchToken
  <2>2. /\ x \in Seq(BranchToken) /\ Len(x) = Len(s) + 1
        /\ \A p \in 1..Len(s) : x[p] = s[p]
        /\ x[Len(s) + 1] = [frame |-> f, branch |-> b]
    BY <2>1, <1>s, AppendProperties
  <2>3. DOMAIN x = 1..(Len(s) + 1) /\ x # <<>>
    BY <2>2, <1>s
  <2> QED BY <2>2, <2>3 DEF Path
<1>o. \A z \in P : \A p \in DOMAIN z : z[p].frame # f /\ z[p].frame \in Frame
  BY <1>f, PathFacts DEF Live
<1>p. \A x \in N : \A p \in DOMAIN x :
         \/ p \in DOMAIN s /\ p \in 1..Len(s) /\ s \in P /\ x[p] = s[p] /\ x[p].frame # f
         \/ p = Len(s) + 1 /\ x[p].frame = f
  <2> SUFFICES ASSUME NEW x \in N, NEW p \in DOMAIN x
               PROVE  \/ p \in DOMAIN s /\ p \in 1..Len(s) /\ s \in P /\ x[p] = s[p] /\ x[p].frame # f
                      \/ p = Len(s) + 1 /\ x[p].frame = f
    OBVIOUS
  <2>1. p \in 1..Len(s) \/ p = Len(s) + 1
    BY <1>a, <1>s
  <2>2. CASE p \in 1..Len(s)
    BY <2>2, <1>a, <1>s, <1>o
  <2> QED BY <2>1, <2>2, <1>a
<1>n. N \subseteq Path /\ N \cap P = {}
  <2>1. \A x \in N : x \in Path /\ Len(s) + 1 \in DOMAIN x /\ x[Len(s) + 1].frame = f
    BY <1>a, <1>s
  <2> QED BY <2>1, <1>o
<1>1. Live(P2, fr2)
  <2> SUFFICES ASSUME NEW z \in P2, NEW p \in DOMAIN z
               PROVE  z[p].branch \in fr2[z[p].frame].expected \ fr2[z[p].frame].arrived
    BY DEF Live
  <2>1. CASE z \in P
    BY <2>1, <1>f, <1>g, <1>o DEF Live
  <2>2. CASE z \in N
    <3>1. CASE p \in DOMAIN s /\ s \in P /\ z[p] = s[p] /\ z[p].frame # f
      BY <3>1, <1>f, <1>g, <1>o DEF Live
    <3>2. CASE p = Len(s) + 1
      BY <2>2, <3>2, <1>a, <1>g
    <3> QED BY <2>2, <3>1, <3>2, <1>p
  <2> QED BY <2>1, <2>2
<1>2. Agree(P2)
  <2> SUFFICES ASSUME NEW x \in P2, NEW z \in P2, NEW p \in DOMAIN x, NEW q \in DOMAIN z,
                      x[p].frame = z[q].frame
               PROVE  p = q /\ \A i \in 1..(p - 1) : x[i] = z[i]
    BY DEF Agree
  <2>1. CASE x \in P /\ z \in P
    BY <2>1, <1>f DEF Agree
  <2>2. CASE x \in N /\ z \in P
    <3>1. s \in P /\ p \in DOMAIN s /\ p \in 1..Len(s) /\ s[p].frame = z[q].frame
      BY <2>2, <1>p, <1>o
    <3>2. p = q /\ \A i \in 1..(p - 1) : s[i] = z[i]
      BY <2>2, <3>1, <1>f DEF Agree
    <3>3. \A i \in 1..(p - 1) : i \in 1..Len(s)
      BY <3>1, <1>s
    <3> QED BY <2>2, <3>2, <3>3, <1>a
  <2>3. CASE x \in P /\ z \in N
    <3>1. s \in P /\ q \in DOMAIN s /\ q \in 1..Len(s) /\ s[q].frame = x[p].frame
      BY <2>3, <1>p, <1>o
    <3>2. p = q /\ \A i \in 1..(p - 1) : x[i] = s[i]
      BY <2>3, <3>1, <1>f DEF Agree
    <3>3. \A i \in 1..(p - 1) : i \in 1..Len(s)
      BY <3>1, <3>2, <1>s
    <3> QED BY <2>3, <3>2, <3>3, <1>a
  <2>4. CASE x \in N /\ z \in N
    <3>1. p = q
      <4>1. CASE p = Len(s) + 1 /\ x[p].frame = f
        BY <4>1, <2>4, <1>p
      <4>2. CASE p \in DOMAIN s /\ s \in P /\ x[p] = s[p] /\ x[p].frame # f
        <5>1. q \in DOMAIN s /\ z[q] = s[q]
          BY <2>4, <4>2, <1>p
        <5> QED BY <4>2, <5>1, <1>f DEF Agree
      <4> QED BY <2>4, <4>1, <4>2, <1>p
    <3>2. \A i \in 1..(p - 1) : i \in 1..Len(s)
      BY <2>4, <1>p, <1>s
    <3> QED BY <2>4, <3>1, <3>2, <1>a
  <2> QED BY <2>1, <2>2, <2>3, <2>4
\* A path that shares a token with a new one and is not s goes on exactly as the new one does.
<1>m. \A x \in N : \A z \in P \ {s} : \A p \in DOMAIN x \cap DOMAIN z : x[p] = z[p] =>
         p # Len(x) /\ p # Len(z) /\ x[p + 1].frame = z[p + 1].frame
  <2> SUFFICES ASSUME NEW x \in N, NEW z \in P \ {s}, NEW p \in DOMAIN x \cap DOMAIN z, x[p] = z[p]
               PROVE  p # Len(x) /\ p # Len(z) /\ x[p + 1].frame = z[p + 1].frame
    OBVIOUS
  <2>1. s \in P /\ p \in DOMAIN s /\ p \in 1..Len(s) /\ s[p] = z[p]
    BY <1>p, <1>o
  <2>2. p # Len(s)
    <3>1. SUFFICES ASSUME p = Len(s) PROVE FALSE
      OBVIOUS
    <3>2. z[p] = LastToken(s)
      BY <2>1, <3>1 DEF LastToken
    <3> QED BY <2>1, <3>2, <1>f, OnlyHolder
  <2>3. p # Len(z) /\ s[p + 1].frame = z[p + 1].frame
    BY <2>1, <2>2, <1>f, <1>s DEF Meet
  <2>4. p + 1 \in 1..Len(s) /\ p # Len(s) + 1
    BY <2>1, <2>2, <1>s
  <2> QED BY <2>3, <2>4, <1>a
<1>3. Meet(P2)
  <2> SUFFICES ASSUME NEW x \in P2, NEW z \in P2, NEW p \in DOMAIN x \cap DOMAIN z, x[p] = z[p]
               PROVE  /\ p = Len(x) <=> p = Len(z)
                      /\ p < Len(x) => x[p + 1].frame = z[p + 1].frame
    BY DEF Meet
  <2>1. CASE x \in P /\ z \in P
    BY <2>1, <1>f DEF Meet
  <2>2. CASE x \in N /\ z \in P \ {s}
    BY <2>2, <1>m
  <2>3. CASE z \in N /\ x \in P \ {s}
    BY <2>3, <1>m
  <2>4. CASE x \in N /\ z \in N
    <3>1. Len(x) = Len(s) + 1 /\ Len(z) = Len(s) + 1
      BY <2>4, <1>a
    <3>2. ASSUME p < Len(x) PROVE x[p + 1].frame = z[p + 1].frame
      <4>1. p \in 1..Len(s)
        BY <2>4, <3>1, <3>2, <1>a, <1>s
      <4>2. p + 1 \in DOMAIN x /\ p + 1 \in DOMAIN z
        BY <2>4, <4>1, <1>a, <1>s
      <4>3. CASE p = Len(s)
        BY <2>4, <4>3, <1>a
      <4>4. CASE p # Len(s)
        <5>1. p + 1 \in 1..Len(s)
          BY <4>1, <4>4, <1>s
        <5> QED BY <2>4, <5>1, <1>a
      <4> QED BY <4>3, <4>4
    <3> QED BY <3>1, <3>2
  <2> QED BY <2>1, <2>2, <2>3, <2>4
<1>4. Counted(fr2)
  BY <1>f, <1>g DEF Counted
<1>5. ASSUME B # {}, Covered(P, fr) PROVE Covered(P2, fr2)
  <2> SUFFICES ASSUME NEW g \in Frame, NEW b \in fr2[g].expected \ fr2[g].arrived
               PROVE  \E z \in P2 : \E p \in DOMAIN z : z[p] = [frame |-> g, branch |-> b]
    BY DEF Covered
  <2>1. CASE g = f
    <3>1. Append(s, [frame |-> g, branch |-> b]) \in N /\ b \in Nodes
      BY <2>1, <1>g DEF Branches, N
    <3>2. [frame |-> g, branch |-> b] \in BranchToken
      BY <3>1 DEF BranchToken
    <3>3. Append(s, [frame |-> g, branch |-> b])[Len(s) + 1] = [frame |-> g, branch |-> b]
      BY <3>2, <1>s, AppendProperties
    <3>4. Len(s) + 1 \in DOMAIN Append(s, [frame |-> g, branch |-> b])
      BY <3>1, <1>a, <1>s
    <3> QED BY <3>1, <3>3, <3>4
  <2>2. CASE g # f
    <3>1. b \in fr[g].expected \ fr[g].arrived
      BY <2>2, <1>g
    <3>2. PICK z \in P : \E p \in DOMAIN z : z[p] = [frame |-> g, branch |-> b]
      BY <3>1, <1>5 DEF Covered
    <3>3. PICK p \in DOMAIN z : z[p] = [frame |-> g, branch |-> b]
      BY <3>2
    <3>4. CASE z = s
      <4>1. PICK c \in B : TRUE
        BY <1>5
      <4>2. Append(s, [frame |-> f, branch |-> c]) \in N
        BY <4>1 DEF Branches, N
      <4>3. p \in 1..Len(s)
        BY <3>3, <3>4, <1>s
      <4>4. p \in DOMAIN Append(s, [frame |-> f, branch |-> c])
            /\ Append(s, [frame |-> f, branch |-> c])[p] = z[p]
        BY <3>4, <4>2, <4>3, <1>a, <1>s
      <4> QED BY <3>3, <4>2, <4>4
    <3> QED BY <3>2, <3>4
  <2> QED BY <2>1, <2>2
<1> QED BY <1>n, <1>1, <1>2, <1>3, <1>4, <1>5 DEF Forest, N

-----------------------------------------------------------------------------
(* Queues, tasks and waits, and the paths they hold.                       *)

Human == {"operate", "timer", "message"}

Paths(q, a) == ({q[i].tokens : i \in DOMAIN q}
                \cup {a[k].tokens : k \in {k \in DOMAIN a : a[k].pending}}) \ {<<>>}

TokensOf(r) == {r[i].tokens : i \in DOMAIN r}

\* Somebody holds the path s.
HeldBy(s, q, a) == \/ \E i \in DOMAIN q : s = q[i].tokens
                   \/ \E k \in DOMAIN a : a[k].pending /\ s = a[k].tokens

\* An entry has one token for each frame around its node; a marked join has given its own up.
Placed(q) == \A i \in DOMAIN q :
    \/ q[i].joined = NoFrame /\ Len(q[i].tokens) = Depth[q[i].node]
    \/ q[i].joined \in Frame /\ Kind[q[i].node] = "join" /\ Len(q[i].tokens) + 1 = Depth[q[i].node]

\* Inside a frame a path has one entry and one task or wait, both for the same node.
Single(q, a) ==
    /\ \A i, k \in DOMAIN q : q[i].tokens = q[k].tokens /\ q[i].tokens # <<>> => i = k
    /\ \A i, k \in DOMAIN a : a[i].pending /\ a[k].pending /\ a[i].tokens = a[k].tokens
                              /\ a[i].tokens # <<>> => i = k
    /\ \A i \in DOMAIN q, k \in DOMAIN a : a[k].pending /\ q[i].tokens = a[k].tokens
                              /\ a[k].tokens # <<>> => q[i].node = a[k].node

IsMarked(q, f) == \E i \in DOMAIN q : q[i].joined = f
MarkedOnce(q) == \A i, k \in DOMAIN q : q[i].joined \in Frame /\ q[k].joined = q[i].joined => i = k

\* Marked entries and executed joins belong to released frames.
Marks(cp, jn) ==
    /\ MarkedOnce(cp.queue)
    /\ \A f \in Frame : IsMarked(cp.queue, f) \/ jn[f] > 0 => Released(cp, f)

Once(cp, jn) == \A f \in Frame : Released(cp, f) =>
    /\ jn[f] = 0 <=> IsMarked(cp.queue, f)
    /\ jn[f] <= 1

Sound(cp, a, jn) == /\ Forest(Paths(cp.queue, a), cp.frames) /\ Placed(cp.queue)
                    /\ Single(cp.queue, a) /\ Marks(cp, jn)

\* What a run keeps as long as it is not over.
Complete(cp, a, jn) == Covered(Paths(cp.queue, a), cp.frames) /\ Once(cp, jn)

AsksPlaced(a) == \A k \in DOMAIN a : Kind[a[k].node] \in Human /\ Len(a[k].tokens) = Depth[a[k].node]

LEMMA NoFrameFacts == NoFrame \notin Frame
BY DEF NoFrame, Frame

LEMMA PathsOf ==
    ASSUME NEW q \in Seq(Entry), NEW a \in Seq(Ask)
    PROVE  /\ Paths(q, a) \in SUBSET Path
           /\ \A s : s \in Paths(q, a) <=> s # <<>> /\ HeldBy(s, q, a)
<1>1. \A s : s \in Paths(q, a) <=> s # <<>> /\ HeldBy(s, q, a)
  BY DEF Paths, HeldBy
<1>2. \A i \in DOMAIN q : q[i].tokens \in Seq(BranchToken)
  <2>1. \A i \in DOMAIN q : q[i] \in Entry
    OBVIOUS
  <2> QED BY <2>1 DEF Entry
<1>3. \A k \in DOMAIN a : a[k].tokens \in Seq(BranchToken)
  <2>1. \A k \in DOMAIN a : a[k] \in Ask
    OBVIOUS
  <2> QED BY <2>1 DEF Ask
<1>4. \A s \in Paths(q, a) : s \in Path
  BY <1>1, <1>2, <1>3 DEF Path, HeldBy
<1> QED BY <1>1, <1>4

LEMMA TailFacts ==
    ASSUME NEW q \in Seq(Entry), q # <<>>
    PROVE  /\ Tail(q) \in Seq(Entry) /\ Len(q) \in Nat \ {0} /\ DOMAIN q = 1..Len(q)
           /\ Head(q) = q[1] /\ q[1] \in Entry /\ 1 \in DOMAIN q
           /\ DOMAIN Tail(q) = 1..(Len(q) - 1) /\ Len(Tail(q)) = Len(q) - 1
           /\ \A i \in DOMAIN Tail(q) : i + 1 \in DOMAIN q /\ i + 1 # 1 /\ Tail(q)[i] = q[i + 1]
           /\ \A k \in DOMAIN q : k # 1 => k - 1 \in DOMAIN Tail(q) /\ Tail(q)[k - 1] = q[k]
<1>1. Len(q) \in Nat \ {0} /\ DOMAIN q = 1..Len(q) /\ Head(q) = q[1] /\ q[1] \in Entry /\ 1 \in DOMAIN q
  BY EmptySeq
<1>2. /\ Tail(q) \in Seq(Entry) /\ Len(Tail(q)) = Len(q) - 1
      /\ \A i \in 1..(Len(q) - 1) : Tail(q)[i] = q[i + 1]
  BY HeadTailProperties
<1>3. DOMAIN Tail(q) = 1..(Len(q) - 1)
  BY <1>1, <1>2
<1>4. \A i \in DOMAIN Tail(q) : i + 1 \in DOMAIN q /\ i + 1 # 1 /\ Tail(q)[i] = q[i + 1]
  BY <1>1, <1>2, <1>3
<1>5. \A k \in DOMAIN q : k # 1 => k - 1 \in DOMAIN Tail(q) /\ Tail(q)[k - 1] = q[k]
  BY <1>1, <1>2, <1>3
<1> QED BY <1>1, <1>2, <1>3, <1>4, <1>5

LEMMA TailSingle ==
    ASSUME NEW q \in Seq(Entry), NEW a \in Seq(Ask), q # <<>>, Single(q, a), Placed(q)
    PROVE  Single(Tail(q), a) /\ Placed(Tail(q))
<1>1. \A i \in DOMAIN Tail(q) : i + 1 \in DOMAIN q /\ Tail(q)[i] = q[i + 1] /\ i \in Nat
  BY TailFacts
<1>2. Placed(Tail(q))
  BY <1>1 DEF Placed
<1>3. Single(Tail(q), a)
  <2>1. \A i, k \in DOMAIN Tail(q) : Tail(q)[i].tokens = Tail(q)[k].tokens /\ Tail(q)[i].tokens # <<>> => i = k
    BY <1>1 DEF Single
  <2>2. \A i \in DOMAIN Tail(q), k \in DOMAIN a : a[k].pending /\ Tail(q)[i].tokens = a[k].tokens
                              /\ a[k].tokens # <<>> => Tail(q)[i].node = a[k].node
    BY <1>1 DEF Single
  <2> QED BY <2>1, <2>2 DEF Single
<1> QED BY <1>2, <1>3

\* Dropping an entry takes its path out, ...
LEMMA TailPaths ==
    ASSUME NEW q \in Seq(Entry), NEW a \in Seq(Ask), q # <<>>, Single(q, a),
           \A k \in DOMAIN a : a[k].pending /\ a[k].tokens = q[1].tokens => q[1].tokens = <<>>
    PROVE  Paths(Tail(q), a) = Paths(q, a) \ {q[1].tokens}
<1> SUFFICES ASSUME NEW s PROVE s \in Paths(Tail(q), a) <=> s \in Paths(q, a) \ {q[1].tokens}
  OBVIOUS
<1>0. Tail(q) \in Seq(Entry) /\ 1 \in DOMAIN q
  BY TailFacts
<1>1. ASSUME s \in Paths(Tail(q), a) PROVE s \in Paths(q, a) \ {q[1].tokens}
  <2>1. s # <<>> /\ HeldBy(s, Tail(q), a)
    BY <1>0, <1>1, PathsOf
  <2>2. CASE \E i \in DOMAIN Tail(q) : s = Tail(q)[i].tokens
    <3>1. PICK i \in DOMAIN q : i # 1 /\ s = q[i].tokens
      BY <2>2, TailFacts
    <3>2. s # q[1].tokens
      BY <2>1, <3>1, <1>0 DEF Single
    <3> QED BY <2>1, <3>1, <3>2, PathsOf DEF HeldBy
  <2>3. CASE \E k \in DOMAIN a : a[k].pending /\ s = a[k].tokens
    BY <2>1, <2>3, PathsOf DEF HeldBy
  <2> QED BY <2>1, <2>2, <2>3 DEF HeldBy
<1>2. ASSUME s \in Paths(q, a), s # q[1].tokens PROVE s \in Paths(Tail(q), a)
  <2>1. s # <<>> /\ HeldBy(s, q, a)
    BY <1>2, PathsOf
  <2>2. CASE \E i \in DOMAIN q : s = q[i].tokens
    <3>1. PICK i \in DOMAIN q : i # 1 /\ s = q[i].tokens
      BY <2>2, <1>2
    <3>2. i - 1 \in DOMAIN Tail(q) /\ s = Tail(q)[i - 1].tokens
      BY <3>1, TailFacts
    <3> QED BY <1>0, <2>1, <3>2, PathsOf DEF HeldBy
  <2>3. CASE \E k \in DOMAIN a : a[k].pending /\ s = a[k].tokens
    BY <1>0, <2>1, <2>3, PathsOf DEF HeldBy
  <2> QED BY <2>1, <2>2, <2>3 DEF HeldBy
<1> QED BY <1>1, <1>2

\* ... unless a task or wait holds it, or it is no path.
LEMMA TailKeepsPaths ==
    ASSUME NEW q \in Seq(Entry), NEW a \in Seq(Ask), q # <<>>,
           q[1].tokens = <<>> \/ \E k \in DOMAIN a : a[k].pending /\ a[k].tokens = q[1].tokens
    PROVE  Paths(Tail(q), a) = Paths(q, a)
<1> SUFFICES ASSUME NEW s PROVE s \in Paths(Tail(q), a) <=> s \in Paths(q, a)
  OBVIOUS
<1>0. Tail(q) \in Seq(Entry)
  BY TailFacts
<1>1. s # <<>> => ((\E i \in DOMAIN Tail(q) : s = Tail(q)[i].tokens) => (\E i \in DOMAIN q : s = q[i].tokens))
  BY TailFacts
<1>2. (\E i \in DOMAIN q : s = q[i].tokens) =>
          (\E i \in DOMAIN Tail(q) : s = Tail(q)[i].tokens) \/ s = q[1].tokens
  <2> SUFFICES ASSUME NEW i \in DOMAIN q, s = q[i].tokens, s # q[1].tokens
               PROVE  \E k \in DOMAIN Tail(q) : s = Tail(q)[k].tokens
    OBVIOUS
  <2>1. i - 1 \in DOMAIN Tail(q) /\ Tail(q)[i - 1] = q[i]
    BY TailFacts
  <2> QED BY <2>1
<1>3. q[1].tokens # <<>> => \E k \in DOMAIN a : a[k].pending /\ q[1].tokens = a[k].tokens
  OBVIOUS
<1>4. s # <<>> /\ HeldBy(s, Tail(q), a) <=> s # <<>> /\ HeldBy(s, q, a)
  BY <1>1, <1>2, <1>3 DEF HeldBy
<1> QED BY <1>0, <1>4, PathsOf

LEMMA AppendFacts ==
    ASSUME NEW q \in Seq(Entry), NEW r \in Seq(Entry)
    PROVE  /\ q \o r \in Seq(Entry) /\ DOMAIN q = 1..Len(q) /\ DOMAIN r = 1..Len(r)
           /\ Len(q) \in Nat /\ Len(r) \in Nat
           /\ DOMAIN (q \o r) = 1..(Len(q) + Len(r))
           /\ \A i \in DOMAIN q : i \in DOMAIN (q \o r) /\ (q \o r)[i] = q[i]
           /\ \A i \in DOMAIN r : i + Len(q) \in DOMAIN (q \o r) /\ (q \o r)[i + Len(q)] = r[i]
           /\ \A i \in DOMAIN (q \o r) : \/ i \in DOMAIN q /\ (q \o r)[i] = q[i]
                                         \/ i - Len(q) \in DOMAIN r /\ (q \o r)[i] = r[i - Len(q)]
<1>1. /\ q \o r \in Seq(Entry) /\ DOMAIN q = 1..Len(q) /\ DOMAIN r = 1..Len(r)
      /\ Len(q) \in Nat /\ Len(r) \in Nat /\ Len(q \o r) = Len(q) + Len(r)
      /\ \A i \in 1..(Len(q) + Len(r)) : (q \o r)[i] = IF i <= Len(q) THEN q[i] ELSE r[i - Len(q)]
  BY ConcatProperties
<1>2. DOMAIN (q \o r) = 1..(Len(q) + Len(r))
  BY <1>1
<1> HIDE DEF Entry
<1>3. \A i \in DOMAIN q : i \in DOMAIN (q \o r) /\ (q \o r)[i] = q[i]
  BY <1>1, <1>2
<1>4. \A i \in DOMAIN r : i + Len(q) \in DOMAIN (q \o r) /\ (q \o r)[i + Len(q)] = r[i]
  BY <1>1, <1>2
<1>5. \A i \in DOMAIN (q \o r) : \/ i \in DOMAIN q /\ (q \o r)[i] = q[i]
                                 \/ i - Len(q) \in DOMAIN r /\ (q \o r)[i] = r[i - Len(q)]
  BY <1>1, <1>2
<1> QED BY <1>1, <1>2, <1>3, <1>4, <1>5

\* New entries at the end of the queue, on paths nothing else holds.
LEMMA AppendQueue ==
    ASSUME NEW q \in Seq(Entry), NEW r \in Seq(Entry), NEW a \in Seq(Ask)
    PROVE  /\ Placed(q) /\ Placed(r) => Placed(q \o r)
           /\ Paths(q \o r, a) = Paths(q, a) \cup (TokensOf(r) \ {<<>>})
           /\ (/\ Single(q, a)
               /\ \A i, k \in DOMAIN r : r[i].tokens = r[k].tokens /\ r[i].tokens # <<>> => i = k
               /\ \A i \in DOMAIN r : r[i].tokens \notin Paths(q, a)) => Single(q \o r, a)
<1>0. q \o r \in Seq(Entry)
  BY AppendFacts
<1>1. ASSUME Placed(q), Placed(r) PROVE Placed(q \o r)
  <2> DEFINE x == q \o r
  <2>1. \A i \in DOMAIN x : \/ i \in DOMAIN q /\ x[i] = q[i]
                            \/ i - Len(q) \in DOMAIN r /\ x[i] = r[i - Len(q)]
    BY AppendFacts
  <2> HIDE DEF x
  <2>2. SUFFICES ASSUME NEW i \in DOMAIN x
                 PROVE  \/ x[i].joined = NoFrame /\ Len(x[i].tokens) = Depth[x[i].node]
                        \/ x[i].joined \in Frame /\ Kind[x[i].node] = "join"
                           /\ Len(x[i].tokens) + 1 = Depth[x[i].node]
    BY DEF Placed, x
  <2>3. (\E k \in DOMAIN q : x[i] = q[k]) \/ (\E k \in DOMAIN r : x[i] = r[k])
    BY <2>1
  <2> QED BY <1>1, <2>3 DEF Placed
<1>2. Paths(q \o r, a) = Paths(q, a) \cup (TokensOf(r) \ {<<>>})
  <2> SUFFICES ASSUME NEW s
               PROVE  s \in Paths(q \o r, a) <=>
                          s \in Paths(q, a) \/ (s # <<>> /\ \E i \in DOMAIN r : s = r[i].tokens)
    BY DEF TokensOf
  <2> DEFINE x == q \o r
  <2>a. \A i \in DOMAIN q : i \in DOMAIN x /\ x[i] = q[i]
    BY AppendFacts
  <2>b. \A i \in DOMAIN r : i + Len(q) \in DOMAIN x /\ x[i + Len(q)] = r[i]
    BY AppendFacts
  <2>c. \A i \in DOMAIN x : \/ i \in DOMAIN q /\ x[i] = q[i]
                            \/ i - Len(q) \in DOMAIN r /\ x[i] = r[i - Len(q)]
    BY AppendFacts
  <2> HIDE DEF x
  <2>1. (\E i \in DOMAIN x : s = x[i].tokens) <=>
            (\E i \in DOMAIN q : s = q[i].tokens) \/ (\E i \in DOMAIN r : s = r[i].tokens)
    BY <2>a, <2>b, <2>c
  <2>2. s \in Paths(x, a) <=> s # <<>> /\ HeldBy(s, x, a)
    BY <1>0, PathsOf DEF x
  <2>3. s \in Paths(q, a) <=> s # <<>> /\ HeldBy(s, q, a)
    BY PathsOf
  <2> QED BY <2>1, <2>2, <2>3 DEF HeldBy, x, TokensOf
<1>3. ASSUME Single(q, a),
             \A i, k \in DOMAIN r : r[i].tokens = r[k].tokens /\ r[i].tokens # <<>> => i = k,
             \A i \in DOMAIN r : r[i].tokens \notin Paths(q, a)
      PROVE  Single(q \o r, a)
  <2> DEFINE x == q \o r
  <2>a. \A i \in DOMAIN x : \/ i \in DOMAIN q /\ x[i] = q[i]
                            \/ i - Len(q) \in DOMAIN r /\ x[i] = r[i - Len(q)]
    BY AppendFacts
  <2>b. \A i \in DOMAIN r, k \in DOMAIN q : r[i].tokens = q[k].tokens => r[i].tokens = <<>>
    BY <1>3, PathsOf DEF HeldBy
  <2>c. \A i \in DOMAIN r, k \in DOMAIN a : a[k].pending /\ r[i].tokens = a[k].tokens => r[i].tokens = <<>>
    BY <1>3, PathsOf DEF HeldBy
  <2>n. Len(q) \in Nat /\ \A i \in DOMAIN x : i \in Nat
    BY AppendFacts
  <2> HIDE DEF x
  <2>1. \A i, k \in DOMAIN x : x[i].tokens = x[k].tokens /\ x[i].tokens # <<>> => i = k
    <3> SUFFICES ASSUME NEW i \in DOMAIN x, NEW k \in DOMAIN x, x[i].tokens = x[k].tokens, x[i].tokens # <<>>
                 PROVE  i = k
      OBVIOUS
    <3>1. CASE i \in DOMAIN q /\ x[i] = q[i] /\ k \in DOMAIN q /\ x[k] = q[k]
      BY <3>1, <1>3 DEF Single
    <3>2. CASE /\ i - Len(q) \in DOMAIN r /\ x[i] = r[i - Len(q)]
               /\ k - Len(q) \in DOMAIN r /\ x[k] = r[k - Len(q)]
      <4>1. i - Len(q) = k - Len(q)
        BY <3>2, <1>3
      <4> QED BY <4>1, <2>n
    <3> QED BY <2>a, <2>b, <3>1, <3>2
  <2>2. \A i \in DOMAIN x, k \in DOMAIN a : a[k].pending /\ x[i].tokens = a[k].tokens
                              /\ a[k].tokens # <<>> => x[i].node = a[k].node
    BY <2>a, <2>c, <1>3 DEF Single
  <2>3. \A i, k \in DOMAIN a : a[i].pending /\ a[k].pending /\ a[i].tokens = a[k].tokens
                              /\ a[i].tokens # <<>> => i = k
    BY <1>3 DEF Single
  <2> QED BY <2>1, <2>2, <2>3 DEF Single, x
<1> QED BY <1>1, <1>2, <1>3

LEMMA TailMarks ==
    ASSUME NEW q \in Seq(Entry), q # <<>>, MarkedOnce(q)
    PROVE  /\ MarkedOnce(Tail(q))
           /\ \A f \in Frame : IsMarked(Tail(q), f) <=> IsMarked(q, f) /\ f # q[1].joined
<1>1. MarkedOnce(Tail(q))
  <2> SUFFICES ASSUME NEW i \in DOMAIN Tail(q), NEW k \in DOMAIN Tail(q),
                      Tail(q)[i].joined \in Frame, Tail(q)[k].joined = Tail(q)[i].joined
               PROVE  i = k
    BY DEF MarkedOnce
  <2>1. i + 1 \in DOMAIN q /\ k + 1 \in DOMAIN q /\ Tail(q)[i] = q[i + 1] /\ Tail(q)[k] = q[k + 1]
        /\ i \in Nat /\ k \in Nat
    BY TailFacts
  <2>2. i + 1 = k + 1
    BY <2>1 DEF MarkedOnce
  <2> QED BY <2>1, <2>2
<1>2. ASSUME NEW f \in Frame PROVE IsMarked(Tail(q), f) <=> IsMarked(q, f) /\ f # q[1].joined
  <2>1. ASSUME IsMarked(Tail(q), f) PROVE IsMarked(q, f) /\ f # q[1].joined
    <3>1. PICK i \in DOMAIN Tail(q) : Tail(q)[i].joined = f
      BY <2>1 DEF IsMarked
    <3>2. i + 1 \in DOMAIN q /\ i + 1 # 1 /\ q[i + 1].joined = f /\ 1 \in DOMAIN q
      BY <3>1, TailFacts
    <3> QED BY <3>2 DEF IsMarked, MarkedOnce
  <2>2. ASSUME IsMarked(q, f), f # q[1].joined PROVE IsMarked(Tail(q), f)
    <3>1. PICK i \in DOMAIN q : q[i].joined = f
      BY <2>2 DEF IsMarked
    <3>2. i - 1 \in DOMAIN Tail(q) /\ Tail(q)[i - 1] = q[i]
      BY <2>2, <3>1, TailFacts
    <3> QED BY <3>1, <3>2 DEF IsMarked
  <2> QED BY <2>1, <2>2
<1> QED BY <1>1, <1>2

LEMMA AppendMarks ==
    ASSUME NEW q \in Seq(Entry), NEW r \in Seq(Entry), \A i \in DOMAIN r : r[i].joined = NoFrame
    PROVE  /\ MarkedOnce(q) => MarkedOnce(q \o r)
           /\ \A f \in Frame : IsMarked(q \o r, f) <=> IsMarked(q, f)
<1> DEFINE x == q \o r
<1>a. \A i \in DOMAIN q : i \in DOMAIN x /\ x[i] = q[i]
  BY AppendFacts
<1>b. \A i \in DOMAIN x : (i \in DOMAIN q /\ x[i] = q[i]) \/ x[i].joined \notin Frame
  BY AppendFacts, NoFrameFacts
<1> HIDE DEF x
<1>1. MarkedOnce(q) => MarkedOnce(x)
  BY <1>b DEF MarkedOnce
<1>2. \A f \in Frame : IsMarked(x, f) <=> IsMarked(q, f)
  BY <1>a, <1>b DEF IsMarked
<1> QED BY <1>1, <1>2 DEF x

\* One new entry in front of the queue.
LEMMA PrependQueue ==
    ASSUME NEW q \in Seq(Entry), NEW x \in Entry, NEW a \in Seq(Ask)
    PROVE  /\ <<x>> \o q \in Seq(Entry) /\ <<x>> \o q # <<>> /\ (<<x>> \o q)[1] = x
           /\ \A i \in DOMAIN q : i + 1 \in DOMAIN (<<x>> \o q) /\ (<<x>> \o q)[i + 1] = q[i]
           /\ \A i \in DOMAIN (<<x>> \o q) : \/ i = 1 /\ (<<x>> \o q)[i] = x
                                             \/ i # 1 /\ i - 1 \in DOMAIN q /\ (<<x>> \o q)[i] = q[i - 1]
           /\ Paths(<<x>> \o q, a) = Paths(q, a) \cup ({x.tokens} \ {<<>>})
           /\ Placed(q) /\ Placed(<<x>>) => Placed(<<x>> \o q)
           /\ Single(q, a) /\ x.tokens \notin Paths(q, a) => Single(<<x>> \o q, a)
           /\ MarkedOnce(q) /\ (x.joined \in Frame => ~IsMarked(q, x.joined)) => MarkedOnce(<<x>> \o q)
           /\ \A f \in Frame : IsMarked(<<x>> \o q, f) <=> IsMarked(q, f) \/ f = x.joined
<1> DEFINE y == <<x>> \o q
<1>1. <<x>> \in Seq(Entry) /\ Len(<<x>>) = 1 /\ DOMAIN <<x>> = {1} /\ <<x>>[1] = x
  OBVIOUS
<1>2. y \in Seq(Entry) /\ DOMAIN y = 1..(1 + Len(q)) /\ Len(q) \in Nat
  BY <1>1, AppendFacts
<1>3. \A i \in DOMAIN q : i + 1 \in DOMAIN y /\ y[i + 1] = q[i] /\ i \in Nat
  BY <1>1, AppendFacts
<1>4. y[1] = x /\ 1 \in DOMAIN y
  BY <1>1, AppendFacts
<1>5. \A i \in DOMAIN y : (i = 1 /\ y[i] = x) \/ (i # 1 /\ i - 1 \in DOMAIN q /\ y[i] = q[i - 1] /\ i \in Nat)
  BY <1>1, <1>2, AppendFacts
<1>6. y # <<>>
  BY <1>4
<1> HIDE DEF y
<1>7. Paths(y, a) = Paths(q, a) \cup ({x.tokens} \ {<<>>})
  <2> SUFFICES ASSUME NEW s
               PROVE  s \in Paths(y, a) <=> s \in Paths(q, a) \/ (s # <<>> /\ s = x.tokens)
    OBVIOUS
  <2>1. (\E i \in DOMAIN y : s = y[i].tokens) <=> (\E i \in DOMAIN q : s = q[i].tokens) \/ s = x.tokens
    BY <1>3, <1>4, <1>5
  <2>2. s \in Paths(y, a) <=> s # <<>> /\ HeldBy(s, y, a)
    BY <1>2, PathsOf
  <2>3. s \in Paths(q, a) <=> s # <<>> /\ HeldBy(s, q, a)
    BY PathsOf
  <2> QED BY <2>1, <2>2, <2>3 DEF HeldBy
<1>8. ASSUME Placed(q), Placed(<<x>>) PROVE Placed(y)
  <2> SUFFICES ASSUME NEW i \in DOMAIN y
               PROVE  \/ y[i].joined = NoFrame /\ Len(y[i].tokens) = Depth[y[i].node]
                      \/ y[i].joined \in Frame /\ Kind[y[i].node] = "join"
                         /\ Len(y[i].tokens) + 1 = Depth[y[i].node]
    BY DEF Placed
  <2>1. CASE y[i] = x
    <3>1. 1 \in DOMAIN <<x>> /\ <<x>>[1] = x
      BY <1>1
    <3> QED BY <3>1, <2>1, <1>8 DEF Placed
  <2>2. CASE i - 1 \in DOMAIN q /\ y[i] = q[i - 1]
    BY <2>2, <1>8 DEF Placed
  <2> QED BY <1>5, <2>1, <2>2
<1>9. ASSUME Single(q, a), x.tokens \notin Paths(q, a) PROVE Single(y, a)
  <2>b. \A k \in DOMAIN q : x.tokens = q[k].tokens => x.tokens = <<>>
    BY <1>9, PathsOf DEF HeldBy
  <2>c. \A k \in DOMAIN a : a[k].pending /\ x.tokens = a[k].tokens => x.tokens = <<>>
    BY <1>9, PathsOf DEF HeldBy
  <2>1. \A i, k \in DOMAIN y : y[i].tokens = y[k].tokens /\ y[i].tokens # <<>> => i = k
    <3> SUFFICES ASSUME NEW i \in DOMAIN y, NEW k \in DOMAIN y, y[i].tokens = y[k].tokens, y[i].tokens # <<>>
                 PROVE  i = k
      OBVIOUS
    <3>1. CASE i # 1 /\ k # 1
      <4>1. i - 1 \in DOMAIN q /\ k - 1 \in DOMAIN q /\ y[i] = q[i - 1] /\ y[k] = q[k - 1]
            /\ i \in Nat /\ k \in Nat
        BY <3>1, <1>5
      <4>2. i - 1 = k - 1
        BY <4>1, <1>9 DEF Single
      <4> QED BY <4>1, <4>2
    <3> QED BY <1>5, <2>b, <3>1
  <2>2. \A i \in DOMAIN y, k \in DOMAIN a : a[k].pending /\ y[i].tokens = a[k].tokens
                              /\ a[k].tokens # <<>> => y[i].node = a[k].node
    BY <1>5, <2>c, <1>9 DEF Single
  <2> QED BY <2>1, <2>2, <1>9 DEF Single
<1>10. ASSUME MarkedOnce(q), x.joined \in Frame => ~IsMarked(q, x.joined) PROVE MarkedOnce(y)
  <2> SUFFICES ASSUME NEW i \in DOMAIN y, NEW k \in DOMAIN y, y[i].joined \in Frame, y[k].joined = y[i].joined
               PROVE  i = k
    BY DEF MarkedOnce
  <2>1. CASE i # 1 /\ k # 1
    <3>1. i - 1 \in DOMAIN q /\ k - 1 \in DOMAIN q /\ y[i] = q[i - 1] /\ y[k] = q[k - 1]
          /\ i \in Nat /\ k \in Nat
      BY <2>1, <1>5
    <3>2. i - 1 = k - 1
      BY <3>1, <1>10 DEF MarkedOnce
    <3> QED BY <3>1, <3>2
  <2> QED BY <1>5, <1>10, <2>1 DEF IsMarked
<1>11. \A f \in Frame : IsMarked(y, f) <=> IsMarked(q, f) \/ f = x.joined
  BY <1>3, <1>4, <1>5 DEF IsMarked
<1> QED BY <1>2, <1>3, <1>4, <1>5, <1>6, <1>7, <1>8, <1>9, <1>10, <1>11 DEF y

-----------------------------------------------------------------------------
(* What each operation does to a checkpoint.                               *)

LEMMA CheckpointFacts ==
    ASSUME NEW cp \in Checkpoint
    PROVE  cp.queue \in Seq(Entry) /\ cp.frames \in Frames
BY DEF Checkpoint, Frames

LEMMA EntryFacts ==
    ASSUME NEW e \in Entry
    PROVE  e.node \in Nodes /\ e.tokens \in Seq(BranchToken) /\ e.joined \in Frame \cup {NoFrame}
BY DEF Entry

\* The path of an entry that asks nobody is held by that entry alone.
LEMMA HeadPath ==
    ASSUME NEW cp \in Checkpoint, NEW a \in Seq(Ask), NEW jn, Sound(cp, a, jn), AsksPlaced(a),
           cp.queue # <<>>, Kind[cp.queue[1].node] \notin Human
    PROVE  /\ \A k \in DOMAIN a : a[k].pending /\ a[k].tokens = cp.queue[1].tokens => cp.queue[1].tokens = <<>>
           /\ Paths(Tail(cp.queue), a) = Paths(cp.queue, a) \ {cp.queue[1].tokens}
           /\ cp.queue[1].tokens # <<>> => cp.queue[1].tokens \in Paths(cp.queue, a)
<1>1. cp.queue \in Seq(Entry) /\ 1 \in DOMAIN cp.queue
  BY CheckpointFacts, TailFacts
<1>2. \A k \in DOMAIN a : a[k].pending /\ a[k].tokens = cp.queue[1].tokens => cp.queue[1].tokens = <<>>
  BY <1>1 DEF Sound, Single, AsksPlaced
<1>3. Paths(Tail(cp.queue), a) = Paths(cp.queue, a) \ {cp.queue[1].tokens}
  BY <1>1, <1>2, TailPaths DEF Sound
<1>4. cp.queue[1].tokens # <<>> => cp.queue[1].tokens \in Paths(cp.queue, a)
  BY <1>1, PathsOf DEF HeldBy
<1> QED BY <1>2, <1>3, <1>4

\* An unmarked join entry is inside a frame.
LEMMA JoinInside ==
    ASSUME Nested, NEW q \in Seq(Entry), Placed(q), NEW i \in DOMAIN q,
           Kind[q[i].node] = "join", q[i].joined = NoFrame
    PROVE  q[i].tokens # <<>>
<1>1. q[i] \in Entry /\ Len(q[i].tokens) = Depth[q[i].node]
  BY NoFrameFacts DEF Placed
<1>2. Depth[q[i].node] > 0
  BY <1>1, EntryFacts, NestedFacts DEF WellNested
<1> QED BY <1>1, <1>2, EntryFacts

\* WaitAtJoin.
LEMMA WaitSound ==
    ASSUME Nested, NEW cp \in Checkpoint, NEW cp2 \in Checkpoint, NEW a \in Seq(Ask),
           NEW jn \in [Frame -> Nat], Sound(cp, a, jn), AsksPlaced(a), cp.queue # <<>>,
           NEW e, e = cp.queue[1], Kind[e.node] = "join", e.joined = NoFrame,
           cp2.queue = Tail(cp.queue), Arrived(cp.frames, cp2.frames, LastToken(e.tokens)),
           cp2.frames[LastToken(e.tokens).frame].arrived # cp2.frames[LastToken(e.tokens).frame].expected
    PROVE  Sound(cp2, a, jn) /\ (Complete(cp, a, jn) => Complete(cp2, a, jn))
<1> DEFINE q == cp.queue
           P == Paths(q, a)
           t == LastToken(e.tokens)
<1>1. q \in Seq(Entry) /\ 1 \in DOMAIN q /\ e \in Entry /\ cp.frames \in Frames /\ cp2.frames \in Frames
  BY CheckpointFacts, TailFacts
<1>2. e.tokens # <<>>
  BY <1>1, JoinInside DEF Sound
<1>3. e.tokens \in P /\ P \in SUBSET Path /\ Paths(cp2.queue, a) = P \ {e.tokens}
  BY <1>1, <1>2, HeadPath, PathsOf DEF Human
<1>4. Forest(Paths(cp2.queue, a), cp2.frames)
  BY <1>1, <1>3, ArriveForest DEF Sound
<1>5. Covered(P, cp.frames) => Covered(Paths(cp2.queue, a), cp2.frames)
  BY <1>1, <1>3, ArriveCovered DEF Sound
<1>6. Placed(cp2.queue) /\ Single(cp2.queue, a)
  BY <1>1, TailSingle DEF Sound
<1>7. t.frame \in Frame /\ \A f \in Frame : Released(cp, f) <=> Released(cp2, f)
  <2>1. t.frame \in Frame /\ t.branch \in cp.frames[t.frame].expected \ cp.frames[t.frame].arrived
    BY <1>3, PathFacts DEF Sound, Forest, Live
  <2> QED BY <2>1 DEF Arrived, Released, Forked
<1>8. MarkedOnce(cp2.queue) /\ \A f \in Frame : IsMarked(cp2.queue, f) <=> IsMarked(cp.queue, f)
  BY <1>1, TailMarks, NoFrameFacts DEF Sound, Marks
<1>9. Marks(cp2, jn)
  BY <1>7, <1>8 DEF Sound, Marks
<1>10. Once(cp, jn) => Once(cp2, jn)
  BY <1>7, <1>8 DEF Once
<1> QED BY <1>4, <1>5, <1>6, <1>9, <1>10 DEF Sound, Complete

\* OpenJoin.
LEMMA OpenSound ==
    ASSUME Nested, NEW cp \in Checkpoint, NEW cp2 \in Checkpoint, NEW a \in Seq(Ask),
           NEW jn \in [Frame -> Nat], Sound(cp, a, jn), AsksPlaced(a), cp.queue # <<>>,
           NEW e, e = cp.queue[1], Kind[e.node] = "join", e.joined = NoFrame,
           NEW x \in Entry, x.node = e.node, x.tokens = Parent(e.tokens),
           x.joined = LastToken(e.tokens).frame, cp2.queue = <<x>> \o Tail(cp.queue),
           Arrived(cp.frames, cp2.frames, LastToken(e.tokens)),
           cp2.frames[LastToken(e.tokens).frame].arrived = cp2.frames[LastToken(e.tokens).frame].expected
    PROVE  Sound(cp2, a, jn) /\ (Complete(cp, a, jn) => Complete(cp2, a, jn))
<1> DEFINE q == cp.queue
           P == Paths(q, a)
           t == LastToken(e.tokens)
           T == Tail(q)
           P2 == Paths(cp2.queue, a)
<1>1. q \in Seq(Entry) /\ 1 \in DOMAIN q /\ e \in Entry /\ cp.frames \in Frames /\ cp2.frames \in Frames
      /\ T \in Seq(Entry) /\ cp2.queue = <<x>> \o T
  BY CheckpointFacts, TailFacts
<1>2. e.tokens # <<>>
  BY <1>1, JoinInside DEF Sound
<1>3. e.tokens \in P /\ P \in SUBSET Path /\ Paths(T, a) = P \ {e.tokens}
  BY <1>1, <1>2, HeadPath, PathsOf DEF Human
<1>q. /\ Paths(cp2.queue, a) = Paths(T, a) \cup ({x.tokens} \ {<<>>})
      /\ Placed(T) /\ Placed(<<x>>) => Placed(cp2.queue)
      /\ Single(T, a) /\ x.tokens \notin Paths(T, a) => Single(cp2.queue, a)
      /\ MarkedOnce(T) /\ (x.joined \in Frame => ~IsMarked(T, x.joined)) => MarkedOnce(cp2.queue)
      /\ \A f \in Frame : IsMarked(cp2.queue, f) <=> IsMarked(T, f) \/ f = x.joined
  <2> HIDE DEF T
  <2>1. cp2.queue = <<x>> \o T /\ T \in Seq(Entry)
    BY <1>1
  <2>2. Paths(<<x>> \o T, a) = Paths(T, a) \cup ({x.tokens} \ {<<>>})
    BY <2>1, PrependQueue
  <2>3. Placed(T) /\ Placed(<<x>>) => Placed(<<x>> \o T)
    BY <2>1, PrependQueue
  <2>4. Single(T, a) /\ x.tokens \notin Paths(T, a) => Single(<<x>> \o T, a)
    BY <2>1, PrependQueue
  <2>5. MarkedOnce(T) /\ (x.joined \in Frame => ~IsMarked(T, x.joined)) => MarkedOnce(<<x>> \o T)
    BY <2>1, PrependQueue
  <2>6. \A f \in Frame : IsMarked(<<x>> \o T, f) <=> IsMarked(T, f) \/ f = x.joined
    BY <2>1, PrependQueue
  <2> QED BY <2>1, <2>2, <2>3, <2>4, <2>5, <2>6
<1>4. P2 = (P \ {e.tokens}) \cup ({Parent(e.tokens)} \ {<<>>})
  BY <1>q, <1>3
<1>5. Forest(P, cp.frames)
  BY DEF Sound
<1>6. Parent(e.tokens) \notin Paths(T, a) /\ Forest(P2, cp2.frames)
  <2> HIDE DEF P, T, P2
  <2>1. CASE Parent(e.tokens) = <<>>
    <3>1. P2 = P \ {e.tokens} /\ <<>> \notin P
      BY <1>3, <1>4, <2>1 DEF Path
    <3> QED BY <1>1, <1>3, <1>5, <2>1, <3>1, ArriveForest
  <2>2. CASE Parent(e.tokens) # <<>>
    <3>1. P2 = (P \ {e.tokens}) \cup {Parent(e.tokens)}
      BY <1>4, <2>2
    <3> QED BY <1>1, <1>3, <1>5, <2>2, <3>1, ReleaseForest
  <2> QED BY <2>1, <2>2
<1>7. Covered(P, cp.frames) => Covered(P2, cp2.frames)
  <2> HIDE DEF P, T, P2
  <2> QED BY <1>1, <1>3, <1>4, <1>5, ReleaseCovered
<1>8. Placed(T) /\ Single(T, a)
  BY <1>1, TailSingle DEF Sound
<1>9. t.frame \in Frame /\ ~Released(cp, t.frame) /\ Released(cp2, t.frame)
      /\ \A f \in Frame : f # t.frame => (Released(cp, f) <=> Released(cp2, f))
  <2>1. t.frame \in Frame /\ t.branch \in cp.frames[t.frame].expected \ cp.frames[t.frame].arrived
    BY <1>3, PathFacts DEF Sound, Forest, Live
  <2> QED BY <2>1 DEF Arrived, Released, Forked
<1>10. Placed(cp2.queue) /\ Single(cp2.queue, a)
  <2>1. Depth[x.node] = Len(e.tokens) /\ Len(x.tokens) = Len(e.tokens) - 1 /\ Len(e.tokens) \in Nat
    <3>1. Depth[e.node] = Len(e.tokens)
      BY <1>1, NoFrameFacts DEF Sound, Placed
    <3>2. e.tokens \in Path
      BY <1>3
    <3> QED BY <3>1, <3>2, PathFacts
  <2>2. Placed(<<x>>)
    BY <2>1, <1>9 DEF Placed
  <2>3. x.tokens \notin Paths(T, a)
    BY <1>6
  <2> HIDE DEF T
  <2> QED BY <1>q, <1>8, <2>2, <2>3
<1>11. MarkedOnce(T) /\ \A f \in Frame : IsMarked(T, f) <=> IsMarked(q, f)
  BY <1>1, TailMarks, NoFrameFacts DEF Sound, Marks
<1>12. ~IsMarked(q, t.frame) /\ jn[t.frame] = 0
  BY <1>9 DEF Sound, Marks
<1>13. MarkedOnce(cp2.queue) /\ \A f \in Frame : IsMarked(cp2.queue, f) <=> IsMarked(q, f) \/ f = t.frame
  <2> HIDE DEF T
  <2> QED BY <1>q, <1>11, <1>12, <1>9
<1>14. Marks(cp2, jn)
  BY <1>9, <1>13 DEF Sound, Marks
<1>15. Once(cp, jn) => Once(cp2, jn)
  BY <1>9, <1>12, <1>13 DEF Once
<1> QED BY <1>6, <1>7, <1>10, <1>14, <1>15 DEF Sound, Complete

\* ReuseAsk, LeaveBranch and SkipRepeated: the entry's path is held by its task or wait, or is none.
LEMMA LeaveSound ==
    ASSUME NEW cp \in Checkpoint, NEW cp2 \in Checkpoint, NEW a \in Seq(Ask),
           NEW jn \in [Frame -> Nat], Sound(cp, a, jn), cp.queue # <<>>,
           cp.queue[1].joined = NoFrame,
           cp.queue[1].tokens = <<>> \/ \E k \in DOMAIN a : a[k].pending /\ a[k].tokens = cp.queue[1].tokens,
           cp2.queue = Tail(cp.queue), cp2.frames = cp.frames
    PROVE  Sound(cp2, a, jn) /\ (Complete(cp, a, jn) => Complete(cp2, a, jn))
<1>1. cp.queue \in Seq(Entry)
  BY CheckpointFacts
<1>2. Paths(cp2.queue, a) = Paths(cp.queue, a)
  BY <1>1, TailKeepsPaths
<1>3. Placed(cp2.queue) /\ Single(cp2.queue, a)
  BY <1>1, TailSingle DEF Sound
<1>4. MarkedOnce(cp2.queue) /\ \A f \in Frame : IsMarked(cp2.queue, f) <=> IsMarked(cp.queue, f)
  BY <1>1, TailMarks, NoFrameFacts DEF Sound, Marks
<1>5. \A f \in Frame : Released(cp, f) <=> Released(cp2, f)
  BY DEF Released, Forked
<1>6. Marks(cp2, jn) /\ (Once(cp, jn) => Once(cp2, jn))
  BY <1>4, <1>5 DEF Sound, Marks, Once
<1> QED BY <1>2, <1>3, <1>6 DEF Sound, Complete

\* BeginNode: the queue and the frames stay as they are.
LEMMA SameSound ==
    ASSUME NEW cp, NEW cp2, NEW a, NEW jn, cp2.queue = cp.queue, cp2.frames = cp.frames
    PROVE  /\ Sound(cp, a, jn) => Sound(cp2, a, jn)
           /\ Complete(cp, a, jn) => Complete(cp2, a, jn)
BY DEF Sound, Complete, Marks, Once, Released, Forked

LEMMA SuccessorFacts ==
    ASSUME NEW next \in Seq(Nodes), NEW tokens \in Seq(BranchToken)
    PROVE  LET r == Successors(next, tokens)
           IN  /\ r \in Seq(Entry) /\ Len(r) = Len(next) /\ DOMAIN r = 1..Len(next) /\ Len(next) \in Nat
               /\ \A i \in DOMAIN r : r[i].node = next[i] /\ r[i].tokens = tokens /\ r[i].joined = NoFrame
<1> DEFINE r == Successors(next, tokens)
<1>1. DOMAIN r = 1..Len(next) /\ Len(next) \in Nat
  BY DEF Successors
<1>2. \A i \in 1..Len(next) : r[i] = [node |-> next[i], tokens |-> tokens, joined |-> NoFrame]
  BY DEF Successors
<1>3. \A i \in 1..Len(next) : next[i] \in Nodes
  OBVIOUS
<1>4. \A i \in 1..Len(next) : r[i] \in Entry
  <2> SUFFICES ASSUME NEW i \in 1..Len(next) PROVE r[i] \in Entry
    OBVIOUS
  <2>1. r[i] = [node |-> next[i], tokens |-> tokens, joined |-> NoFrame] /\ next[i] \in Nodes
    BY <1>2, <1>3
  <2> HIDE DEF r
  <2> QED BY <2>1 DEF Entry
<1>5. r \in Seq(Entry) /\ Len(r) = Len(next)
  <2>1. r = [i \in 1..Len(next) |-> r[i]]
    BY DEF Successors
  <2> HIDE DEF r
  <2> QED BY <1>1, <1>4, <2>1
<1> HIDE DEF r
<1> QED BY <1>1, <1>2, <1>5 DEF r

\* The successors of a node run at its depth; inside a frame there is exactly one.
LEMMA SuccessorsPlaced ==
    ASSUME Nested, NEW n \in Nodes, NEW tokens \in Seq(BranchToken), NEW next \in Routes[n],
           Kind[n] # "router", Len(tokens) = After(Depth, n)
    PROVE  /\ next \in Seq(Nodes) /\ Placed(Successors(next, tokens))
           /\ tokens # <<>> => Len(next) = 1
<1>1. next \in Seq(Nodes)
  BY ParallelAssumption
<1>2. \A i \in DOMAIN next : Depth[next[i]] = After(Depth, n)
  BY NestedFacts DEF WellNested
<1>3. After(Depth, n) > 0 => Len(next) = 1
  BY NestedFacts DEF WellNested
<1>4. tokens # <<>> => Len(tokens) > 0
  OBVIOUS
<1>5. Placed(Successors(next, tokens))
  <2> DEFINE r == Successors(next, tokens)
  <2>1. \A i \in DOMAIN r : i \in DOMAIN next /\ r[i].node = next[i] /\ r[i].tokens = tokens /\ r[i].joined = NoFrame
    BY <1>1, SuccessorFacts
  <2> HIDE DEF r
  <2>2. Placed(r)
    BY <1>2, <2>1 DEF Placed
  <2> QED BY <2>2 DEF r
<1> QED BY <1>1, <1>3, <1>4, <1>5

\* The tokens under which an executed entry's successors run.
LEMMA ExecutedDepth ==
    ASSUME Nested, NEW q \in Seq(Entry), Placed(q), NEW i \in DOMAIN q,
           Kind[q[i].node] = "join" => q[i].joined \in Frame
    PROVE  /\ q[i].node \in Nodes /\ q[i].tokens \in Seq(BranchToken)
           /\ Kind[q[i].node] # "router" => Len(q[i].tokens) = After(Depth, q[i].node)
           /\ Kind[q[i].node] # "join" => q[i].joined = NoFrame /\ Len(q[i].tokens) = Depth[q[i].node]
<1>1. q[i] \in Entry
  OBVIOUS
<1>2. q[i].node \in Nodes /\ q[i].tokens \in Seq(BranchToken) /\ Len(q[i].tokens) \in Nat
      /\ Depth[q[i].node] \in Nat
  BY <1>1, EntryFacts, NestedFacts
<1>3. CASE Kind[q[i].node] = "join"
  <2>1. Len(q[i].tokens) + 1 = Depth[q[i].node]
    BY <1>3, NoFrameFacts DEF Placed
  <2> QED BY <1>2, <1>3, <2>1 DEF After
<1>4. CASE Kind[q[i].node] # "join"
  <2>1. Len(q[i].tokens) = Depth[q[i].node] /\ q[i].joined = NoFrame
    BY <1>4 DEF Placed
  <2> QED BY <1>2, <1>4, <2>1 DEF After
<1> QED BY <1>3, <1>4

\* The executed join is counted.
Counts(jn, f) == IF f \in Frame THEN [jn EXCEPT ![f] = @ + 1] ELSE jn

\* RunNode of an automatic node, a released join or an end.
LEMMA AdvanceSound ==
    ASSUME Nested, NEW cp \in Checkpoint, NEW cp2 \in Checkpoint, NEW a \in Seq(Ask),
           NEW jn \in [Frame -> Nat], Sound(cp, a, jn), AsksPlaced(a), cp.queue # <<>>,
           NEW e, e = cp.queue[1], Kind[e.node] \notin Human \cup {"router"},
           Kind[e.node] = "join" => e.joined \in Frame,
           NEW next \in Routes[e.node], cp2.frames = cp.frames,
           cp2.queue = Tail(cp.queue) \o Successors(next, e.tokens)
    PROVE  /\ Sound(cp2, a, Counts(jn, e.joined))
           /\ Complete(cp, a, jn) => Complete(cp2, a, Counts(jn, e.joined))
<1> DEFINE jn2 == Counts(jn, e.joined)
           q == cp.queue
           P == Paths(q, a)
           T == Tail(q)
           s == e.tokens
           r == Successors(next, s)
<1>1. q \in Seq(Entry) /\ 1 \in DOMAIN q /\ T \in Seq(Entry) /\ cp2.queue = T \o r
  BY CheckpointFacts, TailFacts
<1>2. e.node \in Nodes /\ s \in Seq(BranchToken) /\ Len(s) = After(Depth, e.node)
  BY <1>1, ExecutedDepth DEF Sound
<1>3. next \in Seq(Nodes) /\ Placed(r) /\ (s # <<>> => Len(next) = 1)
  BY <1>2, SuccessorsPlaced
<1>4. r \in Seq(Entry) /\ DOMAIN r = 1..Len(next) /\ Len(next) \in Nat
      /\ \A i \in DOMAIN r : r[i].tokens = s /\ r[i].joined = NoFrame
  BY <1>2, <1>3, SuccessorFacts
<1>5. Paths(T, a) = P \ {s} /\ (s # <<>> => s \in P) /\ <<>> \notin P
  BY <1>1, HeadPath, PathsOf DEF Path
<1>6. Placed(T) /\ Single(T, a)
  BY <1>1, TailSingle DEF Sound
<1>7. MarkedOnce(T) /\ \A f \in Frame : IsMarked(T, f) <=> IsMarked(q, f) /\ f # e.joined
  BY <1>1, TailMarks DEF Sound, Marks
<1>j. jn2 \in [Frame -> Nat] /\ jn2 = IF e.joined \in Frame THEN [jn EXCEPT ![e.joined] = @ + 1] ELSE jn
  BY DEF Counts
<1> HIDE DEF T, r, jn2
<1>o. s # <<>> => DOMAIN r = {1}
  <2>1. 1..1 = {1}
    OBVIOUS
  <2> QED BY <1>3, <1>4, <2>1
<1> HIDE DEF P
<1>8. Paths(cp2.queue, a) = P
  <2>1. Paths(T \o r, a) = Paths(T, a) \cup (TokensOf(r) \ {<<>>})
    BY <1>1, <1>4, AppendQueue
  <2>2. CASE s = <<>>
    <3>1. TokensOf(r) \ {<<>>} = {}
      BY <1>4, <2>2 DEF TokensOf
    <3>2. Paths(T, a) = P
      BY <1>5, <2>2
    <3>3. Paths(T \o r, a) = Paths(T, a)
      BY <2>1, <3>1
    <3> QED BY <1>1, <3>2, <3>3
  <2>3. CASE s # <<>>
    <3>1. TokensOf(r) = {s}
      BY <1>o, <1>4, <2>3 DEF TokensOf
    <3>2. (P \ {s}) \cup ({s} \ {<<>>}) = P
      BY <1>5, <2>3
    <3>3. Paths(T \o r, a) = P
      BY <1>5, <2>1, <3>1, <3>2
    <3> QED BY <1>1, <3>3
  <2> QED BY <2>2, <2>3
<1>9. Placed(cp2.queue) /\ Single(cp2.queue, a)
  <2>1. \A i, k \in DOMAIN r : r[i].tokens = r[k].tokens /\ r[i].tokens # <<>> => i = k
    <3>1. CASE s = <<>>
      BY <1>4, <3>1
    <3>2. CASE s # <<>>
      BY <1>o, <3>2
    <3> QED BY <3>1, <3>2
  <2>2. \A i \in DOMAIN r : r[i].tokens \notin Paths(T, a)
    BY <1>4, <1>5
  <2>3. Placed(T \o r)
    BY <1>1, <1>3, <1>4, <1>6, AppendQueue
  <2>4. Single(T \o r, a)
    BY <1>1, <1>4, <1>6, <2>1, <2>2, AppendQueue
  <2> QED BY <1>1, <2>3, <2>4
<1>10. MarkedOnce(cp2.queue) /\ \A f \in Frame : IsMarked(cp2.queue, f) <=> IsMarked(q, f) /\ f # e.joined
  <2>1. MarkedOnce(T \o r)
    BY <1>1, <1>4, <1>7, AppendMarks
  <2>2. \A f \in Frame : IsMarked(T \o r, f) <=> IsMarked(T, f)
    BY <1>1, <1>4, AppendMarks
  <2> QED BY <1>1, <1>7, <2>1, <2>2
<1>11. \A f \in Frame : Released(cp2, f) <=> Released(cp, f)
  BY DEF Released, Forked
<1>12. \A f \in Frame : IsMarked(q, f) \/ jn[f] > 0 => Released(cp, f)
  BY DEF Sound, Marks
<1>13. e.joined \in Frame => IsMarked(q, e.joined)
  BY <1>1 DEF IsMarked
<1>14. Marks(cp2, jn2)
  <2>1. \A f \in Frame : jn2[f] > 0 => jn[f] > 0 \/ f = e.joined
    BY <1>j
  <2> QED BY <1>10, <1>11, <1>12, <1>13, <2>1 DEF Marks
<1>15. ASSUME Once(cp, jn) PROVE Once(cp2, jn2)
  <2> SUFFICES ASSUME NEW f \in Frame, Released(cp, f)
               PROVE  /\ jn2[f] = 0 <=> IsMarked(cp2.queue, f)
                      /\ jn2[f] <= 1
    BY <1>11 DEF Once
  <2>1. (jn[f] = 0 <=> IsMarked(q, f)) /\ jn[f] <= 1 /\ jn[f] \in Nat
    BY <1>15 DEF Once
  <2>2. CASE f = e.joined
    <3>1. jn2[f] = 1
      BY <1>j, <1>13, <2>1, <2>2
    <3> QED BY <1>10, <2>2, <3>1
  <2>3. CASE f # e.joined
    <3>1. jn2[f] = jn[f]
      BY <1>j, <2>3
    <3> QED BY <1>10, <2>1, <2>3, <3>1
  <2> QED BY <2>2, <2>3
<1> QED BY <1>8, <1>9, <1>14, <1>15 DEF Sound, Complete, P, jn2

\* The join was executed, but its checkpoint was refused.
LEMMA CountSound ==
    ASSUME NEW cp \in Checkpoint, NEW a, NEW jn \in [Frame -> Nat], Sound(cp, a, jn), cp.queue # <<>>,
           NEW f \in Frame, cp.queue[1].joined = f
    PROVE  Sound(cp, a, [jn EXCEPT ![f] = @ + 1])
<1>1. IsMarked(cp.queue, f)
  BY CheckpointFacts, TailFacts DEF IsMarked
<1> QED BY <1>1 DEF Sound, Marks

BranchNodes(next) == {next[i] : i \in 1..Len(next)}

\* The entries that Fork queues.
BranchEntries(next, tokens, f) ==
    [i \in 1..Len(next) |-> [node |-> next[i], joined |-> NoFrame,
                             tokens |-> Append(tokens, [frame |-> f, branch |-> next[i]])]]

LEMMA BranchFacts ==
    ASSUME NEW next \in Seq(Nodes), NEW tokens \in Seq(BranchToken), NEW f \in Frame
    PROVE  LET r == BranchEntries(next, tokens, f)
           IN  /\ r \in Seq(Entry) /\ DOMAIN r = DOMAIN next
               /\ \A i \in DOMAIN r : /\ r[i].node = next[i] /\ r[i].joined = NoFrame
                                      /\ r[i].tokens \in Seq(BranchToken) /\ r[i].tokens # <<>>
                                      /\ Len(r[i].tokens) = Len(tokens) + 1
                                      /\ r[i].tokens[Len(tokens) + 1].frame = f
                                      /\ r[i].tokens[Len(tokens) + 1].branch = next[i]
                                      /\ \A p \in 1..Len(tokens) : r[i].tokens[p] = tokens[p]
               /\ TokensOf(r) = Branches(tokens, f, BranchNodes(next))
<1> DEFINE r == BranchEntries(next, tokens, f)
<1>1. Len(next) \in Nat /\ DOMAIN next = 1..Len(next) /\ \A i \in 1..Len(next) : next[i] \in Nodes
  OBVIOUS
<1>2. DOMAIN r = 1..Len(next)
  BY DEF BranchEntries
<1>4. \A i \in 1..Len(next) : [frame |-> f, branch |-> next[i]] \in BranchToken
  BY <1>1 DEF BranchToken
<1>5. \A t \in BranchToken : /\ Append(tokens, t) \in Seq(BranchToken) /\ Len(Append(tokens, t)) = Len(tokens) + 1
                             /\ Append(tokens, t)[Len(tokens) + 1] = t /\ Append(tokens, t) # <<>>
                             /\ \A p \in 1..Len(tokens) : Append(tokens, t)[p] = tokens[p]
  BY AppendProperties
<1>6. \A i \in DOMAIN r : /\ r[i].node = next[i] /\ r[i].joined = NoFrame
                          /\ r[i].tokens = Append(tokens, [frame |-> f, branch |-> next[i]])
                          /\ r[i].tokens \in Seq(BranchToken) /\ r[i].tokens # <<>>
                          /\ Len(r[i].tokens) = Len(tokens) + 1
                          /\ r[i].tokens[Len(tokens) + 1].frame = f
                          /\ r[i].tokens[Len(tokens) + 1].branch = next[i]
                          /\ \A p \in 1..Len(tokens) : r[i].tokens[p] = tokens[p]
  <2> SUFFICES ASSUME NEW i \in 1..Len(next)
               PROVE  /\ r[i].node = next[i] /\ r[i].joined = NoFrame
                      /\ r[i].tokens = Append(tokens, [frame |-> f, branch |-> next[i]])
                      /\ r[i].tokens \in Seq(BranchToken) /\ r[i].tokens # <<>>
                      /\ Len(r[i].tokens) = Len(tokens) + 1
                      /\ r[i].tokens[Len(tokens) + 1].frame = f
                          /\ r[i].tokens[Len(tokens) + 1].branch = next[i]
                      /\ \A p \in 1..Len(tokens) : r[i].tokens[p] = tokens[p]
    BY <1>2
  <2> DEFINE t == [frame |-> f, branch |-> next[i]]
  <2>0. t \in BranchToken
    BY <1>4
  <2>1. t \in BranchToken /\ r[i].tokens = Append(tokens, t)
    BY <2>0 DEF BranchEntries
  <2>2. r[i].node = next[i] /\ r[i].joined = NoFrame
    BY DEF BranchEntries
  <2> HIDE DEF t
  <2>3. /\ r[i].tokens \in Seq(BranchToken) /\ r[i].tokens # <<>>
        /\ Len(r[i].tokens) = Len(tokens) + 1 /\ r[i].tokens[Len(tokens) + 1] = t
        /\ \A p \in 1..Len(tokens) : r[i].tokens[p] = tokens[p]
    BY <1>5, <2>1
  <2> QED BY <2>1, <2>2, <2>3 DEF t
<1>7. \A i \in DOMAIN r : r[i] \in Entry
  <2> SUFFICES ASSUME NEW i \in 1..Len(next) PROVE r[i] \in Entry
    BY <1>2
  <2>1. Append(tokens, [frame |-> f, branch |-> next[i]]) \in Seq(BranchToken)
    BY <1>4, <1>5
  <2> QED BY <1>1, <2>1 DEF Entry, BranchEntries
<1>8. r \in Seq(Entry)
  <2>1. r = [i \in 1..Len(next) |-> r[i]]
    BY <1>2 DEF BranchEntries
  <2> QED BY <1>1, <1>2, <1>7, <2>1
<1>9. TokensOf(r) = Branches(tokens, f, BranchNodes(next))
  <2>1. \A i \in DOMAIN r : r[i].tokens = Append(tokens, [frame |-> f, branch |-> next[i]])
    BY <1>6
  <2>2. TokensOf(r) = {Append(tokens, [frame |-> f, branch |-> next[i]]) : i \in 1..Len(next)}
    <3> HIDE DEF Frame
    <3> QED BY <1>2, <2>1 DEF TokensOf
  <2> QED BY <2>2 DEF Branches, BranchNodes
<1> HIDE DEF r
<1> QED BY <1>1, <1>2, <1>6, <1>8, <1>9 DEF r

\* RunNode of a router.
LEMMA ForkSound ==
    ASSUME Nested, NEW cp \in Checkpoint, NEW cp2 \in Checkpoint, NEW a \in Seq(Ask),
           NEW jn \in [Frame -> Nat], Sound(cp, a, jn), AsksPlaced(a), cp.queue # <<>>,
           NEW e, e = cp.queue[1], Kind[e.node] = "router", NEW next \in Routes[e.node],
           NEW f \in Frame, ~Forked(cp, f),
           cp2.queue = Tail(cp.queue) \o BranchEntries(next, e.tokens, f),
           Opened(cp.frames, cp2.frames, f, BranchNodes(next))
    PROVE  Sound(cp2, a, jn) /\ (Complete(cp, a, jn) => Complete(cp2, a, jn))
<1> DEFINE q == cp.queue
           P == Paths(q, a)
           T == Tail(q)
           s == e.tokens
           B == BranchNodes(next)
           N == Branches(s, f, B)
           r == BranchEntries(next, s, f)
<1>1. q \in Seq(Entry) /\ 1 \in DOMAIN q /\ T \in Seq(Entry) /\ cp2.queue = T \o r
      /\ cp.frames \in Frames /\ cp2.frames \in Frames
  BY CheckpointFacts, TailFacts
<1>2. e.node \in Nodes /\ s \in Seq(BranchToken) /\ e.joined = NoFrame /\ Len(s) = Depth[e.node]
  BY <1>1, ExecutedDepth DEF Sound
<1>3. /\ next \in Seq(Nodes) /\ next # <<>>
      /\ \A i \in DOMAIN next : Depth[next[i]] = Depth[e.node] + 1
      /\ \A i, k \in DOMAIN next : next[i] = next[k] => i = k
  <2>1. next \in Seq(Nodes)
    BY <1>2, ParallelAssumption
  <2>2. \A i \in DOMAIN next : Depth[next[i]] = Depth[e.node] + 1
    BY <1>2, NestedFacts DEF WellNested, After
  <2>3. next # <<>> /\ \A i, k \in DOMAIN next : next[i] = next[k] => i = k
    BY <1>2, NestedFacts DEF WellNested
  <2> QED BY <2>1, <2>2, <2>3
<1>4. /\ r \in Seq(Entry) /\ DOMAIN r = DOMAIN next
      /\ \A i \in DOMAIN r : /\ r[i].node = next[i] /\ r[i].joined = NoFrame
                             /\ Len(r[i].tokens) = Len(s) + 1
                             /\ r[i].tokens[Len(s) + 1].branch = next[i]
      /\ TokensOf(r) = N
  <2>1. s \in Seq(BranchToken) /\ next \in Seq(Nodes)
    BY <1>2, <1>3
  <2> HIDE DEF s
  <2>2. r \in Seq(Entry) /\ DOMAIN r = DOMAIN next
    BY <2>1, BranchFacts
  <2>3. \A i \in DOMAIN r : /\ r[i].node = next[i] /\ r[i].joined = NoFrame
                            /\ Len(r[i].tokens) = Len(s) + 1
                            /\ r[i].tokens[Len(s) + 1].branch = next[i]
    BY <2>1, BranchFacts
  <2>4. TokensOf(r) = N
    BY <2>1, BranchFacts
  <2> QED BY <2>2, <2>3, <2>4
<1>5. Paths(T, a) = P \ {s} /\ (s # <<>> => s \in P) /\ P \in SUBSET Path
  BY <1>1, HeadPath, PathsOf DEF Human
<1>6. Placed(T) /\ Single(T, a)
  BY <1>1, TailSingle DEF Sound
<1>7. MarkedOnce(T) /\ \A g \in Frame : IsMarked(T, g) <=> IsMarked(q, g)
  BY <1>1, <1>2, TailMarks, NoFrameFacts DEF Sound, Marks
<1>8. Forest(P, cp.frames) /\ Marks(cp, jn)
  BY DEF Sound
<1>9. cp.frames[f].expected = {}
  BY DEF Forked
<1>10. B \in SUBSET Nodes /\ B # {}
  <2>1. Len(next) \in Nat \ {0} /\ \A i \in 1..Len(next) : next[i] \in Nodes
    BY <1>3, EmptySeq
  <2> QED BY <2>1 DEF BranchNodes
<1>11. \A g \in Frame : g # f => (Released(cp2, g) <=> Released(cp, g))
  BY DEF Released, Forked, Opened
<1>12. ~Released(cp, f) /\ ~Released(cp2, f)
  BY <1>9, <1>10 DEF Released, Forked, Opened
<1> HIDE DEF P, T, B, N, s, r
<1>f. Opened(cp.frames, cp2.frames, f, B) /\ N = Branches(s, f, B)
  BY DEF B, N
<1>13. /\ N \subseteq Path /\ N \cap P = {} /\ Forest((P \ {s}) \cup N, cp2.frames)
       /\ B # {} /\ Covered(P, cp.frames) => Covered((P \ {s}) \cup N, cp2.frames)
  <2>1. s \in P \/ s = <<>>
    BY <1>5
  <2>2. s \in Seq(BranchToken)
    BY <1>2 DEF s
  <2> USE DEF N
  <2> QED BY <1>1, <1>5, <1>8, <1>9, <1>10, <1>f, <2>1, <2>2, ForkForest
<1>14. Paths(cp2.queue, a) = (P \ {s}) \cup N
  <2>1. Paths(T \o r, a) = Paths(T, a) \cup (TokensOf(r) \ {<<>>})
    BY <1>1, <1>4, AppendQueue
  <2>2. N \ {<<>>} = N
    BY <1>13 DEF Path
  <2> QED BY <1>1, <1>4, <1>5, <2>1, <2>2
<1>15. Placed(r)
  <2> SUFFICES ASSUME NEW i \in DOMAIN r
               PROVE  r[i].joined = NoFrame /\ Len(r[i].tokens) = Depth[r[i].node]
    BY DEF Placed
  <2>1. r[i].joined = NoFrame /\ r[i].node = next[i] /\ Len(r[i].tokens) = Len(s) + 1
    BY <1>4
  <2>2. Depth[next[i]] = Depth[e.node] + 1
    BY <1>3, <1>4
  <2> QED BY <1>2, <2>1, <2>2 DEF s
<1>16. Placed(cp2.queue) /\ Single(cp2.queue, a)
  <2>1. \A i, k \in DOMAIN r : r[i].tokens = r[k].tokens /\ r[i].tokens # <<>> => i = k
    <3> SUFFICES ASSUME NEW i \in DOMAIN r, NEW k \in DOMAIN r, r[i].tokens = r[k].tokens
                 PROVE  i = k
      OBVIOUS
    <3>1. next[i] = next[k]
      BY <1>4
    <3> QED BY <1>3, <1>4, <3>1
  <2>2. \A i \in DOMAIN r : r[i].tokens \notin Paths(T, a)
    <3>1. \A i \in DOMAIN r : r[i].tokens \in N
      BY <1>4 DEF TokensOf
    <3> QED BY <1>5, <1>13, <3>1
  <2>3. Placed(T \o r)
    BY <1>1, <1>4, <1>6, <1>15, AppendQueue
  <2>4. Single(T \o r, a)
    BY <1>1, <1>4, <1>6, <2>1, <2>2, AppendQueue
  <2> QED BY <1>1, <2>3, <2>4
<1>17. MarkedOnce(cp2.queue) /\ \A g \in Frame : IsMarked(cp2.queue, g) <=> IsMarked(q, g)
  <2>1. MarkedOnce(T \o r)
    BY <1>1, <1>4, <1>7, AppendMarks
  <2>2. \A g \in Frame : IsMarked(T \o r, g) <=> IsMarked(T, g)
    BY <1>1, <1>4, AppendMarks
  <2> QED BY <1>1, <1>7, <2>1, <2>2
<1>18. Marks(cp2, jn) /\ (Once(cp, jn) => Once(cp2, jn))
  BY <1>8, <1>11, <1>12, <1>17 DEF Marks, Once
<1> QED BY <1>10, <1>13, <1>14, <1>16, <1>18 DEF Sound, Complete, P

-----------------------------------------------------------------------------
(* What happens to tasks and waits.                                        *)

\* a2 is a with other answers and statuses: nothing is taken from its path.
SamePlaces(a, a2) ==
    /\ DOMAIN a2 = DOMAIN a
    /\ \A k \in DOMAIN a : a2[k].node = a[k].node /\ a2[k].tokens = a[k].tokens
                           /\ a2[k].pending = a[k].pending

LEMMA SamePlacesSound ==
    ASSUME NEW cp \in Checkpoint, NEW a \in Seq(Ask), NEW a2 \in Seq(Ask), NEW jn, SamePlaces(a, a2)
    PROVE  /\ Sound(cp, a, jn) => Sound(cp, a2, jn)
           /\ Complete(cp, a, jn) => Complete(cp, a2, jn)
           /\ AsksPlaced(a) => AsksPlaced(a2)
<1>0. cp.queue \in Seq(Entry)
  BY CheckpointFacts
<1>1. Paths(cp.queue, a2) = Paths(cp.queue, a)
  <2>1. \A s : HeldBy(s, cp.queue, a2) <=> HeldBy(s, cp.queue, a)
    BY DEF SamePlaces, HeldBy
  <2> QED BY <1>0, <2>1, PathsOf
<1>2. Single(cp.queue, a) => Single(cp.queue, a2)
  BY DEF Single, SamePlaces
<1>3. AsksPlaced(a) => AsksPlaced(a2)
  BY DEF AsksPlaced, SamePlaces
<1> QED BY <1>1, <1>2, <1>3 DEF Sound, Complete

\* a2 is a with the ask i answered.
Answered(a, a2, i) ==
    /\ DOMAIN a2 = DOMAIN a /\ ~a2[i].pending
    /\ \A k \in DOMAIN a : a2[k].node = a[k].node /\ a2[k].tokens = a[k].tokens
                           /\ (k # i => a2[k].pending = a[k].pending)

LEMMA AnsweredSound ==
    ASSUME NEW cp \in Checkpoint, NEW a \in Seq(Ask), NEW a2 \in Seq(Ask), NEW jn,
           NEW i \in DOMAIN a, Answered(a, a2, i)
    PROVE  /\ Sound(cp, a, jn) => Sound(cp, a2, jn)
           /\ AsksPlaced(a) => AsksPlaced(a2)
           /\ a[i].pending => \A s : s \in Paths(cp.queue, a) <=>
                                       s \in Paths(cp.queue, a2) \/ (s = a[i].tokens /\ s # <<>>)
<1>0. cp.queue \in Seq(Entry)
  BY CheckpointFacts
<1>p. \A k \in DOMAIN a : a2[k].pending => a[k].pending
  BY DEF Answered
<1>1. Paths(cp.queue, a2) \subseteq Paths(cp.queue, a)
  <2>1. \A s : HeldBy(s, cp.queue, a2) => HeldBy(s, cp.queue, a)
    BY <1>p DEF Answered, HeldBy
  <2> QED BY <1>0, <2>1, PathsOf
<1>2. Single(cp.queue, a) => Single(cp.queue, a2)
  BY <1>p DEF Single, Answered
<1>3. AsksPlaced(a) => AsksPlaced(a2)
  BY DEF AsksPlaced, Answered
<1>4. ASSUME Forest(Paths(cp.queue, a), cp.frames) PROVE Forest(Paths(cp.queue, a2), cp.frames)
  <2>1. Live(Paths(cp.queue, a2), cp.frames)
    BY <1>1, <1>4 DEF Forest, Live
  <2>2. Agree(Paths(cp.queue, a2)) /\ Meet(Paths(cp.queue, a2))
    BY <1>1, <1>4, FewerPaths DEF Forest
  <2> QED BY <1>4, <2>1, <2>2 DEF Forest
<1>5. ASSUME a[i].pending, NEW s
      PROVE  s \in Paths(cp.queue, a) <=> s \in Paths(cp.queue, a2) \/ (s = a[i].tokens /\ s # <<>>)
  <2>1. HeldBy(s, cp.queue, a) <=> HeldBy(s, cp.queue, a2) \/ s = a[i].tokens
    BY <1>5, <1>p DEF Answered, HeldBy
  <2> QED BY <1>0, <2>1, PathsOf
<1> QED BY <1>2, <1>3, <1>4, <1>5 DEF Sound

\* Every entry of the queue is on the root path and unmarked.
RootPlain(e) == e.tokens = <<>> /\ e.joined = NoFrame
AllRoot(q) == \A i \in DOMAIN q : RootPlain(q[i])

\* Continue: the successors take over the path of the task or wait.
LEMMA ResumeSound ==
    ASSUME Nested, NEW cp \in Checkpoint, NEW cp2 \in Checkpoint, NEW a \in Seq(Ask), NEW a2 \in Seq(Ask),
           NEW jn \in [Frame -> Nat], Sound(cp, a, jn), AsksPlaced(a), AllRoot(cp.queue),
           NEW i \in DOMAIN a, a[i].pending, Answered(a, a2, i), NEW next \in Routes[a[i].node],
           cp2.frames = cp.frames, cp2.queue = cp.queue \o Successors(next, a[i].tokens)
    PROVE  Sound(cp2, a2, jn) /\ (Complete(cp, a, jn) => Complete(cp2, a2, jn))
<1> DEFINE q == cp.queue
           P == Paths(q, a)
           Q == Paths(q, a2)
           s == a[i].tokens
           r == Successors(next, s)
<1>1. q \in Seq(Entry) /\ cp2.queue = q \o r
  BY CheckpointFacts
<1>2. a[i].node \in Nodes /\ s \in Seq(BranchToken)
  <2>1. a[i] \in Ask
    OBVIOUS
  <2> QED BY <2>1 DEF Ask
<1>3. Kind[a[i].node] # "router" /\ Len(s) = After(Depth, a[i].node)
  BY DEF AsksPlaced, After, Human
<1>4. next \in Seq(Nodes) /\ Placed(r) /\ (s # <<>> => Len(next) = 1)
  BY <1>2, <1>3, SuccessorsPlaced
<1>5. r \in Seq(Entry) /\ DOMAIN r = 1..Len(next) /\ Len(next) \in Nat
      /\ \A k \in DOMAIN r : r[k].tokens = s /\ r[k].joined = NoFrame
  BY <1>2, <1>4, SuccessorFacts
<1>6. Sound(cp, a2, jn)
  BY AnsweredSound
<1>7. (\A z : z \in P <=> z \in Q \/ (z = s /\ z # <<>>)) /\ <<>> \notin Q
  BY <1>1, AnsweredSound, PathsOf DEF Path
<1>8. s \notin Q
  <2>1. SUFFICES ASSUME s \in Q PROVE FALSE
    OBVIOUS
  <2>2. s # <<>> /\ HeldBy(s, q, a2)
    BY <1>1, <2>1, PathsOf
  <2>3. CASE \E k \in DOMAIN q : s = q[k].tokens
    BY <2>2, <2>3 DEF AllRoot, RootPlain
  <2>4. CASE \E k \in DOMAIN a2 : a2[k].pending /\ s = a2[k].tokens
    <3>1. PICK k \in DOMAIN a : a2[k].pending /\ s = a2[k].tokens
      BY <2>4 DEF Answered
    <3>2. k # i /\ a[k].pending /\ a[k].tokens = s
      BY <3>1 DEF Answered
    <3> QED BY <2>2, <3>2 DEF Sound, Single
  <2> QED BY <2>2, <2>3, <2>4 DEF HeldBy
<1>o. s # <<>> => DOMAIN r = {1}
  <2>1. 1..1 = {1}
    OBVIOUS
  <2> QED BY <1>4, <1>5, <2>1
<1> HIDE DEF P, Q, r
<1>9. Paths(cp2.queue, a2) = P
  <2>1. Paths(q \o r, a2) = Q \cup (TokensOf(r) \ {<<>>})
    BY <1>1, <1>5, AppendQueue DEF Q
  <2>2. CASE s = <<>>
    <3>1. TokensOf(r) \ {<<>>} = {}
      BY <1>5, <2>2 DEF TokensOf
    <3>2. Q = P
      BY <1>7, <2>2
    <3>3. Paths(q \o r, a2) = Q
      BY <2>1, <3>1
    <3> QED BY <1>1, <3>2, <3>3
  <2>3. CASE s # <<>>
    <3>1. TokensOf(r) = {s}
      BY <1>o, <1>5, <2>3 DEF TokensOf
    <3>2. Q \cup ({s} \ {<<>>}) = P
      BY <1>7, <2>3
    <3>3. Paths(q \o r, a2) = P
      BY <2>1, <3>1, <3>2
    <3> QED BY <1>1, <3>3
  <2> QED BY <2>2, <2>3
<1>10. Placed(cp2.queue) /\ Single(cp2.queue, a2)
  <2>1. \A j, k \in DOMAIN r : r[j].tokens = r[k].tokens /\ r[j].tokens # <<>> => j = k
    <3>1. CASE s = <<>>
      BY <1>5, <3>1
    <3>2. CASE s # <<>>
      BY <1>o, <3>2
    <3> QED BY <3>1, <3>2
  <2>2. \A k \in DOMAIN r : r[k].tokens \notin Paths(q, a2)
    BY <1>5, <1>8 DEF Q
  <2>3. Placed(q) /\ Single(q, a2)
    BY <1>6 DEF Sound
  <2>4. Placed(q \o r)
    BY <1>1, <1>4, <1>5, <2>3, AppendQueue DEF r
  <2>5. Single(q \o r, a2)
    BY <1>1, <1>5, <2>1, <2>2, <2>3, AppendQueue
  <2> QED BY <1>1, <2>4, <2>5
<1>11. MarkedOnce(cp2.queue) /\ \A f \in Frame : IsMarked(cp2.queue, f) <=> IsMarked(q, f)
  <2>0. MarkedOnce(q)
    BY DEF Sound, Marks
  <2>1. MarkedOnce(q \o r)
    BY <1>1, <1>5, <2>0, AppendMarks
  <2>2. \A f \in Frame : IsMarked(q \o r, f) <=> IsMarked(q, f)
    BY <1>1, <1>5, AppendMarks
  <2> QED BY <1>1, <2>1, <2>2
<1>12. \A f \in Frame : Released(cp2, f) <=> Released(cp, f)
  BY DEF Released, Forked
<1>13. Marks(cp2, jn) /\ (Once(cp, jn) => Once(cp2, jn))
  BY <1>11, <1>12 DEF Sound, Marks, Once
<1> QED BY <1>9, <1>10, <1>13 DEF Sound, Complete, P

\* CreateAsk: the new task or wait stands on the path of its entry, and on no other's.
IsAsked(a, n, s) == \E k \in DOMAIN a : a[k].node = n /\ a[k].tokens = s

LEMMA CreateSound ==
    ASSUME Nested, NEW cp \in Checkpoint, NEW a \in Seq(Ask), NEW x \in Ask,
           NEW jn \in [Frame -> Nat], Sound(cp, a, jn), AsksPlaced(a), cp.queue # <<>>,
           Kind[cp.queue[1].node] \in Human, x.node = cp.queue[1].node, x.tokens = cp.queue[1].tokens,
           x.pending, ~IsAsked(a, x.node, x.tokens)
    PROVE  /\ Sound(cp, Append(a, x), jn) /\ AsksPlaced(Append(a, x))
           /\ Complete(cp, a, jn) => Complete(cp, Append(a, x), jn)
<1> DEFINE q == cp.queue
           e == cp.queue[1]
           a2 == Append(a, x)
<1>0. a2 \in Seq(Ask) /\ ~\E k \in DOMAIN a : a[k].node = e.node /\ a[k].tokens = e.tokens
  BY DEF IsAsked
<1>1. q \in Seq(Entry) /\ 1 \in DOMAIN q
  BY CheckpointFacts, TailFacts
<1>2. /\ DOMAIN a = 1..Len(a) /\ Len(a) \in Nat /\ DOMAIN a2 = 1..(Len(a) + 1)
      /\ \A k \in DOMAIN a : k \in DOMAIN a2 /\ a2[k] = a[k]
      /\ a2[Len(a) + 1] = x /\ Len(a) + 1 \in DOMAIN a2
      /\ \A k \in DOMAIN a2 : k \in DOMAIN a \/ k = Len(a) + 1
  <2> HIDE DEF Ask
  <2>1. /\ Len(a) \in Nat /\ Len(a2) = Len(a) + 1 /\ a2[Len(a) + 1] = x
        /\ \A k \in 1..Len(a) : a2[k] = a[k]
    BY AppendProperties
  <2> HIDE DEF a2
  <2>2. DOMAIN a = 1..Len(a) /\ DOMAIN a2 = 1..(Len(a) + 1)
    BY <2>1
  <2> QED BY <2>1, <2>2
<1> HIDE DEF a2
<1>3. Paths(q, a2) = Paths(q, a)
  <2>1. \A s : HeldBy(s, q, a2) <=> HeldBy(s, q, a)
    BY <1>1, <1>2 DEF HeldBy
  <2> QED BY <1>0, <1>1, <2>1, PathsOf
<1>4. \A k \in DOMAIN a : a[k].pending /\ a[k].tokens = e.tokens => e.tokens = <<>>
  BY <1>0, <1>1 DEF Sound, Single
<1>5. Single(q, a2)
  <2>1. \A i, k \in DOMAIN a2 : a2[i].pending /\ a2[k].pending /\ a2[i].tokens = a2[k].tokens
                              /\ a2[i].tokens # <<>> => i = k
    BY <1>2, <1>4 DEF Sound, Single
  <2>2. \A i \in DOMAIN q, k \in DOMAIN a2 : a2[k].pending /\ q[i].tokens = a2[k].tokens
                              /\ a2[k].tokens # <<>> => q[i].node = a2[k].node
    BY <1>1, <1>2 DEF Sound, Single
  <2>3. \A i, k \in DOMAIN q : q[i].tokens = q[k].tokens /\ q[i].tokens # <<>> => i = k
    BY DEF Sound, Single
  <2> QED BY <2>1, <2>2, <2>3 DEF Single
<1>6. AsksPlaced(a2)
  <2>1. Len(e.tokens) = Depth[e.node]
    BY <1>1, ExecutedDepth DEF Sound, Human
  <2> QED BY <1>2, <2>1 DEF AsksPlaced
<1> QED BY <1>3, <1>5, <1>6 DEF Sound, Complete, a2

-----------------------------------------------------------------------------
(* Contexts and scopes, as far as a step's queue and frames go.            *)

Scopes == [Frame -> [base : SUBSET Nodes, branch : [Nodes -> SUBSET Nodes]]]

LEMMA CheckpointParts ==
    ASSUME NEW cp \in Checkpoint
    PROVE  /\ cp = [queue |-> cp.queue, ctx |-> cp.ctx, frames |-> cp.frames, scopes |-> cp.scopes]
           /\ cp.queue \in Seq(Entry) /\ cp.ctx \in SUBSET Nodes
           /\ cp.frames \in Frames /\ cp.scopes \in Scopes
<1> HIDE DEF Entry
<1> QED BY DEF Checkpoint, Frames, Scopes

LEMMA PartsCheckpoint ==
    ASSUME NEW q \in Seq(Entry), NEW x \in SUBSET Nodes, NEW fr \in Frames, NEW sc \in Scopes
    PROVE  [queue |-> q, ctx |-> x, frames |-> fr, scopes |-> sc] \in Checkpoint
<1> HIDE DEF Entry
<1> QED BY DEF Checkpoint, Frames, Scopes

LEMMA DropFacts ==
    ASSUME NEW cp \in Checkpoint, cp.queue # <<>>
    PROVE  /\ Drop(cp) \in Checkpoint /\ Drop(cp).queue = Tail(cp.queue) /\ Drop(cp).ctx = cp.ctx
           /\ Drop(cp).frames = cp.frames /\ Drop(cp).scopes = cp.scopes
<1> DEFINE q == Tail(cp.queue)
<1>1. Drop(cp) = [cp EXCEPT !.queue = q]
  BY DEF Drop
<1>2. q \in Seq(Entry)
  BY CheckpointFacts, TailFacts
<1> HIDE DEF q
<1>3. cp = [queue |-> cp.queue, ctx |-> cp.ctx, frames |-> cp.frames, scopes |-> cp.scopes]
  BY CheckpointParts
<1>4. [cp EXCEPT !.queue = q] = [queue |-> q, ctx |-> cp.ctx, frames |-> cp.frames, scopes |-> cp.scopes]
  BY <1>3
<1>5. cp.ctx \in SUBSET Nodes /\ cp.frames \in Frames /\ cp.scopes \in Scopes
  BY CheckpointParts
<1>6. Drop(cp) \in Checkpoint
  BY <1>1, <1>2, <1>4, <1>5, PartsCheckpoint
<1> QED BY <1>1, <1>4, <1>6 DEF q

LEMMA TokenFacts ==
    ASSUME NEW tokens \in Seq(BranchToken), tokens # <<>>
    PROVE  LastToken(tokens) \in BranchToken /\ LastToken(tokens).frame \in Frame
           /\ LastToken(tokens).branch \in Nodes
<1>1. tokens \in Path
  BY DEF Path
<1> QED BY <1>1, PathFacts DEF BranchToken

LEMMA ActivateFacts ==
    ASSUME NEW cp \in Checkpoint, NEW tokens \in Seq(BranchToken)
    PROVE  /\ Activate(cp, tokens) \in Checkpoint
           /\ Activate(cp, tokens).queue = cp.queue /\ Activate(cp, tokens).frames = cp.frames
           /\ Activate(cp, tokens).scopes = cp.scopes
           /\ tokens = <<>> => Activate(cp, tokens) = cp
           /\ tokens # <<>> => Activate(cp, tokens).ctx =
                                  cp.scopes[LastToken(tokens).frame].branch[LastToken(tokens).branch]
<1>1. CASE tokens = <<>>
  BY <1>1 DEF Activate
<1>2. CASE tokens # <<>>
  <2> DEFINE t == LastToken(tokens)
             x == cp.scopes[t.frame].branch[t.branch]
  <2>1. Activate(cp, tokens) = [queue |-> cp.queue, ctx |-> x, frames |-> cp.frames, scopes |-> cp.scopes]
    BY <1>2, CheckpointParts DEF Activate
  <2>2. x \in SUBSET Nodes
    BY <1>2, TokenFacts, CheckpointParts DEF Scopes
  <2> HIDE DEF x
  <2>3. Activate(cp, tokens) \in Checkpoint
    <3>1. cp.queue \in Seq(Entry) /\ cp.frames \in Frames /\ cp.scopes \in Scopes
      BY CheckpointParts
    <3> QED BY <2>1, <2>2, <3>1, PartsCheckpoint
  <2> QED BY <1>2, <2>1, <2>3 DEF x
<1> QED BY <1>1, <1>2

LEMMA SaveScopeFacts ==
    ASSUME NEW cp \in Checkpoint, NEW tokens \in Seq(BranchToken)
    PROVE  /\ SaveScope(cp, tokens) \in Checkpoint
           /\ SaveScope(cp, tokens).queue = cp.queue /\ SaveScope(cp, tokens).frames = cp.frames
           /\ SaveScope(cp, tokens).ctx = cp.ctx
           /\ tokens = <<>> => SaveScope(cp, tokens) = cp
           /\ \A f \in Frame : SaveScope(cp, tokens).scopes[f].base = cp.scopes[f].base
           /\ tokens # <<>> => \A f \in Frame, b \in Nodes : SaveScope(cp, tokens).scopes[f].branch[b] =
                 IF f = LastToken(tokens).frame /\ b = LastToken(tokens).branch
                 THEN cp.ctx ELSE cp.scopes[f].branch[b]
<1>1. CASE tokens = <<>>
  BY <1>1 DEF SaveScope
<1>2. CASE tokens # <<>>
  <2> DEFINE t == LastToken(tokens)
             br == [cp.scopes[t.frame].branch EXCEPT ![t.branch] = cp.ctx]
             sc == [cp.scopes EXCEPT ![t.frame] = [base |-> cp.scopes[t.frame].base, branch |-> br]]
  <2>0. t.frame \in Frame /\ t.branch \in Nodes /\ cp.ctx \in SUBSET Nodes /\ cp.scopes \in Scopes
    BY <1>2, TokenFacts, CheckpointParts
  <2>1. cp.scopes[t.frame] = [base |-> cp.scopes[t.frame].base, branch |-> cp.scopes[t.frame].branch]
        /\ cp.scopes[t.frame].base \in SUBSET Nodes /\ cp.scopes[t.frame].branch \in [Nodes -> SUBSET Nodes]
    BY <2>0 DEF Scopes
  <2>2. br \in [Nodes -> SUBSET Nodes] /\ \A b \in Nodes : br[b] =
            IF b = t.branch THEN cp.ctx ELSE cp.scopes[t.frame].branch[b]
    BY <2>0, <2>1
  <2>3. [cp.scopes EXCEPT ![t.frame].branch[t.branch] = cp.ctx] = sc
    BY <2>0, <2>1
  <2>4. SaveScope(cp, tokens) = [queue |-> cp.queue, ctx |-> cp.ctx, frames |-> cp.frames,
                                 scopes |-> [cp.scopes EXCEPT ![t.frame].branch[t.branch] = cp.ctx]]
    <3> DEFINE z == [cp.scopes EXCEPT ![t.frame].branch[t.branch] = cp.ctx]
    <3>1. SaveScope(cp, tokens) = [cp EXCEPT !.scopes = z]
      BY <1>2 DEF SaveScope
    <3>2. cp = [queue |-> cp.queue, ctx |-> cp.ctx, frames |-> cp.frames, scopes |-> cp.scopes]
      BY CheckpointParts
    <3> HIDE DEF z
    <3>3. [cp EXCEPT !.scopes = z] = [queue |-> cp.queue, ctx |-> cp.ctx, frames |-> cp.frames, scopes |-> z]
      BY <3>2
    <3> QED BY <3>1, <3>3 DEF z
  <2> HIDE DEF br
  <2>5. sc \in Scopes /\ \A f \in Frame : sc[f] = IF f = t.frame
            THEN [base |-> cp.scopes[t.frame].base, branch |-> br] ELSE cp.scopes[f]
    BY <2>0, <2>1, <2>2 DEF Scopes
  <2> HIDE DEF sc
  <2>6. SaveScope(cp, tokens) = [queue |-> cp.queue, ctx |-> cp.ctx, frames |-> cp.frames, scopes |-> sc]
    BY <2>3, <2>4
  <2>7. SaveScope(cp, tokens) \in Checkpoint
    <3>1. cp.queue \in Seq(Entry) /\ cp.ctx \in SUBSET Nodes /\ cp.frames \in Frames
      BY CheckpointParts
    <3> QED BY <2>5, <2>6, <3>1, PartsCheckpoint
  <2>8. SaveScope(cp, tokens).scopes = sc
    BY <2>6
  <2>9. \A f \in Frame : sc[f].base = cp.scopes[f].base
    BY <2>5
  <2>10. \A f \in Frame, b \in Nodes : sc[f].branch[b] =
            IF f = t.frame /\ b = t.branch THEN cp.ctx ELSE cp.scopes[f].branch[b]
    <3> SUFFICES ASSUME NEW f \in Frame, NEW b \in Nodes
                 PROVE  sc[f].branch[b] = IF f = t.frame /\ b = t.branch THEN cp.ctx
                                          ELSE cp.scopes[f].branch[b]
      OBVIOUS
    <3>1. CASE f = t.frame
      <4>1. sc[f].branch = br
        BY <2>5, <3>1
      <4> QED BY <2>2, <3>1, <4>1
    <3>2. CASE f # t.frame
      BY <2>5, <3>2
    <3> QED BY <3>1, <3>2
  <2> QED BY <1>2, <2>6, <2>7, <2>8, <2>9, <2>10
<1> QED BY <1>1, <1>2

LEMMA MergeFacts ==
    ASSUME NEW cp \in Checkpoint, NEW f \in Frame
    PROVE  Merge(cp, f) \in SUBSET Nodes
<1>1. cp.scopes[f].base \in SUBSET Nodes /\ \A b \in Nodes : cp.scopes[f].branch[b] \in SUBSET Nodes
  BY CheckpointParts DEF Scopes
<1>2. cp.frames[f].expected \in SUBSET Nodes
  BY CheckpointFacts DEF Frames
<1> QED BY <1>1, <1>2 DEF Merge

-----------------------------------------------------------------------------
(* Entries executed in the worker's segment are not queued again.          *)

Keys == Nodes \X Seq(BranchToken) \X (Frame \cup {NoFrame})

\* A join that was executed is not queued any more, except as the entry at work, ...
PastJoins(cp, seen, busy) == \A K \in seen : K[3] \in Frame =>
    Released(cp, K[3]) /\ \A i \in DOMAIN cp.queue : cp.queue[i].joined = K[3] => i = 1 /\ busy

\* ... the frames of an executed entry exist, ...
PastFrames(cp, seen) == \A K \in seen : \A p \in DOMAIN K[2] : Forked(cp, K[2][p].frame)

\* ... and inside a frame what is queued on its path lies further on.
PastPaths(cp, seen, busy) == \A K \in seen : K[2] # <<>> =>
    \A i \in DOMAIN cp.queue : Holds(cp.queue[i].tokens, LastToken(K[2])) =>
        \/ Rank[cp.queue[i].node] > Rank[K[1]]
        \/ i = 1 /\ busy /\ Rank[cp.queue[i].node] >= Rank[K[1]]

Past(cp, seen, busy) == PastJoins(cp, seen, busy) /\ PastFrames(cp, seen) /\ PastPaths(cp, seen, busy)

\* An entry executed before in this segment stands on the root path, unmarked.
LEMMA RepeatedIsPlain ==
    ASSUME Nested, NEW cp \in Checkpoint, NEW seen \in SUBSET Keys, Past(cp, seen, FALSE),
           cp.queue # <<>>, Key(cp.queue[1]) \in seen
    PROVE  RootPlain(cp.queue[1])
<1> DEFINE e == cp.queue[1]
<1>1. e \in Entry /\ 1 \in DOMAIN cp.queue
  BY CheckpointFacts, TailFacts
<1>2. Key(e)[1] = e.node /\ Key(e)[2] = e.tokens /\ Key(e)[3] = e.joined
  BY DEF Key
<1>3. e.joined \notin Frame
  BY <1>1, <1>2 DEF Past, PastJoins
<1>4. e.tokens = <<>>
  <2> SUFFICES ASSUME e.tokens # <<>> PROVE FALSE
    OBVIOUS
  <2>1. e.tokens \in Path /\ e.node \in Nodes
    BY <1>1, EntryFacts DEF Path
  <2>2. Holds(e.tokens, LastToken(e.tokens))
    <3>1. Len(e.tokens) \in DOMAIN e.tokens /\ LastToken(e.tokens) = e.tokens[Len(e.tokens)]
      BY <2>1, PathFacts
    <3> QED BY <3>1 DEF Holds
  <2>3. Rank[e.node] > Rank[e.node]
    BY <1>1, <1>2, <2>2 DEF Past, PastPaths
  <2>4. Rank[e.node] \in Nat
    BY <2>1, NestedFacts
  <2> QED BY <2>3, <2>4
<1>5. e.joined \in Frame \cup {NoFrame}
  BY <1>1, EntryFacts
<1> QED BY <1>3, <1>4, <1>5 DEF RootPlain

\* The frames of a path in play exist.
LEMMA PathForked ==
    ASSUME NEW cp \in Checkpoint, NEW a \in Seq(Ask), Forest(Paths(cp.queue, a), cp.frames),
           NEW i \in DOMAIN cp.queue
    PROVE  \A p \in DOMAIN cp.queue[i].tokens :
              /\ Forked(cp, cp.queue[i].tokens[p].frame)
              /\ ~Released(cp, cp.queue[i].tokens[p].frame)
<1> DEFINE s == cp.queue[i].tokens
<1> SUFFICES ASSUME NEW p \in DOMAIN s
             PROVE  Forked(cp, s[p].frame) /\ ~Released(cp, s[p].frame)
  OBVIOUS
<1>1. s # <<>>
  OBVIOUS
<1>2. cp.queue \in Seq(Entry)
  BY CheckpointFacts
<1>3. s \in Paths(cp.queue, a)
  BY <1>1, <1>2, PathsOf DEF HeldBy
<1>4. s[p].branch \in cp.frames[s[p].frame].expected \ cp.frames[s[p].frame].arrived
  BY <1>3 DEF Forest, Live
<1> QED BY <1>4 DEF Forked, Released

\* Only the entry itself holds the last token of its path.
LEMMA PathHolder ==
    ASSUME NEW cp \in Checkpoint, NEW a \in Seq(Ask), Forest(Paths(cp.queue, a), cp.frames),
           Single(cp.queue, a), NEW i \in DOMAIN cp.queue, NEW k \in DOMAIN cp.queue,
           cp.queue[i].tokens # <<>>, Holds(cp.queue[k].tokens, LastToken(cp.queue[i].tokens))
    PROVE  k = i
<1> DEFINE q == cp.queue
           s == q[i].tokens
           z == q[k].tokens
           P == Paths(q, a)
<1>1. PICK p \in DOMAIN z : z[p] = LastToken(s)
  BY DEF Holds
<1>2. z # <<>>
  BY <1>1
<1>3. q \in Seq(Entry) /\ P \in SUBSET Path
  BY CheckpointFacts, PathsOf
<1>4. s \in P /\ z \in P
  BY <1>2, <1>3, PathsOf DEF HeldBy
<1>5. Agree(P) /\ Meet(P)
  BY DEF Forest
<1> HIDE DEF P, s, z
<1>6. z = s
  BY <1>1, <1>3, <1>4, <1>5, OnlyHolder
<1> QED BY <1>2, <1>6 DEF Single, s, z

\* What the next checkpoint holds: old entries but the first, and entries further on.
Onwards(cp, cp2, seen) ==
    /\ \A f \in Frame : (Forked(cp, f) => Forked(cp2, f)) /\ (Released(cp, f) => Released(cp2, f))
    /\ \A i \in DOMAIN cp2.queue :
          \/ \E k \in DOMAIN cp.queue : k # 1 /\ cp2.queue[i] = cp.queue[k]
          \/ /\ cp2.queue[i].joined = NoFrame
             /\ \A K \in seen : K[2] # <<>> /\ Holds(cp2.queue[i].tokens, LastToken(K[2])) =>
                   Rank[cp2.queue[i].node] > Rank[K[1]]

LEMMA PastOnwards ==
    ASSUME NEW cp \in Checkpoint, NEW cp2 \in Checkpoint, NEW seen \in SUBSET Keys, NEW busy \in BOOLEAN,
           Past(cp, seen, busy), Onwards(cp, cp2, seen)
    PROVE  Past(cp2, seen, FALSE)
<1>1. PastJoins(cp2, seen, FALSE)
  <2> SUFFICES ASSUME NEW K \in seen, K[3] \in Frame
               PROVE  Released(cp2, K[3]) /\ \A i \in DOMAIN cp2.queue : cp2.queue[i].joined # K[3]
    BY DEF PastJoins
  <2>1. Released(cp2, K[3])
    BY DEF Past, PastJoins, Onwards
  <2>2. ASSUME NEW i \in DOMAIN cp2.queue PROVE cp2.queue[i].joined # K[3]
    <3>1. CASE \E k \in DOMAIN cp.queue : k # 1 /\ cp2.queue[i] = cp.queue[k]
      BY <3>1 DEF Past, PastJoins
    <3>2. CASE cp2.queue[i].joined = NoFrame
      BY <3>2, NoFrameFacts
    <3> QED BY <3>1, <3>2 DEF Onwards
  <2> QED BY <2>1, <2>2
<1>2. PastFrames(cp2, seen)
  <2> SUFFICES ASSUME NEW K \in seen, NEW p \in DOMAIN K[2]
               PROVE  Forked(cp2, K[2][p].frame)
    BY DEF PastFrames
  <2>1. K[2] \in Seq(BranchToken) /\ K[2] # <<>>
    BY DEF Keys
  <2>2. K[2][p].frame \in Frame
    BY <2>1, PathFacts DEF Path
  <2> QED BY <2>2 DEF Past, PastFrames, Onwards
<1>3. PastPaths(cp2, seen, FALSE)
  <2> SUFFICES ASSUME NEW K \in seen, K[2] # <<>>, NEW i \in DOMAIN cp2.queue,
                      Holds(cp2.queue[i].tokens, LastToken(K[2]))
               PROVE  Rank[cp2.queue[i].node] > Rank[K[1]]
    BY DEF PastPaths
  <2>1. CASE \E k \in DOMAIN cp.queue : k # 1 /\ cp2.queue[i] = cp.queue[k]
    BY <2>1 DEF Past, PastPaths
  <2>2. CASE \A L \in seen : L[2] # <<>> /\ Holds(cp2.queue[i].tokens, LastToken(L[2])) =>
                   Rank[cp2.queue[i].node] > Rank[L[1]]
    BY <2>2
  <2> QED BY <2>1, <2>2 DEF Onwards
<1> QED BY <1>1, <1>2, <1>3 DEF Past

\* An entry leaves the queue.
LEMMA PastDrop ==
    ASSUME NEW cp \in Checkpoint, NEW cp2 \in Checkpoint, NEW seen \in SUBSET Keys, NEW busy \in BOOLEAN,
           Past(cp, seen, busy), cp.queue # <<>>, cp2.queue = Tail(cp.queue),
           \A f \in Frame : (Forked(cp, f) => Forked(cp2, f)) /\ (Released(cp, f) => Released(cp2, f))
    PROVE  Past(cp2, seen, FALSE)
<1>1. \A i \in DOMAIN cp2.queue : \E k \in DOMAIN cp.queue : k # 1 /\ cp2.queue[i] = cp.queue[k]
  BY CheckpointFacts, TailFacts
<1>2. Onwards(cp, cp2, seen)
  BY <1>1 DEF Onwards
<1> QED BY <1>2, PastOnwards

\* RunNode: the successors lie further on than the entry at work.
LEMMA PastRun ==
    ASSUME Nested, NEW cp \in Checkpoint, NEW cp2 \in Checkpoint, NEW seen \in SUBSET Keys,
           Past(cp, seen, TRUE), cp.queue # <<>>, NEW e, e = cp.queue[1], NEW next \in Routes[e.node],
           NEW r \in Seq(Entry), cp2.queue = Tail(cp.queue) \o r,
           \A f \in Frame : (Forked(cp, f) => Forked(cp2, f)) /\ (Released(cp, f) => Released(cp2, f)),
           \A i \in DOMAIN r : i \in DOMAIN next /\ r[i].node = next[i] /\ r[i].joined = NoFrame,
           \A i \in DOMAIN r : \A p \in DOMAIN r[i].tokens :
               ~Forked(cp, r[i].tokens[p].frame) \/ Holds(e.tokens, r[i].tokens[p])
    PROVE  Past(cp2, seen, FALSE)
<1>1. e \in Entry /\ 1 \in DOMAIN cp.queue /\ Tail(cp.queue) \in Seq(Entry)
      /\ \A i \in DOMAIN Tail(cp.queue) : i + 1 \in DOMAIN cp.queue /\ i + 1 # 1
                                          /\ Tail(cp.queue)[i] = cp.queue[i + 1]
  BY CheckpointFacts, TailFacts
<1>2. e.node \in Nodes
  BY <1>1, EntryFacts
<1>3. next \in Seq(Nodes) /\ \A i \in DOMAIN next : next[i] \in Nodes /\ Rank[next[i]] > Rank[e.node]
  <2>1. next \in Seq(Nodes)
    BY <1>2, ParallelAssumption
  <2>2. \A i \in DOMAIN next : Rank[next[i]] > Rank[e.node]
    BY <1>2, NestedFacts DEF WellNested
  <2> QED BY <2>1, <2>2
<1>4. \A i \in DOMAIN r : \A K \in seen : K[2] # <<>> /\ Holds(r[i].tokens, LastToken(K[2])) =>
         Rank[r[i].node] > Rank[K[1]]
  <2> SUFFICES ASSUME NEW i \in DOMAIN r, NEW K \in seen, K[2] # <<>>, Holds(r[i].tokens, LastToken(K[2]))
               PROVE  Rank[r[i].node] > Rank[K[1]]
    OBVIOUS
  <2>1. PICK p \in DOMAIN r[i].tokens : r[i].tokens[p] = LastToken(K[2])
    BY DEF Holds
  <2>2. K[2] \in Path /\ K[1] \in Nodes
    BY DEF Keys, Path
  <2>3. Len(K[2]) \in DOMAIN K[2] /\ LastToken(K[2]) = K[2][Len(K[2])]
    BY <2>2, PathFacts
  <2>4. Forked(cp, LastToken(K[2]).frame)
    BY <2>3 DEF Past, PastFrames
  <2>5. Holds(e.tokens, LastToken(K[2]))
    BY <2>1, <2>4
  <2>6. Rank[e.node] > Rank[K[1]] \/ Rank[e.node] >= Rank[K[1]]
    BY <1>1, <2>5 DEF Past, PastPaths
  <2>7. r[i].node \in Nodes /\ Rank[r[i].node] > Rank[e.node]
    BY <1>3
  <2>8. Rank[e.node] \in Nat /\ Rank[K[1]] \in Nat /\ Rank[r[i].node] \in Nat
    BY <1>2, <2>2, <2>7, NestedFacts
  <2> QED BY <2>6, <2>7, <2>8
<1>5. \A i \in DOMAIN cp2.queue :
          \/ \E k \in DOMAIN cp.queue : k # 1 /\ cp2.queue[i] = cp.queue[k]
          \/ /\ cp2.queue[i].joined = NoFrame
             /\ \A K \in seen : K[2] # <<>> /\ Holds(cp2.queue[i].tokens, LastToken(K[2])) =>
                   Rank[cp2.queue[i].node] > Rank[K[1]]
  <2> SUFFICES ASSUME NEW i \in DOMAIN cp2.queue
               PROVE  \/ \E k \in DOMAIN cp.queue : k # 1 /\ cp2.queue[i] = cp.queue[k]
                      \/ \E k \in DOMAIN r : cp2.queue[i] = r[k]
    BY <1>4
  <2> DEFINE T == Tail(cp.queue)
  <2>1. \/ i \in DOMAIN T /\ cp2.queue[i] = T[i]
        \/ i - Len(T) \in DOMAIN r /\ cp2.queue[i] = r[i - Len(T)]
    BY <1>1, AppendFacts
  <2>2. CASE i \in DOMAIN T /\ cp2.queue[i] = T[i]
    BY <1>1, <2>2
  <2>3. CASE i - Len(T) \in DOMAIN r /\ cp2.queue[i] = r[i - Len(T)]
    BY <2>3
  <2> QED BY <2>1, <2>2, <2>3
<1>6. Onwards(cp, cp2, seen)
  BY <1>5 DEF Onwards
<1> QED BY <1>6, PastOnwards

LEMMA KeyFacts ==
    ASSUME NEW e \in Entry
    PROVE  Key(e) \in Keys
BY EntryFacts DEF Keys, Key

\* BeginNode: the entry at the head of the queue is at work.
LEMMA PastBegin ==
    ASSUME Nested, NEW cp \in Checkpoint, NEW cp2 \in Checkpoint, NEW a \in Seq(Ask), NEW jn,
           Sound(cp, a, jn), NEW seen \in SUBSET Keys, Past(cp, seen, FALSE), cp.queue # <<>>,
           cp2.queue = cp.queue, cp2.frames = cp.frames
    PROVE  Past(cp2, seen \cup {Key(cp.queue[1])}, TRUE)
<1> DEFINE e == cp.queue[1]
           K == Key(e)
           q == cp.queue
<1>1. e \in Entry /\ 1 \in DOMAIN q
  BY CheckpointFacts, TailFacts
<1>2. K[1] = e.node /\ K[2] = e.tokens /\ K[3] = e.joined
  BY DEF Key
<1>3. K \in Keys
  BY <1>1, EntryFacts DEF Keys, Key
<1>4. \A f : (Forked(cp2, f) <=> Forked(cp, f)) /\ (Released(cp2, f) <=> Released(cp, f))
  BY DEF Forked, Released
<1>5. Forest(Paths(q, a), cp.frames) /\ Single(q, a) /\ MarkedOnce(q)
      /\ \A f \in Frame : IsMarked(q, f) => Released(cp, f)
  BY DEF Sound, Marks
<1> HIDE DEF K
<1>6. PastJoins(cp2, seen \cup {K}, TRUE)
  <2>1. \A L \in seen : L[3] \in Frame =>
            Released(cp2, L[3]) /\ \A i \in DOMAIN q : q[i].joined = L[3] => i = 1
    BY <1>4 DEF Past, PastJoins
  <2>2. K[3] \in Frame => Released(cp2, K[3]) /\ \A i \in DOMAIN q : q[i].joined = K[3] => i = 1
    BY <1>1, <1>2, <1>4, <1>5 DEF MarkedOnce, IsMarked
  <2> QED BY <2>1, <2>2 DEF PastJoins
<1>7. PastFrames(cp2, seen \cup {K})
  <2>1. \A L \in seen : \A p \in DOMAIN L[2] : Forked(cp2, L[2][p].frame)
    BY <1>4 DEF Past, PastFrames
  <2>2. \A p \in DOMAIN e.tokens : Forked(cp, e.tokens[p].frame)
    BY <1>1, <1>5, PathForked
  <2> QED BY <1>2, <1>4, <2>1, <2>2 DEF PastFrames
<1>8. PastPaths(cp2, seen \cup {K}, TRUE)
  <2>1. \A L \in seen : L[2] # <<>> => \A i \in DOMAIN q : Holds(q[i].tokens, LastToken(L[2])) =>
            Rank[q[i].node] > Rank[L[1]]
    BY DEF Past, PastPaths
  <2>2. K[2] # <<>> => \A i \in DOMAIN q : Holds(q[i].tokens, LastToken(K[2])) => i = 1
    BY <1>1, <1>2, <1>5, PathHolder
  <2>3. Rank[e.node] \in Nat
    BY <1>1, EntryFacts, NestedFacts
  <2>4. Rank[e.node] >= Rank[K[1]]
    BY <1>2, <2>3
  <2> QED BY <2>1, <2>2, <2>4 DEF PastPaths
<1> QED BY <1>3, <1>6, <1>7, <1>8 DEF Past, K

\* OpenJoin: the marked entry is at work.
LEMMA PastOpen ==
    ASSUME Nested, NEW cp \in Checkpoint, NEW cp2 \in Checkpoint, NEW a \in Seq(Ask), NEW jn,
           Sound(cp, a, jn), NEW seen \in SUBSET Keys, Past(cp, seen, FALSE), cp.queue # <<>>,
           NEW e, e = cp.queue[1], e.tokens # <<>>, e.joined = NoFrame,
           NEW x \in Entry, x.node = e.node, x.tokens = Parent(e.tokens),
           x.joined = LastToken(e.tokens).frame, cp2.queue = <<x>> \o Tail(cp.queue),
           \A f \in Frame : (Forked(cp, f) => Forked(cp2, f)) /\ (Released(cp, f) => Released(cp2, f))
    PROVE  Past(cp2, seen \cup {Key(e)}, TRUE)
<1> DEFINE K == Key(e)
           q == cp.queue
           T == Tail(q)
           s == e.tokens
<1>1. e \in Entry /\ 1 \in DOMAIN q /\ T \in Seq(Entry) /\ q \in Seq(Entry)
      /\ \A i \in DOMAIN T : i + 1 \in DOMAIN q /\ i + 1 # 1 /\ T[i] = q[i + 1]
  BY CheckpointFacts, TailFacts
<1>2. K[1] = e.node /\ K[2] = e.tokens /\ K[3] = NoFrame
  BY DEF Key
<1>3. K \in Keys
  BY <1>1, EntryFacts DEF Keys, Key
<1>4. Forest(Paths(q, a), cp.frames) /\ Single(q, a)
  BY DEF Sound
<1>5. /\ s \in Path /\ Len(s) \in Nat \ {0} /\ DOMAIN s = 1..Len(s) /\ LastToken(s) = s[Len(s)]
      /\ LastToken(s).frame \in Frame
  <2>1. s \in Path
    BY <1>1, EntryFacts DEF Path
  <2> QED BY <2>1, PathFacts DEF BranchToken
<1>6. Forked(cp, LastToken(s).frame) /\ ~Released(cp, LastToken(s).frame)
  BY <1>1, <1>4, <1>5, PathForked
\* Where an entry of the new queue comes from.
<1>7. \A i \in DOMAIN cp2.queue :
         \/ i = 1 /\ cp2.queue[i] = x
         \/ \E k \in DOMAIN q : k # 1 /\ cp2.queue[i] = q[k]
  <2>1. \A i \in DOMAIN cp2.queue : \/ i = 1 /\ cp2.queue[i] = x
                                    \/ i # 1 /\ i - 1 \in DOMAIN T /\ cp2.queue[i] = T[i - 1]
    BY <1>1, PrependQueue
  <2> QED BY <1>1, <2>1
\* What the marked entry holds the entry before held.
<1>8. \A t : Holds(x.tokens, t) => Holds(s, t)
  <2>1. Len(x.tokens) = Len(s) - 1 /\ \A p \in 1..(Len(s) - 1) : x.tokens[p] = s[p]
    BY <1>5, PathFacts
  <2>2. x.tokens \in Seq(BranchToken)
    BY EntryFacts
  <2>3. \A p \in DOMAIN x.tokens : p \in DOMAIN s /\ s[p] = x.tokens[p]
    BY <1>5, <2>1, <2>2
  <2> QED BY <2>3 DEF Holds
<1> HIDE DEF K, T
<1>9. PastJoins(cp2, seen \cup {K}, TRUE)
  <2> SUFFICES ASSUME NEW L \in seen, L[3] \in Frame
               PROVE  Released(cp2, L[3]) /\ \A i \in DOMAIN cp2.queue : cp2.queue[i].joined = L[3] => i = 1
    BY <1>2, NoFrameFacts DEF PastJoins
  <2>1. Released(cp, L[3]) /\ \A i \in DOMAIN q : q[i].joined # L[3]
    BY DEF Past, PastJoins
  <2> QED BY <1>7, <2>1
<1>10. PastFrames(cp2, seen \cup {K})
  <2>1. \A L \in seen \cup {K} : \A p \in DOMAIN L[2] : Forked(cp, L[2][p].frame)
    <3>1. \A p \in DOMAIN s : Forked(cp, s[p].frame)
      BY <1>1, <1>4, PathForked
    <3> QED BY <1>2, <3>1 DEF Past, PastFrames
  <2> SUFFICES ASSUME NEW L \in seen \cup {K}, NEW p \in DOMAIN L[2]
               PROVE  Forked(cp2, L[2][p].frame)
    BY DEF PastFrames
  <2>2. L[2] \in Seq(BranchToken) /\ L[2] # <<>>
    BY <1>3 DEF Keys
  <2>3. L[2][p].frame \in Frame
    BY <2>2, PathFacts DEF Path
  <2> QED BY <2>1, <2>3
<1>11. PastPaths(cp2, seen \cup {K}, TRUE)
  <2>1. Rank[e.node] \in Nat
    BY <1>1, EntryFacts, NestedFacts
  <2>2. ASSUME NEW L \in seen, L[2] # <<>>, NEW i \in DOMAIN cp2.queue,
               Holds(cp2.queue[i].tokens, LastToken(L[2]))
        PROVE  Rank[cp2.queue[i].node] > Rank[L[1]]
    <3>1. \A k \in DOMAIN q : Holds(q[k].tokens, LastToken(L[2])) => Rank[q[k].node] > Rank[L[1]]
      BY <2>2 DEF Past, PastPaths
    <3>2. CASE \E k \in DOMAIN q : k # 1 /\ cp2.queue[i] = q[k]
      BY <2>2, <3>1, <3>2
    <3>3. CASE i = 1 /\ cp2.queue[i] = x
      BY <1>1, <1>8, <2>2, <3>1, <3>3
    <3> QED BY <1>7, <3>2, <3>3
  <2>3. ASSUME NEW i \in DOMAIN cp2.queue, Holds(cp2.queue[i].tokens, LastToken(s))
        PROVE  i = 1 /\ Rank[cp2.queue[i].node] >= Rank[e.node]
    <3>1. CASE \E k \in DOMAIN q : k # 1 /\ cp2.queue[i] = q[k]
      <4>1. PICK k \in DOMAIN q : k # 1 /\ cp2.queue[i] = q[k]
        BY <3>1
      <4>2. k = 1
        BY <1>1, <1>4, <2>3, <4>1, PathHolder
      <4> QED BY <4>1, <4>2
    <3>2. CASE i = 1 /\ cp2.queue[i] = x
      BY <2>1, <3>2
    <3> QED BY <1>7, <3>1, <3>2
  <2> QED BY <1>2, <2>2, <2>3 DEF PastPaths
<1> QED BY <1>3, <1>9, <1>10, <1>11 DEF Past, K

LEMMA FieldFacts ==
    ASSUME NEW q, NEW x, NEW fr, NEW sc, NEW y, NEW cp,
           cp = [queue |-> q, ctx |-> x, frames |-> fr, scopes |-> sc]
    PROVE  /\ [cp EXCEPT !.queue = y] = [queue |-> y, ctx |-> x, frames |-> fr, scopes |-> sc]
           /\ [cp EXCEPT !.ctx = y] = [queue |-> q, ctx |-> y, frames |-> fr, scopes |-> sc]
           /\ [cp EXCEPT !.frames = y] = [queue |-> q, ctx |-> x, frames |-> y, scopes |-> sc]
           /\ [cp EXCEPT !.scopes = y] = [queue |-> q, ctx |-> x, frames |-> fr, scopes |-> y]
OBVIOUS

LEMMA ArriveFacts ==
    ASSUME NEW fr \in Frames, NEW t \in BranchToken
    PROVE  LET fr2 == [fr EXCEPT ![t.frame].arrived = @ \cup {t.branch}]
           IN  fr2 \in Frames /\ Arrived(fr, fr2, t)
<1> DEFINE z == [expected |-> fr[t.frame].expected, arrived |-> fr[t.frame].arrived \cup {t.branch}]
           fr2 == [fr EXCEPT ![t.frame].arrived = @ \cup {t.branch}]
<1>1. t.frame \in Frame /\ t.branch \in Nodes
  BY DEF BranchToken
<1>2. fr[t.frame] = [expected |-> fr[t.frame].expected, arrived |-> fr[t.frame].arrived]
      /\ fr[t.frame].expected \in SUBSET Nodes /\ fr[t.frame].arrived \in SUBSET Nodes
  BY <1>1 DEF Frames
<1>3. z \in [expected : SUBSET Nodes, arrived : SUBSET Nodes]
  BY <1>1, <1>2
<1>4. fr2 = [fr EXCEPT ![t.frame] = z]
  <2>1. [fr[t.frame] EXCEPT !.arrived = @ \cup {t.branch}] = z
    <3>1. fr[t.frame] = [expected |-> fr[t.frame].expected, arrived |-> fr[t.frame].arrived]
      BY <1>2
    <3> QED BY <3>1
  <2> HIDE DEF z
  <2> QED BY <2>1
<1> HIDE DEF fr2
<1>5. fr2 \in Frames /\ fr2[t.frame] = z /\ \A f \in Frame : f # t.frame => fr2[f] = fr[f]
  <2> HIDE DEF z
  <2> QED BY <1>1, <1>3, <1>4 DEF Frames
<1>6. fr2[t.frame].expected = fr[t.frame].expected /\ fr2[t.frame].arrived = fr[t.frame].arrived \cup {t.branch}
  BY <1>5
<1> QED BY <1>5, <1>6 DEF Arrived, fr2

\* WaitAtJoin: the branch has arrived.
LEMMA WaitFacts ==
    ASSUME NEW cp \in Checkpoint, NEW t \in BranchToken
    PROVE  LET cp2 == [cp EXCEPT !.frames[t.frame].arrived = @ \cup {t.branch}]
           IN  /\ cp2 \in Checkpoint /\ cp2.queue = cp.queue /\ cp2.ctx = cp.ctx /\ cp2.scopes = cp.scopes
               /\ Arrived(cp.frames, cp2.frames, t)
<1> DEFINE fr2 == [cp.frames EXCEPT ![t.frame].arrived = @ \cup {t.branch}]
           cp2 == [cp EXCEPT !.frames[t.frame].arrived = @ \cup {t.branch}]
<1>1. cp2 = [cp EXCEPT !.frames = fr2]
  OBVIOUS
<1>2. cp = [queue |-> cp.queue, ctx |-> cp.ctx, frames |-> cp.frames, scopes |-> cp.scopes]
      /\ cp.queue \in Seq(Entry) /\ cp.ctx \in SUBSET Nodes /\ cp.frames \in Frames /\ cp.scopes \in Scopes
  BY CheckpointParts
<1>3. fr2 \in Frames /\ Arrived(cp.frames, fr2, t)
  BY <1>2, ArriveFacts
<1> HIDE DEF fr2, cp2
<1>4. cp2 = [queue |-> cp.queue, ctx |-> cp.ctx, frames |-> fr2, scopes |-> cp.scopes]
  <2>1. [cp EXCEPT !.frames = fr2] = [queue |-> cp.queue, ctx |-> cp.ctx, frames |-> fr2, scopes |-> cp.scopes]
    BY <1>2
  <2> QED BY <1>1, <2>1
<1>5. cp2 \in Checkpoint
  BY <1>2, <1>3, <1>4, PartsCheckpoint
<1> QED BY <1>3, <1>4, <1>5 DEF cp2

\* OpenJoin: the frame is released, its scopes are merged, and the join entry is marked.
Opening(cp, t, x, c) == [cp EXCEPT !.frames[t.frame].arrived = @ \cup {t.branch}, !.ctx = c,
                                   !.queue = <<x>> \o Tail(@)]

LEMMA OpenFacts ==
    ASSUME NEW cp \in Checkpoint, cp.queue # <<>>, NEW t \in BranchToken, NEW x \in Entry,
           NEW c \in SUBSET Nodes
    PROVE  /\ Opening(cp, t, x, c) \in Checkpoint
           /\ Opening(cp, t, x, c).queue = <<x>> \o Tail(cp.queue)
           /\ Opening(cp, t, x, c).ctx = c /\ Opening(cp, t, x, c).scopes = cp.scopes
           /\ Arrived(cp.frames, Opening(cp, t, x, c).frames, t)
<1> DEFINE fr2 == [cp.frames EXCEPT ![t.frame].arrived = @ \cup {t.branch}]
           q2 == <<x>> \o Tail(cp.queue)
           cp2 == Opening(cp, t, x, c)
<1>2. cp = [queue |-> cp.queue, ctx |-> cp.ctx, frames |-> cp.frames, scopes |-> cp.scopes]
      /\ cp.queue \in Seq(Entry) /\ cp.ctx \in SUBSET Nodes /\ cp.frames \in Frames /\ cp.scopes \in Scopes
  BY CheckpointParts
<1>1. cp2 = [[[cp EXCEPT !.frames = fr2] EXCEPT !.ctx = c] EXCEPT !.queue = q2]
  BY <1>2 DEF Opening
<1>3. fr2 \in Frames /\ Arrived(cp.frames, fr2, t)
  BY <1>2, ArriveFacts
<1>6. q2 \in Seq(Entry)
  BY <1>2, TailFacts, PrependQueue
<1> HIDE DEF fr2, cp2, q2
<1>4. cp2 = [queue |-> q2, ctx |-> c, frames |-> fr2, scopes |-> cp.scopes]
  <2>1. [[[cp EXCEPT !.frames = fr2] EXCEPT !.ctx = c] EXCEPT !.queue = q2]
            = [queue |-> q2, ctx |-> c, frames |-> fr2, scopes |-> cp.scopes]
    <3>1. cp = [queue |-> cp.queue, ctx |-> cp.ctx, frames |-> cp.frames, scopes |-> cp.scopes]
      BY <1>2
    <3> DEFINE c1 == [cp EXCEPT !.frames = fr2]
               c2 == [c1 EXCEPT !.ctx = c]
    <3>2. c1 = [queue |-> cp.queue, ctx |-> cp.ctx, frames |-> fr2, scopes |-> cp.scopes]
      BY <3>1
    <3> HIDE DEF c1
    <3>3. c2 = [queue |-> cp.queue, ctx |-> c, frames |-> fr2, scopes |-> cp.scopes]
      BY <3>2, FieldFacts
    <3> HIDE DEF c2
    <3>4. [c2 EXCEPT !.queue = q2] = [queue |-> q2, ctx |-> c, frames |-> fr2, scopes |-> cp.scopes]
      BY <3>3, FieldFacts
    <3> QED BY <3>4 DEF c1, c2
  <2> QED BY <1>1, <2>1
<1>5. cp2 \in Checkpoint
  BY <1>2, <1>3, <1>4, <1>6, PartsCheckpoint
<1> QED BY <1>3, <1>4, <1>5 DEF cp2, q2

\* The context at hand replaced, or the queue extended.
LEMMA ContextFacts ==
    ASSUME NEW cp \in Checkpoint, NEW c \in SUBSET Nodes
    PROVE  LET cp2 == [cp EXCEPT !.ctx = c]
           IN  /\ cp2 \in Checkpoint /\ cp2.queue = cp.queue /\ cp2.ctx = c
               /\ cp2.scopes = cp.scopes /\ cp2.frames = cp.frames
<1>1. cp = [queue |-> cp.queue, ctx |-> cp.ctx, frames |-> cp.frames, scopes |-> cp.scopes]
      /\ cp.queue \in Seq(Entry) /\ cp.ctx \in SUBSET Nodes /\ cp.frames \in Frames /\ cp.scopes \in Scopes
  BY CheckpointParts
<1>2. [cp EXCEPT !.ctx = c] = [queue |-> cp.queue, ctx |-> c, frames |-> cp.frames, scopes |-> cp.scopes]
  BY <1>1
<1>3. [cp EXCEPT !.ctx = c] \in Checkpoint
  BY <1>1, <1>2, PartsCheckpoint
<1> QED BY <1>2, <1>3

LEMMA ExtendFacts ==
    ASSUME NEW cp \in Checkpoint, NEW r \in Seq(Entry)
    PROVE  LET cp2 == [cp EXCEPT !.queue = @ \o r]
           IN  /\ cp2 \in Checkpoint /\ cp2.queue = cp.queue \o r /\ cp2.ctx = cp.ctx
               /\ cp2.scopes = cp.scopes /\ cp2.frames = cp.frames
<1> DEFINE q2 == cp.queue \o r
<1>1. cp = [queue |-> cp.queue, ctx |-> cp.ctx, frames |-> cp.frames, scopes |-> cp.scopes]
      /\ cp.queue \in Seq(Entry) /\ cp.ctx \in SUBSET Nodes /\ cp.frames \in Frames /\ cp.scopes \in Scopes
  BY CheckpointParts
<1>2. q2 \in Seq(Entry)
  BY <1>1, AppendFacts
<1>3. [cp EXCEPT !.queue = @ \o r] = [cp EXCEPT !.queue = q2]
  OBVIOUS
<1> HIDE DEF q2
<1>4. [cp EXCEPT !.queue = q2] = [queue |-> q2, ctx |-> cp.ctx, frames |-> cp.frames, scopes |-> cp.scopes]
  BY <1>1
<1>5. [cp EXCEPT !.queue = q2] \in Checkpoint
  <2>1. [queue |-> q2, ctx |-> cp.ctx, frames |-> cp.frames, scopes |-> cp.scopes] \in Checkpoint
    BY <1>1, <1>2, PartsCheckpoint
  <2> QED BY <1>4, <2>1
<1> QED BY <1>3, <1>4, <1>5 DEF q2

\* RunNode of a router: a fresh frame, whose scopes start from the context at hand.
ForkedAt(cp, cp2, next, tokens, f) ==
    /\ ~Forked(cp, f) /\ cp2.queue = cp.queue \o BranchEntries(next, tokens, f)
    /\ Opened(cp.frames, cp2.frames, f, BranchNodes(next))
    /\ cp2.scopes[f].base = cp.ctx
    /\ \A b \in Nodes : cp2.scopes[f].branch[b] = IF b \in BranchNodes(next) THEN cp.ctx ELSE {}
    /\ \A g \in Frame : g # f => cp2.scopes[g] = cp.scopes[g]

LEMMA ForkFacts ==
    ASSUME NEW cp \in Checkpoint, NEW n \in Routers, Unforked(cp, n) # {},
           NEW next \in Seq(Nodes), NEW tokens \in Seq(BranchToken)
    PROVE  /\ Fork(cp, n, next, tokens) \in Checkpoint /\ Fork(cp, n, next, tokens).ctx = cp.ctx
           /\ \E f \in Frame : ForkedAt(cp, Fork(cp, n, next, tokens), next, tokens, f)
<1> DEFINE f == <<n, CHOOSE k \in Unforked(cp, n) : TRUE>>
           B == BranchNodes(next)
           r == BranchEntries(next, tokens, f)
           fr2 == [cp.frames EXCEPT ![f] = [expected |-> B, arrived |-> {}]]
           sc2 == [cp.scopes EXCEPT ![f] = [base |-> cp.ctx, branch |-> [b \in Nodes |->
                                                 IF b \in B THEN cp.ctx ELSE {}]]]
           q2 == cp.queue \o r
           cp2 == Fork(cp, n, next, tokens)
<1>1. f \in Frame /\ ~Forked(cp, f)
  <2> DEFINE k == CHOOSE k \in Unforked(cp, n) : TRUE
  <2>1. k \in Unforked(cp, n)
    OBVIOUS
  <2> HIDE DEF k
  <2> QED BY <2>1 DEF Unforked, Frame
<1>2. cp = [queue |-> cp.queue, ctx |-> cp.ctx, frames |-> cp.frames, scopes |-> cp.scopes]
      /\ cp.queue \in Seq(Entry) /\ cp.ctx \in SUBSET Nodes /\ cp.frames \in Frames /\ cp.scopes \in Scopes
  BY CheckpointParts
<1>3. cp2 = [cp EXCEPT !.frames = fr2, !.scopes = sc2, !.queue = q2]
  BY DEF Fork, BranchNodes, BranchEntries
<1> HIDE DEF f
<1>4. B \in SUBSET Nodes
  BY DEF BranchNodes
<1>5. r \in Seq(Entry) /\ q2 \in Seq(Entry)
  BY <1>1, <1>2, BranchFacts, AppendFacts
<1> HIDE DEF B, r, cp2
<1>6. fr2 \in Frames /\ Opened(cp.frames, fr2, f, B)
  BY <1>1, <1>2, <1>4 DEF Frames, Opened
<1>7. /\ sc2 \in Scopes /\ sc2[f].base = cp.ctx /\ \A g \in Frame : g # f => sc2[g] = cp.scopes[g]
      /\ \A b \in Nodes : sc2[f].branch[b] = IF b \in B THEN cp.ctx ELSE {}
  <2> DEFINE br == [b \in Nodes |-> IF b \in B THEN cp.ctx ELSE {}]
  <2>1. br \in [Nodes -> SUBSET Nodes] /\ \A b \in Nodes : br[b] = IF b \in B THEN cp.ctx ELSE {}
    BY <1>2
  <2> HIDE DEF br
  <2>2. sc2[f] = [base |-> cp.ctx, branch |-> br]
    BY <1>1, <1>2 DEF Scopes, br
  <2>3. sc2[f] \in [base : SUBSET Nodes, branch : [Nodes -> SUBSET Nodes]]
    BY <1>2, <2>1, <2>2
  <2>4. \A g \in Frame : g # f => sc2[g] = cp.scopes[g]
    BY <1>2 DEF Scopes
  <2>5. sc2 \in Scopes
    BY <1>1, <1>2, <2>3, <2>4 DEF Scopes
  <2>6. sc2[f].base = cp.ctx /\ sc2[f].branch = br
    BY <2>2
  <2> HIDE DEF sc2
  <2> QED BY <2>1, <2>4, <2>5, <2>6
<1> HIDE DEF fr2, sc2, q2
<1>8. cp2 = [queue |-> q2, ctx |-> cp.ctx, frames |-> fr2, scopes |-> sc2]
  <2>1. [cp EXCEPT !.frames = fr2, !.scopes = sc2, !.queue = q2]
            = [queue |-> q2, ctx |-> cp.ctx, frames |-> fr2, scopes |-> sc2]
    <3>1. cp = [queue |-> cp.queue, ctx |-> cp.ctx, frames |-> cp.frames, scopes |-> cp.scopes]
      BY <1>2
    <3> DEFINE c1 == [cp EXCEPT !.frames = fr2]
               c2 == [c1 EXCEPT !.scopes = sc2]
    <3>2. c1 = [queue |-> cp.queue, ctx |-> cp.ctx, frames |-> fr2, scopes |-> cp.scopes]
      BY <3>1
    <3> HIDE DEF c1
    <3>3. c2 = [queue |-> cp.queue, ctx |-> cp.ctx, frames |-> fr2, scopes |-> sc2]
      BY <3>2, FieldFacts
    <3> HIDE DEF c2
    <3>4. [c2 EXCEPT !.queue = q2] = [queue |-> q2, ctx |-> cp.ctx, frames |-> fr2, scopes |-> sc2]
      BY <3>3, FieldFacts
    <3> QED BY <3>4 DEF c1, c2
  <2> QED BY <1>3, <2>1
<1>9. cp2 \in Checkpoint
  BY <1>2, <1>5, <1>6, <1>7, <1>8, PartsCheckpoint
<1>10. cp2.queue = cp.queue \o BranchEntries(next, tokens, f)
  BY <1>8 DEF q2, r
<1>11. cp2.ctx = cp.ctx /\ cp2.scopes = sc2 /\ cp2.frames = fr2
  BY <1>8
<1>12. B = BranchNodes(next)
  BY DEF B
<1>13. ForkedAt(cp, cp2, next, tokens, f)
  BY <1>1, <1>6, <1>7, <1>10, <1>11, <1>12 DEF ForkedAt
<1> QED BY <1>1, <1>9, <1>11, <1>13 DEF cp2

-----------------------------------------------------------------------------
(* The inductive invariant.                                                *)

\* What is persisted; while the run is not over, nothing of it is lost.
Persisted == /\ Sound(saved, asks, joins)
             /\ status \notin Terminal => Complete(saved, asks, joins)

\* An open task or wait has a node run that waits.
OpenPending(a) == \A k \in DOMAIN a : a[k].status = "open" => a[k].pending
AsksOpen == AsksPlaced(asks) /\ OpenPending(asks)

\* While the run waits, only entries that repeated one on the root path are persisted.
WaitsEmpty == status = "waiting" => AllRoot(saved.queue)

\* What the worker dropped without a checkpoint are such entries.
Left(q, z) == \A i \in DOMAIN q : RootPlain(q[i]) \/ \E k \in DOMAIN z : z[k] = q[i]

\* The entry at work or asked: its release is persisted, its task or wait is recorded.
AtWork == /\ wk.cp = saved /\ wk.cp.queue # <<>>
          /\ Kind[wk.cp.queue[1].node] = "join" => wk.cp.queue[1].joined \in Frame
HasAsked == /\ Kind[wk.cp.queue[1].node] \in Human
            /\ \E k \in DOMAIN asks : asks[k].pending /\ asks[k].tokens = wk.cp.queue[1].tokens

\* The checkpoint in the worker's memory, and what it has executed since it claimed the run.
InMemory == wk.pc # "idle" =>
    /\ status \in {"running", "cancelled"}
    /\ Sound(wk.cp, asks, joins)
    /\ status \notin Terminal => Complete(wk.cp, asks, joins)
    /\ Left(saved.queue, wk.cp.queue)
    /\ wk.pc = "head" => Past(wk.cp, wk.seen, FALSE)
    /\ wk.pc \in {"work", "done", "asked"} => Past(wk.cp, wk.seen, TRUE) /\ AtWork
    /\ wk.pc = "asked" => HasAsked

WkType == wk \in [pc : {"idle", "head", "work", "done", "asked"}, cp : Checkpoint, seen : SUBSET Keys]

\* The types of all that the invariant speaks of; ran and runs come later.
CoreType ==
    /\ status \in {"queued", "running", "waiting", "blocked"} \cup Terminal
    /\ job \in [state : {"none", "queued", "leased"}, attempt : 0..MaxAttempts]
    /\ saved \in Checkpoint
    /\ wk.pc \in {"idle", "head", "work", "done", "asked"} /\ wk.cp \in Checkpoint
    /\ asks \in Seq(Ask) /\ Len(asks) <= MaxAsks
    /\ produced \subseteq Nodes
    /\ joins \in [Frame -> Nat]
    /\ used \in [crashes : 0..MaxCrashes, errors : 0..MaxErrors, pauses : 0..MaxPauses]

IInv == CoreType /\ WkType /\ Persisted /\ AsksOpen /\ WaitsEmpty /\ InMemory

UsedType == [crashes : 0..MaxCrashes, errors : 0..MaxErrors, pauses : 0..MaxPauses]

-----------------------------------------------------------------------------
(* Tasks and waits are cancelled, answered and recorded.                   *)

AskStatus == {"open", "fired", "cancelled"} \cup Decided

LEMMA AskFields ==
    ASSUME NEW x \in Ask, NEW v \in AskStatus, NEW p \in BOOLEAN
    PROVE  /\ [x EXCEPT !.accepted = p] \in Ask
           /\ [x EXCEPT !.status = v, !.pending = p] \in Ask
BY DEF Ask, AskStatus

LEMMA AskStatusField ==
    ASSUME NEW x \in Ask, NEW v \in AskStatus
    PROVE  [x EXCEPT !.status = v] \in Ask
BY DEF Ask, AskStatus

LEMMA AskPlaces ==
    ASSUME NEW x \in Ask, NEW v, NEW p
    PROVE  /\ [x EXCEPT !.status = v].node = x.node /\ [x EXCEPT !.status = v].tokens = x.tokens
           /\ [x EXCEPT !.status = v].pending = x.pending /\ [x EXCEPT !.status = v].status = v
           /\ [x EXCEPT !.accepted = p].node = x.node /\ [x EXCEPT !.accepted = p].tokens = x.tokens
           /\ [x EXCEPT !.accepted = p].pending = x.pending
           /\ [x EXCEPT !.accepted = p].status = x.status
           /\ [x EXCEPT !.status = v, !.pending = p].node = x.node
           /\ [x EXCEPT !.status = v, !.pending = p].tokens = x.tokens
           /\ [x EXCEPT !.status = v, !.pending = p].pending = p
           /\ [x EXCEPT !.status = v, !.pending = p].status = v
BY DEF Ask

\* Throw and Stop: what is open is cancelled.
LEMMA CancelFacts ==
    ASSUME NEW a \in Seq(Ask), OpenPending(a)
    PROVE  LET a2 == [i \in DOMAIN a |-> IF a[i].status = "open"
                                         THEN [a[i] EXCEPT !.status = "cancelled"] ELSE a[i]]
           IN  a2 \in Seq(Ask) /\ Len(a2) = Len(a) /\ SamePlaces(a, a2) /\ OpenPending(a2)
<1> DEFINE a2 == [i \in DOMAIN a |-> IF a[i].status = "open"
                                     THEN [a[i] EXCEPT !.status = "cancelled"] ELSE a[i]]
<1>1. DOMAIN a = 1..Len(a) /\ Len(a) \in Nat /\ \A i \in DOMAIN a : a[i] \in Ask
  OBVIOUS
<1>2. \A i \in DOMAIN a : /\ a2[i] \in Ask /\ a2[i].node = a[i].node /\ a2[i].tokens = a[i].tokens
                          /\ a2[i].pending = a[i].pending /\ (a2[i].status = "open" => a2[i].pending)
  <2> SUFFICES ASSUME NEW i \in DOMAIN a
               PROVE  /\ a2[i] \in Ask /\ a2[i].node = a[i].node /\ a2[i].tokens = a[i].tokens
                      /\ a2[i].pending = a[i].pending /\ (a2[i].status = "open" => a2[i].pending)
    OBVIOUS
  <2>1. CASE a[i].status = "open"
    <3>1. a2[i] = [a[i] EXCEPT !.status = "cancelled"]
      BY <2>1
    <3> HIDE DEF a2
    <3> DEFINE x == a[i]
    <3>x. x \in Ask /\ a2[i] = [x EXCEPT !.status = "cancelled"]
      BY <1>1, <3>1
    <3>y. "cancelled" \in AskStatus
      BY DEF AskStatus
    <3> HIDE DEF x
    <3>z. a2[i] \in Ask
      BY <3>x, <3>y, AskStatusField
    <3>2. a2[i].status = "cancelled"
      BY <3>x, AskPlaces
    <3>3. a2[i].node = x.node /\ a2[i].tokens = x.tokens /\ a2[i].pending = x.pending
      BY <3>x, AskPlaces
    <3> QED BY <3>z, <3>2, <3>3 DEF x
  <2>2. CASE a[i].status # "open"
    <3>1. a2[i] = a[i]
      BY <2>2
    <3> HIDE DEF a2
    <3> QED BY <1>1, <2>2, <3>1
  <2> QED BY <2>1, <2>2
<1>3. DOMAIN a2 = 1..Len(a)
  BY <1>1
<1> HIDE DEF a2
<1>4. a2 \in Seq(Ask) /\ Len(a2) = Len(a)
  <2>1. a2 = [i \in 1..Len(a) |-> a2[i]] /\ \A i \in 1..Len(a) : a2[i] \in Ask
    BY <1>1, <1>2, <1>3 DEF a2
  <2>2. a2 \in [1..Len(a) -> Ask]
    BY <2>1
  <2> QED BY <1>1, <2>2, SeqDef
<1> QED BY <1>1, <1>2, <1>3, <1>4 DEF SamePlaces, OpenPending, a2

\* One task or wait is changed.
LEMMA ChangeFacts ==
    ASSUME NEW a \in Seq(Ask), OpenPending(a), NEW i \in DOMAIN a, NEW x \in Ask,
           x.node = a[i].node, x.tokens = a[i].tokens, x.status = "open" => x.pending
    PROVE  LET a2 == [a EXCEPT ![i] = x]
           IN  /\ a2 \in Seq(Ask) /\ Len(a2) = Len(a) /\ OpenPending(a2)
               /\ x.pending = a[i].pending => SamePlaces(a, a2)
               /\ ~x.pending => Answered(a, a2, i)
<1> DEFINE a2 == [a EXCEPT ![i] = x]
<1>1. DOMAIN a = 1..Len(a) /\ Len(a) \in Nat /\ \A k \in DOMAIN a : a[k] \in Ask
  OBVIOUS
<1>2. DOMAIN a2 = DOMAIN a /\ a2[i] = x /\ \A k \in DOMAIN a : k # i => a2[k] = a[k]
  OBVIOUS
<1>4. a2 \in Seq(Ask) /\ Len(a2) = Len(a)
  BY <1>1, ExceptSeq
<1> HIDE DEF a2
<1>5. OpenPending(a2)
  BY <1>2 DEF OpenPending
<1>6. \A k \in DOMAIN a : a2[k].node = a[k].node /\ a2[k].tokens = a[k].tokens
  BY <1>2
<1>7. x.pending = a[i].pending => SamePlaces(a, a2)
  BY <1>2, <1>6 DEF SamePlaces
<1>8. ~x.pending => Answered(a, a2, i)
  BY <1>2, <1>6 DEF Answered
<1> QED BY <1>4, <1>5, <1>7, <1>8 DEF a2

-----------------------------------------------------------------------------
(* The worker's steps keep the invariant.                                  *)

JobType == [state : {"none", "queued", "leased"}, attempt : 0..MaxAttempts]

LEMMA JobFacts ==
    ASSUME NEW j \in JobType
    PROVE  [j EXCEPT !.state = "none"] \in JobType /\ [j EXCEPT !.state = "queued"] \in JobType
BY DEF JobType

LEMMA ThrowInv ==
    ASSUME IInv, Throw, saved' = saved, status = "running" \/ wk.pc # "idle",
           produced' \in SUBSET Nodes, joins' \in [Frame -> Nat], used' \in UsedType,
           Sound(saved, asks, joins'), status \notin Terminal => Complete(saved, asks, joins')
    PROVE  IInv'
<1>1. saved \in Checkpoint /\ asks \in Seq(Ask) /\ job \in JobType /\ Len(asks) <= MaxAsks
  BY DEF IInv, CoreType, JobType
<1>2. wk' = [pc |-> "idle", cp |-> saved, seen |-> {}]
  BY DEF Throw, Idle
<1>3. WkType' /\ InMemory'
  <2>1. {} \in SUBSET Keys
    OBVIOUS
  <2> HIDE DEF Keys
  <2>2. WkType'
    BY <1>1, <1>2, <2>1 DEF WkType
  <2> QED BY <1>2, <2>2 DEF InMemory
<1>4. /\ status' \in {"queued", "running", "waiting", "blocked"} \cup Terminal
      /\ status' # "waiting" /\ (status' \notin Terminal => status \notin Terminal)
  BY DEF Throw, IInv, CoreType, Terminal, InMemory
<1>5. job' \in JobType
  BY <1>1, JobFacts DEF Throw
<1>6. asks' \in Seq(Ask) /\ Len(asks') = Len(asks) /\ SamePlaces(asks, asks') /\ OpenPending(asks')
  <2>1. CASE asks' = asks
    BY <1>1, <2>1 DEF SamePlaces, IInv, AsksOpen
  <2>2. CASE asks' = [i \in DOMAIN asks |-> IF asks[i].status = "open"
                                THEN [asks[i] EXCEPT !.status = "cancelled"] ELSE asks[i]]
    BY <1>1, <2>2, CancelFacts DEF IInv, AsksOpen
  <2> QED BY <2>1, <2>2 DEF Throw
<1>7. CoreType'
  <2>1. saved' \in Checkpoint /\ produced' \subseteq Nodes
    BY <1>1
  <2>2. wk'.pc \in {"idle", "head", "work", "done", "asked"} /\ wk'.cp \in Checkpoint
    BY <1>1, <1>2
  <2> QED BY <1>1, <1>4, <1>5, <1>6, <2>1, <2>2 DEF CoreType, JobType, UsedType
<1>8. Sound(saved', asks', joins')
  BY <1>1, <1>6, SamePlacesSound
<1>9. status' \notin Terminal => Complete(saved', asks', joins')
  BY <1>1, <1>4, <1>6, SamePlacesSound
<1>10. AsksPlaced(asks')
  BY <1>1, <1>6, SamePlacesSound DEF IInv, AsksOpen
<1> QED BY <1>3, <1>4, <1>6, <1>7, <1>8, <1>9, <1>10 DEF IInv, Persisted, AsksOpen, WaitsEmpty

LEMMA SaveInv ==
    ASSUME IInv, wk.pc # "idle", NEW cp \in Checkpoint, NEW pc \in {"head", "work"},
           NEW seen \in SUBSET Keys, Save(cp, pc, seen),
           produced' \in SUBSET Nodes, joins' \in [Frame -> Nat], used' \in UsedType,
           Sound(saved, asks, joins'), Sound(cp, asks, joins'),
           status = "running" => Complete(cp, asks, joins'),
           pc = "head" => Past(cp, seen, FALSE),
           pc = "work" => /\ Past(cp, seen, TRUE) /\ cp.queue # <<>>
                          /\ Kind[cp.queue[1].node] = "join" => cp.queue[1].joined \in Frame
    PROVE  IInv'
<1>1. CASE status = "running"
  <2>1. saved' = cp /\ wk' = [pc |-> pc, cp |-> cp, seen |-> seen]
        /\ status' = status /\ job' = job /\ asks' = asks
    BY <1>1 DEF Save
  <2>2. wk'.pc = pc /\ wk'.cp = cp /\ wk'.seen = seen
    BY <2>1
  <2>3. WkType'
    BY <2>1 DEF WkType
  <2>4. CoreType'
    <3>1. wk'.pc \in {"idle", "head", "work", "done", "asked"} /\ wk'.cp \in Checkpoint /\ saved' \in Checkpoint
      BY <2>1, <2>2
    <3> QED BY <2>1, <3>1 DEF IInv, CoreType, UsedType
  <2>5. Persisted' /\ AsksOpen' /\ WaitsEmpty'
    <3>1. Persisted'
      BY <1>1, <2>1 DEF Persisted
    <3>2. AsksOpen'
      BY <2>1 DEF IInv, AsksOpen
    <3>3. WaitsEmpty'
      BY <1>1, <2>1 DEF WaitsEmpty
    <3> QED BY <3>1, <3>2, <3>3
  <2>6. InMemory'
    <3>1. Left(saved'.queue, wk'.cp.queue)
      BY <2>1, <2>2 DEF Left
    <3>2. wk'.pc = "head" => Past(wk'.cp, wk'.seen, FALSE)
      BY <2>2
    <3>3. wk'.pc \in {"work", "done", "asked"} => Past(wk'.cp, wk'.seen, TRUE) /\ AtWork'
      BY <2>1, <2>2 DEF AtWork
    <3>4. wk'.pc # "asked" /\ status' = "running"
      BY <1>1, <2>1, <2>2
    <3>5. Sound(wk'.cp, asks', joins') /\ Complete(wk'.cp, asks', joins')
      BY <1>1, <2>1, <2>2
    <3> QED BY <3>1, <3>2, <3>3, <3>4, <3>5 DEF InMemory
  <2> QED BY <2>3, <2>4, <2>5, <2>6 DEF IInv
<1>2. CASE status # "running"
  <2>1. Throw /\ saved' = saved
    BY <1>2 DEF Save
  <2>2. status \in Terminal
    BY <1>2 DEF IInv, InMemory, Terminal
  <2> QED BY <2>1, <2>2, ThrowInv
<1> QED BY <1>1, <1>2

LEMMA WorkerFacts ==
    ASSUME IInv
    PROVE  /\ saved \in Checkpoint /\ wk.cp \in Checkpoint /\ wk.seen \in SUBSET Keys
           /\ asks \in Seq(Ask) /\ joins \in [Frame -> Nat] /\ produced \in SUBSET Nodes
           /\ used \in UsedType /\ AsksPlaced(asks) /\ OpenPending(asks)
           /\ Sound(saved, asks, joins)
           /\ wk.cp.queue # <<>> =>
                 /\ Current = wk.cp.queue[1] /\ 1 \in DOMAIN wk.cp.queue
                 /\ Current \in Entry /\ Current.node \in Nodes
                 /\ Current.tokens \in Seq(BranchToken) /\ Current.joined \in Frame \cup {NoFrame}
<1>1. saved \in Checkpoint /\ asks \in Seq(Ask) /\ joins \in [Frame -> Nat] /\ produced \in SUBSET Nodes
      /\ used \in UsedType /\ AsksPlaced(asks) /\ OpenPending(asks)
  BY DEF IInv, CoreType, UsedType, AsksOpen
<1>2. Sound(saved, asks, joins)
  BY DEF IInv, Persisted
<1>3. wk.cp \in Checkpoint /\ wk.seen \in SUBSET Keys
  BY DEF IInv, WkType
<1>4. ASSUME wk.cp.queue # <<>>
      PROVE  /\ Current = wk.cp.queue[1] /\ 1 \in DOMAIN wk.cp.queue /\ Current \in Entry
  BY <1>3, <1>4, CheckpointFacts, TailFacts DEF Current
<1> QED BY <1>1, <1>2, <1>3, <1>4, EntryFacts

\* What the worker has in memory while it is at work on an entry or before one.
LEMMA MemoryFacts ==
    ASSUME IInv, wk.pc # "idle"
    PROVE  /\ Sound(wk.cp, asks, joins) /\ status \in {"running", "cancelled"}
           /\ status = "running" => Complete(wk.cp, asks, joins)
           /\ Left(saved.queue, wk.cp.queue)
           /\ wk.pc = "head" => Past(wk.cp, wk.seen, FALSE)
           /\ wk.pc \in {"work", "done", "asked"} => Past(wk.cp, wk.seen, TRUE) /\ AtWork
           /\ wk.pc = "asked" => HasAsked
BY DEF IInv, InMemory, Terminal

\* activateParallelScope and the entry dropped.
LEMMA HereFacts ==
    ASSUME IInv, wk.cp.queue # <<>>
    PROVE  /\ Here \in Checkpoint /\ Here.queue = wk.cp.queue /\ Here.frames = wk.cp.frames
           /\ Here.scopes = wk.cp.scopes /\ (Current.tokens = <<>> => Here = wk.cp)
           /\ Drop(Here) \in Checkpoint /\ Drop(Here).queue = Tail(wk.cp.queue)
           /\ Drop(Here).frames = wk.cp.frames
<1>1. wk.cp \in Checkpoint /\ Current.tokens \in Seq(BranchToken)
  BY WorkerFacts
<1>2. Here \in Checkpoint /\ Here.queue = wk.cp.queue /\ Here.frames = wk.cp.frames
      /\ Here.scopes = wk.cp.scopes /\ (Current.tokens = <<>> => Here = wk.cp)
  BY <1>1, ActivateFacts DEF Here
<1>3. Drop(Here) \in Checkpoint /\ Drop(Here).queue = Tail(Here.queue) /\ Drop(Here).frames = Here.frames
  BY <1>2, DropFacts
<1> QED BY <1>2, <1>3

LEMMA SameFrames ==
    ASSUME NEW cp, NEW cp2, cp2.frames = cp.frames
    PROVE  \A f : (Forked(cp, f) => Forked(cp2, f)) /\ (Released(cp, f) => Released(cp2, f))
BY DEF Forked, Released

LEMMA ArrivedFrames ==
    ASSUME NEW cp \in Checkpoint, NEW cp2 \in Checkpoint, NEW t \in BranchToken,
           Arrived(cp.frames, cp2.frames, t), ~Released(cp, t.frame)
    PROVE  \A f \in Frame : (Forked(cp, f) => Forked(cp2, f)) /\ (Released(cp, f) => Released(cp2, f))
<1> SUFFICES ASSUME NEW f \in Frame
             PROVE  (Forked(cp, f) => Forked(cp2, f)) /\ (Released(cp, f) => Released(cp2, f))
  OBVIOUS
<1>1. CASE f = t.frame
  BY <1>1 DEF Arrived, Forked
<1>2. CASE f # t.frame
  BY <1>2 DEF Arrived, Forked, Released
<1> QED BY <1>1, <1>2

LEMMA SkipRepeatedInv ==
    ASSUME Nested, IInv, SkipRepeated
    PROVE  IInv'
<1>1. wk.pc = "head" /\ wk.cp.queue # <<>> /\ Key(Current) \in wk.seen
      /\ wk' = [wk EXCEPT !.cp = Drop(Here)]
      /\ UNCHANGED <<status, job, saved, asks, produced, joins, used>>
  BY DEF SkipRepeated
<1> DEFINE cp2 == Drop(Here)
<1>2. wk.cp \in Checkpoint /\ wk.seen \in SUBSET Keys /\ asks \in Seq(Ask) /\ joins \in [Frame -> Nat]
      /\ Current = wk.cp.queue[1] /\ wk.cp.queue \in Seq(Entry)
  BY <1>1, WorkerFacts, CheckpointFacts
<1>3. Sound(wk.cp, asks, joins) /\ status \in {"running", "cancelled"}
      /\ (status = "running" => Complete(wk.cp, asks, joins))
      /\ Left(saved.queue, wk.cp.queue) /\ Past(wk.cp, wk.seen, FALSE)
  BY <1>1, MemoryFacts
<1>4. RootPlain(wk.cp.queue[1])
  BY <1>1, <1>2, <1>3, RepeatedIsPlain
<1>5. cp2 \in Checkpoint /\ cp2.queue = Tail(wk.cp.queue) /\ cp2.frames = wk.cp.frames
  BY <1>1, HereFacts
<1> HIDE DEF cp2
<1>6. wk'.pc = "head" /\ wk'.cp = cp2 /\ wk'.seen = wk.seen /\ WkType'
  <2>1. wk \in [pc : {"idle", "head", "work", "done", "asked"}, cp : Checkpoint, seen : SUBSET Keys]
    BY DEF IInv, WkType
  <2>2. wk' = [wk EXCEPT !.cp = cp2]
    BY <1>1 DEF cp2
  <2> HIDE DEF Keys
  <2>3. wk' \in [pc : {"idle", "head", "work", "done", "asked"}, cp : Checkpoint, seen : SUBSET Keys]
    BY <1>5, <2>1, <2>2
  <2> QED BY <1>1, <2>1, <2>2, <2>3 DEF WkType
<1>7. Sound(cp2, asks, joins) /\ (Complete(wk.cp, asks, joins) => Complete(cp2, asks, joins))
  BY <1>1, <1>2, <1>3, <1>4, <1>5, LeaveSound DEF RootPlain
<1>8. Past(cp2, wk.seen, FALSE)
  BY <1>1, <1>2, <1>3, <1>5, PastDrop, SameFrames
<1>9. Left(saved.queue, cp2.queue)
  <2> SUFFICES ASSUME NEW i \in DOMAIN saved.queue, ~RootPlain(saved.queue[i])
               PROVE  \E k \in DOMAIN cp2.queue : cp2.queue[k] = saved.queue[i]
    BY DEF Left
  <2>1. PICK k \in DOMAIN wk.cp.queue : wk.cp.queue[k] = saved.queue[i]
    BY <1>3 DEF Left
  <2>2. k # 1
    BY <1>4, <2>1
  <2>3. k - 1 \in DOMAIN Tail(wk.cp.queue) /\ Tail(wk.cp.queue)[k - 1] = wk.cp.queue[k]
    BY <1>1, <1>2, <2>1, <2>2, TailFacts
  <2> QED BY <1>5, <2>1, <2>3
<1>10. CoreType'
  BY <1>1, <1>5, <1>6 DEF IInv, CoreType
<1>11. Persisted' /\ AsksOpen' /\ WaitsEmpty'
  BY <1>1 DEF IInv, Persisted, AsksOpen, WaitsEmpty
<1>12. InMemory'
  BY <1>1, <1>3, <1>6, <1>7, <1>8, <1>9 DEF InMemory, Terminal
<1> QED BY <1>6, <1>10, <1>11, <1>12 DEF IInv

\* A branch that has not completed its frame.
LEMMA WaitAtJoinInv ==
    ASSUME Nested, IInv, WaitAtJoin
    PROVE  IInv'
<1> DEFINE e == Current
           t == LastToken(e.tokens)
           cp2 == [Drop(Here) EXCEPT !.frames[t.frame].arrived = @ \cup {t.branch}]
<1>1. /\ wk.pc = "head" /\ wk.cp.queue # <<>> /\ Kind[e.node] = "join" /\ e.joined = NoFrame
      /\ ~Releases(e) /\ Save(cp2, "head", wk.seen) /\ UNCHANGED <<produced, joins, used>>
  BY DEF WaitAtJoin, Arriving, Fresh
<1>2. wk.cp \in Checkpoint /\ wk.seen \in SUBSET Keys /\ asks \in Seq(Ask) /\ joins \in [Frame -> Nat]
      /\ e = wk.cp.queue[1] /\ 1 \in DOMAIN wk.cp.queue /\ AsksPlaced(asks) /\ Sound(saved, asks, joins)
      /\ produced \in SUBSET Nodes /\ used \in UsedType /\ e.tokens \in Seq(BranchToken)
  BY <1>1, WorkerFacts
<1>3. Sound(wk.cp, asks, joins) /\ (status = "running" => Complete(wk.cp, asks, joins))
      /\ Past(wk.cp, wk.seen, FALSE)
  BY <1>1, MemoryFacts
<1>4. Drop(Here) \in Checkpoint /\ Drop(Here).queue = Tail(wk.cp.queue) /\ Drop(Here).frames = wk.cp.frames
  BY <1>1, HereFacts
<1>5. e.tokens # <<>>
  <2> DEFINE q == wk.cp.queue
  <2>1. Placed(q) /\ 1 \in DOMAIN q /\ Kind[q[1].node] = "join" /\ q[1].joined = NoFrame /\ q \in Seq(Entry)
    BY <1>1, <1>2, <1>3, CheckpointFacts DEF Sound
  <2>2. q[1].tokens # <<>>
    <3> HIDE DEF q
    <3> QED BY <2>1, JoinInside
  <2> QED BY <1>2, <2>2
<1>6. t \in BranchToken /\ t.frame \in Frame /\ t = e.tokens[Len(e.tokens)] /\ Len(e.tokens) \in DOMAIN e.tokens
  <2>1. e.tokens \in Path
    BY <1>2, <1>5 DEF Path
  <2> QED BY <2>1, TokenFacts, PathFacts, <1>2, <1>5
<1>7. t.branch \in wk.cp.frames[t.frame].expected \ wk.cp.frames[t.frame].arrived
      /\ ~Released(wk.cp, t.frame)
  <2>1. Forest(Paths(wk.cp.queue, asks), wk.cp.frames)
    BY <1>3 DEF Sound
  <2>2. ~Released(wk.cp, t.frame)
    BY <1>2, <1>6, <2>1, PathForked
  <2>3. e.tokens \in Paths(wk.cp.queue, asks)
    BY <1>2, <1>5, CheckpointFacts, PathsOf DEF HeldBy
  <2> QED BY <1>6, <2>1, <2>2, <2>3 DEF Forest, Live
<1> HIDE DEF e, t
<1>8. cp2 \in Checkpoint /\ cp2.queue = Tail(wk.cp.queue) /\ Arrived(wk.cp.frames, cp2.frames, t)
  <2> DEFINE d == Drop(Here)
  <2> HIDE DEF d
  <2>1. d \in Checkpoint
    BY <1>4 DEF d
  <2>2. LET c == [d EXCEPT !.frames[t.frame].arrived = @ \cup {t.branch}]
        IN  c \in Checkpoint /\ c.queue = d.queue /\ Arrived(d.frames, c.frames, t)
    BY <1>6, <2>1, WaitFacts
  <2> QED BY <1>4, <2>2 DEF d
<1> HIDE DEF cp2
<1>9. cp2.frames[t.frame].arrived # cp2.frames[t.frame].expected
  <2>1. wk.cp.frames[t.frame].arrived \cup {t.branch} # wk.cp.frames[t.frame].expected
    BY <1>1, <1>7 DEF Releases, t
  <2> QED BY <1>8, <2>1 DEF Arrived
<1>10. Sound(cp2, asks, joins) /\ (Complete(wk.cp, asks, joins) => Complete(cp2, asks, joins))
  BY <1>1, <1>2, <1>3, <1>8, <1>9, WaitSound DEF t
<1>11. Past(cp2, wk.seen, FALSE)
  <2>1. \A f \in Frame : (Forked(wk.cp, f) => Forked(cp2, f)) /\ (Released(wk.cp, f) => Released(cp2, f))
    BY <1>2, <1>6, <1>7, <1>8, ArrivedFrames
  <2> QED BY <1>1, <1>2, <1>3, <1>8, <2>1, PastDrop
<1> QED BY <1>1, <1>2, <1>3, <1>8, <1>10, <1>11, SaveInv

\* The last branch of a frame.
LEMMA OpenJoinInv ==
    ASSUME Nested, IInv, OpenJoin
    PROVE  IInv'
<1> DEFINE e == Current
           s == e.tokens
           t == LastToken(s)
           up == Parent(s)
           x == [e EXCEPT !.tokens = up, !.joined = t.frame]
           c == Merge(Here, t.frame)
           cp1 == [Here EXCEPT !.frames[t.frame].arrived = @ \cup {t.branch}, !.ctx = c,
                               !.queue = <<x>> \o Tail(@)]
           cp2 == SaveScope(cp1, up)
<1>1. /\ wk.pc = "head" /\ wk.cp.queue # <<>> /\ Kind[e.node] = "join" /\ e.joined = NoFrame
      /\ Releases(e) /\ Save(cp2, "work", wk.seen \cup {Key(e)}) /\ UNCHANGED <<produced, joins, used>>
  BY DEF OpenJoin, Arriving, Fresh
<1>2. wk.cp \in Checkpoint /\ wk.seen \in SUBSET Keys /\ asks \in Seq(Ask) /\ joins \in [Frame -> Nat]
      /\ e = wk.cp.queue[1] /\ 1 \in DOMAIN wk.cp.queue /\ AsksPlaced(asks) /\ Sound(saved, asks, joins)
      /\ produced \in SUBSET Nodes /\ used \in UsedType /\ s \in Seq(BranchToken) /\ e \in Entry
  BY <1>1, WorkerFacts
<1>3. Sound(wk.cp, asks, joins) /\ (status = "running" => Complete(wk.cp, asks, joins))
      /\ Past(wk.cp, wk.seen, FALSE)
  BY <1>1, MemoryFacts
<1>4. Here \in Checkpoint /\ Here.queue = wk.cp.queue /\ Here.frames = wk.cp.frames
  BY <1>1, HereFacts
<1>5. s # <<>>
  <2> DEFINE q == wk.cp.queue
  <2>1. Placed(q) /\ 1 \in DOMAIN q /\ Kind[q[1].node] = "join" /\ q[1].joined = NoFrame /\ q \in Seq(Entry)
    BY <1>1, <1>2, <1>3, CheckpointFacts DEF Sound
  <2>2. q[1].tokens # <<>>
    <3> HIDE DEF q
    <3> QED BY <2>1, JoinInside
  <2> QED BY <1>2, <2>2
<1>6. t \in BranchToken /\ t.frame \in Frame /\ t = s[Len(s)] /\ Len(s) \in DOMAIN s
      /\ up \in Seq(BranchToken)
  <2>1. s \in Path
    BY <1>2, <1>5 DEF Path
  <2> QED BY <2>1, TokenFacts, PathFacts, <1>2, <1>5
<1>7. ~Released(wk.cp, t.frame)
  <2>1. Forest(Paths(wk.cp.queue, asks), wk.cp.frames)
    BY <1>3 DEF Sound
  <2> QED BY <1>2, <1>6, <2>1, PathForked
<1> HIDE DEF e, s, t, up
<1>8. x \in Entry /\ x.node = e.node /\ x.tokens = up /\ x.joined = t.frame
  BY <1>2, <1>6 DEF Entry
<1>9. c \in SUBSET Nodes
  BY <1>4, <1>6, MergeFacts
<1> HIDE DEF x, c
<1>10. cp1 \in Checkpoint /\ cp1.queue = <<x>> \o Tail(wk.cp.queue) /\ Arrived(wk.cp.frames, cp1.frames, t)
  <2> DEFINE d == Here
  <2> HIDE DEF d
  <2>1. d \in Checkpoint /\ d.queue # <<>>
    BY <1>1, <1>4 DEF d
  <2>2. cp1 = Opening(d, t, x, c)
    BY DEF d, Opening
  <2> HIDE DEF cp1
  <2>3. cp1 \in Checkpoint
    BY <1>6, <1>8, <1>9, <2>1, <2>2, OpenFacts
  <2>4. cp1.queue = <<x>> \o Tail(d.queue)
    BY <1>6, <1>8, <1>9, <2>1, <2>2, OpenFacts
  <2>5. Arrived(d.frames, cp1.frames, t)
    BY <1>6, <1>8, <1>9, <2>1, <2>2, OpenFacts
  <2> QED BY <1>4, <2>3, <2>4, <2>5 DEF d
<1> HIDE DEF cp1
<1>11. cp2 \in Checkpoint /\ cp2.queue = <<x>> \o Tail(wk.cp.queue) /\ Arrived(wk.cp.frames, cp2.frames, t)
  <2>1. cp2 \in Checkpoint /\ cp2.queue = cp1.queue /\ cp2.frames = cp1.frames
    BY <1>6, <1>10, SaveScopeFacts
  <2> QED BY <1>10, <2>1
<1> HIDE DEF cp2
<1>12. cp2.frames[t.frame].arrived = cp2.frames[t.frame].expected
  <2>1. wk.cp.frames[t.frame].arrived \cup {t.branch} = wk.cp.frames[t.frame].expected
    BY <1>1 DEF Releases, t, s
  <2> QED BY <1>11, <2>1 DEF Arrived
<1>13. Sound(cp2, asks, joins) /\ (Complete(wk.cp, asks, joins) => Complete(cp2, asks, joins))
  <2>1. x.tokens = Parent(e.tokens) /\ x.joined = LastToken(e.tokens).frame /\ t = LastToken(e.tokens)
    BY <1>8 DEF t, s, up
  <2>2. Arrived(wk.cp.frames, cp2.frames, LastToken(e.tokens))
    BY <1>11, <2>1
  <2>3. cp2.frames[LastToken(e.tokens).frame].arrived = cp2.frames[LastToken(e.tokens).frame].expected
    BY <1>12, <2>1
  <2>4. cp2.queue = <<x>> \o Tail(wk.cp.queue) /\ cp2 \in Checkpoint
    BY <1>11
  <2> DEFINE cp == wk.cp
  <2>0. /\ cp \in Checkpoint /\ asks \in Seq(Ask) /\ joins \in [Frame -> Nat] /\ Sound(cp, asks, joins)
        /\ AsksPlaced(asks) /\ cp.queue # <<>> /\ e = cp.queue[1] /\ Kind[e.node] = "join"
        /\ e.joined = NoFrame /\ x \in Entry /\ x.node = e.node
    BY <1>1, <1>2, <1>3, <1>8
  <2> HIDE DEF cp
  <2>5. Sound(cp2, asks, joins) /\ (Complete(cp, asks, joins) => Complete(cp2, asks, joins))
    BY <2>0, <2>1, <2>2, <2>3, <2>4, OpenSound DEF cp
  <2> QED BY <2>5 DEF cp
<1>14. Past(cp2, wk.seen \cup {Key(e)}, TRUE) /\ wk.seen \cup {Key(e)} \in SUBSET Keys
  <2>1. \A f \in Frame : (Forked(wk.cp, f) => Forked(cp2, f)) /\ (Released(wk.cp, f) => Released(cp2, f))
    BY <1>2, <1>6, <1>7, <1>11, ArrivedFrames
  <2>2. x.tokens = Parent(e.tokens) /\ x.joined = LastToken(e.tokens).frame /\ e.tokens # <<>>
    BY <1>5, <1>8 DEF t, s, up
  <2>3. Past(cp2, wk.seen \cup {Key(e)}, TRUE)
    BY <1>1, <1>2, <1>3, <1>8, <1>11, <2>1, <2>2, PastOpen
  <2>4. wk.seen \cup {Key(e)} \in SUBSET Keys
    BY <1>2, KeyFacts
  <2> QED BY <2>3, <2>4
<1>15. cp2.queue # <<>> /\ cp2.queue[1].joined \in Frame
  <2>1. Tail(wk.cp.queue) \in Seq(Entry)
    BY <1>1, <1>2, CheckpointFacts, TailFacts
  <2>2. cp2.queue # <<>> /\ cp2.queue[1] = x
    BY <1>8, <1>11, <2>1, PrependQueue
  <2> QED BY <1>6, <1>8, <2>2
<1> QED BY <1>1, <1>2, <1>3, <1>11, <1>13, <1>14, <1>15, SaveInv

\* A task or wait of this execution is open already.
LEMMA ReuseAskInv ==
    ASSUME Nested, IInv, ReuseAsk
    PROVE  IInv'
<1> DEFINE e == Current
           cp2 == Drop(Here)
<1>1. /\ wk.pc = "head" /\ wk.cp.queue # <<>> /\ Kind[e.node] \in Human /\ OpenAsk(e)
      /\ Save(cp2, "head", wk.seen) /\ UNCHANGED <<produced, joins, used>>
  BY DEF ReuseAsk, Fresh, Human
<1>2. wk.cp \in Checkpoint /\ wk.seen \in SUBSET Keys /\ asks \in Seq(Ask) /\ joins \in [Frame -> Nat]
      /\ e = wk.cp.queue[1] /\ 1 \in DOMAIN wk.cp.queue /\ OpenPending(asks) /\ Sound(saved, asks, joins)
      /\ produced \in SUBSET Nodes /\ used \in UsedType /\ wk.cp.queue \in Seq(Entry)
  BY <1>1, WorkerFacts, CheckpointFacts
<1>3. Sound(wk.cp, asks, joins) /\ (status = "running" => Complete(wk.cp, asks, joins))
      /\ Past(wk.cp, wk.seen, FALSE)
  BY <1>1, MemoryFacts
<1>4. cp2 \in Checkpoint /\ cp2.queue = Tail(wk.cp.queue) /\ cp2.frames = wk.cp.frames
  BY <1>1, HereFacts
<1> HIDE DEF e, cp2
<1>5. e.joined = NoFrame
  <2>1. Kind[e.node] # "join"
    BY <1>1 DEF Human
  <2> QED BY <1>2, <1>3, <2>1, ExecutedDepth DEF Sound
<1>6. \E k \in DOMAIN asks : asks[k].pending /\ asks[k].tokens = e.tokens
  BY <1>1, <1>2 DEF OpenAsk, OpenPending
<1>7. Sound(cp2, asks, joins) /\ (Complete(wk.cp, asks, joins) => Complete(cp2, asks, joins))
  BY <1>1, <1>2, <1>3, <1>4, <1>5, <1>6, LeaveSound
<1>8. Past(cp2, wk.seen, FALSE)
  BY <1>1, <1>2, <1>3, <1>4, PastDrop, SameFrames
<1> QED BY <1>1, <1>2, <1>3, <1>4, <1>7, <1>8, SaveInv

\* The worker turns to an entry, a marked join among them.
LEMMA BeginNodeInv ==
    ASSUME Nested, IInv, BeginNode
    PROVE  IInv'
<1> DEFINE e == Current
           cp1 == IF e.joined = NoFrame THEN Here ELSE [Here EXCEPT !.ctx = Merge(Here, e.joined)]
           cp2 == SaveScope(cp1, e.tokens)
<1>1. /\ wk.pc = "head" /\ wk.cp.queue # <<>> /\ (Kind[e.node] = "join" => e.joined # NoFrame)
      /\ Save(cp2, "work", wk.seen \cup {Key(e)}) /\ UNCHANGED <<produced, joins, used>>
  BY DEF BeginNode, Arriving, Fresh
<1>2. wk.cp \in Checkpoint /\ wk.seen \in SUBSET Keys /\ asks \in Seq(Ask) /\ joins \in [Frame -> Nat]
      /\ e = wk.cp.queue[1] /\ e.joined \in Frame \cup {NoFrame} /\ Sound(saved, asks, joins)
      /\ produced \in SUBSET Nodes /\ used \in UsedType /\ e.tokens \in Seq(BranchToken)
  BY <1>1, WorkerFacts
<1>3. Sound(wk.cp, asks, joins) /\ (status = "running" => Complete(wk.cp, asks, joins))
      /\ Past(wk.cp, wk.seen, FALSE)
  BY <1>1, MemoryFacts
<1>4. Here \in Checkpoint /\ Here.queue = wk.cp.queue /\ Here.frames = wk.cp.frames
  BY <1>1, HereFacts
<1>5. cp1 \in Checkpoint /\ cp1.queue = wk.cp.queue /\ cp1.frames = wk.cp.frames
  <2>1. CASE e.joined = NoFrame
    BY <1>4, <2>1
  <2>2. CASE e.joined # NoFrame
    <3> DEFINE c == Merge(Here, e.joined)
               d == Here
    <3>1. c \in SUBSET Nodes
      BY <1>2, <1>4, <2>2, MergeFacts
    <3>2. cp1 = [d EXCEPT !.ctx = c]
      BY <2>2
    <3> HIDE DEF c, d, cp1
    <3>3. LET y == [d EXCEPT !.ctx = c]
          IN  y \in Checkpoint /\ y.queue = d.queue /\ y.frames = d.frames
      BY <1>4, <3>1, ContextFacts DEF d
    <3> QED BY <1>4, <3>2, <3>3 DEF d
  <2> QED BY <2>1, <2>2
<1> HIDE DEF cp1
<1>6. cp2 \in Checkpoint /\ cp2.queue = wk.cp.queue /\ cp2.frames = wk.cp.frames
  BY <1>2, <1>5, SaveScopeFacts
<1> HIDE DEF cp2
<1>7. Sound(cp2, asks, joins) /\ (Complete(wk.cp, asks, joins) => Complete(cp2, asks, joins))
  BY <1>3, <1>6, SameSound
<1>8. Past(cp2, wk.seen \cup {Key(e)}, TRUE) /\ wk.seen \cup {Key(e)} \in SUBSET Keys
  <2>1. e = wk.cp.queue[1] /\ wk.cp \in Checkpoint /\ cp2 \in Checkpoint
    BY <1>2, <1>6
  <2>e. e \in Entry
    BY <1>1, WorkerFacts
  <2> HIDE DEF e
  <2>2. Past(cp2, wk.seen \cup {Key(wk.cp.queue[1])}, TRUE)
    BY <1>1, <1>2, <1>3, <1>6, <2>1, PastBegin
  <2>3. wk.seen \cup {Key(e)} \in SUBSET Keys
    BY <1>2, <2>e, KeyFacts
  <2> QED BY <2>1, <2>2, <2>3
<1>9. Kind[cp2.queue[1].node] = "join" => cp2.queue[1].joined \in Frame
  BY <1>1, <1>2, <1>6
<1> QED BY <1>1, <1>2, <1>3, <1>6, <1>7, <1>8, <1>9, SaveInv

\* An entry at work, and the checkpoint without it.
LEMMA DoneFacts ==
    ASSUME Nested, IInv, wk.pc = "work" \/ wk.pc = "done" \/ wk.pc = "asked"
    PROVE  /\ wk.cp = saved /\ wk.cp.queue # <<>> /\ Current = saved.queue[1] /\ 1 \in DOMAIN saved.queue
           /\ Sound(wk.cp, asks, joins) /\ Past(wk.cp, wk.seen, TRUE)
           /\ status \in {"running", "cancelled"} /\ (status = "running" => Complete(wk.cp, asks, joins))
           /\ Kind[Current.node] = "join" => Current.joined \in Frame
           /\ Kind[Current.node] # "join" => Current.joined = NoFrame
           /\ Drop(wk.cp) \in Checkpoint /\ Drop(wk.cp).queue = Tail(wk.cp.queue)
           /\ Drop(wk.cp).frames = wk.cp.frames
<1>1. Sound(wk.cp, asks, joins) /\ status \in {"running", "cancelled"}
      /\ (status = "running" => Complete(wk.cp, asks, joins)) /\ Past(wk.cp, wk.seen, TRUE) /\ AtWork
  BY MemoryFacts
<1>2. wk.cp = saved /\ wk.cp.queue # <<>>
  BY <1>1 DEF AtWork
<1>3. Current = wk.cp.queue[1] /\ 1 \in DOMAIN wk.cp.queue /\ wk.cp \in Checkpoint
  BY <1>2, WorkerFacts
<1>4. Kind[Current.node] = "join" => Current.joined \in Frame
  BY <1>1, <1>3 DEF AtWork
<1>5. Kind[Current.node] # "join" => Current.joined = NoFrame
  <2> DEFINE q == wk.cp.queue
  <2>1. Placed(q) /\ 1 \in DOMAIN q
    BY <1>1, <1>3 DEF Sound
  <2> QED BY <1>3, <2>1 DEF Placed
<1>6. Drop(wk.cp) \in Checkpoint /\ Drop(wk.cp).queue = Tail(wk.cp.queue) /\ Drop(wk.cp).frames = wk.cp.frames
  BY <1>2, <1>3, DropFacts
<1> QED BY <1>1, <1>2, <1>3, <1>4, <1>5, <1>6

\* The checkpoint behind a join, a router, an end or another automatic node.
LEMMA RunNodeInv ==
    ASSUME Nested, IInv, RunNode
    PROVE  IInv'
<1> DEFINE e == Current
           done == [Drop(wk.cp) EXCEPT !.ctx = @ \cup {e.node}]
           cp(next) == IF Kind[e.node] = "router" THEN Fork(done, e.node, next, e.tokens)
                       ELSE [done EXCEPT !.queue = @ \o Successors(next, e.tokens)]
           cp2(next) == SaveScope(cp(next), e.tokens)
<1>1. /\ wk.pc = "done" /\ Kind[e.node] \in {"auto", "join", "router", "end"}
      /\ Kind[e.node] = "router" => Unforked(wk.cp, e.node) # {}
      /\ \E next \in Routes[e.node] : Save(cp2(next), "head", wk.seen)
      /\ produced' = produced \cup {e.node} /\ used' = used
      /\ joins' = IF e.joined \in Frame THEN [joins EXCEPT ![e.joined] = @ + 1] ELSE joins
  BY DEF RunNode
<1>2. PICK next \in Routes[e.node] : Save(cp2(next), "head", wk.seen)
  BY <1>1
<1>3. /\ wk.cp = saved /\ wk.cp.queue # <<>> /\ e = saved.queue[1] /\ 1 \in DOMAIN saved.queue
      /\ Sound(wk.cp, asks, joins) /\ Past(wk.cp, wk.seen, TRUE)
      /\ (status = "running" => Complete(wk.cp, asks, joins))
      /\ (Kind[e.node] = "join" => e.joined \in Frame) /\ (Kind[e.node] # "join" => e.joined = NoFrame)
      /\ Drop(wk.cp) \in Checkpoint /\ Drop(wk.cp).queue = Tail(wk.cp.queue)
      /\ Drop(wk.cp).frames = wk.cp.frames
  BY <1>1, DoneFacts
<1>4. wk.cp \in Checkpoint /\ wk.seen \in SUBSET Keys /\ asks \in Seq(Ask) /\ joins \in [Frame -> Nat]
      /\ AsksPlaced(asks) /\ produced \in SUBSET Nodes /\ used \in UsedType
      /\ e \in Entry /\ e.node \in Nodes /\ e.tokens \in Seq(BranchToken)
      /\ Tail(wk.cp.queue) \in Seq(Entry)
  BY <1>3, WorkerFacts, CheckpointFacts, TailFacts
<1>5. next \in Seq(Nodes)
  BY <1>4, ParallelAssumption
<1>6. joins' \in [Frame -> Nat]
  BY <1>1, <1>4
<1>7. Sound(saved, asks, joins')
  <2>1. CASE e.joined \in Frame
    <3>1. Sound(wk.cp, asks, [joins EXCEPT ![e.joined] = @ + 1])
      BY <1>3, <1>4, <2>1, CountSound
    <3> QED BY <1>1, <1>3, <2>1, <3>1
  <2>2. CASE e.joined \notin Frame
    BY <1>1, <1>3, <2>2
  <2> QED BY <2>1, <2>2
<1>8. done \in Checkpoint /\ done.queue = Tail(wk.cp.queue) /\ done.frames = wk.cp.frames
  <2> DEFINE d == Drop(wk.cp)
             c == d.ctx \cup {e.node}
  <2>1. d \in Checkpoint /\ c \in SUBSET Nodes
    BY <1>3, <1>4, CheckpointParts
  <2>2. done = [d EXCEPT !.ctx = c]
    OBVIOUS
  <2> HIDE DEF d, c, done
  <2>3. LET y == [d EXCEPT !.ctx = c]
        IN  y \in Checkpoint /\ y.queue = d.queue /\ y.frames = d.frames
    BY <2>1, ContextFacts
  <2> QED BY <1>3, <2>2, <2>3 DEF d
<1> HIDE DEF e, done
<1>9. CASE Kind[e.node] # "router"
  <2> DEFINE r == Successors(next, e.tokens)
             c1 == cp(next)
             c2 == cp2(next)
  <2>1. /\ r \in Seq(Entry) /\ DOMAIN r = 1..Len(next)
        /\ \A i \in DOMAIN r : r[i].node = next[i] /\ r[i].tokens = e.tokens /\ r[i].joined = NoFrame
    BY <1>4, <1>5, SuccessorFacts
  <2>2. c1 = [done EXCEPT !.queue = @ \o r]
    BY <1>9
  <2> HIDE DEF r, cp
  <2>3. c1 \in Checkpoint /\ c1.queue = Tail(wk.cp.queue) \o r /\ c1.frames = wk.cp.frames
    <3>1. LET y == [done EXCEPT !.queue = @ \o r]
          IN  y \in Checkpoint /\ y.queue = done.queue \o r /\ y.frames = done.frames
      BY <1>8, <2>1, ExtendFacts
    <3> QED BY <1>8, <2>2, <3>1
  <2>4. c2 \in Checkpoint /\ c2.queue = Tail(wk.cp.queue) \o r /\ c2.frames = wk.cp.frames
    <3> HIDE DEF c1
    <3>1. c2 = SaveScope(c1, e.tokens)
      BY DEF c1
    <3> QED BY <1>4, <2>3, <3>1, SaveScopeFacts
  <2>s. Save(c2, "head", wk.seen)
    BY <1>2
  <2> HIDE DEF c2
  <2>5. Sound(c2, asks, joins') /\ (Complete(wk.cp, asks, joins) => Complete(c2, asks, joins'))
    <3>1. Kind[e.node] \notin Human \cup {"router"}
      BY <1>1, <1>9 DEF Human
    <3>2. e = wk.cp.queue[1] /\ (Kind[e.node] = "join" => e.joined \in Frame)
          /\ c2.queue = Tail(wk.cp.queue) \o Successors(next, e.tokens)
      BY <1>3, <2>4 DEF r
    <3> DEFINE cp0 == wk.cp
    <3>3. /\ cp0 \in Checkpoint /\ c2 \in Checkpoint /\ asks \in Seq(Ask) /\ joins \in [Frame -> Nat]
          /\ Sound(cp0, asks, joins) /\ AsksPlaced(asks) /\ cp0.queue # <<>> /\ e = cp0.queue[1]
          /\ (Kind[e.node] = "join" => e.joined \in Frame) /\ c2.frames = cp0.frames
          /\ c2.queue = Tail(cp0.queue) \o Successors(next, e.tokens)
      BY <1>3, <1>4, <2>4, <3>2
    <3>4. joins' = Counts(joins, e.joined)
      BY <1>1 DEF e, Counts
    <3> HIDE DEF cp0
    <3>5. Sound(c2, asks, Counts(joins, e.joined))
      BY <3>1, <3>3, AdvanceSound
    <3>6. Complete(cp0, asks, joins) => Complete(c2, asks, Counts(joins, e.joined))
      BY <3>1, <3>3, AdvanceSound
    <3> QED BY <3>4, <3>5, <3>6 DEF cp0
  <2>6. Past(c2, wk.seen, FALSE)
    <3>1. \A f \in Frame : (Forked(wk.cp, f) => Forked(c2, f)) /\ (Released(wk.cp, f) => Released(c2, f))
      BY <2>4, SameFrames
    <3>2. \A i \in DOMAIN r : i \in DOMAIN next /\ r[i].node = next[i] /\ r[i].joined = NoFrame
      BY <1>5, <2>1
    <3>3. \A i \in DOMAIN r : \A p \in DOMAIN r[i].tokens : Holds(e.tokens, r[i].tokens[p])
      BY <2>1 DEF Holds
    <3>4. e = wk.cp.queue[1]
      BY <1>3
    <3> DEFINE cp0 == wk.cp
               seen == wk.seen
    <3>5. /\ cp0 \in Checkpoint /\ c2 \in Checkpoint /\ seen \in SUBSET Keys /\ Past(cp0, seen, TRUE)
          /\ cp0.queue # <<>> /\ e = cp0.queue[1] /\ r \in Seq(Entry) /\ c2.queue = Tail(cp0.queue) \o r
          /\ \A f \in Frame : (Forked(cp0, f) => Forked(c2, f)) /\ (Released(cp0, f) => Released(c2, f))
          /\ \A i \in DOMAIN r : \A p \in DOMAIN r[i].tokens :
                 ~Forked(cp0, r[i].tokens[p].frame) \/ Holds(e.tokens, r[i].tokens[p])
      BY <1>3, <1>4, <2>1, <2>4, <3>1, <3>3, <3>4
    <3> HIDE DEF cp0, seen
    <3>6. Past(c2, seen, FALSE)
      BY <3>2, <3>5, PastRun
    <3> QED BY <3>6 DEF seen
  <2>7. "head" \in {"head", "work"}
    OBVIOUS
  <2> QED BY <1>1, <1>3, <1>4, <1>6, <1>7, <2>4, <2>5, <2>6, <2>s, <2>7, SaveInv
<1>10. CASE Kind[e.node] = "router"
  <2> DEFINE c1 == cp(next)
             c2 == cp2(next)
  <2>1. c1 = Fork(done, e.node, next, e.tokens)
    BY <1>10 DEF c1
  <2>2. e.node \in Routers /\ Unforked(done, e.node) # {}
    BY <1>1, <1>4, <1>8, <1>10 DEF Routers, Unforked, Forked
  <2> HIDE DEF cp
  <2> HIDE DEF c1
  <2>3. c1 \in Checkpoint /\ \E f \in Frame : ForkedAt(done, c1, next, e.tokens, f)
    BY <1>4, <1>5, <1>8, <2>1, <2>2, ForkFacts
  <2>f. PICK f \in Frame : ForkedAt(done, c1, next, e.tokens, f)
    BY <2>3
  <2> DEFINE r == BranchEntries(next, e.tokens, f)
  <2>4. c2 \in Checkpoint /\ c2.queue = Tail(wk.cp.queue) \o r
        /\ Opened(wk.cp.frames, c2.frames, f, BranchNodes(next)) /\ ~Forked(wk.cp, f)
    <3>1. c2 = SaveScope(c1, e.tokens)
      BY DEF c1
    <3> HIDE DEF c2
    <3>2. c2 \in Checkpoint /\ c2.queue = c1.queue /\ c2.frames = c1.frames
      BY <1>4, <2>3, <3>1, SaveScopeFacts
    <3> QED BY <1>8, <2>f, <3>2 DEF Forked, ForkedAt, r
  <2>s. Save(c2, "head", wk.seen)
    BY <1>2
  <2> HIDE DEF c2, r
  <2>j. joins' = joins
    BY <1>1, <1>3, <1>10, NoFrameFacts
  <2>5. Sound(c2, asks, joins) /\ (Complete(wk.cp, asks, joins) => Complete(c2, asks, joins))
    <3>2. e = wk.cp.queue[1]
          /\ c2.queue = Tail(wk.cp.queue) \o BranchEntries(next, e.tokens, f)
      BY <1>3, <2>4 DEF r
    <3> QED BY <1>3, <1>4, <1>10, <2>4, <3>2, ForkSound
  <2>6. Past(c2, wk.seen, FALSE)
    <3>1. \A g \in Frame : (Forked(wk.cp, g) => Forked(c2, g)) /\ (Released(wk.cp, g) => Released(c2, g))
      <4> SUFFICES ASSUME NEW g \in Frame
                   PROVE  (Forked(wk.cp, g) => Forked(c2, g)) /\ (Released(wk.cp, g) => Released(c2, g))
        OBVIOUS
      <4>1. CASE g = f
        BY <2>4, <4>1 DEF Released
      <4>2. CASE g # f
        BY <2>4, <4>2 DEF Forked, Released, Opened
      <4> QED BY <4>1, <4>2
    <3>2. /\ r \in Seq(Entry) /\ DOMAIN r = DOMAIN next
          /\ \A i \in DOMAIN r : /\ r[i].node = next[i] /\ r[i].joined = NoFrame
                                 /\ Len(r[i].tokens) = Len(e.tokens) + 1
                                 /\ r[i].tokens \in Seq(BranchToken)
                                 /\ r[i].tokens[Len(e.tokens) + 1].frame = f
                                 /\ \A p \in 1..Len(e.tokens) : r[i].tokens[p] = e.tokens[p]
      <4>1. r \in Seq(Entry) /\ DOMAIN r = DOMAIN next
        BY <1>4, <1>5, BranchFacts DEF r
      <4>2. \A i \in DOMAIN r : /\ r[i].node = next[i] /\ r[i].joined = NoFrame
                                 /\ Len(r[i].tokens) = Len(e.tokens) + 1
                                 /\ r[i].tokens \in Seq(BranchToken)
                                 /\ r[i].tokens[Len(e.tokens) + 1].frame = f
                                 /\ \A p \in 1..Len(e.tokens) : r[i].tokens[p] = e.tokens[p]
        BY <1>4, <1>5, BranchFacts DEF r
      <4> QED BY <4>1, <4>2
    <3>3. \A i \in DOMAIN r : \A p \in DOMAIN r[i].tokens :
              ~Forked(wk.cp, r[i].tokens[p].frame) \/ Holds(e.tokens, r[i].tokens[p])
      <4> SUFFICES ASSUME NEW i \in DOMAIN r, NEW p \in DOMAIN r[i].tokens
                   PROVE  ~Forked(wk.cp, r[i].tokens[p].frame) \/ Holds(e.tokens, r[i].tokens[p])
        OBVIOUS
      <4>1. p \in 1..(Len(e.tokens) + 1) /\ Len(e.tokens) \in Nat /\ DOMAIN e.tokens = 1..Len(e.tokens)
        BY <1>4, <3>2
      <4>2. CASE p = Len(e.tokens) + 1
        BY <2>4, <3>2, <4>2
      <4>3. CASE p # Len(e.tokens) + 1
        <5>1. p \in 1..Len(e.tokens)
          BY <4>1, <4>3
        <5> QED BY <3>2, <4>1, <5>1 DEF Holds
      <4> QED BY <4>2, <4>3
    <3>4. e = wk.cp.queue[1]
      BY <1>3
    <3>5. \A i \in DOMAIN r : i \in DOMAIN next /\ r[i].node = next[i] /\ r[i].joined = NoFrame
      BY <3>2
    <3> DEFINE cp0 == wk.cp
               seen == wk.seen
    <3>6. /\ cp0 \in Checkpoint /\ c2 \in Checkpoint /\ seen \in SUBSET Keys /\ Past(cp0, seen, TRUE)
          /\ cp0.queue # <<>> /\ e = cp0.queue[1] /\ r \in Seq(Entry) /\ c2.queue = Tail(cp0.queue) \o r
          /\ \A g \in Frame : (Forked(cp0, g) => Forked(c2, g)) /\ (Released(cp0, g) => Released(c2, g))
          /\ \A i \in DOMAIN r : \A p \in DOMAIN r[i].tokens :
                 ~Forked(cp0, r[i].tokens[p].frame) \/ Holds(e.tokens, r[i].tokens[p])
      BY <1>3, <1>4, <2>4, <3>1, <3>2, <3>3, <3>4
    <3> HIDE DEF cp0, seen
    <3>7. Past(c2, seen, FALSE)
      BY <3>5, <3>6, PastRun
    <3> QED BY <3>7 DEF seen
  <2>7. "head" \in {"head", "work"}
    OBVIOUS
  <2>8. Sound(c2, asks, joins') /\ (status = "running" => Complete(c2, asks, joins'))
    BY <1>3, <2>5, <2>j
  <2> QED BY <1>1, <1>4, <1>6, <1>7, <2>4, <2>6, <2>7, <2>8, <2>s, SaveInv
<1> QED BY <1>9, <1>10

\* The node at work is finished; nothing of this is persisted before the checkpoint.
LEMMA FinishNodeInv ==
    ASSUME IInv, FinishNode
    PROVE  IInv'
<1>1. wk.pc = "work" /\ wk' = [wk EXCEPT !.pc = "done"]
      /\ UNCHANGED <<status, job, saved, asks, produced, joins, used>>
  BY DEF FinishNode
<1>2. wk'.pc = "done" /\ wk'.cp = wk.cp /\ wk'.seen = wk.seen /\ WkType'
  <2>1. wk \in [pc : {"idle", "head", "work", "done", "asked"}, cp : Checkpoint, seen : SUBSET Keys]
    BY DEF IInv, WkType
  <2> HIDE DEF Keys
  <2>2. wk' \in [pc : {"idle", "head", "work", "done", "asked"}, cp : Checkpoint, seen : SUBSET Keys]
        /\ wk'.pc = "done" /\ wk'.cp = wk.cp /\ wk'.seen = wk.seen
    BY <1>1, <2>1
  <2> QED BY <2>2 DEF WkType
<1>3. CoreType'
  BY <1>1, <1>2 DEF IInv, CoreType
<1>4. Persisted' /\ AsksOpen' /\ WaitsEmpty'
  BY <1>1 DEF IInv, Persisted, AsksOpen, WaitsEmpty
<1>5. /\ Sound(wk.cp, asks, joins) /\ status \in {"running", "cancelled"}
      /\ (status = "running" => Complete(wk.cp, asks, joins))
      /\ Left(saved.queue, wk.cp.queue) /\ Past(wk.cp, wk.seen, TRUE) /\ AtWork
  BY <1>1, MemoryFacts
<1>6. AtWork'
  BY <1>1, <1>2, <1>5 DEF AtWork
<1>7. InMemory'
  BY <1>1, <1>2, <1>5, <1>6 DEF InMemory, Terminal
<1> QED BY <1>2, <1>3, <1>4, <1>7 DEF IInv

\* The task or wait is recorded, its entry still queued.
LEMMA CreateAskInv ==
    ASSUME Nested, ~Pooled, IInv, CreateAsk
    PROVE  IInv'
<1> DEFINE e == Current
           x == [node |-> e.node, tokens |-> e.tokens, pending |-> TRUE, accepted |-> FALSE, status |-> "open"]
           cp == wk.cp
<1>1. /\ wk.pc = "work" /\ Kind[e.node] \in Human /\ status = "running" /\ ~AskTaken(e)
      /\ Len(asks) < MaxAsks /\ asks' = Append(asks, x) /\ wk' = [wk EXCEPT !.pc = "asked"]
      /\ UNCHANGED <<status, job, saved, produced, joins, used>>
  BY DEF CreateAsk, Human
<1>2. /\ cp = saved /\ cp.queue # <<>> /\ e = saved.queue[1] /\ 1 \in DOMAIN saved.queue
      /\ Sound(cp, asks, joins) /\ Past(cp, wk.seen, TRUE) /\ Complete(cp, asks, joins)
  BY <1>1, DoneFacts
<1>3. cp \in Checkpoint /\ asks \in Seq(Ask) /\ joins \in [Frame -> Nat] /\ AsksPlaced(asks)
      /\ OpenPending(asks) /\ e \in Entry /\ e.node \in Nodes /\ e.tokens \in Seq(BranchToken)
  BY <1>2, WorkerFacts
<1>4. ~\E k \in DOMAIN asks : asks[k].node = e.node /\ asks[k].tokens = e.tokens
  BY <1>1 DEF AskTaken
<1>5. x \in Ask /\ x.node = e.node /\ x.tokens = e.tokens /\ x.pending /\ (x.status = "open" => x.pending)
  BY <1>3 DEF Ask
<1>6. wk' = [wk EXCEPT !.pc = "asked"]
      /\ wk \in [pc : {"idle", "head", "work", "done", "asked"}, cp : Checkpoint, seen : SUBSET Keys]
  BY <1>1 DEF IInv, WkType
<1>7. wk'.pc = "asked" /\ wk'.cp = cp /\ wk'.seen = wk.seen
      /\ wk' \in [pc : {"idle", "head", "work", "done", "asked"}, cp : Checkpoint, seen : SUBSET Keys]
  <2> HIDE DEF Keys
  <2> QED BY <1>6
<1> HIDE DEF e, x, cp
<1>8. Sound(cp, asks', joins) /\ Complete(cp, asks', joins) /\ AsksPlaced(asks')
  <2>1. /\ cp.queue # <<>> /\ Sound(cp, asks, joins) /\ Kind[cp.queue[1].node] \in Human
        /\ x.node = cp.queue[1].node /\ x.tokens = cp.queue[1].tokens
    BY <1>1, <1>2, <1>5 DEF e, cp
  <2>2. ~IsAsked(asks, x.node, x.tokens)
    BY <1>4, <1>5 DEF IsAsked
  <2>3. asks' = Append(asks, x)
    BY <1>1 DEF x, e
  <2>4. Sound(cp, Append(asks, x), joins) /\ AsksPlaced(Append(asks, x))
    BY <1>3, <1>5, <2>1, <2>2, CreateSound
  <2>5. Complete(cp, asks, joins) => Complete(cp, Append(asks, x), joins)
    BY <1>3, <1>5, <2>1, <2>2, CreateSound
  <2> QED BY <1>2, <2>3, <2>4, <2>5
<1>9. asks' \in Seq(Ask) /\ Len(asks') = Len(asks) + 1 /\ Len(asks) \in Nat /\ DOMAIN asks = 1..Len(asks)
      /\ asks'[Len(asks) + 1] = x /\ \A k \in DOMAIN asks : asks'[k] = asks[k]
  BY <1>1, <1>3, <1>5 DEF x, e
<1>10. DOMAIN asks' = 1..(Len(asks) + 1)
  BY <1>9
<1>11. OpenPending(asks')
  <2> SUFFICES ASSUME NEW k \in DOMAIN asks', asks'[k].status = "open"
               PROVE  asks'[k].pending
    BY DEF OpenPending
  <2>1. CASE k \in DOMAIN asks
    BY <1>3, <1>9, <2>1 DEF OpenPending
  <2>2. CASE k = Len(asks) + 1
    BY <1>5, <1>9, <2>2
  <2> QED BY <1>9, <1>10, <2>1, <2>2
<1>12. HasAsked'
  <2>1. Len(asks) + 1 \in DOMAIN asks'
    BY <1>9, <1>10
  <2>2. asks'[Len(asks) + 1].pending /\ asks'[Len(asks) + 1].tokens = wk'.cp.queue[1].tokens
    BY <1>2, <1>5, <1>7, <1>9 DEF cp
  <2>3. Kind[wk'.cp.queue[1].node] \in Human
    BY <1>1, <1>2, <1>7 DEF e, cp
  <2> QED BY <2>1, <2>2, <2>3 DEF HasAsked
<1>13. AtWork /\ Left(saved.queue, cp.queue)
  BY <1>1, MemoryFacts DEF cp
<1>14. CoreType'
  <2>1. Len(asks') <= MaxAsks
    BY <1>1, <1>9, ParallelAssumption
  <2> QED BY <1>1, <1>3, <1>7, <1>9, <2>1 DEF IInv, CoreType, cp
<1>15. Persisted' /\ AsksOpen' /\ WaitsEmpty' /\ WkType'
  <2>1. saved' = cp /\ joins' = joins /\ status' = "running"
    BY <1>1, <1>2
  <2> QED BY <1>7, <1>8, <1>11, <2>1 DEF Persisted, AsksOpen, WaitsEmpty, WkType
<1>16. InMemory'
  <2>1. saved' = saved /\ joins' = joins /\ status' = "running"
    BY <1>1
  <2>2. AtWork'
    BY <1>7, <1>13, <2>1 DEF AtWork, cp
  <2> QED BY <1>2, <1>7, <1>8, <1>12, <1>13, <2>1, <2>2 DEF InMemory
<1> QED BY <1>14, <1>15, <1>16 DEF IInv

\* The branch stays behind its task or wait.
LEMMA LeaveBranchInv ==
    ASSUME Nested, IInv, LeaveBranch
    PROVE  IInv'
<1> DEFINE cp == wk.cp
           cp2 == Drop(cp)
<1>1. wk.pc = "asked" /\ Save(cp2, "head", wk.seen) /\ UNCHANGED <<produced, joins, used>>
  BY DEF LeaveBranch
<1>2. /\ cp = saved /\ cp.queue # <<>> /\ Current = cp.queue[1] /\ 1 \in DOMAIN cp.queue
      /\ Sound(cp, asks, joins) /\ Past(cp, wk.seen, TRUE)
      /\ (status = "running" => Complete(cp, asks, joins))
      /\ (Kind[Current.node] # "join" => Current.joined = NoFrame)
      /\ cp2 \in Checkpoint /\ cp2.queue = Tail(cp.queue) /\ cp2.frames = cp.frames
  BY <1>1, DoneFacts
<1>3. cp \in Checkpoint /\ asks \in Seq(Ask) /\ joins \in [Frame -> Nat] /\ Sound(saved, asks, joins)
      /\ produced \in SUBSET Nodes /\ used \in UsedType /\ wk.seen \in SUBSET Keys
  BY WorkerFacts
<1>4. HasAsked
  BY <1>1, MemoryFacts
<1>5. cp.queue[1].joined = NoFrame /\ \E k \in DOMAIN asks : asks[k].pending /\ asks[k].tokens = cp.queue[1].tokens
  BY <1>2, <1>4 DEF HasAsked, Human
<1> HIDE DEF cp, cp2
<1>6. Sound(cp2, asks, joins) /\ (Complete(cp, asks, joins) => Complete(cp2, asks, joins))
  BY <1>2, <1>3, <1>5, LeaveSound
<1>7. Past(cp2, wk.seen, FALSE)
  <2>1. \A f \in Frame : (Forked(cp, f) => Forked(cp2, f)) /\ (Released(cp, f) => Released(cp2, f))
    BY <1>2, SameFrames
  <2> QED BY <1>2, <1>3, <2>1, PastDrop
<1> QED BY <1>1, <1>2, <1>3, <1>6, <1>7, SaveInv

LEMMA RefuseAskInv ==
    ASSUME IInv, RefuseAsk
    PROVE  IInv'
<1>1. wk.pc = "work" /\ Throw /\ UNCHANGED <<saved, produced, joins, used>>
  BY DEF RefuseAsk
<1>2. joins \in [Frame -> Nat] /\ produced \in SUBSET Nodes /\ used \in UsedType
  BY WorkerFacts
<1> QED BY <1>1, <1>2, ThrowInv DEF IInv, Persisted

\* The queue is empty.
LEMMA CloseSegmentInv ==
    ASSUME IInv, CloseSegment
    PROVE  IInv'
<1>1. wk.pc = "head" /\ wk.cp.queue = <<>> /\ UNCHANGED <<produced, joins, used>>
  BY DEF CloseSegment
<1>2. saved \in Checkpoint /\ wk.cp \in Checkpoint /\ joins \in [Frame -> Nat]
      /\ produced \in SUBSET Nodes /\ used \in UsedType /\ job \in JobType
  BY WorkerFacts DEF IInv, CoreType, JobType
<1>3. [job EXCEPT !.state = "none"] \in JobType
  BY <1>2, JobFacts
<1>4. Sound(wk.cp, asks, joins) /\ Left(saved.queue, wk.cp.queue)
  BY <1>1, MemoryFacts
<1>5. CASE status = "running" /\ status' = "waiting" /\ wk' = Idle /\ job' = [job EXCEPT !.state = "none"]
           /\ UNCHANGED <<saved, asks>>
  <2>1. AllRoot(saved.queue)
    <3>1. \A k \in DOMAIN wk.cp.queue : FALSE
      BY <1>1
    <3> QED BY <1>4, <3>1 DEF Left, AllRoot
  <2>2. wk' = [pc |-> "idle", cp |-> saved, seen |-> {}]
    BY <1>5 DEF Idle
  <2>3. WkType'
    BY <1>2, <2>2 DEF WkType
  <2>4. CoreType'
    BY <1>1, <1>2, <1>3, <1>5, <2>2 DEF IInv, CoreType, JobType
  <2>5. Persisted' /\ AsksOpen' /\ WaitsEmpty' /\ InMemory'
    BY <1>1, <1>5, <2>1, <2>2 DEF IInv, Persisted, AsksOpen, WaitsEmpty, InMemory, Terminal
  <2> QED BY <2>3, <2>4, <2>5 DEF IInv
<1>6. CASE status' = "success" /\ saved' = wk.cp /\ wk' = Idle /\ job' = [job EXCEPT !.state = "none"]
           /\ UNCHANGED asks
  <2>2. wk' = [pc |-> "idle", cp |-> saved, seen |-> {}]
    BY <1>6 DEF Idle
  <2>3. WkType'
    BY <1>2, <2>2 DEF WkType
  <2>4. CoreType'
    BY <1>1, <1>2, <1>3, <1>6, <2>2 DEF IInv, CoreType, JobType, Terminal
  <2>5. Persisted' /\ AsksOpen' /\ WaitsEmpty' /\ InMemory'
    BY <1>1, <1>4, <1>6, <2>2 DEF IInv, Persisted, AsksOpen, WaitsEmpty, InMemory, Terminal
  <2> QED BY <2>3, <2>4, <2>5 DEF IInv
<1>7. CASE Throw /\ UNCHANGED saved
  BY <1>1, <1>2, <1>7, ThrowInv DEF IInv, Persisted
<1> QED BY <1>5, <1>6, <1>7 DEF CloseSegment

LEMMA ThrowErrorInv ==
    ASSUME IInv, ThrowError
    PROVE  IInv'
<1>1. wk.pc # "idle" /\ Throw /\ UNCHANGED <<saved, produced, joins>>
      /\ used.errors < MaxErrors /\ used' = [used EXCEPT !.errors = @ + 1]
  BY DEF ThrowError
<1>2. joins \in [Frame -> Nat] /\ produced \in SUBSET Nodes /\ used \in UsedType
  BY WorkerFacts
<1>3. used' \in UsedType
  BY <1>1, <1>2, ParallelAssumption DEF UsedType
<1> QED BY <1>1, <1>2, <1>3, ThrowInv DEF IInv, Persisted

LEMMA ReconcileExhaustedInv ==
    ASSUME IInv, ReconcileExhausted
    PROVE  IInv'
<1>1. status = "running" /\ Throw /\ UNCHANGED <<saved, produced, joins, used>>
  BY DEF ReconcileExhausted
<1>2. joins \in [Frame -> Nat] /\ produced \in SUBSET Nodes /\ used \in UsedType
  BY WorkerFacts
<1> QED BY <1>1, <1>2, ThrowInv DEF IInv, Persisted

LEMMA CrashInv ==
    ASSUME IInv, Crash
    PROVE  IInv'
<1>1. wk' = [pc |-> "idle", cp |-> saved, seen |-> {}] /\ used.crashes < MaxCrashes
      /\ used' = [used EXCEPT !.crashes = @ + 1] /\ UNCHANGED <<status, job, saved, asks, produced, joins>>
  BY DEF Crash, Idle
<1>2. used \in UsedType /\ saved \in Checkpoint
  BY WorkerFacts
<1>3. used' \in UsedType
  BY <1>1, <1>2, ParallelAssumption DEF UsedType
<1>4. WkType'
  BY <1>1, <1>2 DEF WkType
<1>5. CoreType'
  BY <1>1, <1>2, <1>3 DEF IInv, CoreType, UsedType
<1>6. Persisted' /\ AsksOpen' /\ WaitsEmpty' /\ InMemory'
  BY <1>1 DEF IInv, Persisted, AsksOpen, WaitsEmpty, InMemory
<1> QED BY <1>4, <1>5, <1>6 DEF IInv

\* The worker takes the run and starts from what is persisted.
LEMMA ClaimInv ==
    ASSUME IInv, Claim
    PROVE  IInv'
<1>1. wk.pc = "idle" /\ job.attempt < MaxAttempts /\ status \in {"queued", "running"}
      /\ status' = "running" /\ job' = [state |-> "leased", attempt |-> job.attempt + 1]
      /\ wk' = [pc |-> "head", cp |-> saved, seen |-> {}]
      /\ UNCHANGED <<saved, asks, produced, joins, used>>
  BY DEF Claim
<1>2. saved \in Checkpoint /\ job \in JobType
  BY WorkerFacts DEF IInv, CoreType, JobType
<1>3. job' \in JobType
  BY <1>1, <1>2, ParallelAssumption DEF JobType
<1>4. WkType'
  BY <1>1, <1>2 DEF WkType
<1>5. CoreType'
  BY <1>1, <1>2, <1>3 DEF IInv, CoreType, JobType
<1>6. Sound(saved, asks, joins) /\ Complete(saved, asks, joins)
  BY <1>1 DEF IInv, Persisted, Terminal
<1>7. Persisted' /\ AsksOpen' /\ WaitsEmpty'
  BY <1>1, <1>6 DEF IInv, Persisted, AsksOpen, WaitsEmpty
<1>8. InMemory'
  <2>1. wk'.pc = "head" /\ wk'.cp = saved /\ wk'.seen = {}
    BY <1>1
  <2>2. Past(saved, {}, FALSE)
    BY DEF Past, PastJoins, PastFrames, PastPaths
  <2>3. Left(saved.queue, saved.queue)
    BY DEF Left
  <2> QED BY <1>1, <1>6, <2>1, <2>2, <2>3 DEF InMemory
<1> QED BY <1>4, <1>5, <1>7, <1>8 DEF IInv

-----------------------------------------------------------------------------
(* People, timers and the reconcilers keep the invariant.                  *)

\* completeCurrentHumanCheckpoint
Without(cp, a) ==
    IF Kind[a.node] = "operate" /\ cp.queue # <<>> /\ Head(cp.queue).node = a.node
       /\ Head(cp.queue).tokens = a.tokens
    THEN Drop(cp) ELSE cp

LEMMA WithoutSound ==
    ASSUME NEW cp \in Checkpoint, NEW a \in Seq(Ask), NEW jn \in [Frame -> Nat], Sound(cp, a, jn),
           AllRoot(cp.queue), NEW x
    PROVE  /\ Without(cp, x) \in Checkpoint /\ AllRoot(Without(cp, x).queue)
           /\ Without(cp, x).frames = cp.frames
           /\ Sound(Without(cp, x), a, jn)
           /\ Complete(cp, a, jn) => Complete(Without(cp, x), a, jn)
<1> DEFINE w == Without(cp, x)
<1>1. CASE w = cp
  BY <1>1
<1>2. CASE cp.queue # <<>> /\ w = Drop(cp)
  <2> HIDE DEF w
  <2>1. w \in Checkpoint /\ w.queue = Tail(cp.queue) /\ w.frames = cp.frames
    BY <1>2, DropFacts
  <2>2. cp.queue[1].joined = NoFrame /\ cp.queue[1].tokens = <<>> /\ cp.queue \in Seq(Entry)
    BY <1>2, CheckpointFacts, TailFacts DEF AllRoot, RootPlain
  <2>3. AllRoot(w.queue)
    BY <1>2, <2>1, <2>2, TailFacts DEF AllRoot
  <2>4. Sound(w, a, jn) /\ (Complete(cp, a, jn) => Complete(w, a, jn))
    BY <1>2, <2>1, <2>2, LeaveSound
  <2> QED BY <2>1, <2>3, <2>4 DEF w
<1> QED BY <1>1, <1>2 DEF Without

\* resumeParallelCheckpoint
LEMMA ExtendSound ==
    ASSUME Nested, NEW cp \in Checkpoint, asks \in Seq(Ask), NEW i \in DOMAIN asks, AllRoot(cp.queue),
           NEW next \in Routes[asks[i].node]
    PROVE  LET w == Without(cp, asks[i])
               cp2 == Extend(cp, i, next)
           IN  w \in Checkpoint =>
               /\ cp2 \in Checkpoint /\ cp2.frames = w.frames
               /\ cp2.queue = w.queue \o Successors(next, asks[i].tokens)
<1> SUFFICES ASSUME Without(cp, asks[i]) \in Checkpoint
             PROVE  LET cp2 == Extend(cp, i, next)
                        w == Without(cp, asks[i])
                    IN  /\ cp2 \in Checkpoint /\ cp2.frames = w.frames
                        /\ cp2.queue = w.queue \o Successors(next, asks[i].tokens)
  OBVIOUS
<1> DEFINE a == asks[i]
           w == Without(cp, a)
           act == Activate(w, a.tokens)
           c == act.ctx \cup {a.node}
           here == [act EXCEPT !.ctx = c]
           sv == SaveScope(here, a.tokens)
           r == Successors(next, a.tokens)
<1>0. a \in Ask
  OBVIOUS
<1>1. a.node \in Nodes /\ a.tokens \in Seq(BranchToken)
  <2> HIDE DEF a
  <2> QED BY <1>0 DEF Ask
<1>2. next \in Seq(Nodes)
  BY <1>1, ParallelAssumption
<1>3. Extend(cp, i, next) = [sv EXCEPT !.queue = @ \o r]
  BY DEF Extend, Without
<1> HIDE DEF w, a
<1>4. act \in Checkpoint /\ act.queue = w.queue /\ act.frames = w.frames
  BY <1>1, ActivateFacts DEF w, a
<1> HIDE DEF act
<1>5. c \in SUBSET Nodes
  BY <1>1, <1>4, CheckpointParts
<1> HIDE DEF c
<1>6. here \in Checkpoint /\ here.queue = act.queue /\ here.frames = act.frames
  <2>1. LET y == [act EXCEPT !.ctx = c]
        IN  y \in Checkpoint /\ y.queue = act.queue /\ y.frames = act.frames
    BY <1>4, <1>5, ContextFacts
  <2> QED BY <2>1
<1> HIDE DEF here
<1>7. sv \in Checkpoint /\ sv.queue = here.queue /\ sv.frames = here.frames
  BY <1>1, <1>6, SaveScopeFacts
<1>8. r \in Seq(Entry)
  BY <1>1, <1>2, SuccessorFacts
<1> HIDE DEF sv, r
<1>9. LET y == [sv EXCEPT !.queue = @ \o r]
      IN  y \in Checkpoint /\ y.queue = sv.queue \o r /\ y.frames = sv.frames
  BY <1>7, <1>8, ExtendFacts
<1> QED BY <1>3, <1>4, <1>6, <1>7, <1>9 DEF w, a, r

\* A decision, a message or a timer is continued while the run waits.
LEMMA ContinueInv ==
    ASSUME Nested, IInv, status = "waiting", NEW i \in DOMAIN asks, asks[i].pending,
           NEW answer \in Decided \cup {"fired"}, Continue(i, answer)
    PROVE  IInv'
<1> DEFINE x == [asks[i] EXCEPT !.status = answer, !.pending = FALSE]
<1>1. saved \in Checkpoint /\ asks \in Seq(Ask) /\ joins \in [Frame -> Nat] /\ produced \in SUBSET Nodes
      /\ AsksPlaced(asks) /\ OpenPending(asks) /\ Sound(saved, asks, joins) /\ used \in UsedType
  BY WorkerFacts
<1>2. AllRoot(saved.queue) /\ Complete(saved, asks, joins) /\ wk.pc = "idle" /\ WkType /\ CoreType
  BY DEF IInv, WaitsEmpty, Persisted, InMemory, Terminal
<1>3. asks' = [asks EXCEPT ![i] = x] /\ produced' = produced \cup {asks[i].node}
      /\ UNCHANGED <<wk, joins, used>>
  BY DEF Continue
<1>4. x \in Ask /\ x.node = asks[i].node /\ x.tokens = asks[i].tokens /\ ~x.pending
      /\ x.status = answer /\ asks[i].node \in Nodes
  <2> DEFINE y == asks[i]
  <2>1. y \in Ask /\ answer \in AskStatus
    BY <1>1 DEF AskStatus
  <2> HIDE DEF y
  <2>2. [y EXCEPT !.status = answer, !.pending = FALSE] \in Ask
    BY <2>1, AskFields
  <2>3. /\ [y EXCEPT !.status = answer, !.pending = FALSE].node = y.node
        /\ [y EXCEPT !.status = answer, !.pending = FALSE].tokens = y.tokens
        /\ [y EXCEPT !.status = answer, !.pending = FALSE].pending = FALSE
        /\ [y EXCEPT !.status = answer, !.pending = FALSE].status = answer
    BY <2>1, AskPlaces
  <2>4. y.node \in Nodes
    BY <2>1 DEF Ask
  <2> QED BY <2>2, <2>3, <2>4 DEF y
<1>5. x.status # "open"
  BY <1>4 DEF Decided
<1> HIDE DEF x
<1>6. asks' \in Seq(Ask) /\ Len(asks') = Len(asks) /\ OpenPending(asks') /\ Answered(asks, asks', i)
  <2> DEFINE a2 == [asks EXCEPT ![i] = x]
  <2>1. a2 \in Seq(Ask) /\ Len(a2) = Len(asks) /\ OpenPending(a2) /\ (~x.pending => Answered(asks, a2, i))
    BY <1>1, <1>4, <1>5, ChangeFacts
  <2> QED BY <1>3, <1>4, <2>1
<1>7. Sound(saved, asks', joins) /\ AsksPlaced(asks')
  BY <1>1, <1>6, AnsweredSound
<1>8. produced' \in SUBSET Nodes
  BY <1>1, <1>3, <1>4
<1>9. CASE status' = "cancelled" /\ UNCHANGED <<job, saved>>
  <2>1. CoreType'
    BY <1>2, <1>3, <1>6, <1>8, <1>9 DEF CoreType, Terminal
  <2>2. WkType'
    BY <1>2, <1>3 DEF WkType
  <2>3. Persisted' /\ AsksOpen' /\ WaitsEmpty' /\ InMemory'
    BY <1>2, <1>3, <1>6, <1>7, <1>9 DEF Persisted, AsksOpen, WaitsEmpty, InMemory, Terminal
  <2> QED BY <2>1, <2>2, <2>3 DEF IInv
<1>10. CASE /\ status' = "queued" /\ job' = [state |-> "queued", attempt |-> 0]
            /\ \E next \in Routes[asks[i].node] : saved' = Extend(saved, i, next)
  <2>1. PICK next \in Routes[asks[i].node] : saved' = Extend(saved, i, next)
    BY <1>10
  <2> DEFINE w == Without(saved, asks[i])
             cp2 == Extend(saved, i, next)
  <2>2. w \in Checkpoint /\ AllRoot(w.queue) /\ Sound(w, asks, joins) /\ Complete(w, asks, joins)
    BY <1>1, <1>2, WithoutSound
  <2>3. cp2 \in Checkpoint /\ cp2.frames = w.frames /\ cp2.queue = w.queue \o Successors(next, asks[i].tokens)
    BY <1>1, <1>2, <2>2, ExtendSound
  <2>s. saved' = cp2
    BY <2>1
  <2> DEFINE a2 == asks'
  <2>a. a2 \in Seq(Ask) /\ Answered(asks, a2, i)
    BY <1>6
  <2> HIDE DEF w, cp2, a2
  <2>4. Sound(cp2, a2, joins) /\ (Complete(w, asks, joins) => Complete(cp2, a2, joins))
    BY <1>1, <2>2, <2>3, <2>a, ResumeSound
  <2>5. job' \in JobType
    BY <1>10, ParallelAssumption DEF JobType
  <2>6. CoreType'
    BY <1>2, <1>3, <1>6, <1>8, <1>10, <2>3, <2>5, <2>s DEF CoreType, JobType
  <2>7. WkType'
    BY <1>2, <1>3 DEF WkType
  <2>8. Persisted' /\ AsksOpen' /\ WaitsEmpty' /\ InMemory'
    BY <1>2, <1>3, <1>6, <1>7, <1>10, <2>2, <2>4, <2>s DEF Persisted, AsksOpen, WaitsEmpty, InMemory, a2
  <2> QED BY <2>6, <2>7, <2>8 DEF IInv
<1> QED BY <1>9, <1>10 DEF Continue

\* An answer is recorded only, or what is open is cancelled: nothing changes its place.
LEMMA SamePlacesInv ==
    ASSUME IInv, asks' \in Seq(Ask), Len(asks') = Len(asks), SamePlaces(asks, asks'), OpenPending(asks'),
           job' \in JobType, status' = status \/ status' = "cancelled",
           UNCHANGED <<saved, wk, produced, joins, used>>
    PROVE  IInv'
<1>1. saved \in Checkpoint /\ wk.cp \in Checkpoint /\ asks \in Seq(Ask) /\ AsksPlaced(asks) /\ WkType /\ CoreType
      /\ Persisted /\ WaitsEmpty /\ InMemory
  BY WorkerFacts DEF IInv
<1>2. CoreType'
  BY <1>1 DEF CoreType, JobType, Terminal
<1>3. WkType'
  BY <1>1 DEF WkType
<1>4. \A cp \in Checkpoint : /\ Sound(cp, asks, joins) => Sound(cp, asks', joins)
                             /\ Complete(cp, asks, joins) => Complete(cp, asks', joins)
  BY <1>1, SamePlacesSound
<1>5. AsksPlaced(asks')
  BY <1>1, SamePlacesSound
<1>6. Persisted' /\ AsksOpen' /\ WaitsEmpty'
  BY <1>1, <1>4, <1>5 DEF Persisted, AsksOpen, WaitsEmpty, Terminal
<1>7. HasAsked => HasAsked'
  BY DEF HasAsked, SamePlaces
<1>8. AtWork => AtWork'
  BY DEF AtWork
<1>9. InMemory'
  BY <1>1, <1>4, <1>7, <1>8 DEF InMemory, Terminal
<1> QED BY <1>2, <1>3, <1>6, <1>9 DEF IInv

LEMMA DecideInv ==
    ASSUME Nested, IInv, NEW i \in DOMAIN asks, NEW answer \in Decided, Decide(i, answer)
    PROVE  IInv'
<1>1. asks[i].status = "open" /\ asks \in Seq(Ask) /\ OpenPending(asks) /\ asks[i].pending /\ asks[i] \in Ask
  BY WorkerFacts DEF Decide, IsOpen, OpenPending
<1>2. CASE status = "waiting" /\ Continue(i, answer)
  BY <1>1, <1>2, ContinueInv
<1>3. CASE /\ asks' = [asks EXCEPT ![i].status = answer]
           /\ UNCHANGED <<status, job, saved, wk, produced, joins, used>>
  <2> DEFINE y == asks[i]
             x == [y EXCEPT !.status = answer]
  <2>1. asks' = [asks EXCEPT ![i] = x]
    BY <1>3
  <2>2. y \in Ask /\ answer \in AskStatus /\ answer # "open"
    BY <1>1 DEF AskStatus, Decided
  <2> HIDE DEF y
  <2>3. x \in Ask
    BY <2>2, AskStatusField
  <2>4. x.node = y.node /\ x.tokens = y.tokens /\ x.pending = y.pending /\ x.status = answer
    BY <2>2, AskPlaces
  <2> HIDE DEF x
  <2> DEFINE a2 == [asks EXCEPT ![i] = x]
  <2>5. a2 \in Seq(Ask) /\ Len(a2) = Len(asks) /\ OpenPending(a2) /\ (x.pending = asks[i].pending => SamePlaces(asks, a2))
    BY <1>1, <2>2, <2>3, <2>4, ChangeFacts DEF y
  <2>6. job' \in JobType
    BY <1>3 DEF IInv, CoreType, JobType
  <2>7. asks' = a2 /\ SamePlaces(asks, a2)
    BY <2>1, <2>4, <2>5 DEF y
  <2> HIDE DEF a2
  <2> QED BY <1>3, <2>5, <2>6, <2>7, SamePlacesInv
<1> QED BY <1>2, <1>3 DEF Decide

LEMMA SignalInv ==
    ASSUME Nested, IInv, NEW i \in DOMAIN asks, Signal(i)
    PROVE  IInv'
<1>1. asks[i].status = "open" /\ asks \in Seq(Ask) /\ OpenPending(asks) /\ asks[i].pending /\ asks[i] \in Ask
  BY WorkerFacts DEF Signal, IsOpen, OpenPending
<1>2. CASE status = "waiting" /\ Continue(i, "fired")
  BY <1>1, <1>2, ContinueInv
<1>3. CASE /\ asks' = [asks EXCEPT ![i].accepted = TRUE]
           /\ UNCHANGED <<status, job, saved, wk, produced, joins, used>>
  <2> DEFINE y == asks[i]
             x == [y EXCEPT !.accepted = TRUE]
  <2>1. asks' = [asks EXCEPT ![i] = x]
    BY <1>3
  <2>2. y \in Ask /\ y.status = "open" /\ y.pending
    BY <1>1
  <2> HIDE DEF y
  <2>3. x \in Ask
    BY <2>2 DEF Ask
  <2>4. x.node = y.node /\ x.tokens = y.tokens /\ x.pending = y.pending /\ x.status = y.status
    BY <2>2 DEF Ask
  <2> HIDE DEF x
  <2> DEFINE a2 == [asks EXCEPT ![i] = x]
  <2>5. a2 \in Seq(Ask) /\ Len(a2) = Len(asks) /\ OpenPending(a2) /\ (x.pending = asks[i].pending => SamePlaces(asks, a2))
    BY <1>1, <2>2, <2>3, <2>4, ChangeFacts DEF y
  <2>6. job' \in JobType
    BY <1>3 DEF IInv, CoreType, JobType
  <2>7. asks' = a2 /\ SamePlaces(asks, a2)
    BY <2>1, <2>4, <2>5 DEF y
  <2> HIDE DEF a2
  <2> QED BY <1>3, <2>5, <2>6, <2>7, SamePlacesInv
<1> QED BY <1>2, <1>3 DEF Signal

LEMMA AnswerInv ==
    ASSUME Nested, IInv, NEW i \in DOMAIN asks, ReconcileDecision(i) \/ DeliverAccepted(i) \/ FireTimer(i)
    PROVE  IInv'
<1>1. OpenPending(asks)
  BY WorkerFacts
<1>2. CASE ReconcileDecision(i)
  BY <1>2, ContinueInv DEF ReconcileDecision
<1>3. CASE DeliverAccepted(i)
  BY <1>1, <1>3, ContinueInv DEF DeliverAccepted, IsOpen, OpenPending
<1>4. CASE FireTimer(i)
  BY <1>1, <1>4, ContinueInv DEF FireTimer, IsOpen, OpenPending
<1> QED BY <1>2, <1>3, <1>4

LEMMA StopInv ==
    ASSUME IInv, Stop
    PROVE  IInv'
<1>1. job \in JobType /\ asks \in Seq(Ask) /\ OpenPending(asks)
  BY WorkerFacts DEF IInv, CoreType, JobType
<1>2. job' \in JobType
  BY <1>1, JobFacts DEF Stop
<1>3. asks' \in Seq(Ask) /\ Len(asks') = Len(asks) /\ SamePlaces(asks, asks') /\ OpenPending(asks')
  BY <1>1, CancelFacts DEF Stop
<1> QED BY <1>2, <1>3, SamePlacesInv DEF Stop

LEMMA PauseInv ==
    ASSUME IInv, Pause
    PROVE  IInv'
<1>1. job \in JobType /\ used \in UsedType
  BY WorkerFacts DEF IInv, CoreType, JobType
<1>2. job' \in JobType
  BY <1>1, JobFacts DEF Pause
<1>3. used' \in UsedType
  BY <1>1, ParallelAssumption DEF UsedType, Pause
<1>4. CoreType'
  BY <1>2, <1>3 DEF Pause, IInv, CoreType, JobType, UsedType
<1>5. WkType' /\ Persisted' /\ AsksOpen' /\ WaitsEmpty'
  BY DEF Pause, IInv, WkType, Persisted, AsksOpen, WaitsEmpty, Terminal
<1>6. InMemory'
  BY DEF Pause, IInv, InMemory
<1> QED BY <1>4, <1>5, <1>6 DEF IInv

LEMMA ResumeInv ==
    ASSUME IInv, Resume
    PROVE  IInv'
<1>1. job \in JobType /\ status = "blocked" /\ UNCHANGED <<saved, wk, asks, produced, joins, used>>
      /\ status' \in {"queued", "waiting"} /\ (status' = "waiting" => saved.queue = <<>>)
  BY DEF IInv, CoreType, JobType, Resume
<1>2. job' \in JobType
  BY <1>1, ParallelAssumption DEF JobType, Resume
<1>3. CoreType'
  BY <1>1, <1>2 DEF IInv, CoreType, JobType
<1>4. AllRoot(<<>>)
  BY DEF AllRoot
<1>5. WkType' /\ Persisted' /\ AsksOpen' /\ WaitsEmpty'
  BY <1>1, <1>4 DEF IInv, WkType, Persisted, AsksOpen, WaitsEmpty, Terminal
<1>6. InMemory'
  BY <1>1 DEF IInv, InMemory
<1> QED BY <1>3, <1>5, <1>6 DEF IInv

-----------------------------------------------------------------------------
(* The invariant holds of the first state and is kept by every step.       *)

LEMMA InitInv ==
    ASSUME Nested, Init
    PROVE  IInv
<1> DEFINE e == [node |-> StartNode, tokens |-> <<>>, joined |-> NoFrame]
           fr == [f \in Frame |-> [expected |-> {}, arrived |-> {}]]
           sc == [f \in Frame |-> [base |-> {}, branch |-> [n \in Nodes |-> {}]]]
           empty == [queue |-> <<e>>, ctx |-> {}, frames |-> fr, scopes |-> sc]
<1>1. /\ status = "queued" /\ job = [state |-> "queued", attempt |-> 0] /\ saved = empty
      /\ wk = [pc |-> "idle", cp |-> empty, seen |-> {}] /\ asks = <<>> /\ produced = {}
      /\ joins = [f \in Frame |-> 0] /\ used = [crashes |-> 0, errors |-> 0, pauses |-> 0]
  BY DEF Init
<1>2. e \in Entry
  BY ParallelAssumption DEF Entry
<1>3. fr \in Frames /\ \A f \in Frame : fr[f].expected = {} /\ fr[f].arrived = {}
  BY DEF Frames
<1>4. sc \in [Frame -> [base : SUBSET Nodes, branch : [Nodes -> SUBSET Nodes]]]
  OBVIOUS
<1>5. <<e>> \in Seq(Entry) /\ DOMAIN <<e>> = {1} /\ <<e>>[1] = e
  BY <1>2
<1>e. e.tokens = <<>> /\ e.joined = NoFrame /\ e.node = StartNode
  OBVIOUS
<1> HIDE DEF e, fr, sc
<1>6. empty \in Checkpoint /\ empty.queue = <<e>> /\ empty.frames = fr
  BY <1>3, <1>4, <1>5 DEF Checkpoint, Frames
<1> HIDE DEF empty
<1>7. asks \in Seq(Ask) /\ Len(asks) = 0 /\ DOMAIN asks = {}
  BY <1>1
<1>8. joins \in [Frame -> Nat] /\ \A f \in Frame : joins[f] = 0
  BY <1>1
<1>9. Paths(<<e>>, asks) = {}
  BY <1>5, <1>7, <1>e DEF Paths
<1>10. Forest(Paths(<<e>>, asks), fr) /\ Covered(Paths(<<e>>, asks), fr)
  BY <1>3, <1>9 DEF Forest, Live, Agree, Meet, Counted, Covered
<1>11. Placed(<<e>>)
  <2>1. Depth[StartNode] = 0
    BY NestedFacts DEF WellNested
  <2>2. Len(e.tokens) = 0
    BY <1>e
  <2> QED BY <1>5, <1>e, <2>1, <2>2 DEF Placed
<1>12. Single(<<e>>, asks)
  BY <1>5, <1>7 DEF Single
<1>13. \A f \in Frame : ~IsMarked(<<e>>, f) /\ ~Released(empty, f)
  BY <1>3, <1>5, <1>6, <1>e, NoFrameFacts DEF IsMarked, Released, Forked
<1>14. Marks(empty, joins) /\ Once(empty, joins)
  <2>1. MarkedOnce(<<e>>)
    BY <1>5 DEF MarkedOnce
  <2> QED BY <1>6, <1>8, <1>13, <2>1 DEF Marks, Once
<1>15. Persisted
  BY <1>1, <1>6, <1>10, <1>11, <1>12, <1>14 DEF Persisted, Sound, Complete
<1>16. CoreType
  BY <1>1, <1>6, <1>7, <1>8, ParallelAssumption DEF CoreType
<1>17. WkType
  BY <1>1, <1>6 DEF WkType
<1>18. AsksOpen /\ WaitsEmpty /\ InMemory
  BY <1>1, <1>7 DEF AsksOpen, AsksPlaced, OpenPending, WaitsEmpty, InMemory
<1> QED BY <1>15, <1>16, <1>17, <1>18 DEF IInv

LEMMA StutterInv ==
    ASSUME IInv, UNCHANGED vars
    PROVE  IInv'
<1>1. UNCHANGED <<status, job, saved, wk, asks, produced, joins, used>>
  BY DEF vars
<1>2. CoreType' /\ WkType' /\ Persisted' /\ AsksOpen'
  BY <1>1 DEF IInv, CoreType, WkType, Persisted, AsksOpen
<1>3. WaitsEmpty' /\ InMemory'
  BY <1>1 DEF IInv, WaitsEmpty, InMemory, AtWork, HasAsked
<1> QED BY <1>2, <1>3 DEF IInv

LEMMA NextInv ==
    ASSUME Nested, ~Pooled, IInv, [Next]_vars
    PROVE  IInv'
<1>1. CASE Claim
  BY <1>1, ClaimInv
<1>2. CASE SkipRepeated
  BY <1>2, SkipRepeatedInv
<1>3. CASE WaitAtJoin
  BY <1>3, WaitAtJoinInv
<1>4. CASE OpenJoin
  BY <1>4, OpenJoinInv
<1>5. CASE ReuseAsk
  BY <1>5, ReuseAskInv
<1>6. CASE BeginNode
  BY <1>6, BeginNodeInv
<1>7. CASE RunNode
  BY <1>7, RunNodeInv
<1>22. CASE FinishNode
  BY <1>22, FinishNodeInv
<1>8. CASE CreateAsk
  BY <1>8, CreateAskInv
<1>9. CASE RefuseAsk
  BY <1>9, RefuseAskInv
<1>10. CASE LeaveBranch
  BY <1>10, LeaveBranchInv
<1>11. CASE CloseSegment
  BY <1>11, CloseSegmentInv
<1>12. CASE ThrowError
  BY <1>12, ThrowErrorInv
<1>13. CASE Crash
  BY <1>13, CrashInv
<1>14. CASE ReconcileExhausted
  BY <1>14, ReconcileExhaustedInv
<1>15. CASE \E i \in DOMAIN asks : ReconcileDecision(i) \/ DeliverAccepted(i) \/ FireTimer(i)
  BY <1>15, AnswerInv
<1>16. CASE \E i \in DOMAIN asks : \E answer \in Decided : Decide(i, answer)
  BY <1>16, DecideInv
<1>17. CASE \E i \in DOMAIN asks : Signal(i)
  BY <1>17, SignalInv
<1>18. CASE Pause
  BY <1>18, PauseInv
<1>19. CASE Resume
  BY <1>19, ResumeInv
<1>20. CASE Stop
  BY <1>20, StopInv
<1>21. CASE UNCHANGED vars
  BY <1>21, StutterInv
<1> QED
  BY <1>1, <1>2, <1>3, <1>4, <1>5, <1>6, <1>7, <1>8, <1>9, <1>10, <1>11, <1>12, <1>13, <1>14,
     <1>15, <1>16, <1>17, <1>18, <1>19, <1>20, <1>21, <1>22 DEF Next, WorkerStep, Reconcile

-----------------------------------------------------------------------------
(* What the invariant says of the run.                                     *)

LEMMA CarriedInv ==
    ASSUME IInv
    PROVE  BranchesCarried
<1> SUFFICES ASSUME status \notin Terminal, NEW f \in Frame,
                    NEW b \in saved.frames[f].expected \ saved.frames[f].arrived
             PROVE  Carried(saved, [frame |-> f, branch |-> b])
  BY DEF BranchesCarried
<1>1. saved \in Checkpoint /\ saved.queue \in Seq(Entry) /\ asks \in Seq(Ask)
  BY WorkerFacts, CheckpointFacts
<1>2. Covered(Paths(saved.queue, asks), saved.frames)
  BY DEF IInv, Persisted, Complete
<1>3. PICK s \in Paths(saved.queue, asks) : \E p \in DOMAIN s : s[p] = [frame |-> f, branch |-> b]
  BY <1>2 DEF Covered
<1>4. HeldBy(s, saved.queue, asks)
  BY <1>1, <1>3, PathsOf
<1> QED BY <1>3, <1>4 DEF Carried, Holds, HeldBy

\* What JoinRunsOnce says of the checkpoints that follow a join.
MarkedOrCounted == \A f \in Frame :
    LET marked == {i \in DOMAIN saved.queue : saved.queue[i].joined = f}
    IN  /\ \A i, k \in marked : i = k
        /\ Released(saved, f) /\ status \notin Terminal =>
              (joins[f] = 0 <=> marked # {}) /\ joins[f] <= 1

LEMMA OnceInv ==
    ASSUME IInv
    PROVE  MarkedOrCounted
<1>1. Marks(saved, joins) /\ (status \notin Terminal => Once(saved, joins))
  BY DEF IInv, Persisted, Sound, Complete
<1> SUFFICES ASSUME NEW f \in Frame
             PROVE  LET marked == {i \in DOMAIN saved.queue : saved.queue[i].joined = f}
                    IN  /\ \A i, k \in marked : i = k
                        /\ Released(saved, f) /\ status \notin Terminal =>
                              (joins[f] = 0 <=> marked # {}) /\ joins[f] <= 1
  BY DEF MarkedOrCounted
<1> DEFINE marked == {i \in DOMAIN saved.queue : saved.queue[i].joined = f}
<1>2. \A i, k \in marked : i = k
  BY <1>1 DEF Marks, MarkedOnce
<1>3. marked # {} <=> IsMarked(saved.queue, f)
  BY DEF IsMarked
<1> HIDE DEF marked
<1>4. Released(saved, f) /\ status \notin Terminal => (joins[f] = 0 <=> marked # {}) /\ joins[f] <= 1
  BY <1>1, <1>3 DEF Once
<1> QED BY <1>2, <1>4 DEF marked

LEMMA NothingLeftInv ==
    ASSUME IInv
    PROVE  JoinLeavesNothing
<1>1. saved \in Checkpoint /\ saved.queue \in Seq(Entry) /\ asks \in Seq(Ask)
  BY WorkerFacts, CheckpointFacts
<1>2. Marks(saved, joins) /\ Live(Paths(saved.queue, asks), saved.frames)
  BY DEF IInv, Persisted, Sound, Forest
<1> SUFFICES ASSUME NEW f \in Frame, joins[f] > 0 \/ (\E i \in DOMAIN saved.queue : saved.queue[i].joined = f)
             PROVE  /\ saved.frames[f].arrived = saved.frames[f].expected
                    /\ \A i \in DOMAIN saved.queue : ~InFrame(saved.queue[i].tokens, f)
                    /\ \A i \in DOMAIN asks : asks[i].pending => ~InFrame(asks[i].tokens, f)
  BY DEF JoinLeavesNothing
<1>3. saved.frames[f].arrived = saved.frames[f].expected
  BY <1>2 DEF Marks, IsMarked, Released
<1>4. \A s \in Seq(BranchToken) : HeldBy(s, saved.queue, asks) => ~InFrame(s, f)
  <2> SUFFICES ASSUME NEW s \in Seq(BranchToken), HeldBy(s, saved.queue, asks), NEW p \in DOMAIN s, s[p].frame = f
               PROVE  FALSE
    BY DEF InFrame
  <2>1. s # <<>>
    OBVIOUS
  <2>2. s \in Paths(saved.queue, asks)
    BY <1>1, <2>1, PathsOf
  <2> QED BY <1>2, <1>3, <2>2 DEF Live
<1>5. \A i \in DOMAIN saved.queue : saved.queue[i].tokens \in Seq(BranchToken)
  BY <1>1, EntryFacts
<1>6. \A i \in DOMAIN asks : asks[i].tokens \in Seq(BranchToken)
  <2>1. \A i \in DOMAIN asks : asks[i] \in Ask
    BY <1>1
  <2> QED BY <2>1 DEF Ask
<1> QED BY <1>3, <1>4, <1>5, <1>6 DEF HeldBy

-----------------------------------------------------------------------------
(* What the outputs gathered in contexts and scopes rest on.               *)

LateSplits == \E late \in SUBSET Nodes : SplitsLate(late)
Late == CHOOSE late \in SUBSET Nodes : SplitsLate(late)

\* Outside all frames: one entry or its ask, until the way splits late; and never beside a frame.
LatePlain(e) == RootPlain(e) /\ e.node \in Late
AllLate(q) == \A i \in DOMAIN q : LatePlain(q[i])
RootLate(q, a) ==
    /\ \A i \in DOMAIN q : q[i].tokens = <<>> => LatePlain(q[i])
    /\ \A k \in DOMAIN a : a[k].pending /\ a[k].tokens = <<>> => a[k].node \in Late
RootSingle(q, a) ==
    /\ \A i, k \in DOMAIN q : q[i].tokens = <<>> /\ q[k].tokens = <<>> => i = k
    /\ \A i, k \in DOMAIN a : a[i].pending /\ a[k].pending /\ a[i].tokens = <<>> /\ a[k].tokens = <<>> => i = k
    /\ \A i \in DOMAIN q, k \in DOMAIN a : q[i].tokens = <<>> /\ a[k].pending /\ a[k].tokens = <<>> =>
          q[i].node = a[k].node
Rooted(q, a) ==
    /\ HeldBy(<<>>, q, a) => Paths(q, a) = {}
    /\ \A s, z \in Paths(q, a) : s[1].frame = z[1].frame
    /\ RootLate(q, a) \/ RootSingle(q, a)

Open(cp, f) == Forked(cp, f) /\ ~Released(cp, f)
Scope(cp, t) == cp.scopes[t.frame].branch[t.branch]

\* A frame starts from what its parent's branch held, and that scope rests while it is open.
Based(P, cp) == \A s \in P : \A p \in 1..(Len(s) - 1) :
    Scope(cp, s[p]) \subseteq cp.scopes[s[p + 1].frame].base

\* The merge of a released frame goes on from what its path held.
Homed(e, cp) == e.joined \in Frame =>
    IF e.tokens = <<>> THEN cp.ctx \subseteq Merge(cp, e.joined)
    ELSE Scope(cp, LastToken(e.tokens)) \subseteq Merge(cp, e.joined)

\* A node's output is in the context at hand, or will be merged by an open frame.
Collected(n, cp) == \/ n \in cp.ctx /\ \A f \in Frame : ~Open(cp, f)
                    \/ \E f \in Frame : Open(cp, f) /\ n \in Merge(cp, f)

Gathered(cp, a, prod) ==
    /\ Based(Paths(cp.queue, a), cp)
    /\ \A i \in DOMAIN cp.queue : Homed(cp.queue[i], cp)
    /\ \A n \in prod : Collected(n, cp)

Kept(cp, a, prod) == Rooted(cp.queue, a) /\ Gathered(cp, a, prod)

\* After an entry outside all frames only what it led to is queued.
PastRoot(cp, seen, busy) == \A K \in seen : K[2] = <<>> /\ K[1] \notin Late =>
    \A i \in DOMAIN cp.queue : \/ Rank[cp.queue[i].node] > Rank[K[1]]
                               \/ i = 1 /\ busy /\ Rank[cp.queue[i].node] >= Rank[K[1]]

\* The path at work has saved what is at hand.
AtHand(cp) == cp.queue[1].tokens # <<>> => Scope(cp, LastToken(cp.queue[1].tokens)) = cp.ctx

LeftLate(q, z) == \A i \in DOMAIN q : LatePlain(q[i]) \/ \E k \in DOMAIN z : z[k] = q[i]

GatheredSaved == status \notin Terminal => Kept(saved, asks, produced)
GatheredInMemory == status = "running" /\ wk.pc # "idle" =>
    /\ Kept(wk.cp, asks, produced) /\ LeftLate(saved.queue, wk.cp.queue)
    /\ PastRoot(wk.cp, wk.seen, wk.pc # "head")
    /\ wk.pc \in {"work", "done", "asked"} => AtHand(wk.cp)
WaitsLate == status = "waiting" => AllLate(saved.queue)

\* What a checkpoint or an answer recorded is in the context of a successful run.
ProducedMerged == status = "success" => produced \subseteq saved.ctx

GatherInv == GatheredSaved /\ GatheredInMemory /\ WaitsLate /\ ProducedMerged

LEMMA LateFacts ==
    ASSUME LateSplits
    PROVE  Late \in SUBSET Nodes /\ SplitsLate(Late)
BY DEF LateSplits, Late

LEMMA PathOpen ==
    ASSUME NEW cp \in Checkpoint, NEW P \in SUBSET Path, Forest(P, cp.frames), NEW s \in P, NEW p \in DOMAIN s
    PROVE  Open(cp, s[p].frame) /\ s[p].frame \in Frame /\ s[p].branch \in Nodes
           /\ s[p].branch \in cp.frames[s[p].frame].expected
<1>1. s[p].branch \in cp.frames[s[p].frame].expected \ cp.frames[s[p].frame].arrived
  BY DEF Forest, Live
<1>2. s[p].frame \in Frame /\ s[p].branch \in Nodes
  BY PathFacts
<1> QED BY <1>1, <1>2 DEF Open, Forked, Released

LEMMA SomeOpen ==
    ASSUME NEW cp \in Checkpoint, NEW P \in SUBSET Path, Forest(P, cp.frames), NEW s \in P
    PROVE  \E f \in Frame : Open(cp, f)
<1> DEFINE t == s[1]
<1>1. 1 \in DOMAIN s
  BY PathFacts
<1>2. Open(cp, t.frame) /\ t.frame \in Frame
  BY <1>1, PathOpen
<1> HIDE DEF t
<1> QED BY <1>2

LEMMA NoneOpen ==
    ASSUME NEW cp \in Checkpoint, Counted(cp.frames), Covered({}, cp.frames), NEW f \in Frame
    PROVE  ~Open(cp, f)
<1>1. cp.frames[f].expected \in SUBSET Nodes /\ cp.frames[f].arrived \subseteq cp.frames[f].expected
  BY CheckpointFacts DEF Frames, Counted
<1>2. cp.frames[f].expected \ cp.frames[f].arrived = {}
  BY DEF Covered
<1> QED BY <1>1, <1>2 DEF Open, Forked, Released

\* Who holds the last token of a path is on this path.
LEMMA TipFacts ==
    ASSUME NEW P \in SUBSET Path, NEW fr, Forest(P, fr), NEW s \in P, NEW z \in P
    PROVE  /\ \A p \in 1..(Len(z) - 1) : z[p] # LastToken(s)
           /\ LastToken(z) = LastToken(s) => z = s
<1>1. Len(z) \in Nat \ {0} /\ DOMAIN z = 1..Len(z) /\ LastToken(z) = z[Len(z)]
  BY PathFacts
<1>2. \A q \in DOMAIN z : z[q] = LastToken(s) => z = s /\ q = Len(s)
  BY OnlyHolder DEF Forest
<1> QED BY <1>1, <1>2

-----------------------------------------------------------------------------
(* What is outside all frames.                                             *)

LEMMA TailRooted ==
    ASSUME NEW q \in Seq(Entry), NEW a \in Seq(Ask), q # <<>>, Rooted(q, a)
    PROVE  Rooted(Tail(q), a) /\ Paths(Tail(q), a) \subseteq Paths(q, a)
<1>1. \A i \in DOMAIN Tail(q) : i + 1 \in DOMAIN q /\ Tail(q)[i] = q[i + 1]
  BY TailFacts
<1>2. \A s : HeldBy(s, Tail(q), a) => HeldBy(s, q, a)
  BY <1>1 DEF HeldBy
<1>3. Tail(q) \in Seq(Entry)
  BY TailFacts
<1>4. Paths(Tail(q), a) \subseteq Paths(q, a)
  BY <1>2, <1>3, PathsOf
<1>5. RootLate(q, a) => RootLate(Tail(q), a)
  BY <1>1 DEF RootLate
<1>6. RootSingle(q, a) => RootSingle(Tail(q), a)
  <2> SUFFICES ASSUME RootSingle(q, a)
               PROVE  RootSingle(Tail(q), a)
    OBVIOUS
  <2>1. \A i, k \in DOMAIN Tail(q) : Tail(q)[i].tokens = <<>> /\ Tail(q)[k].tokens = <<>> => i = k
    <3> SUFFICES ASSUME NEW i \in DOMAIN Tail(q), NEW k \in DOMAIN Tail(q),
                        Tail(q)[i].tokens = <<>>, Tail(q)[k].tokens = <<>>
                 PROVE  i = k
      OBVIOUS
    <3>1. i + 1 = k + 1
      BY <1>1 DEF RootSingle
    <3>2. i \in Nat /\ k \in Nat
      BY <1>3
    <3> QED BY <3>1, <3>2
  <2>2. \A i \in DOMAIN Tail(q), k \in DOMAIN a : Tail(q)[i].tokens = <<>> /\ a[k].pending /\ a[k].tokens = <<>> =>
          Tail(q)[i].node = a[k].node
    BY <1>1 DEF RootSingle
  <2> QED BY <2>1, <2>2 DEF RootSingle
<1> QED BY <1>2, <1>4, <1>5, <1>6 DEF Rooted

\* Nobody but late entries is beside the path s outside all frames, and all paths share a frame.
Vacant(q, a, s, n) ==
    /\ s # <<>> => ~HeldBy(<<>>, q, a) /\ \A z \in Paths(q, a) : z[1].frame = s[1].frame
    /\ s = <<>> => /\ Paths(q, a) = {}
                   /\ n \in Late => RootLate(q, a)
                   /\ n \notin Late => ~HeldBy(<<>>, q, a)

LEMMA HeadVacant ==
    ASSUME NEW q \in Seq(Entry), NEW a \in Seq(Ask), q # <<>>, Rooted(q, a), AsksPlaced(a),
           Kind[q[1].node] \notin Human
    PROVE  Vacant(Tail(q), a, q[1].tokens, q[1].node)
<1> DEFINE e == q[1]
<1>1. 1 \in DOMAIN q /\ \A i \in DOMAIN Tail(q) : i + 1 \in DOMAIN q /\ i + 1 # 1 /\ Tail(q)[i] = q[i + 1]
  BY TailFacts
<1>2. Rooted(Tail(q), a) /\ Paths(Tail(q), a) \subseteq Paths(q, a)
  BY TailRooted
<1>3. \A s : HeldBy(s, Tail(q), a) => HeldBy(s, q, a)
  BY <1>1 DEF HeldBy
<1>4. HeldBy(e.tokens, q, a)
  BY <1>1 DEF HeldBy
<1>5. CASE e.tokens # <<>>
  <2>1. e.tokens \in Paths(q, a)
    BY <1>4, <1>5, PathsOf
  <2> QED BY <1>2, <1>3, <1>5, <2>1 DEF Vacant, Rooted
<1>6. CASE e.tokens = <<>>
  <2>1. Paths(q, a) = {}
    BY <1>4, <1>6 DEF Rooted
  <2>2. CASE RootLate(q, a)
    <3>1. e.node \in Late
      BY <1>1, <1>6, <2>2 DEF RootLate, LatePlain
    <3>2. RootLate(Tail(q), a)
      BY <1>1, <2>2 DEF RootLate
    <3> QED BY <1>2, <1>6, <2>1, <3>1, <3>2 DEF Vacant
  <2>3. CASE RootSingle(q, a)
    <3>1. \A i \in DOMAIN Tail(q) : Tail(q)[i].tokens # <<>>
      BY <1>1, <1>6, <2>3 DEF RootSingle
    <3>2. \A k \in DOMAIN a : a[k].pending => a[k].tokens # <<>>
      BY <1>1, <1>6, <2>3 DEF RootSingle, AsksPlaced
    <3>3. RootLate(Tail(q), a) /\ ~HeldBy(<<>>, Tail(q), a)
      BY <3>1, <3>2 DEF RootLate, HeldBy
    <3> QED BY <1>2, <1>6, <2>1, <3>3 DEF Vacant
  <2> QED BY <2>2, <2>3 DEF Rooted
<1> QED BY <1>5, <1>6

LEMMA AskVacant ==
    ASSUME NEW q \in Seq(Entry), NEW a \in Seq(Ask), NEW a2 \in Seq(Ask), NEW q2 \in Seq(Entry), Rooted(q, a),
           AllLate(q), AllLate(q2), q2 = <<>> \/ q # <<>>, NEW i \in DOMAIN a, a[i].pending, Answered(a, a2, i)
    PROVE  Vacant(q2, a2, a[i].tokens, a[i].node) /\ Rooted(q2, a2) /\ Paths(q2, a2) \subseteq Paths(q, a)
<1> DEFINE s == a[i].tokens
<1>1. /\ DOMAIN a2 = DOMAIN a
      /\ \A k \in DOMAIN a : a2[k].node = a[k].node /\ a2[k].tokens = a[k].tokens
      /\ \A k \in DOMAIN a : a2[k].pending => a[k].pending /\ k # i
  BY DEF Answered
<1>2. \A k \in DOMAIN q2 : q2[k].tokens = <<>>
  BY DEF AllLate, LatePlain, RootPlain
<1>3. HeldBy(s, q, a)
  BY DEF HeldBy
<1>4. \A z : z # <<>> /\ HeldBy(z, q2, a2) => HeldBy(z, q, a)
  BY <1>1, <1>2 DEF HeldBy
<1>5. Paths(q2, a2) \subseteq Paths(q, a)
  BY <1>4, PathsOf
<1>6. q # <<>> => HeldBy(<<>>, q, a)
  <2> SUFFICES ASSUME q # <<>>
               PROVE  HeldBy(<<>>, q, a)
    OBVIOUS
  <2>1. 1 \in DOMAIN q
    BY TailFacts
  <2>2. q[1].tokens = <<>>
    BY <2>1 DEF AllLate, LatePlain, RootPlain
  <2> QED BY <2>1, <2>2 DEF HeldBy
<1>7. HeldBy(<<>>, q2, a2) => HeldBy(<<>>, q, a)
  <2>1. CASE q2 = <<>>
    <3>1. DOMAIN q2 = {}
      BY <2>1
    <3> QED BY <1>1, <3>1 DEF HeldBy
  <2> QED BY <1>6, <2>1
<1>8. RootLate(q, a) => RootLate(q2, a2)
  BY <1>1 DEF RootLate, AllLate
<1>9. s # <<>> => s \in Paths(q, a) /\ ~HeldBy(<<>>, q, a) /\ ~HeldBy(<<>>, q2, a2)
  <2>1. s # <<>> => s \in Paths(q, a)
    BY <1>3, PathsOf
  <2>2. s # <<>> => ~HeldBy(<<>>, q, a)
    BY <2>1 DEF Rooted
  <2> QED BY <1>7, <2>1, <2>2
<1>10. s = <<>> => Paths(q, a) = {}
  BY <1>3 DEF Rooted
<1>11. RootSingle(q, a) /\ s = <<>> => \A k \in DOMAIN a2 : a2[k].pending => a2[k].tokens # <<>>
  BY <1>1 DEF RootSingle
<1>12. RootLate(q2, a2)
  <2>1. CASE s # <<>>
    BY <1>9, <2>1 DEF RootLate, HeldBy
  <2>2. CASE s = <<>> /\ RootSingle(q, a)
    BY <1>11, <2>2 DEF RootLate, AllLate
  <2> QED BY <1>8, <2>1, <2>2 DEF Rooted
<1>13. Rooted(q2, a2)
  <2>1. HeldBy(<<>>, q2, a2) => Paths(q2, a2) = {}
    BY <1>5, <1>7 DEF Rooted
  <2>2. \A y, z \in Paths(q2, a2) : y[1].frame = z[1].frame
    BY <1>5 DEF Rooted
  <2> QED BY <1>12, <2>1, <2>2 DEF Rooted
<1>14. s = <<>> /\ a[i].node \notin Late => ~HeldBy(<<>>, q2, a2)
  <2> SUFFICES ASSUME s = <<>>, a[i].node \notin Late
               PROVE  ~HeldBy(<<>>, q2, a2)
    OBVIOUS
  <2>1. ~RootLate(q, a)
    BY DEF RootLate
  <2>2. RootSingle(q, a)
    BY <2>1 DEF Rooted
  <2>3. DOMAIN q = {}
    <3>1. \A k \in DOMAIN q : q[k].node \in Late /\ q[k].tokens = <<>>
      BY DEF AllLate, LatePlain, RootPlain
    <3>2. \A k \in DOMAIN q : q[k].node = a[i].node
      BY <2>2, <3>1 DEF RootSingle
    <3> QED BY <3>1, <3>2
  <2>4. q = <<>>
    BY <2>3, TailFacts
  <2>5. DOMAIN q2 = {}
    BY <2>4
  <2> QED BY <2>2, <2>5, <1>11 DEF HeldBy
<1>15. Vacant(q2, a2, s, a[i].node)
  <2>1. CASE s # <<>>
    <3>1. \A z \in Paths(q2, a2) : z[1].frame = s[1].frame
      BY <1>5, <1>9, <2>1 DEF Rooted
    <3> QED BY <1>9, <2>1, <3>1 DEF Vacant
  <2>2. CASE s = <<>>
    BY <1>5, <1>10, <1>12, <1>14, <2>2 DEF Vacant
  <2> QED BY <2>1, <2>2
<1> QED BY <1>5, <1>13, <1>15

LEMMA SamePlacesRooted ==
    ASSUME NEW q \in Seq(Entry), NEW a \in Seq(Ask), NEW a2 \in Seq(Ask), SamePlaces(a, a2)
    PROVE  Paths(q, a2) = Paths(q, a) /\ (Rooted(q, a) => Rooted(q, a2))
<1>1. \A z : HeldBy(z, q, a2) <=> HeldBy(z, q, a)
  BY DEF HeldBy, SamePlaces
<1>2. Paths(q, a2) = Paths(q, a)
  BY <1>1, PathsOf
<1>3. RootLate(q, a) => RootLate(q, a2)
  BY DEF RootLate, SamePlaces
<1>4. RootSingle(q, a) => RootSingle(q, a2)
  BY DEF RootSingle, SamePlaces
<1> QED BY <1>1, <1>2, <1>3, <1>4 DEF Rooted

\* Successors take over the path of their predecessor.
LEMMA SuccessorsRooted ==
    ASSUME LateSplits, ParallelAssumption, NEW q \in Seq(Entry), NEW a \in Seq(Ask), Rooted(q, a), NEW n \in Nodes,
           Kind[n] # "router", NEW next \in Routes[n], NEW s \in Seq(BranchToken), Vacant(q, a, s, n)
    PROVE  Rooted(q \o Successors(next, s), a)
<1> DEFINE r == Successors(next, s)
           q2 == q \o r
<1>1. next \in Seq(Nodes)
  BY DEF ParallelAssumption
<1>2. /\ r \in Seq(Entry) /\ DOMAIN r = 1..Len(next) /\ Len(next) \in Nat
      /\ \A i \in DOMAIN r : r[i].node = next[i] /\ r[i].tokens = s /\ r[i].joined = NoFrame
  BY <1>1, SuccessorFacts
<1>3. DOMAIN next = 1..Len(next)
  BY <1>1
<1> HIDE DEF r
<1>4. /\ q2 \in Seq(Entry) /\ Len(q) \in Nat
      /\ \A i \in DOMAIN q2 : \/ i \in DOMAIN q /\ q2[i] = q[i]
                              \/ i - Len(q) \in DOMAIN r /\ q2[i] = r[i - Len(q)]
      /\ DOMAIN q2 = 1..(Len(q) + Len(r)) /\ Len(r) \in Nat
  BY <1>2, AppendFacts
<1> HIDE DEF q2
<1>5. \A z : HeldBy(z, q2, a) => HeldBy(z, q, a) \/ z = s
  BY <1>2, <1>4 DEF HeldBy
<1>6. Paths(q2, a) \subseteq Paths(q, a) \cup ({s} \ {<<>>})
  BY <1>4, <1>5, PathsOf
<1>7. CASE s # <<>>
  <2>1. ~HeldBy(<<>>, q2, a)
    BY <1>5, <1>7 DEF Vacant
  <2>2. \A z \in Paths(q2, a) : z[1].frame = s[1].frame
    BY <1>6, <1>7 DEF Vacant
  <2>3. RootLate(q2, a)
    BY <2>1 DEF RootLate, HeldBy
  <2>4. Rooted(q2, a)
    BY <2>1, <2>2, <2>3 DEF Rooted
  <2> QED BY <2>4 DEF q2, r
<1>8. CASE s = <<>>
  <2>1. Paths(q2, a) = {}
    BY <1>6, <1>8 DEF Vacant
  <2>2. n \in Late \/ Len(next) > 1 => \A i \in DOMAIN r : LatePlain(r[i])
    <3>1. SplitsLate(Late)
      BY LateFacts
    <3>2. n \in Late \/ Len(next) > 1 => \A i \in DOMAIN next : next[i] \in Late
      BY <3>1 DEF SplitsLate
    <3> QED BY <1>2, <1>3, <1>8, <3>2 DEF LatePlain, RootPlain
  <2>3. n \in Late => RootLate(q, a)
    BY <1>8 DEF Vacant
  <2>4. n \notin Late => RootLate(q, a) /\ ~HeldBy(<<>>, q, a)
    BY <1>8 DEF Vacant, RootLate, HeldBy
  <2>5. n \in Late \/ Len(next) > 1 => RootLate(q2, a)
    BY <1>4, <2>2, <2>3, <2>4 DEF RootLate
  <2>6. ASSUME n \notin Late, ~(Len(next) > 1)
        PROVE  RootSingle(q2, a)
    <3>1. \A i \in DOMAIN q : q[i].tokens # <<>>
      BY <2>4, <2>6 DEF HeldBy
    <3>2. \A i \in DOMAIN q2 : q2[i].tokens = <<>> => i - Len(q) = 1
      <4> SUFFICES ASSUME NEW i \in DOMAIN q2, q2[i].tokens = <<>>
                   PROVE  i - Len(q) = 1
        OBVIOUS
      <4>1. i - Len(q) \in 1..Len(next)
        BY <1>2, <1>4, <3>1
      <4> QED BY <4>1, <2>6, <1>2
    <3>3. \A i, k \in DOMAIN q2 : q2[i].tokens = <<>> /\ q2[k].tokens = <<>> => i = k
      BY <1>4, <3>2
    <3>4. \A k \in DOMAIN a : a[k].pending => a[k].tokens # <<>>
      BY <2>4, <2>6 DEF HeldBy
    <3> QED BY <3>3, <3>4 DEF RootSingle
  <2>7. Rooted(q2, a)
    BY <2>1, <2>5, <2>6 DEF Rooted
  <2> QED BY <2>7 DEF q2, r
<1> QED BY <1>7, <1>8

\* A router's branches go on inside the frame it opens.
LEMMA ForkRooted ==
    ASSUME LateSplits, NEW q \in Seq(Entry), NEW a \in Seq(Ask), Rooted(q, a), NEW n \in Nodes,
           Kind[n] = "router", NEW next \in Seq(Nodes), NEW s \in Seq(BranchToken), Vacant(q, a, s, n),
           NEW f \in Frame
    PROVE  Rooted(q \o BranchEntries(next, s, f), a)
<1> DEFINE r == BranchEntries(next, s, f)
           q2 == q \o r
           g == IF s = <<>> THEN f ELSE s[1].frame
<1>1. r \in Seq(Entry) /\ \A i \in DOMAIN r : r[i].tokens # <<>> /\ r[i].tokens[1].frame = g
  <2>1. /\ r \in Seq(Entry)
        /\ \A i \in DOMAIN r : /\ r[i].tokens # <<>> /\ r[i].tokens[Len(s) + 1].frame = f
                               /\ \A p \in 1..Len(s) : r[i].tokens[p] = s[p]
    BY BranchFacts
  <2>2. s = <<>> => Len(s) + 1 = 1
    OBVIOUS
  <2>3. s # <<>> => 1 \in 1..Len(s)
    OBVIOUS
  <2> HIDE DEF r
  <2> QED BY <2>1, <2>2, <2>3
<1> HIDE DEF r, g
<1>2. n \notin Late
  BY LateFacts DEF SplitsLate
<1>3. ~HeldBy(<<>>, q, a) /\ \A z \in Paths(q, a) : z[1].frame = g
  <2>1. s = <<>> => ~HeldBy(<<>>, q, a) /\ Paths(q, a) = {}
    BY <1>2 DEF Vacant
  <2>2. s # <<>> => ~HeldBy(<<>>, q, a) /\ \A z \in Paths(q, a) : z[1].frame = s[1].frame
    BY DEF Vacant
  <2> QED BY <2>1, <2>2 DEF g
<1>4. q2 \in Seq(Entry) /\ \A i \in DOMAIN q2 : \/ i \in DOMAIN q /\ q2[i] = q[i]
                                                \/ i - Len(q) \in DOMAIN r /\ q2[i] = r[i - Len(q)]
  BY <1>1, AppendFacts
<1> HIDE DEF q2
<1>5. \A z : HeldBy(z, q2, a) => HeldBy(z, q, a) \/ (z # <<>> /\ z[1].frame = g)
  BY <1>1, <1>4 DEF HeldBy
<1>6. ~HeldBy(<<>>, q2, a) /\ \A z \in Paths(q2, a) : z[1].frame = g
  BY <1>3, <1>4, <1>5, PathsOf
<1>7. RootLate(q2, a)
  BY <1>6 DEF RootLate, HeldBy
<1> QED BY <1>6, <1>7 DEF Rooted, r, q2

\* The last branch of the outermost frame is the only path left.
LEMMA LastOutside ==
    ASSUME NEW P \in SUBSET Path, NEW fr, Forest(P, fr), \A y, z \in P : y[1].frame = z[1].frame,
           NEW s \in P, Parent(s) = <<>>,
           fr[LastToken(s).frame].expected \ fr[LastToken(s).frame].arrived \subseteq {LastToken(s).branch}
    PROVE  P = {s}
<1>1. Len(s) = 1 /\ LastToken(s) = s[1] /\ s[1] \in BranchToken
  BY PathFacts
<1>2. \A z \in P : 1 \in DOMAIN z /\ z[1] \in BranchToken
  BY PathFacts
<1>3. \A z \in P : z[1] = s[1]
  <2> SUFFICES ASSUME NEW z \in P
               PROVE  z[1] = s[1]
    OBVIOUS
  <2>1. z[1].frame = s[1].frame
    OBVIOUS
  <2>2. z[1].branch \in fr[z[1].frame].expected \ fr[z[1].frame].arrived
    BY <1>2 DEF Forest, Live
  <2>3. z[1].branch = s[1].branch
    BY <1>1, <2>1, <2>2
  <2> QED BY <1>1, <1>2, <2>1, <2>3 DEF BranchToken
<1>4. \A z \in P : z = s
  BY <1>1, <1>2, <1>3, OnlyHolder DEF Forest
<1> QED BY <1>4

\* The marked join goes on above the frame.
LEMMA OpenRooted ==
    ASSUME NEW q \in Seq(Entry), NEW a \in Seq(Ask), q # <<>>, Rooted(q, a), NEW s \in Seq(BranchToken),
           s = q[1].tokens, s # <<>>, NEW x \in Entry, x.tokens = Parent(s),
           Parent(s) = <<>> => Paths(Tail(q), a) = {}
    PROVE  Rooted(<<x>> \o Tail(q), a)
<1> DEFINE q2 == <<x>> \o Tail(q)
<1>0. /\ Tail(q) \in Seq(Entry) /\ 1 \in DOMAIN q
      /\ \A i \in DOMAIN Tail(q) : i + 1 \in DOMAIN q /\ Tail(q)[i] = q[i + 1]
  BY TailFacts
<1>1. s \in Paths(q, a) /\ ~HeldBy(<<>>, q, a)
  <2>1. HeldBy(s, q, a)
    BY <1>0 DEF HeldBy
  <2>2. s \in Paths(q, a)
    BY <2>1, PathsOf
  <2> QED BY <2>2 DEF Rooted
<1>2. /\ q2 \in Seq(Entry)
      /\ \A i \in DOMAIN q2 : \/ i = 1 /\ q2[i] = x
                              \/ i # 1 /\ i - 1 \in DOMAIN Tail(q) /\ q2[i] = Tail(q)[i - 1]
      /\ Paths(q2, a) = Paths(Tail(q), a) \cup ({x.tokens} \ {<<>>})
  <2> DEFINE z == Tail(q)
  <2>1. z \in Seq(Entry)
    BY <1>0
  <2> HIDE DEF z
  <2>2. q2 = <<x>> \o z
    BY DEF z
  <2> HIDE DEF q2
  <2>3. q2 \in Seq(Entry) /\ Paths(q2, a) = Paths(z, a) \cup ({x.tokens} \ {<<>>})
    BY <2>1, <2>2, PrependQueue
  <2>4. \A i \in DOMAIN q2 : \/ i = 1 /\ q2[i] = x
                             \/ i # 1 /\ i - 1 \in DOMAIN z /\ q2[i] = z[i - 1]
    BY <2>1, <2>2, PrependQueue
  <2> QED BY <2>3, <2>4 DEF z
<1> HIDE DEF q2
<1>3. ~HeldBy(<<>>, Tail(q), a) /\ Paths(Tail(q), a) \subseteq Paths(q, a)
  <2>1. \A z : HeldBy(z, Tail(q), a) => HeldBy(z, q, a)
    BY <1>0 DEF HeldBy
  <2> QED BY <1>1, TailRooted, <2>1
<1>4. CASE Parent(s) # <<>>
  <2>1. Parent(s)[1] = s[1]
    <3>1. s \in Path
      BY DEF Path
    <3>2. Len(s) \in Nat \ {0} /\ Len(s) # 1
      BY <1>4, <3>1, PathFacts
    <3>3. Parent(s) = <<>> <=> Len(s) = 1
      BY <3>1, PathFacts
    <3>4. 1 \in 1..(Len(s) - 1)
      <4> DEFINE n == Len(s)
      <4>1. n \in Nat /\ n # 0 /\ n # 1
        BY <1>4, <3>2, <3>3
      <4> HIDE DEF n
      <4>2. 1 \in 1..(n - 1)
        BY <4>1
      <4> QED BY <4>2 DEF n
    <3> QED BY <3>1, <3>4, PathFacts
  <2>2. \A z \in Paths(q2, a) : z[1].frame = s[1].frame
    BY <1>1, <1>2, <1>3, <2>1 DEF Rooted
  <2>3. ~HeldBy(<<>>, q2, a)
    BY <1>2, <1>3, <1>4 DEF HeldBy
  <2>4. RootLate(q2, a)
    BY <2>3 DEF RootLate, HeldBy
  <2> QED BY <2>2, <2>3, <2>4 DEF Rooted, q2
<1>5. CASE Parent(s) = <<>>
  <2>1. Paths(q2, a) = {}
    BY <1>2, <1>5
  <2>2. \A i \in DOMAIN q2 : q2[i].tokens = <<>> => i = 1
    BY <1>2, <1>3 DEF HeldBy
  <2>3. RootSingle(q2, a)
    BY <1>3, <2>2 DEF RootSingle, HeldBy
  <2> QED BY <2>1, <2>3 DEF Rooted, q2
<1> QED BY <1>4, <1>5

\* A task or wait is recorded for the entry at work.
LEMMA CreateRooted ==
    ASSUME NEW q \in Seq(Entry), NEW a \in Seq(Ask), q # <<>>, Rooted(q, a), NEW x \in Ask,
           x.node = q[1].node, x.tokens = q[1].tokens, ~IsAsked(a, x.node, x.tokens)
    PROVE  Rooted(q, Append(a, x)) /\ Paths(q, Append(a, x)) = Paths(q, a)
<1> DEFINE b == Append(a, x)
<1>1. /\ b \in Seq(Ask) /\ \A k \in DOMAIN a : k \in DOMAIN b /\ b[k] = a[k]
      /\ \A k \in DOMAIN b : \/ k \in DOMAIN a /\ b[k] = a[k]
                             \/ k = Len(a) + 1 /\ b[k] = x
  BY AppendProperties
<1> HIDE DEF b
<1>2. 1 \in DOMAIN q
  BY TailFacts
<1>3. \A z : HeldBy(z, q, b) <=> HeldBy(z, q, a)
  BY <1>1, <1>2 DEF HeldBy
<1>4. Paths(q, b) = Paths(q, a)
  BY <1>1, <1>3, PathsOf
<1>5. RootLate(q, a) => RootLate(q, b)
  BY <1>1, <1>2 DEF RootLate, LatePlain
<1>6. RootSingle(q, a) => RootSingle(q, b)
  <2> SUFFICES ASSUME RootSingle(q, a)
               PROVE  RootSingle(q, b)
    OBVIOUS
  <2>1. x.tokens = <<>> => \A k \in DOMAIN a : a[k].pending => a[k].tokens # <<>>
    BY <1>2 DEF RootSingle, IsAsked
  <2>2. \A i, k \in DOMAIN b : b[i].pending /\ b[k].pending /\ b[i].tokens = <<>> /\ b[k].tokens = <<>> => i = k
    BY <1>1, <2>1 DEF RootSingle
  <2>3. \A i \in DOMAIN q : q[i].tokens = <<>> /\ x.tokens = <<>> => q[i].node = x.node
    BY <1>2 DEF RootSingle
  <2>4. \A i \in DOMAIN q, k \in DOMAIN b : q[i].tokens = <<>> /\ b[k].pending /\ b[k].tokens = <<>> =>
          q[i].node = b[k].node
    BY <1>1, <2>3 DEF RootSingle
  <2> QED BY <2>2, <2>4 DEF RootSingle
<1> QED BY <1>3, <1>4, <1>5, <1>6 DEF Rooted, b

\* A repeated entry is late.
LEMMA RepeatedIsLate ==
    ASSUME Nested, NEW cp \in Checkpoint, NEW seen \in SUBSET Keys, Past(cp, seen, FALSE),
           PastRoot(cp, seen, FALSE), cp.queue # <<>>, Key(cp.queue[1]) \in seen
    PROVE  LatePlain(cp.queue[1])
<1> DEFINE e == cp.queue[1]
<1>1. e.tokens = <<>> /\ e.joined = NoFrame
  BY RepeatedIsPlain DEF RootPlain
<1>2. Key(e) \in seen /\ Key(e)[1] = e.node /\ Key(e)[2] = e.tokens
  BY DEF Key
<1>3. 1 \in DOMAIN cp.queue /\ e \in Entry
  BY CheckpointFacts, TailFacts
<1>4. Rank[e.node] \in Nat
  BY <1>3, NestedFacts, EntryFacts
<1>5. e.node \notin Late => Rank[e.node] > Rank[e.node]
  BY <1>1, <1>2, <1>3 DEF PastRoot
<1> QED BY <1>1, <1>4, <1>5 DEF LatePlain, RootPlain

LEMMA PastRootOnwards ==
    ASSUME Nested, NEW cp \in Checkpoint, NEW cp2 \in Checkpoint, NEW seen \in SUBSET Keys,
           NEW busy \in BOOLEAN, PastRoot(cp, seen, busy), cp.queue # <<>>,
           \A i \in DOMAIN cp2.queue : \/ \E k \in DOMAIN cp.queue : k # 1 /\ cp2.queue[i] = cp.queue[k]
                                       \/ Rank[cp2.queue[i].node] > Rank[cp.queue[1].node]
    PROVE  PastRoot(cp2, seen, FALSE)
<1> SUFFICES ASSUME NEW K \in seen, K[2] = <<>>, K[1] \notin Late, NEW i \in DOMAIN cp2.queue
             PROVE  Rank[cp2.queue[i].node] > Rank[K[1]]
  BY DEF PastRoot
<1>1. 1 \in DOMAIN cp.queue /\ cp.queue \in Seq(Entry) /\ cp2.queue \in Seq(Entry)
  BY CheckpointFacts, TailFacts
<1>2. K[1] \in Nodes /\ cp2.queue[i].node \in Nodes /\ cp.queue[1].node \in Nodes
  <2>1. cp2.queue[i] \in Entry /\ cp.queue[1] \in Entry
    BY <1>1
  <2> QED BY <2>1, EntryFacts DEF Keys
<1>3. Rank[K[1]] \in Nat /\ Rank[cp2.queue[i].node] \in Nat /\ Rank[cp.queue[1].node] \in Nat
  BY <1>2, NestedFacts
<1>4. CASE \E k \in DOMAIN cp.queue : k # 1 /\ cp2.queue[i] = cp.queue[k]
  BY <1>4 DEF PastRoot
<1>5. CASE Rank[cp2.queue[i].node] > Rank[cp.queue[1].node]
  <2>1. Rank[cp.queue[1].node] >= Rank[K[1]]
    BY <1>1, <1>3 DEF PastRoot
  <2> QED BY <1>3, <1>5, <2>1
<1> QED BY <1>4, <1>5

LEMMA PastRootDrop ==
    ASSUME Nested, NEW cp \in Checkpoint, NEW cp2 \in Checkpoint, NEW seen \in SUBSET Keys,
           NEW busy \in BOOLEAN, PastRoot(cp, seen, busy), cp.queue # <<>>, cp2.queue = Tail(cp.queue)
    PROVE  PastRoot(cp2, seen, FALSE)
<1>1. \A i \in DOMAIN cp2.queue : \E k \in DOMAIN cp.queue : k # 1 /\ cp2.queue[i] = cp.queue[k]
  BY CheckpointFacts, TailFacts
<1> QED BY <1>1, PastRootOnwards

LEMMA PastRootRun ==
    ASSUME Nested, NEW cp \in Checkpoint, NEW cp2 \in Checkpoint, NEW seen \in SUBSET Keys,
           PastRoot(cp, seen, TRUE), cp.queue # <<>>, NEW next \in Routes[cp.queue[1].node],
           NEW r \in Seq(Entry), cp2.queue = Tail(cp.queue) \o r,
           \A i \in DOMAIN r : i \in DOMAIN next /\ r[i].node = next[i]
    PROVE  PastRoot(cp2, seen, FALSE)
<1>1. /\ Tail(cp.queue) \in Seq(Entry) /\ cp.queue[1] \in Entry
      /\ \A i \in DOMAIN Tail(cp.queue) : i + 1 \in DOMAIN cp.queue /\ i + 1 # 1 /\ Tail(cp.queue)[i] = cp.queue[i + 1]
  BY CheckpointFacts, TailFacts
<1>2. \A i \in DOMAIN r : Rank[r[i].node] > Rank[cp.queue[1].node]
  BY <1>1, NestedFacts, EntryFacts DEF WellNested
<1>3. \A i \in DOMAIN cp2.queue : \/ i \in DOMAIN Tail(cp.queue) /\ cp2.queue[i] = Tail(cp.queue)[i]
                                  \/ \E k \in DOMAIN r : cp2.queue[i] = r[k]
  BY <1>1, AppendFacts
<1>4. \A i \in DOMAIN cp2.queue : \/ \E k \in DOMAIN cp.queue : k # 1 /\ cp2.queue[i] = cp.queue[k]
                                  \/ Rank[cp2.queue[i].node] > Rank[cp.queue[1].node]
  BY <1>1, <1>2, <1>3
<1> QED BY <1>4, PastRootOnwards

LEMMA PastRootBegin ==
    ASSUME Nested, NEW cp \in Checkpoint, NEW cp2 \in Checkpoint, NEW a \in Seq(Ask), Rooted(cp.queue, a),
           NEW seen \in SUBSET Keys, PastRoot(cp, seen, FALSE), cp.queue # <<>>, cp2.queue = cp.queue
    PROVE  PastRoot(cp2, seen \cup {Key(cp.queue[1])}, TRUE)
<1> DEFINE e == cp.queue[1]
<1>1. 1 \in DOMAIN cp.queue /\ cp.queue \in Seq(Entry) /\ e \in Entry
  BY CheckpointFacts, TailFacts
<1>2. Rank[e.node] \in Nat
  BY <1>1, NestedFacts, EntryFacts
<1>3. Key(e)[1] = e.node /\ Key(e)[2] = e.tokens
  BY DEF Key
<1>4. e.tokens = <<>> /\ e.node \notin Late => \A i \in DOMAIN cp.queue : i = 1
  <2> SUFFICES ASSUME e.tokens = <<>>, e.node \notin Late, NEW i \in DOMAIN cp.queue
               PROVE  i = 1
    OBVIOUS
  <2>1. HeldBy(<<>>, cp.queue, a)
    BY <1>1 DEF HeldBy
  <2>2. Paths(cp.queue, a) = {}
    BY <2>1 DEF Rooted
  <2>3. HeldBy(cp.queue[i].tokens, cp.queue, a)
    BY DEF HeldBy
  <2>4. cp.queue[i].tokens = <<>>
    BY <1>1, <2>2, <2>3, PathsOf
  <2>5. ~RootLate(cp.queue, a)
    BY <1>1 DEF RootLate, LatePlain
  <2>6. RootSingle(cp.queue, a)
    BY <2>5 DEF Rooted
  <2> QED BY <1>1, <2>4, <2>6 DEF RootSingle
<1> SUFFICES ASSUME NEW K \in seen \cup {Key(e)}, K[2] = <<>>, K[1] \notin Late, NEW i \in DOMAIN cp.queue
             PROVE  \/ Rank[cp.queue[i].node] > Rank[K[1]]
                    \/ i = 1 /\ Rank[cp.queue[i].node] >= Rank[K[1]]
  BY DEF PastRoot
<1>5. CASE K \in seen
  BY <1>5 DEF PastRoot
<1>6. CASE K = Key(e)
  <2>1. i = 1
    BY <1>3, <1>4, <1>6
  <2>2. Rank[e.node] >= Rank[e.node]
    BY <1>2
  <2> QED BY <1>3, <1>6, <2>1, <2>2
<1> QED BY <1>5, <1>6

LEMMA PastRootOpen ==
    ASSUME Nested, NEW cp \in Checkpoint, NEW cp2 \in Checkpoint,
           NEW seen \in SUBSET Keys, PastRoot(cp, seen, FALSE), cp.queue # <<>>,
           NEW e, e = cp.queue[1], e.tokens # <<>>,
           NEW x \in Entry, x.node = e.node, cp2.queue = <<x>> \o Tail(cp.queue)
    PROVE  PastRoot(cp2, seen \cup {Key(e)}, TRUE)
<1>1. /\ 1 \in DOMAIN cp.queue /\ Tail(cp.queue) \in Seq(Entry)
      /\ \A i \in DOMAIN Tail(cp.queue) : i + 1 \in DOMAIN cp.queue /\ Tail(cp.queue)[i] = cp.queue[i + 1]
  BY CheckpointFacts, TailFacts
<1> DEFINE z == Tail(cp.queue)
<1>2. \A i \in DOMAIN cp2.queue : \/ i = 1 /\ cp2.queue[i] = x
                                  \/ i - 1 \in DOMAIN z /\ cp2.queue[i] = z[i - 1]
  <2>1. z \in Seq(Entry) /\ cp2.queue = <<x>> \o z
    BY <1>1
  <2> HIDE DEF z
  <2> QED BY <2>1, PrependQueue
<1>3. \A i \in DOMAIN cp2.queue : \E k \in DOMAIN cp.queue : cp2.queue[i].node = cp.queue[k].node
  BY <1>1, <1>2
<1>4. Key(e)[2] # <<>>
  BY DEF Key
<1>5. \A K \in seen : K[2] = <<>> /\ K[1] \notin Late =>
        \A i \in DOMAIN cp2.queue : Rank[cp2.queue[i].node] > Rank[K[1]]
  <2> SUFFICES ASSUME NEW K \in seen, K[2] = <<>>, K[1] \notin Late, NEW i \in DOMAIN cp2.queue
               PROVE  Rank[cp2.queue[i].node] > Rank[K[1]]
    OBVIOUS
  <2>1. PICK k \in DOMAIN cp.queue : cp2.queue[i].node = cp.queue[k].node
    BY <1>3
  <2>2. Rank[cp.queue[k].node] > Rank[K[1]]
    BY DEF PastRoot
  <2> QED BY <2>1, <2>2
<1> QED BY <1>4, <1>5 DEF PastRoot

-----------------------------------------------------------------------------
(* What is gathered when a path goes on.                                   *)

\* From cp to cp2 the path s saves the context at hand, which has not lost anything.
Works(cp, cp2, s, F) ==
    /\ \A f \in F : /\ cp2.scopes[f].base = cp.scopes[f].base
                    /\ cp2.frames[f].expected = cp.frames[f].expected
                    /\ \A b \in Nodes : cp2.scopes[f].branch[b] =
                          IF s # <<>> /\ f = LastToken(s).frame /\ b = LastToken(s).branch
                          THEN cp2.ctx ELSE cp.scopes[f].branch[b]
    /\ s # <<>> => Scope(cp, LastToken(s)) \subseteq cp2.ctx

LEMMA WorksGrows ==
    ASSUME NEW cp \in Checkpoint, NEW cp2 \in Checkpoint, NEW s \in Seq(BranchToken), NEW F \in SUBSET Frame,
           Works(cp, cp2, s, F), NEW f \in F
    PROVE  /\ Merge(cp, f) \subseteq Merge(cp2, f)
           /\ s # <<>> /\ f = LastToken(s).frame => Scope(cp2, LastToken(s)) = cp2.ctx
           /\ \A t \in BranchToken : t.frame = f /\ (s # <<>> => t # LastToken(s)) => Scope(cp2, t) = Scope(cp, t)
<1>0. cp.frames[f].expected \in SUBSET Nodes
  BY CheckpointFacts DEF Frames
<1>1. s # <<>> => LastToken(s) \in BranchToken /\ LastToken(s).branch \in Nodes
  BY TokenFacts
<1>2. \A b \in Nodes : cp.scopes[f].branch[b] \subseteq cp2.scopes[f].branch[b]
  BY <1>1 DEF Works, Scope
<1>3. cp2.scopes[f].base = cp.scopes[f].base /\ cp2.frames[f].expected = cp.frames[f].expected
  BY DEF Works
<1>4. Merge(cp, f) \subseteq Merge(cp2, f)
  BY <1>0, <1>2, <1>3 DEF Merge
<1>5. s # <<>> /\ f = LastToken(s).frame => Scope(cp2, LastToken(s)) = cp2.ctx
  BY <1>1 DEF Works, Scope
<1>6. ASSUME NEW t \in BranchToken, t.frame = f, s # <<>> => t # LastToken(s)
      PROVE  Scope(cp2, t) = Scope(cp, t)
  <2>1. t.branch \in Nodes
    BY DEF BranchToken
  <2>2. ~(s # <<>> /\ f = LastToken(s).frame /\ t.branch = LastToken(s).branch)
    BY <1>1, <1>6 DEF BranchToken
  <2> QED BY <1>6, <2>1, <2>2 DEF Works, Scope
<1> QED BY <1>4, <1>5, <1>6

LEMMA InMerge ==
    ASSUME NEW cp \in Checkpoint, NEW t \in BranchToken, t.branch \in cp.frames[t.frame].expected
    PROVE  Scope(cp, t) \subseteq Merge(cp, t.frame)
BY DEF Scope, Merge

\* The path s of the new checkpoint works; its frames are those of before.
LEMMA GatheredWorks ==
    ASSUME NEW cp \in Checkpoint, NEW cp2 \in Checkpoint, NEW a2 \in Seq(Ask), NEW s \in Seq(BranchToken),
           NEW P2, P2 = Paths(cp2.queue, a2), Forest(P2, cp2.frames), s # <<>> => s \in P2,
           Works(cp, cp2, s, Frame), Based(P2, cp),
           \A i \in DOMAIN cp2.queue : cp2.queue[i].joined \in Frame =>
               \/ cp2.queue[i].tokens = s /\ cp2.ctx \subseteq Merge(cp, cp2.queue[i].joined)
               \/ /\ cp2.queue[i].tokens # <<>> /\ cp2.queue[i].tokens # s
                  /\ Scope(cp, LastToken(cp2.queue[i].tokens)) \subseteq Merge(cp, cp2.queue[i].joined),
           NEW prod2,
           \A n \in prod2 : \/ n \in cp2.ctx /\ (s = <<>> => \A f \in Frame : ~Open(cp2, f))
                            \/ \E f \in Frame : Open(cp2, f) /\ n \in Merge(cp, f)
    PROVE  Gathered(cp2, a2, prod2)
<1>0. P2 \in SUBSET Path /\ cp2.queue \in Seq(Entry) /\ \A i \in DOMAIN cp2.queue : cp2.queue[i].tokens # <<>> =>
         cp2.queue[i].tokens \in P2
  <2>1. cp2.queue \in Seq(Entry)
    BY CheckpointFacts
  <2> QED BY <2>1, PathsOf DEF HeldBy
<1>1. \A f \in Frame : Merge(cp, f) \subseteq Merge(cp2, f)
  BY WorksGrows
<1>2. s # <<>> => LastToken(s) \in BranchToken /\ LastToken(s).frame \in Frame
  BY TokenFacts
<1>3. s # <<>> => Scope(cp2, LastToken(s)) = cp2.ctx
  BY <1>2, WorksGrows
<1>4. \A t \in BranchToken : (s # <<>> => t # LastToken(s)) => Scope(cp2, t) = Scope(cp, t)
  <2> SUFFICES ASSUME NEW t \in BranchToken, s # <<>> => t # LastToken(s)
               PROVE  Scope(cp2, t) = Scope(cp, t)
    OBVIOUS
  <2>1. t.frame \in Frame
    BY DEF BranchToken
  <2> QED BY <2>1, WorksGrows
<1>5. Based(P2, cp2)
  <2> SUFFICES ASSUME NEW z \in P2, NEW p \in 1..(Len(z) - 1)
               PROVE  Scope(cp2, z[p]) \subseteq cp2.scopes[z[p + 1].frame].base
    BY DEF Based
  <2>1. Len(z) \in Nat /\ p \in DOMAIN z /\ p + 1 \in DOMAIN z /\ z[p] \in BranchToken /\ z[p + 1].frame \in Frame
    <3>1. Len(z) \in Nat /\ DOMAIN z = 1..Len(z)
      BY <1>0, PathFacts
    <3>2. p \in DOMAIN z /\ p + 1 \in DOMAIN z
      BY <3>1
    <3> QED BY <1>0, <3>1, <3>2, PathFacts
  <2>2. s # <<>> => z[p] # LastToken(s)
    BY <1>0, TipFacts
  <2>3. Scope(cp2, z[p]) = Scope(cp, z[p])
    BY <1>4, <2>1, <2>2
  <2>4. Scope(cp, z[p]) \subseteq cp.scopes[z[p + 1].frame].base
    BY DEF Based
  <2> QED BY <2>1, <2>3, <2>4 DEF Works
<1>6. \A i \in DOMAIN cp2.queue : Homed(cp2.queue[i], cp2)
  <2> SUFFICES ASSUME NEW i \in DOMAIN cp2.queue, cp2.queue[i].joined \in Frame
               PROVE  IF cp2.queue[i].tokens = <<>> THEN cp2.ctx \subseteq Merge(cp2, cp2.queue[i].joined)
                      ELSE Scope(cp2, LastToken(cp2.queue[i].tokens)) \subseteq Merge(cp2, cp2.queue[i].joined)
    BY DEF Homed
  <2> DEFINE z == cp2.queue[i].tokens
  <2>0. Merge(cp, cp2.queue[i].joined) \subseteq Merge(cp2, cp2.queue[i].joined)
    BY <1>1
  <2>1. CASE z = s /\ cp2.ctx \subseteq Merge(cp, cp2.queue[i].joined)
    BY <1>3, <2>0, <2>1
  <2>2. CASE z # <<>> /\ z # s /\ Scope(cp, LastToken(z)) \subseteq Merge(cp, cp2.queue[i].joined)
    <3>1. z \in P2 /\ LastToken(z) \in BranchToken
      BY <1>0, <2>2, PathFacts
    <3>2. s # <<>> => LastToken(z) # LastToken(s)
      <4> HIDE DEF z
      <4> QED BY <1>0, <2>2, <3>1, TipFacts
    <3>3. Scope(cp2, LastToken(z)) = Scope(cp, LastToken(z))
      BY <1>4, <3>1, <3>2
    <3> QED BY <2>0, <2>2, <3>3
  <2> QED BY <2>1, <2>2
<1>7. \A n \in prod2 : Collected(n, cp2)
  <2> SUFFICES ASSUME NEW n \in prod2
               PROVE  Collected(n, cp2)
    OBVIOUS
  <2>1. CASE n \in cp2.ctx /\ s = <<>> /\ \A f \in Frame : ~Open(cp2, f)
    BY <2>1 DEF Collected
  <2>2. CASE n \in cp2.ctx /\ s # <<>>
    <3> DEFINE t == LastToken(s)
    <3>1. s \in P2 /\ Len(s) \in DOMAIN s /\ t = s[Len(s)]
      BY <1>0, <2>2, PathFacts
    <3>2. Open(cp2, t.frame) /\ t.branch \in cp2.frames[t.frame].expected
      BY <1>0, <3>1, PathOpen
    <3>3. cp2.ctx \subseteq Merge(cp2, t.frame)
      BY <1>2, <1>3, <2>2, <3>2, InMerge
    <3> QED BY <1>2, <2>2, <3>2, <3>3 DEF Collected
  <2>3. CASE \E f \in Frame : Open(cp2, f) /\ n \in Merge(cp, f)
    BY <1>1, <2>3 DEF Collected
  <2> QED BY <2>1, <2>2, <2>3
<1> QED BY <1>5, <1>6, <1>7 DEF Gathered

\* A marked entry outside all frames is the only entry; inside a frame it is alone on its path.
LEMMA MarkedInside ==
    ASSUME NEW cp \in Checkpoint, NEW a \in Seq(Ask), NEW jn, Sound(cp, a, jn), Rooted(cp.queue, a),
           Gathered(cp, a, {}), NEW k \in DOMAIN cp.queue, k # 1, cp.queue[k].joined \in Frame
    PROVE  /\ cp.queue[k].tokens # <<>> /\ cp.queue[k].tokens # cp.queue[1].tokens
           /\ Scope(cp, LastToken(cp.queue[k].tokens)) \subseteq Merge(cp, cp.queue[k].joined)
<1> DEFINE q == cp.queue
<1>1. q \in Seq(Entry) /\ 1 \in DOMAIN q
  BY CheckpointFacts
<1>2. q[k].tokens # <<>>
  <2> SUFFICES ASSUME q[k].tokens = <<>>
               PROVE  FALSE
    OBVIOUS
  <2>1. HeldBy(<<>>, q, a)
    BY DEF HeldBy
  <2>2. Paths(q, a) = {}
    BY <2>1 DEF Rooted
  <2>3. HeldBy(q[1].tokens, q, a)
    BY <1>1 DEF HeldBy
  <2>4. q[1].tokens = <<>>
    BY <1>1, <2>2, <2>3, PathsOf
  <2>5. ~RootLate(q, a)
    BY NoFrameFacts DEF RootLate, LatePlain, RootPlain
  <2>6. RootSingle(q, a)
    BY <2>5 DEF Rooted
  <2> QED BY <1>1, <2>4, <2>6 DEF RootSingle
<1>3. q[k].tokens # q[1].tokens
  BY <1>1, <1>2 DEF Sound, Single
<1>4. Homed(q[k], cp)
  BY DEF Gathered
<1> QED BY <1>2, <1>3, <1>4 DEF Homed

LEMMA FewerGathered ==
    ASSUME NEW cp, NEW a, NEW prod, NEW prod2 \in SUBSET prod, Gathered(cp, a, prod)
    PROVE  Gathered(cp, a, prod2)
BY DEF Gathered

\* The head leaves the queue; the context at hand may have changed if it is on a path.
LEMMA GatheredDrop ==
    ASSUME NEW cp \in Checkpoint, NEW cp2 \in Checkpoint, NEW a \in Seq(Ask), NEW jn, Sound(cp, a, jn),
           Rooted(cp.queue, a), NEW prod, Gathered(cp, a, prod), cp.queue # <<>>, cp2.queue = Tail(cp.queue),
           cp2.scopes = cp.scopes, Forest(Paths(cp2.queue, a), cp2.frames),
           \A f \in Frame : cp2.frames[f].expected = cp.frames[f].expected /\ (Open(cp, f) <=> Open(cp2, f)),
           cp.queue[1].tokens = <<>> => cp2.ctx = cp.ctx
    PROVE  Gathered(cp2, a, prod)
<1> DEFINE P2 == Paths(cp2.queue, a)
           e == cp.queue[1]
<1>1. /\ cp.queue \in Seq(Entry) /\ 1 \in DOMAIN cp.queue /\ <<>> \in Seq(BranchToken)
      /\ \A i \in DOMAIN cp2.queue : i + 1 \in DOMAIN cp.queue /\ i + 1 # 1 /\ cp2.queue[i] = cp.queue[i + 1]
  BY CheckpointFacts, TailFacts
<1>2. P2 \subseteq Paths(cp.queue, a)
  BY <1>1, TailRooted
<1>3. Works(cp, cp2, <<>>, Frame)
  BY DEF Works
<1>4. Based(P2, cp)
  BY <1>2 DEF Gathered, Based
<1>5. Gathered(cp, a, {})
  BY FewerGathered
<1>6. \A i \in DOMAIN cp2.queue : cp2.queue[i].joined \in Frame =>
          /\ cp2.queue[i].tokens # <<>>
          /\ Scope(cp, LastToken(cp2.queue[i].tokens)) \subseteq Merge(cp, cp2.queue[i].joined)
  BY <1>1, <1>5, MarkedInside
<1>7. ASSUME NEW n \in prod
      PROVE  \/ n \in cp2.ctx /\ \A f \in Frame : ~Open(cp2, f)
             \/ \E f \in Frame : Open(cp2, f) /\ n \in Merge(cp, f)
  <2>1. CASE n \in cp.ctx /\ \A f \in Frame : ~Open(cp, f)
    <3>1. e.tokens = <<>>
      <4> SUFFICES ASSUME e.tokens # <<>>
                   PROVE  FALSE
        OBVIOUS
      <4>1. HeldBy(e.tokens, cp.queue, a)
        BY <1>1 DEF HeldBy
      <4>2. e.tokens \in Paths(cp.queue, a) /\ Paths(cp.queue, a) \in SUBSET Path
        BY <1>1, <4>1, PathsOf
      <4>3. 1 \in DOMAIN e.tokens
        BY <4>2, PathFacts
      <4>4. Forest(Paths(cp.queue, a), cp.frames)
        BY DEF Sound
      <4> HIDE DEF e
      <4> QED BY <2>1, <4>2, <4>3, <4>4, PathOpen
    <3> QED BY <2>1, <3>1
  <2>2. CASE \E f \in Frame : Open(cp, f) /\ n \in Merge(cp, f)
    BY <2>2
  <2>3. Collected(n, cp)
    BY DEF Gathered
  <2> QED BY <2>1, <2>2, <2>3 DEF Collected
<1> HIDE DEF P2
<1> QED BY <1>1, <1>3, <1>4, <1>6, <1>7, GatheredWorks DEF P2

\* The path s goes on, with what it has produced.
LEMMA GatheredOnwards ==
    ASSUME NEW cp \in Checkpoint, NEW cp2 \in Checkpoint, NEW a \in Seq(Ask), NEW a2 \in Seq(Ask),
           NEW s \in Seq(BranchToken), NEW P, NEW P2, P = Paths(cp.queue, a), P2 = Paths(cp2.queue, a2),
           Counted(cp.frames), Covered(P, cp.frames), s = <<>> => P = {},
           NEW prod, Gathered(cp, a, prod), P2 \subseteq P, s # <<>> => s \in P2,
           Forest(P2, cp2.frames), cp2.frames = cp.frames, Works(cp, cp2, s, Frame),
           s = <<>> => cp.ctx \subseteq cp2.ctx, s # <<>> => Forest(P, cp.frames),
           \A i \in DOMAIN cp2.queue : cp2.queue[i].joined \in Frame =>
               \/ cp2.queue[i].tokens = s /\ cp2.ctx \subseteq Merge(cp, cp2.queue[i].joined)
               \/ /\ cp2.queue[i].tokens # <<>> /\ cp2.queue[i].tokens # s
                  /\ Scope(cp, LastToken(cp2.queue[i].tokens)) \subseteq Merge(cp, cp2.queue[i].joined),
           NEW prod2 \in SUBSET (prod \cup cp2.ctx)
    PROVE  Gathered(cp2, a2, prod2)
<1>1. \A f : Open(cp2, f) <=> Open(cp, f)
  BY DEF Open, Forked, Released
<1>2. Based(P2, cp)
  BY DEF Gathered, Based
<1>3. s = <<>> => \A f \in Frame : ~Open(cp2, f)
  BY <1>1, NoneOpen
<1>4. s # <<>> => \E f \in Frame : Open(cp, f)
  <2> SUFFICES ASSUME s # <<>>
               PROVE  \E f \in Frame : Open(cp, f)
    OBVIOUS
  <2>1. P \in SUBSET Path /\ s \in P
    BY CheckpointFacts, PathsOf
  <2>2. Forest(P, cp.frames)
    OBVIOUS
  <2> QED BY <2>1, <2>2, SomeOpen
<1>5. ASSUME NEW n \in prod2
      PROVE  \/ n \in cp2.ctx /\ (s = <<>> => \A f \in Frame : ~Open(cp2, f))
             \/ \E f \in Frame : Open(cp2, f) /\ n \in Merge(cp, f)
  <2>1. CASE n \in cp2.ctx
    BY <1>3, <2>1
  <2>2. CASE n \in prod
    <3>1. Collected(n, cp)
      BY <2>2 DEF Gathered
    <3> QED BY <1>1, <1>3, <1>4, <3>1 DEF Collected
  <2> QED BY <2>1, <2>2
<1> QED BY <1>2, <1>5, GatheredWorks

LEMMA ReplaceHead ==
    ASSUME NEW q \in Seq(Entry), q # <<>>, NEW x \in Entry, NEW a \in Seq(Ask), NEW q2, q2 = <<x>> \o Tail(q)
    PROVE  /\ \A i \in DOMAIN q2 : \/ i = 1 /\ q2[i] = x
                                   \/ i # 1 /\ i - 1 \in DOMAIN Tail(q) /\ q2[i] = Tail(q)[i - 1]
           /\ \A y \in Paths(q2, a) : y \in Paths(Tail(q), a) \/ y = x.tokens
           /\ x.tokens # <<>> => x.tokens \in Paths(q2, a)
           /\ 1 \in DOMAIN q2 /\ q2[1] = x
<1> DEFINE z == Tail(q)
<1>1. z \in Seq(Entry)
  BY TailFacts
<1>2. q2 = <<x>> \o z
  OBVIOUS
<1> HIDE DEF z
<1>3. q2 \in Seq(Entry) /\ q2 # <<>>
  BY <1>1, <1>2, PrependQueue
<1>4. \A i \in DOMAIN q2 : \/ i = 1 /\ q2[i] = x
                           \/ i # 1 /\ i - 1 \in DOMAIN z /\ q2[i] = z[i - 1]
  BY <1>1, <1>2, PrependQueue
<1>5. Paths(q2, a) = Paths(z, a) \cup ({x.tokens} \ {<<>>})
  <2>1. Paths(<<x>> \o z, a) = Paths(z, a) \cup ({x.tokens} \ {<<>>})
    BY <1>1, PrependQueue
  <2> QED BY <1>2, <2>1
<1>7. q2[1] = x
  BY <1>1, <1>2, PrependQueue
<1>6. 1 \in DOMAIN q2
  BY <1>3, TailFacts
<1> QED BY <1>4, <1>5, <1>6, <1>7 DEF z

LEMMA OpenHomes ==
    ASSUME NEW cp \in Checkpoint, NEW a \in Seq(Ask), NEW jn, Sound(cp, a, jn), Rooted(cp.queue, a),
           Gathered(cp, a, {}), cp.queue # <<>>, NEW x \in Entry, NEW q2, q2 = <<x>> \o Tail(cp.queue),
           Single(q2, a), NEW c, c = Merge(cp, x.joined)
    PROVE  \A i \in DOMAIN q2 : q2[i].joined \in Frame =>
               \/ q2[i].tokens = x.tokens /\ c \subseteq Merge(cp, q2[i].joined)
               \/ /\ q2[i].tokens # <<>> /\ q2[i].tokens # x.tokens
                  /\ Scope(cp, LastToken(q2[i].tokens)) \subseteq Merge(cp, q2[i].joined)
<1>0. cp.queue \in Seq(Entry)
  BY CheckpointFacts
<1>8. q2[1] = x
  BY <1>0, ReplaceHead
<1> SUFFICES ASSUME NEW i \in DOMAIN q2, q2[i].joined \in Frame, i # 1
             PROVE  /\ q2[i].tokens # <<>> /\ q2[i].tokens # x.tokens
                    /\ Scope(cp, LastToken(q2[i].tokens)) \subseteq Merge(cp, q2[i].joined)
  BY <1>8
<1> DEFINE q == cp.queue
<1>1. q \in Seq(Entry) /\ q # <<>>
  BY CheckpointFacts
<1>2. \A k \in DOMAIN Tail(q) : k + 1 \in DOMAIN q /\ k + 1 # 1 /\ Tail(q)[k] = q[k + 1]
  BY <1>1, TailFacts
<1>3. i - 1 \in DOMAIN Tail(q) /\ q2[i] = Tail(q)[i - 1] /\ 1 \in DOMAIN q2 /\ q2[1] = x
  BY <1>1, ReplaceHead
<1>4. PICK k \in DOMAIN q : k # 1 /\ q2[i] = q[k]
  BY <1>2, <1>3
<1>5. q[k].joined \in Frame
  BY <1>4
<1>6. q2[i].tokens # <<>> /\ Scope(cp, LastToken(q2[i].tokens)) \subseteq Merge(cp, q2[i].joined)
  BY <1>4, <1>5, MarkedInside
<1> QED BY <1>3, <1>6 DEF Single

\* What is above the frame of a path is part of what the frame merges.
LEMMA AboveMerged ==
    ASSUME NEW cp \in Checkpoint, NEW P \in SUBSET Path, Based(P, cp), NEW s \in P, Parent(s) # <<>>
    PROVE  Scope(cp, LastToken(Parent(s))) \subseteq Merge(cp, LastToken(s).frame)
<1> DEFINE n == Len(s) - 1
<1>1. Len(s) \in Nat \ {0} /\ LastToken(s) = s[Len(s)]
  BY PathFacts
<1>2. Len(Parent(s)) = n /\ Parent(s) \in Seq(BranchToken)
  BY PathFacts
<1>3. Len(s) # 1
  BY PathFacts
<1>4. n \in 1..(Len(s) - 1) /\ n + 1 = Len(s)
  <2> DEFINE m == Len(s)
  <2>1. m \in Nat /\ m # 0 /\ m # 1
    BY <1>1, <1>3
  <2> HIDE DEF m
  <2>2. m - 1 \in 1..(m - 1) /\ (m - 1) + 1 = m
    BY <2>1
  <2> QED BY <2>2 DEF m
<1>5. \A p \in 1..(Len(s) - 1) : Parent(s)[p] = s[p]
  BY PathFacts
<1> HIDE DEF n
<1>6. LastToken(Parent(s)) = s[n]
  BY <1>2, <1>4, <1>5 DEF LastToken
<1>7. Scope(cp, s[n]) \subseteq cp.scopes[s[n + 1].frame].base
  BY <1>4 DEF Based
<1>8. cp.scopes[LastToken(s).frame].base \subseteq Merge(cp, LastToken(s).frame)
  BY DEF Merge
<1> QED BY <1>1, <1>4, <1>6, <1>7, <1>8

\* The frame of the head's path is released: its router's path goes on with what is merged.
LEMMA GatheredOpen ==
    ASSUME NEW cp \in Checkpoint, NEW cp2 \in Checkpoint, NEW a \in Seq(Ask), NEW P, NEW P2,
           P = Paths(cp.queue, a), P2 = Paths(cp2.queue, a), Forest(P, cp.frames), Forest(P2, cp2.frames),
           Covered(P2, cp2.frames), NEW prod, Gathered(cp, a, prod),
           NEW s \in P, NEW t, t = LastToken(s), NEW up \in Seq(BranchToken), up = Parent(s),
           \A y \in P2 : y \in P \/ y = up, up # <<>> => up \in P2, up = <<>> => P2 = {},
           cp2.ctx = Merge(cp, t.frame), Arrived(cp.frames, cp2.frames, t), Works(cp, cp2, up, Frame),
           \A i \in DOMAIN cp2.queue : cp2.queue[i].joined \in Frame =>
               \/ cp2.queue[i].tokens = up /\ cp2.ctx \subseteq Merge(cp, cp2.queue[i].joined)
               \/ /\ cp2.queue[i].tokens # <<>> /\ cp2.queue[i].tokens # up
                  /\ Scope(cp, LastToken(cp2.queue[i].tokens)) \subseteq Merge(cp, cp2.queue[i].joined)
    PROVE  Gathered(cp2, a, prod)
<1>1. P \in SUBSET Path /\ Counted(cp2.frames)
  BY CheckpointFacts, PathsOf DEF Forest
<1>2. /\ Len(s) \in Nat \ {0} /\ t = s[Len(s)] /\ t \in BranchToken /\ Len(s) \in DOMAIN s
      /\ Len(up) = Len(s) - 1
  BY <1>1, PathFacts
<1>3. t.frame \in Frame
  BY <1>2 DEF BranchToken
<1>4. \A p \in 1..(Len(s) - 1) : up[p] = s[p]
  BY <1>1, PathFacts
<1>5. Based(P2, cp)
  <2> SUFFICES ASSUME NEW y \in P2, NEW p \in 1..(Len(y) - 1)
               PROVE  Scope(cp, y[p]) \subseteq cp.scopes[y[p + 1].frame].base
    BY DEF Based
  <2>1. CASE y \in P
    BY <2>1 DEF Gathered, Based
  <2>2. CASE y = up
    <3>1. p \in 1..(Len(s) - 1) /\ p + 1 \in 1..(Len(s) - 1)
      BY <1>2, <2>2
    <3>2. y[p] = s[p] /\ y[p + 1] = s[p + 1]
      BY <1>4, <2>2, <3>1
    <3> QED BY <3>1, <3>2 DEF Gathered, Based
  <2> QED BY <2>1, <2>2
<1>6. up = <<>> => \A f \in Frame : ~Open(cp2, f)
  BY <1>1, NoneOpen
<1>7. ASSUME NEW n \in prod
      PROVE  \/ n \in cp2.ctx /\ (up = <<>> => \A f \in Frame : ~Open(cp2, f))
             \/ \E f \in Frame : Open(cp2, f) /\ n \in Merge(cp, f)
  <2>1. Open(cp, t.frame)
    BY <1>1, <1>2, PathOpen
  <2>2. PICK f \in Frame : Open(cp, f) /\ n \in Merge(cp, f)
    BY <1>3, <2>1 DEF Gathered, Collected
  <2>3. CASE f = t.frame
    BY <1>6, <2>2, <2>3
  <2>4. CASE f # t.frame
    <3>1. cp2.frames[f] = cp.frames[f]
      BY <2>4 DEF Arrived
    <3>2. Open(cp2, f)
      BY <2>2, <3>1 DEF Open, Forked, Released
    <3> QED BY <2>2, <3>2
  <2> QED BY <2>3, <2>4
<1> QED BY <1>5, <1>7, GatheredWorks

StillOpen(cp, cp2, f) == \A g \in Frame : g # f /\ Open(cp, g) => Open(cp2, g)
HomesRest(cp, cp2, P, f) == \A i \in DOMAIN cp2.queue : cp2.queue[i].joined \in Frame =>
    /\ cp2.queue[i].tokens \in P /\ cp2.queue[i].joined # f
    /\ Scope(cp, LastToken(cp2.queue[i].tokens)) \subseteq Merge(cp, cp2.queue[i].joined)

\* A router opens a frame: its branches start from what is at hand.
LEMMA GatheredFork ==
    ASSUME NEW cp \in Checkpoint, NEW cp2 \in Checkpoint, NEW a \in Seq(Ask), NEW P, NEW P2,
           P = Paths(cp.queue, a), P2 = Paths(cp2.queue, a), Forest(P, cp.frames), NEW prod, Gathered(cp, a, prod),
           NEW s \in Seq(BranchToken), s # <<>> => s \in P, NEW f \in Frame, ~Forked(cp, f), NEW B \in SUBSET Nodes,
           P2 \subseteq (P \ {s}) \cup Branches(s, f, B), cp2.scopes[f].base = cp2.ctx, Open(cp2, f),
           StillOpen(cp, cp2, f), HomesRest(cp, cp2, P \ {s}, f),
           Works(cp, cp2, s, Frame \ {f}), cp.ctx \subseteq cp2.ctx,
           NEW prod2 \in SUBSET (prod \cup cp2.ctx)
    PROVE  Gathered(cp2, a, prod2)
<1> DEFINE F == Frame \ {f}
<1>0. P \in SUBSET Path
  BY CheckpointFacts, PathsOf
<1>1. \A z \in P : \A p \in DOMAIN z : z[p].frame \in F /\ z[p] \in BranchToken
  <2> SUFFICES ASSUME NEW z \in P, NEW p \in DOMAIN z
               PROVE  z[p].frame \in F /\ z[p] \in BranchToken
    OBVIOUS
  <2>1. Open(cp, z[p].frame) /\ z[p].frame \in Frame
    BY <1>0, PathOpen
  <2>2. z[p] \in BranchToken
    BY <1>0, PathFacts
  <2> QED BY <2>1, <2>2 DEF Open
<1>2. \A g \in F : Merge(cp, g) \subseteq Merge(cp2, g)
  BY WorksGrows
<1>3. \A t \in BranchToken : t.frame \in F /\ (s # <<>> => t # LastToken(s)) => Scope(cp2, t) = Scope(cp, t)
  <2> SUFFICES ASSUME NEW t \in BranchToken, t.frame \in F, s # <<>> => t # LastToken(s)
               PROVE  Scope(cp2, t) = Scope(cp, t)
    OBVIOUS
  <2> DEFINE g == t.frame
  <2>1. F \in SUBSET Frame /\ g \in F /\ Works(cp, cp2, s, F)
    OBVIOUS
  <2> HIDE DEF F, g
  <2>2. \A y \in BranchToken : y.frame = g /\ (s # <<>> => y # LastToken(s)) => Scope(cp2, y) = Scope(cp, y)
    BY <2>1, WorksGrows
  <2> QED BY <2>2 DEF g
<1>4. \A z \in P : Len(z) \in Nat \ {0} /\ DOMAIN z = 1..Len(z) /\ LastToken(z) = z[Len(z)] /\ Len(z) \in DOMAIN z
  BY <1>0, PathFacts
<1>5. s # <<>> => Scope(cp2, LastToken(s)) = cp2.ctx
  <2> SUFFICES ASSUME s # <<>>
               PROVE  Scope(cp2, LastToken(s)) = cp2.ctx
    OBVIOUS
  <2>1. LastToken(s).frame \in F
    BY <1>1, <1>4
  <2> QED BY <2>1, WorksGrows
\* Inside the paths of before nothing changes except at the router's own token.
<1>6. ASSUME NEW z \in P, NEW p \in 1..(Len(z) - 1)
      PROVE  Scope(cp2, z[p]) \subseteq cp2.scopes[z[p + 1].frame].base
  <2>1. p \in DOMAIN z /\ p + 1 \in DOMAIN z
    BY <1>4
  <2>2. s # <<>> => z[p] # LastToken(s)
    BY <1>0, TipFacts
  <2>3. Scope(cp2, z[p]) = Scope(cp, z[p])
    BY <1>1, <1>3, <2>1, <2>2
  <2>4. cp2.scopes[z[p + 1].frame].base = cp.scopes[z[p + 1].frame].base
    BY <1>1, <2>1 DEF Works
  <2>5. Scope(cp, z[p]) \subseteq cp.scopes[z[p + 1].frame].base
    BY DEF Gathered, Based
  <2> QED BY <2>3, <2>4, <2>5
<1>7. Based(P2, cp2)
  <2> SUFFICES ASSUME NEW z \in P2, NEW p \in 1..(Len(z) - 1)
               PROVE  Scope(cp2, z[p]) \subseteq cp2.scopes[z[p + 1].frame].base
    BY DEF Based
  <2>1. CASE z \in P
    BY <1>6, <2>1
  <2>2. CASE z \in Branches(s, f, B)
    <3>1. PICK b \in B : z = Append(s, [frame |-> f, branch |-> b])
      BY <2>2 DEF Branches
    <3> DEFINE tok == [frame |-> f, branch |-> b]
    <3>2. tok \in BranchToken /\ tok.frame = f
      BY DEF BranchToken
    <3> HIDE DEF tok
    <3>3. Len(s) \in Nat /\ Len(z) = Len(s) + 1 /\ z[Len(s) + 1] = tok /\ \A k \in 1..Len(s) : z[k] = s[k]
      BY <3>1, <3>2, AppendProperties DEF tok
    <3>4. p \in 1..Len(s)
      BY <3>3
    <3>5. s # <<>> /\ s \in P
      BY <3>4
    <3>6. CASE p = Len(s)
      <4>1. z[p] = LastToken(s) /\ z[p + 1].frame = f
        BY <3>2, <3>3, <3>4, <3>6 DEF LastToken
      <4> QED BY <1>5, <3>5, <4>1
    <3>7. CASE p # Len(s)
      <4>1. p \in 1..(Len(s) - 1) /\ p + 1 \in 1..Len(s)
        BY <3>3, <3>4, <3>7
      <4>2. z[p] = s[p] /\ z[p + 1] = s[p + 1]
        BY <3>3, <3>4, <4>1
      <4> QED BY <1>6, <3>5, <4>1, <4>2
    <3> QED BY <3>6, <3>7
  <2> QED BY <2>1, <2>2
<1>8. \A i \in DOMAIN cp2.queue : Homed(cp2.queue[i], cp2)
  <2> SUFFICES ASSUME NEW i \in DOMAIN cp2.queue, cp2.queue[i].joined \in Frame
               PROVE  Homed(cp2.queue[i], cp2)
    BY DEF Homed
  <2> DEFINE z == cp2.queue[i].tokens
  <2>1. z \in P /\ z # s /\ cp2.queue[i].joined \in F
    BY DEF HomesRest
  <2> HIDE DEF z
  <2>2. LastToken(z) \in BranchToken /\ LastToken(z).frame \in F /\ z # <<>>
    BY <1>0, <1>1, <1>4, <2>1 DEF Path
  <2>3. s # <<>> => LastToken(z) # LastToken(s)
    BY <1>0, <2>1, TipFacts
  <2>4. Scope(cp2, LastToken(z)) = Scope(cp, LastToken(z))
    BY <1>3, <2>2, <2>3
  <2>5. Scope(cp, LastToken(z)) \subseteq Merge(cp, cp2.queue[i].joined)
    BY DEF HomesRest, z
  <2>6. Merge(cp, cp2.queue[i].joined) \subseteq Merge(cp2, cp2.queue[i].joined)
    BY <1>2, <2>1
  <2> QED BY <2>2, <2>4, <2>5, <2>6 DEF Homed, z
<1>9. ASSUME NEW n \in prod2
      PROVE  Collected(n, cp2)
  <2>1. CASE n \in cp2.ctx
    <3>1. cp2.ctx \subseteq Merge(cp2, f)
      BY DEF Merge
    <3> QED BY <2>1, <3>1 DEF Collected
  <2>2. CASE \E g \in Frame : Open(cp, g) /\ n \in Merge(cp, g)
    <3>1. PICK g \in Frame : Open(cp, g) /\ n \in Merge(cp, g)
      BY <2>2
    <3>2. g \in F
      BY <3>1 DEF Open
    <3> QED BY <1>2, <3>1, <3>2 DEF Collected, StillOpen
  <2>3. n \in prod => Collected(n, cp)
    BY DEF Gathered
  <2> QED BY <2>1, <2>2, <2>3 DEF Collected
<1> QED BY <1>7, <1>8, <1>9 DEF Gathered

-----------------------------------------------------------------------------
(* The steps keep what is gathered.                                        *)

LEMMA SuccessorPaths ==
    ASSUME Nested, NEW q \in Seq(Entry), NEW a \in Seq(Ask), NEW n \in Nodes, NEW next \in Routes[n],
           Kind[n] # "router", NEW s \in Seq(BranchToken), Len(s) = After(Depth, n),
           NEW P, Paths(q, a) \subseteq P, s # <<>> => s \in P
    PROVE  LET q2 == q \o Successors(next, s)
           IN  /\ Paths(q2, a) \subseteq P /\ (s # <<>> => s \in Paths(q2, a))
               /\ \A i \in DOMAIN q2 : q2[i].joined \in Frame => i \in DOMAIN q /\ q2[i] = q[i]
<1> DEFINE r == Successors(next, s)
           q2 == q \o r
<1>1. next \in Seq(Nodes) /\ (s # <<>> => Len(next) = 1)
  BY SuccessorsPlaced
<1>2. /\ r \in Seq(Entry) /\ DOMAIN r = 1..Len(next)
      /\ \A i \in DOMAIN r : r[i].tokens = s /\ r[i].joined = NoFrame
  BY <1>1, SuccessorFacts
<1> HIDE DEF r
<1>3. /\ q2 \in Seq(Entry)
      /\ \A i \in DOMAIN r : i + Len(q) \in DOMAIN q2 /\ q2[i + Len(q)] = r[i]
      /\ \A i \in DOMAIN q2 : \/ i \in DOMAIN q /\ q2[i] = q[i]
                              \/ i - Len(q) \in DOMAIN r /\ q2[i] = r[i - Len(q)]
  BY <1>2, AppendFacts
<1> HIDE DEF q2
<1>8. \A i \in DOMAIN q2 : \/ i \in DOMAIN q /\ q2[i] = q[i]
                           \/ q2[i].tokens = s /\ q2[i].joined = NoFrame
  BY <1>2, <1>3
<1>4. \A z : HeldBy(z, q2, a) => HeldBy(z, q, a) \/ z = s
  BY <1>8 DEF HeldBy
<1>5. Paths(q2, a) \subseteq P
  BY <1>3, <1>4, PathsOf
<1>6. s # <<>> => s \in Paths(q2, a)
  <2> SUFFICES ASSUME s # <<>>
               PROVE  s \in Paths(q2, a)
    OBVIOUS
  <2>1. 1 \in DOMAIN r
    <3>1. Len(next) = 1
      BY <1>1
    <3> QED BY <1>2, <3>1
  <2>2. HeldBy(s, q2, a)
    BY <1>2, <1>3, <2>1 DEF HeldBy
  <2> QED BY <1>3, <2>2, PathsOf
<1>7. \A i \in DOMAIN q2 : q2[i].joined \in Frame => i \in DOMAIN q /\ q2[i] = q[i]
  BY <1>8, NoFrameFacts
<1> QED BY <1>5, <1>6, <1>7 DEF q2, r

\* What the worker has in memory is gathered as well.
LEMMA GatherFacts ==
    ASSUME IInv, GatherInv, status = "running", wk.pc # "idle"
    PROVE  /\ Kept(wk.cp, asks, produced) /\ LeftLate(saved.queue, wk.cp.queue)
           /\ PastRoot(wk.cp, wk.seen, wk.pc # "head") /\ Kept(saved, asks, produced)
           /\ wk.pc \in {"work", "done", "asked"} => AtHand(wk.cp)
BY DEF GatherInv, GatheredSaved, GatheredInMemory, Terminal

LEMMA ThrowGather ==
    ASSUME IInv, GatherInv, Throw, saved' = saved, status = "running" \/ wk.pc # "idle",
           status = "running" => produced' = produced
    PROVE  GatherInv'
<1>1. wk'.pc = "idle"
  BY DEF Throw, Idle
<1>2. CASE status # "running"
  <2>1. status' = "cancelled"
    BY <1>2 DEF IInv, InMemory, Throw
  <2> QED BY <2>1 DEF GatherInv, GatheredSaved, GatheredInMemory, WaitsLate, ProducedMerged, Terminal
<1>3. CASE status = "running"
  <2>1. GatheredSaved /\ produced' = produced
    BY <1>3 DEF GatherInv
  <2>2. \/ status' = "queued" /\ asks' = asks
        \/ status' = "failed"
    BY <1>3 DEF Throw
  <2>3. GatheredSaved'
    BY <1>3, <2>1, <2>2 DEF GatheredSaved, Terminal
  <2> QED BY <1>1, <2>2, <2>3 DEF GatherInv, GatheredInMemory, WaitsLate, ProducedMerged
<1> QED BY <1>2, <1>3

LEMMA SaveGather ==
    ASSUME IInv, GatherInv, wk.pc # "idle", NEW cp, NEW pc \in {"head", "work"}, NEW seen, Save(cp, pc, seen),
           status = "running" => /\ Kept(cp, asks, produced') /\ PastRoot(cp, seen, pc # "head")
                                 /\ pc = "work" => AtHand(cp)
    PROVE  GatherInv'
<1>1. CASE status = "running"
  <2>1. saved' = cp /\ wk' = [pc |-> pc, cp |-> cp, seen |-> seen] /\ status' = status /\ asks' = asks
    BY <1>1 DEF Save
  <2>2. wk'.pc = pc /\ wk'.cp = cp /\ wk'.seen = seen
    BY <2>1
  <2>3. GatheredSaved'
    BY <1>1, <2>1 DEF GatheredSaved
  <2>4. LeftLate(saved'.queue, wk'.cp.queue)
    BY <2>1, <2>2 DEF LeftLate
  <2>5. GatheredInMemory'
    BY <1>1, <2>1, <2>2, <2>4 DEF GatheredInMemory
  <2> QED BY <1>1, <2>1, <2>3, <2>5 DEF GatherInv, WaitsLate, ProducedMerged
<1>2. CASE status # "running"
  <2>1. Throw /\ saved' = saved
    BY <1>2 DEF Save
  <2> QED BY <1>2, <2>1, ThrowGather
<1> QED BY <1>1, <1>2

\* Only the answers change, or the run is cancelled.
LEMMA SamePlacesGather ==
    ASSUME IInv, GatherInv, asks' \in Seq(Ask), SamePlaces(asks, asks'),
           status' = status \/ status' = "cancelled", UNCHANGED <<saved, wk, produced>>
    PROVE  GatherInv'
<1>1. saved \in Checkpoint /\ wk.cp \in Checkpoint /\ asks \in Seq(Ask)
  BY WorkerFacts
<1>2. \A cp \in Checkpoint : Kept(cp, asks, produced) => Kept(cp, asks', produced)
  <2> SUFFICES ASSUME NEW cp \in Checkpoint, Kept(cp, asks, produced)
               PROVE  Kept(cp, asks', produced)
    OBVIOUS
  <2>1. cp.queue \in Seq(Entry)
    BY CheckpointFacts
  <2>2. Paths(cp.queue, asks') = Paths(cp.queue, asks) /\ (Rooted(cp.queue, asks) => Rooted(cp.queue, asks'))
    BY <1>1, <2>1, SamePlacesRooted
  <2> QED BY <2>2 DEF Kept, Gathered
<1>3. GatheredSaved'
  BY <1>1, <1>2 DEF GatherInv, GatheredSaved, Terminal
<1>4. GatheredInMemory'
  BY <1>1, <1>2 DEF GatherInv, GatheredInMemory
<1> QED BY <1>3, <1>4 DEF GatherInv, WaitsLate, ProducedMerged, Terminal

-----------------------------------------------------------------------------
(* The steps that leave contexts alone.                                    *)

LEMMA ClaimGather ==
    ASSUME IInv, GatherInv, Claim
    PROVE  GatherInv'
<1>1. /\ status' = "running" /\ wk'.pc = "head" /\ wk'.cp = saved /\ wk'.seen = {}
      /\ UNCHANGED <<saved, asks, produced>> /\ status \notin Terminal
  BY DEF Claim, Terminal
<1>2. Kept(saved, asks, produced)
  BY <1>1 DEF GatherInv, GatheredSaved
<1>3. LeftLate(saved'.queue, wk'.cp.queue) /\ PastRoot(wk'.cp, wk'.seen, wk'.pc # "head")
  BY <1>1 DEF LeftLate, PastRoot
<1> QED BY <1>1, <1>2, <1>3 DEF GatherInv, GatheredSaved, GatheredInMemory, WaitsLate, ProducedMerged

LEMMA CrashGather ==
    ASSUME IInv, GatherInv, Crash
    PROVE  GatherInv'
BY DEF Crash, Idle, GatherInv, GatheredSaved, GatheredInMemory, WaitsLate, ProducedMerged

LEMMA RefuseAskGather ==
    ASSUME IInv, GatherInv, RefuseAsk
    PROVE  GatherInv'
BY ThrowGather DEF RefuseAsk

LEMMA ThrowErrorGather ==
    ASSUME IInv, GatherInv, ThrowError
    PROVE  GatherInv'
BY ThrowGather DEF ThrowError

LEMMA ReconcileExhaustedGather ==
    ASSUME IInv, GatherInv, ReconcileExhausted
    PROVE  GatherInv'
BY ThrowGather DEF ReconcileExhausted

LEMMA PauseGather ==
    ASSUME IInv, GatherInv, Pause
    PROVE  GatherInv'
BY DEF Pause, GatherInv, GatheredSaved, GatheredInMemory, WaitsLate, ProducedMerged, Terminal

LEMMA ResumeGather ==
    ASSUME IInv, GatherInv, Resume
    PROVE  GatherInv'
<1>1. status = "blocked" /\ status' \in {"queued", "waiting"} /\ UNCHANGED <<saved, wk, asks, produced>>
      /\ (status' = "waiting" => saved.queue = <<>>)
  BY DEF Resume
<1>2. status' = "waiting" => AllLate(saved.queue)
  BY <1>1 DEF AllLate
<1>3. Kept(saved, asks, produced)
  BY <1>1 DEF GatherInv, GatheredSaved, Terminal
<1> QED BY <1>1, <1>2, <1>3 DEF GatherInv, GatheredSaved, GatheredInMemory, WaitsLate, ProducedMerged

LEMMA StopGather ==
    ASSUME Stop
    PROVE  GatherInv'
BY DEF Stop, GatherInv, GatheredSaved, GatheredInMemory, WaitsLate, ProducedMerged, Terminal

\* The segment ends; if the run succeeds, nothing is open and the context has everything.
LEMMA CloseSegmentGather ==
    ASSUME IInv, GatherInv, CloseSegment
    PROVE  GatherInv'
<1>1. wk.pc = "head" /\ wk.cp.queue = <<>> /\ produced' = produced
  BY DEF CloseSegment
<1>2. CASE Throw /\ saved' = saved
  BY <1>1, <1>2, ThrowGather
<1>3. CASE status = "running" /\ status' = "waiting" /\ wk' = Idle /\ UNCHANGED <<saved, asks>>
  <2>1. Kept(saved, asks, produced) /\ LeftLate(saved.queue, wk.cp.queue)
    BY <1>1, <1>3, GatherFacts
  <2>2. AllLate(saved.queue)
    BY <1>1, <2>1 DEF LeftLate, AllLate
  <2> QED BY <1>1, <1>3, <2>1, <2>2 DEF GatherInv, GatheredSaved, GatheredInMemory, WaitsLate, ProducedMerged
<1>4. CASE status = "running" /\ ~Outstanding /\ status' = "success" /\ saved' = wk.cp
  <2>1. Kept(wk.cp, asks, produced)
    BY <1>1, <1>4, GatherFacts
  <2>2. wk.cp \in Checkpoint /\ asks \in Seq(Ask) /\ wk.cp.queue \in Seq(Entry)
    BY WorkerFacts, CheckpointFacts
  <2>3. Sound(wk.cp, asks, joins) /\ Complete(wk.cp, asks, joins)
    BY <1>1, <1>4, MemoryFacts
  <2>4. \A z : ~HeldBy(z, wk.cp.queue, asks)
    BY <1>1, <1>4 DEF HeldBy, Outstanding
  <2>5. Paths(wk.cp.queue, asks) = {}
    BY <2>2, <2>4, PathsOf
  <2>6. \A f \in Frame : ~Open(wk.cp, f)
    <3>1. Counted(wk.cp.frames) /\ Covered({}, wk.cp.frames)
      BY <2>3, <2>5 DEF Sound, Complete, Forest
    <3> QED BY <2>2, <3>1, NoneOpen
  <2>7. produced \subseteq wk.cp.ctx
    BY <2>1, <2>6 DEF Kept, Gathered, Collected
  <2> QED BY <1>1, <1>4, <2>7 DEF GatherInv, GatheredSaved, GatheredInMemory, WaitsLate, ProducedMerged, Terminal
<1> QED BY <1>2, <1>3, <1>4 DEF CloseSegment

-----------------------------------------------------------------------------
(* The steps that drop the head of the queue, and the one that records it. *)

LEMMA SavedSound ==
    ASSUME IInv', NEW cp, NEW pc \in {"head", "work"}, NEW seen, Save(cp, pc, seen), status = "running"
    PROVE  Sound(cp, asks, joins') /\ Complete(cp, asks, joins')
<1>1. wk' = [pc |-> pc, cp |-> cp, seen |-> seen] /\ status' = "running" /\ asks' = asks
  BY DEF Save
<1>2. wk'.pc # "idle" /\ wk'.cp = cp
  BY <1>1
<1> QED BY <1>1, <1>2 DEF IInv, InMemory, Terminal

LEMMA KeptDrop ==
    ASSUME NEW cp \in Checkpoint, NEW cp2 \in Checkpoint, NEW a \in Seq(Ask), NEW jn, Sound(cp, a, jn),
           Sound(cp2, a, jn), NEW prod, Kept(cp, a, prod), cp.queue # <<>>, cp2.queue = Tail(cp.queue),
           cp2.scopes = cp.scopes,
           \A f \in Frame : cp2.frames[f].expected = cp.frames[f].expected /\ (Open(cp, f) <=> Open(cp2, f)),
           cp.queue[1].tokens = <<>> => cp2.ctx = cp.ctx
    PROVE  Kept(cp2, a, prod)
<1>1. Rooted(cp.queue, a) /\ Gathered(cp, a, prod) /\ cp.queue \in Seq(Entry)
  BY CheckpointFacts DEF Kept
<1>2. Rooted(cp2.queue, a)
  BY <1>1, TailRooted
<1>3. Forest(Paths(cp2.queue, a), cp2.frames)
  BY DEF Sound
<1>4. Gathered(cp2, a, prod)
  BY <1>1, <1>3, GatheredDrop
<1> QED BY <1>2, <1>4 DEF Kept

LEMMA SameOpen ==
    ASSUME NEW cp, NEW cp2, cp2.frames = cp.frames
    PROVE  \A f \in Frame : cp2.frames[f].expected = cp.frames[f].expected /\ (Open(cp, f) <=> Open(cp2, f))
BY DEF Open, Forked, Released

\* The context at hand is dropped with the entry, unless it is the one outside all frames.
LEMMA HereContext ==
    ASSUME IInv, wk.cp.queue # <<>>
    PROVE  /\ Drop(Here).scopes = wk.cp.scopes
           /\ wk.cp.queue[1].tokens = <<>> => Drop(Here).ctx = wk.cp.ctx
<1>1. Here \in Checkpoint /\ Here.queue = wk.cp.queue /\ Here.scopes = wk.cp.scopes
      /\ (Current.tokens = <<>> => Here = wk.cp) /\ Current = wk.cp.queue[1]
  BY HereFacts, WorkerFacts
<1>2. Drop(Here).scopes = Here.scopes /\ Drop(Here).ctx = Here.ctx
  BY <1>1, DropFacts
<1> QED BY <1>1, <1>2

LEMMA SkipRepeatedGather ==
    ASSUME Nested, IInv, IInv', GatherInv, SkipRepeated
    PROVE  GatherInv'
<1> DEFINE cp == wk.cp
           cp2 == Drop(Here)
<1>1. /\ wk.pc = "head" /\ cp.queue # <<>> /\ Key(Current) \in wk.seen
      /\ wk' = [wk EXCEPT !.cp = cp2] /\ UNCHANGED <<status, saved, asks, produced, joins>>
  BY DEF SkipRepeated
<1>2. wk'.cp = cp2 /\ wk'.pc = "head" /\ wk'.seen = wk.seen /\ wk.pc # "idle"
  BY <1>1 DEF IInv, WkType
<1>3. CASE status # "running"
  BY <1>1, <1>3, <1>2 DEF GatherInv, GatheredSaved, GatheredInMemory, WaitsLate, ProducedMerged
<1>4. CASE status = "running"
  <2>1. /\ Kept(cp, asks, produced) /\ LeftLate(saved.queue, cp.queue) /\ PastRoot(cp, wk.seen, FALSE)
    BY <1>1, <1>4, GatherFacts
  <2>2. /\ cp \in Checkpoint /\ asks \in Seq(Ask) /\ wk.seen \in SUBSET Keys /\ Current = cp.queue[1]
        /\ cp.queue \in Seq(Entry)
    BY <1>1, WorkerFacts, CheckpointFacts
  <2>3. Sound(cp, asks, joins) /\ Past(cp, wk.seen, FALSE)
    BY <1>1, MemoryFacts
  <2>4. cp2 \in Checkpoint /\ cp2.queue = Tail(cp.queue) /\ cp2.frames = cp.frames
    BY <1>1, HereFacts
  <2>5. cp2.scopes = cp.scopes /\ (cp.queue[1].tokens = <<>> => cp2.ctx = cp.ctx)
    BY <1>1, HereContext
  <2>6. Sound(cp2, asks, joins)
    BY <1>1, <1>2 DEF IInv, InMemory
  <2>7. LatePlain(cp.queue[1])
    BY <1>1, <2>1, <2>2, <2>3, RepeatedIsLate
  <2> HIDE DEF cp, cp2
  <2>8. Kept(cp2, asks, produced)
    BY <1>1, <2>1, <2>2, <2>3, <2>4, <2>5, <2>6, SameOpen, KeptDrop
  <2>9. PastRoot(cp2, wk.seen, FALSE)
    BY <1>1, <2>1, <2>2, <2>4, PastRootDrop
  <2>10. LeftLate(saved.queue, cp2.queue)
    <3> SUFFICES ASSUME NEW i \in DOMAIN saved.queue, ~LatePlain(saved.queue[i])
                 PROVE  \E k \in DOMAIN cp2.queue : cp2.queue[k] = saved.queue[i]
      BY DEF LeftLate
    <3>1. PICK k \in DOMAIN cp.queue : cp.queue[k] = saved.queue[i]
      BY <2>1 DEF LeftLate
    <3>2. k # 1
      BY <2>7, <3>1
    <3>3. k - 1 \in DOMAIN Tail(cp.queue) /\ Tail(cp.queue)[k - 1] = cp.queue[k]
      BY <1>1, <2>2, <3>2, TailFacts
    <3> QED BY <2>4, <3>1, <3>3
  <2>11. GatheredInMemory'
    BY <1>1, <1>2, <2>8, <2>9, <2>10 DEF GatheredInMemory
  <2> QED BY <1>1, <1>4, <2>11 DEF GatherInv, GatheredSaved, WaitsLate, ProducedMerged
<1> QED BY <1>3, <1>4

LEMMA ReuseAskGather ==
    ASSUME Nested, IInv, IInv', GatherInv, ReuseAsk
    PROVE  GatherInv'
<1> DEFINE cp == wk.cp
           cp2 == Drop(Here)
<1>1. wk.pc = "head" /\ cp.queue # <<>> /\ Save(cp2, "head", wk.seen) /\ UNCHANGED <<produced, joins>>
  BY DEF ReuseAsk, Fresh
<1>2. ASSUME status = "running"
      PROVE  Kept(cp2, asks, produced) /\ PastRoot(cp2, wk.seen, FALSE)
  <2>1. Kept(cp, asks, produced) /\ PastRoot(cp, wk.seen, FALSE)
    BY <1>1, <1>2, GatherFacts
  <2>2. cp \in Checkpoint /\ asks \in Seq(Ask) /\ wk.seen \in SUBSET Keys
    BY WorkerFacts
  <2>3. Sound(cp, asks, joins)
    BY <1>1, MemoryFacts
  <2>4. cp2 \in Checkpoint /\ cp2.queue = Tail(cp.queue) /\ cp2.frames = cp.frames
    BY <1>1, HereFacts
  <2>5. cp2.scopes = cp.scopes /\ (cp.queue[1].tokens = <<>> => cp2.ctx = cp.ctx)
    BY <1>1, HereContext
  <2>6. Sound(cp2, asks, joins)
    BY <1>1, <1>2, SavedSound
  <2> HIDE DEF cp, cp2
  <2>7. Kept(cp2, asks, produced)
    BY <1>1, <2>1, <2>2, <2>3, <2>4, <2>5, <2>6, SameOpen, KeptDrop
  <2> QED BY <1>1, <2>1, <2>2, <2>4, <2>7, PastRootDrop
<1> HIDE DEF cp, cp2
<1> QED BY <1>1, <1>2, SaveGather

LEMMA LeaveBranchGather ==
    ASSUME Nested, IInv, IInv', GatherInv, LeaveBranch
    PROVE  GatherInv'
<1> DEFINE cp == wk.cp
           cp2 == Drop(cp)
<1>1. wk.pc = "asked" /\ Save(cp2, "head", wk.seen) /\ UNCHANGED <<produced, joins>>
  BY DEF LeaveBranch
<1>2. ASSUME status = "running"
      PROVE  Kept(cp2, asks, produced) /\ PastRoot(cp2, wk.seen, FALSE)
  <2>1. Kept(cp, asks, produced) /\ PastRoot(cp, wk.seen, TRUE)
    BY <1>1, <1>2, GatherFacts
  <2>2. cp \in Checkpoint /\ asks \in Seq(Ask) /\ wk.seen \in SUBSET Keys
    BY WorkerFacts
  <2>3. Sound(cp, asks, joins) /\ cp.queue # <<>>
    BY <1>1, DoneFacts
  <2>4. cp2 \in Checkpoint /\ cp2.queue = Tail(cp.queue) /\ cp2.frames = cp.frames
        /\ cp2.scopes = cp.scopes /\ cp2.ctx = cp.ctx
    BY <2>2, <2>3, DropFacts
  <2>5. Sound(cp2, asks, joins)
    BY <1>1, <1>2, SavedSound
  <2> HIDE DEF cp, cp2
  <2>6. Kept(cp2, asks, produced)
    BY <2>1, <2>2, <2>3, <2>4, <2>5, SameOpen, KeptDrop
  <2> QED BY <2>1, <2>2, <2>3, <2>4, <2>6, PastRootDrop
<1> HIDE DEF cp, cp2
<1> QED BY <1>1, <1>2, SaveGather

LEMMA WaitAtJoinGather ==
    ASSUME Nested, IInv, IInv', GatherInv, WaitAtJoin
    PROVE  GatherInv'
<1> DEFINE cp == wk.cp
           e == Current
           t == LastToken(e.tokens)
           d == Drop(Here)
           cp2 == [d EXCEPT !.frames[t.frame].arrived = @ \cup {t.branch}]
<1>1. /\ wk.pc = "head" /\ cp.queue # <<>> /\ Kind[e.node] = "join" /\ e.joined = NoFrame
      /\ ~Releases(e) /\ Save(cp2, "head", wk.seen) /\ UNCHANGED <<produced, joins>>
  BY DEF WaitAtJoin, Arriving, Fresh
<1>2. ASSUME status = "running"
      PROVE  Kept(cp2, asks, produced) /\ PastRoot(cp2, wk.seen, FALSE)
  <2>1. Kept(cp, asks, produced) /\ PastRoot(cp, wk.seen, FALSE)
    BY <1>1, <1>2, GatherFacts
  <2>2. cp \in Checkpoint /\ asks \in Seq(Ask) /\ wk.seen \in SUBSET Keys /\ e = cp.queue[1]
        /\ 1 \in DOMAIN cp.queue /\ cp.queue \in Seq(Entry) /\ e.tokens \in Seq(BranchToken)
    BY <1>1, WorkerFacts, CheckpointFacts
  <2>3. Sound(cp, asks, joins)
    BY <1>1, MemoryFacts
  <2>4. d \in Checkpoint /\ d.queue = Tail(cp.queue) /\ d.frames = cp.frames
    BY <1>1, HereFacts
  <2>5. d.scopes = cp.scopes
    BY <1>1, HereContext
  <2>6. Sound(cp2, asks, joins)
    BY <1>1, <1>2, SavedSound
  <2>7. e.tokens # <<>>
    <3> DEFINE q == cp.queue
    <3>1. Placed(q) /\ 1 \in DOMAIN q /\ Kind[q[1].node] = "join" /\ q[1].joined = NoFrame /\ q \in Seq(Entry)
      BY <1>1, <2>2, <2>3 DEF Sound
    <3>2. q[1].tokens # <<>>
      <4> HIDE DEF q
      <4> QED BY <3>1, JoinInside
    <3> QED BY <2>2, <3>2
  <2>8. t \in BranchToken /\ t.frame \in Frame
    BY <2>2, <2>7, TokenFacts
  <2>9. t.branch \in cp.frames[t.frame].expected \ cp.frames[t.frame].arrived
    <3>1. HeldBy(e.tokens, cp.queue, asks)
      BY <2>2 DEF HeldBy
    <3>2. e.tokens \in Paths(cp.queue, asks) /\ e.tokens \in Path
      BY <2>2, <2>7, <3>1, PathsOf DEF Path
    <3>3. Len(e.tokens) \in DOMAIN e.tokens /\ t = e.tokens[Len(e.tokens)]
      BY <3>2, PathFacts
    <3> QED BY <2>3, <3>2, <3>3 DEF Sound, Forest, Live
  <2> HIDE DEF d, t
  <2>10. cp2 \in Checkpoint /\ cp2.queue = d.queue /\ cp2.scopes = d.scopes /\ Arrived(d.frames, cp2.frames, t)
    BY <2>4, <2>8, WaitFacts
  <2> HIDE DEF cp2
  <2>11. \A f \in Frame : cp2.frames[f].expected = cp.frames[f].expected /\ (Open(cp, f) <=> Open(cp2, f))
    <3>1. cp.frames[t.frame].arrived \cup {t.branch} # cp.frames[t.frame].expected
      BY <1>1, <2>9 DEF Releases, t, cp
    <3>2. cp.frames[t.frame].arrived # cp.frames[t.frame].expected
      BY <2>9
    <3>3. ASSUME NEW f \in Frame
          PROVE  cp2.frames[f].expected = cp.frames[f].expected /\ (Open(cp, f) <=> Open(cp2, f))
      <4>1. CASE f = t.frame
        BY <2>4, <2>10, <3>1, <3>2, <4>1 DEF Arrived, Open, Forked, Released
      <4>2. CASE f # t.frame
        BY <2>4, <2>10, <4>2 DEF Arrived, Open, Forked, Released
      <4> QED BY <4>1, <4>2
    <3> QED BY <3>3
  <2>12. cp2.queue = Tail(cp.queue) /\ cp2.scopes = cp.scopes /\ cp.queue[1].tokens # <<>>
    BY <2>2, <2>4, <2>5, <2>7, <2>10
  <2> HIDE DEF cp, e
  <2>13. Kept(cp2, asks, produced)
    BY <1>1, <2>1, <2>2, <2>3, <2>6, <2>10, <2>11, <2>12, KeptDrop
  <2> QED BY <1>1, <2>1, <2>2, <2>10, <2>12, <2>13, PastRootDrop
<1> HIDE DEF cp2
<1> QED BY <1>1, <1>2, SaveGather

LEMMA CreateAskGather ==
    ASSUME Nested, ~Pooled, IInv, IInv', GatherInv, CreateAsk
    PROVE  GatherInv'
<1> DEFINE x == [node |-> Current.node, tokens |-> Current.tokens, pending |-> TRUE,
                 accepted |-> FALSE, status |-> "open"]
           cp == wk.cp
<1>1. /\ wk.pc = "work" /\ status = "running" /\ ~AskTaken(Current) /\ asks' = Append(asks, x)
      /\ wk' = [wk EXCEPT !.pc = "asked"] /\ UNCHANGED <<status, saved, produced>>
  BY DEF CreateAsk
<1>2. wk'.cp = cp /\ wk'.pc = "asked" /\ wk'.seen = wk.seen
  BY <1>1 DEF IInv, WkType
<1>3. cp = saved /\ cp.queue # <<>> /\ Current = cp.queue[1]
  BY <1>1, DoneFacts
<1>4. asks \in Seq(Ask) /\ cp \in Checkpoint /\ cp.queue \in Seq(Entry) /\ Current.node \in Nodes
      /\ Current.tokens \in Seq(BranchToken)
  BY <1>3, WorkerFacts, CheckpointFacts
<1>5. x \in Ask
  BY <1>4 DEF Ask
<1>6. ~IsAsked(asks, x.node, x.tokens)
  BY <1>1 DEF AskTaken, IsAsked
<1>7. /\ Kept(cp, asks, produced) /\ LeftLate(saved.queue, cp.queue)
      /\ PastRoot(cp, wk.seen, TRUE) /\ AtHand(cp)
  BY <1>1, GatherFacts
<1>8. x.node = cp.queue[1].node /\ x.tokens = cp.queue[1].tokens
  BY <1>3
<1> HIDE DEF x, cp
<1>9. Kept(cp, asks', produced)
  <2>1. Rooted(cp.queue, Append(asks, x)) /\ Paths(cp.queue, Append(asks, x)) = Paths(cp.queue, asks)
    BY <1>3, <1>4, <1>5, <1>6, <1>7, <1>8, CreateRooted DEF Kept
  <2> QED BY <1>1, <1>7, <2>1 DEF Kept, Gathered
<1>10. GatheredInMemory'
  BY <1>1, <1>2, <1>7, <1>9 DEF GatheredInMemory
<1>11. GatheredSaved'
  BY <1>1, <1>3, <1>9 DEF GatheredSaved
<1> QED BY <1>1, <1>10, <1>11 DEF GatherInv, WaitsLate, ProducedMerged

-----------------------------------------------------------------------------
(* The steps that save what is at hand.                                    *)

LEMMA SaveScopeWorks ==
    ASSUME NEW cp \in Checkpoint, NEW cp1 \in Checkpoint, NEW s \in Seq(BranchToken), NEW F \in SUBSET Frame,
           \A f \in F : cp1.scopes[f] = cp.scopes[f] /\ cp1.frames[f].expected = cp.frames[f].expected,
           s # <<>> => Scope(cp, LastToken(s)) \subseteq cp1.ctx
    PROVE  Works(cp, SaveScope(cp1, s), s, F)
<1> DEFINE cp2 == SaveScope(cp1, s)
<1>1. cp2.frames = cp1.frames /\ cp2.ctx = cp1.ctx /\ (s = <<>> => cp2 = cp1)
  BY SaveScopeFacts
<1>2. \A f \in Frame : cp2.scopes[f].base = cp1.scopes[f].base
  BY SaveScopeFacts
<1>3. s # <<>> => \A f \in Frame, b \in Nodes : cp2.scopes[f].branch[b] =
         IF f = LastToken(s).frame /\ b = LastToken(s).branch THEN cp1.ctx ELSE cp1.scopes[f].branch[b]
  BY SaveScopeFacts
<1> HIDE DEF cp2
<1>4. ASSUME NEW f \in F
      PROVE  /\ cp2.scopes[f].base = cp.scopes[f].base
             /\ cp2.frames[f].expected = cp.frames[f].expected
             /\ \A b \in Nodes : cp2.scopes[f].branch[b] =
                   IF s # <<>> /\ f = LastToken(s).frame /\ b = LastToken(s).branch
                   THEN cp2.ctx ELSE cp.scopes[f].branch[b]
  <2>1. cp1.scopes[f] = cp.scopes[f] /\ cp1.frames[f].expected = cp.frames[f].expected
    OBVIOUS
  <2>2. CASE s = <<>>
    BY <1>1, <2>1, <2>2
  <2>3. CASE s # <<>>
    BY <1>1, <1>2, <1>3, <2>1, <2>3
  <2> QED BY <2>2, <2>3
<1>5. s # <<>> => Scope(cp, LastToken(s)) \subseteq cp2.ctx
  BY <1>1
<1> QED BY <1>4, <1>5 DEF Works, cp2

\* The path that saved holds what is at hand.
LEMMA WorksAtHand ==
    ASSUME NEW cp \in Checkpoint, NEW cp2 \in Checkpoint, NEW s \in Seq(BranchToken),
           Works(cp, cp2, s, Frame), cp2.queue[1].tokens = s
    PROVE  AtHand(cp2)
<1>1. s # <<>> => LastToken(s).frame \in Frame
  BY TokenFacts
<1>2. s # <<>> => Scope(cp2, LastToken(s)) = cp2.ctx
  BY <1>1, WorksGrows
<1> QED BY <1>2 DEF AtHand

LEMMA HeldHead ==
    ASSUME NEW q \in Seq(Entry), NEW a \in Seq(Ask), q # <<>>, Rooted(q, a), NEW s, s = q[1].tokens
    PROVE  /\ s # <<>> => s \in Paths(q, a)
           /\ s = <<>> => Paths(q, a) = {}
<1>1. 1 \in DOMAIN q
  BY TailFacts
<1>2. HeldBy(s, q, a)
  BY <1>1 DEF HeldBy
<1> QED BY <1>2, PathsOf DEF Rooted

LEMMA BeginNodeGather ==
    ASSUME Nested, IInv, IInv', GatherInv, BeginNode
    PROVE  GatherInv'
<1> DEFINE cp == wk.cp
           e == Current
           s == e.tokens
           P == Paths(cp.queue, asks)
           cp1 == IF e.joined = NoFrame THEN Here ELSE [Here EXCEPT !.ctx = Merge(Here, e.joined)]
           cp2 == SaveScope(cp1, s)
           seen2 == wk.seen \cup {Key(e)}
<1>1. wk.pc = "head" /\ cp.queue # <<>> /\ Save(cp2, "work", seen2) /\ UNCHANGED <<produced, joins>>
  BY DEF BeginNode, Fresh
<1>2. ASSUME status = "running"
      PROVE  Kept(cp2, asks, produced) /\ PastRoot(cp2, seen2, TRUE) /\ AtHand(cp2)
  <2>1. Rooted(cp.queue, asks) /\ Gathered(cp, asks, produced) /\ PastRoot(cp, wk.seen, FALSE)
    BY <1>1, <1>2, GatherFacts DEF Kept
  <2>2. cp \in Checkpoint /\ asks \in Seq(Ask) /\ wk.seen \in SUBSET Keys /\ e = cp.queue[1]
        /\ 1 \in DOMAIN cp.queue /\ cp.queue \in Seq(Entry) /\ s \in Seq(BranchToken)
        /\ e.joined \in Frame \cup {NoFrame}
    BY <1>1, WorkerFacts, CheckpointFacts
  <2>3. Sound(cp, asks, joins) /\ Complete(cp, asks, joins)
    BY <1>1, <1>2, MemoryFacts
  <2>4. Here \in Checkpoint /\ Here.queue = cp.queue /\ Here.frames = cp.frames /\ Here.scopes = cp.scopes
        /\ (s = <<>> => Here = cp)
    BY <1>1, HereFacts
  <2>5. s # <<>> => Here.ctx = Scope(cp, LastToken(s))
    BY <2>2, ActivateFacts DEF Here, Scope
  <2>6. /\ cp1 \in Checkpoint /\ cp1.queue = cp.queue /\ cp1.frames = cp.frames /\ cp1.scopes = cp.scopes
        /\ cp1.ctx = IF e.joined = NoFrame THEN Here.ctx ELSE Merge(cp, e.joined)
    <3>1. CASE e.joined = NoFrame
      BY <2>4, <3>1
    <3>2. CASE e.joined # NoFrame
      <4> DEFINE c == Merge(Here, e.joined)
                 d == Here
      <4>1. c \in SUBSET Nodes
        BY <2>2, <2>4, <3>2, MergeFacts
      <4>2. cp1 = [d EXCEPT !.ctx = c]
        BY <3>2
      <4>3. c = Merge(cp, e.joined)
        BY <2>4 DEF Merge
      <4> HIDE DEF c, d, cp1
      <4>4. LET y == [d EXCEPT !.ctx = c]
            IN  y \in Checkpoint /\ y.queue = d.queue /\ y.ctx = c /\ y.scopes = d.scopes /\ y.frames = d.frames
        BY <2>4, <4>1, ContextFacts DEF d
      <4> QED BY <2>4, <3>2, <4>2, <4>3, <4>4 DEF d
    <3> QED BY <3>1, <3>2
  <2>7. Homed(e, cp)
    BY <2>1, <2>2 DEF Gathered
  <2>8. (s = <<>> => cp.ctx \subseteq cp1.ctx) /\ (s # <<>> => Scope(cp, LastToken(s)) \subseteq cp1.ctx)
    <3>1. CASE e.joined = NoFrame
      BY <2>4, <2>5, <2>6, <3>1
    <3>2. CASE e.joined # NoFrame
      BY <2>2, <2>6, <2>7, <3>2 DEF Homed
    <3> QED BY <3>1, <3>2
  <2>9. e.joined \in Frame => cp1.ctx = Merge(cp, e.joined)
    BY <2>6, NoFrameFacts
  <2> HIDE DEF cp1, cp, e, s
  <2>10. cp2 \in Checkpoint /\ cp2.queue = cp.queue /\ cp2.frames = cp.frames /\ cp2.ctx = cp1.ctx
    BY <2>2, <2>6, SaveScopeFacts
  <2>11. Works(cp, cp2, s, Frame)
    BY <2>2, <2>6, <2>8, SaveScopeWorks
  <2> HIDE DEF cp2
  <2>12. (s # <<>> => s \in P) /\ (s = <<>> => P = {})
    BY <1>1, <2>1, <2>2, HeldHead DEF s
  <2>13. \A i \in DOMAIN cp2.queue : cp2.queue[i].joined \in Frame =>
             \/ cp2.queue[i].tokens = s /\ cp2.ctx \subseteq Merge(cp, cp2.queue[i].joined)
             \/ /\ cp2.queue[i].tokens # <<>> /\ cp2.queue[i].tokens # s
                /\ Scope(cp, LastToken(cp2.queue[i].tokens)) \subseteq Merge(cp, cp2.queue[i].joined)
    <3> SUFFICES ASSUME NEW i \in DOMAIN cp.queue, cp.queue[i].joined \in Frame
                 PROVE  \/ cp.queue[i].tokens = s /\ cp2.ctx \subseteq Merge(cp, cp.queue[i].joined)
                        \/ /\ cp.queue[i].tokens # <<>> /\ cp.queue[i].tokens # s
                           /\ Scope(cp, LastToken(cp.queue[i].tokens)) \subseteq Merge(cp, cp.queue[i].joined)
      BY <2>10
    <3>1. CASE i = 1
      BY <2>2, <2>9, <2>10, <3>1 DEF s
    <3>2. CASE i # 1
      <4>1. Gathered(cp, asks, {})
        BY <2>1, FewerGathered
      <4> QED BY <2>1, <2>2, <2>3, <3>2, <4>1, MarkedInside DEF s
    <3> QED BY <3>1, <3>2
  <2>14. Forest(P, cp.frames) /\ Counted(cp.frames) /\ Covered(P, cp.frames)
    BY <2>3 DEF Sound, Complete, Forest
  <2>15. P = Paths(cp2.queue, asks) /\ Forest(P, cp2.frames)
    BY <2>10, <2>14
  <2>16. (s = <<>> => cp.ctx \subseteq cp2.ctx) /\ produced \in SUBSET (produced \cup cp2.ctx) /\ P \subseteq P
    BY <2>8, <2>10
  <2>17. P = Paths(cp.queue, asks)
    OBVIOUS
  <2> HIDE DEF P
  <2>18. Gathered(cp2, asks, produced)
    BY <2>1, <2>2, <2>10, <2>11, <2>12, <2>13, <2>14, <2>15, <2>16, <2>17, GatheredOnwards
  <2>19. Kept(cp2, asks, produced)
    BY <2>1, <2>10, <2>18 DEF Kept
  <2>20. PastRoot(cp2, seen2, TRUE)
    BY <1>1, <2>1, <2>2, <2>10, PastRootBegin
  <2>21. AtHand(cp2)
    BY <2>2, <2>10, <2>11, WorksAtHand DEF s
  <2> QED BY <2>19, <2>20, <2>21
<1> HIDE DEF cp2, seen2
<1> QED BY <1>1, <1>2, SaveGather

LEMMA OpenJoinGather ==
    ASSUME Nested, IInv, IInv', GatherInv, OpenJoin
    PROVE  GatherInv'
<1> DEFINE cp == wk.cp
           e == Current
           s == e.tokens
           t == LastToken(s)
           up == Parent(s)
           x == [e EXCEPT !.tokens = up, !.joined = t.frame]
           c == Merge(Here, t.frame)
           cp1 == [Here EXCEPT !.frames[t.frame].arrived = @ \cup {t.branch}, !.ctx = c,
                               !.queue = <<x>> \o Tail(@)]
           cp2 == SaveScope(cp1, up)
           seen2 == wk.seen \cup {Key(e)}
           P == Paths(cp.queue, asks)
           P2 == Paths(cp2.queue, asks)
<1>1. /\ wk.pc = "head" /\ cp.queue # <<>> /\ Kind[e.node] = "join" /\ e.joined = NoFrame
      /\ Releases(e) /\ Save(cp2, "work", seen2) /\ UNCHANGED <<produced, joins>>
  BY DEF OpenJoin, Arriving, Fresh
<1>2. ASSUME status = "running"
      PROVE  Kept(cp2, asks, produced) /\ PastRoot(cp2, seen2, TRUE) /\ AtHand(cp2)
  <2>1. Rooted(cp.queue, asks) /\ Gathered(cp, asks, produced) /\ PastRoot(cp, wk.seen, FALSE)
    BY <1>1, <1>2, GatherFacts DEF Kept
  <2>2. cp \in Checkpoint /\ asks \in Seq(Ask) /\ wk.seen \in SUBSET Keys /\ e = cp.queue[1]
        /\ 1 \in DOMAIN cp.queue /\ cp.queue \in Seq(Entry) /\ s \in Seq(BranchToken) /\ e \in Entry
        /\ AsksPlaced(asks)
    BY <1>1, WorkerFacts, CheckpointFacts
  <2>3. Sound(cp, asks, joins)
    BY <1>1, MemoryFacts
  <2>4. Here \in Checkpoint /\ Here.queue = cp.queue /\ Here.frames = cp.frames /\ Here.scopes = cp.scopes
    BY <1>1, HereFacts
  <2>5. Sound(cp2, asks, joins) /\ Complete(cp2, asks, joins)
    BY <1>1, <1>2, SavedSound
  <2>6. s # <<>>
    <3> DEFINE q == cp.queue
    <3>1. Placed(q) /\ 1 \in DOMAIN q /\ Kind[q[1].node] = "join" /\ q[1].joined = NoFrame /\ q \in Seq(Entry)
      BY <1>1, <2>2, <2>3 DEF Sound
    <3>2. q[1].tokens # <<>>
      <4> HIDE DEF q
      <4> QED BY <3>1, JoinInside
    <3> QED BY <2>2, <3>2
  <2>7. t \in BranchToken /\ t.frame \in Frame /\ t.branch \in Nodes /\ up \in Seq(BranchToken)
    <3>1. s \in Path
      BY <2>2, <2>6 DEF Path
    <3> QED BY <3>1, TokenFacts, PathFacts, <2>2, <2>6
  <2>8. cp.frames[t.frame].arrived \cup {t.branch} = cp.frames[t.frame].expected
    BY <1>1 DEF Releases
  <2> HIDE DEF e, s, t, up
  <2>9. x \in Entry /\ x.node = e.node /\ x.tokens = up /\ x.joined = t.frame
    BY <2>2, <2>7 DEF Entry
  <2>10. c \in SUBSET Nodes
    BY <2>4, <2>7, MergeFacts
  <2>11. c = Merge(cp, t.frame)
    BY <2>4 DEF Merge
  <2> HIDE DEF x, c
  <2>12. /\ cp1 \in Checkpoint /\ cp1.queue = <<x>> \o Tail(cp.queue) /\ Arrived(cp.frames, cp1.frames, t)
         /\ cp1.ctx = c /\ cp1.scopes = cp.scopes
    <3> DEFINE d == Here
    <3> HIDE DEF d
    <3>1. d \in Checkpoint /\ d.queue # <<>>
      BY <1>1, <2>4 DEF d
    <3>2. cp1 = Opening(d, t, x, c)
      BY DEF d, Opening
    <3> HIDE DEF cp1
    <3>3. cp1 \in Checkpoint
      BY <2>7, <2>9, <2>10, <3>1, <3>2, OpenFacts
    <3>4. cp1.queue = <<x>> \o Tail(d.queue)
      BY <2>7, <2>9, <2>10, <3>1, <3>2, OpenFacts
    <3>5. Arrived(d.frames, cp1.frames, t)
      BY <2>7, <2>9, <2>10, <3>1, <3>2, OpenFacts
    <3>6. cp1.ctx = c /\ cp1.scopes = d.scopes
      BY <2>7, <2>9, <2>10, <3>1, <3>2, OpenFacts
    <3> QED BY <2>4, <3>3, <3>4, <3>5, <3>6 DEF d
  <2> HIDE DEF cp1
  <2>13. cp2 \in Checkpoint /\ cp2.queue = cp1.queue /\ cp2.frames = cp1.frames /\ cp2.ctx = cp1.ctx
    BY <2>7, <2>12, SaveScopeFacts
  <2>14. P \in SUBSET Path /\ Forest(P, cp.frames)
    BY <2>2, <2>3, PathsOf DEF Sound
  <2>15. s \in P
    BY <1>1, <2>1, <2>2, <2>6, HeldHead DEF s
  <2>16. Paths(Tail(cp.queue), asks) = P \ {s}
    <3>1. Kind[cp.queue[1].node] \notin Human
      BY <1>1, <2>2 DEF Human
    <3> QED BY <1>1, <2>2, <2>3, <3>1, HeadPath DEF s
  <2>17. up = <<>> => P = {s}
    <3>1. \A y, z \in P : y[1].frame = z[1].frame
      BY <2>1 DEF Rooted
    <3>2. cp.frames[t.frame].expected \ cp.frames[t.frame].arrived \subseteq {t.branch}
      BY <2>8
    <3> DEFINE fr == cp.frames
    <3>3. Forest(P, fr) /\ fr[t.frame].expected \ fr[t.frame].arrived \subseteq {t.branch}
      BY <2>14, <3>2
    <3> HIDE DEF fr, P
    <3> QED BY <2>14, <2>15, <3>1, <3>3, LastOutside DEF t, up
  <2> HIDE DEF cp
  <2>18. Based(P, cp)
    BY <2>1 DEF Gathered
  <2>19. up # <<>> => Scope(cp, LastToken(up)) \subseteq cp1.ctx
    <3> HIDE DEF P
    <3> QED BY <2>2, <2>11, <2>12, <2>14, <2>15, <2>18, AboveMerged DEF t, up
  <2>20. \A f \in Frame : cp1.scopes[f] = cp.scopes[f] /\ cp1.frames[f].expected = cp.frames[f].expected
    BY <2>12 DEF Arrived
  <2>21. Works(cp, cp2, up, Frame)
    BY <2>2, <2>7, <2>12, <2>19, <2>20, SaveScopeWorks
  <2> HIDE DEF cp2
  <2>22. /\ \A y \in P2 : y \in P \ {s} \/ y = up
         /\ up # <<>> => up \in P2
         /\ cp2.queue[1] = x
    <3> DEFINE q2 == cp2.queue
               q == cp.queue
    <3>1. q2 = <<x>> \o Tail(q) /\ q \in Seq(Entry) /\ q # <<>> /\ x \in Entry /\ asks \in Seq(Ask)
      BY <1>1, <2>2, <2>9, <2>12, <2>13 DEF cp
    <3>p. Paths(Tail(q), asks) = P \ {s}
      BY <2>16 DEF cp
    <3> HIDE DEF q2, q
    <3>2. \A y \in Paths(q2, asks) : y \in Paths(Tail(q), asks) \/ y = x.tokens
      BY <3>1, ReplaceHead
    <3>3. x.tokens # <<>> => x.tokens \in Paths(q2, asks)
      BY <3>1, ReplaceHead
    <3>4. q2[1] = x
      BY <3>1, ReplaceHead
    <3> QED BY <2>9, <3>p, <3>2, <3>3, <3>4 DEF q2
  <2>23. P2 \in SUBSET Path /\ Forest(P2, cp2.frames) /\ Covered(P2, cp2.frames) /\ Single(cp2.queue, asks)
    BY <2>2, <2>5, <2>13, CheckpointFacts, PathsOf DEF Sound, Complete
  <2>24. up = <<>> => P2 = {}
    BY <2>17, <2>22, <2>23 DEF Path
  <2>25. Rooted(cp2.queue, asks)
    <3>1. Parent(s) = <<>> => Paths(Tail(cp.queue), asks) = {}
      BY <2>16, <2>17 DEF up
    <3>2. x.tokens = Parent(s) /\ s = cp.queue[1].tokens /\ cp.queue # <<>>
      BY <1>1, <2>2, <2>9 DEF up, s, cp
    <3>3. Rooted(<<x>> \o Tail(cp.queue), asks)
      BY <2>1, <2>2, <2>6, <2>9, <3>1, <3>2, OpenRooted
    <3> QED BY <2>12, <2>13, <3>3
  <2>26. \A i \in DOMAIN cp2.queue : cp2.queue[i].joined \in Frame =>
             \/ cp2.queue[i].tokens = up /\ cp2.ctx \subseteq Merge(cp, cp2.queue[i].joined)
             \/ /\ cp2.queue[i].tokens # <<>> /\ cp2.queue[i].tokens # up
                /\ Scope(cp, LastToken(cp2.queue[i].tokens)) \subseteq Merge(cp, cp2.queue[i].joined)
    <3> DEFINE q2 == cp2.queue
    <3>1. /\ cp \in Checkpoint /\ asks \in Seq(Ask) /\ Sound(cp, asks, joins) /\ Rooted(cp.queue, asks)
          /\ Gathered(cp, asks, {}) /\ cp.queue # <<>> /\ x \in Entry
      BY <1>1, <2>1, <2>2, <2>3, <2>9, FewerGathered DEF cp
    <3>2. c = Merge(cp, x.joined) /\ Single(q2, asks) /\ q2 = <<x>> \o Tail(cp.queue) /\ cp2.ctx = c
      BY <2>9, <2>11, <2>12, <2>13, <2>23
    <3> HIDE DEF q2
    <3>3. \A i \in DOMAIN q2 : q2[i].joined \in Frame =>
             \/ q2[i].tokens = x.tokens /\ c \subseteq Merge(cp, q2[i].joined)
             \/ /\ q2[i].tokens # <<>> /\ q2[i].tokens # x.tokens
                /\ Scope(cp, LastToken(q2[i].tokens)) \subseteq Merge(cp, q2[i].joined)
      BY <3>1, <3>2, OpenHomes
    <3> QED BY <2>9, <3>2, <3>3 DEF q2
  <2>27. cp2.ctx = Merge(cp, t.frame) /\ Arrived(cp.frames, cp2.frames, t) /\ t = LastToken(s) /\ up = Parent(s)
    BY <2>11, <2>12, <2>13 DEF t, up
  <2>28. P = Paths(cp.queue, asks) /\ P2 = Paths(cp2.queue, asks) /\ \A y \in P2 : y \in P \/ y = up
    BY <2>22
  <2>29. Gathered(cp2, asks, produced)
    <3> DEFINE a == asks
               prod == produced
    <3>1. cp \in Checkpoint /\ cp2 \in Checkpoint /\ a \in Seq(Ask) /\ P = Paths(cp.queue, a) /\ P2 = Paths(cp2.queue, a)
          /\ Forest(P, cp.frames) /\ Forest(P2, cp2.frames) /\ Covered(P2, cp2.frames) /\ Gathered(cp, a, prod)
      BY <2>1, <2>2, <2>12, <2>13, <2>14, <2>23, <2>28
    <3>2. up \in Seq(BranchToken) /\ (up # <<>> => up \in P2) /\ (\A y \in P2 : y \in P \/ y = up)
      BY <2>7, <2>22, <2>28
    <3>3. \A i \in DOMAIN cp2.queue : cp2.queue[i].joined \in Frame =>
             \/ cp2.queue[i].tokens = up /\ cp2.ctx \subseteq Merge(cp, cp2.queue[i].joined)
             \/ /\ cp2.queue[i].tokens # <<>> /\ cp2.queue[i].tokens # up
                /\ Scope(cp, LastToken(cp2.queue[i].tokens)) \subseteq Merge(cp, cp2.queue[i].joined)
      BY <2>26
    <3> HIDE DEF P, P2, a, prod
    <3>4. Gathered(cp2, a, prod)
      BY <2>15, <2>21, <2>24, <2>27, <3>1, <3>2, <3>3, GatheredOpen
    <3> QED BY <3>4 DEF a, prod
  <2>30. Kept(cp2, asks, produced)
    BY <2>25, <2>29 DEF Kept
  <2>31. PastRoot(cp2, seen2, TRUE)
    <3>1. e = cp.queue[1] /\ e.tokens # <<>> /\ x.node = e.node /\ cp2.queue = <<x>> \o Tail(cp.queue) /\ cp.queue # <<>>
      BY <1>1, <2>2, <2>6, <2>9, <2>12, <2>13 DEF s, cp
    <3> QED BY <2>1, <2>2, <2>9, <2>12, <2>13, <3>1, PastRootOpen
  <2>32. AtHand(cp2)
    BY <2>2, <2>7, <2>9, <2>12, <2>13, <2>21, <2>22, WorksAtHand
  <2> QED BY <2>30, <2>31, <2>32
<1> HIDE DEF cp2, seen2
<1> QED BY <1>1, <1>2, SaveGather

\* What is marked behind the head of the queue.
LEMMA TailHomes ==
    ASSUME NEW cp \in Checkpoint, NEW a \in Seq(Ask), NEW jn, Sound(cp, a, jn), Rooted(cp.queue, a),
           NEW prod, Gathered(cp, a, prod), cp.queue # <<>>, NEW q, q = Tail(cp.queue),
           NEW i \in DOMAIN q, q[i].joined \in Frame
    PROVE  /\ q[i].tokens \in Paths(cp.queue, a) /\ q[i].tokens # <<>> /\ q[i].tokens # cp.queue[1].tokens
           /\ Scope(cp, LastToken(q[i].tokens)) \subseteq Merge(cp, q[i].joined)
           /\ Forked(cp, q[i].joined)
<1>1. cp.queue \in Seq(Entry)
  BY CheckpointFacts
<1>2. i + 1 \in DOMAIN cp.queue /\ i + 1 # 1 /\ q[i] = cp.queue[i + 1]
  BY <1>1, TailFacts
<1> DEFINE k == i + 1
<1>3. k \in DOMAIN cp.queue /\ k # 1 /\ q[i] = cp.queue[k]
  BY <1>2
<1> HIDE DEF k
<1>4. Gathered(cp, a, {})
  BY FewerGathered
<1>5. /\ q[i].tokens # <<>> /\ q[i].tokens # cp.queue[1].tokens
      /\ Scope(cp, LastToken(q[i].tokens)) \subseteq Merge(cp, q[i].joined)
  BY <1>3, <1>4, MarkedInside
<1>6. HeldBy(q[i].tokens, cp.queue, a)
  BY <1>3 DEF HeldBy
<1>7. Forked(cp, q[i].joined)
  BY <1>3 DEF Sound, Marks, IsMarked, Released
<1> QED BY <1>1, <1>5, <1>6, <1>7, PathsOf

LEMMA RunNodeGather ==
    ASSUME Nested, LateSplits, IInv, IInv', GatherInv, RunNode
    PROVE  GatherInv'
<1> DEFINE cp == wk.cp
           e == Current
           s == e.tokens
           q == Tail(cp.queue)
           done == [Drop(wk.cp) EXCEPT !.ctx = @ \cup {e.node}]
           c1(next) == IF Kind[e.node] = "router" THEN Fork(done, e.node, next, e.tokens)
                       ELSE [done EXCEPT !.queue = @ \o Successors(next, e.tokens)]
           c2(next) == SaveScope(c1(next), s)
           seen == wk.seen
           a == asks
           prod == produced
           prod2 == produced \cup {e.node}
<1>1. /\ wk.pc = "done" /\ Kind[e.node] \in {"auto", "join", "router", "end"}
      /\ Kind[e.node] = "router" => Unforked(wk.cp, e.node) # {}
      /\ \E next \in Routes[e.node] : Save(c2(next), "head", seen)
      /\ produced' = prod2
  BY DEF RunNode
<1>2. PICK next \in Routes[e.node] : Save(c2(next), "head", seen)
  BY <1>1
<1> DEFINE cp1 == c1(next)
           cp2 == c2(next)
<1>3. Save(cp2, "head", seen)
  BY <1>2
<1>4. ASSUME status = "running"
      PROVE  Kept(cp2, asks, prod2) /\ PastRoot(cp2, seen, FALSE)
  <2>1. /\ Rooted(cp.queue, a) /\ Gathered(cp, a, prod) /\ PastRoot(cp, seen, TRUE) /\ AtHand(cp)
    BY <1>1, <1>4, GatherFacts DEF Kept
  <2>2. /\ cp.queue # <<>> /\ e = cp.queue[1] /\ Sound(cp, a, joins) /\ Complete(cp, a, joins)
        /\ (Kind[e.node] = "join" => e.joined \in Frame)
        /\ Drop(cp) \in Checkpoint /\ Drop(cp).queue = q /\ Drop(cp).frames = cp.frames
    BY <1>1, <1>4, DoneFacts
  <2>3. cp \in Checkpoint /\ a \in Seq(Ask) /\ seen \in SUBSET Keys /\ cp.queue \in Seq(Entry)
        /\ 1 \in DOMAIN cp.queue /\ s \in Seq(BranchToken) /\ e.node \in Nodes /\ AsksPlaced(a)
    BY <2>2, WorkerFacts, CheckpointFacts
  <2>4. next \in Seq(Nodes)
    BY <2>3, ParallelAssumption
  <2>5. /\ done \in Checkpoint /\ done.queue = q /\ done.frames = cp.frames /\ done.scopes = cp.scopes
        /\ done.ctx = cp.ctx \cup {e.node}
    <3> DEFINE d == Drop(wk.cp)
               c == d.ctx \cup {e.node}
    <3>1. d \in Checkpoint /\ c \in SUBSET Nodes /\ d.ctx = cp.ctx /\ d.scopes = cp.scopes
      BY <2>2, <2>3, CheckpointParts, DropFacts
    <3>2. done = [d EXCEPT !.ctx = c]
      OBVIOUS
    <3> HIDE DEF d, c, done
    <3>3. LET y == [d EXCEPT !.ctx = c]
          IN  y \in Checkpoint /\ y.queue = d.queue /\ y.ctx = c /\ y.scopes = d.scopes /\ y.frames = d.frames
      BY <3>1, ContextFacts
    <3> QED BY <2>2, <3>1, <3>2, <3>3 DEF d, c
  <2>6. Sound(cp2, a, joins')
    BY <1>3, <1>4, SavedSound
  <2>7. s # <<>> => Scope(cp, LastToken(s)) = cp.ctx
    BY <2>1, <2>2 DEF AtHand
  <2> HIDE DEF done, e, s, a, prod, seen
  <2>8. Kind[e.node] \notin Human /\ e.node = cp.queue[1].node /\ s = cp.queue[1].tokens
    BY <1>1, <2>2 DEF Human, s
  <2>9. Unforked(done, e.node) = Unforked(cp, e.node)
    BY <2>5 DEF Unforked, Forked
  <2> HIDE DEF cp, q
  <2>10. q = Tail(cp.queue) /\ q \in Seq(Entry)
    BY <2>2, <2>3, TailFacts DEF q, cp
  <2>11. Rooted(q, a) /\ Paths(q, a) \subseteq Paths(cp.queue, a)
    BY <2>1, <2>2, <2>3, <2>10, TailRooted
  <2>12. Vacant(q, a, s, e.node)
    BY <2>1, <2>2, <2>3, <2>8, <2>10, HeadVacant
  <2>13. (s # <<>> => s \in Paths(cp.queue, a)) /\ (s = <<>> => Paths(cp.queue, a) = {})
    BY <2>1, <2>2, <2>3, <2>8, HeldHead
  <2>14. ASSUME NEW i \in DOMAIN q, q[i].joined \in Frame
         PROVE  /\ q[i].tokens \in Paths(cp.queue, a) /\ q[i].tokens # <<>> /\ q[i].tokens # s
                /\ Scope(cp, LastToken(q[i].tokens)) \subseteq Merge(cp, q[i].joined)
                /\ Forked(cp, q[i].joined)
    BY <2>1, <2>2, <2>3, <2>8, <2>10, <2>14, TailHomes
  <2>15. Forest(Paths(cp.queue, a), cp.frames) /\ Counted(cp.frames) /\ Covered(Paths(cp.queue, a), cp.frames)
    BY <2>2 DEF Sound, Complete, Forest
  <2>16. CASE Kind[e.node] # "router"
    <3> DEFINE r == Successors(next, s)
    <3>1. cp1 = [done EXCEPT !.queue = @ \o r]
      BY <2>16 DEF s
    <3>2. r \in Seq(Entry) /\ DOMAIN r = 1..Len(next) /\ \A i \in DOMAIN r : r[i].node = next[i]
      BY <2>3, <2>4, SuccessorFacts
    <3> HIDE DEF r, c1
    <3> HIDE DEF cp1
    <3>3. cp1 \in Checkpoint /\ cp1.queue = q \o r /\ cp1.frames = cp.frames /\ cp1.scopes = cp.scopes
          /\ cp1.ctx = cp.ctx \cup {e.node}
      <4>1. LET y == [done EXCEPT !.queue = @ \o r]
            IN  y \in Checkpoint /\ y.queue = done.queue \o r /\ y.ctx = done.ctx
                /\ y.scopes = done.scopes /\ y.frames = done.frames
        BY <2>5, <3>2, ExtendFacts
      <4> QED BY <2>5, <3>1, <4>1
    <3>4. cp2 = SaveScope(cp1, s)
      BY DEF cp1
    <3> HIDE DEF c2
    <3> HIDE DEF cp2
    <3>5. cp2 \in Checkpoint /\ cp2.queue = q \o r /\ cp2.frames = cp.frames /\ cp2.ctx = cp.ctx \cup {e.node}
      BY <2>3, <3>3, <3>4, SaveScopeFacts
    <3>6. Works(cp, cp2, s, Frame)
      <4>1. s # <<>> => Scope(cp, LastToken(s)) \subseteq cp1.ctx
        BY <2>7, <3>3
      <4>2. \A f \in Frame : cp1.scopes[f] = cp.scopes[f] /\ cp1.frames[f].expected = cp.frames[f].expected
        BY <3>3
      <4> QED BY <2>3, <3>3, <3>4, <4>1, <4>2, SaveScopeWorks
    <3>7. Rooted(q \o Successors(next, s), a)
      BY <2>3, <2>10, <2>11, <2>12, <2>16, ParallelAssumption, SuccessorsRooted
    <3>8. Len(s) = After(Depth, e.node)
      <4>1. Placed(cp.queue)
        BY <2>2 DEF Sound
      <4> DEFINE z == cp.queue
      <4>2. z \in Seq(Entry) /\ Placed(z) /\ 1 \in DOMAIN z /\ (Kind[z[1].node] = "join" => z[1].joined \in Frame)
        BY <2>2, <2>3, <2>8, <4>1
      <4> HIDE DEF z
      <4>3. Kind[z[1].node] # "router" => Len(z[1].tokens) = After(Depth, z[1].node)
        BY <4>2, ExecutedDepth
      <4> QED BY <2>8, <2>16, <4>3 DEF z
    <3> DEFINE PP == Paths(cp.queue, a)
               PP2 == Paths(cp2.queue, a)
    <3>9. Paths(q, a) \subseteq PP /\ (s # <<>> => s \in PP)
      BY <2>11, <2>13
    <3> HIDE DEF PP
    <3>10. LET q2 == q \o Successors(next, s)
           IN  /\ Paths(q2, a) \subseteq PP /\ (s # <<>> => s \in Paths(q2, a))
               /\ \A i \in DOMAIN q2 : q2[i].joined \in Frame => i \in DOMAIN q /\ q2[i] = q[i]
      <4> DEFINE n == e.node
      <4>1. /\ n \in Nodes /\ next \in Routes[n] /\ Kind[n] # "router" /\ Len(s) = After(Depth, n)
            /\ q \in Seq(Entry) /\ a \in Seq(Ask) /\ s \in Seq(BranchToken)
        BY <2>3, <2>10, <2>16, <3>8
      <4> HIDE DEF n
      <4>2. LET q2 == q \o Successors(next, s)
            IN  Paths(q2, a) \subseteq PP /\ (s # <<>> => s \in Paths(q2, a))
        BY <3>9, <4>1, SuccessorPaths
      <4>3. LET q2 == q \o Successors(next, s)
            IN  \A i \in DOMAIN q2 : q2[i].joined \in Frame => i \in DOMAIN q /\ q2[i] = q[i]
        <5>1. r \in Seq(Entry) /\ \A i \in DOMAIN r : r[i].joined = NoFrame
          BY <2>3, <2>4, SuccessorFacts DEF r
        <5>2. \A i \in DOMAIN (q \o r) : \/ i \in DOMAIN q /\ (q \o r)[i] = q[i]
                                         \/ i - Len(q) \in DOMAIN r /\ (q \o r)[i] = r[i - Len(q)]
          BY <2>10, <5>1, AppendFacts
        <5>3. \A i \in DOMAIN (q \o r) : (q \o r)[i].joined \in Frame => i \in DOMAIN q /\ (q \o r)[i] = q[i]
          BY <5>1, <5>2, NoFrameFacts
        <5> QED BY <5>3 DEF r
      <4> QED BY <4>2, <4>3
    <3>11. /\ PP2 \subseteq PP /\ (s # <<>> => s \in PP2)
           /\ \A i \in DOMAIN cp2.queue : cp2.queue[i].joined \in Frame => i \in DOMAIN q /\ cp2.queue[i] = q[i]
      BY <3>5, <3>10 DEF r
    <3>12. \A i \in DOMAIN cp2.queue : cp2.queue[i].joined \in Frame =>
             \/ cp2.queue[i].tokens = s /\ cp2.ctx \subseteq Merge(cp, cp2.queue[i].joined)
             \/ /\ cp2.queue[i].tokens # <<>> /\ cp2.queue[i].tokens # s
                /\ Scope(cp, LastToken(cp2.queue[i].tokens)) \subseteq Merge(cp, cp2.queue[i].joined)
      BY <2>14, <3>11
    <3>13. Forest(PP2, cp2.frames)
      BY <2>6 DEF Sound
    <3>14. PP = Paths(cp.queue, a) /\ Forest(PP, cp.frames) /\ Counted(cp.frames) /\ Covered(PP, cp.frames)
           /\ (s = <<>> => PP = {})
      BY <2>13, <2>15 DEF PP
    <3>15. /\ PP2 = Paths(cp2.queue, a) /\ (s = <<>> => cp.ctx \subseteq cp2.ctx)
           /\ prod2 \in SUBSET (prod \cup cp2.ctx)
      BY <3>5 DEF prod
    <3> HIDE DEF PP2, prod2
    <3>16. Gathered(cp2, a, prod2)
      BY <2>1, <2>3, <3>5, <3>6, <3>11, <3>12, <3>13, <3>14, <3>15, GatheredOnwards
    <3>17. Kept(cp2, a, prod2)
      BY <3>5, <3>7, <3>16 DEF Kept, r
    <3>18. PastRoot(cp2, seen, FALSE)
      <4>1. \A i \in DOMAIN r : i \in DOMAIN next /\ r[i].node = next[i]
        BY <2>4, <3>2
      <4>2. next \in Routes[cp.queue[1].node] /\ cp2.queue = Tail(cp.queue) \o r
        BY <2>8, <2>10, <3>5
      <4> QED BY <2>1, <2>2, <2>3, <3>2, <3>5, <4>1, <4>2, PastRootRun
    <3> QED BY <3>17, <3>18 DEF a
  <2>17. CASE Kind[e.node] = "router"
    <3>1. cp1 = Fork(done, e.node, next, s)
      BY <2>17 DEF s
    <3>2. e.node \in Routers /\ Unforked(done, e.node) # {}
      BY <1>1, <2>3, <2>9, <2>17 DEF Routers, cp
    <3> HIDE DEF c1
    <3> HIDE DEF cp1
    <3>3. cp1 \in Checkpoint /\ cp1.ctx = done.ctx /\ \E f \in Frame : ForkedAt(done, cp1, next, s, f)
      BY <2>3, <2>4, <2>5, <3>1, <3>2, ForkFacts
    <3>4. PICK f \in Frame : ForkedAt(done, cp1, next, s, f)
      BY <3>3
    <3> DEFINE r == BranchEntries(next, s, f)
               B == BranchNodes(next)
    <3>5. /\ ~Forked(cp, f) /\ cp1.queue = q \o r /\ Opened(cp.frames, cp1.frames, f, B)
          /\ cp1.scopes[f].base = cp1.ctx /\ cp1.ctx = cp.ctx \cup {e.node}
          /\ \A g \in Frame : g # f => cp1.scopes[g] = cp.scopes[g]
      BY <2>5, <3>3, <3>4 DEF ForkedAt, Forked
    <3>6. cp2 = SaveScope(cp1, s)
      BY DEF cp1
    <3>7. B \in SUBSET Nodes /\ B # {}
      <4>1. next # <<>>
        BY <2>3, <2>17, NestedFacts DEF WellNested
      <4> QED BY <2>4, <4>1 DEF BranchNodes
    <3>8. /\ r \in Seq(Entry) /\ DOMAIN r = DOMAIN next
          /\ TokensOf(r) = Branches(s, f, B)
      BY <2>3, <2>4, BranchFacts
    <3>b. \A i \in DOMAIN r : r[i].node = next[i] /\ r[i].joined = NoFrame
      BY <2>3, <2>4, BranchFacts
    <3> HIDE DEF c2
    <3> HIDE DEF cp2, r, B
    <3>9. /\ cp2 \in Checkpoint /\ cp2.queue = q \o r /\ cp2.frames = cp1.frames /\ cp2.ctx = cp1.ctx
          /\ cp2.scopes[f].base = cp2.ctx
      <4>1. cp2 \in Checkpoint /\ cp2.queue = cp1.queue /\ cp2.frames = cp1.frames /\ cp2.ctx = cp1.ctx
        BY <2>3, <3>3, <3>6, SaveScopeFacts
      <4>2. cp2.scopes[f].base = cp1.scopes[f].base
        BY <2>3, <3>3, <3>6, SaveScopeFacts
      <4> QED BY <3>5, <4>1, <4>2
    <3>10. Works(cp, cp2, s, Frame \ {f})
      <4>1. s # <<>> => Scope(cp, LastToken(s)) \subseteq cp1.ctx
        BY <2>7, <3>5
      <4>2. \A g \in Frame \ {f} : cp1.scopes[g] = cp.scopes[g] /\ cp1.frames[g].expected = cp.frames[g].expected
        BY <3>5 DEF Opened
      <4>3. Frame \ {f} \in SUBSET Frame
        OBVIOUS
      <4> QED BY <2>3, <3>3, <3>6, <4>1, <4>2, <4>3, SaveScopeWorks
    <3>11. Open(cp2, f)
      BY <3>5, <3>7, <3>9 DEF Opened, Open, Forked, Released
    <3>12. StillOpen(cp, cp2, f)
      BY <3>5, <3>9 DEF Opened, Open, Forked, Released, StillOpen
    <3> DEFINE PP == Paths(cp.queue, a)
               PP2 == Paths(cp2.queue, a)
    <3>13. PP2 \subseteq (PP \ {s}) \cup Branches(s, f, B)
      <4>1. Paths(q \o r, a) = Paths(q, a) \cup (TokensOf(r) \ {<<>>})
        BY <2>3, <2>10, <3>8, AppendQueue
      <4>2. Paths(q, a) = PP \ {s}
        BY <2>2, <2>3, <2>8, <2>10, HeadPath
      <4> QED BY <3>8, <3>9, <4>1, <4>2
    <3>14. \A i \in DOMAIN cp2.queue : cp2.queue[i].joined \in Frame => i \in DOMAIN q /\ cp2.queue[i] = q[i]
      <4>1. \A i \in DOMAIN (q \o r) : \/ i \in DOMAIN q /\ (q \o r)[i] = q[i]
                                       \/ i - Len(q) \in DOMAIN r /\ (q \o r)[i] = r[i - Len(q)]
        BY <2>10, <3>8, AppendFacts
      <4> QED BY <3>9, <3>b, <4>1, NoFrameFacts
    <3>15. HomesRest(cp, cp2, PP \ {s}, f)
      BY <2>14, <3>5, <3>14 DEF HomesRest
    <3>16. PP = Paths(cp.queue, a) /\ PP2 = Paths(cp2.queue, a) /\ Forest(PP, cp.frames) /\ (s # <<>> => s \in PP)
      BY <2>13, <2>15
    <3>17. cp.ctx \subseteq cp2.ctx /\ prod2 \in SUBSET (prod \cup cp2.ctx)
      BY <3>5, <3>9 DEF prod
    <3>18. ~Forked(cp, f)
      BY <3>5
    <3>c. cp2 \in Checkpoint /\ cp2.scopes[f].base = cp2.ctx /\ B \in SUBSET Nodes
      BY <3>7, <3>9
    <3> HIDE DEF PP, PP2, prod2
    <3>19. Gathered(cp2, a, prod2)
      <4>1. cp \in Checkpoint /\ a \in Seq(Ask) /\ Gathered(cp, a, prod) /\ s \in Seq(BranchToken) /\ f \in Frame
        BY <2>1, <2>3
      <4>2. /\ cp \in Checkpoint /\ cp2 \in Checkpoint /\ a \in Seq(Ask) /\ PP = Paths(cp.queue, a)
            /\ PP2 = Paths(cp2.queue, a) /\ Forest(PP, cp.frames) /\ Gathered(cp, a, prod)
            /\ s \in Seq(BranchToken) /\ (s # <<>> => s \in PP) /\ f \in Frame /\ ~Forked(cp, f)
            /\ B \in SUBSET Nodes /\ cp2.scopes[f].base = cp2.ctx /\ Open(cp2, f)
            /\ Works(cp, cp2, s, Frame \ {f}) /\ cp.ctx \subseteq cp2.ctx
            /\ prod2 \in SUBSET (prod \cup cp2.ctx)
        BY <3>c, <3>10, <3>11, <3>16, <3>17, <3>18, <4>1
      <4> QED BY <3>12, <3>13, <3>15, <4>2, GatheredFork
    <3>20. Rooted(q \o BranchEntries(next, s, f), a)
      BY <2>3, <2>4, <2>10, <2>11, <2>12, <2>17, ForkRooted
    <3>21. Kept(cp2, a, prod2)
      BY <3>9, <3>19, <3>20 DEF Kept, r
    <3>22. PastRoot(cp2, seen, FALSE)
      <4>1. \A i \in DOMAIN r : i \in DOMAIN next /\ r[i].node = next[i]
        BY <3>8, <3>b
      <4>2. next \in Routes[cp.queue[1].node] /\ cp2.queue = Tail(cp.queue) \o r
        BY <2>8, <2>10, <3>9
      <4> QED BY <2>1, <2>2, <2>3, <3>8, <3>9, <4>1, <4>2, PastRootRun
    <3> QED BY <3>21, <3>22 DEF a
  <2> QED BY <2>16, <2>17
<1> HIDE DEF c2
<1> HIDE DEF cp2
<1> QED BY <1>1, <1>3, <1>4, SaveGather

LEMMA FinishNodeGather ==
    ASSUME IInv, GatherInv, FinishNode
    PROVE  GatherInv'
<1>1. wk.pc = "work" /\ wk' = [wk EXCEPT !.pc = "done"] /\ UNCHANGED <<status, saved, asks, produced>>
  BY DEF FinishNode
<1>2. wk'.pc = "done" /\ wk'.cp = wk.cp /\ wk'.seen = wk.seen
  BY <1>1 DEF IInv, WkType
<1>3. GatheredInMemory'
  BY <1>1, <1>2 DEF GatherInv, GatheredInMemory
<1> QED BY <1>1, <1>3 DEF GatherInv, GatheredSaved, WaitsLate, ProducedMerged

-----------------------------------------------------------------------------
(* An answer goes on from what its path had saved.                         *)

LEMMA WithoutLate ==
    ASSUME NEW cp \in Checkpoint, AllLate(cp.queue), NEW x
    PROVE  LET w == Without(cp, x)
           IN  /\ w \in Checkpoint /\ w.frames = cp.frames /\ w.scopes = cp.scopes /\ w.ctx = cp.ctx
               /\ AllLate(w.queue) /\ (w.queue = <<>> \/ cp.queue # <<>>)
<1> DEFINE w == Without(cp, x)
<1>1. CASE w = cp
  BY <1>1
<1>2. CASE cp.queue # <<>> /\ w = Drop(cp)
  <2> HIDE DEF w
  <2>1. w \in Checkpoint /\ w.queue = Tail(cp.queue) /\ w.frames = cp.frames /\ w.scopes = cp.scopes /\ w.ctx = cp.ctx
    BY <1>2, DropFacts
  <2>2. cp.queue \in Seq(Entry)
    BY CheckpointFacts
  <2>3. AllLate(w.queue)
    BY <1>2, <2>1, <2>2, TailFacts DEF AllLate
  <2> QED BY <1>2, <2>1, <2>3 DEF w
<1> QED BY <1>1, <1>2 DEF Without

\* cp2 is w after the work of the path s at n, going on to next.
Extended(w, cp2, n, s, next) ==
    /\ cp2 \in Checkpoint /\ cp2.frames = w.frames /\ cp2.queue = w.queue \o Successors(next, s)
    /\ Works(w, cp2, s, Frame) /\ n \in cp2.ctx
    /\ s = <<>> => w.ctx \subseteq cp2.ctx

LEMMA ExtendWorks ==
    ASSUME NEW cp \in Checkpoint, asks \in Seq(Ask), NEW i \in DOMAIN asks, NEW next \in Routes[asks[i].node],
           NEW w \in Checkpoint, w = Without(cp, asks[i]), NEW s, s = asks[i].tokens,
           NEW cp2, cp2 = Extend(cp, i, next)
    PROVE  Extended(w, cp2, asks[i].node, s, next)
<1> DEFINE a == asks[i]
           act == Activate(w, s)
           c == act.ctx \cup {a.node}
           here == [act EXCEPT !.ctx = c]
           sv == SaveScope(here, s)
           r == Successors(next, s)
<1>0. a \in Ask
  OBVIOUS
<1>1. a.node \in Nodes /\ s \in Seq(BranchToken)
  <2>1. s = a.tokens
    OBVIOUS
  <2> HIDE DEF a
  <2> QED BY <1>0, <2>1 DEF Ask
<1>2. next \in Seq(Nodes)
  BY <1>1, ParallelAssumption
<1>3. cp2 = [sv EXCEPT !.queue = @ \o r]
  BY DEF Extend, Without
<1> HIDE DEF a
<1>4. /\ act \in Checkpoint /\ act.queue = w.queue /\ act.frames = w.frames /\ act.scopes = w.scopes
      /\ (s = <<>> => act = w) /\ (s # <<>> => act.ctx = Scope(w, LastToken(s)))
  BY <1>1, ActivateFacts DEF Scope
<1> HIDE DEF act
<1>5. c \in SUBSET Nodes /\ act.ctx \subseteq c /\ a.node \in c
  BY <1>1, <1>4, CheckpointParts
<1> HIDE DEF c
<1>6. here \in Checkpoint /\ here.queue = act.queue /\ here.frames = act.frames /\ here.scopes = act.scopes
      /\ here.ctx = c
  <2>1. LET y == [act EXCEPT !.ctx = c]
        IN  y \in Checkpoint /\ y.queue = act.queue /\ y.ctx = c /\ y.scopes = act.scopes /\ y.frames = act.frames
    BY <1>4, <1>5, ContextFacts
  <2> QED BY <2>1
<1> HIDE DEF here
<1>7. sv \in Checkpoint /\ sv.queue = here.queue /\ sv.frames = here.frames /\ sv.ctx = here.ctx
  BY <1>1, <1>6, SaveScopeFacts
<1>8. Works(w, sv, s, Frame)
  <2>1. \A f \in Frame : here.scopes[f] = w.scopes[f] /\ here.frames[f].expected = w.frames[f].expected
    BY <1>4, <1>6
  <2>2. s # <<>> => Scope(w, LastToken(s)) \subseteq here.ctx
    BY <1>4, <1>5, <1>6
  <2> QED BY <1>1, <1>6, <2>1, <2>2, SaveScopeWorks
<1>9. r \in Seq(Entry)
  BY <1>1, <1>2, SuccessorFacts
<1> HIDE DEF sv, r
<1>10. /\ cp2 \in Checkpoint /\ cp2.queue = sv.queue \o r /\ cp2.frames = sv.frames
       /\ cp2.ctx = sv.ctx /\ cp2.scopes = sv.scopes
  <2>1. LET y == [sv EXCEPT !.queue = @ \o r]
        IN  y \in Checkpoint /\ y.queue = sv.queue \o r /\ y.ctx = sv.ctx
            /\ y.scopes = sv.scopes /\ y.frames = sv.frames
    BY <1>7, <1>9, ExtendFacts
  <2> QED BY <1>3, <2>1
<1>11. Works(w, cp2, s, Frame)
  BY <1>8, <1>10 DEF Works
<1>12. asks[i].node \in cp2.ctx /\ (s = <<>> => w.ctx \subseteq cp2.ctx)
  BY <1>4, <1>5, <1>6, <1>7, <1>10 DEF a
<1> QED BY <1>4, <1>6, <1>7, <1>10, <1>11, <1>12 DEF r, Extended

\* The same work with no merged entry at the head of the run.
LEMMA GatheredPlain ==
    ASSUME NEW cp \in Checkpoint, NEW cp2 \in Checkpoint, NEW a \in Seq(Ask), NEW a2 \in Seq(Ask),
           NEW s \in Seq(BranchToken), NEW P, NEW P2, P = Paths(cp.queue, a), P2 = Paths(cp2.queue, a2),
           Counted(cp.frames), Covered(P, cp.frames), Forest(P, cp.frames), Forest(P2, cp2.frames),
           cp2.frames = cp.frames, P2 \subseteq P, s = <<>> => P = {}, s # <<>> => s \in P2,
           NEW prod, Gathered(cp, a, prod), Works(cp, cp2, s, Frame), s = <<>> => cp.ctx \subseteq cp2.ctx,
           \A k \in DOMAIN cp2.queue : cp2.queue[k].joined \notin Frame,
           NEW prod2 \in SUBSET (prod \cup cp2.ctx)
    PROVE  Gathered(cp2, a2, prod2)
<1>1. \A k \in DOMAIN cp2.queue : cp2.queue[k].joined \in Frame =>
          \/ cp2.queue[k].tokens = s /\ cp2.ctx \subseteq Merge(cp, cp2.queue[k].joined)
          \/ /\ cp2.queue[k].tokens # <<>> /\ cp2.queue[k].tokens # s
             /\ Scope(cp, LastToken(cp2.queue[k].tokens)) \subseteq Merge(cp, cp2.queue[k].joined)
  OBVIOUS
<1> QED BY <1>1, GatheredOnwards

LEMMA ContinueGather ==
    ASSUME Nested, LateSplits, IInv, IInv', GatherInv, status = "waiting", NEW i \in DOMAIN asks,
           asks[i].pending, NEW answer \in Decided \cup {"fired"}, Continue(i, answer)
    PROVE  GatherInv'
<1> DEFINE n == asks[i].node
           s == asks[i].tokens
           a2 == asks'
           prod2 == produced \cup {n}
<1>1. CASE status' = "cancelled"
  BY <1>1 DEF GatherInv, GatheredSaved, GatheredInMemory, WaitsLate, ProducedMerged, Terminal
<1>2. CASE status' = "queued" /\ \E next \in Routes[n] : saved' = Extend(saved, i, next)
  <2>1. PICK next \in Routes[n] : saved' = Extend(saved, i, next)
    BY <1>2
  <2>2. /\ saved \in Checkpoint /\ asks \in Seq(Ask) /\ AsksPlaced(asks) /\ saved.queue \in Seq(Entry)
        /\ Sound(saved, asks, joins)
    BY WorkerFacts, CheckpointFacts
  <2>3. Complete(saved, asks, joins)
    BY DEF IInv, Persisted, Terminal
  <2>4. Rooted(saved.queue, asks) /\ Gathered(saved, asks, produced) /\ AllLate(saved.queue)
    BY DEF GatherInv, GatheredSaved, WaitsLate, Kept, Terminal
  <2>5. asks[i] \in Ask
    BY <2>2
  <2>6. n \in Nodes /\ s \in Seq(BranchToken)
    BY <2>5 DEF Ask
  <2>7. Kind[n] \in Human /\ Len(s) = Depth[n]
    BY <2>2 DEF AsksPlaced
  <2>8. Kind[n] # "router" /\ Len(s) = After(Depth, n)
    BY <2>7 DEF Human, After
  <2>9. a2 \in Seq(Ask) /\ Answered(asks, a2, i) /\ produced' = prod2
    <3> DEFINE y == asks[i]
               x == [y EXCEPT !.status = answer, !.pending = FALSE]
    <3>1. y \in Ask /\ answer \in AskStatus
      BY <2>5 DEF AskStatus
    <3>2. asks' = [asks EXCEPT ![i] = x] /\ produced' = prod2
      BY DEF Continue
    <3> HIDE DEF y
    <3>3. x \in Ask /\ x.node = y.node /\ x.tokens = y.tokens /\ ~x.pending /\ x.status = answer
      <4>1. [y EXCEPT !.status = answer, !.pending = FALSE] \in Ask
        BY <3>1, AskFields
      <4>2. /\ [y EXCEPT !.status = answer, !.pending = FALSE].node = y.node
            /\ [y EXCEPT !.status = answer, !.pending = FALSE].tokens = y.tokens
            /\ [y EXCEPT !.status = answer, !.pending = FALSE].pending = FALSE
            /\ [y EXCEPT !.status = answer, !.pending = FALSE].status = answer
        BY <3>1, AskPlaces
      <4> QED BY <4>1, <4>2
    <3>4. x.node = asks[i].node /\ x.tokens = asks[i].tokens /\ x.status # "open"
      BY <3>3 DEF y, Decided
    <3> HIDE DEF x
    <3>5. OpenPending(asks)
      BY WorkerFacts
    <3> DEFINE z == [asks EXCEPT ![i] = x]
    <3>6. z \in Seq(Ask) /\ (~x.pending => Answered(asks, z, i))
      BY <2>2, <3>3, <3>4, <3>5, ChangeFacts
    <3> QED BY <3>2, <3>3, <3>6
  <2> DEFINE w == Without(saved, asks[i])
             q == w.queue
             cp2 == Extend(saved, i, next)
             P == Paths(saved.queue, asks)
             P2 == Paths(cp2.queue, a2)
  <2>10. /\ w \in Checkpoint /\ w.frames = saved.frames /\ w.scopes = saved.scopes /\ w.ctx = saved.ctx
         /\ AllLate(q) /\ (q = <<>> \/ saved.queue # <<>>)
    BY <2>2, <2>4, WithoutLate
  <2>11. /\ cp2 \in Checkpoint /\ cp2.frames = w.frames /\ cp2.queue = q \o Successors(next, s)
         /\ Works(w, cp2, s, Frame) /\ n \in cp2.ctx /\ (s = <<>> => w.ctx \subseteq cp2.ctx)
    <3> DEFINE ww == w
               ss == s
               cc == cp2
    <3>1. ww \in Checkpoint /\ ww = Without(saved, asks[i]) /\ ss = asks[i].tokens /\ cc = Extend(saved, i, next)
      BY <2>10
    <3>2. saved \in Checkpoint /\ asks \in Seq(Ask) /\ i \in DOMAIN asks /\ next \in Routes[asks[i].node]
      BY <2>2
    <3> HIDE DEF ww, ss, cc
    <3>3. Extended(ww, cc, asks[i].node, ss, next)
      BY <3>1, <3>2, ExtendWorks
    <3> QED BY <3>3 DEF ww, ss, cc, Extended
  <2>12. Sound(cp2, a2, joins')
    BY <2>1 DEF IInv, Persisted
  <2>13. HeldBy(s, saved.queue, asks)
    BY DEF HeldBy
  <2>14. saved' = cp2
    BY <2>1
  <2>15. q \in Seq(Entry)
    BY <2>10, CheckpointFacts
  <2> HIDE DEF w, cp2, a2, prod2
  <2>16. (s # <<>> => s \in P) /\ (s = <<>> => P = {})
    BY <2>2, <2>4, <2>13, PathsOf DEF Rooted
  <2> DEFINE q0 == saved.queue
  <2>17. Vacant(q, a2, s, n) /\ Rooted(q, a2) /\ Paths(q, a2) \subseteq P
    <3>1. /\ q0 \in Seq(Entry) /\ asks \in Seq(Ask) /\ a2 \in Seq(Ask) /\ q \in Seq(Entry) /\ Rooted(q0, asks)
          /\ AllLate(q0) /\ AllLate(q) /\ (q = <<>> \/ q0 # <<>>) /\ Answered(asks, a2, i)
      BY <2>2, <2>4, <2>9, <2>10, <2>15
    <3> HIDE DEF q0, q
    <3>2. /\ Vacant(q, a2, asks[i].tokens, asks[i].node) /\ Rooted(q, a2)
          /\ Paths(q, a2) \subseteq Paths(q0, asks)
      BY <3>1, AskVacant
    <3> QED BY <3>2 DEF q0
  <2> HIDE DEF q, n, s
  <2>18. Rooted(q \o Successors(next, s), a2)
    BY <2>6, <2>8, <2>9, <2>15, <2>17, ParallelAssumption, SuccessorsRooted
  <2> HIDE DEF P
  <2>19. LET q2 == q \o Successors(next, s)
         IN  /\ Paths(q2, a2) \subseteq P /\ (s # <<>> => s \in Paths(q2, a2))
             /\ \A k \in DOMAIN q2 : q2[k].joined \in Frame => k \in DOMAIN q /\ q2[k] = q[k]
    BY <2>6, <2>8, <2>9, <2>15, <2>16, <2>17, SuccessorPaths
  <2>20. \A k \in DOMAIN cp2.queue : cp2.queue[k].joined \notin Frame
    <3>1. \A k \in DOMAIN q : q[k].joined \notin Frame
      BY <2>10, NoFrameFacts DEF AllLate, LatePlain, RootPlain
    <3> QED BY <2>11, <2>19, <3>1
  <2>22. Works(saved, cp2, s, Frame)
    BY <2>10, <2>11 DEF Works, Scope
  <2> DEFINE cp == saved
             a == asks
             prod == produced
  <2>23. /\ cp \in Checkpoint /\ cp2 \in Checkpoint /\ a \in Seq(Ask) /\ a2 \in Seq(Ask) /\ s \in Seq(BranchToken)
         /\ P = Paths(cp.queue, a) /\ P2 = Paths(cp2.queue, a2) /\ Gathered(cp, a, prod)
    BY <2>2, <2>4, <2>6, <2>9, <2>11 DEF P
  <2>24. Forest(P, cp.frames) /\ Counted(cp.frames) /\ Covered(P, cp.frames)
    BY <2>2, <2>3 DEF Sound, Complete, Forest, P
  <2>25. P2 \subseteq P /\ (s # <<>> => s \in P2)
    BY <2>11, <2>19
  <2>26. Forest(P2, cp2.frames) /\ cp2.frames = cp.frames
    BY <2>10, <2>11, <2>12 DEF Sound
  <2>27. (s = <<>> => cp.ctx \subseteq cp2.ctx) /\ prod2 \in SUBSET (prod \cup cp2.ctx)
    BY <2>10, <2>11 DEF prod2
  <2>28. Works(cp, cp2, s, Frame)
    BY <2>22
  <2> HIDE DEF cp, a, prod, P2
  <2>29. Gathered(cp2, a2, prod2)
    BY <2>16, <2>20, <2>23, <2>24, <2>25, <2>26, <2>27, <2>28, GatheredPlain
  <2>30. Kept(cp2, a2, prod2)
    BY <2>11, <2>18, <2>29 DEF Kept
  <2> QED BY <1>2, <2>9, <2>14, <2>30 DEF a2, GatherInv, GatheredSaved, GatheredInMemory, WaitsLate, ProducedMerged
<1> QED BY <1>1, <1>2 DEF Continue

LEMMA DecideGather ==
    ASSUME Nested, LateSplits, IInv, IInv', GatherInv, NEW i \in DOMAIN asks, NEW answer \in Decided,
           Decide(i, answer)
    PROVE  GatherInv'
<1>1. asks[i].status = "open" /\ asks \in Seq(Ask) /\ OpenPending(asks) /\ asks[i].pending /\ asks[i] \in Ask
  BY WorkerFacts DEF Decide, IsOpen, OpenPending
<1>2. CASE status = "waiting" /\ Continue(i, answer)
  BY <1>1, <1>2, ContinueGather
<1>3. CASE /\ asks' = [asks EXCEPT ![i].status = answer]
           /\ UNCHANGED <<status, job, saved, wk, produced, joins, used>>
  <2> DEFINE y == asks[i]
             x == [y EXCEPT !.status = answer]
  <2>1. asks' = [asks EXCEPT ![i] = x]
    BY <1>3
  <2>2. y \in Ask /\ answer \in AskStatus
    BY <1>1 DEF AskStatus
  <2> HIDE DEF y
  <2>3. x \in Ask
    BY <2>2, AskStatusField
  <2>4. x.node = y.node /\ x.tokens = y.tokens /\ x.pending = y.pending /\ x.status = answer
    BY <2>2, AskPlaces
  <2>5. x.status # "open"
    BY <2>4 DEF Decided
  <2> HIDE DEF x
  <2> DEFINE a2 == [asks EXCEPT ![i] = x]
  <2>6. a2 \in Seq(Ask) /\ Len(a2) = Len(asks) /\ OpenPending(a2) /\ (x.pending = asks[i].pending => SamePlaces(asks, a2))
    BY <1>1, <2>2, <2>3, <2>4, <2>5, ChangeFacts DEF y
  <2>7. asks' = a2 /\ SamePlaces(asks, a2)
    BY <2>1, <2>4, <2>6 DEF y
  <2> HIDE DEF a2
  <2> QED BY <1>3, <2>6, <2>7, SamePlacesGather
<1> QED BY <1>2, <1>3 DEF Decide

LEMMA SignalGather ==
    ASSUME Nested, LateSplits, IInv, IInv', GatherInv, NEW i \in DOMAIN asks, Signal(i)
    PROVE  GatherInv'
<1>1. asks[i].status = "open" /\ asks \in Seq(Ask) /\ OpenPending(asks) /\ asks[i].pending /\ asks[i] \in Ask
  BY WorkerFacts DEF Signal, IsOpen, OpenPending
<1>2. CASE status = "waiting" /\ Continue(i, "fired")
  BY <1>1, <1>2, ContinueGather
<1>3. CASE /\ asks' = [asks EXCEPT ![i].accepted = TRUE]
           /\ UNCHANGED <<status, job, saved, wk, produced, joins, used>>
  <2> DEFINE y == asks[i]
             x == [y EXCEPT !.accepted = TRUE]
  <2>1. asks' = [asks EXCEPT ![i] = x]
    BY <1>3
  <2>2. y \in Ask /\ y.status = "open" /\ y.pending
    BY <1>1
  <2> HIDE DEF y
  <2>3. x \in Ask
    BY <2>2 DEF Ask
  <2>4. x.node = y.node /\ x.tokens = y.tokens /\ x.pending = y.pending /\ x.status = y.status
    BY <2>2 DEF Ask
  <2> HIDE DEF x
  <2> DEFINE a2 == [asks EXCEPT ![i] = x]
  <2>5. a2 \in Seq(Ask) /\ Len(a2) = Len(asks) /\ OpenPending(a2) /\ (x.pending = asks[i].pending => SamePlaces(asks, a2))
    BY <1>1, <2>2, <2>3, <2>4, ChangeFacts DEF y
  <2>6. asks' = a2 /\ SamePlaces(asks, a2)
    BY <2>1, <2>4, <2>5 DEF y
  <2> HIDE DEF a2
  <2> QED BY <1>3, <2>5, <2>6, SamePlacesGather
<1> QED BY <1>2, <1>3 DEF Signal

LEMMA AnswerGather ==
    ASSUME Nested, LateSplits, IInv, IInv', GatherInv, NEW i \in DOMAIN asks,
           ReconcileDecision(i) \/ DeliverAccepted(i) \/ FireTimer(i)
    PROVE  GatherInv'
<1>1. OpenPending(asks)
  BY WorkerFacts
<1>2. CASE ReconcileDecision(i)
  BY <1>2, ContinueGather DEF ReconcileDecision
<1>3. CASE DeliverAccepted(i)
  BY <1>1, <1>3, ContinueGather DEF DeliverAccepted, IsOpen, OpenPending
<1>4. CASE FireTimer(i)
  BY <1>1, <1>4, ContinueGather DEF FireTimer, IsOpen, OpenPending
<1> QED BY <1>2, <1>3, <1>4

-----------------------------------------------------------------------------
(* The gathered outputs hold of the first state and are kept by every step. *)

LEMMA InitGather ==
    ASSUME Nested, Init
    PROVE  GatherInv
<1> DEFINE e == [node |-> StartNode, tokens |-> <<>>, joined |-> NoFrame]
           q == saved.queue
<1>1. q = <<e>> /\ asks = <<>> /\ produced = {} /\ status = "queued"
  BY DEF Init
<1>2. e.tokens = <<>> /\ e.joined = NoFrame
  OBVIOUS
<1> HIDE DEF e
<1>3. DOMAIN q = {1} /\ q[1] = e /\ DOMAIN asks = {}
  BY <1>1
<1> HIDE DEF q
<1>4. Paths(q, asks) = {}
  BY <1>2, <1>3 DEF Paths
<1>5. RootSingle(q, asks)
  BY <1>3 DEF RootSingle
<1>6. Rooted(q, asks)
  BY <1>4, <1>5 DEF Rooted
<1>7. \A k \in DOMAIN q : Homed(q[k], saved)
  BY <1>2, <1>3, NoFrameFacts DEF Homed
<1>8. Gathered(saved, asks, produced)
  BY <1>1, <1>4, <1>7 DEF Gathered, Based, q
<1>9. Kept(saved, asks, produced)
  BY <1>6, <1>8 DEF Kept, q
<1> QED BY <1>1, <1>9 DEF GatherInv, GatheredSaved, GatheredInMemory, WaitsLate, ProducedMerged

LEMMA StutterGather ==
    ASSUME GatherInv, UNCHANGED vars
    PROVE  GatherInv'
<1>1. UNCHANGED <<status, job, saved, wk, asks, produced, joins, used>>
  BY DEF vars
<1> QED BY <1>1 DEF GatherInv, GatheredSaved, GatheredInMemory, WaitsLate, ProducedMerged

LEMMA NextGather ==
    ASSUME Nested, ~Pooled, LateSplits, IInv, IInv', GatherInv, [Next]_vars
    PROVE  GatherInv'
<1>1. CASE Claim
  BY <1>1, ClaimGather
<1>2. CASE SkipRepeated
  BY <1>2, SkipRepeatedGather
<1>3. CASE WaitAtJoin
  BY <1>3, WaitAtJoinGather
<1>4. CASE OpenJoin
  BY <1>4, OpenJoinGather
<1>5. CASE ReuseAsk
  BY <1>5, ReuseAskGather
<1>6. CASE BeginNode
  BY <1>6, BeginNodeGather
<1>7. CASE RunNode
  BY <1>7, RunNodeGather
<1>22. CASE FinishNode
  BY <1>22, FinishNodeGather
<1>8. CASE CreateAsk
  BY <1>8, CreateAskGather
<1>9. CASE RefuseAsk
  BY <1>9, RefuseAskGather
<1>10. CASE LeaveBranch
  BY <1>10, LeaveBranchGather
<1>11. CASE CloseSegment
  BY <1>11, CloseSegmentGather
<1>12. CASE ThrowError
  BY <1>12, ThrowErrorGather
<1>13. CASE Crash
  BY <1>13, CrashGather
<1>14. CASE ReconcileExhausted
  BY <1>14, ReconcileExhaustedGather
<1>15. CASE \E i \in DOMAIN asks : ReconcileDecision(i) \/ DeliverAccepted(i) \/ FireTimer(i)
  BY <1>15, AnswerGather
<1>16. CASE \E i \in DOMAIN asks : \E answer \in Decided : Decide(i, answer)
  BY <1>16, DecideGather
<1>17. CASE \E i \in DOMAIN asks : Signal(i)
  BY <1>17, SignalGather
<1>18. CASE Pause
  BY <1>18, PauseGather
<1>19. CASE Resume
  BY <1>19, ResumeGather
<1>20. CASE Stop
  BY <1>20, StopGather
<1>21. CASE UNCHANGED vars
  BY <1>21, StutterGather
<1> QED
  BY <1>1, <1>2, <1>3, <1>4, <1>5, <1>6, <1>7, <1>8, <1>9, <1>10, <1>11, <1>12, <1>13, <1>14,
     <1>15, <1>16, <1>17, <1>18, <1>19, <1>20, <1>21, <1>22 DEF Next, WorkerStep, Reconcile

-----------------------------------------------------------------------------
(* What was finished is recorded, or still queued to be finished again.    *)

\* The entry e is the node n, at work or to be executed: an ask has no run of its own, and a
\* join is executed once its release is marked.
Executes(e, n) == e.node = n /\ Kind[n] \notin Human /\ (Kind[n] = "join" => e.joined \in Frame)
Due(q, n) == \E i \in DOMAIN q : Executes(q[i], n)
DueAgain(q, seen, busy, n) ==
    \E i \in DOMAIN q : Executes(q[i], n) /\ (Key(q[i]) \notin seen \/ (i = 1 /\ busy))

RanSaved == status \notin Terminal => \A n \in ran : n \in produced \/ Due(saved.queue, n)
RanInMemory == status = "running" /\ wk.pc # "idle" =>
    \A n \in ran : n \in produced \/ DueAgain(wk.cp.queue, wk.seen, wk.pc \in {"work", "done"}, n)
RanRecorded == status = "success" => ran \subseteq produced

RanInv == RanSaved /\ RanInMemory /\ RanRecorded

LEMMA DueTail ==
    ASSUME NEW q \in Seq(Entry), q # <<>>, NEW seen, NEW b1, NEW b2, NEW n, DueAgain(q, seen, b1, n),
           ~Executes(q[1], n) \/ (Key(q[1]) \in seen /\ ~b1)
    PROVE  DueAgain(Tail(q), seen, b2, n)
<1>1. PICK i \in DOMAIN q : Executes(q[i], n) /\ (Key(q[i]) \notin seen \/ (i = 1 /\ b1))
  BY DEF DueAgain
<1>2. i # 1 /\ Key(q[i]) \notin seen
  BY <1>1
<1>3. i - 1 \in DOMAIN Tail(q) /\ Tail(q)[i - 1] = q[i]
  BY <1>2, TailFacts
<1> QED BY <1>1, <1>2, <1>3 DEF DueAgain

LEMMA DueAppend ==
    ASSUME NEW q \in Seq(Entry), NEW r \in Seq(Entry), NEW seen, NEW n, DueAgain(q, seen, FALSE, n)
    PROVE  DueAgain(q \o r, seen, FALSE, n)
<1>1. PICK i \in DOMAIN q : Executes(q[i], n) /\ Key(q[i]) \notin seen
  BY DEF DueAgain
<1>2. i \in DOMAIN (q \o r) /\ (q \o r)[i] = q[i]
  BY AppendFacts
<1> QED BY <1>1, <1>2 DEF DueAgain

LEMMA RanFacts ==
    ASSUME RanInv, status = "running", wk.pc # "idle", NEW n \in ran, n \notin produced
    PROVE  DueAgain(wk.cp.queue, wk.seen, wk.pc \in {"work", "done"}, n)
BY DEF RanInv, RanInMemory

LEMMA ThrowRan ==
    ASSUME IInv, RanInv, Throw, saved' = saved, ran' = ran, status = "running" \/ wk.pc # "idle",
           status = "running" => produced' = produced
    PROVE  RanInv'
<1>1. wk'.pc = "idle"
  BY DEF Throw, Idle
<1>2. CASE status # "running"
  <2>1. status' = "cancelled"
    BY <1>2 DEF IInv, InMemory, Throw
  <2> QED BY <2>1 DEF RanInv, RanSaved, RanInMemory, RanRecorded, Terminal
<1>3. CASE status = "running"
  <2>1. RanSaved /\ produced' = produced /\ status' \in {"queued", "failed"}
    BY <1>3 DEF RanInv, Throw
  <2> QED BY <1>1, <1>3, <2>1 DEF RanInv, RanSaved, RanInMemory, RanRecorded, Terminal
<1> QED BY <1>2, <1>3

LEMMA SaveRan ==
    ASSUME IInv, RanInv, wk.pc # "idle", NEW cp, NEW pc \in {"head", "work"}, NEW seen, Save(cp, pc, seen),
           ran' = ran,
           status = "running" => \A n \in ran : n \in produced' \/ DueAgain(cp.queue, seen, pc = "work", n)
    PROVE  RanInv'
<1>1. CASE status = "running"
  <2>1. saved' = cp /\ wk' = [pc |-> pc, cp |-> cp, seen |-> seen] /\ status' = status
    BY <1>1 DEF Save
  <2>2. wk'.pc = pc /\ wk'.cp = cp /\ wk'.seen = seen /\ (pc \in {"work", "done"} <=> pc = "work")
    BY <2>1
  <2>3. \A n \in ran' : n \in produced' \/ DueAgain(cp.queue, seen, pc = "work", n)
    BY <1>1
  <2>4. RanSaved'
    BY <2>1, <2>3 DEF RanSaved, DueAgain, Due
  <2>5. RanInMemory'
    BY <2>2, <2>3 DEF RanInMemory, DueAgain
  <2> QED BY <1>1, <2>1, <2>4, <2>5 DEF RanInv, RanRecorded
<1>2. CASE status # "running"
  <2>1. Throw /\ saved' = saved
    BY <1>2 DEF Save
  <2> QED BY <1>2, <2>1, ThrowRan
<1> QED BY <1>1, <1>2

\* The head of the queue is given up, a node that has nothing to finish here.
LEMMA DropRan ==
    ASSUME IInv, RanInv, wk.pc # "idle", wk.cp.queue # <<>>, produced' = produced, ran' = ran,
           Kind[Current.node] \in Human \/ (Kind[Current.node] = "join" /\ Current.joined \notin Frame),
           NEW cp, cp.queue = Tail(wk.cp.queue), Save(cp, "head", wk.seen)
    PROVE  RanInv'
<1>1. wk.cp.queue \in Seq(Entry) /\ Current = wk.cp.queue[1]
  BY WorkerFacts, CheckpointFacts
<1>2. ASSUME status = "running", NEW n \in ran, n \notin produced
      PROVE  DueAgain(cp.queue, wk.seen, FALSE, n)
  <2>1. DueAgain(wk.cp.queue, wk.seen, wk.pc \in {"work", "done"}, n)
    BY <1>2, RanFacts
  <2>2. ~Executes(wk.cp.queue[1], n)
    BY <1>1 DEF Executes
  <2> QED BY <1>1, <2>1, <2>2, DueTail
<1>3. status = "running" => \A n \in ran : n \in produced' \/ DueAgain(cp.queue, wk.seen, "head" = "work", n)
  BY <1>2
<1>4. "head" \in {"head", "work"}
  OBVIOUS
<1> HIDE DEF Save
<1> QED BY <1>3, <1>4, SaveRan

-----------------------------------------------------------------------------
(* Every step keeps what was finished.                                     *)

LEMMA InitRan ==
    ASSUME Init
    PROVE  RanInv
BY DEF Init, RanInv, RanSaved, RanInMemory, RanRecorded

LEMMA ClaimRan ==
    ASSUME RanInv, Claim
    PROVE  RanInv'
<1>1. /\ status \notin Terminal /\ status' = "running" /\ wk'.pc = "head" /\ wk'.cp = saved /\ wk'.seen = {}
      /\ UNCHANGED <<saved, produced, ran>>
  BY DEF Claim, Terminal
<1>2. \A n \in ran : n \in produced \/ Due(saved.queue, n)
  BY <1>1 DEF RanInv, RanSaved
<1> QED BY <1>1, <1>2 DEF RanInv, RanSaved, RanInMemory, RanRecorded, Due, DueAgain

LEMMA SkipRepeatedRan ==
    ASSUME IInv, RanInv, SkipRepeated
    PROVE  RanInv'
<1>1. /\ wk.pc = "head" /\ wk.cp.queue # <<>> /\ Key(Current) \in wk.seen
      /\ wk' = [wk EXCEPT !.cp = Drop(Here)] /\ UNCHANGED <<status, saved, produced, ran>>
  BY DEF SkipRepeated
<1> DEFINE cp2 == Drop(Here)
<1>2. wk.cp.queue \in Seq(Entry) /\ Current = wk.cp.queue[1] /\ cp2.queue = Tail(wk.cp.queue)
  BY <1>1, WorkerFacts, CheckpointFacts, HereFacts
<1> HIDE DEF cp2
<1>3. wk'.pc = "head" /\ wk'.cp = cp2 /\ wk'.seen = wk.seen
  BY <1>1 DEF IInv, WkType, cp2
<1>4. ASSUME status = "running", NEW n \in ran, n \notin produced
      PROVE  DueAgain(cp2.queue, wk.seen, FALSE, n)
  <2>1. DueAgain(wk.cp.queue, wk.seen, wk.pc \in {"work", "done"}, n)
    BY <1>1, <1>4, RanFacts
  <2>2. DueAgain(wk.cp.queue, wk.seen, FALSE, n)
    BY <1>1, <2>1 DEF DueAgain
  <2> QED BY <1>1, <1>2, <2>2, DueTail
<1>5. RanInMemory'
  BY <1>1, <1>3, <1>4 DEF RanInMemory, DueAgain
<1> QED BY <1>1, <1>5 DEF RanInv, RanSaved, RanRecorded

LEMMA WaitAtJoinRan ==
    ASSUME IInv, RanInv, WaitAtJoin
    PROVE  RanInv'
<1> DEFINE t == LastToken(Current.tokens)
           d == Drop(Here)
           cp2 == [d EXCEPT !.frames[t.frame].arrived = @ \cup {t.branch}]
<1>1. /\ wk.pc = "head" /\ wk.cp.queue # <<>> /\ Kind[Current.node] = "join" /\ Current.joined = NoFrame
      /\ Save(cp2, "head", wk.seen) /\ UNCHANGED <<produced, ran>>
  BY DEF WaitAtJoin, Arriving, Fresh
<1>2. d \in Checkpoint /\ d.queue = Tail(wk.cp.queue)
  BY <1>1, HereFacts
<1> HIDE DEF d, t
<1>3. cp2.queue = d.queue
  BY <1>2 DEF Checkpoint
<1> HIDE DEF cp2
<1> QED BY <1>1, <1>2, <1>3, NoFrameFacts, DropRan

LEMMA ReuseAskRan ==
    ASSUME IInv, RanInv, ReuseAsk
    PROVE  RanInv'
<1> DEFINE cp2 == Drop(Here)
<1>1. /\ wk.pc = "head" /\ wk.cp.queue # <<>> /\ Kind[Current.node] \in Human
      /\ Save(cp2, "head", wk.seen) /\ UNCHANGED <<produced, ran>>
  BY DEF ReuseAsk, Fresh, Human
<1>2. cp2.queue = Tail(wk.cp.queue)
  BY <1>1, HereFacts
<1> HIDE DEF cp2
<1> QED BY <1>1, <1>2, DropRan

LEMMA LeaveBranchRan ==
    ASSUME Nested, IInv, RanInv, LeaveBranch
    PROVE  RanInv'
<1> DEFINE cp2 == Drop(wk.cp)
<1>1. wk.pc = "asked" /\ Save(cp2, "head", wk.seen) /\ UNCHANGED <<produced, ran>>
  BY DEF LeaveBranch
<1>2. wk.cp.queue # <<>> /\ cp2.queue = Tail(wk.cp.queue) /\ Current = wk.cp.queue[1]
  BY <1>1, DoneFacts, WorkerFacts
<1>3. Kind[Current.node] \in Human
  BY <1>1, <1>2, MemoryFacts DEF HasAsked
<1> HIDE DEF cp2
<1> QED BY <1>1, <1>2, <1>3, DropRan

\* The marked join replaces the arriving one at the head.
LEMMA OpenJoinRan ==
    ASSUME Nested, IInv, IInv', RanInv, OpenJoin
    PROVE  RanInv'
<1> DEFINE e == Current
           t == LastToken(e.tokens)
           up == Parent(e.tokens)
           x == [e EXCEPT !.tokens = up, !.joined = t.frame]
           cp1 == [Here EXCEPT !.frames[t.frame].arrived = @ \cup {t.branch}, !.ctx = Merge(Here, t.frame),
                               !.queue = <<x>> \o Tail(@)]
           cp2 == SaveScope(cp1, up)
           seen2 == wk.seen \cup {Key(e)}
           q == wk.cp.queue
<1>1. /\ wk.pc = "head" /\ q # <<>> /\ Kind[e.node] = "join" /\ e.joined = NoFrame
      /\ Save(cp2, "work", seen2) /\ UNCHANGED <<produced, ran>>
  BY DEF OpenJoin, Arriving, Fresh
<1>2. q \in Seq(Entry) /\ e = q[1] /\ Here \in Checkpoint /\ Here.queue = q
  BY <1>1, WorkerFacts, CheckpointFacts, HereFacts
<1> HIDE DEF up, t
<1>3. cp2.queue = <<x>> \o Tail(q)
  <2> DEFINE d == Here
  <2>1. d \in Checkpoint /\ d.queue = q
    BY <1>2
  <2> HIDE DEF d, x, q, e
  <2>2. cp1.queue = <<x>> \o Tail(q)
    BY <2>1 DEF d, Checkpoint
  <2> HIDE DEF cp1
  <2> QED BY <2>2 DEF SaveScope
<1> HIDE DEF cp2, x, e, q
<1>4. ASSUME status = "running", NEW n \in ran, n \notin produced
      PROVE  DueAgain(cp2.queue, seen2, TRUE, n)
  <2>1. DueAgain(q, wk.seen, FALSE, n)
    BY <1>1, <1>4, RanFacts DEF DueAgain, q
  <2>2. PICK i \in DOMAIN q : Executes(q[i], n) /\ Key(q[i]) \notin wk.seen
    BY <2>1 DEF DueAgain
  <2>3. i # 1 /\ Key(q[i]) # Key(e)
    <3>1. ~Executes(q[1], n)
      BY <1>1, <1>2, NoFrameFacts DEF Executes
    <3>2. Key(q[i]) = Key(e) => q[i].node = e.node /\ q[i].joined = e.joined
      BY DEF Key
    <3> QED BY <1>1, <2>2, <3>1, <3>2, NoFrameFacts DEF Executes
  <2>4. i \in DOMAIN cp2.queue /\ cp2.queue[i] = q[i]
    <3>1. i - 1 \in DOMAIN Tail(q) /\ Tail(q)[i - 1] = q[i] /\ Tail(q) \in Seq(Entry) /\ i \in 1..Len(q)
      BY <1>1, <1>2, <2>2, <2>3, TailFacts
    <3> QED BY <1>3, <3>1
  <2> QED BY <2>2, <2>3, <2>4 DEF DueAgain, seen2
<1>5. status = "running" => \A n \in ran : n \in produced' \/ DueAgain(cp2.queue, seen2, "work" = "work", n)
  BY <1>1, <1>4
<1>6. "work" \in {"head", "work"}
  OBVIOUS
<1> HIDE DEF seen2, Save
<1> QED BY <1>1, <1>5, <1>6, SaveRan

LEMMA BeginNodeRan ==
    ASSUME Nested, IInv, RanInv, BeginNode
    PROVE  RanInv'
<1> DEFINE e == Current
           cp1 == IF e.joined = NoFrame THEN Here ELSE [Here EXCEPT !.ctx = Merge(Here, e.joined)]
           cp2 == SaveScope(cp1, e.tokens)
           seen2 == wk.seen \cup {Key(e)}
           q == wk.cp.queue
<1>1. /\ wk.pc = "head" /\ q # <<>> /\ Save(cp2, "work", seen2) /\ UNCHANGED <<produced, ran>>
  BY DEF BeginNode, Fresh
<1>2. q \in Seq(Entry) /\ e = q[1] /\ 1 \in DOMAIN q /\ Here \in Checkpoint /\ Here.queue = q
  BY <1>1, WorkerFacts, CheckpointFacts, HereFacts
<1> HIDE DEF e, q
<1>3. cp2.queue = q
  <2> DEFINE d == Here
             c == Merge(Here, e.joined)
  <2> HIDE DEF c
  <2>1. d \in Checkpoint /\ d.queue = q /\ cp1 = IF e.joined = NoFrame THEN d ELSE [d EXCEPT !.ctx = c]
    BY <1>2 DEF c
  <2> HIDE DEF d, cp1
  <2>2. cp1.queue = q
    BY <2>1 DEF Checkpoint
  <2> QED BY <2>2 DEF SaveScope
<1> HIDE DEF cp2
<1>4. ASSUME status = "running", NEW n \in ran, n \notin produced
      PROVE  DueAgain(cp2.queue, seen2, TRUE, n)
  <2>1. DueAgain(q, wk.seen, FALSE, n)
    BY <1>1, <1>4, RanFacts DEF DueAgain, q
  <2>2. PICK i \in DOMAIN q : Executes(q[i], n) /\ Key(q[i]) \notin wk.seen
    BY <2>1 DEF DueAgain
  <2>3. CASE Key(q[i]) # Key(e)
    BY <1>3, <2>2, <2>3 DEF DueAgain, seen2
  <2>4. CASE Key(q[i]) = Key(e)
    <3>1. q[1].node = q[i].node /\ q[1].joined = q[i].joined
      BY <1>2, <2>4 DEF Key
    <3>2. Executes(q[1], n)
      BY <2>2, <3>1 DEF Executes
    <3> QED BY <1>2, <1>3, <3>2 DEF DueAgain
  <2> QED BY <2>3, <2>4
<1>5. status = "running" => \A n \in ran : n \in produced' \/ DueAgain(cp2.queue, seen2, "work" = "work", n)
  BY <1>1, <1>4
<1>6. "work" \in {"head", "work"}
  OBVIOUS
<1> HIDE DEF seen2, Save
<1> QED BY <1>1, <1>5, <1>6, SaveRan

LEMMA FinishNodeRan ==
    ASSUME Nested, IInv, RanInv, FinishNode
    PROVE  RanInv'
<1>1. /\ wk.pc = "work" /\ Kind[Current.node] \notin Human /\ wk' = [wk EXCEPT !.pc = "done"]
      /\ ran' = ran \cup {Current.node} /\ UNCHANGED <<status, saved, produced>>
  BY DEF FinishNode, Human
<1>2. wk'.pc = "done" /\ wk'.cp = wk.cp /\ wk'.seen = wk.seen
  BY <1>1 DEF IInv, WkType
<1>3. wk.cp = saved /\ Current = saved.queue[1] /\ 1 \in DOMAIN saved.queue
      /\ (Kind[Current.node] = "join" => Current.joined \in Frame) /\ status # "success"
  BY <1>1, DoneFacts
<1>4. Executes(saved.queue[1], Current.node)
  BY <1>1, <1>3 DEF Executes
<1>5. RanSaved'
  BY <1>1, <1>3, <1>4 DEF RanInv, RanSaved, Due
<1>6. ASSUME status = "running", NEW n \in ran', n \notin produced
      PROVE  DueAgain(wk.cp.queue, wk.seen, TRUE, n)
  <2>1. CASE n = Current.node
    BY <1>3, <1>4, <2>1 DEF DueAgain
  <2>2. CASE n \in ran
    <3>1. DueAgain(wk.cp.queue, wk.seen, wk.pc \in {"work", "done"}, n)
      BY <1>1, <1>6, <2>2, RanFacts
    <3> QED BY <3>1 DEF DueAgain
  <2> QED BY <1>1, <1>6, <2>1, <2>2
<1>7. RanInMemory'
  BY <1>1, <1>2, <1>6 DEF RanInMemory, DueAgain
<1> QED BY <1>1, <1>3, <1>5, <1>7 DEF RanInv, RanRecorded

LEMMA RunNodeRan ==
    ASSUME Nested, IInv, RanInv, RunNode
    PROVE  RanInv'
<1> DEFINE e == Current
           s == e.tokens
           q == wk.cp.queue
           done == [Drop(wk.cp) EXCEPT !.ctx = @ \cup {e.node}]
           c1(next) == IF Kind[e.node] = "router" THEN Fork(done, e.node, next, s)
                       ELSE [done EXCEPT !.queue = @ \o Successors(next, s)]
           c2(next) == SaveScope(c1(next), s)
<1>1. /\ wk.pc = "done"
      /\ Kind[e.node] = "router" => Unforked(wk.cp, e.node) # {}
      /\ \E next \in Routes[e.node] : Save(c2(next), "head", wk.seen)
      /\ produced' = produced \cup {e.node} /\ ran' = ran
  BY DEF RunNode
<1>2. PICK next \in Routes[e.node] : Save(c2(next), "head", wk.seen)
  BY <1>1
<1> DEFINE cp1 == c1(next)
           cp2 == c2(next)
<1>3. q # <<>> /\ Drop(wk.cp) \in Checkpoint /\ Drop(wk.cp).queue = Tail(q) /\ Drop(wk.cp).frames = wk.cp.frames
  BY <1>1, DoneFacts
<1>4. e = q[1] /\ q \in Seq(Entry) /\ e.node \in Nodes /\ s \in Seq(BranchToken)
  BY <1>3, WorkerFacts, CheckpointFacts
<1>5. next \in Seq(Nodes)
  BY <1>4, ParallelAssumption
<1>6. done \in Checkpoint /\ done.queue = Tail(q) /\ done.frames = wk.cp.frames
  <2> DEFINE d == Drop(wk.cp)
             c == d.ctx \cup {e.node}
  <2>1. d \in Checkpoint /\ c \in SUBSET Nodes
    BY <1>3, <1>4, CheckpointParts
  <2>2. done = [d EXCEPT !.ctx = c]
    OBVIOUS
  <2> HIDE DEF d, c, done
  <2>3. LET y == [d EXCEPT !.ctx = c]
        IN  y \in Checkpoint /\ y.queue = d.queue /\ y.frames = d.frames
    BY <2>1, ContextFacts
  <2> QED BY <1>3, <2>2, <2>3 DEF d
<1>s. Save(cp2, "head", wk.seen)
  BY <1>2
<1>c. cp2 = SaveScope(cp1, s)
  OBVIOUS
<1> HIDE DEF e, s, done, q, c2
<1> HIDE DEF cp2
<1>7. \E r \in Seq(Entry) : cp1.queue = Tail(q) \o r
  <2>1. CASE Kind[e.node] # "router"
    <3> DEFINE r == Successors(next, s)
    <3>1. r \in Seq(Entry)
      BY <1>4, <1>5, SuccessorFacts
    <3>2. cp1 = [done EXCEPT !.queue = @ \o r]
      BY <2>1
    <3> HIDE DEF r, cp1
    <3>3. LET y == [done EXCEPT !.queue = @ \o r]
          IN  y.queue = done.queue \o r
      BY <1>6, <3>1, ExtendFacts
    <3> QED BY <1>6, <3>1, <3>2, <3>3
  <2>2. CASE Kind[e.node] = "router"
    <3>1. cp1 = Fork(done, e.node, next, s)
      BY <2>2
    <3>2. e.node \in Routers /\ Unforked(done, e.node) # {}
      BY <1>1, <1>4, <1>6, <2>2 DEF Routers, Unforked, Forked
    <3> HIDE DEF cp1
    <3>3. PICK f \in Frame : ForkedAt(done, cp1, next, s, f)
      BY <1>4, <1>5, <1>6, <3>1, <3>2, ForkFacts
    <3> DEFINE r == BranchEntries(next, s, f)
    <3>4. r \in Seq(Entry)
      BY <1>4, <1>5, BranchFacts
    <3>5. cp1.queue = Tail(q) \o r
      BY <1>6, <3>3 DEF ForkedAt
    <3> HIDE DEF r
    <3> QED BY <3>4, <3>5
  <2> QED BY <2>1, <2>2
<1>8. PICK r \in Seq(Entry) : cp1.queue = Tail(q) \o r
  BY <1>7
<1> HIDE DEF cp1
<1>9. cp2.queue = Tail(q) \o r
  <2>1. SaveScope(cp1, s).queue = cp1.queue
    BY DEF SaveScope
  <2> QED BY <1>8, <1>c, <2>1
<1>10. ASSUME status = "running", NEW n \in ran, n \notin produced'
       PROVE  DueAgain(cp2.queue, wk.seen, FALSE, n)
  <2>1. DueAgain(q, wk.seen, TRUE, n)
    BY <1>1, <1>10, RanFacts DEF DueAgain, q
  <2>2. ~Executes(q[1], n)
    BY <1>1, <1>4, <1>10 DEF Executes
  <2>3. DueAgain(Tail(q), wk.seen, FALSE, n)
    BY <1>3, <1>4, <2>1, <2>2, DueTail
  <2>4. Tail(q) \in Seq(Entry)
    BY <1>3, <1>4, TailFacts
  <2> QED BY <1>9, <2>3, <2>4, DueAppend
<1>11. status = "running" => \A n \in ran : n \in produced' \/ DueAgain(cp2.queue, wk.seen, "head" = "work", n)
  BY <1>10
<1>12. "head" \in {"head", "work"}
  OBVIOUS
<1> HIDE DEF Save
<1> QED BY <1>1, <1>s, <1>11, <1>12, SaveRan

LEMMA CreateAskRan ==
    ASSUME Nested, IInv, RanInv, CreateAsk
    PROVE  RanInv'
<1>1. /\ wk.pc = "work" /\ Kind[Current.node] \in Human /\ wk' = [wk EXCEPT !.pc = "asked"]
      /\ UNCHANGED <<status, saved, produced, ran>>
  BY DEF CreateAsk, Human
<1>2. wk'.pc = "asked" /\ wk'.cp = wk.cp /\ wk'.seen = wk.seen
  BY <1>1 DEF IInv, WkType
<1>3. wk.cp.queue # <<>> /\ Current = wk.cp.queue[1]
  BY <1>1, DoneFacts, WorkerFacts
<1>4. ASSUME status = "running", NEW n \in ran, n \notin produced
      PROVE  DueAgain(wk.cp.queue, wk.seen, FALSE, n)
  <2>1. DueAgain(wk.cp.queue, wk.seen, wk.pc \in {"work", "done"}, n)
    BY <1>1, <1>4, RanFacts
  <2>2. ~Executes(wk.cp.queue[1], n)
    BY <1>1, <1>3 DEF Executes
  <2> QED BY <2>1, <2>2 DEF DueAgain
<1>5. RanInMemory'
  BY <1>1, <1>2, <1>4 DEF RanInMemory, DueAgain
<1> QED BY <1>1, <1>5 DEF RanInv, RanSaved, RanRecorded

\* With an empty queue everything finished is recorded.
LEMMA CloseSegmentRan ==
    ASSUME IInv, RanInv, CloseSegment
    PROVE  RanInv'
<1>1. wk.pc = "head" /\ wk.cp.queue = <<>> /\ UNCHANGED <<produced, ran>>
  BY DEF CloseSegment
<1>2. CASE Throw /\ saved' = saved
  BY <1>1, <1>2, ThrowRan
<1>3. CASE status = "running" /\ status' = "waiting" /\ wk' = Idle /\ UNCHANGED <<saved, asks>>
  <2>1. wk'.pc = "idle"
    BY <1>3 DEF Idle
  <2> QED BY <1>1, <1>3, <2>1 DEF RanInv, RanSaved, RanInMemory, RanRecorded, Terminal
<1>4. CASE status = "running" /\ status' = "success" /\ wk' = Idle
  <2>1. \A n \in ran : n \in produced
    BY <1>1, <1>4, RanFacts DEF DueAgain
  <2> QED BY <1>1, <1>4, <2>1 DEF RanInv, RanSaved, RanInMemory, RanRecorded, Terminal
<1> QED BY <1>2, <1>3, <1>4 DEF CloseSegment

\* An answer drops at most the entry of its task, and appends.
LEMMA ContinueRan ==
    ASSUME Nested, IInv, RanInv, status = "waiting", NEW i \in DOMAIN asks, NEW answer, Continue(i, answer)
    PROVE  RanInv'
<1>1. saved \in Checkpoint /\ asks \in Seq(Ask) /\ saved.queue \in Seq(Entry) /\ AllRoot(saved.queue)
      /\ wk.pc = "idle" /\ Sound(saved, asks, joins) /\ joins \in [Frame -> Nat]
  BY WorkerFacts, CheckpointFacts DEF IInv, InMemory, WaitsEmpty, Terminal
<1>2. produced' = produced \cup {asks[i].node} /\ wk' = wk /\ ran' = ran
  BY DEF Continue
<1>3. \A n \in ran : n \in produced \/ Due(saved.queue, n)
  BY DEF RanInv, RanSaved, Terminal
<1>4. CASE status' = "cancelled" /\ saved' = saved
  BY <1>1, <1>2, <1>4 DEF RanInv, RanSaved, RanInMemory, RanRecorded, Terminal
<1>5. CASE status' = "queued" /\ \E next \in Routes[asks[i].node] : saved' = Extend(saved, i, next)
  <2>1. PICK next \in Routes[asks[i].node] : saved' = Extend(saved, i, next)
    BY <1>5
  <2> DEFINE w == Without(saved, asks[i])
             r == Successors(next, asks[i].tokens)
             cp2 == Extend(saved, i, next)
  <2>2. w \in Checkpoint
    BY <1>1, WithoutSound
  <2>3. cp2.queue = w.queue \o r
    BY <1>1, <2>2, ExtendSound
  <2>4. asks[i] \in Ask
    BY <1>1
  <2>5. r \in Seq(Entry) /\ w.queue \in Seq(Entry)
    <3>1. asks[i].node \in Nodes /\ asks[i].tokens \in Seq(BranchToken)
      BY <2>4 DEF Ask
    <3>2. next \in Seq(Nodes)
      BY <3>1, ParallelAssumption
    <3> QED BY <2>2, <3>1, <3>2, SuccessorFacts, CheckpointFacts
  <2>6. w = saved \/ (w = Drop(saved) /\ saved.queue # <<>> /\ Kind[saved.queue[1].node] \in Human)
    BY <1>1, TailFacts DEF Without, Human
  <2> HIDE DEF w, r, cp2
  <2>7. ASSUME NEW n, Due(saved.queue, n)
        PROVE  Due(cp2.queue, n)
    <3>1. PICK k \in DOMAIN saved.queue : Executes(saved.queue[k], n)
      BY <2>7 DEF Due
    <3>2. \E p \in DOMAIN w.queue : Executes(w.queue[p], n)
      <4>1. CASE w = saved
        BY <3>1, <4>1
      <4>2. CASE w = Drop(saved) /\ saved.queue # <<>> /\ Kind[saved.queue[1].node] \in Human
        <5>1. k # 1
          BY <3>1, <4>2 DEF Executes
        <5>2. w.queue = Tail(saved.queue)
          BY <1>1, <4>2, DropFacts
        <5>3. k - 1 \in DOMAIN w.queue /\ w.queue[k - 1] = saved.queue[k]
          BY <1>1, <3>1, <4>2, <5>1, <5>2, TailFacts
        <5> QED BY <3>1, <5>3
      <4> QED BY <2>6, <4>1, <4>2
    <3>3. PICK p \in DOMAIN w.queue : Executes(w.queue[p], n)
      BY <3>2
    <3>4. p \in DOMAIN cp2.queue /\ cp2.queue[p] = w.queue[p]
      BY <2>3, <2>5, <3>3, AppendFacts
    <3> QED BY <3>3, <3>4 DEF Due
  <2>8. saved' = cp2
    BY <2>1 DEF cp2
  <2>9. RanSaved'
    BY <1>2, <1>3, <2>7, <2>8 DEF RanSaved
  <2> QED BY <1>1, <1>2, <1>5, <2>9 DEF RanInv, RanInMemory, RanRecorded
<1> QED BY <1>4, <1>5 DEF Continue

\* Nothing the worker finished, recorded or has yet to do is touched.
LEMMA SameRan ==
    ASSUME RanInv, UNCHANGED <<saved, wk, produced, ran>>, status' = status \/ status' = "cancelled"
    PROVE  RanInv'
<1>1. RanSaved' /\ RanRecorded'
  BY DEF RanInv, RanSaved, RanRecorded, Terminal
<1>2. RanInMemory'
  BY DEF RanInv, RanInMemory
<1> QED BY <1>1, <1>2 DEF RanInv

LEMMA OthersRan ==
    ASSUME IInv, RanInv, Crash \/ RefuseAsk \/ ThrowError \/ ReconcileExhausted \/ Pause \/ Resume \/ Stop
    PROVE  RanInv'
<1>1. CASE Crash
  BY <1>1 DEF Crash, Idle, RanInv, RanSaved, RanInMemory, RanRecorded
<1>2. CASE RefuseAsk
  BY <1>2, ThrowRan DEF RefuseAsk
<1>3. CASE ThrowError
  BY <1>3, ThrowRan DEF ThrowError
<1>4. CASE ReconcileExhausted
  BY <1>4, ThrowRan DEF ReconcileExhausted
<1>5. CASE Pause
  BY <1>5 DEF Pause, RanInv, RanSaved, RanInMemory, RanRecorded, Terminal
<1>6. CASE Resume
  BY <1>6 DEF Resume, RanInv, RanSaved, RanInMemory, RanRecorded, Terminal
<1>7. CASE Stop
  BY <1>7, SameRan DEF Stop
<1> QED BY <1>1, <1>2, <1>3, <1>4, <1>5, <1>6, <1>7

LEMMA AnswersRan ==
    ASSUME Nested, IInv, RanInv, NEW i \in DOMAIN asks,
           \/ \E answer \in Decided : Decide(i, answer)
           \/ Signal(i) \/ ReconcileDecision(i) \/ DeliverAccepted(i) \/ FireTimer(i)
    PROVE  RanInv'
<1>1. CASE \E answer : status = "waiting" /\ Continue(i, answer)
  BY <1>1, ContinueRan
<1>2. CASE UNCHANGED <<status, saved, wk, produced, ran>>
  BY <1>2, SameRan
<1>3. CASE \E answer \in Decided : Decide(i, answer)
  BY <1>1, <1>2, <1>3 DEF Decide
<1>4. CASE Signal(i)
  BY <1>1, <1>2, <1>4 DEF Signal
<1>5. CASE ReconcileDecision(i) \/ DeliverAccepted(i) \/ FireTimer(i)
  BY <1>1, <1>5 DEF ReconcileDecision, DeliverAccepted, FireTimer
<1> QED BY <1>3, <1>4, <1>5

LEMMA NextRan ==
    ASSUME Nested, IInv, IInv', RanInv, [Next]_vars
    PROVE  RanInv'
<1>1. CASE WorkerStep
  BY <1>1, SkipRepeatedRan, WaitAtJoinRan, OpenJoinRan, ReuseAskRan, BeginNodeRan, FinishNodeRan, RunNodeRan,
     CreateAskRan, LeaveBranchRan, CloseSegmentRan, OthersRan DEF WorkerStep
<1>2. CASE UNCHANGED vars
  BY <1>2, SameRan DEF vars
<1> QED BY <1>1, <1>2, ClaimRan, OthersRan, AnswersRan DEF Next, Reconcile

-----------------------------------------------------------------------------
(* How often a join is finished.                                           *)

Faults == used.crashes + used.errors
Finished(f) == wk.pc = "done" /\ wk.cp.queue[1].joined = f
AtHead(f) == wk.pc \in {"work", "done"} /\ wk.cp.queue[1].joined = f

\* A join at work has no checkpoint behind it yet; and unless it has just been finished, a
\* join was finished as often as a checkpoint followed, or a fault came in between.
RunsInv ==
    /\ ran \subseteq Nodes /\ runs \in [Frame -> Nat]
    /\ \A f \in Frame :
          /\ AtHead(f) => joins[f] = 0
          /\ ~Finished(f) => runs[f] <= joins[f] + Faults
          /\ runs[f] <= 1 + joins[f] + Faults
          /\ runs[f] <= 1 + Faults

LEMMA InitRuns ==
    ASSUME Init
    PROVE  RunsInv
BY DEF Init, RunsInv, Finished, AtHead, Faults

\* A step that finishes nothing and keeps the counts.
LEMMA IdleRuns ==
    ASSUME IInv, IInv', RunsInv, UNCHANGED <<joins, ran, runs>>, Faults' \in Nat, Faults' >= Faults,
           \A f \in Frame : AtHead(f)' => joins[f] = 0,
           \A f \in Frame : Finished(f) /\ ~Finished(f)' => Faults' = Faults + 1
    PROVE  RunsInv'
<1>1. joins \in [Frame -> Nat] /\ Faults \in Nat
  BY WorkerFacts DEF UsedType, Faults
<1> SUFFICES ASSUME NEW f \in Frame
             PROVE  /\ AtHead(f)' => joins'[f] = 0
                    /\ ~Finished(f)' => runs'[f] <= joins'[f] + Faults'
                    /\ runs'[f] <= 1 + joins'[f] + Faults'
                    /\ runs'[f] <= 1 + Faults'
  BY DEF RunsInv
<1>2. runs[f] \in Nat /\ joins[f] \in Nat
  BY <1>1 DEF RunsInv
<1> HIDE DEF Faults, Finished, AtHead
<1>3. /\ ~Finished(f) => runs[f] <= joins[f] + Faults
      /\ runs[f] <= 1 + joins[f] + Faults
      /\ runs[f] <= 1 + Faults
  BY DEF RunsInv
<1>4. ~Finished(f)' => runs[f] <= joins[f] + Faults'
  BY <1>1, <1>2, <1>3
<1>5. runs[f] <= 1 + joins[f] + Faults' /\ runs[f] <= 1 + Faults'
  BY <1>1, <1>2, <1>3
<1> QED BY <1>4, <1>5

\* While the run is on, the entry of a join at work is marked, and so has no checkpoint yet.
LEMMA MarkedUncounted ==
    ASSUME NEW cp \in Checkpoint, NEW a, NEW jn, Sound(cp, a, jn), Complete(cp, a, jn), cp.queue # <<>>,
           NEW f \in Frame, cp.queue[1].joined = f
    PROVE  jn[f] = 0
<1>1. 1 \in DOMAIN cp.queue
  BY CheckpointFacts, TailFacts
<1>2. IsMarked(cp.queue, f)
  BY <1>1 DEF IsMarked
<1> QED BY <1>2 DEF Sound, Complete, Marks, Once

LEMMA SaveRuns ==
    ASSUME IInv, IInv', RunsInv, wk.pc \in {"head", "asked"}, NEW cp, NEW pc \in {"head", "work"}, NEW seen,
           Save(cp, pc, seen), UNCHANGED <<joins, ran, runs, used>>
    PROVE  RunsInv'
<1>1. Faults' = Faults /\ Faults \in Nat
  BY WorkerFacts DEF Faults, UsedType
<1>2. \A f \in Frame : ~Finished(f)
  BY DEF Finished
<1>3. \A f \in Frame : AtHead(f)' => joins[f] = 0
  <2> SUFFICES ASSUME NEW f \in Frame, AtHead(f)'
               PROVE  joins[f] = 0
    OBVIOUS
  <2>1. wk'.pc \in {"work", "done"} /\ wk'.cp.queue[1].joined = f
    BY DEF AtHead
  <2>2. status = "running"
    BY <2>1 DEF Save, Throw, Idle
  <2>3. status' = "running"
    BY <2>2 DEF Save
  <2>4. wk'.cp \in Checkpoint /\ Sound(wk'.cp, asks', joins') /\ Complete(wk'.cp, asks', joins') /\ wk'.cp.queue # <<>>
    BY <2>1, <2>3 DEF IInv, CoreType, InMemory, AtWork, Terminal
  <2>5. joins'[f] = 0
    BY <2>1, <2>4, MarkedUncounted
  <2> QED BY <2>5
<1>4. Faults' \in Nat /\ Faults' >= Faults
  BY <1>1
<1> QED BY <1>2, <1>3, <1>4, IdleRuns

\* The worker's segment ends, or is where it was.
LEMMA LeftRuns ==
    ASSUME IInv, IInv', RunsInv, UNCHANGED <<joins, ran, runs>>,
           \/ UNCHANGED <<wk, used>>
           \/ wk.pc # "done" /\ wk'.pc \in {"idle", "head", "asked"} /\ used' = used
           \/ wk'.pc = "idle" /\ used' = [used EXCEPT !.errors = @ + 1]
           \/ wk'.pc = "idle" /\ used' = [used EXCEPT !.crashes = @ + 1]
           \/ wk' = wk /\ used' = [used EXCEPT !.pauses = @ + 1]
    PROVE  RunsInv'
<1>1. used \in UsedType /\ Faults \in Nat
  BY WorkerFacts DEF Faults, UsedType
<1>2. \/ wk' = wk /\ Faults' = Faults
      \/ wk.pc # "done" /\ wk'.pc \in {"idle", "head", "asked"} /\ Faults' = Faults
      \/ wk'.pc = "idle" /\ Faults' = Faults + 1
  BY <1>1 DEF Faults, UsedType
<1>3. Faults' \in Nat /\ Faults' >= Faults
  BY <1>1, <1>2
<1> HIDE DEF Faults
<1>4. \A f \in Frame : AtHead(f)' => joins[f] = 0
  BY <1>2 DEF RunsInv, AtHead
<1>5. \A f \in Frame : Finished(f) /\ ~Finished(f)' => Faults' = Faults + 1
  BY <1>2 DEF Finished
<1> QED BY <1>3, <1>4, <1>5, IdleRuns

LEMMA FinishNodeRuns ==
    ASSUME Nested, IInv, RunsInv, FinishNode
    PROVE  RunsInv'
<1>1. /\ wk.pc = "work" /\ wk' = [wk EXCEPT !.pc = "done"] /\ ran' = ran \cup {Current.node}
      /\ runs' = (IF Current.joined \in Frame THEN [runs EXCEPT ![Current.joined] = @ + 1] ELSE runs)
      /\ joins' = joins /\ used' = used
  BY DEF FinishNode
<1>2. wk'.pc = "done" /\ wk'.cp = wk.cp
  BY <1>1 DEF IInv, WkType
<1>3. wk.cp.queue # <<>> /\ Current = wk.cp.queue[1] /\ Current.node \in Nodes
  BY <1>1, DoneFacts, WorkerFacts
<1>4. joins \in [Frame -> Nat] /\ Faults \in Nat /\ Faults' = Faults
  BY <1>1, WorkerFacts DEF UsedType, Faults
<1>5. ran' \subseteq Nodes /\ runs' \in [Frame -> Nat]
  BY <1>1, <1>3 DEF RunsInv
<1> HIDE DEF Faults
<1>6. ASSUME NEW f \in Frame
      PROVE  /\ AtHead(f)' => joins'[f] = 0
             /\ ~Finished(f)' => runs'[f] <= joins'[f] + Faults'
             /\ runs'[f] <= 1 + joins'[f] + Faults'
             /\ runs'[f] <= 1 + Faults'
  <2>1. runs[f] \in Nat /\ joins[f] \in Nat /\ runs[f] <= joins[f] + Faults /\ runs[f] <= 1 + Faults
        /\ (AtHead(f) => joins[f] = 0)
    BY <1>1, <1>4 DEF RunsInv, Finished
  <2>2. CASE Current.joined = f
    <3>1. runs'[f] = runs[f] + 1
      BY <1>1, <2>2 DEF RunsInv
    <3>2. AtHead(f) /\ Finished(f)'
      BY <1>1, <1>2, <1>3, <2>2 DEF AtHead, Finished
    <3> QED BY <1>1, <1>4, <2>1, <3>1, <3>2
  <2>3. CASE Current.joined # f
    <3>1. runs'[f] = runs[f]
      BY <1>1, <2>3 DEF RunsInv
    <3>2. ~AtHead(f)'
      BY <1>2, <1>3, <2>3 DEF AtHead
    <3> QED BY <1>1, <1>4, <2>1, <3>1, <3>2
  <2> QED BY <2>2, <2>3
<1> QED BY <1>5, <1>6 DEF RunsInv

LEMMA RunNodeRuns ==
    ASSUME Nested, IInv, RunsInv, RunNode
    PROVE  RunsInv'
<1>1. /\ wk.pc = "done" /\ UNCHANGED <<ran, runs, used>>
      /\ joins' = (IF Current.joined \in Frame THEN [joins EXCEPT ![Current.joined] = @ + 1] ELSE joins)
      /\ \E cp : Save(cp, "head", wk.seen)
  BY DEF RunNode
<1>2. wk'.pc \in {"idle", "head"}
  BY <1>1 DEF Save, Throw, Idle
<1>3. wk.cp.queue # <<>> /\ Current = wk.cp.queue[1]
  BY <1>1, DoneFacts, WorkerFacts
<1>4. joins \in [Frame -> Nat] /\ Faults \in Nat /\ Faults' = Faults
  BY <1>1, WorkerFacts DEF UsedType, Faults
<1> HIDE DEF Faults
<1>5. ASSUME NEW f \in Frame
      PROVE  /\ ~AtHead(f)'
             /\ runs'[f] <= joins'[f] + Faults'
             /\ runs'[f] <= 1 + joins'[f] + Faults'
             /\ runs'[f] <= 1 + Faults'
  <2>1. runs[f] \in Nat /\ joins[f] \in Nat /\ runs[f] <= 1 + joins[f] + Faults /\ runs[f] <= 1 + Faults
        /\ (~Finished(f) => runs[f] <= joins[f] + Faults)
    BY <1>4 DEF RunsInv
  <2>2. ~AtHead(f)'
    BY <1>2 DEF AtHead
  <2>3. CASE Current.joined = f
    <3>1. joins'[f] = joins[f] + 1
      BY <1>1, <1>4, <2>3
    <3> QED BY <1>1, <1>4, <2>1, <2>2, <3>1
  <2>4. CASE Current.joined # f
    <3>1. joins'[f] = joins[f]
      BY <1>1, <1>4, <2>4
    <3>2. ~Finished(f)
      BY <1>3, <2>4 DEF Finished
    <3> QED BY <1>1, <1>4, <2>1, <2>2, <3>1, <3>2
  <2> QED BY <2>3, <2>4
<1> QED BY <1>1, <1>5 DEF RunsInv

LEMMA NextRuns ==
    ASSUME Nested, IInv, IInv', RunsInv, [Next]_vars
    PROVE  RunsInv'
<1>1. CASE WaitAtJoin
  BY <1>1, SaveRuns DEF WaitAtJoin, Arriving, Fresh
<1>2. CASE OpenJoin
  BY <1>2, SaveRuns DEF OpenJoin, Arriving, Fresh
<1>3. CASE ReuseAsk
  BY <1>3, SaveRuns DEF ReuseAsk, Fresh
<1>4. CASE BeginNode
  BY <1>4, SaveRuns DEF BeginNode, Fresh
<1>5. CASE LeaveBranch
  BY <1>5, SaveRuns DEF LeaveBranch
<1>6. CASE Claim
  BY <1>6, LeftRuns DEF Claim
<1>7. CASE SkipRepeated
  <2>1. wk.pc = "head" /\ wk' = [wk EXCEPT !.cp = Drop(Here)] /\ UNCHANGED <<joins, ran, runs, used>>
    BY <1>7 DEF SkipRepeated
  <2>2. wk'.pc = "head"
    BY <2>1 DEF IInv, WkType
  <2> QED BY <2>1, <2>2, LeftRuns
<1>8. CASE CreateAsk
  <2>1. wk.pc = "work" /\ wk' = [wk EXCEPT !.pc = "asked"] /\ UNCHANGED <<joins, ran, runs, used>>
    BY <1>8 DEF CreateAsk
  <2>2. wk'.pc = "asked"
    BY <2>1 DEF IInv, WkType
  <2> QED BY <2>1, <2>2, LeftRuns
<1>9. CASE RefuseAsk
  BY <1>9, LeftRuns DEF RefuseAsk, Throw, Idle
<1>10. CASE CloseSegment
  <2>1. wk.pc = "head" /\ wk' = Idle /\ UNCHANGED <<joins, ran, runs, used>>
    BY <1>10 DEF CloseSegment, Throw
  <2>2. wk'.pc = "idle"
    BY <2>1 DEF Idle
  <2> QED BY <2>1, <2>2, LeftRuns
<1>11. CASE ThrowError
  BY <1>11, LeftRuns DEF ThrowError, Throw, Idle
<1>12. CASE Crash
  BY <1>12, LeftRuns DEF Crash, Idle
<1>13. CASE ReconcileExhausted
  BY <1>13, LeftRuns DEF ReconcileExhausted, Throw, Idle
<1>14. CASE Pause
  BY <1>14, LeftRuns DEF Pause
<1>15. CASE Resume \/ Stop
  BY <1>15, LeftRuns DEF Resume, Stop
<1>16. CASE \E i \in DOMAIN asks : \/ \E answer \in Decided : Decide(i, answer)
                                   \/ Signal(i) \/ ReconcileDecision(i) \/ DeliverAccepted(i) \/ FireTimer(i)
  <2>1. UNCHANGED <<wk, joins, ran, runs, used>>
    BY <1>16 DEF Decide, Signal, ReconcileDecision, DeliverAccepted, FireTimer, Continue
  <2> QED BY <2>1, LeftRuns
<1>17. CASE UNCHANGED vars
  BY <1>17, LeftRuns DEF vars
<1> QED
  BY <1>1, <1>2, <1>3, <1>4, <1>5, <1>6, <1>7, <1>8, <1>9, <1>10, <1>11, <1>12, <1>13, <1>14, <1>15, <1>16,
     <1>17, FinishNodeRuns, RunNodeRuns DEF Next, WorkerStep, Reconcile
-----------------------------------------------------------------------------
(* The theorems.                                                           *)

\* The invariant of the forest of frames holds always.
THEOREM InductiveInvariant ==
    ASSUME Nested, ~Pooled
    PROVE  Spec => []IInv
<1>1. Init => IInv
  BY InitInv
<1>2. IInv /\ [Next]_vars => IInv'
  BY NextInv
<1> QED BY <1>1, <1>2, PTL DEF Spec

\* A join was finished as often as a checkpoint followed it, and once more for each worker
\* that died or threw in between (executeNode, finishNodeRun, persistCheckpoint).
THEOREM CountsInvariant ==
    ASSUME Nested, ~Pooled
    PROVE  Spec => [](IInv /\ RunsInv)
<1>1. Init => IInv /\ RunsInv
  BY InitInv, InitRuns
<1>2. IInv /\ RunsInv /\ [Next]_vars => (IInv /\ RunsInv)'
  <2> SUFFICES ASSUME IInv, RunsInv, [Next]_vars
               PROVE  IInv' /\ RunsInv'
    OBVIOUS
  <2>1. IInv'
    BY NextInv
  <2> QED BY <2>1, NextRuns
<1> QED BY <1>1, <1>2, PTL DEF Spec

\* Every variable keeps its type (queues, frames and scopes of the checkpoints included).
THEOREM TypeCorrect ==
    ASSUME Nested, ~Pooled
    PROVE  Spec => []TypeOK
<1>1. IInv /\ RunsInv => TypeOK
  BY DEF IInv, CoreType, RunsInv, TypeOK
<1> QED BY <1>1, CountsInvariant, PTL

\* No branch is lost: whoever was dispatched and has not arrived is queued or behind an ask
\* (persistCheckpoint, resumeParallelCheckpoint).
THEOREM NoBranchLost ==
    ASSUME Nested, ~Pooled
    PROVE  Spec => []BranchesCarried
BY InductiveInvariant, CarriedInv, PTL

\* A released join is pending once or followed by a checkpoint once, and is finished again at
\* most as often as workers died or threw (prepareParallelJoin).
THEOREM JoinExactlyOnce ==
    ASSUME Nested, ~Pooled
    PROVE  Spec => []JoinRunsOnce
<1>1. IInv /\ RunsInv => JoinRunsOnce
  <2> SUFFICES ASSUME IInv, RunsInv, NEW f \in Frame
               PROVE  LET marked == {i \in DOMAIN saved.queue : saved.queue[i].joined = f}
                      IN  /\ \A i, k \in marked : i = k
                          /\ Released(saved, f) /\ status \notin Terminal =>
                                (joins[f] = 0 <=> marked # {}) /\ joins[f] <= 1
                          /\ runs[f] <= 1 + used.crashes + used.errors
    BY DEF JoinRunsOnce
  <2>1. runs[f] <= 1 + used.crashes + used.errors
    <3>1. used \in UsedType /\ runs[f] \in Nat /\ runs[f] <= 1 + Faults
      BY WorkerFacts DEF RunsInv
    <3>2. used.crashes \in Nat /\ used.errors \in Nat
      BY <3>1, ParallelAssumption DEF UsedType
    <3> QED BY <3>1, <3>2 DEF Faults
  <2> QED BY <2>1, OnceInv DEF MarkedOrCounted
<1> QED BY <1>1, CountsInvariant, PTL

\* A released join leaves nothing of its frame behind (arriveParallelBarrier).
THEOREM NothingBehindJoin ==
    ASSUME Nested, ~Pooled
    PROVE  Spec => []JoinLeavesNothing
BY InductiveInvariant, NothingLeftInv, PTL

\* A run that succeeds has every node's output in its context: what a branch produced was
\* merged by its join, level by level, and nothing was left behind (mergeParallelScope,
\* saveParallelScope, activateParallelScope); a node finished by a worker that died or threw
\* before its checkpoint was finished again and recorded.
THEOREM EveryOutputMerged ==
    ASSUME Nested, ~Pooled, LateSplits
    PROVE  Spec => []OutputsMerged
<1>1. Init => IInv /\ GatherInv /\ RanInv
  BY InitInv, InitGather, InitRan
<1>2. IInv /\ GatherInv /\ RanInv /\ [Next]_vars => (IInv /\ GatherInv /\ RanInv)'
  <2> SUFFICES ASSUME IInv, GatherInv, RanInv, [Next]_vars
               PROVE  IInv' /\ GatherInv' /\ RanInv'
    OBVIOUS
  <2>1. IInv'
    BY NextInv
  <2>2. GatherInv'
    BY <2>1, NextGather
  <2>3. RanInv'
    BY <2>1, NextRan
  <2> QED BY <2>1, <2>2, <2>3
<1>3. IInv /\ GatherInv /\ RanInv => OutputsMerged
  BY DEF GatherInv, ProducedMerged, RanInv, RanRecorded, OutputsMerged
<1> QED BY <1>1, <1>2, <1>3, PTL DEF Spec
=============================================================================
