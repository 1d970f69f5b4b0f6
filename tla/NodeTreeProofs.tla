---------------------------- MODULE NodeTreeProofs ----------------------------
(***************************************************************************)
(* For every set of nodes: the tree of NodeTree is one, its child-order    *)
(* rows are its edges, and only the conversion of an existing node into a  *)
(* class can leave counts stale or a standalone node under no page.        *)
(***************************************************************************)
EXTENDS NodeTree, FiniteSetTheorems, TLAPS

(***************************************************************************)
(* What is reached from n lies in every closed set that holds n, holds n   *)
(* and is closed itself.                                                   *)
(***************************************************************************)
LEMMA ReachInClosed ==
  ASSUME NEW n \in Node, NEW below, NEW S \in SUBSET Node,
         n \in S, ClosedBelow(S, below)
  PROVE  Reach(n, below) \subseteq S
BY DEF Reach

LEMMA ReachHoldsRoot ==
  ASSUME NEW n \in Node, NEW below
  PROVE  n \in Reach(n, below) /\ Reach(n, below) \subseteq Node
BY DEF Reach

LEMMA ReachIsClosed ==
  ASSUME NEW n \in Node, NEW below \in SUBSET (Node \X Node)
  PROVE  ClosedBelow(Reach(n, below), below)
<1> SUFFICES ASSUME NEW edge \in below, edge[1] \in Reach(n, below)
             PROVE  edge[2] \in Reach(n, below)
  BY DEF ClosedBelow
<1>1. edge[2] \in Node
  OBVIOUS
<1>2. \A S \in SUBSET Node : n \in S /\ ClosedBelow(S, below) => edge[2] \in S
  BY DEF ClosedBelow, Reach
<1> QED BY <1>1, <1>2 DEF Reach

\* The edges of a parent function, and what a set closed below them is.
LEMMA EdgesTyped ==
  ASSUME NEW par \in [Node -> Node \cup {None}]
  PROVE  ParentEdges(par) \subseteq Node \X Node
BY DEF ParentEdges

LEMMA ClosedIsClosedUnderChildren ==
  ASSUME NEW par \in [Node -> Node \cup {None}], NEW S \in SUBSET Node
  PROVE  ClosedBelow(S, ParentEdges(par)) <=>
           \A y \in Node : par[y] # None /\ par[y] \in S => y \in S
<1>1. ASSUME ClosedBelow(S, ParentEdges(par)), NEW y \in Node, par[y] # None, par[y] \in S
      PROVE  y \in S
  <2>1. <<par[y], y>> \in ParentEdges(par)
    BY <1>1 DEF ParentEdges
  <2> QED BY <1>1, <2>1 DEF ClosedBelow
<1>2. ASSUME \A y \in Node : par[y] # None /\ par[y] \in S => y \in S,
             NEW edge \in ParentEdges(par), edge[1] \in S
      PROVE  edge[2] \in S
  <2>1. PICK y \in Node : par[y] # None /\ edge = <<par[y], y>>
    BY <1>2 DEF ParentEdges
  <2> QED BY <1>2, <2>1
<1> QED BY <1>1, <1>2 DEF ClosedBelow

LEMMA SubtreeFacts ==
  ASSUME TypeOK, NEW n \in Node
  PROVE  /\ n \in Subtree(n) /\ Subtree(n) \subseteq Node
         /\ \A y \in Node : parent[y] # None /\ parent[y] \in Subtree(n) => y \in Subtree(n)
<1>1. parent \in [Node -> Node \cup {None}]
  BY DEF TypeOK
<1>2. ClosedBelow(Subtree(n), ParentEdges(parent)) /\ Subtree(n) \subseteq Node
  BY <1>1, EdgesTyped, ReachIsClosed, ReachHoldsRoot DEF Subtree
<1> QED BY <1>1, <1>2, ReachHoldsRoot, ClosedIsClosedUnderChildren DEF Subtree

\* To leave m out of what is below n, name a set closed under children that
\* holds n and not m.
LEMMA OutsideSubtree ==
  ASSUME NEW par \in [Node -> Node \cup {None}], NEW n \in Node, NEW m,
         NEW S \in SUBSET Node, n \in S, m \notin S,
         \A y \in Node : par[y] # None /\ par[y] \in S => y \in S
  PROVE  m \notin Reach(n, ParentEdges(par))
BY ClosedIsClosedUnderChildren, ReachInClosed

-----------------------------------------------------------------------------
(* Types *)

LEMMA CountsAreNaturals ==
  ASSUME NEW rows \in SUBSET (Node \X Node), NEW n \in Node
  PROVE  CountsOf(n, rows) \in [children : Nat, descendants : Nat]
<1>1. IsFiniteSet(Node \X Node)
  BY FS_Product, TreeAssumption
<1>2. Cardinality({r \in rows : r[1] = n}) \in Nat
  <2>1. {r \in rows : r[1] = n} \subseteq Node \X Node
    OBVIOUS
  <2> QED BY <1>1, <2>1, FS_Subset, FS_CardinalityType
<1>3. Cardinality(Reach(n, rows) \ {n}) \in Nat
  <2>1. Reach(n, rows) \ {n} \subseteq Node
    BY ReachHoldsRoot
  <2> QED BY <2>1, TreeAssumption, FS_Subset, FS_CardinalityType
<1> QED BY <1>2, <1>3 DEF CountsOf

LEMMA RecountedType ==
  ASSUME TypeOK, NEW S, NEW ns, NEW par, NEW rows \in SUBSET (Node \X Node)
  PROVE  Recounted(S, ns, par, rows) \in [Node -> [children : Nat, descendants : Nat]]
<1>1. \A n \in Node : counts[n] \in [children : Nat, descendants : Nat]
  BY DEF TypeOK
<1>2. NoCounts \in [children : Nat, descendants : Nat]
  BY DEF NoCounts
<1>3. \A n \in Node : CountsOf(n, rows) \in [children : Nat, descendants : Nat]
  BY CountsAreNaturals
<1> QED BY <1>1, <1>2, <1>3 DEF Recounted

LEMMA RowsWithoutType ==
  ASSUME TypeOK, NEW S
  PROVE  RowsWithout(S) \in SUBSET (Node \X Node)
BY DEF RowsWithout, TypeOK

LEMMA TypeInit == Init => TypeOK
BY DEF Init, TypeOK, Trash, NoCounts

LEMMA TypeStep == TypeOK /\ [Next]_vars => TypeOK'
<1> SUFFICES ASSUME TypeOK, [Next]_vars PROVE TypeOK'
  OBVIOUS
<1>1. ASSUME NEW n \in Node, NEW p \in Node \cup {None}, NEW asEmbedded \in BOOLEAN,
             Create(n, p, asEmbedded)
      PROVE  TypeOK'
  <2>1. childRow' \in SUBSET (Node \X Node)
    BY <1>1 DEF Create, TypeOK
  <2>2. counts' \in [Node -> [children : Nat, descendants : Nat]]
    BY <1>1, <2>1, RecountedType DEF Create
  <2> QED BY <1>1, <2>1, <2>2 DEF Create, TypeOK
<1>2. ASSUME NEW n \in Node, NEW p \in Node \cup {None}, Move(n, p)
      PROVE  TypeOK'
  <2>1. childRow' \in SUBSET (Node \X Node)
    BY <1>2, RowsWithoutType DEF Move
  <2>2. counts' \in [Node -> [children : Nat, descendants : Nat]]
    BY <1>2, <2>1, RecountedType DEF Move
  <2> QED BY <1>2, <2>1, <2>2 DEF Move, TypeOK
<1>3. ASSUME NEW n \in Node, NEW asEmbedded \in BOOLEAN, SetEmbedded(n, asEmbedded)
      PROVE  TypeOK'
  BY <1>3 DEF SetEmbedded, TypeOK
<1>4. ASSUME NEW n \in Node, Delete(n)
      PROVE  TypeOK'
  <2>1. counts' \in [Node -> [children : Nat, descendants : Nat]]
    BY <1>4, RecountedType DEF Delete, TypeOK
  <2> QED BY <1>4, <2>1 DEF Delete, TypeOK, Trash
<1>5. ASSUME NEW R, NEW purgedWithAnother, Purge(R, purgedWithAnother)
      PROVE  TypeOK'
  <2>1. childRow' \in SUBSET (Node \X Node)
    BY <1>5 DEF Purge, TypeOK
  <2>2. counts' \in [Node -> [children : Nat, descendants : Nat]]
    BY <1>5, <2>1, RecountedType DEF Purge
  <2> QED BY <1>5, <2>1, <2>2 DEF Purge, TypeOK, Trash
<1>6. ASSUME NEW n \in Node, Restore(n)
      PROVE  TypeOK'
  <2>1. counts' \in [Node -> [children : Nat, descendants : Nat]]
    BY <1>6, RecountedType DEF Restore, TypeOK
  <2> QED BY <1>6, <2>1 DEF Restore, TypeOK, Trash
<1>7. ASSUME NEW n \in Node, NewClass(n)
      PROVE  TypeOK'
  BY <1>7 DEF NewClass, TypeOK
<1>8. ASSUME NEW n \in Node, Convert(n)
      PROVE  TypeOK'
  BY <1>8, RowsWithoutType DEF Convert, TypeOK
<1>9. ASSUME UNCHANGED vars
      PROVE  TypeOK'
  BY <1>9 DEF vars, TypeOK
<1> QED
  BY <1>1, <1>2, <1>3, <1>4, <1>5, <1>6, <1>7, <1>8, <1>9
     DEF Next, DeletePermanently, EmptyTrash

\* The state of the tree is of its type in every behaviour.
THEOREM TreeTypeCorrect == Spec => []TypeOK
BY TypeInit, TypeStep, PTL DEF Spec

-----------------------------------------------------------------------------
(* One tree *)

Parents == [Node -> Node \cup {None}]

\* The first part of Sound, of any rows and parents.
Tree(ns, par) ==
  \A n \in ns : par[n] # None => par[n] \in ns \ Reach(n, ParentEdges(par))

LEMMA ReachFacts ==
  ASSUME NEW par \in Parents, NEW n \in Node
  PROVE  LET below == Reach(n, ParentEdges(par))
         IN /\ n \in below /\ below \subseteq Node
            /\ \A y \in Node : par[y] # None /\ par[y] \in below => y \in below
<1>1. ClosedBelow(Reach(n, ParentEdges(par)), ParentEdges(par))
  BY EdgesTyped, ReachIsClosed DEF Parents
<1>2. n \in Reach(n, ParentEdges(par)) /\ Reach(n, ParentEdges(par)) \subseteq Node
  BY ReachHoldsRoot
<1> QED BY <1>1, <1>2, ClosedIsClosedUnderChildren DEF Parents

\* A tree keeps being one when nodes lose their parent.
LEMMA Prune ==
  ASSUME NEW ns \in SUBSET Node, NEW par \in Parents, Tree(ns, par),
         NEW ns2 \in SUBSET Node, NEW par2 \in Parents,
         \A n \in Node : par2[n] \in {None, par[n]},
         \A n \in ns2 : par2[n] # None => n \in ns /\ par2[n] \in ns2
  PROVE  Tree(ns2, par2)
<1> SUFFICES ASSUME NEW n \in ns2, par2[n] # None
             PROVE  par2[n] \notin Reach(n, ParentEdges(par2))
  BY DEF Tree
<1> DEFINE S == Reach(n, ParentEdges(par))
<1>1. n \in S /\ S \subseteq Node /\ \A y \in Node : par[y] # None /\ par[y] \in S => y \in S
  BY ReachFacts
<1>2. par2[n] \notin S
  BY DEF Tree
<1>3. \A y \in Node : par2[y] # None /\ par2[y] \in S => y \in S
  BY <1>1
<1> HIDE DEF S
<1> QED BY <1>1, <1>2, <1>3, OutsideSubtree DEF Parents

\* A tree keeps being one when n, new or not, is put under a node that is not
\* below n.
LEMMA Graft ==
  ASSUME NEW ns \in SUBSET Node, NEW par \in Parents, Tree(ns, par),
         \A x \in Node \ ns : par[x] = None,
         NEW n \in Node, NEW p \in ns, p \notin Reach(n, ParentEdges(par)),
         NEW par2 \in Parents, par2 = [par EXCEPT ![n] = p]
  PROVE  Tree(ns \cup {n}, par2)
<1> DEFINE Below(x) == Reach(x, ParentEdges(par))
<1>1. \A x \in Node : x \in Below(x) /\ Below(x) \subseteq Node
  BY ReachFacts
<1>2. \A x, y \in Node : par[y] # None /\ par[y] \in Below(x) => y \in Below(x)
  BY ReachFacts
<1>3. ASSUME NEW x \in ns, x # n, par[x] # None
      PROVE  par[x] \in ns \ Below(x)
  BY <1>3 DEF Tree
<1>4. p \notin Below(n)
  OBVIOUS
<1>5. \A y \in Node : par2[y] = IF y = n THEN p ELSE par[y]
  BY DEF Parents
<1> HIDE DEF Below
<1>6. p \notin Reach(n, ParentEdges(par2))
  <2>1. \A y \in Node : par2[y] # None /\ par2[y] \in Below(n) => y \in Below(n)
    BY <1>1, <1>2, <1>5
  <2> QED BY <1>1, <1>4, <2>1, OutsideSubtree DEF Parents
<1>7. ASSUME NEW x \in ns, x # n, par[x] # None
      PROVE  par[x] \notin Reach(x, ParentEdges(par2))
  <2>1. CASE p \notin Below(x)
    <3>1. \A y \in Node : par2[y] # None /\ par2[y] \in Below(x) => y \in Below(x)
      BY <1>2, <1>5, <2>1
    <3> QED BY <1>1, <1>3, <1>7, <3>1, OutsideSubtree DEF Parents
  <2>2. CASE p \in Below(x)
    <3>1. \A y \in Node : par2[y] # None /\ par2[y] \in Below(x) \cup Below(n)
                           => y \in Below(x) \cup Below(n)
      BY <1>1, <1>2, <1>5
    \* Were x's parent below n, so would be x, and with x its p.
    <3>2. par[x] \notin Below(n)
      <4> SUFFICES ASSUME par[x] \in Below(n) PROVE FALSE
        OBVIOUS
      <4>1. x \in Below(n)
        BY <1>2, <1>7
      <4>2. Below(x) \subseteq Below(n)
        <5>1. ClosedBelow(Below(n), ParentEdges(par))
          BY <1>1, <1>2, ClosedIsClosedUnderChildren DEF Parents
        <5> QED BY <1>1, <4>1, <5>1, ReachInClosed DEF Below
      <4> QED BY <1>4, <2>2, <4>2
    <3> QED BY <1>1, <1>3, <1>7, <3>1, <3>2, OutsideSubtree DEF Parents
  <2> QED BY <2>1, <2>2
<1> QED BY <1>3, <1>5, <1>6, <1>7 DEF Tree

LEMMA SoundIsTree ==
  Sound <=> /\ Tree(nodes, parent)
            /\ \A n \in class : parent[n] = None
            /\ \A n \in Node \ nodes : parent[n] = None /\ trash[n] # "soft"
BY DEF Sound, Tree, Subtree

LEMMA SoundInit == Init => Sound
BY TreeAssumption DEF Init, Sound

LEMMA SoundStep == TypeOK /\ Sound /\ [Next]_vars => Sound'
<1> SUFFICES ASSUME TypeOK, Sound, [Next]_vars PROVE Sound'
  OBVIOUS
<1> DEFINE Others == /\ \A n \in class : parent[n] = None
                     /\ \A n \in Node \ nodes : parent[n] = None /\ trash[n] # "soft"
<1>a. TypeOK'
  BY TypeStep
<1>b. /\ parent \in Parents /\ parent' \in Parents
      /\ nodes \in SUBSET Node /\ nodes' \in SUBSET Node
      /\ class \in SUBSET nodes
  BY <1>a DEF TypeOK, Parents
<1>c. Tree(nodes, parent) /\ Others
  BY SoundIsTree
<1>d. SUFFICES Tree(nodes', parent') /\ Others'
  BY DEF Sound, Tree, Subtree
<1>1. ASSUME NEW n \in Node, NEW p \in Node \cup {None}, NEW asEmbedded \in BOOLEAN,
             Create(n, p, asEmbedded)
      PROVE  Tree(nodes', parent') /\ Others'
  <2>1. Others'
    BY <1>1, <1>b, <1>c DEF Create, Parents
  <2>2. CASE p = None
    <3>1. parent' = parent
      BY <1>1, <1>b, <1>c, <2>2 DEF Create, Parents
    <3>2. \A x \in nodes' : parent[x] # None => x \in nodes /\ parent[x] \in nodes'
      BY <1>1, <1>b, <1>c DEF Create, Tree
    <3> QED BY <1>b, <1>c, <2>1, <3>1, <3>2, Prune
  <2>3. CASE p # None
    <3>1. p \in nodes /\ p # n
      BY <1>1, <2>3 DEF Create
    <3>2. p \notin Reach(n, ParentEdges(parent))
      <4> DEFINE alone == {n}
      <4>1. alone \in SUBSET Node /\ n \in alone /\ p \notin alone
        BY <3>1
      <4>2. \A y \in Node : parent[y] # None /\ parent[y] \in alone => y \in alone
        BY <1>1, <1>b, <1>c DEF Create, Tree
      <4> HIDE DEF alone
      <4> QED BY <1>b, <4>1, <4>2, OutsideSubtree DEF Parents
    <3> QED BY <1>1, <1>b, <1>c, <2>1, <3>1, <3>2, Graft DEF Create
  <2> QED BY <2>2, <2>3
<1>2. ASSUME NEW n \in Node, NEW p \in Node \cup {None}, Move(n, p)
      PROVE  Tree(nodes', parent') /\ Others'
  <2>1. Others'
    BY <1>2, <1>b, <1>c DEF Move, MayMove, Parents
  <2>2. CASE p = None
    <3>1. \A x \in Node : parent'[x] \in {None, parent[x]}
      BY <1>2, <1>b, <2>2 DEF Move, Parents
    <3>2. \A x \in nodes' : parent'[x] # None => x \in nodes /\ parent'[x] \in nodes'
      BY <1>2, <1>b, <1>c, <2>2, <3>1 DEF Move, Tree
    <3> QED BY <1>b, <1>c, <2>1, <3>1, <3>2, Prune
  <2>3. CASE p # None
    <3>1. p \in nodes /\ p \notin Reach(n, ParentEdges(parent))
      BY <1>2, <2>3 DEF Move, MayMove, Subtree
    <3>2. Tree(nodes \cup {n}, parent')
      BY <1>2, <1>b, <1>c, <3>1, Graft DEF Move
    <3>3. nodes' = nodes \cup {n}
      BY <1>2 DEF Move
    <3> QED BY <2>1, <3>2, <3>3
  <2> QED BY <2>2, <2>3
<1>3. ASSUME NEW n \in Node, NEW asEmbedded \in BOOLEAN, SetEmbedded(n, asEmbedded)
      PROVE  Tree(nodes', parent') /\ Others'
  BY <1>3, <1>c DEF SetEmbedded, Tree
<1>4. ASSUME NEW n \in Node, Delete(n)
      PROVE  Tree(nodes', parent') /\ Others'
  <2>1. Tree(nodes', parent')
    BY <1>4, <1>c DEF Delete, Tree
  <2>2. Others'
    BY <1>4, <1>c DEF Delete, TypeOK
  <2> QED BY <2>1, <2>2
<1>5. ASSUME NEW R \in SUBSET nodes, NEW purgedWithAnother, Purge(R, purgedWithAnother)
      PROVE  Tree(nodes', parent') /\ Others'
  <2> DEFINE gone == UNION {Subtree(r) : r \in R}
  <2>1. \A y \in Node : parent[y] # None /\ parent[y] \in gone => y \in gone
    <3> SUFFICES ASSUME NEW y \in Node, parent[y] # None, parent[y] \in gone
                 PROVE  y \in gone
      OBVIOUS
    <3>1. PICK r \in R : parent[y] \in Subtree(r)
      OBVIOUS
    <3>2. y \in Subtree(r)
      BY <1>b, <3>1, SubtreeFacts
    <3> QED BY <3>2
  <2>2. /\ nodes' = nodes \ gone
        /\ parent' = [n \in Node |-> IF n \in gone THEN None ELSE parent[n]]
        /\ class' = class \ gone
        /\ \A n \in Node : trash'[n] = "soft" => n \notin gone /\ trash[n] = "soft"
    <3>1. \A n \in R : n \in gone
      BY <1>b, SubtreeFacts
    <3> QED BY <1>5, <3>1 DEF Purge
  <2> HIDE DEF gone
  <2>3. Others'
    BY <1>b, <1>c, <2>2
  <2>4. \A x \in Node : parent'[x] \in {None, parent[x]}
    BY <2>2
  <2>5. \A x \in nodes' : parent'[x] # None => x \in nodes /\ parent'[x] \in nodes'
    BY <1>b, <1>c, <2>1, <2>2 DEF Tree
  <2> QED BY <1>b, <1>c, <2>3, <2>4, <2>5, Prune
<1>6. ASSUME NEW n \in Node, Restore(n)
      PROVE  Tree(nodes', parent') /\ Others'
  <2>1. \A x \in Node : parent'[x] \in {None, parent[x]}
    BY <1>6, <1>b DEF Restore, Parents
  <2>2. \A x \in nodes' : parent'[x] # None => x \in nodes /\ parent'[x] \in nodes'
    BY <1>6, <1>b, <1>c, <2>1 DEF Restore, Tree
  <2>3. Others'
    BY <1>6, <1>b, <1>c, <2>1 DEF Restore, TypeOK
  <2> QED BY <1>b, <1>c, <2>1, <2>2, <2>3, Prune
<1>7. ASSUME NEW n \in Node, NewClass(n)
      PROVE  Tree(nodes', parent') /\ Others'
  <2>1. Others'
    BY <1>7, <1>b, <1>c DEF NewClass
  <2>2. \A x \in nodes' : parent'[x] # None => x \in nodes /\ parent'[x] \in nodes'
    BY <1>7, <1>b, <1>c DEF NewClass, Tree
  <2>3. \A x \in Node : parent'[x] \in {None, parent[x]}
    BY <1>7 DEF NewClass
  <2> QED BY <1>b, <1>c, <2>1, <2>2, <2>3, Prune
<1>8. ASSUME NEW n \in Node, Convert(n)
      PROVE  Tree(nodes', parent') /\ Others'
  <2>1. \A x \in Node : parent'[x] \in {None, parent[x]}
    BY <1>8, <1>b DEF Convert, Parents
  <2>2. \A x \in nodes' : parent'[x] # None => x \in nodes /\ parent'[x] \in nodes'
    BY <1>8, <1>b, <1>c, <2>1 DEF Convert, Tree
  <2>3. Others'
    BY <1>8, <1>b, <1>c DEF Convert, Parents
  <2> QED BY <1>b, <1>c, <2>1, <2>2, <2>3, Prune
<1>9. ASSUME UNCHANGED vars
      PROVE  Tree(nodes', parent') /\ Others'
  BY <1>9, <1>c DEF vars, Tree
<1>10. Trashed \subseteq nodes
  BY DEF Trashed
<1> QED
  BY <1>1, <1>2, <1>3, <1>4, <1>5, <1>6, <1>7, <1>8, <1>9, <1>10
     DEF Next, DeletePermanently, EmptyTrash

(***************************************************************************)
(* Whatever envelopes are applied, in whatever order: every parent exists, *)
(* no node is below itself, classes are roots, and the soft trash rows     *)
(* belong to nodes that are there.                                         *)
(***************************************************************************)
THEOREM TreeIsSound == Spec => []Sound
<1>1. Init => TypeOK /\ Sound
  BY TypeInit, SoundInit
<1>2. TypeOK /\ Sound /\ [Next]_vars => (TypeOK /\ Sound)'
  BY TypeStep, SoundStep
<1> QED BY <1>1, <1>2, PTL DEF Spec

-----------------------------------------------------------------------------
(* Child-order rows *)

LEMMA EdgeIsParent ==
  ASSUME NEW par, NEW edge
  PROVE  edge \in ParentEdges(par) <=>
           \E y \in Node : par[y] # None /\ edge = <<par[y], y>>
BY DEF ParentEdges

LEMMA RowsInit == Init => RowsMatchParents
BY DEF Init, RowsMatchParents, ParentEdges

\* A node that loses its parent loses its row.
LEMMA RowsOfPruned ==
  ASSUME NEW par \in Parents, NEW par2 \in Parents, NEW gone,
         \A y \in Node : par2[y] = IF y \in gone THEN None ELSE par[y],
         NEW rows, \A r : r \in rows <=> r \in ParentEdges(par) /\ r[2] \notin gone
  PROVE  rows = ParentEdges(par2)
<1>1. ASSUME NEW r \in ParentEdges(par), r[2] \notin gone
      PROVE  r \in ParentEdges(par2)
  <2>1. PICK y \in Node : par[y] # None /\ r = <<par[y], y>>
    BY EdgeIsParent
  <2> QED BY <1>1, <2>1, EdgeIsParent
<1>2. ASSUME NEW r \in ParentEdges(par2)
      PROVE  r \in ParentEdges(par) /\ r[2] \notin gone
  <2>1. PICK y \in Node : par2[y] # None /\ r = <<par2[y], y>>
    BY EdgeIsParent
  <2>2. y \notin gone /\ par2[y] = par[y]
    BY <2>1
  <2> QED BY <2>1, <2>2, EdgeIsParent
<1> QED BY <1>1, <1>2

\* A node that gets another parent has that row for its old one.
LEMMA RowsOfMoved ==
  ASSUME NEW par \in Parents, NEW par2 \in Parents, NEW n \in Node,
         \A y \in Node \ {n} : par2[y] = par[y],
         NEW rows,
         \A r : r \in rows <=>
           (r \in ParentEdges(par) /\ r[2] # n) \/ (par2[n] # None /\ r = <<par2[n], n>>)
  PROVE  rows = ParentEdges(par2)
<1>1. ASSUME NEW r \in ParentEdges(par), r[2] # n
      PROVE  r \in ParentEdges(par2)
  <2>1. PICK y \in Node : par[y] # None /\ r = <<par[y], y>>
    BY EdgeIsParent
  <2> QED BY <1>1, <2>1, EdgeIsParent
<1>2. par2[n] # None => <<par2[n], n>> \in ParentEdges(par2)
  BY EdgeIsParent
<1>3. ASSUME NEW r \in ParentEdges(par2)
      PROVE  \/ r \in ParentEdges(par) /\ r[2] # n
             \/ par2[n] # None /\ r = <<par2[n], n>>
  <2>1. PICK y \in Node : par2[y] # None /\ r = <<par2[y], y>>
    BY EdgeIsParent
  <2>2. CASE y = n
    BY <2>1, <2>2
  <2>3. CASE y # n
    BY <2>1, <2>3, EdgeIsParent
  <2> QED BY <2>2, <2>3
<1> QED BY <1>1, <1>2, <1>3

LEMMA RowsStep ==
  TypeOK /\ Sound /\ RowsMatchParents /\ [Next]_vars => RowsMatchParents'
<1> SUFFICES ASSUME TypeOK, Sound, RowsMatchParents, [Next]_vars
             PROVE  childRow' = ParentEdges(parent')
  BY DEF RowsMatchParents
<1>a. parent \in Parents /\ parent' \in Parents /\ nodes \subseteq Node
  BY TypeStep DEF TypeOK, Parents
<1>b. childRow = ParentEdges(parent)
  BY DEF RowsMatchParents
<1>1. ASSUME NEW n \in Node, NEW p \in Node \cup {None}, NEW asEmbedded \in BOOLEAN,
             Create(n, p, asEmbedded)
      PROVE  childRow' = ParentEdges(parent')
  <2>1. \A r \in childRow : r[2] # n
    <3>1. parent[n] = None
      BY <1>1 DEF Create, Sound
    <3> QED BY <1>b, <3>1, EdgeIsParent
  <2>2. \A r : r \in childRow' <=>
          (r \in ParentEdges(parent) /\ r[2] # n) \/ (p # None /\ r = <<p, n>>)
    BY <1>1, <1>b, <2>1 DEF Create
  <2>3. parent'[n] = p /\ \A y \in Node \ {n} : parent'[y] = parent[y]
    BY <1>1, <1>a DEF Create, Parents
  <2>4. \A r : r \in childRow' <=> (r \in ParentEdges(parent) /\ r[2] # n)
                                   \/ (parent'[n] # None /\ r = <<parent'[n], n>>)
    BY <2>2, <2>3
  <2> QED BY <1>a, <2>3, <2>4, RowsOfMoved, ZenonT(30)
<1>2. ASSUME NEW n \in Node, NEW p \in Node \cup {None}, Move(n, p)
      PROVE  childRow' = ParentEdges(parent')
  <2>1. \A r : r \in childRow' <=>
          (r \in ParentEdges(parent) /\ r[2] # n) \/ (p # None /\ r = <<p, n>>)
    BY <1>2, <1>b DEF Move, RowsWithout
  <2>2. parent'[n] = p /\ \A y \in Node \ {n} : parent'[y] = parent[y]
    BY <1>2, <1>a DEF Move, Parents
  <2>3. \A r : r \in childRow' <=> (r \in ParentEdges(parent) /\ r[2] # n)
                                   \/ (parent'[n] # None /\ r = <<parent'[n], n>>)
    BY <2>1, <2>2
  <2> QED BY <1>a, <2>2, <2>3, RowsOfMoved
<1>3. ASSUME NEW n \in Node, NEW asEmbedded \in BOOLEAN, SetEmbedded(n, asEmbedded)
      PROVE  childRow' = ParentEdges(parent')
  BY <1>3, <1>b DEF SetEmbedded
<1>4. ASSUME NEW n \in Node, Delete(n)
      PROVE  childRow' = ParentEdges(parent')
  BY <1>4, <1>b DEF Delete
<1>5. ASSUME NEW R \in SUBSET nodes, NEW purgedWithAnother, Purge(R, purgedWithAnother)
      PROVE  childRow' = ParentEdges(parent')
  <2> DEFINE gone == UNION {Subtree(r) : r \in R}
  <2>1. \A y \in Node : parent[y] # None /\ parent[y] \in gone => y \in gone
    <3> SUFFICES ASSUME NEW y \in Node, parent[y] # None, parent[y] \in gone
                 PROVE  y \in gone
      OBVIOUS
    <3>1. PICK r \in R : parent[y] \in Subtree(r)
      OBVIOUS
    <3>2. y \in Subtree(r)
      BY <1>a, <3>1, SubtreeFacts
    <3> QED BY <3>2
  <2>2. /\ parent' = [n \in Node |-> IF n \in gone THEN None ELSE parent[n]]
        /\ childRow' = {r \in childRow : r[1] \notin gone /\ r[2] \notin gone}
    BY <1>5 DEF Purge
  <2> HIDE DEF gone
  <2>0. \A y \in Node : parent'[y] = IF y \in gone THEN None ELSE parent[y]
    BY <2>2
  <2>3. \A r \in childRow : r[1] \in gone => r[2] \in gone
    <3> SUFFICES ASSUME NEW r \in childRow, r[1] \in gone PROVE r[2] \in gone
      OBVIOUS
    <3>1. PICK y \in Node : parent[y] # None /\ r = <<parent[y], y>>
      BY <1>b, EdgeIsParent
    <3> QED BY <2>1, <3>1
  <2>4. \A r : r \in childRow' <=> r \in ParentEdges(parent) /\ r[2] \notin gone
    BY <1>b, <2>2, <2>3
  <2> QED BY <1>a, <2>0, <2>4, RowsOfPruned
<1>6. ASSUME NEW n \in Node, Restore(n)
      PROVE  childRow' = ParentEdges(parent')
  <2>1. parent' = parent
    BY <1>6, <1>a DEF Restore, Sound, Parents
  <2> QED BY <1>6, <1>b, <2>1 DEF Restore
<1>7. ASSUME NEW n \in Node, NewClass(n)
      PROVE  childRow' = ParentEdges(parent')
  BY <1>7, <1>b DEF NewClass
<1>8. ASSUME NEW n \in Node, Convert(n)
      PROVE  childRow' = ParentEdges(parent')
  <2>1. \A y \in Node : parent'[y] = IF y \in {n} THEN None ELSE parent[y]
    BY <1>8, <1>a DEF Convert, Parents
  <2>2. \A r : r \in childRow' <=> r \in ParentEdges(parent) /\ r[2] \notin {n}
    BY <1>8, <1>b DEF Convert, RowsWithout
  <2> QED BY <1>a, <2>1, <2>2, RowsOfPruned, ZenonT(30)
<1>9. ASSUME UNCHANGED vars
      PROVE  childRow' = ParentEdges(parent')
  BY <1>9, <1>b DEF vars
<1>10. Trashed \subseteq nodes
  BY DEF Trashed
<1> QED
  BY <1>1, <1>2, <1>3, <1>4, <1>5, <1>6, <1>7, <1>8, <1>9, <1>10
     DEF Next, DeletePermanently, EmptyTrash

(***************************************************************************)
(* In every behaviour the child-order rows are exactly the parent_id       *)
(* edges: no node renders under two parents, or under another than its     *)
(* own row names.                                                          *)
(***************************************************************************)
THEOREM RowsFollowParents == Spec => []RowsMatchParents
<1>1. Init => TypeOK /\ Sound /\ RowsMatchParents
  BY TypeInit, SoundInit, RowsInit
<1>2. /\ TypeOK /\ Sound /\ RowsMatchParents /\ [Next]_vars
      => (TypeOK /\ Sound /\ RowsMatchParents)'
  BY TypeStep, SoundStep, RowsStep
<1> QED BY <1>1, <1>2, PTL DEF Spec
-----------------------------------------------------------------------------
(* Counts *)

Below(par, n) == Reach(n, ParentEdges(par))

\* What the rows and parents of a tree give: an edge is between nodes.
Rooted(ns, par) == \A y \in Node : par[y] # None => y \in ns /\ par[y] \in ns

LEMMA SoundIsRooted == TypeOK /\ Sound => Rooted(nodes, parent)
BY DEF TypeOK, Sound, Rooted

LEMMA BelowFacts ==
  ASSUME NEW par \in Parents, NEW n \in Node
  PROVE  /\ n \in Below(par, n) /\ Below(par, n) \subseteq Node
         /\ \A y \in Node : par[y] # None /\ par[y] \in Below(par, n) => y \in Below(par, n)
         /\ \A S \in SUBSET Node : n \in S /\ (\A y \in Node : par[y] # None /\ par[y] \in S => y \in S)
              => Below(par, n) \subseteq S
<1>1. \A S \in SUBSET Node : n \in S /\ (\A y \in Node : par[y] # None /\ par[y] \in S => y \in S)
        => Below(par, n) \subseteq S
  BY ClosedIsClosedUnderChildren, ReachInClosed DEF Parents, Below
<1> QED BY <1>1, ReachFacts DEF Below

\* What is below x is the same when only the parents of nodes that are not below x differ.
LEMMA BelowSame ==
  ASSUME NEW par \in Parents, NEW par2 \in Parents, NEW x \in Node, NEW M,
         \A y \in Node : y \notin M => par[y] = par2[y],
         M \cap Below(par, x) = {}, M \cap Below(par2, x) = {}
  PROVE  Below(par, x) = Below(par2, x)
<1> DEFINE both == Below(par, x) \cap Below(par2, x)
<1>1. both \in SUBSET Node /\ x \in both
  BY BelowFacts
<1>2. \A y \in Node : par[y] # None /\ par[y] \in both => y \in both
  BY BelowFacts
<1>3. \A y \in Node : par2[y] # None /\ par2[y] \in both => y \in both
  BY BelowFacts
<1>4. both \subseteq Below(par, x) /\ both \subseteq Below(par2, x)
  OBVIOUS
<1> HIDE DEF both
<1>5. Below(par, x) \subseteq both /\ Below(par2, x) \subseteq both
  BY <1>1, <1>2, <1>3, BelowFacts
<1> QED BY <1>4, <1>5

LEMMA CountsSame ==
  ASSUME NEW par \in Parents, NEW par2 \in Parents, NEW x \in Node, NEW M,
         \A y \in Node : y \notin M => par[y] = par2[y],
         M \cap Below(par, x) = {}, M \cap Below(par2, x) = {}
  PROVE  CountsOf(x, ParentEdges(par)) = CountsOf(x, ParentEdges(par2))
<1>1. Below(par, x) = Below(par2, x)
  BY BelowSame
<1>2. \A y \in Node : par[y] = x <=> par2[y] = x
  <2> SUFFICES ASSUME NEW y \in Node, par[y] # par2[y], x \in {par[y], par2[y]} PROVE FALSE
    OBVIOUS
  <2>1. y \in Below(par, x) \/ y \in Below(par2, x)
    BY BelowFacts, TreeAssumption
  <2> QED BY <2>1
<1>3. {r \in ParentEdges(par) : r[1] = x} = {r \in ParentEdges(par2) : r[1] = x}
  <2>1. ASSUME NEW p1 \in Parents, NEW p2 \in Parents, \A y \in Node : p1[y] = x <=> p2[y] = x,
               NEW r \in ParentEdges(p1), r[1] = x
        PROVE  r \in ParentEdges(p2)
    <3>1. PICK y \in Node : p1[y] # None /\ r = <<p1[y], y>>
      BY EdgeIsParent
    <3>2. p2[y] = p1[y]
      BY <2>1, <3>1
    <3> QED BY <3>1, <3>2, EdgeIsParent
  <2> QED BY <1>2, <2>1
<1> QED BY <1>1, <1>3 DEF CountsOf, Below

LEMMA CountsSameButOne ==
  ASSUME NEW par \in Parents, NEW par2 \in Parents, NEW x \in Node, NEW n \in Node,
         \A y \in Node : y # n => par[y] = par2[y],
         n \notin Below(par, x), n \notin Below(par2, x)
  PROVE  CountsOf(x, ParentEdges(par)) = CountsOf(x, ParentEdges(par2))
<1> DEFINE M == {n}
<1>1. /\ \A y \in Node : y \notin M => par[y] = par2[y]
      /\ M \cap Below(par, x) = {} /\ M \cap Below(par2, x) = {}
  OBVIOUS
<1> HIDE DEF M
<1> QED BY <1>1, CountsSame

\* A node without an edge from it has no counts.
LEMMA NoEdgeNoCounts ==
  ASSUME NEW par \in Parents, NEW x \in Node, \A y \in Node : par[y] # x
  PROVE  CountsOf(x, ParentEdges(par)) = NoCounts /\ Below(par, x) = {x}
<1>1. {r \in ParentEdges(par) : r[1] = x} = {}
  <2> SUFFICES ASSUME NEW r \in ParentEdges(par), r[1] = x PROVE FALSE
    OBVIOUS
  <2>1. PICK y \in Node : par[y] # None /\ r = <<par[y], y>>
    BY EdgeIsParent
  <2> QED BY <2>1
<1>2. Below(par, x) \subseteq {x}
  <2> DEFINE S == {x}
  <2>1. S \in SUBSET Node /\ x \in S /\ \A y \in Node : par[y] # None /\ par[y] \in S => y \in S
    OBVIOUS
  <2> HIDE DEF S
  <2>2. Below(par, x) \subseteq S
    BY <2>1, BelowFacts
  <2> QED BY <2>2 DEF S
<1>3. Below(par, x) = {x}
  BY <1>2, BelowFacts
<1>4. Cardinality({}) = 0
  BY FS_EmptySet
<1>5. Below(par, x) \ {x} = {}
  BY <1>3
<1> QED BY <1>1, <1>3, <1>4, <1>5 DEF CountsOf, NoCounts, Below

\* A recount leaves a node stale only where it neither counted again nor had to.
LEMMA RecountKeeps ==
  ASSUME NEW S, S \subseteq Node, NEW ns \in SUBSET Node, NEW par \in Parents, Rooted(ns, par),
         childRow = ParentEdges(parent), childRow' = ParentEdges(par),
         counts' = Recounted(S, ns, par, childRow'),
         NEW x \in Node,
         S \cap Below(par, x) = {} => CountsOf(x, ParentEdges(par)) = CountsOf(x, ParentEdges(parent))
  PROVE  x \in Stale' => x \in Stale
<1> SUFFICES ASSUME x \in Stale' PROVE x \in Stale
  OBVIOUS
<1>1. counts'[x] # CountsOf(x, ParentEdges(par))
  BY DEF Stale
<1>2. CASE S \cap Below(par, x) # {}
  <2>1. counts'[x] = IF x \in ns THEN CountsOf(x, ParentEdges(par)) ELSE NoCounts
    BY <1>2 DEF Recounted, Below
  <2>2. x \notin ns => \A y \in Node : par[y] # x
    BY TreeAssumption DEF Rooted
  <2>3. x \notin ns => CountsOf(x, ParentEdges(par)) = NoCounts
    BY <2>2, NoEdgeNoCounts
  <2> QED BY <1>1, <2>1, <2>3
<1>3. CASE S \cap Below(par, x) = {}
  <2>1. counts'[x] = counts[x]
    BY <1>3 DEF Recounted, Below
  <2> QED BY <1>1, <1>3, <2>1 DEF Stale
<1> QED BY <1>2, <1>3

\* Of two nodes above a third, one is above the other.
LEMMA OneAboveTheOther ==
  ASSUME NEW par \in Parents, NEW x \in Node, NEW r \in Node, NEW z \in Below(par, x) \cap Below(par, r),
         x \notin Below(par, r)
  PROVE  r \in Below(par, x)
<1> SUFFICES ASSUME r \notin Below(par, x) PROVE FALSE
  OBVIOUS
<1> DEFINE S == Below(par, x) \ Below(par, r)
<1>1. S \in SUBSET Node /\ x \in S /\ z \notin S
  BY BelowFacts
<1>2. ASSUME NEW y \in Node, par[y] # None, par[y] \in S PROVE y \in S
  <2>1. y \in Below(par, x) /\ y # r /\ par[y] \in Node
    BY <1>2, BelowFacts
  <2>2. y \notin Below(par, r)
    <3> DEFINE T == Below(par, r) \ {y}
    <3>1. ASSUME y \in Below(par, r) PROVE FALSE
      <4>1. r \in T /\ T \in SUBSET Node /\ par[y] \notin Below(par, r)
        BY <1>2, <2>1, BelowFacts
      <4>2. ASSUME NEW w \in Node, par[w] # None, par[w] \in T PROVE w \in T
        <5>1. w \in Below(par, r)
          BY <4>2, BelowFacts
        <5> QED BY <4>1, <4>2, <5>1
      <4> HIDE DEF T
      <4>3. Below(par, r) \subseteq T
        BY <4>1, <4>2, BelowFacts
      <4> QED BY <3>1, <4>3 DEF T
    <3> QED BY <3>1
  <2> QED BY <2>1, <2>2
<1> HIDE DEF S
<1>3. Below(par, x) \subseteq S
  BY <1>1, <1>2, BelowFacts
<1> QED BY <1>1, <1>3

LEMMA BelowIsSubtree == \A n \in Node : Subtree(n) = Below(parent, n)
BY DEF Subtree, Below

LEMMA StaleStep ==
  TypeOK /\ Sound /\ RowsMatchParents /\ [Next]_vars
    => Stale' \subseteq Stale \/ \E n \in Node : Convert(n)
<1> SUFFICES ASSUME TypeOK, Sound, RowsMatchParents, [Next]_vars, NEW x \in Node, x \in Stale',
                    ~\E n \in Node : Convert(n)
             PROVE  x \in Stale
  BY DEF Stale
<1>a. /\ parent \in Parents /\ parent' \in Parents
      /\ nodes \in SUBSET Node /\ nodes' \in SUBSET Node
  BY TypeStep DEF TypeOK, Parents
<1>b. childRow = ParentEdges(parent) /\ childRow' = ParentEdges(parent')
  BY RowsStep DEF RowsMatchParents
<1>c. Rooted(nodes, parent) /\ Rooted(nodes', parent')
  <2>1. TypeOK' /\ Sound'
    BY TypeStep, SoundStep
  <2> QED BY <2>1 DEF Rooted, TypeOK, Sound
<1>d. \A n \in Node : \A a \in Node : n \in Below(parent, a) => a = n \/ a \in Ancestors(n)
  <2> SUFFICES ASSUME NEW n \in Node, NEW a \in Node, n \in Below(parent, a), a # n
               PROVE  a \in Ancestors(n)
    OBVIOUS
  <2>1. a \in nodes
    <3> SUFFICES ASSUME a \notin nodes PROVE FALSE
      OBVIOUS
    <3>1. \A y \in Node : parent[y] # a
      BY <1>c, TreeAssumption DEF Rooted
    <3>2. Below(parent, a) = {a}
      BY <1>a, <3>1, NoEdgeNoCounts
    <3> QED BY <3>2
  <2> QED BY <2>1, BelowIsSubtree DEF Ancestors
<1>e. \A n \in Node : Ancestors(n) \subseteq Node
  BY <1>a DEF Ancestors
\* One node's parent may change, and all above it before and after are counted again.
<1>f. ASSUME NEW n \in Node, \A y \in Node : y # n => parent'[y] = parent[y],
             counts' = Recounted({n} \cup Ancestors(n), nodes', parent', childRow')
      PROVE  x \in Stale
  <2> DEFINE S == {n} \cup Ancestors(n)
  <2>1. S \subseteq Node
    BY <1>e
  <2>2. ASSUME S \cap Below(parent', x) = {}
        PROVE  CountsOf(x, ParentEdges(parent')) = CountsOf(x, ParentEdges(parent))
    <3>1. n \notin Below(parent', x)
      BY <2>2
    <3>2. n \notin Below(parent, x)
      <4>1. x \notin S
        BY <1>a, <2>2, BelowFacts
      <4> QED BY <1>d, <4>1
    <3> QED BY <1>a, <1>f, <3>1, <3>2, CountsSameButOne
  <2> HIDE DEF S
  <2>3. counts' = Recounted(S, nodes', parent', childRow')
    BY <1>f DEF S
  <2> QED BY <1>a, <1>b, <1>c, <2>1, <2>2, <2>3, RecountKeeps
<1>1. ASSUME NEW n \in Node, NEW p \in Node \cup {None}, NEW asEmbedded \in BOOLEAN,
             Create(n, p, asEmbedded)
      PROVE  x \in Stale
  <2> DEFINE S == {n}
  <2>1. \A y \in Node : y # n => parent'[y] = parent[y]
    BY <1>1, <1>a DEF Create, Parents
  <2>2. ASSUME S \cap Below(parent', x) = {}
        PROVE  CountsOf(x, ParentEdges(parent')) = CountsOf(x, ParentEdges(parent))
    <3>1. n \notin Below(parent', x) /\ x # n
      BY <1>a, <2>2, BelowFacts
    <3>2. n \notin Below(parent, x)
      <4> DEFINE T == Node \ {n}
      <4>1. \A y \in Node : parent[y] # None /\ parent[y] \in T => y \in T
        BY <1>1, <1>c DEF Create, Rooted
      <4>2. T \in SUBSET Node /\ x \in T /\ n \notin T
        BY <3>1
      <4> HIDE DEF T
      <4> QED BY <1>a, <4>1, <4>2, BelowFacts
    <3> QED BY <1>a, <2>1, <3>1, <3>2, CountsSameButOne
  <2> HIDE DEF S
  <2>3. counts' = Recounted(S, nodes', parent', childRow') /\ S \subseteq Node
    BY <1>1 DEF Create, S
  <2> QED BY <1>a, <1>b, <1>c, <2>2, <2>3, RecountKeeps
<1>2. ASSUME NEW n \in Node, NEW p \in Node \cup {None}, Move(n, p)
      PROVE  x \in Stale
  BY <1>2, <1>a, <1>f DEF Move, Parents
<1>3. ASSUME UNCHANGED <<childRow, counts>>
      PROVE  x \in Stale
  BY <1>3 DEF Stale
<1>4. ASSUME NEW n \in Node, Delete(n)
      PROVE  x \in Stale
  BY <1>4, <1>f DEF Delete
<1>5. ASSUME NEW R \in SUBSET nodes, NEW purgedWithAnother, Purge(R, purgedWithAnother)
      PROVE  x \in Stale
  <2> DEFINE gone == UNION {Subtree(r) : r \in R}
             S == gone \cup UNION {Ancestors(r) : r \in R}
  <2>0. gone \subseteq Node /\ \A z : z \in gone <=> \E r \in R : z \in Below(parent, r)
    BY <1>a, BelowIsSubtree, BelowFacts
  <2>1. S \subseteq Node /\ gone \subseteq S /\ \A r \in R : Ancestors(r) \subseteq S
    BY <1>a, <1>e, <2>0
  <2>2. counts' = Recounted(S, nodes', parent', childRow')
    BY <1>5 DEF Purge
  <2>3. \A y \in Node : parent'[y] = IF y \in gone THEN None ELSE parent[y]
    BY <1>5 DEF Purge
  <2> HIDE DEF gone, S
  <2>4. ASSUME S \cap Below(parent', x) = {}
        PROVE  CountsOf(x, ParentEdges(parent')) = CountsOf(x, ParentEdges(parent))
    <3>1. gone \cap Below(parent', x) = {} /\ x \notin S
      BY <1>a, <2>1, <2>4, BelowFacts
    <3>2. gone \cap Below(parent, x) = {}
      <4> SUFFICES ASSUME NEW z \in gone \cap Below(parent, x) PROVE FALSE
        OBVIOUS
      <4>1. PICK r \in R : z \in Below(parent, r)
        BY <2>0
      <4>2. r \in Node /\ x \notin Below(parent, r) /\ z \in Below(parent, x) \cap Below(parent, r)
        BY <1>a, <2>0, <2>1, <3>1, <4>1
      <4>3. r \in Below(parent, x)
        BY <1>a, <4>2, OneAboveTheOther
      <4>4. x = r \/ x \in Ancestors(r)
        BY <1>d, <4>2, <4>3
      <4>5. r \in gone
        BY <1>a, <2>0, <4>2, BelowFacts
      <4> QED BY <2>1, <3>1, <4>4, <4>5
    <3> QED BY <1>a, <2>3, <3>1, <3>2, CountsSame
  <2> QED BY <1>a, <1>b, <1>c, <2>1, <2>2, <2>4, RecountKeeps
<1>6. ASSUME NEW n \in Node, Restore(n)
      PROVE  x \in Stale
  <2>1. parent' = parent
    BY <1>6, <1>a, <1>c DEF Restore, Rooted, Parents
  <2> QED BY <1>6, <1>f, <2>1 DEF Restore
<1>7. Trashed \subseteq nodes
  BY DEF Trashed
<1> QED
  BY <1>1, <1>2, <1>3, <1>4, <1>5, <1>6, <1>7
     DEF Next, vars, DeletePermanently, EmptyTrash, NewClass, SetEmbedded

(* The counts of a node come apart from its child-order rows only when an existing node
   is declared a class, for every set of nodes and every sequence of envelopes: each
   recount reaches every node whose rows, or whose descendants' rows, it changed. *)
THEOREM OnlyConversionStales == Spec => OnlyConvertStales
<1> DEFINE Inv == TypeOK /\ Sound /\ RowsMatchParents
<1>1. Init => Inv
  BY TypeInit, SoundInit, RowsInit
<1>2. Inv /\ [Next]_vars => Inv'
  BY TypeStep, SoundStep, RowsStep
<1>3. Inv /\ [Next]_vars => [Stale' \subseteq Stale \/ \E n \in Node : Convert(n)]_vars
  BY StaleStep
<1> HIDE DEF Inv
<1> QED BY <1>1, <1>2, <1>3, PTL DEF Spec, OnlyConvertStales

-----------------------------------------------------------------------------
(* Pages *)

\* n and everything above it.
Up(par, n) == {a \in Node : n \in Below(par, a)}

LEMMA UpFacts ==
  ASSUME NEW par \in Parents, NEW n \in Node
  PROVE  /\ n \in Up(par, n) /\ Up(par, n) \subseteq Node
         /\ \A a \in Up(par, n) : par[a] # None => par[a] \in Up(par, n)
         /\ \A S \in SUBSET Node : n \in S /\ (\A y \in S : par[y] # None => par[y] \in S)
              => Up(par, n) \subseteq S
<1>1. n \in Up(par, n) /\ Up(par, n) \subseteq Node
  BY BelowFacts DEF Up
<1>2. ASSUME NEW a \in Up(par, n), par[a] # None PROVE par[a] \in Up(par, n)
  <2>1. a \in Node /\ n \in Below(par, a) /\ par[a] \in Node
    BY <1>2 DEF Up, Parents
  <2>2. a \in Below(par, par[a])
    BY <1>2, <2>1, BelowFacts
  <2>3. Below(par, a) \subseteq Below(par, par[a])
    <3> DEFINE T == Below(par, par[a])
    <3>1. T \in SUBSET Node /\ a \in T /\ \A y \in Node : par[y] # None /\ par[y] \in T => y \in T
      BY <2>1, <2>2, BelowFacts
    <3> HIDE DEF T
    <3>2. Below(par, a) \subseteq T
      BY <2>1, <3>1, BelowFacts
    <3> QED BY <3>2 DEF T
  <2> QED BY <2>1, <2>3 DEF Up
<1>3. ASSUME NEW S \in SUBSET Node, n \in S, \A y \in S : par[y] # None => par[y] \in S,
             NEW a \in Up(par, n)
      PROVE  a \in S
  <2> SUFFICES ASSUME a \notin S PROVE FALSE
    OBVIOUS
  <2> DEFINE T == Node \ S
  <2>1. T \in SUBSET Node /\ a \in T /\ n \notin T /\ a \in Node
    BY <1>3 DEF Up
  <2>2. \A y \in Node : par[y] # None /\ par[y] \in T => y \in T
    BY <1>3
  <2> HIDE DEF T
  <2>3. Below(par, a) \subseteq T
    BY <2>1, <2>2, BelowFacts
  <2> QED BY <2>1, <2>3 DEF Up
<1> QED BY <1>1, <1>2, <1>3

\* IsPage of any tables: no class on the way up, and nothing embedded below the root.
Page(ns, par, cl, em, n) ==
  n \in ns /\ \A a \in Up(par, n) : a \notin cl /\ (par[a] # None => a \notin em)

LEMMA NothingBelow ==
  ASSUME NEW ns \in SUBSET Node, NEW par \in Parents, Rooted(ns, par), NEW a \in Node \ ns
  PROVE  Below(par, a) = {a} /\ \A n \in ns : a \notin Up(par, n)
<1>1. \A y \in Node : par[y] # a
  BY TreeAssumption DEF Rooted
<1>2. Below(par, a) = {a}
  BY <1>1, NoEdgeNoCounts
<1> QED BY <1>2 DEF Up

LEMMA PageIs ==
  ASSUME NEW ns \in SUBSET Node, NEW par \in Parents, Rooted(ns, par), NEW cl, NEW em, NEW n \in Node
  PROVE  (/\ n \in ns
          /\ \A a \in {b \in ns \ {n} : n \in Reach(b, ParentEdges(par))} \cup {n} :
               a \notin cl /\ (par[a] # None => a \notin em))
         <=> Page(ns, par, cl, em, n)
<1>1. n \in ns => Up(par, n) = {b \in ns \ {n} : n \in Reach(b, ParentEdges(par))} \cup {n}
  <2>1. ASSUME n \in ns, NEW a \in Up(par, n) PROVE a \in ns
    BY <2>1, NothingBelow DEF Up
  <2>2. n \in Up(par, n)
    BY UpFacts
  <2> QED BY <2>1, <2>2 DEF Up, Below
<1> QED BY <1>1 DEF Page

LEMMA PageFromSet ==
  ASSUME NEW ns, NEW par \in Parents, NEW cl, NEW em, NEW n \in Node, n \in ns,
         NEW S \in SUBSET Node, n \in S,
         \A a \in S : /\ par[a] # None => par[a] \in S /\ a \notin em
                      /\ a \notin cl
  PROVE  Page(ns, par, cl, em, n)
<1>1. Up(par, n) \subseteq S
  BY UpFacts
<1> QED BY <1>1 DEF Page

\* A page stays one when what is above it loses parents, class or bit at most.
LEMMA PageCarries ==
  ASSUME NEW ns, NEW par \in Parents, NEW cl, NEW em, NEW n \in Node, Page(ns, par, cl, em, n),
         NEW ns2, NEW par2 \in Parents, NEW cl2, NEW em2, n \in ns2,
         \A a \in Up(par, n) : /\ par2[a] \in {par[a], None}
                               /\ a \in cl2 => a \in cl
                               /\ a \in em2 /\ par2[a] # None => a \in em
  PROVE  Page(ns2, par2, cl2, em2, n)
<1> DEFINE S == Up(par, n)
<1>1. S \in SUBSET Node /\ n \in S
  BY UpFacts
<1>2. \A a \in S : /\ par2[a] # None => par2[a] \in S /\ a \notin em2
                   /\ a \notin cl2
  BY UpFacts DEF Page
<1> HIDE DEF S
<1> QED BY <1>1, <1>2, PageFromSet

\* What is strictly below n is below a child of n.
LEMMA BelowAChild ==
  ASSUME NEW par \in Parents, NEW n \in Node, NEW x \in Below(par, n), x # n
  PROVE  \E c \in Node : par[c] = n /\ x \in Below(par, c)
<1> DEFINE S == {n} \cup {z \in Node : \E c \in Node : par[c] = n /\ z \in Below(par, c)}
<1>1. S \in SUBSET Node /\ n \in S
  OBVIOUS
<1>2. ASSUME NEW y \in Node, par[y] # None, par[y] \in S PROVE y \in S
  <2>1. CASE par[y] = n
    BY <2>1, BelowFacts
  <2>2. ASSUME NEW c \in Node, par[c] = n, par[y] \in Below(par, c) PROVE y \in S
    <3>1. y \in Below(par, c)
      BY <1>2, <2>2, BelowFacts
    <3> QED BY <2>2, <3>1
  <2> QED BY <1>2, <2>1, <2>2
<1> HIDE DEF S
<1>3. x \in S
  BY <1>1, <1>2, BelowFacts
<1> QED BY <1>3 DEF S

LEMMA MisplacedStep ==
  TypeOK /\ Sound /\ [Next]_vars
    => Misplaced' \subseteq Misplaced \/ \E n \in Node : Convert(n)
<1> SUFFICES ASSUME TypeOK, Sound, [Next]_vars, NEW x \in Misplaced',
                    ~\E n \in Node : Convert(n)
             PROVE  x \in Misplaced
  OBVIOUS
<1> DEFINE q == parent'[x]
           Old(n) == Page(nodes, parent, class, embedded, n)
           New(n) == Page(nodes', parent', class', embedded', n)
<1>a. /\ parent \in Parents /\ parent' \in Parents
      /\ nodes \in SUBSET Node /\ nodes' \in SUBSET Node
  BY TypeStep DEF TypeOK, Parents
<1>b. Rooted(nodes, parent) /\ Rooted(nodes', parent')
  <2>1. TypeOK' /\ Sound'
    BY TypeStep, SoundStep
  <2> QED BY <2>1 DEF Rooted, TypeOK, Sound
<1>c. \A n \in Node : IsPage(n) <=> Old(n)
  BY <1>a, <1>b, PageIs DEF IsPage, Ancestors, Subtree
<1>d. x \in nodes' \ embedded' /\ q # None /\ q \in nodes' /\ x \in Node /\ q \in Node
  BY <1>a, <1>b DEF Misplaced, Rooted
<1>e. ~New(q)
  <2>1. \A n \in Node : IsPage(n)' <=> New(n)
    BY <1>a, <1>b, PageIs DEF IsPage, Ancestors, Subtree
  <2>2. \E n \in Node : n = q /\ ~IsPage(n)'
    BY <1>d DEF Misplaced
  <2> QED BY <2>1, <2>2
<1> HIDE DEF q, Old, New
\* The page x stood under is still one.
<1>f. ASSUME Old(q),
             \A a \in Up(parent, q) : /\ parent'[a] \in {parent[a], None}
                                      /\ a \in class' => a \in class
                                      /\ a \in embedded' /\ parent'[a] # None => a \in embedded
      PROVE  FALSE
  <2>1. Page(nodes, parent, class, embedded, q)
    BY <1>f DEF Old
  <2>2. Page(nodes', parent', class', embedded', q)
    BY <1>a, <1>d, <1>f, <2>1, PageCarries
  <2> QED BY <1>e, <2>2 DEF New
\* It was not one before.
<1>g. ASSUME x \in nodes \ embedded, parent[x] = q, Old(q) => FALSE
      PROVE  x \in Misplaced
  BY <1>c, <1>d, <1>g DEF Misplaced
<1>h. \A a \in Up(parent, q) : Old(q) =>
        a \notin class /\ (parent[a] # None => a \notin embedded)
  BY DEF Old, Page
<1>i. \A a \in Up(parent, q) : a \in Node
  BY DEF Up
<1>j. parent'[x] = q
  BY DEF q
<1>1. ASSUME NEW n \in Node, NEW p \in Node \cup {None}, NEW asEmbedded \in BOOLEAN,
             Create(n, p, asEmbedded)
      PROVE  x \in Misplaced
  <2>1. \A y \in Node : parent'[y] = IF y = n THEN p ELSE parent[y]
    BY <1>1, <1>a DEF Create, Parents
  <2>2. ASSUME Old(q) PROVE FALSE
    <3>1. q \in nodes /\ n \notin nodes
      BY <1>1, <2>2 DEF Old, Page, Create
    <3>2. n \notin Up(parent, q)
      BY <1>a, <1>b, <3>1, NothingBelow
    <3>3. class' = class /\ \A a : a # n => (a \in embedded' <=> a \in embedded)
      BY <1>1 DEF Create
    <3> QED BY <1>f, <1>i, <2>1, <2>2, <3>2, <3>3
  <2>3. x # n
    <3> SUFFICES ASSUME x = n PROVE Old(q)
      BY <2>2
    <3>1. p = q /\ ~asEmbedded
      BY <1>1, <1>d, <1>j, <2>1 DEF Create
    <3> QED BY <1>1, <1>c, <1>d, <3>1 DEF Create
  <2>4. x \in nodes \ embedded /\ parent[x] = q
    BY <1>1, <1>d, <1>j, <2>1, <2>3 DEF Create
  <2> QED BY <1>g, <2>2, <2>4
<1>2. ASSUME NEW n \in Node, NEW p \in Node \cup {None}, Move(n, p)
      PROVE  x \in Misplaced
  <2>1. \A y \in Node : parent'[y] = IF y = n THEN p ELSE parent[y]
    BY <1>2, <1>a DEF Move, Parents
  <2>2. class' = class /\ embedded' \subseteq embedded /\ nodes' = nodes
    BY <1>2 DEF Move
  <2>3. \A y \in embedded : y # n => y \in embedded'
    BY <1>2 DEF Move
  <2>4. n \in embedded' => n \in embedded /\ (p # None /\ n \notin class => parent[n] # None)
    BY <1>2 DEF Move, ClaimsMain
  <2>5. p # None => n \notin Up(parent, p) /\ n \notin class
    BY <1>2, BelowIsSubtree DEF Move, MayMove, Up
  <2>6. p # None /\ n \notin embedded' => Old(p)
    BY <1>2, <1>c DEF Move, MayMove
  <2>7. ASSUME Old(q) PROVE FALSE
    <3>1. CASE p = None \/ n \notin Up(parent, q)
      <4>1. \A a \in Up(parent, q) : parent'[a] \in {parent[a], None}
        BY <1>i, <2>1, <3>1
      <4> QED BY <1>f, <2>2, <2>7, <4>1
    <3>2. CASE p # None /\ n \in Up(parent, q)
      <4>1. n \notin embedded'
        BY <1>h, <2>2, <2>4, <2>5, <2>7, <3>2
      <4>2. Old(p) /\ p \in Node
        BY <2>6, <3>2, <4>1
      <4> DEFINE S == Up(parent, q) \cup Up(parent, p)
      <4>3. S \in SUBSET Node /\ q \in S /\ p \in S
        BY <1>a, <1>d, <4>2, UpFacts
      <4>4. \A a \in S : a # n /\ parent[a] # None => parent[a] \in S
        BY <1>a, <1>d, <4>2, UpFacts
      <4>5. \A a \in S : a \notin class /\ (parent[a] # None => a \notin embedded)
        BY <1>h, <2>7, <4>2 DEF Old, Page
      <4> HIDE DEF S
      <4>6. \A a \in S : /\ parent'[a] # None => parent'[a] \in S /\ a \notin embedded'
                         /\ a \notin class'
        BY <2>1, <2>2, <4>1, <4>3, <4>4, <4>5
      <4>7. Page(nodes', parent', class', embedded', q)
        BY <1>a, <1>d, <4>3, <4>6, PageFromSet
      <4> QED BY <1>e, <4>7 DEF New
    <3> QED BY <3>1, <3>2
  <2>8. x # n
    <3> SUFFICES ASSUME x = n PROVE Old(q)
      BY <2>7
    <3> QED BY <1>d, <1>j, <2>1, <2>6
  <2>9. x \in nodes \ embedded /\ parent[x] = q
    BY <1>d, <1>j, <2>1, <2>2, <2>3, <2>8
  <2> QED BY <1>g, <2>7, <2>9
<1>3. ASSUME NEW n \in Node, NEW asEmbedded \in BOOLEAN, SetEmbedded(n, asEmbedded)
      PROVE  x \in Misplaced
  <2>1. nodes' = nodes /\ parent' = parent /\ class' = class
    BY <1>3 DEF SetEmbedded
  <2>2. x \in nodes /\ parent[x] = q
    BY <1>d, <1>j, <2>1
  <2>3. CASE ~asEmbedded
    <3>1. embedded' = embedded \ {n}
      BY <1>3, <2>3 DEF SetEmbedded
    <3>2. Old(q) => FALSE
      BY <1>f, <2>1, <3>1
    <3>3. x # n
      <4> SUFFICES ASSUME x = n PROVE Old(q)
        BY <3>2
      <4> QED BY <1>3, <1>c, <1>d, <2>2, <2>3 DEF SetEmbedded, MayEmbed
    <3> QED BY <1>d, <1>g, <2>2, <3>1, <3>2, <3>3
  <2>4. CASE asEmbedded
    <3>1. embedded' = embedded \cup {n}
      BY <1>3, <2>4 DEF SetEmbedded
    <3>2. ASSUME Old(q) PROVE FALSE
      <4>1. CASE n \in embedded \/ parent[n] = None \/ n \notin Up(parent, q)
        BY <1>f, <2>1, <3>1, <3>2, <4>1
      <4>2. CASE n \notin embedded /\ parent[n] # None /\ n \in Up(parent, q)
        <5>1. \A c \in nodes : parent[c] = n => c \in embedded
          BY <1>3, <2>4, <4>2 DEF SetEmbedded, MayEmbed
        <5>2. q # n
          BY <1>d, <2>2, <3>1, <5>1
        <5>3. q \in Below(parent, n)
          BY <4>2 DEF Up
        <5>4. PICK c \in Node : parent[c] = n /\ q \in Below(parent, c)
          BY <1>a, <5>2, <5>3, BelowAChild
        <5>5. c \in embedded /\ parent[c] # None
          BY <1>b, <5>1, <5>4, TreeAssumption DEF Rooted
        <5>6. c \in Up(parent, q)
          BY <5>4 DEF Up
        <5> QED BY <1>h, <3>2, <5>5, <5>6
      <4> QED BY <4>1, <4>2
    <3> QED BY <1>d, <1>g, <2>2, <3>1, <3>2
  <2> QED BY <2>3, <2>4
<1>4. ASSUME UNCHANGED <<nodes, parent, class, embedded>>
      PROVE  x \in Misplaced
  <2>1. x \in nodes \ embedded /\ parent[x] = q
    BY <1>4, <1>d, <1>j
  <2> QED BY <1>4, <1>f, <1>g, <2>1
<1>5. ASSUME NEW R, NEW purgedWithAnother, Purge(R, purgedWithAnother)
      PROVE  x \in Misplaced
  <2> DEFINE gone == UNION {Subtree(r) : r \in R}
  <2>1. /\ nodes' = nodes \ gone /\ class' = class \ gone /\ embedded' = embedded \ gone
        /\ \A y \in Node : parent'[y] = IF y \in gone THEN None ELSE parent[y]
    BY <1>5 DEF Purge
  <2> HIDE DEF gone
  <2>2. Old(q) => FALSE
    BY <1>f, <1>i, <2>1
  <2>3. x \in nodes \ embedded /\ parent[x] = q
    BY <1>d, <1>j, <2>1
  <2> QED BY <1>g, <2>2, <2>3
<1>6. ASSUME NEW n \in Node, Restore(n)
      PROVE  x \in Misplaced
  <2>1. parent' = parent
    BY <1>6, <1>a, <1>b DEF Restore, Rooted, Parents
  <2> QED BY <1>4, <1>6, <2>1 DEF Restore
<1>7. ASSUME NEW n \in Node, NewClass(n)
      PROVE  x \in Misplaced
  <2>1. /\ n \notin nodes /\ nodes' = nodes \cup {n} /\ class' = class \cup {n}
        /\ parent' = parent /\ embedded' = embedded
    BY <1>7 DEF NewClass
  <2>2. x \in nodes \ embedded /\ parent[x] = q
    BY <1>b, <1>d, <1>j, <2>1 DEF Rooted
  <2>3. q \in nodes
    BY <1>b, <1>d, <2>2 DEF Rooted
  <2>4. n \notin Up(parent, q)
    BY <1>a, <1>b, <2>1, <2>3, NothingBelow
  <2>5. Old(q) => FALSE
    BY <1>f, <2>1, <2>4
  <2> QED BY <1>g, <2>2, <2>5
<1> QED
  BY <1>1, <1>2, <1>3, <1>4, <1>5, <1>6, <1>7
     DEF Next, vars, Delete, DeletePermanently, EmptyTrash

(* No applier but the conversion of an existing node into a class leaves a standalone node
   under anything but a page, for every set of nodes and every sequence of envelopes. *)
THEOREM OnlyConversionMisplaces == Spec => OnlyConvertMisplaces
<1> DEFINE Inv == TypeOK /\ Sound
<1>1. Init => Inv
  BY TypeInit, SoundInit
<1>2. Inv /\ [Next]_vars => Inv'
  BY TypeStep, SoundStep
<1>3. Inv /\ [Next]_vars => [Misplaced' \subseteq Misplaced \/ \E n \in Node : Convert(n)]_vars
  BY MisplacedStep
<1> HIDE DEF Inv
<1> QED BY <1>1, <1>2, <1>3, PTL DEF Spec, OnlyConvertMisplaces
=============================================================================
