------------------------------- MODULE NodeTree -------------------------------
(***************************************************************************)
(* The page tree of one store: the appliers of data/store.py that write    *)
(* parent_id, is_class, is_embedded, the trash table, the node_child_order *)
(* rows and the child and descendant counts of node_stats (object.create,  *)
(* update, delete, restore, move, trash.empty, class.create and            *)
(* class.update).  Each action applies one envelope, from any device and   *)
(* in any order.  A guard that raises leaves no trace here, so it is a     *)
(* conjunct; so does an update or a move whose (hlc, actor) loses to the   *)
(* row's (see Replicas): the action is not taken.                          *)
(*                                                                         *)
(* Ids are those of user nodes: the date chain and the system classes,     *)
(* whose shape is locked, are not part of it, and no class has             *)
(* parentlessRole "block".  Left out because nothing here reads them: the  *)
(* position of a node_child_order row, is_active, and the edges, whose     *)
(* changes only ever count again what is counted here.                     *)
(***************************************************************************)
EXTENDS Naturals, FiniteSets

CONSTANTS
  Node,   \* node ids, compared as trash.empty's ORDER BY node_id does
  None    \* no parent

ASSUME TreeAssumption ==
  /\ Node \subseteq Nat /\ IsFiniteSet(Node)
  /\ None \notin Node

VARIABLES
  nodes,     \* ids with a row in nodes
  parent,    \* parent_id, None for NULL (and without a row)
  class,     \* rows with is_class = 1
  embedded,  \* rows with is_embedded = 1
  trash,     \* trash[n]: its row in the trash table
  childRow,  \* node_child_order: <<parent_id, child_id>>
  counts     \* node_stats: child and descendant counts

vars == <<nodes, parent, class, embedded, trash, childRow, counts>>

Trash == {"none", "soft", "permanent"}
NoCounts == [children |-> 0, descendants |-> 0]

TypeOK ==
  /\ nodes \subseteq Node
  /\ parent \in [Node -> Node \cup {None}]
  /\ class \subseteq nodes /\ embedded \subseteq nodes
  /\ trash \in [Node -> Trash]
  /\ childRow \subseteq Node \X Node
  /\ counts \in [Node -> [children : Nat, descendants : Nat]]

Init ==
  /\ nodes = {} /\ class = {} /\ embedded = {}
  /\ parent = [n \in Node |-> None]
  /\ trash = [n \in Node |-> "none"]
  /\ childRow = {}
  /\ counts = [n \in Node |-> NoCounts]

-----------------------------------------------------------------------------
(* The least set that holds n and, with a node, every node below it: of a  *)
(* leaf, itself.                                                           *)

ClosedBelow(S, below) == \A edge \in below : edge[1] \in S => edge[2] \in S
Reach(n, below) ==
  LET closed == {S \in SUBSET Node : n \in S /\ ClosedBelow(S, below)}
  IN IF \A edge \in below : edge[1] # n THEN {n} ELSE {x \in Node : \A S \in closed : x \in S}

\* _subtree_ids and _ancestor_ids walk parent_id.
ParentEdges(par) == {<<par[y], y>> : y \in {z \in Node : par[z] # None}}
Subtree(n) == Reach(n, ParentEdges(parent))
Ancestors(n) == {a \in nodes \ {n} : n \in Subtree(a)}

\* _is_page_row: does n render with document chrome.
IsPage(n) ==
  /\ n \in nodes
  /\ \A a \in Ancestors(n) \cup {n} : a \notin class /\ (parent[a] # None => a \notin embedded)

\* The counts as the child-order rows have them.
CountsOf(n, rows) ==
  [children |-> Cardinality({r \in rows : r[1] = n}),
   descendants |-> Cardinality(Reach(n, rows) \ {n})]

\* Wrong on purpose: only the rows of S are counted again.
RecountedAlone(S, ns, par, rows) ==
  [n \in Node |->
     IF n \notin S THEN counts[n]
     ELSE IF n \in ns THEN CountsOf(n, rows) ELSE NoCounts]

\* _rebuild_node_stats: the rows of S and of everything above S, after the
\* write; a row is not re-inserted for an id without a node.
Recounted(S, ns, par, rows) ==
  LET above == {a \in Node : \E n \in S : n \in Reach(a, ParentEdges(par))}
  IN [n \in Node |->
       IF n \notin above THEN counts[n]
       ELSE IF n \in ns THEN CountsOf(n, rows) ELSE NoCounts]

\* Wrong on purpose: the old row stays.
RowsKept(S) == childRow

\* Drop the child-order rows of the children S.
RowsWithout(S) == {r \in childRow : r[2] \notin S}

-----------------------------------------------------------------------------
(* object.create over an id without a row (over an existing row only its   *)
(* class and tag sets may change, see Replicas).  A parentless create is   *)
(* standalone unless it says otherwise.                                    *)
Create(n, p, asEmbedded) ==
  /\ n \notin nodes
  /\ p # None => p \in nodes
  /\ p # None /\ ~asEmbedded => IsPage(p)
  /\ nodes' = nodes \cup {n}
  /\ parent' = [parent EXCEPT ![n] = p]
  /\ embedded' = IF asEmbedded THEN embedded \cup {n} ELSE embedded
  /\ childRow' = IF p = None THEN childRow ELSE childRow \cup {<<p, n>>}
  /\ UNCHANGED <<class, trash>>
  /\ counts' = Recounted({n}, nodes', parent', childRow')

\* Wrong on purpose: a page is demoted whatever stands under it.
MayEmbedFreely(n, asEmbedded) ==
  parent[n] # None /\ ~asEmbedded => IsPage(parent[n])

\* object.update with isEmbedded: promotion and demotion.
MayEmbed(n, asEmbedded) ==
  parent[n] # None =>
    IF asEmbedded
      THEN n \notin embedded =>
             \A c \in nodes : parent[c] = n => c \in embedded
      ELSE IsPage(parent[n])

SetEmbedded(n, asEmbedded) ==
  /\ n \in nodes
  /\ MayEmbed(n, asEmbedded)
  /\ embedded' = IF asEmbedded THEN embedded \cup {n} ELSE embedded \ {n}
  /\ UNCHANGED <<nodes, parent, class, trash, childRow, counts>>

(***************************************************************************)
(* object.move.  A parentless non-class node is a page whatever its bit    *)
(* says: its first parenting makes it standalone.                          *)
(***************************************************************************)
ClaimsMain(n, p) == parent[n] = None /\ p # None /\ n \in embedded \ class

\* Wrong on purpose: a node may move below itself.
MayMoveAnywhere(n, p) ==
  p # None =>
    /\ p \in nodes
    /\ n \notin class
    /\ n \notin embedded \/ ClaimsMain(n, p) => IsPage(p)

MayMove(n, p) ==
  p # None =>
    /\ p \in nodes \ Subtree(n)
    /\ n \notin class
    /\ n \notin embedded \/ ClaimsMain(n, p) => IsPage(p)

Move(n, p) ==
  /\ n \in nodes
  /\ MayMove(n, p)
  /\ parent' = [parent EXCEPT ![n] = p]
  /\ embedded' = IF ClaimsMain(n, p) THEN embedded \ {n} ELSE embedded
  /\ childRow' = RowsWithout({n}) \cup (IF p = None THEN {} ELSE {<<p, n>>})
  /\ UNCHANGED <<nodes, class, trash>>
  /\ counts' = Recounted({n} \cup Ancestors(n), nodes', parent', childRow')

\* object.delete of a user node or class: the subtree goes to the trash.
Delete(n) ==
  /\ n \in nodes
  /\ trash' = [trash EXCEPT ![n] = "soft"]
  /\ UNCHANGED <<nodes, parent, class, embedded, childRow>>
  /\ counts' = Recounted({n} \cup Ancestors(n), nodes', parent', childRow')

\* _permanently_delete_subtree of every root in R: rows, child order, trash
\* rows below a root and counts go, ancestors are counted again.  A root that
\* was purged with another keeps no trash row.
Purge(R, purgedWithAnother) ==
  LET gone == UNION {Subtree(r) : r \in R}
  IN /\ nodes' = nodes \ gone
     /\ parent' = [n \in Node |-> IF n \in gone THEN None ELSE parent[n]]
     /\ class' = class \ gone
     /\ embedded' = embedded \ gone
     /\ trash' = [n \in Node |->
          IF n \in R \ purgedWithAnother THEN "permanent"
          ELSE IF n \in gone THEN "none" ELSE trash[n]]
     /\ childRow' = {r \in childRow : r[1] \notin gone /\ r[2] \notin gone}
     /\ counts' = Recounted(gone \cup UNION {Ancestors(r) : r \in R}, nodes', parent', childRow')

DeletePermanently(n) ==
  /\ n \in nodes
  /\ Purge({n}, {})

\* trash.empty: the soft-trashed roots in id order.
Trashed == {n \in nodes : trash[n] = "soft"}

EmptyTrash ==
  /\ Trashed # {}
  /\ Purge(Trashed, {n \in Trashed : \E r \in Trashed : r < n /\ n \in Subtree(r)})

(***************************************************************************)
(* object.restore: the root's trash row is consumed; those of the nodes    *)
(* below it, trashed on their own, stay.                                   *)
(***************************************************************************)
Restore(n) ==
  /\ n \in nodes
  /\ trash[n] # "none"
  /\ parent' = IF parent[n] \in nodes THEN parent ELSE [parent EXCEPT ![n] = None]
  /\ trash' = [trash EXCEPT ![n] = "none"]
  /\ UNCHANGED <<nodes, class, embedded, childRow>>
  /\ counts' = Recounted({n} \cup Ancestors(n), nodes', parent', childRow')

(***************************************************************************)
(* class.create and class.update insert the class node when there is none  *)
(* (without a node_stats row); class.create turns an existing node into a  *)
(* class and a root, unconditionally and without counting again.  Over an  *)
(* existing node class.update writes what is left out here.                *)
(***************************************************************************)
\* Wrong on purpose: a class is declared without a node.
NewClassWithoutNode(n) ==
  /\ n \notin nodes
  /\ class' = class \cup {n}
  /\ UNCHANGED <<nodes, parent, embedded, trash, childRow, counts>>

NewClass(n) ==
  /\ n \notin nodes
  /\ nodes' = nodes \cup {n}
  /\ class' = class \cup {n}
  /\ UNCHANGED <<parent, embedded, trash, childRow, counts>>

Convert(n) ==
  /\ n \in nodes \ class
  /\ class' = class \cup {n}
  /\ parent' = [parent EXCEPT ![n] = None]
  /\ embedded' = embedded \ {n}
  /\ childRow' = RowsWithout({n})
  /\ UNCHANGED <<nodes, trash, counts>>

-----------------------------------------------------------------------------
Next ==
  \/ \E n \in Node, p \in Node \cup {None} :
       \/ \E asEmbedded \in BOOLEAN : Create(n, p, asEmbedded)
       \/ Move(n, p)
  \/ \E n \in Node, asEmbedded \in BOOLEAN : SetEmbedded(n, asEmbedded)
  \/ \E n \in Node :
       \/ Delete(n) \/ DeletePermanently(n) \/ Restore(n)
       \/ NewClass(n) \/ Convert(n)
  \/ EmptyTrash

Spec == Init /\ [][Next]_vars

-----------------------------------------------------------------------------
(* Properties *)

(***************************************************************************)
(* The tree is one: parents exist, nothing is below itself (every walk of  *)
(* the store over parent_id would be endless), classes are roots, and what *)
(* is in the trash is still there to restore.                              *)
(***************************************************************************)
Sound ==
  /\ \A n \in nodes : parent[n] # None => parent[n] \in nodes \ Subtree(n)
  /\ \A n \in class : parent[n] = None
  /\ \A n \in Node \ nodes : parent[n] = None /\ trash[n] # "soft"

(***************************************************************************)
(* The child-order rows are exactly the parent_id edges: no node renders   *)
(* under two parents, or under a parent that its own row does not name.    *)
(***************************************************************************)
RowsMatchParents == childRow = ParentEdges(parent)

(***************************************************************************)
(* A standalone node is rendered under a page: no applier but class.create *)
(* over an existing node ever leaves a standalone node under anything else *)
(* ("an illegal parented state", store.py:1933, 2572).                     *)
(***************************************************************************)
Misplaced == {n \in nodes \ embedded : parent[n] # None /\ ~IsPage(parent[n])}

OnlyConvertMisplaces ==
  [][Misplaced' \subseteq Misplaced \/ \E n \in Node : Convert(n)]_vars

(***************************************************************************)
(* The materialized counts agree with the child-order rows after every     *)
(* operation but class.create over an existing node, and once right again  *)
(* stay right ("the appliers rebuild the affected closure after every      *)
(* tree/edge/liveness change", store.py:6578).                             *)
(***************************************************************************)
Stale == {n \in Node : counts[n] # CountsOf(n, childRow)}

OnlyConvertStales == [][Stale' \subseteq Stale \/ \E n \in Node : Convert(n)]_vars
=============================================================================
