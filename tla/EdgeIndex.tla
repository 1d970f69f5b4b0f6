------------------------------- MODULE EdgeIndex -------------------------------
(***************************************************************************)
(* The edge index of one mirror (data/store.py): a row of edge per mention *)
(* in a node's content, per visible node-typed property value and per tag, *)
(* each with resolved_target_id, the end of its target's alias chain when  *)
(* the row was last written; the backlink and reference counts node_stats  *)
(* keeps of it; and the graph view's topology, which reads it              *)
(* (core/graph/model.py).  The appliers maintain the index step by step;   *)
(* _backfill_edge_index derives the whole of it from the nodes.            *)
(*                                                                         *)
(* Each step applies one envelope that passes its guards and wins the      *)
(* row's (hlc, actor) register (see NodeTree and Replicas).  Content is    *)
(* the set of nodes it mentions: text, typed links, link ids and repeated  *)
(* mentions change nothing here.  A property value that moves its carrier  *)
(* to the trash is a value write and a delete; the fan-out of a date       *)
(* reference to its month and year adds targets of the same kind.  The     *)
(* system classes no feature manages are left out: their archival is that  *)
(* of SetActive.                                                           *)
(***************************************************************************)
EXTENDS Naturals, FiniteSets

CONSTANTS
  Id,         \* node ids
  NoId,       \* NULL
  Family,     \* system classes whose archival a feature toggle manages
  AliasCap,   \* links an alias walk follows (32 in the code)
  MaxEdits    \* bound on the envelopes applied

ASSUME IndexAssumption ==
  /\ IsFiniteSet(Id) /\ NoId \notin Id /\ Family \subseteq Id
  /\ AliasCap \in Nat /\ MaxEdits \in Nat

VARIABLES
  store,   \* the tables the index is derived from, and the index: the ids with a
           \* row, live ones (is_active), classes (is_class), inline ones
           \* (is_embedded), parents (above), aliases (aliased_node_id), mentions in
           \* content, references in property values and tags (fields), soft and
           \* permanent trash rows (binned, purged), edges, node_stats
  edits    \* envelopes applied

indexVars == <<store, edits>>

NoStats == [backlinks |-> 0, references |-> 0]
IndexInit ==
  /\ \E made \in SUBSET (Id \ Family) :
       LET there == made \cup Family
       IN  store = [rows |-> there, live |-> there, class |-> Family, inline |-> {},
                    above |-> [n \in Id |-> NoId], alias |-> [n \in Id |-> NoId],
                    content |-> [n \in Id |-> {}], fields |-> [n \in Id |-> {}],
                    binned |-> {}, purged |-> {}, edge |-> {}, stats |-> [n \in Id |-> NoStats]]
  /\ edits = 0

-----------------------------------------------------------------------------
(* Walks over a store m. *)

\* Where a walk of `steps` steps along next ends, one that stops at NoId.
Onward(next, x) == IF next[x] = NoId THEN x ELSE next[x]
Follow(next, steps, x) ==
  LET walk[k \in Nat] == IF k = 0 THEN x ELSE Onward(next, walk[k - 1])
  IN  walk[steps]

\* Whatever a walk meets: there are no more than that many ids.
Chain(next, x) == {Follow(next, k, x) : k \in 0..Cardinality(Id)}

Up(m, n) == Chain(m.above, n)
Below(m, n) == {x \in m.rows : n \in Up(m, x)}

\* _is_page_row.
IsPageRow(m, n) ==
  \A x \in Up(m, n) : x \in m.rows \ m.class /\ (m.above[x] # NoId => x \notin m.inline)

\* The alias links a resolution follows: only a live row resolves through.
LiveAlias(m) == [x \in Id |-> IF x \in m.live THEN m.alias[x] ELSE NoId]

\* Wrong on purpose: the read helper's walk, blind to is_active.
TerminalBlind(m, target) == Follow(m.alias, AliasCap, target)

\* _resolve_edge_target.  No cycle is ever stored.
Terminal(m, target) == Follow(LiveAlias(m), AliasCap, target)

\* _assert_alias_acyclic: the chain from target, whatever is active, meets n.
ClosesCycle(m, n, target) == n \in Chain(m.alias, target)

\* Wrong on purpose: only the rows that target S itself.
AliasesOfSelf(m, S) == S

\* The nodes whose chain of live aliases reaches S.
AliasesOf(m, S) == {x \in Id : Chain(LiveAlias(m), x) \cap S # {}}

-----------------------------------------------------------------------------
(* Index maintenance: each operator takes a store and returns it updated. *)

\* _derive_desired_edges with every target resolved.
DesiredEdges(m, n) ==
  LET row(kind, t) == [source |-> n, kind |-> kind, target |-> t, resolved |-> Terminal(m, t)]
  IN  {row("mention", t) : t \in m.content[n]} \cup {row("field", t) : t \in m.fields[n]}

Counted(m, n) ==
  [backlinks |-> Cardinality({e.source : e \in {x \in m.edge : x.target = n}}),
   references |-> Cardinality({e \in m.edge : e.source = n})]

\* _rebuild_node_stats: the rows of S and of everything above them, counted again.
Restat(m, S) ==
  LET all == UNION {Up(m, n) : n \in S}
  IN  [m EXCEPT !.stats = [n \in Id |-> IF n \notin all THEN @[n]
                                        ELSE IF n \in m.rows THEN Counted(m, n) ELSE NoStats]]

\* _rebuild_edges.
Rebuild(m, n) ==
  LET old == {e \in m.edge : e.source = n}
      new == DesiredEdges(m, n)
  IN  Restat([m EXCEPT !.edge = (@ \ old) \cup new], {n} \cup {e.target : e \in old \cup new})

\* _reresolve_edge_targets.
Reresolve(m, S) ==
  LET moved == AliasesOf(m, S)
  IN  [m EXCEPT !.edge = {IF e.target \in moved THEN [e EXCEPT !.resolved = Terminal(m, e.target)] ELSE e : e \in @}]

\* The tables without the rows of ids; only the roots of kept have a trash row left.
Without(m, ids, kept) ==
  [m EXCEPT !.rows = @ \ ids, !.live = @ \ ids, !.class = @ \ ids, !.inline = @ \ ids,
            !.above = [x \in Id |-> IF x \in ids THEN NoId ELSE @[x]],
            !.alias = [x \in Id |-> IF x \in ids THEN NoId ELSE @[x]],
            !.content = [x \in Id |-> IF x \in ids THEN {} ELSE @[x]],
            !.fields = [x \in Id |-> IF x \in ids THEN {} ELSE @[x]],
            !.binned = @ \ ids, !.purged = (@ \ ids) \cup kept,
            !.edge = {e \in @ : e.source \notin ids},
            !.stats = [x \in Id |-> IF x \in ids THEN NoStats ELSE @[x]]]

\* Wrong on purpose: what a purged source linked to keeps its counts.
PurgeUncounted(m, R, kept) ==
  LET ids == UNION {Below(m, n) : n \in R}
  IN  Restat(Reresolve(Without(m, ids, kept), ids), (UNION {Up(m, n) : n \in R}) \ ids)

\* _permanently_delete_subtree, of every root in R: edges that point into the subtrees stay.
Purge(m, R, kept) ==
  LET ids == UNION {Below(m, n) : n \in R}
      lost == {e.target : e \in {x \in m.edge : x.source \in ids}}
  IN  Restat(Reresolve(Without(m, ids, kept), ids), ((UNION {Up(m, n) : n \in R}) \cup lost) \ ids)

-----------------------------------------------------------------------------
Edited(m) == edits < MaxEdits /\ edits' = edits + 1 /\ store' = m

\* object.create: only an embedded block keeps the mentions of its content.
CreateNode(n, p, asInline, T) ==
  /\ n \notin store.rows
  /\ p # NoId => p \in store.rows /\ (asInline \/ IsPageRow(store, p))
  /\ LET made == [store EXCEPT !.rows = @ \cup {n}, !.live = @ \cup {n}, !.above[n] = p,
                               !.inline = IF asInline THEN @ \cup {n} ELSE @,
                               !.content[n] = IF asInline THEN T ELSE {}]
     IN  Edited(Restat(Rebuild(made, n), {n}))

\* object.update with contentAst: class content stays text.
WriteContent(n, T) ==
  /\ n \in store.rows
  /\ Edited(Rebuild([store EXCEPT !.content[n] = IF n \in store.class THEN {} ELSE T], n))

\* property.set and unset, tag.unassign, and the tag add of a re-issued object.create.
WriteFields(n, T) ==
  /\ n \in store.rows
  /\ Edited(Rebuild([store EXCEPT !.fields[n] = T], n))

\* object.update with aliasedNodeId.
SetAlias(n, target) ==
  /\ n \in store.rows
  /\ target # NoId => ~ClosesCycle(store, n, target)
  /\ Edited(Reresolve([store EXCEPT !.alias[n] = target], {n}))

\* object.update with active: a family base is archived by its toggle only.
SetActive(n, active) ==
  /\ n \in store.rows
  /\ ~active => ~(n \in store.class /\ n \in Family)
  /\ Edited(Reresolve([store EXCEPT !.live = IF active THEN @ \cup {n} ELSE @ \ {n}], {n}))

\* object.update with isEmbedded: a promotion flattens the content to text and leaves the
\* index alone.
SetInline(n, asInline) ==
  /\ n \in store.rows
  /\ store.above[n] # NoId =>
       IF asInline THEN n \in store.inline \/ \A x \in store.rows : store.above[x] = n => x \in store.inline
       ELSE IsPageRow(store, store.above[n])
  /\ Edited([store EXCEPT !.inline = IF asInline THEN @ \cup {n} ELSE @ \ {n},
                          !.content[n] = IF ~asInline /\ n \in store.inline THEN {} ELSE @])

\* object.move: so does the first parenting of a parentless block.
MoveNode(n, p) ==
  LET claims == store.above[n] = NoId /\ n \in store.inline \ store.class
  IN  /\ n \in store.rows
      /\ p # NoId =>
           /\ p \in store.rows \ Below(store, n)
           /\ n \notin store.class
           /\ (n \notin store.inline \/ claims) => IsPageRow(store, p)
      /\ Edited(Restat([store EXCEPT !.above[n] = p,
                                     !.inline = IF claims /\ p # NoId THEN @ \ {n} ELSE @,
                                     !.content[n] = IF claims /\ p # NoId THEN {} ELSE @],
                       Up(store, n)))

\* class.create, over an existing node or not, and the title writes of class.update.
DeclareClassNode(n, titled) ==
  Edited([store EXCEPT !.rows = @ \cup {n},
                       !.live = IF n \in store.rows THEN @ ELSE @ \cup {n},
                       !.class = @ \cup {n},
                       !.inline = IF n \in store.class THEN @ ELSE @ \ {n},
                       !.above[n] = IF n \in store.class THEN @ ELSE NoId,
                       !.content[n] = IF titled THEN {} ELSE @])

\* workspace.feature.set, and object.delete of a family base.
ToggleFamily(n) ==
  /\ n \in Family \cap store.class
  /\ Edited([store EXCEPT !.live = IF n \in @ THEN @ \ {n} ELSE @ \cup {n}])

\* object.delete.
TrashNode(n) ==
  /\ n \in store.rows \ (Family \cap store.class)
  /\ LET ids == Below(store, n)
         trashed == [store EXCEPT !.live = @ \ ids, !.binned = @ \cup {n}, !.purged = @ \ {n}]
     IN  Edited(Restat(Reresolve(trashed, ids), {n}))

PurgeNode(n) ==
  /\ n \in store.rows \ (Family \cap store.class)
  /\ Edited(Purge(store, {n}, {n}))

\* trash.empty, each root in the order of the ids: a root that went with an earlier one
\* keeps no trash row.
EmptyTrash ==
  \E kept \in SUBSET store.binned :
    /\ \A n \in store.binned \ kept : \E r \in kept : n \in Below(store, r)
    /\ Edited(Purge(store, store.binned, kept))

\* object.restore: a missing parent leaves the node at the root.
RestoreNode(n) ==
  LET own == store.binned \cup store.purged
      placed == [store EXCEPT !.above[n] = IF @ \in store.rows THEN @ ELSE NoId]
      back == {x \in Below(placed, n) : \A y \in Up(placed, x) \cap Below(placed, n) : y \in own => y = n}
      revived == [placed EXCEPT !.live = @ \cup back]
  IN  /\ n \in store.rows \cap own
      /\ Edited([Restat(Reresolve(revived, back), {n}) EXCEPT !.binned = @ \ {n}, !.purged = @ \ {n}])

\* One target at a time in the content and in the fields.
IndexNext ==
  \/ EmptyTrash
  \/ \E n \in Id :
       \/ \E p \in Id \cup {NoId}, asInline \in BOOLEAN, T \in {{}} \cup {{t} : t \in Id} :
            CreateNode(n, p, asInline, T)
       \/ \E T \in {{}} \cup {{t} : t \in Id} : WriteContent(n, T) \/ WriteFields(n, T)
       \/ \E p \in Id \cup {NoId} : SetAlias(n, p) \/ MoveNode(n, p)
       \/ \E b \in BOOLEAN : SetActive(n, b) \/ SetInline(n, b) \/ DeclareClassNode(n, b)
       \/ ToggleFamily(n) \/ TrashNode(n) \/ PurgeNode(n) \/ RestoreNode(n)

IndexSpec == IndexInit /\ [][IndexNext]_indexVars

-----------------------------------------------------------------------------
(* The graph view: vertices, and the vertex an edge's end is drawn at. *)
Vertex(m, n) ==
  /\ n \in m.live /\ m.alias[n] = NoId
  /\ n \in m.class \/ n \notin m.inline

\* resolve_to_set: up through blocks and along aliases, of live rows only.
Rollup(m) ==
  [x \in Id |-> IF Vertex(m, x) \/ x \notin m.live THEN NoId
                ELSE IF m.alias[x] # NoId THEN m.alias[x] ELSE m.above[x]]
DrawnAt(m, end) ==
  LET last == Follow(Rollup(m), Cardinality(Id), end)
  IN  IF Vertex(m, last) THEN last ELSE NoId

-----------------------------------------------------------------------------
(* The index is what _backfill_edge_index would derive from the same mirror. *)
StaleSources(m) == {n \in Id : {e \in m.edge : e.source = n} # (IF n \in m.rows THEN DesiredEdges(m, n) ELSE {})}
(* What the step-by-step index gets wrong, it gets wrong in three ways only: a promotion,
   a first parenting or a class title flattens a node's mentions away and leaves their
   rows; and a feature toggle flips a class in the middle of an alias chain. *)
Flattened(n) == store'.content[n] # store.content[n] /\ store'.edge = store.edge
Toggled == \E n \in Family : (n \in store.live) # (n \in store'.live) /\ n \in store'.class
OnlyFlatteningOrTogglesStale ==
  [][\A n \in StaleSources(store') : n \in StaleSources(store) \/ Flattened(n) \/ Toggled]_indexVars

(* The counts shown beside a node are those of the index, except that a class declared
   under an id that is already linked to starts uncounted. *)
Miscounted(m) == {n \in m.rows : m.stats[n] # Counted(m, n)}
OnlyDeclarationMiscounts ==
  [][\A n \in Miscounted(store') :
       n \in Miscounted(store) \/ n \in (store'.rows \ store.rows) \cap store'.class]_indexVars

(* The alias terminal in a current edge row and the graph's own walk over aliases and
   parents draw the edge at the same vertex, or both leave it out. *)
GraphFollowsIndex ==
  \A e \in store.edge : e.resolved = Terminal(store, e.target) => DrawnAt(store, e.target) = DrawnAt(store, e.resolved)
=============================================================================
