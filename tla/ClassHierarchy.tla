---------------------------- MODULE ClassHierarchy ----------------------------
(***************************************************************************)
(* The class registry of one mirror: the rows of nodes, class,             *)
(* class_extends and class_hierarchy in data/store.py.  Each step applies  *)
(* one envelope, whichever the relay sends next; one that an applier       *)
(* rejects leaves no trace.  A restore from backup makes the client wipe   *)
(* its tables before it reads the log again.                               *)
(*                                                                         *)
(* Left out: the fields of a class (name, icon, role), the tree (NodeTree) *)
(* and the archival bits (Features), none of which the closure reads.      *)
(***************************************************************************)
EXTENDS Naturals, FiniteSets

CONSTANTS
  Class,   \* ids a class envelope may address
  Seeded   \* system class -> its seeded extends parents

ASSUME HierarchyAssumption ==
  /\ DOMAIN Seeded \subseteq Class
  /\ \A c \in DOMAIN Seeded : Seeded[c] \subseteq Class

VARIABLE tables  \* the four tables

ClassEnvelope ==
  [op : {"object.create", "class.create", "object.delete"}, class : Class]
    \cup [op : {"class.setExtends"}, class : Class, parents : SUBSET Class]

ClassTables == [nodes : SUBSET Class, registry : SUBSET Class,
           extends : SUBSET (Class \X Class), hierarchy : SUBSET (Class \X Class)]

NoClasses == [nodes |-> {}, registry |-> {}, extends |-> {}, hierarchy |-> {}]

HierarchyTypeOK == tables \in ClassTables

-----------------------------------------------------------------------------
(* c and everything it extends, directly or not: what _rebuild_class_hierarchy's
   queue visits. *)
UpClosed(S, extends) == \A edge \in extends : edge[1] \in S => edge[2] \in S

Ancestors(c, extends) ==
  {a \in Class : \A S \in SUBSET Class : c \in S /\ UpClosed(S, extends) => a \in S}

Acyclic(extends) == \A edge \in extends : edge[1] \notin Ancestors(edge[2], extends)

\* Every class row takes part, whatever its archival bit; a node without one does not.
RebuildClassHierarchy(registry, extends) ==
  {pair \in registry \X Class : pair[2] \in Ancestors(pair[1], extends)}

-----------------------------------------------------------------------------
(* One applier each: what the guards let through, and the tables after it. *)

\* Wrong on purpose: the closure is asked the other way round.
SetExtendsAllowedReversed(m, c, parents) ==
  /\ {c} \cup parents \subseteq m.nodes
  /\ c \in DOMAIN Seeded => parents = Seeded[c]
  /\ \A p \in parents : p # c /\ <<c, p>> \notin m.hierarchy

\* The system-extends lock, then the cycle check against the closure as it stands.
SetExtendsAllowed(m, c, parents) ==
  /\ {c} \cup parents \subseteq m.nodes
  /\ c \in DOMAIN Seeded => parents = Seeded[c]
  /\ \A p \in parents : p # c /\ <<p, c>> \notin m.hierarchy

\* Wrong on purpose: the closure is left for the next one to rebuild.
SetExtendsLater(m, c, parents) ==
  [m EXCEPT !.extends = {edge \in @ : edge[1] # c} \cup ({c} \X parents)]

\* Wrong on purpose: the closure only ever grows.
SetExtendsGrows(m, c, parents) ==
  LET extends == {edge \in m.extends : edge[1] # c} \cup ({c} \X parents)
  IN  [m EXCEPT !.extends = extends,
                !.hierarchy = @ \cup RebuildClassHierarchy(m.registry, extends)]

\* Replace semantics: the payload is the class's whole parent set.
SetExtends(m, c, parents) ==
  LET extends == {edge \in m.extends : edge[1] # c} \cup ({c} \X parents)
  IN  [m EXCEPT !.extends = extends,
                !.hierarchy = RebuildClassHierarchy(m.registry, extends)]

\* class.create: the row, the node if there is none, and the closure's self row; no rebuild.
DeclareClass(m, c) ==
  [m EXCEPT !.nodes = @ \cup {c}, !.registry = @ \cup {c},
            !.hierarchy = @ \cup {<<c, c>>}]

(* A permanent delete leaves the class rows behind; a system class is archived
   or refused instead, which changes none of the tables here. *)
ApplyClass(m, e) ==
  CASE e.op = "object.create" -> [m EXCEPT !.nodes = @ \cup {e.class}]
    [] e.op = "class.create" -> DeclareClass(m, e.class)
    [] e.op = "object.delete" ->
         IF e.class \in DOMAIN Seeded THEN m ELSE [m EXCEPT !.nodes = @ \ {e.class}]
    [] e.op = "class.setExtends" ->
         IF SetExtendsAllowed(m, e.class, e.parents)
           THEN SetExtends(m, e.class, e.parents) ELSE m

\* wipe deletes the node rows; class, class_extends and class_hierarchy stay.
WipedClasses(m) == [m EXCEPT !.nodes = {}]

-----------------------------------------------------------------------------
HierarchyInit == tables = NoClasses

ReceiveClass(e) == tables' = ApplyClass(tables, e)

WipeClasses == tables' = WipedClasses(tables)

HierarchyNext == (\E e \in ClassEnvelope : ReceiveClass(e)) \/ WipeClasses

HierarchySpec == HierarchyInit /\ [][HierarchyNext]_tables

-----------------------------------------------------------------------------
(* The closure never claims more than class_extends says, for no sequence of
   envelopes, rejections, wipes and replays: a class query or a scope check
   never admits a class that is not an ancestor. *)
ClosureSound ==
  \A pair \in tables.hierarchy : pair[2] \in Ancestors(pair[1], tables.extends)

\* The closure holds every ancestor of a class that extends something.
Settled(m) ==
  \A edge \in m.extends : \A a \in Ancestors(edge[1], m.extends) :
    <<edge[1], a>> \in m.hierarchy

(* The cycle check reads a closure, not the edges.  As long as the closure is
   complete for every class that extends something, no step closes a cycle,
   however many parents the payload names at once. *)
SettledStaysAcyclic ==
  [][Settled(tables) /\ Acyclic(tables.extends) => Acyclic(tables'.extends)]_tables

(* It is complete until a node without a class row is given parents: class.create
   adds the self row only, so declaring it later hides its ancestors until the
   next class.setExtends. *)
OnlyUndeclaredUnsettles ==
  [][Settled(tables) /\ ~Settled(tables') =>
       \E pair \in tables'.extends : pair[1] \notin tables.registry]_tables
=============================================================================
