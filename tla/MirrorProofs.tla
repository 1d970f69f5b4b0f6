------------------------------ MODULE MirrorProofs ------------------------------
(***************************************************************************)
(* The tables of one mirror, whatever order the envelopes come in.         *)
(*                                                                         *)
(* ClassHierarchy, PropertyDefaults: the closure of class_extends is       *)
(* sound, and while it is complete no step closes a cycle.  The ancestors  *)
(* of a class are the least set closed under the edges, so that a class is *)
(* not an ancestor is shown by a closed set without it.  The three reads   *)
(* of a default agree because a stored one fits its type (SchemaIsValid).  *)
(*                                                                         *)
(* Registers: a pair's row is the newest of what was heard of it, an add   *)
(* at a tie (MemberIsNewest); RefIsNewest is inductive as it stands: a     *)
(* purge drops a live mapping only, and OneRecord says that no tombstone   *)
(* was left beside it.                                                     *)
(*                                                                         *)
(* PropertyValues: a tombstone is the newest of what it stands for         *)
(* (TombsNewest), and a row is some accepted write, every other one being  *)
(* behind it or gone for a tombstone ahead of it (RowsNewest).             *)
(*                                                                         *)
(* QueryMatches: no move makes a loop (NoLoop, as sets of rows closed      *)
(* under parent), so a way up ends at a parentless row, its rows are       *)
(* nested, and some row of every set on it comes first.  The recursive     *)
(* walk is tied to that by the facts of NaturalsProofs.                    *)
(*                                                                         *)
(* Features: a class with a node has a registry row (Registered), so that  *)
(* a derivation writes both bits or neither.                               *)
(***************************************************************************)
EXTENDS PropertyDefaults, Registers, PropertyValues, QueryMatches, Features, NaturalsProofs,
        FiniteSetTheorems, TLAPS

LEMMA AncestorsInClosed ==
  ASSUME NEW c \in Class, NEW extends, NEW S \in SUBSET Class, c \in S, UpClosed(S, extends)
  PROVE  Ancestors(c, extends) \subseteq S
BY DEF Ancestors

LEMMA AncestorsHoldSelf ==
  ASSUME NEW c \in Class, NEW extends
  PROVE  c \in Ancestors(c, extends) /\ Ancestors(c, extends) \in SUBSET Class
BY DEF Ancestors

LEMMA AncestorsAreClosed ==
  ASSUME NEW c \in Class, NEW extends \in SUBSET (Class \X Class)
  PROVE  UpClosed(Ancestors(c, extends), extends)
<1> SUFFICES ASSUME NEW pair \in extends, pair[1] \in Ancestors(c, extends)
             PROVE  pair[2] \in Ancestors(c, extends)
  BY DEF UpClosed
<1>1. pair[2] \in Class
  OBVIOUS
<1>2. \A S \in SUBSET Class : c \in S /\ UpClosed(S, extends) => pair[2] \in S
  BY DEF UpClosed, Ancestors
<1> QED BY <1>1, <1>2 DEF Ancestors

LEMMA AncestorsAreTransitive ==
  ASSUME NEW c \in Class, NEW extends \in SUBSET (Class \X Class),
         NEW d \in Ancestors(c, extends)
  PROVE  Ancestors(d, extends) \subseteq Ancestors(c, extends)
<1> d \in Class /\ Ancestors(c, extends) \in SUBSET Class
  BY AncestorsHoldSelf
<1> QED BY AncestorsAreClosed, AncestorsInClosed

-----------------------------------------------------------------------------
\* What an envelope does to the tables.
LEMMA TablesFacts ==
  ASSUME HierarchyTypeOK
  PROVE  /\ tables.nodes \in SUBSET Class /\ tables.registry \in SUBSET Class
         /\ tables.extends \in SUBSET (Class \X Class)
         /\ tables.hierarchy \in SUBSET (Class \X Class)
BY DEF HierarchyTypeOK, ClassTables

\* A step sets parents, or keeps the edges and lets the closure only grow by self rows.
SetsParents(c, parents) ==
  SetExtendsAllowed(tables, c, parents) /\ tables' = SetExtends(tables, c, parents)

KeepsEdges ==
  /\ tables'.extends = tables.extends
  /\ \E S \in SUBSET Class : tables'.hierarchy = tables.hierarchy \cup {<<c, c>> : c \in S}
  /\ tables' \in ClassTables

LEMMA EdgesKept ==
  ASSUME HierarchyTypeOK, UNCHANGED tables \/ WipeClasses
  PROVE  KeepsEdges
<1>1. tables'.extends = tables.extends /\ tables'.hierarchy = tables.hierarchy
  BY DEF WipeClasses, WipedClasses, HierarchyTypeOK, ClassTables
<1>2. tables' \in ClassTables
  BY DEF WipeClasses, WipedClasses, HierarchyTypeOK, ClassTables
<1>3. tables'.hierarchy = tables.hierarchy \cup {<<c, c>> : c \in {}}
  BY <1>1
<1> QED BY <1>1, <1>2, <1>3 DEF KeepsEdges

LEMMA StepShapes ==
  ASSUME HierarchyTypeOK, [HierarchyNext]_tables
  PROVE  KeepsEdges \/ \E c \in Class, parents \in SUBSET Class : SetsParents(c, parents)
<1>1. CASE UNCHANGED tables \/ WipeClasses
  BY <1>1, EdgesKept
<1>2. ASSUME NEW e \in ClassEnvelope, ReceiveClass(e)
      PROVE  KeepsEdges \/ \E c \in Class, parents \in SUBSET Class : SetsParents(c, parents)
  <2>1. tables' = ApplyClass(tables, e) /\ e.class \in Class
    BY <1>2 DEF ReceiveClass, ClassEnvelope
  <2>2. CASE e.op = "object.create"
    <3>1. tables' = [tables EXCEPT !.nodes = @ \cup {e.class}]
      BY <2>1, <2>2 DEF ApplyClass
    <3>2. tables' \in ClassTables /\ tables'.extends = tables.extends
          /\ tables'.hierarchy = tables.hierarchy \cup {<<c, c>> : c \in {}}
      BY <2>1, <3>1 DEF HierarchyTypeOK, ClassTables
    <3> QED BY <3>2 DEF KeepsEdges
  <2>3. CASE e.op = "class.create"
    <3>1. tables' = DeclareClass(tables, e.class)
      BY <2>1, <2>3 DEF ApplyClass
    <3>2. {<<c, c>> : c \in {e.class}} = {<<e.class, e.class>>}
      OBVIOUS
    <3>3. /\ tables'.nodes = tables.nodes \cup {e.class}
          /\ tables'.registry = tables.registry \cup {e.class}
          /\ tables'.extends = tables.extends
          /\ tables'.hierarchy = tables.hierarchy \cup {<<e.class, e.class>>}
          /\ tables' = [nodes |-> tables'.nodes, registry |-> tables'.registry,
                        extends |-> tables'.extends, hierarchy |-> tables'.hierarchy]
      BY <3>1 DEF DeclareClass, HierarchyTypeOK, ClassTables
    <3>4. tables' \in ClassTables
      BY <2>1, <3>3, TablesFacts DEF ClassTables
    <3>5. {e.class} \in SUBSET Class
      BY <2>1
    <3> QED BY <3>2, <3>3, <3>4, <3>5 DEF KeepsEdges
  <2>4. CASE e.op = "object.delete"
    <3>1. tables' = tables \/ tables' = [tables EXCEPT !.nodes = @ \ {e.class}]
      BY <2>1, <2>4 DEF ApplyClass
    <3>2. tables' \in ClassTables /\ tables'.extends = tables.extends
          /\ tables'.hierarchy = tables.hierarchy \cup {<<c, c>> : c \in {}}
      BY <2>1, <3>1 DEF HierarchyTypeOK, ClassTables
    <3> QED BY <3>2 DEF KeepsEdges
  <2>5. CASE e.op = "class.setExtends"
    <3>1. e.parents \in SUBSET Class
      BY <2>5 DEF ClassEnvelope
    <3>2. tables' = IF SetExtendsAllowed(tables, e.class, e.parents)
                      THEN SetExtends(tables, e.class, e.parents) ELSE tables
      BY <2>1, <2>5 DEF ApplyClass
    <3> QED BY <2>1, <3>1, <3>2, EdgesKept DEF SetsParents
  <2>6. e.op \in {"object.create", "class.create", "object.delete", "class.setExtends"}
    BY DEF ClassEnvelope
  <2> QED BY <2>2, <2>3, <2>4, <2>5, <2>6
<1> QED BY <1>1, <1>2 DEF HierarchyNext

LEMMA SetParentsFacts ==
  ASSUME HierarchyTypeOK, NEW c \in Class, NEW parents \in SUBSET Class, SetsParents(c, parents)
  PROVE  /\ tables'.extends = {pair \in tables.extends : pair[1] # c} \cup ({c} \X parents)
         /\ tables'.hierarchy = RebuildClassHierarchy(tables.registry, tables'.extends)
         /\ tables'.registry = tables.registry
         /\ tables' \in ClassTables
         /\ \A p \in parents : p # c /\ <<p, c>> \notin tables.hierarchy
<1>1. /\ tables'.extends = {pair \in tables.extends : pair[1] # c} \cup ({c} \X parents)
      /\ tables'.hierarchy = RebuildClassHierarchy(tables.registry, tables'.extends)
      /\ tables'.registry = tables.registry /\ tables'.nodes = tables.nodes
      /\ tables' = [nodes |-> tables'.nodes, registry |-> tables'.registry,
                    extends |-> tables'.extends, hierarchy |-> tables'.hierarchy]
  BY DEF SetsParents, SetExtends, HierarchyTypeOK, ClassTables
<1>2. tables'.extends \in SUBSET (Class \X Class)
  BY <1>1, TablesFacts
<1>3. tables'.hierarchy \in SUBSET (Class \X Class)
  BY <1>1, TablesFacts DEF RebuildClassHierarchy
<1>4. tables' \in ClassTables
  BY <1>1, <1>2, <1>3, TablesFacts DEF ClassTables
<1> QED BY <1>1, <1>4 DEF SetsParents, SetExtendsAllowed

-----------------------------------------------------------------------------
LEMMA HierarchyTypeStep == HierarchyTypeOK /\ [HierarchyNext]_tables => HierarchyTypeOK'
  BY StepShapes, SetParentsFacts DEF KeepsEdges, HierarchyTypeOK

LEMMA HierarchyTypeInit == HierarchyInit => HierarchyTypeOK
  BY DEF HierarchyInit, NoClasses, HierarchyTypeOK, ClassTables

(* The four tables keep to the classes the envelopes name. *)
THEOREM HierarchyTyped == HierarchySpec => []HierarchyTypeOK
  BY HierarchyTypeInit, HierarchyTypeStep, PTL DEF HierarchySpec

LEMMA SoundStep ==
  HierarchyTypeOK /\ ClosureSound /\ [HierarchyNext]_tables => ClosureSound'
<1> SUFFICES ASSUME HierarchyTypeOK, ClosureSound, [HierarchyNext]_tables PROVE ClosureSound'
  OBVIOUS
<1>1. CASE KeepsEdges
  BY <1>1, AncestorsHoldSelf DEF KeepsEdges, ClosureSound
<1>2. ASSUME NEW c \in Class, NEW parents \in SUBSET Class, SetsParents(c, parents)
      PROVE  ClosureSound'
  BY <1>2, SetParentsFacts DEF RebuildClassHierarchy, ClosureSound
<1> QED BY <1>1, <1>2, StepShapes

(* Whatever is declared, wiped, replayed or rejected, a row of the closure is an
   ancestor by the edges. *)
THEOREM ClosureIsSound == HierarchySpec => []ClosureSound
<1>1. HierarchyInit => ClosureSound
  BY DEF HierarchyInit, NoClasses, ClosureSound
<1> QED BY <1>1, HierarchyTypeInit, HierarchyTypeStep, SoundStep, PTL DEF HierarchySpec

-----------------------------------------------------------------------------
\* In a complete closure, the cycle check sees every ancestor.
LEMMA CheckSeesAncestors ==
  ASSUME HierarchyTypeOK, Settled(tables), NEW p \in Class, NEW c \in Class,
         p # c, <<p, c>> \notin tables.hierarchy
  PROVE  c \notin Ancestors(p, tables.extends)
<1>1. CASE \E pair \in tables.extends : pair[1] = p
  BY <1>1 DEF Settled
<1>2. CASE \A pair \in tables.extends : pair[1] # p
  <2>1. UpClosed({p}, tables.extends)
    BY <1>2 DEF UpClosed
  <2>2. Ancestors(p, tables.extends) \subseteq {p}
    BY <2>1, AncestorsInClosed
  <2> QED BY <2>2
<1> QED BY <1>1, <1>2

\* New parents that do not reach c close no cycle.
LEMMA NewParentsStayAcyclic ==
  ASSUME NEW old \in SUBSET (Class \X Class), NEW c \in Class, NEW parents \in SUBSET Class,
         Acyclic(old), \A p \in parents : c \notin Ancestors(p, old)
  PROVE  Acyclic({pair \in old : pair[1] # c} \cup ({c} \X parents))
<1> DEFINE new == {pair \in old : pair[1] # c} \cup ({c} \X parents)
<1> SUFFICES ASSUME NEW pair \in new PROVE pair[1] \notin Ancestors(pair[2], new)
  BY DEF Acyclic
<1>1. new \in SUBSET (Class \X Class)
  OBVIOUS
<1>2. pair[1] \in Class /\ pair[2] \in Class
  BY <1>1
<1>3. ASSUME NEW S \in SUBSET Class, UpClosed(S, old), c \notin S
      PROVE  UpClosed(S, new)
  BY <1>3 DEF UpClosed
<1>4. ASSUME NEW y \in Class, c \notin Ancestors(y, old)
      PROVE  Ancestors(y, new) \subseteq Ancestors(y, old)
  <2> DEFINE S == Ancestors(y, old)
  <2>1. S \in SUBSET Class /\ y \in S /\ UpClosed(S, old)
    BY AncestorsHoldSelf, AncestorsAreClosed
  <2> HIDE DEF S, new
  <2>2. UpClosed(S, new)
    BY <1>3, <1>4, <2>1 DEF S
  <2>3. Ancestors(y, new) \subseteq S
    BY <2>1, <2>2, AncestorsInClosed
  <2> QED BY <2>3 DEF S
<1>5. CASE pair \in {c} \X parents
  <2>1. pair[1] = c /\ pair[2] \in parents
    BY <1>5
  <2> HIDE DEF new
  <2> QED BY <1>2, <1>4, <2>1
<1>6. CASE pair \in old /\ pair[1] # c
  <2>1. pair[1] \notin Ancestors(pair[2], old)
    BY <1>6 DEF Acyclic
  <2>2. CASE c \notin Ancestors(pair[2], old)
    <3> HIDE DEF new
    <3> QED BY <1>2, <1>4, <2>1, <2>2
  <2>3. CASE c \in Ancestors(pair[2], old)
    <3> DEFINE S == Ancestors(pair[2], old) \cup UNION {Ancestors(p, old) : p \in parents}
    <3>1. S \in SUBSET Class /\ pair[2] \in S
      BY <1>2, AncestorsHoldSelf
    <3>2. ASSUME NEW p \in parents PROVE pair[1] \notin Ancestors(p, old)
      <4> SUFFICES ASSUME pair[1] \in Ancestors(p, old) PROVE FALSE
        OBVIOUS
      <4>1. UpClosed(Ancestors(p, old), old)
        BY AncestorsAreClosed
      <4>2. pair[2] \in Ancestors(p, old)
        BY <1>6, <4>1 DEF UpClosed
      <4>3. Ancestors(pair[2], old) \subseteq Ancestors(p, old)
        BY <4>2, AncestorsAreTransitive
      <4> QED BY <2>3, <4>3
    <3>3. pair[1] \notin S
      BY <2>1, <3>2
    <3>4. ASSUME NEW link \in new, link[1] \in S PROVE link[2] \in S
      <4>1. CASE link \in {c} \X parents
        <5>1. link[2] \in parents
          BY <4>1
        <5>2. link[2] \in Ancestors(link[2], old)
          BY <5>1, AncestorsHoldSelf
        <5> QED BY <5>1, <5>2
      <4>2. CASE link \in old
        <5>1. CASE link[1] \in Ancestors(pair[2], old)
          <6>1. UpClosed(Ancestors(pair[2], old), old)
            BY <1>2, AncestorsAreClosed
          <6> QED BY <4>2, <5>1, <6>1 DEF UpClosed
        <5>2. ASSUME NEW p \in parents, link[1] \in Ancestors(p, old) PROVE link[2] \in S
          <6>1. UpClosed(Ancestors(p, old), old)
            BY AncestorsAreClosed
          <6>2. link[2] \in Ancestors(p, old)
            BY <4>2, <5>2, <6>1 DEF UpClosed
          <6> QED BY <6>2
        <5> QED BY <3>4, <5>1, <5>2
      <4> QED BY <3>4, <4>1, <4>2
    <3> HIDE DEF S, new
    <3>5. UpClosed(S, new)
      BY <3>4 DEF UpClosed
    <3>6. Ancestors(pair[2], new) \subseteq S
      BY <1>2, <3>1, <3>5, AncestorsInClosed
    <3> QED BY <3>3, <3>6
  <2> QED BY <2>2, <2>3
<1> QED BY <1>5, <1>6

LEMMA AcyclicStep ==
  HierarchyTypeOK /\ [HierarchyNext]_tables =>
    (Settled(tables) /\ Acyclic(tables.extends) => Acyclic(tables'.extends))
<1> SUFFICES ASSUME HierarchyTypeOK, [HierarchyNext]_tables, Settled(tables), Acyclic(tables.extends)
             PROVE  Acyclic(tables'.extends)
  OBVIOUS
<1>1. CASE KeepsEdges
  BY <1>1 DEF KeepsEdges
<1>2. ASSUME NEW c \in Class, NEW parents \in SUBSET Class, SetsParents(c, parents)
      PROVE  Acyclic(tables'.extends)
  <2>1. \A p \in parents : c \notin Ancestors(p, tables.extends)
    BY <1>2, SetParentsFacts, CheckSeesAncestors
  <2>2. tables'.extends = {pair \in tables.extends : pair[1] # c} \cup ({c} \X parents)
    BY <1>2, SetParentsFacts
  <2> DEFINE old == tables.extends
  <2>3. old \in SUBSET (Class \X Class) /\ Acyclic(old)
    BY TablesFacts
  <2>4. \A p \in parents : c \notin Ancestors(p, old)
    BY <2>1
  <2> HIDE DEF old
  <2>5. Acyclic({pair \in old : pair[1] # c} \cup ({c} \X parents))
    BY <2>3, <2>4, NewParentsStayAcyclic
  <2> QED BY <2>2, <2>5 DEF old
<1> QED BY <1>1, <1>2, StepShapes

(* While the closure is complete, the check that reads it lets no cycle through, however
   many parents an envelope names. *)
THEOREM CompleteClosureKeepsAcyclic == HierarchySpec => SettledStaysAcyclic
<1>1. HierarchyTypeOK /\ [HierarchyNext]_tables =>
        [Settled(tables) /\ Acyclic(tables.extends) => Acyclic(tables'.extends)]_tables
  BY AcyclicStep
<1> QED BY <1>1, HierarchyTypeInit, HierarchyTypeStep, PTL DEF HierarchySpec, SettledStaysAcyclic

-----------------------------------------------------------------------------
LEMMA UnsettledStep ==
  HierarchyTypeOK /\ [HierarchyNext]_tables =>
    (Settled(tables) /\ ~Settled(tables') => \E pair \in tables'.extends : pair[1] \notin tables.registry)
<1> SUFFICES ASSUME HierarchyTypeOK, [HierarchyNext]_tables, Settled(tables),
                    \A pair \in tables'.extends : pair[1] \in tables.registry
             PROVE  Settled(tables')
  OBVIOUS
<1>1. CASE KeepsEdges
  BY <1>1 DEF KeepsEdges, Settled
<1>2. ASSUME NEW c \in Class, NEW parents \in SUBSET Class, SetsParents(c, parents)
      PROVE  Settled(tables')
  <2>1. /\ tables'.hierarchy = RebuildClassHierarchy(tables.registry, tables'.extends)
        /\ tables' \in ClassTables
    BY <1>2, SetParentsFacts
  <2> SUFFICES ASSUME NEW pair \in tables'.extends, NEW a \in Ancestors(pair[1], tables'.extends)
               PROVE  <<pair[1], a>> \in tables'.hierarchy
    BY DEF Settled
  <2>2. a \in Class /\ pair[1] \in tables.registry
    BY DEF Ancestors
  <2> QED BY <2>1, <2>2 DEF RebuildClassHierarchy
<1> QED BY <1>1, <1>2, StepShapes

(* The closure loses an ancestor only over a node that has parents and no class row. *)
THEOREM UndeclaredUnsettles == HierarchySpec => OnlyUndeclaredUnsettles
<1>1. HierarchyTypeOK /\ [HierarchyNext]_tables =>
        [Settled(tables) /\ ~Settled(tables') =>
           \E pair \in tables'.extends : pair[1] \notin tables.registry]_tables
  BY UnsettledStep
<1> QED BY <1>1, HierarchyTypeInit, HierarchyTypeStep, PTL DEF HierarchySpec, OnlyUndeclaredUnsettles

-----------------------------------------------------------------------------
(* The default of a stored schema fits its type, and its options matter. *)
SchemaIsValid ==
  schemaRow = NoSchema \/ (schemaRow \in SchemaRow /\ ValidDefault(schemaRow.type, schemaRow.default))

DefaultsInv == SchemaIsValid /\ member \subseteq Class

LEMMA DefaultsInitInv == DefaultsInit => DefaultsInv
BY DEF DefaultsInit, DefaultsInv, SchemaIsValid

LEMMA DefaultsStepInv == DefaultsInv /\ [DefaultsNext]_defaultVars => DefaultsInv'
<1> SUFFICES ASSUME DefaultsInv, [DefaultsNext]_defaultVars PROVE DefaultsInv'
  OBVIOUS
<1>1. CASE schemaRow' = schemaRow
  BY <1>1 DEF DefaultsInv, SchemaIsValid, DefaultsNext, defaultVars, CreateSchema, UpdateSchema, DeleteSchema,
     BindProperty, UnbindProperty, ReclassNode, AuthorValue, ClearValue, ReceiveRegistry, WipeConfig
<1>2. CASE CreateSchema \/ UpdateSchema
  BY <1>2 DEF DefaultsInv, SchemaIsValid, CreateSchema, UpdateSchema
<1>3. CASE DeleteSchema
  <2>1. schemaRow \in SchemaRow /\ ValidDefault(schemaRow.type, schemaRow.default)
    BY <1>3 DEF DeleteSchema, DefaultsInv, SchemaIsValid
  <2>2. schemaRow' \in SchemaRow
    BY <1>3, <2>1 DEF DeleteSchema, SchemaRow
  <2>3. schemaRow'.type = schemaRow.type /\ schemaRow'.default = schemaRow.default
    BY <1>3, <2>1 DEF DeleteSchema, SchemaRow
  <2> QED BY <1>3, <2>1, <2>2, <2>3 DEF DeleteSchema, DefaultsInv, SchemaIsValid
<1>4. schemaRow' = schemaRow \/ CreateSchema \/ UpdateSchema \/ DeleteSchema
  BY DEF DefaultsNext, defaultVars, BindProperty, UnbindProperty, ReclassNode, AuthorValue,
     ClearValue, ReceiveRegistry, WipeConfig
<1> QED BY <1>1, <1>2, <1>3, <1>4

(* The three derivations of a default tell one value wherever none of the stated
   differences shows: the panel's validity tests never refuse what the query takes. *)
LEMMA InvReadsAgree == DefaultsInv => ReadsAgree
<1> SUFFICES ASSUME DefaultsInv, ~(PanelBound /\ ~QueryBound), ~(schemaRow # NoSchema /\ ~EligibleRead),
                    schemaRow.type # "multi_select"
             PROVE  /\ PanelValue = QueryValue
                    /\ AggregateValue # QueryValue => schemaRow.default \notin schemaRow.options
  BY DEF ReadsAgree
<1>1. PanelBound <=> QueryBound
  <2>1. ASSUME NEW c \in member PROVE c \in Reach(member)
    BY AncestorsHoldSelf DEF Reach, DefaultsInv
  <2> QED BY <2>1 DEF PanelBound, QueryBound
<1>2. CASE authored
  BY <1>2 DEF PanelValue, QueryValue, AggregateValue
<1>3. CASE ~authored /\ (schemaRow = NoSchema \/ ~QueryBound)
  BY <1>1, <1>3 DEF PanelValue, QueryValue, AggregateValue, DerivedByQuery
<1>4. CASE ~authored /\ schemaRow # NoSchema /\ QueryBound
  <2>1. /\ schemaRow.type \in {"select", "number"}
        /\ ValidDefault(schemaRow.type, schemaRow.default)
    BY <1>4 DEF DefaultsInv, SchemaIsValid, SchemaRow, PropertyType
  <2>2. PanelValue = IF schemaRow.type = "select" => schemaRow.default \in schemaRow.options
                       THEN schemaRow.default ELSE "null"
    BY <1>1, <1>4, <2>1 DEF PanelValue, ReadsAgree
  <2>3. QueryValue = IF schemaRow.type = "select" => schemaRow.default \in schemaRow.options
                       THEN schemaRow.default ELSE "null"
    BY <1>4, <2>1 DEF QueryValue, DerivedByQuery
  <2>4. AggregateValue = schemaRow.default
    BY <1>4 DEF AggregateValue
  <2> QED BY <2>2, <2>3, <2>4
<1> QED BY <1>2, <1>3, <1>4

(* In every order of schema, binding, class and value envelopes, wipes included, and for
   every set of classes: the panel, a condition and an aggregation tell the same value. *)
THEOREM DefaultReadsAgree == DefaultsSpec => []ReadsAgree
<1>1. DefaultsSpec => []DefaultsInv
  BY DefaultsInitInv, DefaultsStepInv, PTL DEF DefaultsSpec
<1> QED BY <1>1, InvReadsAgree, PTL

-----------------------------------------------------------------------------
(* Registers *)

MemberIsNewest ==
  \A m \in Member :
    /\ \A row \in members[m] :
         /\ row \in memberHeard[m]
         /\ \A e \in memberHeard[m] : e.at <= row.at /\ (e.at = row.at /\ e.present => row.present)
    /\ members[m] = Absent => memberHeard[m] = {}

RegistersInv == RegistersTypeOK /\ MemberIsNewest /\ RefIsNewest

-----------------------------------------------------------------------------
\* A table holds one row at most, and a write of one row keeps it a table.
LEMMA TableRows ==
  ASSUME NEW S, NEW T \in Table(S)
  PROVE  /\ \A a \in T : a \in S
         /\ \A a, b \in T : a = b
         /\ \A a \in T : T = {a}
BY DEF Table, Absent

LEMMA RowIsTable == ASSUME NEW S, NEW a \in S PROVE {a} \in Table(S) /\ Absent \in Table(S)
BY DEF Table

LEMMA StampOrder ==
  /\ \A s, t \in Stamp : s <= t \/ t <= s
  /\ \A s, t, u \in Stamp : s <= t /\ t <= u => s <= u
  /\ \A s, t \in Stamp : s > t <=> (t <= s /\ s # t)
  /\ \A s, t \in Stamp : s <= t /\ t <= s => s = t
  /\ \A s \in Stamp : s <= s
BY RegistersAssumption

-----------------------------------------------------------------------------
LEMMA RegistersInitInv == RegistersInit => RegistersInv
<1> SUFFICES ASSUME RegistersInit PROVE RegistersInv
  OBVIOUS
<1>1. RegistersTypeOK
  BY DEF RegistersInit, RegistersTypeOK, Table
<1>2. MemberIsNewest
  BY DEF RegistersInit, MemberIsNewest, Absent
<1>3. RefIsNewest
  BY DEF RegistersInit, RefIsNewest, OneRecord, Absent
<1> QED BY <1>1, <1>2, <1>3 DEF RegistersInv

(* A write of a pair. *)
LEMMA WriteMemberInv ==
  ASSUME RegistersInv, NEW t \in Stamp, NEW m \in Member, NEW present \in BOOLEAN,
         WriteMember(m, present, t)
  PROVE  RegistersInv'
<1> DEFINE new == [present |-> present, at |-> t]
           lands == \A row \in members[m] : t > row.at \/ (present /\ t = row.at)
<1>1. new \in MemberRow /\ new.present = present /\ new.at = t
  BY DEF MemberRow
<1>2. members \in [Member -> Table(MemberRow)] /\ memberHeard \in [Member -> SUBSET MemberRow]
  BY DEF RegistersInv, RegistersTypeOK
<1>3. /\ members' = [members EXCEPT ![m] = IF lands THEN {new} ELSE @]
      /\ memberHeard' = [memberHeard EXCEPT ![m] = @ \cup {new}]
  BY DEF WriteMember
<1>4. RegistersTypeOK'
  <2>1. {new} \in Table(MemberRow)
    BY <1>1, RowIsTable
  <2>2. members' \in [Member -> Table(MemberRow)]
    BY <1>2, <1>3, <2>1
  <2>3. memberHeard' \in [Member -> SUBSET MemberRow]
    BY <1>1, <1>2, <1>3
  <2> QED BY <2>2, <2>3 DEF RegistersInv, RegistersTypeOK, WriteMember
<1>5. MemberIsNewest'
  <2> SUFFICES ASSUME NEW k \in Member
               PROVE  /\ \A row \in members'[k] :
                           /\ row \in memberHeard'[k]
                           /\ \A e \in memberHeard'[k] :
                                e.at <= row.at /\ (e.at = row.at /\ e.present => row.present)
                      /\ members'[k] = Absent => memberHeard'[k] = {}
    BY DEF MemberIsNewest
  <2>1. CASE k # m
    <3>1. members'[k] = members[k] /\ memberHeard'[k] = memberHeard[k]
      BY <1>2, <1>3, <2>1
    <3> QED BY <3>1 DEF RegistersInv, MemberIsNewest
  <2>2. CASE k = m
    <3>1. /\ members'[m] = IF lands THEN {new} ELSE members[m]
          /\ memberHeard'[m] = memberHeard[m] \cup {new}
      BY <1>2, <1>3
    <3>2. /\ \A row \in members[m] : row \in memberHeard[m] /\ row \in MemberRow
          /\ \A e \in memberHeard[m] : e \in MemberRow
      BY <1>2 DEF RegistersInv, MemberIsNewest
    <3>3. \A row \in members[m], e \in memberHeard[m] :
            e.at <= row.at /\ (e.at = row.at /\ e.present => row.present)
      BY DEF RegistersInv, MemberIsNewest
    <3>4. members[m] = Absent => memberHeard[m] = {}
      BY DEF RegistersInv, MemberIsNewest
    <3>5. \A row \in MemberRow : row.at \in Stamp /\ row.present \in BOOLEAN
      BY DEF MemberRow
    <3>6. CASE lands
      <4>1. \A e \in memberHeard[m] : e.at <= t /\ (e.at = t /\ e.present => present)
        <5> SUFFICES ASSUME NEW e \in memberHeard[m]
                     PROVE  e.at <= t /\ (e.at = t /\ e.present => present)
          OBVIOUS
        <5>1. PICK row \in members[m] : TRUE
          BY <3>4 DEF Absent
        <5>2. e.at \in Stamp /\ row.at \in Stamp
          BY <3>2, <3>5, <5>1
        <5>3. e.at <= row.at /\ (t > row.at \/ (present /\ t = row.at))
          BY <3>3, <3>6, <5>1
        <5>4. e.at <= t
          BY <5>2, <5>3, StampOrder
        <5>5. ASSUME e.at = t PROVE present
          BY <5>2, <5>3, <5>5, StampOrder
        <5> QED BY <5>4, <5>5
      <4>2. members'[m] = {new}
        BY <3>1, <3>6
      <4>3. t <= t
        BY StampOrder
      <4> QED BY <1>1, <2>2, <3>1, <4>1, <4>2, <4>3 DEF Absent
    <3>7. CASE ~lands
      <4>1. PICK old \in members[m] : ~(t > old.at \/ (present /\ t = old.at))
        BY <3>7
      <4>2. members'[m] = {old}
        BY <1>2, <3>1, <3>7, <4>1, TableRows
      <4>3. old \in MemberRow /\ old.at \in Stamp
        BY <3>2, <3>5, <4>1
      <4>4. t <= old.at
        BY <4>1, <4>3, StampOrder
      <4>5. t = old.at => ~present
        BY <4>1
      <4> QED BY <1>1, <2>2, <3>1, <3>2, <3>3, <4>1, <4>2, <4>4, <4>5 DEF Absent
    <3> QED BY <3>6, <3>7
  <2> QED BY <2>1, <2>2
<1>6. RefIsNewest'
  BY DEF RegistersInv, RefIsNewest, OneRecord, Newest, WriteMember
<1> QED BY <1>4, <1>5, <1>6 DEF RegistersInv

(* A set or delete of a ref: the record it leaves if it wins, and what is then newest.
   e is the record heard. *)
LEMMA HeardFacts ==
  ASSUME RegistersInv, NEW r \in Ref, NEW t \in Stamp
  PROVE  /\ \A e \in refHeard[r] : e.at \in Stamp
         /\ \A row \in mapping[r] \cup tombstone[r] :
              row.at \in Stamp /\ \A f \in refHeard[r] : f.at <= row.at
         /\ Wins(r, t) => \A f \in refHeard[r] : f.at <= t
         /\ ~Wins(r, t) => \A row \in mapping[r] \cup tombstone[r] : t <= row.at
         /\ ~Wins(r, t) => mapping[r] \cup tombstone[r] # {}
<1>1. \A e \in refHeard[r] : e.at \in Stamp
  BY DEF RegistersInv, RegistersTypeOK, RefRow
<1>2. ASSUME NEW row \in mapping[r]
      PROVE  row.at \in Stamp /\ \A f \in refHeard[r] : f.at <= row.at
  BY <1>1, <1>2 DEF RegistersInv, RefIsNewest, Newest
<1>3. ASSUME NEW row \in tombstone[r]
      PROVE  row.at \in Stamp /\ \A f \in refHeard[r] : f.at <= row.at
  <2>1. [node |-> Unmapped, at |-> row.at] \in Newest(r)
    BY <1>3 DEF RegistersInv, RefIsNewest
  <2> QED BY <1>1, <2>1 DEF Newest
<1>4. \A row \in mapping[r] \cup tombstone[r] :
        row.at \in Stamp /\ \A f \in refHeard[r] : f.at <= row.at
  BY <1>2, <1>3
<1>5. ASSUME Wins(r, t), NEW f \in refHeard[r] PROVE f.at <= t
  <2>1. PICK row \in mapping[r] \cup tombstone[r] : TRUE
    BY DEF RegistersInv, RefIsNewest
  <2>2. t > row.at /\ f.at <= row.at /\ row.at \in Stamp /\ f.at \in Stamp
    BY <1>1, <1>4, <1>5, <2>1 DEF Wins
  <2> QED BY <2>2, StampOrder
<1>6. ASSUME ~Wins(r, t)
      PROVE  /\ \A row \in mapping[r] \cup tombstone[r] : t <= row.at
             /\ mapping[r] \cup tombstone[r] # {}
  <2>1. PICK old \in mapping[r] \cup tombstone[r] : ~(t > old.at)
    BY <1>6 DEF Wins
  <2>2. \A a, b \in mapping[r] \cup tombstone[r] : a = b
    <3>1. mapping[r] \in Table([node : Object, at : Stamp]) /\ tombstone[r] \in Table([at : Stamp])
      BY DEF RegistersInv, RegistersTypeOK
    <3>2. mapping[r] = {} \/ tombstone[r] = {}
      BY DEF RegistersInv, RefIsNewest, OneRecord, Absent
    <3> QED BY <3>1, <3>2, TableRows
  <2>3. t <= old.at
    BY <1>4, <2>1, StampOrder
  <2> QED BY <2>1, <2>2, <2>3
<1> QED BY <1>1, <1>4, <1>5, <1>6

LEMMA SetRefInv ==
  ASSUME RegistersInv, NEW r \in Ref, NEW n \in Object, NEW t \in Stamp, SetRef(r, n, t)
  PROVE  RegistersInv'
<1> DEFINE new == [node |-> n, at |-> t]
<1>1. /\ mapping \in [Ref -> Table([node : Object, at : Stamp])]
      /\ tombstone \in [Ref -> Table([at : Stamp])]
      /\ refHeard \in [Ref -> SUBSET RefRow]
  BY DEF RegistersInv, RegistersTypeOK
<1>2. new \in [node : Object, at : Stamp] /\ new \in RefRow /\ new.at = t /\ t <= t
  BY StampOrder DEF RefRow
<1>3. refHeard' = [refHeard EXCEPT ![r] = @ \cup {new}]
  BY DEF SetRef
<1>4. CASE Wins(r, t)
  <2>1. mapping' = [mapping EXCEPT ![r] = {new}] /\ tombstone' = [tombstone EXCEPT ![r] = Absent]
    BY <1>4 DEF SetRef
  <2>2. {new} \in Table([node : Object, at : Stamp]) /\ Absent \in Table([at : Stamp])
    BY <1>2, RowIsTable DEF Table
  <2>3. RegistersTypeOK'
    <3>1. mapping' \in [Ref -> Table([node : Object, at : Stamp])]
      BY <1>1, <2>1, <2>2
    <3>2. tombstone' \in [Ref -> Table([at : Stamp])]
      BY <1>1, <2>1, <2>2
    <3>3. refHeard' \in [Ref -> SUBSET RefRow]
      BY <1>1, <1>2, <1>3
    <3> QED BY <3>1, <3>2, <3>3 DEF RegistersInv, RegistersTypeOK, SetRef
  <2>4. RefIsNewest'
    <3> SUFFICES ASSUME NEW k \in Ref
                 PROVE  /\ OneRecord(k)' /\ mapping'[k] \subseteq Newest(k)'
                        /\ \A row \in tombstone'[k] : [node |-> Unmapped, at |-> row.at] \in Newest(k)'
                        /\ refHeard'[k] # {} => mapping'[k] \cup tombstone'[k] # {}
      BY DEF RefIsNewest
    <3>1. CASE k # r
      <4>1. mapping'[k] = mapping[k] /\ tombstone'[k] = tombstone[k] /\ refHeard'[k] = refHeard[k]
        BY <1>1, <1>3, <2>1, <3>1
      <4> QED BY <4>1 DEF RegistersInv, RefIsNewest, OneRecord, Newest
    <3>2. CASE k = r
      <4>1. mapping'[r] = {new} /\ tombstone'[r] = {} /\ refHeard'[r] = refHeard[r] \cup {new}
        BY <1>1, <1>3, <2>1 DEF Absent
      <4>2. \A f \in refHeard'[r] : f.at <= new.at
        BY <1>2, <1>4, <4>1, HeardFacts
      <4>3. new \in Newest(r)'
        BY <4>1, <4>2 DEF Newest
      <4> QED BY <3>2, <4>1, <4>3 DEF OneRecord, Absent
    <3> QED BY <3>1, <3>2
  <2> QED BY <2>3, <2>4 DEF RegistersInv, MemberIsNewest, SetRef
<1>5. CASE ~Wins(r, t)
  <2>1. mapping' = mapping /\ tombstone' = tombstone
    BY <1>5 DEF SetRef
  <2>2. RegistersTypeOK'
    <3>1. refHeard' \in [Ref -> SUBSET RefRow]
      BY <1>1, <1>2, <1>3
    <3> QED BY <2>1, <3>1 DEF RegistersInv, RegistersTypeOK, SetRef
  <2>3. RefIsNewest'
    BY <1>1, <1>2, <1>3, <1>5, <2>1, HeardFacts DEF RegistersInv, RefIsNewest, OneRecord, Newest
  <2> QED BY <2>2, <2>3 DEF RegistersInv, MemberIsNewest, SetRef
<1> QED BY <1>4, <1>5

LEMMA DeleteRefInv ==
  ASSUME RegistersInv, NEW r \in Ref, NEW t \in Stamp, DeleteRef(r, t)
  PROVE  RegistersInv'
<1> DEFINE new == [node |-> Unmapped, at |-> t]
<1>1. /\ mapping \in [Ref -> Table([node : Object, at : Stamp])]
      /\ tombstone \in [Ref -> Table([at : Stamp])]
      /\ refHeard \in [Ref -> SUBSET RefRow]
  BY DEF RegistersInv, RegistersTypeOK
<1>2. new \in RefRow /\ new.at = t /\ t <= t
  BY StampOrder DEF RefRow
<1>3. refHeard' = [refHeard EXCEPT ![r] = @ \cup {new}]
  BY DEF DeleteRef
<1>4. CASE Wins(r, t)
  <2>1. mapping' = [mapping EXCEPT ![r] = Absent] /\ tombstone' = [tombstone EXCEPT ![r] = {[at |-> t]}]
    BY <1>4 DEF DeleteRef
  <2>2. {[at |-> t]} \in Table([at : Stamp]) /\ Absent \in Table([node : Object, at : Stamp])
    BY DEF Table
  <2>3. RegistersTypeOK'
    <3>1. mapping' \in [Ref -> Table([node : Object, at : Stamp])]
      BY <1>1, <2>1, <2>2
    <3>2. tombstone' \in [Ref -> Table([at : Stamp])]
      BY <1>1, <2>1, <2>2
    <3>3. refHeard' \in [Ref -> SUBSET RefRow]
      BY <1>1, <1>2, <1>3
    <3> QED BY <3>1, <3>2, <3>3 DEF RegistersInv, RegistersTypeOK, DeleteRef
  <2>4. RefIsNewest'
    <3> SUFFICES ASSUME NEW k \in Ref
                 PROVE  /\ OneRecord(k)' /\ mapping'[k] \subseteq Newest(k)'
                        /\ \A row \in tombstone'[k] : [node |-> Unmapped, at |-> row.at] \in Newest(k)'
                        /\ refHeard'[k] # {} => mapping'[k] \cup tombstone'[k] # {}
      BY DEF RefIsNewest
    <3>1. CASE k # r
      <4>1. mapping'[k] = mapping[k] /\ tombstone'[k] = tombstone[k] /\ refHeard'[k] = refHeard[k]
        BY <1>1, <1>3, <2>1, <3>1
      <4> QED BY <4>1 DEF RegistersInv, RefIsNewest, OneRecord, Newest
    <3>2. CASE k = r
      <4>1. /\ mapping'[r] = {} /\ tombstone'[r] = {[at |-> t]}
            /\ refHeard'[r] = refHeard[r] \cup {new}
        BY <1>1, <1>3, <2>1 DEF Absent
      <4>2. \A f \in refHeard'[r] : f.at <= new.at
        BY <1>2, <1>4, <4>1, HeardFacts
      <4>3. new \in Newest(r)'
        BY <4>1, <4>2 DEF Newest
      <4>4. \A row \in tombstone'[r] : [node |-> Unmapped, at |-> row.at] = new
        BY <4>1
      <4> QED BY <3>2, <4>1, <4>3, <4>4 DEF OneRecord, Absent
    <3> QED BY <3>1, <3>2
  <2> QED BY <2>3, <2>4 DEF RegistersInv, MemberIsNewest, DeleteRef
<1>5. CASE ~Wins(r, t)
  <2>1. mapping' = mapping /\ tombstone' = tombstone
    BY <1>5 DEF DeleteRef
  <2>2. RegistersTypeOK'
    <3>1. refHeard' \in [Ref -> SUBSET RefRow]
      BY <1>1, <1>2, <1>3
    <3> QED BY <2>1, <3>1 DEF RegistersInv, RegistersTypeOK, DeleteRef
  <2>3. RefIsNewest'
    BY <1>1, <1>2, <1>3, <1>5, <2>1, HeardFacts DEF RegistersInv, RefIsNewest, OneRecord, Newest
  <2> QED BY <2>2, <2>3 DEF RegistersInv, MemberIsNewest, DeleteRef
<1> QED BY <1>4, <1>5

LEMMA PurgeInv == ASSUME RegistersInv, NEW n \in Object, PurgeObject(n) PROVE RegistersInv'
<1> DEFINE mapped(r) == \E row \in mapping[r] : row.node = n
           about(m) == n \in {m[1], m[2]}
<1>1. /\ mapping' = [r \in Ref |-> IF mapped(r) THEN Absent ELSE mapping[r]]
      /\ refHeard' = [r \in Ref |-> IF mapped(r) THEN {} ELSE refHeard[r]]
      /\ members' = [m \in Member |-> IF about(m) THEN Absent ELSE members[m]]
      /\ memberHeard' = [m \in Member |-> IF about(m) THEN {} ELSE memberHeard[m]]
      /\ tombstone' = tombstone
  BY DEF PurgeObject
<1> HIDE DEF mapped, about
<1>2. RegistersTypeOK'
  <2>1. mapping' \in [Ref -> Table([node : Object, at : Stamp])]
    BY <1>1 DEF RegistersInv, RegistersTypeOK, Table
  <2>2. members' \in [Member -> Table(MemberRow)]
    BY <1>1 DEF RegistersInv, RegistersTypeOK, Table
  <2>3. refHeard' \in [Ref -> SUBSET RefRow] /\ memberHeard' \in [Member -> SUBSET MemberRow]
    BY <1>1 DEF RegistersInv, RegistersTypeOK
  <2> QED BY <1>1, <2>1, <2>2, <2>3 DEF RegistersInv, RegistersTypeOK
<1>3. MemberIsNewest'
  BY <1>1 DEF RegistersInv, MemberIsNewest, Absent
<1>4. RefIsNewest'
  <2> SUFFICES ASSUME NEW k \in Ref
               PROVE  /\ OneRecord(k)' /\ mapping'[k] \subseteq Newest(k)'
                      /\ \A row \in tombstone'[k] : [node |-> Unmapped, at |-> row.at] \in Newest(k)'
                      /\ refHeard'[k] # {} => mapping'[k] \cup tombstone'[k] # {}
    BY DEF RefIsNewest
  <2>1. CASE mapped(k)
    <3>1. tombstone[k] = {}
      BY <2>1 DEF mapped, RegistersInv, RefIsNewest, OneRecord, Absent
    <3> QED BY <1>1, <2>1, <3>1 DEF OneRecord, Absent
  <2>2. CASE ~mapped(k)
    <3>1. mapping'[k] = mapping[k] /\ refHeard'[k] = refHeard[k]
      BY <1>1, <2>2
    <3> QED BY <1>1, <3>1 DEF RegistersInv, RefIsNewest, OneRecord, Newest
  <2> QED BY <2>1, <2>2
<1> QED BY <1>2, <1>3, <1>4 DEF RegistersInv

LEMMA RegistersStepInv == RegistersInv /\ [RegistersNext]_registerVars => RegistersInv'
<1> SUFFICES ASSUME RegistersInv, [RegistersNext]_registerVars PROVE RegistersInv'
  OBVIOUS
<1>1. CASE UNCHANGED registerVars
  BY <1>1 DEF registerVars, RegistersInv, RegistersTypeOK, MemberIsNewest, RefIsNewest, OneRecord, Newest
<1>2. CASE RegistersNext
  BY <1>2, WriteMemberInv, SetRefInv, DeleteRefInv, PurgeInv DEF RegistersNext
<1> QED BY <1>1, <1>2

\* The newest row decides what an add that no remove beats decides.
LEMMA NewestDecides == RegistersInv => AddsWin
<1> SUFFICES ASSUME RegistersInv, NEW m \in Member
             PROVE  (\E row \in members[m] : row.present)
                      <=> (\E add \in memberHeard[m] :
                             add.present /\ \A e \in memberHeard[m] : e.present \/ e.at <= add.at)
  BY DEF AddsWin
<1>1. \A e \in memberHeard[m] : e.at \in Stamp
  BY DEF RegistersInv, RegistersTypeOK, MemberRow
<1>2. ASSUME NEW row \in members[m], row.present
      PROVE  \E add \in memberHeard[m] : add.present /\ \A e \in memberHeard[m] : e.present \/ e.at <= add.at
  BY <1>2 DEF RegistersInv, MemberIsNewest
<1>3. ASSUME NEW add \in memberHeard[m], add.present, \A e \in memberHeard[m] : e.present \/ e.at <= add.at
      PROVE  \E row \in members[m] : row.present
  <2>1. PICK row \in members[m] : row \in memberHeard[m]
    BY DEF RegistersInv, MemberIsNewest, Absent
  <2>2. add.at <= row.at /\ (add.at = row.at => row.present)
    BY <1>3, <2>1 DEF RegistersInv, MemberIsNewest
  <2>3. CASE ~row.present
    <3>1. row.at <= add.at
      BY <1>3, <2>1, <2>3
    <3> QED BY <1>1, <2>1, <2>2, <2>3, <3>1, StampOrder
  <2> QED BY <2>1, <2>3
<1> QED BY <1>2, <1>3

(* At most one row per key, in every table. *)
THEOREM RegistersTyped == RegistersSpec => []RegistersTypeOK
<1>1. RegistersInv => RegistersTypeOK BY DEF RegistersInv
<1> QED BY <1>1, RegistersInitInv, RegistersStepInv, PTL DEF RegistersSpec

(* Memberships and mappings depend on what was heard of them and not on its order,
   ties, tombstones and purges included. *)
THEOREM NewestAlwaysStands == RegistersSpec => []NewestStands
<1>1. RegistersInv => NewestStands BY NewestDecides DEF RegistersInv, NewestStands
<1> QED BY <1>1, RegistersInitInv, RegistersStepInv, PTL DEF RegistersSpec

-----------------------------------------------------------------------------
Tombs == Stamps \cup {NoStamp}

ValuesTypeOK ==
  /\ valueRows \in [RowId -> [stamp : Tombs, idx : Idx, value : Value]]
  /\ slotTomb \in [Position -> Tombs]
  /\ elementTomb \in [RowId -> Tombs]
  /\ carries \in BOOLEAN /\ carrier \in BOOLEAN
  /\ arrived \subseteq ValueEnvelope /\ refused \subseteq arrived

\* No two envelopes share a stamp.
StampedApart == \A d, e \in arrived : d.stamp = e.stamp => d = e

Removes(id) == {d \in arrived : d.op = "element.remove" /\ d.row = id}
Unsets(p) == {d \in arrived : d.op = "property.unset" /\ d.row = p}

\* A tombstone carries the newest stamp of what it stands for.
NewestOf(tomb, ds) ==
  /\ \A d \in ds : ~Beats(d.stamp, tomb)
  /\ tomb = NoStamp \/ \E d \in ds : d.stamp = tomb
TombsNewest ==
  /\ \A id \in RowId : NewestOf(elementTomb[id], Removes(id))
  /\ \A p \in Position : NewestOf(slotTomb[p], Unsets(p))

(* Why a write may have left no row: a newer remove of the element, or, for a row
   addressed by its position, an unset it is not ahead of. *)
Gone(e) ==
  \/ \E d \in Removes(e.row) : Newer(d.stamp, e.stamp)
  \/ e.row \in Position /\ \E d \in Unsets(e.row) : ~Beats(e.stamp, d.stamp)

RowOf(e) == [stamp |-> e.stamp, idx |-> IdxOf(e), value |-> e.value]

\* A row is some write's, and every other write is behind it or gone.
RowsNewest ==
  \A id \in RowId :
    /\ valueRows[id] # NoRow => \E e \in Writes(id) : valueRows[id] = RowOf(e)
    /\ \A e \in Writes(id) : Gone(e) \/ (valueRows[id] # NoRow /\ ~Beats(e.stamp, valueRows[id].stamp))

ValuesInv == ValuesTypeOK /\ StampedApart /\ TombsNewest /\ RowsNewest

-----------------------------------------------------------------------------
\* Beats is a strict total order of the stamps, and Newer is coarser.
LEMMA BeatsOrder ==
  /\ \A s, t \in Tombs : Beats(s, t) \/ Beats(t, s) \/ s = t
  /\ \A s, t \in Tombs : Beats(s, t) => ~Beats(t, s)
  /\ \A s, t, u \in Tombs : Beats(s, t) /\ ~Beats(u, t) => Beats(s, u)
  /\ \A s, t, u \in Tombs : ~Beats(s, t) /\ ~Beats(t, u) => ~Beats(s, u)
  /\ \A s, t, u \in Tombs : Newer(s, t) /\ ~Beats(u, t) => Newer(s, u)
  /\ \A s, t, u \in Tombs : Newer(s, t) /\ ~Beats(s, u) => Newer(u, t)
  /\ \A s \in Stamps : Beats(s, NoStamp) /\ ~Newer(NoStamp, s)
<1>1. \A s \in Tombs : s[1] \in Nat /\ s[2] \in Nat /\ s = <<s[1], s[2]>>
  BY ValuesAssumption DEF Tombs, NoStamp
<1>2. \A s \in Stamps : s \in Tombs /\ s # NoStamp
  BY ValuesAssumption DEF Tombs, NoStamp
<1>3. NoStamp[1] = 0 /\ NoStamp[2] = 0 /\ NoStamp = <<0, 0>>
  BY DEF NoStamp
<1>4. \A s, t \in Tombs : s[1] = t[1] /\ s[2] = t[2] => s = t
  BY <1>1
<1> QED BY <1>1, <1>2, <1>3, <1>4 DEF Beats, Newer

LEMMA EnvelopeFacts ==
  ASSUME NEW e \in ValueEnvelope
  PROVE  /\ e.stamp \in Stamps /\ e.stamp \in Tombs /\ e.stamp # NoStamp
         /\ e.row \in RowId /\ (e.op = "property.unset" => e.row \in Position)
         /\ e.op = "property.set" => /\ e.value \in Value /\ IdxOf(e) \in Idx /\ RowOf(e) # NoRow
                                     /\ RowOf(e) \in [stamp : Tombs, idx : Idx, value : Value]
         /\ e.row \in Position => /\ e.row \notin Element /\ e.row = <<SchemaOf(e.row), e.row[2]>>
                                  /\ IdxOf(e) = e.row[2]
         /\ e.op = "property.set" => <<SchemaOf(e.row), IdxOf(e)>> \in Position
<1>1. e.stamp \in Stamps /\ e.row \in RowId /\ (e.op = "property.unset" => e.row \in Position)
  BY DEF ValueEnvelope, RowId
<1>2. e.stamp \in Tombs /\ e.stamp # NoStamp
  BY <1>1, ValuesAssumption DEF Tombs, NoStamp
<1>3. e.row \in Position => /\ e.row \notin Element /\ e.row = <<SchemaOf(e.row), e.row[2]>>
                            /\ IdxOf(e) = e.row[2] /\ e.row[2] \in Idx
  BY ValuesAssumption DEF Position, SchemaOf, IdxOf
<1>4. ASSUME e.op = "property.set"
      PROVE  e.value \in Value /\ IdxOf(e) \in Idx /\ <<SchemaOf(e.row), IdxOf(e)>> \in Position
  <2>1. e.value \in Value
    BY <1>4 DEF ValueEnvelope
  <2>2. CASE e.row \in Position
    BY <1>3, <2>1, <2>2
  <2>3. CASE e.row \in Element
    <3>1. e.row \notin Position
      BY <2>3, ValuesAssumption DEF Position
    <3>2. e.idx \in Idx
      BY <1>4, <3>1 DEF ValueEnvelope
    <3> QED BY <2>1, <2>3, <3>2, ValuesAssumption DEF IdxOf, SchemaOf, Position
  <2> QED BY <1>1, <2>2, <2>3 DEF RowId
<1>5. e.op = "property.set" => RowOf(e) # NoRow /\ RowOf(e) \in [stamp : Tombs, idx : Idx, value : Value]
  <2> SUFFICES ASSUME e.op = "property.set"
               PROVE  RowOf(e) # NoRow /\ RowOf(e) \in [stamp : Tombs, idx : Idx, value : Value]
    OBVIOUS
  <2>1. RowOf(e).stamp = e.stamp /\ NoRow.stamp = NoStamp
    BY DEF RowOf, NoRow
  <2>2. RowOf(e) \in [stamp : Tombs, idx : Idx, value : Value]
    BY <1>2, <1>4 DEF RowOf
  <2> QED BY <1>2, <2>1, <2>2
<1> QED BY <1>1, <1>2, <1>3, <1>4, <1>5

\* What a tombstone says of a stamp is what the envelopes it stands for say.
LEMMA TombSays ==
  ASSUME NEW tomb \in Tombs, NEW ds \in SUBSET ValueEnvelope, NewestOf(tomb, ds), NEW s \in Stamps
  PROVE  /\ Newer(tomb, s) <=> \E d \in ds : Newer(d.stamp, s)
         /\ (tomb # NoStamp /\ ~Beats(s, tomb)) <=> \E d \in ds : ~Beats(s, d.stamp)
<1>1. \A d \in ds : d.stamp \in Stamps /\ d.stamp \in Tombs /\ d.stamp # NoStamp
  BY EnvelopeFacts
<1>2. s \in Tombs
  BY DEF Tombs
<1>3. ASSUME Newer(tomb, s) PROVE \E d \in ds : Newer(d.stamp, s)
  BY <1>3, BeatsOrder DEF NewestOf
<1>4. ASSUME NEW d \in ds, Newer(d.stamp, s) PROVE Newer(tomb, s)
  BY <1>1, <1>2, <1>4, BeatsOrder DEF NewestOf
<1>5. ASSUME tomb # NoStamp, ~Beats(s, tomb) PROVE \E d \in ds : ~Beats(s, d.stamp)
  BY <1>5 DEF NewestOf
<1>6. ASSUME NEW d \in ds, ~Beats(s, d.stamp) PROVE tomb # NoStamp /\ ~Beats(s, tomb)
  <2>1. ~Beats(d.stamp, tomb) /\ Beats(d.stamp, NoStamp)
    BY <1>1, BeatsOrder DEF NewestOf
  <2> QED BY <1>1, <1>2, <1>6, <2>1, BeatsOrder
<1> QED BY <1>3, <1>4, <1>5, <1>6

LEMMA WriteFacts ==
  ASSUME ValuesTypeOK, NEW id \in RowId, NEW e \in Writes(id)
  PROVE  e \in ValueEnvelope /\ e.row = id /\ e.op = "property.set" /\ e \in arrived
  BY DEF ValuesTypeOK, Writes

\* A write behind one that is gone is gone too.
LEMMA GoneBelow ==
  ASSUME ValuesTypeOK, NEW id \in RowId, NEW e \in Writes(id), NEW f \in Writes(id),
         Gone(e), ~Beats(f.stamp, e.stamp)
  PROVE  Gone(f)
<1>1. /\ e.row = id /\ f.row = id /\ e.stamp \in Tombs /\ f.stamp \in Tombs
  BY WriteFacts, EnvelopeFacts
<1>2. \A d \in arrived : d.stamp \in Tombs
  BY EnvelopeFacts DEF ValuesTypeOK
<1>3. ASSUME NEW d \in Removes(id), Newer(d.stamp, e.stamp) PROVE Newer(d.stamp, f.stamp)
  BY <1>1, <1>2, <1>3, BeatsOrder DEF Removes
<1>4. ASSUME NEW d \in Unsets(id), ~Beats(e.stamp, d.stamp) PROVE ~Beats(f.stamp, d.stamp)
  BY <1>1, <1>2, <1>4, BeatsOrder DEF Unsets
<1> QED BY <1>1, <1>3, <1>4 DEF Gone

-----------------------------------------------------------------------------
LEMMA ValuesInitInv == ValuesInit => ValuesInv
<1> SUFFICES ASSUME ValuesInit PROVE ValuesInv
  OBVIOUS
<1>1. NoRow \in [stamp : Tombs, idx : Idx, value : Value]
  BY ValuesAssumption DEF NoRow, Tombs, Value
<1>2. ValuesTypeOK
  BY <1>1 DEF ValuesInit, ValuesTypeOK, Tombs
<1>3. TombsNewest
  BY DEF ValuesInit, TombsNewest, NewestOf, Removes, Unsets
<1>4. RowsNewest
  BY DEF ValuesInit, RowsNewest, Writes
<1> QED BY <1>2, <1>3, <1>4 DEF ValuesInv, ValuesInit, StampedApart

\* A write that stays gone when more arrives.
LEMMA GoneStays ==
  ASSUME ValuesTypeOK, arrived \subseteq arrived', NEW e, Gone(e)
  PROVE  Gone(e)'
  BY DEF Gone, Removes, Unsets

\* What arrives keeps the tombstones that it is no unset or remove of.
LEMMA TombKept ==
  ASSUME NEW tomb \in Tombs, NEW ds \in SUBSET ValueEnvelope, NewestOf(tomb, ds),
         NEW e \in ValueEnvelope
  PROVE  NewestOf(IF Beats(e.stamp, tomb) THEN e.stamp ELSE tomb, ds \cup {e})
<1>1. e.stamp \in Tombs /\ \A d \in ds : d.stamp \in Tombs
  BY EnvelopeFacts
<1>2. CASE Beats(e.stamp, tomb)
  <2>1. \A d \in ds \cup {e} : ~Beats(d.stamp, e.stamp)
    BY <1>1, <1>2, BeatsOrder DEF NewestOf
  <2> QED BY <1>2, <2>1 DEF NewestOf
<1>3. CASE ~Beats(e.stamp, tomb)
  BY <1>1, <1>3 DEF NewestOf
<1> QED BY <1>2, <1>3

-----------------------------------------------------------------------------
(* A delivery keeps the order of the rows when each row that changes is the envelope's,
   ahead of what stood there, or dropped for a tombstone ahead of it. *)
LEMMA DeliveredInv ==
  ASSUME ValuesInv, ValuesTypeOK', NEW e \in ValueEnvelope, e \notin arrived, arrived' = arrived \cup {e},
         \A d \in arrived : d.stamp # e.stamp,
         refused' \subseteq refused \cup {e}, refused \subseteq refused',
         TombsNewest',
         \A id \in RowId : id # e.row => valueRows'[id] = valueRows[id],
         e \in Writes(e.row)' =>
           \/ Gone(e)' /\ valueRows' = valueRows
           \/ /\ valueRows[e.row] = NoRow \/ Beats(e.stamp, valueRows[e.row].stamp)
              /\ valueRows'[e.row] = RowOf(e)
           \/ /\ valueRows[e.row] # NoRow /\ ~Beats(e.stamp, valueRows[e.row].stamp)
              /\ valueRows' = valueRows,
         e \notin Writes(e.row)' =>
           \/ valueRows' = valueRows
           \/ /\ valueRows'[e.row] = NoRow
              /\ \A f \in Writes(e.row) : ~Beats(f.stamp, valueRows[e.row].stamp) => Gone(f)'
  PROVE  ValuesInv'
<1> USE DEF ValuesInv
<1>1. StampedApart'
  BY DEF StampedApart
<1>2. \A id \in RowId : \A f \in Writes(id)' : (f = e /\ e.row = id) \/ f \in Writes(id)
  BY DEF Writes
<1>3. \A id \in RowId : \A f \in Writes(id) : f \in Writes(id)'
  BY DEF Writes
<1>4. \A id \in RowId : \A f \in Writes(id) : Gone(f) => Gone(f)'
  BY GoneStays
<1>5. RowsNewest'
  <2> SUFFICES ASSUME NEW id \in RowId
               PROVE  /\ valueRows'[id] # NoRow => \E f \in Writes(id)' : valueRows'[id] = RowOf(f)
                      /\ \A f \in Writes(id)' :
                           Gone(f)' \/ (valueRows'[id] # NoRow /\ ~Beats(f.stamp, valueRows'[id].stamp))
    BY DEF RowsNewest, RowOf, IdxOf
  <2>1. /\ valueRows[id] # NoRow => \E f \in Writes(id) : valueRows[id] = RowOf(f)
        /\ \A f \in Writes(id) : Gone(f) \/ (valueRows[id] # NoRow /\ ~Beats(f.stamp, valueRows[id].stamp))
    BY DEF RowsNewest
  <2>2. CASE valueRows'[id] = valueRows[id] /\ e \notin Writes(id)'
    BY <1>2, <1>3, <1>4, <2>1, <2>2
  <2>3. CASE e \in Writes(id)'
    <3>1. e.row = id /\ e.op = "property.set"
      BY <2>3 DEF Writes
    <3>2. CASE /\ valueRows[id] = NoRow \/ Beats(e.stamp, valueRows[id].stamp)
               /\ valueRows'[id] = RowOf(e)
      <4>1. valueRows'[id] # NoRow /\ valueRows'[id].stamp = e.stamp
        <5>1. RowOf(e) # NoRow
          BY <3>1, EnvelopeFacts
        <5>2. RowOf(e).stamp = e.stamp
          BY DEF RowOf
        <5> QED BY <3>2, <5>1, <5>2
      <4>2. ASSUME NEW f \in Writes(id) PROVE Gone(f)' \/ ~Beats(f.stamp, e.stamp)
        <5>1. f.stamp \in Tombs /\ e.stamp \in Tombs
          BY WriteFacts, EnvelopeFacts
        <5>2. valueRows[id].stamp \in Tombs
          BY DEF ValuesTypeOK
        <5> QED BY <1>4, <2>1, <3>2, <5>1, <5>2, BeatsOrder
      <4>3. ~Beats(e.stamp, e.stamp)
        BY EnvelopeFacts, BeatsOrder
      <4> QED BY <1>2, <2>3, <3>2, <4>1, <4>2, <4>3
    <3>3. CASE valueRows' = valueRows
                 /\ (Gone(e)' \/ (valueRows[id] # NoRow /\ ~Beats(e.stamp, valueRows[id].stamp)))
      BY <1>2, <1>3, <1>4, <2>1, <3>3
    <3> QED BY <2>3, <3>1, <3>2, <3>3
  <2>4. CASE e \notin Writes(id)' /\ id = e.row /\ valueRows'[id] = NoRow /\ valueRows' # valueRows
    BY <1>2, <1>4, <2>1, <2>4
  <2>5. id # e.row => e \notin Writes(id)'
    BY DEF Writes
  <2> QED BY <2>2, <2>3, <2>4, <2>5
<1> QED BY <1>1, <1>5

LEMMA SetInv ==
  ASSUME ValuesInv, NEW e \in ValueEnvelope \ arrived, DeliverValue(e), PropertySet(e)
  PROVE  ValuesInv'
<1> USE DEF ValuesInv
<1>1. /\ arrived' = arrived \cup {e} /\ e.op = "property.set" /\ e.row \in RowId
      /\ UNCHANGED <<slotTomb, elementTomb, carrier, carries>>
      /\ \A d \in arrived : d.stamp # e.stamp
  BY EnvelopeFacts DEF DeliverValue, PropertySet
<1>2. \/ refused' = refused \cup {e} /\ valueRows' = valueRows
      \/ refused' = refused /\ valueRows' = valueRows
         /\ ((e.row \in Element /\ AddBlocked(e)) \/ (e.row \in Position /\ SetBlocked(e)))
      \/ refused' = refused /\ valueRows' = WriteValue(e)
  BY <1>1 DEF PropertySet, RowId
<1>3. ValuesTypeOK'
  <2>1. WriteValue(e) \in [RowId -> [stamp : Tombs, idx : Idx, value : Value]]
    <3>1. RowOf(e) \in [stamp : Tombs, idx : Idx, value : Value]
      BY <1>1, EnvelopeFacts
    <3>2. WriteValue(e) = [valueRows EXCEPT ![e.row] = RowOf(e)] \/ WriteValue(e) = valueRows
      BY DEF WriteValue, RowOf
    <3> QED BY <1>1, <3>1, <3>2 DEF ValuesTypeOK
  <2> QED BY <1>1, <1>2, <2>1 DEF ValuesTypeOK
<1>4. /\ \A id \in RowId : Removes(id)' = Removes(id)
      /\ \A p \in Position : Unsets(p)' = Unsets(p)
  BY <1>1 DEF Removes, Unsets
<1>5. TombsNewest'
  BY <1>1, <1>4 DEF TombsNewest, NewestOf
<1>6. ASSUME refused' = refused, e.row \in Element, AddBlocked(e) PROVE Gone(e)
  <2>1. elementTomb[e.row] \in Tombs /\ Removes(e.row) \in SUBSET ValueEnvelope /\ e.stamp \in Stamps
    BY <1>1, EnvelopeFacts DEF ValuesTypeOK, Removes
  <2> QED BY <1>1, <1>6, <2>1, TombSays DEF AddBlocked, TombsNewest, Gone
<1>7. ASSUME refused' = refused, e.row \in Position, SetBlocked(e) PROVE Gone(e)
  <2>1. slotTomb[e.row] \in Tombs /\ Unsets(e.row) \in SUBSET ValueEnvelope /\ e.stamp \in Stamps
    BY <1>1, <1>7, EnvelopeFacts DEF ValuesTypeOK, Unsets
  <2> QED BY <1>1, <1>7, <2>1, TombSays DEF SetBlocked, TombsNewest, Gone
<1>8. Gone(e) => Gone(e)'
  BY <1>1, GoneStays
<1>9. CASE valueRows' = WriteValue(e) /\ refused' = refused
  <2>1. \/ valueRows' = valueRows /\ valueRows[e.row] # NoRow /\ ~Beats(e.stamp, valueRows[e.row].stamp)
        \/ /\ valueRows[e.row] = NoRow \/ Beats(e.stamp, valueRows[e.row].stamp)
           /\ valueRows' = [valueRows EXCEPT ![e.row] = RowOf(e)]
    BY <1>9 DEF WriteValue, RowOf
  <2>2. \A id \in RowId : id # e.row => valueRows'[id] = valueRows[id]
    BY <1>1, <2>1 DEF ValuesTypeOK
  <2>3. e \in Writes(e.row)'
    BY <1>1, <1>9 DEF Writes, ValuesTypeOK
  <2>4. CASE valueRows' = [valueRows EXCEPT ![e.row] = RowOf(e)]
    <3>1. valueRows'[e.row] = RowOf(e)
      BY <1>1, <2>4 DEF ValuesTypeOK
    <3> QED BY <1>1, <1>3, <1>5, <1>9, <2>1, <2>2, <2>3, <3>1, DeliveredInv
  <2> QED BY <1>1, <1>3, <1>5, <1>9, <2>1, <2>2, <2>3, <2>4, DeliveredInv
<1>10. CASE valueRows' = valueRows /\ refused' = refused \cup {e}
  <2>1. e \notin Writes(e.row)'
    BY <1>10 DEF Writes
  <2> QED BY <1>1, <1>3, <1>5, <1>10, <2>1, DeliveredInv
<1>11. CASE valueRows' = valueRows /\ refused' = refused /\ Gone(e)
  <2>1. e \in Writes(e.row)'
    BY <1>1, <1>11 DEF Writes, ValuesTypeOK
  <2> QED BY <1>1, <1>3, <1>5, <1>8, <1>11, <2>1, DeliveredInv
<1> QED BY <1>2, <1>6, <1>7, <1>9, <1>10, <1>11

LEMMA TombstoneInv ==
  ASSUME ValuesInv, NEW e \in ValueEnvelope \ arrived, DeliverValue(e),
         PositionalUnset(e) \/ ElementRemove(e)
  PROVE  ValuesInv'
<1> USE DEF ValuesInv
<1>1. /\ arrived' = arrived \cup {e} /\ e.row \in RowId /\ e.op # "property.set"
      /\ e.stamp \in Tombs /\ (e.op = "property.unset" => e.row \in Position)
      /\ UNCHANGED <<carries, refused>>
      /\ \A d \in arrived : d.stamp # e.stamp
  BY EnvelopeFacts DEF DeliverValue, PositionalUnset, ElementRemove
<1>2. \/ valueRows' = valueRows /\ carrier' = carrier
      \/ /\ valueRows' = [valueRows EXCEPT ![e.row] = NoRow] /\ carrier' \in BOOLEAN
         /\ \/ e.op = "property.unset" /\ Beats(e.stamp, valueRows[e.row].stamp)
            \/ e.op = "element.remove" /\ Newer(e.stamp, valueRows[e.row].stamp)
  BY DEF PositionalUnset, ElementRemove, KeepRows, DeleteRow, TrashCarrierIfOrphaned, ValuesTypeOK
<1>3. /\ slotTomb' = IF e.op = "property.unset"
                     THEN [slotTomb EXCEPT ![e.row] = IF Beats(e.stamp, @) THEN e.stamp ELSE @] ELSE slotTomb
      /\ elementTomb' = IF e.op = "element.remove"
                        THEN [elementTomb EXCEPT ![e.row] = IF Beats(e.stamp, @) THEN e.stamp ELSE @]
                        ELSE elementTomb
      /\ e.op \in {"property.unset", "element.remove"}
  BY DEF PositionalUnset, ElementRemove
<1>4. ValuesTypeOK'
  <2>1. NoRow \in [stamp : Tombs, idx : Idx, value : Value]
    BY ValuesAssumption DEF NoRow, Tombs, Value
  <2>2. valueRows' \in [RowId -> [stamp : Tombs, idx : Idx, value : Value]] /\ carrier' \in BOOLEAN
    BY <1>2, <2>1 DEF ValuesTypeOK
  <2>3. slotTomb' \in [Position -> Tombs] /\ elementTomb' \in [RowId -> Tombs]
    BY <1>1, <1>3 DEF ValuesTypeOK
  <2> QED BY <1>1, <2>2, <2>3 DEF ValuesTypeOK
<1>5. TombsNewest'
  <2>1. ASSUME NEW id \in RowId PROVE NewestOf(elementTomb'[id], Removes(id)')
    <3>1. elementTomb[id] \in Tombs /\ Removes(id) \in SUBSET ValueEnvelope
          /\ NewestOf(elementTomb[id], Removes(id))
      BY DEF ValuesTypeOK, Removes, TombsNewest
    <3>2. CASE e.op = "element.remove" /\ e.row = id
      <4>1. Removes(id)' = Removes(id) \cup {e}
        BY <1>1, <3>2 DEF Removes
      <4>2. elementTomb'[id] = IF Beats(e.stamp, elementTomb[id]) THEN e.stamp ELSE elementTomb[id]
        BY <1>3, <3>2 DEF ValuesTypeOK
      <4> QED BY <3>1, <4>1, <4>2, TombKept
    <3>3. CASE ~(e.op = "element.remove" /\ e.row = id)
      <4>1. Removes(id)' = Removes(id) /\ elementTomb'[id] = elementTomb[id]
        BY <1>1, <1>3, <3>3 DEF Removes, ValuesTypeOK
      <4> QED BY <3>1, <4>1
    <3> QED BY <3>2, <3>3
  <2>2. ASSUME NEW p \in Position PROVE NewestOf(slotTomb'[p], Unsets(p)')
    <3>1. slotTomb[p] \in Tombs /\ Unsets(p) \in SUBSET ValueEnvelope
          /\ NewestOf(slotTomb[p], Unsets(p))
      BY DEF ValuesTypeOK, Unsets, TombsNewest
    <3>2. CASE e.op = "property.unset" /\ e.row = p
      <4>1. Unsets(p)' = Unsets(p) \cup {e}
        BY <1>1, <3>2 DEF Unsets
      <4>2. slotTomb'[p] = IF Beats(e.stamp, slotTomb[p]) THEN e.stamp ELSE slotTomb[p]
        BY <1>3, <3>2 DEF ValuesTypeOK
      <4> QED BY <3>1, <4>1, <4>2, TombKept
    <3>3. CASE ~(e.op = "property.unset" /\ e.row = p)
      <4>1. Unsets(p)' = Unsets(p) /\ slotTomb'[p] = slotTomb[p]
        BY <1>1, <1>3, <3>3 DEF Unsets, ValuesTypeOK
      <4> QED BY <3>1, <4>1
    <3> QED BY <3>2, <3>3
  <2> QED BY <2>1, <2>2 DEF TombsNewest, NewestOf
<1>6. e \notin Writes(e.row)'
  BY <1>1 DEF Writes
<1>7. ASSUME valueRows' # valueRows, NEW f \in Writes(e.row), ~Beats(f.stamp, valueRows[e.row].stamp)
      PROVE  Gone(f)'
  <2>1. f.row = e.row /\ f.stamp \in Tombs
    BY <1>1, WriteFacts, EnvelopeFacts
  <2>2. valueRows[e.row].stamp \in Tombs
    BY <1>1 DEF ValuesTypeOK
  <2>3. CASE e.op = "property.unset" /\ Beats(e.stamp, valueRows[e.row].stamp)
    <3>1. ~Beats(f.stamp, e.stamp)
      BY <1>1, <1>7, <2>1, <2>2, <2>3, BeatsOrder
    <3>2. e \in Unsets(e.row)'
      BY <1>1, <2>3 DEF Unsets
    <3> QED BY <1>1, <2>1, <2>3, <3>1, <3>2 DEF Gone
  <2>4. CASE e.op = "element.remove" /\ Newer(e.stamp, valueRows[e.row].stamp)
    <3>1. Newer(e.stamp, f.stamp)
      BY <1>1, <1>7, <2>1, <2>2, <2>4, BeatsOrder
    <3>2. e \in Removes(e.row)'
      BY <1>1, <2>4 DEF Removes
    <3> QED BY <2>1, <3>1, <3>2 DEF Gone
  <2> QED BY <1>2, <1>7, <2>3, <2>4
<1>8. CASE valueRows' = valueRows
  BY <1>1, <1>4, <1>5, <1>6, <1>8, DeliveredInv
<1>9. CASE valueRows' # valueRows
  <2>1. valueRows'[e.row] = NoRow /\ \A id \in RowId : id # e.row => valueRows'[id] = valueRows[id]
    BY <1>1, <1>2, <1>9 DEF ValuesTypeOK
  <2> QED BY <1>1, <1>4, <1>5, <1>6, <1>7, <2>1, DeliveredInv
<1> QED BY <1>8, <1>9

LEMMA ValuesStepInv == ValuesInv /\ [ValuesNext]_valueVars => ValuesInv'
<1> SUFFICES ASSUME ValuesInv, [ValuesNext]_valueVars PROVE ValuesInv'
  OBVIOUS
<1>1. CASE Reclass \/ UNCHANGED valueVars
  <2>1. UNCHANGED <<valueRows, slotTomb, elementTomb, carrier, arrived, refused>> /\ carries' \in BOOLEAN
    BY <1>1 DEF Reclass, valueVars, ValuesInv, ValuesTypeOK
  <2>2. ValuesTypeOK'
    BY <2>1 DEF ValuesInv, ValuesTypeOK
  <2>3. StampedApart' /\ TombsNewest'
    BY <2>1 DEF ValuesInv, StampedApart, TombsNewest, NewestOf, Removes, Unsets
  <2>4. RowsNewest'
    BY <2>1 DEF ValuesInv, RowsNewest, Writes, Gone, Removes, Unsets, RowOf, IdxOf
  <2> QED BY <2>2, <2>3, <2>4 DEF ValuesInv
<1>2. ASSUME NEW e \in ValueEnvelope \ arrived, DeliverValue(e) PROVE ValuesInv'
  <2>1. PropertySet(e) \/ PositionalUnset(e) \/ ElementRemove(e)
    BY <1>2 DEF DeliverValue
  <2> QED BY <1>2, <2>1, SetInv, TombstoneInv
<1> QED BY <1>1, <1>2 DEF ValuesNext

-----------------------------------------------------------------------------
LEMMA InvShowsNewest == ValuesInv => VisibleIsNewest
<1> SUFFICES ASSUME ValuesInv, NEW id \in RowId
             PROVE  /\ Visible(id) <=> {e \in Latest(id) : ~Undone(e)} # {}
                    /\ Visible(id) => \E e \in {d \in Latest(id) : ~Undone(d)} :
                                       valueRows[id].stamp = e.stamp /\ valueRows[id].value = e.value
  BY DEF VisibleIsNewest
<1>1. /\ valueRows[id] # NoRow => \E e \in Writes(id) : valueRows[id] = RowOf(e)
      /\ \A e \in Writes(id) : Gone(e) \/ (valueRows[id] # NoRow /\ ~Beats(e.stamp, valueRows[id].stamp))
  BY DEF ValuesInv, RowsNewest
<1>2. ASSUME NEW e \in Writes(id)
      PROVE  /\ e.stamp \in Tombs /\ e.row = id /\ e \in arrived
             /\ (\E d \in Removes(id) : Newer(d.stamp, e.stamp)) <=> Newer(elementTomb[id], e.stamp)
             /\ LET tomb == slotTomb[<<SchemaOf(id), IdxOf(e)>>]
                IN  (\E d \in Unsets(<<SchemaOf(id), IdxOf(e)>>) : ~Beats(e.stamp, d.stamp))
                      <=> (tomb # NoStamp /\ ~Beats(e.stamp, tomb))
  <2>1. e \in ValueEnvelope /\ e.row = id /\ e.op = "property.set" /\ e \in arrived
    BY WriteFacts DEF ValuesInv
  <2>2. e.stamp \in Stamps /\ e.stamp \in Tombs /\ <<SchemaOf(id), IdxOf(e)>> \in Position
    BY <2>1, EnvelopeFacts
  <2>3. elementTomb[id] \in Tombs /\ Removes(id) \in SUBSET ValueEnvelope
        /\ NewestOf(elementTomb[id], Removes(id))
    BY DEF ValuesInv, ValuesTypeOK, Removes, TombsNewest
  <2>4. ASSUME NEW p \in Position
        PROVE  slotTomb[p] \in Tombs /\ Unsets(p) \in SUBSET ValueEnvelope /\ NewestOf(slotTomb[p], Unsets(p))
    BY DEF ValuesInv, ValuesTypeOK, Unsets, TombsNewest
  <2>5. (\E d \in Removes(id) : Newer(d.stamp, e.stamp)) <=> Newer(elementTomb[id], e.stamp)
    BY <2>2, <2>3, TombSays
  <2>6. ASSUME NEW p \in Position
        PROVE  (\E d \in Unsets(p) : ~Beats(e.stamp, d.stamp)) <=> (slotTomb[p] # NoStamp /\ ~Beats(e.stamp, slotTomb[p]))
    BY <2>2, <2>4, TombSays
  <2> QED BY <2>1, <2>2, <2>5, <2>6
<1>3. ASSUME NEW e \in Writes(id)
      PROVE  Undone(e) <=> \/ \E d \in Removes(id) : Newer(d.stamp, e.stamp)
                           \/ \E d \in Unsets(<<SchemaOf(id), IdxOf(e)>>) : ~Beats(e.stamp, d.stamp)
  BY <1>2 DEF Undone, Removes, Unsets
<1>4. ASSUME NEW e \in Writes(id), Gone(e) PROVE Undone(e)
  <2>1. e \in ValueEnvelope /\ e.row = id
    BY WriteFacts DEF ValuesInv
  <2>2. id \in Position => id = <<SchemaOf(id), IdxOf(e)>>
    BY <2>1, EnvelopeFacts
  <2> QED BY <1>3, <1>4, <2>1, <2>2 DEF Gone
<1>5. ASSUME NEW e \in Writes(id), valueRows[id] = RowOf(e)
      PROVE  Visible(id) <=> ~Undone(e)
  <2>1. valueRows[id].stamp = e.stamp /\ valueRows[id].idx = IdxOf(e)
    BY <1>5 DEF RowOf
  <2>2. valueRows[id] # NoRow
    BY <1>5, WriteFacts, EnvelopeFacts DEF ValuesInv
  <2> QED BY <1>2, <1>3, <2>1, <2>2 DEF Visible
<1>6. ASSUME Visible(id)
      PROVE  \E e \in {d \in Latest(id) : ~Undone(d)} :
               valueRows[id].stamp = e.stamp /\ valueRows[id].value = e.value
  <2>1. PICK e \in Writes(id) : valueRows[id] = RowOf(e)
    BY <1>1, <1>6 DEF Visible
  <2>2. ~Undone(e) /\ valueRows[id].stamp = e.stamp /\ valueRows[id].value = e.value
    BY <1>5, <1>6, <2>1 DEF RowOf
  <2>3. ASSUME NEW d \in Writes(id), Beats(d.stamp, e.stamp) PROVE FALSE
    <3>1. Gone(d)
      BY <1>1, <2>2, <2>3
    <3>2. ~Beats(e.stamp, d.stamp)
      BY <1>2, <2>3, BeatsOrder
    <3>3. Gone(e)
      BY <3>1, <3>2, GoneBelow DEF ValuesInv
    <3> QED BY <1>4, <2>2, <3>3
  <2> QED BY <2>2, <2>3 DEF Latest
<1>7. ASSUME NEW e \in Latest(id), ~Undone(e) PROVE Visible(id)
  <2>1. e \in Writes(id) /\ \A d \in Writes(id) : ~Beats(d.stamp, e.stamp)
    BY DEF Latest
  <2>2. valueRows[id] # NoRow /\ ~Beats(e.stamp, valueRows[id].stamp)
    BY <1>1, <1>4, <1>7, <2>1
  <2>3. PICK f \in Writes(id) : valueRows[id] = RowOf(f)
    BY <1>1, <2>2
  <2>4. valueRows[id].stamp = f.stamp
    BY <2>3 DEF RowOf
  <2>5. e.stamp = f.stamp
    BY <1>2, <2>1, <2>2, <2>4, BeatsOrder
  <2>6. e = f
    BY <1>2, <2>1, <2>5 DEF ValuesInv, StampedApart
  <2> QED BY <1>5, <1>7, <2>3, <2>6
<1> QED BY <1>6, <1>7

(* What a mirror shows for a value depends on which envelopes it accepted and not on their
   order, for every set of schemas, positions, elements and stamps. *)
THEOREM ValuesShowNewest == ValuesSpec => []VisibleIsNewest
<1>1. ValuesSpec => []ValuesInv
  BY ValuesInitInv, ValuesStepInv, PTL DEF ValuesSpec
<1> QED BY <1>1, InvShowsNewest, PTL

(* The carrier block of a text value goes to the trash only when no value left on screen
   refers to it. *)
THEOREM CarrierStays == ValuesSpec => CarrierOutlivesItsValues
<1>1. [ValuesNext]_valueVars =>
        [carrier /\ ~carrier' => ~\E id \in RowId : Visible(id)' /\ valueRows'[id].value = "carrier"]_valueVars
  BY DEF ValuesNext, DeliverValue, Reclass, PropertySet, PositionalUnset, ElementRemove, KeepRows,
         DeleteRow, TrashCarrierIfOrphaned
<1> QED BY <1>1, PTL DEF ValuesSpec, CarrierOutlivesItsValues

-----------------------------------------------------------------------------
(* QueryMatches: ways up. *)

RowParents == [Row -> Row \cup {Root}]

LEMMA ClimbIs ==
  ASSUME NEW a \in RowParents, NEW x \in Row
  PROVE  /\ Climb(a, 0, x) = {x}
         /\ \A k \in Nat : Climb(a, k + 1, x) = IF a[x] = Root THEN {x} ELSE {x} \cup Climb(a, k, a[x])
<1> DEFINE V == [Row -> SUBSET Row]
           start == [y \in Row |-> {y}]
           H == [v \in V |-> [y \in Row |-> IF a[y] = Root THEN {y} ELSE {y} \cup v[a[y]]]]
           Body(up, at) == IF at[1] = 0 \/ a[at[2]] = Root THEN {at[2]}
                           ELSE {at[2]} \cup up[<<at[1] - 1, a[at[2]]>>]
           Rec(up) == up = [at \in Nat \X Row |-> Body(up, at)]
<1>1. start \in V /\ H \in [V -> V]
  BY DEF RowParents
<1> HIDE DEF start, H
<1>2. PICK f : f \in [Nat -> V] /\ f[0] = start /\ \A k \in Nat : f[k + 1] = H[f[k]]
  <2>1. \E f : Stepwise(f, V, start, H)
    <3> HIDE DEF V
    <3> QED BY <1>1, StepwiseFunction
  <2> QED BY <2>1 DEF Stepwise
<1> DEFINE u == [at \in Nat \X Row |-> f[at[1]][at[2]]]
<1>3. Rec(u)
  <2>1. ASSUME NEW k \in Nat, NEW y \in Row
        PROVE  u[<<k, y>>] = IF k = 0 \/ a[y] = Root THEN {y} ELSE {y} \cup u[<<k - 1, a[y]>>]
    <3>1. u[<<k, y>>] = f[k][y]
      OBVIOUS
    <3>2. CASE k = 0
      BY <1>2, <3>1, <3>2 DEF start
    <3>3. CASE k # 0
      <4>1. k - 1 \in Nat /\ k = (k - 1) + 1
        BY <3>3
      <4>2. f[k] = H[f[k - 1]] /\ f[k - 1] \in V
        BY <1>2, <4>1
      <4>3. f[k][y] = IF a[y] = Root THEN {y} ELSE {y} \cup f[k - 1][a[y]]
        BY <4>2 DEF H
      <4>4. a[y] # Root => u[<<k - 1, a[y]>>] = f[k - 1][a[y]]
        BY <4>1 DEF RowParents
      <4> QED BY <3>1, <3>3, <4>3, <4>4
    <3> QED BY <3>2, <3>3
  <2>2. ASSUME NEW at \in Nat \X Row PROVE u[at] = Body(u, at)
    <3>1. PICK k \in Nat, y \in Row : at = <<k, y>>
      OBVIOUS
    <3> HIDE DEF u
    <3>2. Body(u, <<k, y>>) = IF k = 0 \/ a[y] = Root THEN {y} ELSE {y} \cup u[<<k - 1, a[y]>>]
      OBVIOUS
    <3>3. u[<<k, y>>] = Body(u, <<k, y>>)
      BY <2>1, <3>2
    <3> QED BY <3>1, <3>3
  <2>3. u = [at \in Nat \X Row |-> u[at]]
    OBVIOUS
  <2> HIDE DEF u, Body
  <2> QED BY <2>2, <2>3
<1> DEFINE w == CHOOSE up : Rec(up)
<1>4. Rec(w)
  <2> HIDE DEF Rec
  <2> QED BY <1>3
<1>5. ASSUME NEW k \in Nat, NEW y \in Row PROVE Climb(a, k, y) = w[<<k, y>>]
  BY DEF Climb
<1> HIDE DEF w
<1>6. ASSUME NEW k \in Nat, NEW y \in Row
      PROVE  Climb(a, k, y) = IF k = 0 \/ a[y] = Root THEN {y} ELSE {y} \cup w[<<k - 1, a[y]>>]
  <2>1. <<k, y>> \in Nat \X Row
    OBVIOUS
  <2>2. w[<<k, y>>] = Body(w, <<k, y>>)
    <3> HIDE DEF Body
    <3> QED BY <1>4, <2>1
  <2>3. Body(w, <<k, y>>) = IF k = 0 \/ a[y] = Root THEN {y} ELSE {y} \cup w[<<k - 1, a[y]>>]
    OBVIOUS
  <2> QED BY <1>5, <2>2, <2>3
<1>7. Climb(a, 0, x) = {x}
  BY <1>6
<1>8. ASSUME NEW k \in Nat
      PROVE  Climb(a, k + 1, x) = IF a[x] = Root THEN {x} ELSE {x} \cup Climb(a, k, a[x])
  <2>1. Climb(a, k + 1, x) = IF a[x] = Root THEN {x} ELSE {x} \cup w[<<(k + 1) - 1, a[x]>>]
    <3>1. k + 1 \in Nat /\ k + 1 # 0
      OBVIOUS
    <3> QED BY <1>6, <3>1
  <2>2. (k + 1) - 1 = k /\ (a[x] # Root => a[x] \in Row)
    BY DEF RowParents
  <2> QED BY <1>5, <2>1, <2>2
<1> QED BY <1>7, <1>8

-----------------------------------------------------------------------------
(* The least set that holds n and, with a row, its parent. *)
ClosedUp(a, S) == \A y \in S : a[y] # Root => a[y] \in S
UpSet(a, n) == {x \in Row : \A S \in SUBSET Row : n \in S /\ ClosedUp(a, S) => x \in S}

\* No row is above itself.
NoLoop(a) == \A n \in Row : a[n] # Root => n \notin UpSet(a, a[n])

LEMMA UpSetFacts ==
  ASSUME NEW a \in RowParents, NEW n \in Row
  PROVE  /\ UpSet(a, n) \subseteq Row /\ n \in UpSet(a, n) /\ ClosedUp(a, UpSet(a, n))
         /\ \A S \in SUBSET Row : n \in S /\ ClosedUp(a, S) => UpSet(a, n) \subseteq S
         /\ \A x \in UpSet(a, n) : UpSet(a, x) \subseteq UpSet(a, n)
         /\ UpSet(a, n) = IF a[n] = Root THEN {n} ELSE {n} \cup UpSet(a, a[n])
<1>1. ASSUME NEW x \in Row PROVE UpSet(a, x) \subseteq Row /\ x \in UpSet(a, x)
  BY DEF UpSet
<1>2. ASSUME NEW x \in Row, NEW S \in SUBSET Row, x \in S, ClosedUp(a, S)
      PROVE  UpSet(a, x) \subseteq S
  BY <1>2 DEF UpSet
<1>3. ASSUME NEW x \in Row PROVE ClosedUp(a, UpSet(a, x))
  <2> SUFFICES ASSUME NEW y \in UpSet(a, x), a[y] # Root PROVE a[y] \in UpSet(a, x)
    BY DEF ClosedUp
  <2>1. a[y] \in Row
    BY <1>1 DEF RowParents
  <2>2. ASSUME NEW S \in SUBSET Row, x \in S, ClosedUp(a, S) PROVE a[y] \in S
    BY <1>2, <2>2 DEF ClosedUp
  <2> QED BY <2>1, <2>2 DEF UpSet
<1>4. \A x \in UpSet(a, n) : UpSet(a, x) \subseteq UpSet(a, n)
  BY <1>1, <1>2, <1>3
<1>5. CASE a[n] = Root
  <2> DEFINE S == {n}
  <2>1. S \in SUBSET Row /\ n \in S /\ ClosedUp(a, S)
    BY <1>5 DEF ClosedUp
  <2> HIDE DEF S
  <2>2. UpSet(a, n) \subseteq S
    BY <1>2, <2>1
  <2> QED BY <1>1, <1>2, <1>3, <1>4, <1>5, <2>2 DEF S
<1>6. CASE a[n] # Root
  <2>1. a[n] \in Row
    BY <1>6 DEF RowParents
  <2> DEFINE S == {n} \cup UpSet(a, a[n])
  <2>2. S \in SUBSET Row /\ n \in S /\ ClosedUp(a, S)
    BY <1>1, <1>3, <2>1 DEF ClosedUp
  <2>3. UpSet(a, n) \subseteq S
    <3> HIDE DEF S
    <3> QED BY <1>2, <2>2
  <2>4. a[n] \in UpSet(a, n)
    BY <1>1, <1>3, <1>6 DEF ClosedUp
  <2>5. S \subseteq UpSet(a, n)
    BY <1>1, <1>4, <2>4
  <2> QED BY <1>1, <1>2, <1>3, <1>4, <1>6, <2>3, <2>5
<1> QED BY <1>5, <1>6

\* A walk goes up, each step adding the parents of what it has met.
LEMMA ClimbStep ==
  ASSUME NEW a \in RowParents, NEW k \in Nat, NEW n \in Row
  PROVE  /\ Climb(a, k, n) \subseteq UpSet(a, n) /\ n \in Climb(a, k, n)
         /\ Climb(a, k, n) \subseteq Climb(a, k + 1, n)
         /\ \A x \in Climb(a, k, n) : a[x] # Root => a[x] \in Climb(a, k + 1, n)
         /\ \E t \in Climb(a, k, n) : \A x \in Climb(a, k, n) : x # t => a[x] \in Climb(a, k, n)
<1> DEFINE Good(j, x) ==
             /\ Climb(a, j, x) \subseteq UpSet(a, x) /\ x \in Climb(a, j, x)
             /\ Climb(a, j, x) \subseteq Climb(a, j + 1, x)
             /\ \A y \in Climb(a, j, x) : a[y] # Root => a[y] \in Climb(a, j + 1, x)
             /\ \E t \in Climb(a, j, x) : \A y \in Climb(a, j, x) : y # t => a[y] \in Climb(a, j, x)
           S == {j \in Nat : \A x \in Row : Good(j, x)}
<1>1. 0 \in S
  <2> SUFFICES ASSUME NEW x \in Row PROVE Good(0, x)
    OBVIOUS
  <2>1. Climb(a, 0, x) = {x} /\ x \in UpSet(a, x)
    BY ClimbIs, UpSetFacts
  <2>2. Climb(a, 0 + 1, x) = IF a[x] = Root THEN {x} ELSE {x} \cup Climb(a, 0, a[x])
    BY ClimbIs
  <2>3. a[x] # Root => Climb(a, 0, a[x]) = {a[x]}
    BY ClimbIs DEF RowParents
  <2> QED BY <2>1, <2>2, <2>3
<1>2. ASSUME NEW j \in S PROVE j + 1 \in S
  <2> SUFFICES ASSUME NEW x \in Row PROVE Good(j + 1, x)
    OBVIOUS
  <2>0. j \in Nat /\ j + 1 \in Nat
    OBVIOUS
  <2>1. /\ Climb(a, j + 1, x) = IF a[x] = Root THEN {x} ELSE {x} \cup Climb(a, j, a[x])
        /\ Climb(a, j + 1 + 1, x) = IF a[x] = Root THEN {x} ELSE {x} \cup Climb(a, j + 1, a[x])
    BY <2>0, ClimbIs
  <2>2. UpSet(a, x) = IF a[x] = Root THEN {x} ELSE {x} \cup UpSet(a, a[x])
    BY UpSetFacts
  <2>3. CASE a[x] = Root
    BY <2>1, <2>2, <2>3
  <2>4. CASE a[x] # Root
    <3>1. a[x] \in Row
      BY <2>4 DEF RowParents
    <3>2. Good(j, a[x])
      BY <3>1
    <3>3. PICK t \in Climb(a, j, a[x]) : \A y \in Climb(a, j, a[x]) : y # t => a[y] \in Climb(a, j, a[x])
      BY <3>2
    <3>4. \A y \in Climb(a, j + 1, x) : y # t => a[y] \in Climb(a, j + 1, x)
      BY <2>1, <2>4, <3>2, <3>3
    <3> QED BY <2>1, <2>2, <2>4, <3>2, <3>4
  <2> QED BY <2>3, <2>4
<1> HIDE DEF Good
<1>3. S = Nat
  <2>1. S \subseteq Nat
    OBVIOUS
  <2> HIDE DEF S
  <2> QED BY <1>1, <1>2, <2>1, NatClosed
<1>4. Good(k, n)
  BY <1>3
<1> QED BY <1>4 DEF Good

\* A walk that has met a row without a parent has met every row above n.
LEMMA ClimbToRoot ==
  ASSUME NEW a \in RowParents, NEW k \in Nat, NEW n \in Row, NEW r \in Climb(a, k, n), a[r] = Root
  PROVE  Climb(a, k, n) = UpSet(a, n)
<1>1. Climb(a, k, n) \subseteq UpSet(a, n) /\ n \in Climb(a, k, n) /\ UpSet(a, n) \subseteq Row
  BY ClimbStep, UpSetFacts
<1>2. PICK t \in Climb(a, k, n) : \A x \in Climb(a, k, n) : x # t => a[x] \in Climb(a, k, n)
  BY ClimbStep
<1>3. Root \notin Climb(a, k, n)
  BY <1>1, MatchesAssumption
<1>4. r = t
  BY <1>2, <1>3
<1>5. ClosedUp(a, Climb(a, k, n))
  BY <1>2, <1>4 DEF ClosedUp
<1> QED BY <1>1, <1>5, UpSetFacts

\* As many steps as there are rows are enough.
LEMMA ClimbAll ==
  ASSUME NEW a \in RowParents, NEW n \in Row
  PROVE  Climb(a, Cardinality(Row), n) = UpSet(a, n)
<1> DEFINE C(j) == Climb(a, j, n)
           S == {j \in Nat : ClosedUp(a, C(j)) \/ Cardinality(C(j)) > j}
<1>1. \A j \in Nat : C(j) \subseteq Row /\ n \in C(j) /\ IsFiniteSet(C(j)) /\ Cardinality(C(j)) \in Nat
                     /\ Cardinality(C(j)) <= Cardinality(Row)
  <2> SUFFICES ASSUME NEW j \in Nat
               PROVE  C(j) \subseteq Row /\ n \in C(j) /\ IsFiniteSet(C(j)) /\ Cardinality(C(j)) \in Nat
                      /\ Cardinality(C(j)) <= Cardinality(Row)
    OBVIOUS
  <2>1. C(j) \subseteq Row /\ n \in C(j)
    BY ClimbStep, UpSetFacts
  <2> QED BY <2>1, FS_Subset, FS_CardinalityType, MatchesAssumption
<1>2. \A j \in Nat : C(j) \subseteq C(j + 1) /\ (ClosedUp(a, C(j)) => C(j + 1) = C(j))
  <2> SUFFICES ASSUME NEW j \in Nat
               PROVE  C(j) \subseteq C(j + 1) /\ (ClosedUp(a, C(j)) => C(j + 1) = C(j))
    OBVIOUS
  <2>1. C(j) \subseteq C(j + 1)
    BY ClimbStep
  <2>2. ASSUME ClosedUp(a, C(j)) PROVE C(j + 1) \subseteq C(j)
    <3>1. UpSet(a, n) \subseteq C(j)
      BY <1>1, <2>2, UpSetFacts
    <3> QED BY <3>1, ClimbStep
  <2> QED BY <2>1, <2>2
<1>3. 0 \in S
  <2>1. C(0) = {n}
    BY ClimbIs
  <2>2. Cardinality({n}) = 1
    BY FS_Singleton
  <2> QED BY <2>1, <2>2
<1>4. ASSUME NEW j \in S PROVE j + 1 \in S
  <2>0. j \in Nat /\ j + 1 \in Nat
    OBVIOUS
  <2>1. CASE ClosedUp(a, C(j))
    BY <1>2, <2>0, <2>1
  <2>2. CASE ~ClosedUp(a, C(j))
    <3>1. PICK x \in C(j) : a[x] # Root /\ a[x] \notin C(j)
      BY <2>2 DEF ClosedUp
    <3>2. a[x] \in C(j + 1)
      BY <2>0, <3>1, ClimbStep
    <3> HIDE DEF C
    <3>3. Cardinality(C(j)) < Cardinality(C(j + 1))
      <4>1. C(j) \in SUBSET C(j + 1) /\ C(j) # C(j + 1) /\ IsFiniteSet(C(j + 1))
        BY <1>1, <1>2, <2>0, <3>1, <3>2
      <4>2. Cardinality(C(j)) <= Cardinality(C(j + 1)) /\ Cardinality(C(j)) # Cardinality(C(j + 1))
        BY <4>1, FS_Subset
      <4> QED BY <1>1, <2>0, <4>2
    <3>4. Cardinality(C(j)) > j
      BY <2>2
    <3> QED BY <1>1, <2>0, <3>3, <3>4
  <2> QED BY <2>1, <2>2
<1>5. Cardinality(Row) \in S
  <2>1. S \subseteq Nat
    OBVIOUS
  <2>2. Cardinality(Row) \in Nat
    BY FS_CardinalityType, MatchesAssumption
  <2> HIDE DEF S
  <2> QED BY <1>3, <1>4, <2>1, <2>2, NatClosed
<1>6. Cardinality(Row) \in Nat
  BY FS_CardinalityType, MatchesAssumption
<1>7. ClosedUp(a, C(Cardinality(Row)))
  <2>1. PICK k \in Nat : k = Cardinality(Row)
    BY <1>6
  <2>2. ClosedUp(a, C(k)) \/ Cardinality(C(k)) > k
    BY <1>5, <2>1
  <2>3. Cardinality(C(k)) \in Nat /\ Cardinality(C(k)) <= k
    BY <1>1, <2>1
  <2> HIDE DEF C
  <2>4. ClosedUp(a, C(k))
    BY <2>2, <2>3
  <2> QED BY <2>1, <2>4
<1>8. UpSet(a, n) \subseteq C(Cardinality(Row))
  BY <1>1, <1>6, <1>7, UpSetFacts
<1> QED BY <1>6, <1>8, ClimbStep

-----------------------------------------------------------------------------
\* Two rows above the same one are above each other one way or the other.
LEMMA OneWayUp ==
  ASSUME NEW a \in RowParents, NEW n \in Row, NEW x \in UpSet(a, n), NEW y \in UpSet(a, n)
  PROVE  x \in UpSet(a, y) \/ y \in UpSet(a, x)
<1>1. x \in Row /\ y \in Row
  BY UpSetFacts
<1> DEFINE S == {z \in Row : z \in UpSet(a, x) \/ x \in UpSet(a, z)}
<1>2. n \in S
  OBVIOUS
<1>3. ASSUME NEW z \in S, a[z] # Root PROVE a[z] \in S
  <2>1. a[z] \in Row /\ z \in Row
    BY <1>3 DEF RowParents
  <2>2. CASE z \in UpSet(a, x)
    BY <1>1, <1>3, <2>1, <2>2, UpSetFacts DEF ClosedUp
  <2>3. CASE x \in UpSet(a, z) /\ z # x
    BY <1>3, <2>1, <2>3, UpSetFacts
  <2>4. x \in UpSet(a, x)
    BY <1>1, UpSetFacts
  <2> QED BY <2>2, <2>3, <2>4
<1>4. ClosedUp(a, S)
  <2> HIDE DEF S
  <2> QED BY <1>3 DEF ClosedUp
<1>5. S \in SUBSET Row
  OBVIOUS
<1>6. UpSet(a, n) \subseteq S
  <2> HIDE DEF S
  <2> QED BY <1>2, <1>4, <1>5, UpSetFacts
<1> QED BY <1>6

LEMMA NoTwoAbove ==
  ASSUME NEW a \in RowParents, NoLoop(a), NEW x \in Row, NEW y \in UpSet(a, x), x \in UpSet(a, y)
  PROVE  x = y
<1> SUFFICES ASSUME x # y PROVE FALSE
  OBVIOUS
<1>1. UpSet(a, x) = IF a[x] = Root THEN {x} ELSE {x} \cup UpSet(a, a[x])
  BY UpSetFacts
<1>2. a[x] # Root /\ a[x] \in Row /\ y \in UpSet(a, a[x])
  BY <1>1 DEF RowParents
<1>3. UpSet(a, y) \subseteq UpSet(a, a[x])
  BY <1>2, UpSetFacts
<1> QED BY <1>2, <1>3 DEF NoLoop

\* Of rows on one way up, some is met first.
LEMMA FirstMet ==
  ASSUME NEW a \in RowParents, NoLoop(a), NEW n \in Row, NEW S \in SUBSET UpSet(a, n), S # {}
  PROVE  \E x \in S : \A y \in S : y \in UpSet(a, x)
<1>1. /\ UpSet(a, n) \subseteq Row
      /\ \A x \in S : x \in Row /\ UpSet(a, x) \subseteq Row /\ IsFiniteSet(UpSet(a, x))
                      /\ Cardinality(UpSet(a, x)) \in Nat
                      /\ Cardinality(UpSet(a, x)) <= Cardinality(Row)
  <2>1. UpSet(a, n) \subseteq Row
    BY UpSetFacts
  <2> SUFFICES ASSUME NEW x \in S
               PROVE  x \in Row /\ UpSet(a, x) \subseteq Row /\ IsFiniteSet(UpSet(a, x))
                      /\ Cardinality(UpSet(a, x)) \in Nat
                      /\ Cardinality(UpSet(a, x)) <= Cardinality(Row)
    BY <2>1
  <2>2. x \in Row /\ UpSet(a, x) \subseteq Row
    BY <2>1, UpSetFacts
  <2> QED BY <2>2, FS_Subset, FS_CardinalityType, MatchesAssumption
<1>2. Cardinality(Row) \in Nat
  BY FS_CardinalityType, MatchesAssumption
<1> DEFINE T == {Cardinality(Row) - Cardinality(UpSet(a, x)) : x \in S}
<1>3. T \in SUBSET Nat /\ T # {}
  BY <1>1, <1>2
<1>4. PICK m \in T : \A k \in T : m <= k
  <2> HIDE DEF T
  <2> QED BY <1>3, LeastNat
<1>5. PICK x \in S : m = Cardinality(Row) - Cardinality(UpSet(a, x))
  BY <1>4
<1>6. ASSUME NEW y \in S PROVE Cardinality(UpSet(a, y)) <= Cardinality(UpSet(a, x))
  <2>1. m <= Cardinality(Row) - Cardinality(UpSet(a, y))
    BY <1>4
  <2> QED BY <1>1, <1>2, <1>5, <2>1
<1>7. ASSUME NEW y \in S PROVE y \in UpSet(a, x)
  <2> SUFFICES ASSUME y \notin UpSet(a, x) PROVE FALSE
    OBVIOUS
  <2>1. x \in UpSet(a, y)
    BY OneWayUp
  <2>2. UpSet(a, x) \in SUBSET UpSet(a, y) /\ y \in UpSet(a, y)
    BY <1>1, <2>1, UpSetFacts
  <2>3. Cardinality(UpSet(a, x)) <= Cardinality(UpSet(a, y))
        /\ Cardinality(UpSet(a, x)) # Cardinality(UpSet(a, y))
    BY <1>1, <2>2, FS_Subset
  <2> QED BY <1>1, <1>6, <2>3
<1> QED BY <1>7

\* A way up none of whose rows is moved stays as it is.
LEMMA SameWayUp ==
  ASSUME NEW a \in RowParents, NEW b \in RowParents, NEW n \in Row,
         \A y \in UpSet(a, n) : b[y] = a[y]
  PROVE  UpSet(b, n) = UpSet(a, n)
<1>1. \A c \in RowParents : /\ UpSet(c, n) \subseteq Row /\ n \in UpSet(c, n) /\ ClosedUp(c, UpSet(c, n))
                            /\ \A S \in SUBSET Row : n \in S /\ ClosedUp(c, S) => UpSet(c, n) \subseteq S
  BY UpSetFacts
<1>2. ClosedUp(b, UpSet(a, n))
  BY <1>1 DEF ClosedUp
<1>3. UpSet(b, n) \subseteq UpSet(a, n)
  BY <1>1, <1>2
<1>4. ClosedUp(a, UpSet(b, n))
  BY <1>1, <1>3 DEF ClosedUp
<1> QED BY <1>1, <1>3, <1>4

\* A row put under one that is not below it stays out of its own way up.
LEMMA MoveKeepsNoLoop ==
  ASSUME NEW a \in RowParents, NoLoop(a), NEW n \in Row, NEW p \in Row \cup {Root},
         p # Root => n \notin UpSet(a, p),
         NEW b \in RowParents, b = [a EXCEPT ![n] = p]
  PROVE  NoLoop(b)
<1>1. \A y \in Row : b[y] = IF y = n THEN p ELSE a[y]
  BY DEF RowParents
<1> SUFFICES ASSUME NEW x \in Row, b[x] # Root PROVE x \notin UpSet(b, b[x])
  BY DEF NoLoop
<1>2. b[x] \in Row
  BY DEF RowParents
<1>3. \A S \in SUBSET Row : b[x] \in S /\ ClosedUp(b, S) /\ x \notin S => x \notin UpSet(b, b[x])
  BY <1>2, UpSetFacts
<1>4. ASSUME NEW y \in Row PROVE UpSet(a, y) \in SUBSET Row /\ y \in UpSet(a, y) /\ ClosedUp(a, UpSet(a, y))
  BY UpSetFacts
<1>5. CASE x = n
  <2>1. p \in Row /\ b[x] = p
    BY <1>1, <1>2, <1>5
  <2>2. ClosedUp(b, UpSet(a, p)) /\ x \notin UpSet(a, p)
    BY <1>1, <1>4, <1>5, <2>1 DEF ClosedUp
  <2> QED BY <1>3, <1>4, <2>1, <2>2
<1>6. CASE x # n
  <2>1. b[x] = a[x] /\ x \notin UpSet(a, a[x])
    BY <1>1, <1>6 DEF NoLoop
  <2>2. CASE n \notin UpSet(a, a[x]) \/ p = Root
    <3>1. ClosedUp(b, UpSet(a, a[x]))
      BY <1>1, <1>2, <1>4, <2>1, <2>2 DEF ClosedUp
    <3> QED BY <1>2, <1>3, <1>4, <2>1, <3>1
  <2>3. CASE n \in UpSet(a, a[x]) /\ p # Root
    <3> DEFINE S == UpSet(a, a[x]) \cup UpSet(a, p)
    <3>1. ClosedUp(b, S) /\ S \in SUBSET Row /\ b[x] \in S
      BY <1>1, <1>2, <1>4, <2>1, <2>3 DEF ClosedUp
    <3>2. x \notin UpSet(a, p)
      <4> SUFFICES ASSUME x \in UpSet(a, p) PROVE FALSE
        OBVIOUS
      <4>1. UpSet(a, x) \subseteq UpSet(a, p)
        BY <2>3, UpSetFacts
      <4>2. UpSet(a, a[x]) \subseteq UpSet(a, x)
        BY <1>2, <1>4, <2>1, UpSetFacts DEF ClosedUp
      <4> QED BY <2>3, <4>1, <4>2
    <3> HIDE DEF S
    <3> QED BY <1>3, <2>1, <3>1, <3>2 DEF S
  <2> QED BY <2>2, <2>3
<1> QED BY <1>5, <1>6

-----------------------------------------------------------------------------
MatchTypeOK ==
  /\ above \in RowParents
  /\ live \subseteq Row /\ binned \subseteq Row /\ isClass \subseteq Row /\ inline \subseteq Row
  /\ classes \in [Row -> SUBSET Row] /\ edge \subseteq Row \X Row
  /\ ops \in Nat

MatchInv == MatchTypeOK /\ NoLoop(above)

LEMMA MatchInitInv == MatchInit => MatchInv
<1> SUFFICES ASSUME MatchInit PROVE MatchInv
  OBVIOUS
<1>1. above \in RowParents /\ NoLoop(above)
  BY DEF MatchInit, RowParents, NoLoop
<1>2. /\ live \subseteq Row /\ binned \subseteq Row /\ isClass \subseteq Row /\ inline \subseteq Row
      /\ classes \in [Row -> SUBSET Row] /\ edge \subseteq Row \X Row
      /\ ops \in Nat
  BY MatchesAssumption DEF MatchInit
<1> QED BY <1>1, <1>2 DEF MatchInv, MatchTypeOK

LEMMA MatchStepInv == MatchInv /\ [MatchNext]_matchVars => MatchInv'
<1> SUFFICES ASSUME MatchInv, [MatchNext]_matchVars PROVE MatchInv'
  OBVIOUS
<1> USE DEF MatchInv, MatchTypeOK
<1>1. ASSUME NEW n \in Row, NEW p \in Row \cup {Root}, MoveRow(n, p) PROVE MatchInv'
  <2>1. above' = [above EXCEPT ![n] = p] /\ above' \in RowParents
    BY <1>1 DEF MoveRow, RowParents
  <2>2. p # Root => n \notin UpSet(above, p)
    <3> SUFFICES ASSUME p # Root PROVE n \notin UpSet(above, p)
      OBVIOUS
    <3>1. n \notin UpFrom(p)
      BY <1>1 DEF MoveRow, Tree
    <3> QED BY <3>1, ClimbAll DEF UpFrom
  <2>3. NoLoop(above')
    BY <2>1, <2>2, MoveKeepsNoLoop
  <2>4. /\ live' \subseteq Row /\ binned' \subseteq Row /\ isClass' \subseteq Row /\ inline' \subseteq Row
        /\ classes' \in [Row -> SUBSET Row] /\ edge' \subseteq Row \X Row
        /\ ops' \in Nat
    BY <1>1 DEF MoveRow, Envelopes
  <2> QED BY <2>1, <2>3, <2>4
<1>2. ASSUME NEW n \in Row, ConvertRow(n) PROVE MatchInv'
  <2>1. above' = [above EXCEPT ![n] = Root] /\ above' \in RowParents
    BY <1>2 DEF ConvertRow, RowParents
  <2>2. NoLoop(above')
    BY <2>1, MoveKeepsNoLoop
  <2>3. /\ live' \subseteq Row /\ binned' \subseteq Row /\ isClass' \subseteq Row /\ inline' \subseteq Row
        /\ classes' \in [Row -> SUBSET Row] /\ edge' \subseteq Row \X Row
        /\ ops' \in Nat
    BY <1>2 DEF ConvertRow, Envelopes
  <2> QED BY <2>1, <2>2, <2>3
<1>3. ASSUME NEW n \in Row, TrashRow(n) PROVE MatchInv'
  BY <1>3 DEF TrashRow, Envelopes
<1>4. ASSUME NEW n \in Row, RestoreRow(n) PROVE MatchInv'
  <2>1. {x \in Tree(n) : Rides(n, x)} \subseteq Row
    BY DEF Tree
  <2> QED BY <1>4, <2>1 DEF RestoreRow, Envelopes
<1>5. ASSUME NEW n \in Row, ArchiveRow(n) \/ UnarchiveRow(n) PROVE MatchInv'
  BY <1>5 DEF ArchiveRow, UnarchiveRow, Envelopes
<1>6. ASSUME NEW on \in SUBSET Gated, SetFeatures(on) PROVE MatchInv'
  <2>1. on \subseteq Row
    BY MatchesAssumption
  <2> QED BY <1>6, <2>1 DEF SetFeatures, Envelopes
<1>7. ASSUME NEW n \in Row, EditRow(n) PROVE MatchInv'
  <2>1. /\ live' \subseteq Row /\ binned' \subseteq Row /\ isClass' \subseteq Row /\ inline' \subseteq Row
        /\ classes' \in [Row -> SUBSET Row] /\ edge' \subseteq Row \X Row
        /\ ops' \in Nat /\ above' = above
    BY <1>7 DEF EditRow, Envelopes
  <2> QED BY <2>1
<1>8. CASE UNCHANGED matchVars
  BY <1>8 DEF matchVars
<1> QED BY <1>1, <1>2, <1>3, <1>4, <1>5, <1>6, <1>7, <1>8 DEF MatchNext

\* What the walks come to in a tree, and the rows above a row one by one.
LEMMA WalksAre ==
  ASSUME MatchInv, NEW n \in Row
  PROVE  /\ UpFrom(n) = UpSet(above, n) /\ n \in UpFrom(n) /\ UpFrom(n) \subseteq Row
         /\ Within(n) \subseteq UpFrom(n)
         /\ (\E x \in Within(n) : above[x] = Root) => Within(n) = UpFrom(n)
         /\ \A x \in UpFrom(n) : UpFrom(x) \subseteq UpFrom(n)
         /\ UpFrom(n) = IF above[n] = Root THEN {n} ELSE {n} \cup UpFrom(above[n])
<1>1. above \in RowParents /\ WalkBound \in Nat
  BY MatchesAssumption DEF MatchInv, MatchTypeOK
<1>2. \A x \in Row : UpFrom(x) = UpSet(above, x)
  BY <1>1, ClimbAll DEF UpFrom
<1>3. UpSet(above, n) \subseteq Row /\ (above[n] # Root => above[n] \in Row)
  BY <1>1, UpSetFacts DEF RowParents
<1>4. \A x \in UpSet(above, n) : UpSet(above, x) \subseteq UpSet(above, n)
  BY <1>1, UpSetFacts
<1>5. UpSet(above, n) = IF above[n] = Root THEN {n} ELSE {n} \cup UpSet(above, above[n])
  BY <1>1, UpSetFacts
<1>6. Within(n) \subseteq UpSet(above, n)
  BY <1>1, ClimbStep DEF Within
<1>7. (\E x \in Within(n) : above[x] = Root) => Within(n) = UpSet(above, n)
  BY <1>1, ClimbToRoot DEF Within
<1> QED BY <1>2, <1>3, <1>4, <1>5, <1>6, <1>7

-----------------------------------------------------------------------------
(* QueryMatches: where SQL's third value comes from and where it stops. *)

TwoValued(v) == v \in {"true", "false"}

LEMMA SqlFacts ==
  /\ \A S : TwoValued(SqlExists(S))
  /\ \A x : TwoValued(SqlIsNotNull(x))
  /\ \A v : TwoValued(v) => TwoValued(SqlNot(v)) /\ (IsTrue(SqlNot(v)) <=> ~IsTrue(v))
  /\ \A v, w : TwoValued(v) /\ TwoValued(w) => TwoValued(SqlAnd(v, w))
  /\ \A x, y : IF Root \in {x, y} THEN SqlEq(x, y) = "null" ELSE TwoValued(SqlEq(x, y))
  /\ \A x, S : x # Root /\ Root \notin S => TwoValued(SqlIn(x, S))
  /\ ~IsTrue("null") /\ SqlNot("null") = "null"
<1>1. \A S : TwoValued(SqlExists(S))
  BY DEF TwoValued, SqlExists
<1>2. \A x : TwoValued(SqlIsNotNull(x))
  BY DEF TwoValued, SqlIsNotNull
<1>3. \A v : TwoValued(v) => TwoValued(SqlNot(v)) /\ (IsTrue(SqlNot(v)) <=> ~IsTrue(v))
  BY DEF TwoValued, SqlNot, IsTrue
<1>4. \A v, w : TwoValued(v) /\ TwoValued(w) => TwoValued(SqlAnd(v, w))
  BY DEF TwoValued, SqlAnd
<1>5. \A x, y : IF Root \in {x, y} THEN SqlEq(x, y) = "null" ELSE TwoValued(SqlEq(x, y))
  BY DEF TwoValued, SqlEq
<1>6. \A x, S : x # Root /\ Root \notin S => TwoValued(SqlIn(x, S))
  BY DEF TwoValued, SqlIn
<1>7. ~IsTrue("null") /\ SqlNot("null") = "null"
  BY DEF IsTrue, SqlNot
<1> QED BY <1>1, <1>2, <1>3, <1>4, <1>5, <1>6, <1>7

\* No NULL gets out of a member condition on picked ids.
LEMMA MembersTwoValued ==
  ASSUME MatchInv, NEW f \in InFamilies, NEW T \in SUBSET Row, NEW n \in Row
  PROVE  TwoValued(MemberIn(f, T, n))
<1>1. n # Root /\ Root \notin T
  BY MatchesAssumption
<1>2. CASE f \in {"class", "child", "referencePath", "page", "parentPath", "root"}
  <2> SUFFICES \E S : MemberIn(f, T, n) = SqlExists(S)
    BY SqlFacts
  <2> QED BY <1>2 DEF MemberIn
<1>3. CASE f = "links"
  <2>1. Root \notin LinkedTo(T)
    <3>1. \A e \in edge : e[1] \in Row
      BY DEF MatchInv, MatchTypeOK
    <3>2. UNION {Tree(t) : t \in T} \subseteq Row
      BY DEF Tree
    <3> QED BY <3>1, <3>2, MatchesAssumption DEF LinkedTo
  <2>2. MemberIn(f, T, n) = SqlIn(n, LinkedTo(T))
    BY <1>3 DEF MemberIn
  <2> QED BY <1>1, <2>1, <2>2, SqlFacts
<1>4. CASE f = "childPath"
  <2>1. Root \notin UNION {Tree(t) : t \in T}
    BY MatchesAssumption DEF Tree
  <2>2. MemberIn(f, T, n) = SqlAnd(SqlIn(n, UNION {Tree(t) : t \in T}), SqlNot(SqlIn(n, T)))
    BY <1>4 DEF MemberIn
  <2>3. TwoValued(SqlIn(n, UNION {Tree(t) : t \in T})) /\ TwoValued(SqlIn(n, T))
    BY <1>1, <2>1, SqlFacts
  <2> QED BY <2>2, <2>3, SqlFacts
<1>5. CASE f = "parent"
  <2>1. Coalesced(above[n]) # Root
    BY MatchesAssumption DEF Coalesced
  <2>2. MemberIn(f, T, n) = SqlIn(Coalesced(above[n]), T)
    BY <1>5 DEF MemberIn, ParentIn
  <2> QED BY <1>1, <2>1, <2>2, SqlFacts
<1> QED BY <1>2, <1>3, <1>4, <1>5 DEF InFamilies

LEMMA ExistsTwoValued ==
  ASSUME NEW f \in ExistsFamilies \ {"page"}, NEW n \in Row
  PROVE  TwoValued(MemberExists(f, n))
<1>1. CASE f \in {"class", "links", "child", "childPath"}
  <2> SUFFICES \E S : MemberExists(f, n) = SqlExists(S)
    BY SqlFacts
  <2> QED BY <1>1 DEF MemberExists
<1>2. CASE f \in {"parent", "parentPath"}
  <2>1. MemberExists(f, n) = SqlIsNotNull(above[n])
    BY <1>2 DEF MemberExists
  <2> QED BY <2>1, SqlFacts
<1> QED BY <1>1, <1>2 DEF ExistsFamilies, InFamilies

LEMMA InvPartitions == MatchInv => PolarityPartitions
<1> SUFFICES ASSUME MatchInv PROVE PolarityPartitions
  OBVIOUS
<1>0. live \subseteq Row
  BY DEF MatchInv, MatchTypeOK
<1>1. ASSUME NEW c, \A n \in live : TwoValued(c[n])
      PROVE  Results(Negated(c)) = live \ Results(c)
  <2>1. \A n \in live : IsTrue(Negated(c)[n]) <=> ~IsTrue(c[n])
    BY <1>0, <1>1, SqlFacts DEF Negated
  <2> QED BY <2>1 DEF Results
<1>2. ASSUME NEW f \in InFamilies, NEW T \in SUBSET Row
      PROVE  LET c == [n \in live |-> MemberIn(f, T, n)] IN Results(Negated(c)) = live \ Results(c)
  <2> DEFINE c == [n \in live |-> MemberIn(f, T, n)]
  <2>1. \A n \in live : TwoValued(c[n])
    BY <1>0, MembersTwoValued
  <2> HIDE DEF c
  <2>2. Results(Negated(c)) = live \ Results(c)
    BY <1>1, <2>1
  <2> QED BY <2>2 DEF c
<1>3. ASSUME NEW f \in ExistsFamilies \ {"page"}
      PROVE  LET c == [n \in live |-> MemberExists(f, n)] IN Results(Negated(c)) = live \ Results(c)
  <2> DEFINE c == [n \in live |-> MemberExists(f, n)]
  <2>1. \A n \in live : TwoValued(c[n])
    BY <1>0, ExistsTwoValued
  <2> HIDE DEF c
  <2>2. Results(Negated(c)) = live \ Results(c)
    BY <1>1, <2>1
  <2> QED BY <2>2 DEF c
<1>4. LET c == [n \in live |-> MemberExists("page", n)]
      IN  live \ (Results(c) \cup Results(Negated(c))) = {n \in live : ContainingPage(n) = {}}
  <2> DEFINE c == [n \in live |-> MemberExists("page", n)]
  <2>1. ASSUME NEW n \in live
        PROVE  IsTrue(c[n]) \/ IsTrue(Negated(c)[n]) <=> ContainingPage(n) # {}
    <3>1. n \in Row /\ c[n] = SqlNot(SqlEq(PageOf(n), n)) /\ Negated(c)[n] = SqlNot(c[n])
      BY <1>0 DEF MemberExists, Negated
    <3>2. ContainingPage(n) \subseteq Row
      BY <3>1, WalksAre DEF ContainingPage, Nearest
    <3>3. PageOf(n) = Root <=> ContainingPage(n) = {}
      BY <3>2, MatchesAssumption DEF PageOf
    <3>4. n # Root
      BY <3>1, MatchesAssumption
    <3>5. CASE ContainingPage(n) = {}
      BY <3>1, <3>3, <3>5, SqlFacts
    <3>6. CASE ContainingPage(n) # {}
      <4>1. TwoValued(SqlEq(PageOf(n), n))
        BY <3>3, <3>4, <3>6, SqlFacts
      <4>2. TwoValued(c[n]) /\ (IsTrue(Negated(c)[n]) <=> ~IsTrue(c[n]))
        BY <3>1, <4>1, SqlFacts
      <4> QED BY <3>6, <4>2
    <3> QED BY <3>5, <3>6
  <2> HIDE DEF c
  <2>2. live \ (Results(c) \cup Results(Negated(c))) = {n \in live : ContainingPage(n) = {}}
    BY <2>1 DEF Results
  <2> QED BY <2>2 DEF c
<1> DEFINE targets == {{x} : x \in Row} \cup {Row}
           ins == {[n \in live |-> MemberIn(f, T, n)] : f \in InFamilies, T \in targets}
           sets == {[n \in live |-> MemberExists(f, n)] : f \in ExistsFamilies \ {"page"}}
<1>5. ASSUME NEW c \in ins PROVE Results(Negated(c)) = live \ Results(c)
  <2>1. PICK f \in InFamilies, T \in targets : c = [n \in live |-> MemberIn(f, T, n)]
    OBVIOUS
  <2>2. T \in SUBSET Row
    OBVIOUS
  <2> QED BY <1>2, <2>1, <2>2
<1>6. ASSUME NEW c \in sets PROVE Results(Negated(c)) = live \ Results(c)
  <2>1. PICK f \in ExistsFamilies \ {"page"} : c = [n \in live |-> MemberExists(f, n)]
    OBVIOUS
  <2> QED BY <1>3, <2>1
<1>7. \A c \in ins \cup sets : Results(Negated(c)) = live \ Results(c)
  <2> HIDE DEF ins, sets
  <2> QED BY <1>5, <1>6
<1> QED BY <1>4, <1>7 DEF PolarityPartitions

(* For every tree, and every id or the whole mirror picked, Exclude lists exactly the
   active rows that the condition does not: no NULL of a parentless row or of a walk that
   steps past a root is left to fall out of both.  It is when no page contains the row. *)
THEOREM PolaritiesPartition == MatchSpec => []PolarityPartitions
<1>1. MatchSpec => []MatchInv
  BY MatchInitInv, MatchStepInv, PTL DEF MatchSpec
<1> QED BY <1>1, InvPartitions, PTL

\* On a way up without class, demoted root and standalone row under a block, the rows
\* that claim to be pages are those with document chrome.
LEMMA ClaimsAreChrome ==
  ASSUME MatchInv, NEW n \in Row, Placed(n), NEW x \in UpFrom(n)
  PROVE  RendersAsPage(x) <=> ClaimsPage(x) /\ (above[x] = Root => ~Demoted(x))
<1>1. x \in Row /\ x \notin isClass /\ (above[x] = Root => ~Demoted(x))
      /\ (above[x] # Root /\ x \notin inline => RendersAsPage(above[x]))
  BY WalksAre DEF Placed
<1>2. x \in UpFrom(x) /\ UpFrom(x) = IF above[x] = Root THEN {x} ELSE {x} \cup UpFrom(above[x])
  BY <1>1, WalksAre
<1>3. ASSUME RendersAsPage(x) PROVE ClaimsPage(x)
  BY <1>1, <1>2, <1>3 DEF RendersAsPage, ClaimsPage
<1>4. ASSUME ClaimsPage(x) PROVE RendersAsPage(x)
  <2>1. CASE above[x] = Root
    BY <1>1, <1>2, <2>1 DEF RendersAsPage
  <2>2. CASE above[x] # Root
    <3>1. x \notin inline /\ RendersAsPage(above[x])
      BY <1>1, <1>4, <2>2 DEF ClaimsPage
    <3> QED BY <1>1, <1>2, <2>2, <3>1 DEF RendersAsPage
  <2> QED BY <2>1, <2>2
<1> QED BY <1>1, <1>3, <1>4

LEMMA InvOpensPage == MatchInv => OpensItsPage
<1> SUFFICES ASSUME MatchInv, NEW n \in Row
             PROVE  /\ Placed(n) => Opens(n) = ContainingPage(n)
                    /\ RendersAsPage(n) => Opens(n) = {n}
  BY DEF OpensItsPage
<1>0. above \in RowParents /\ NoLoop(above)
  BY DEF MatchInv, MatchTypeOK
<1> DEFINE pages == {x \in UpFrom(n) : RendersAsPage(x)}
<1>1. \A x \in UpFrom(n) : x \in Row /\ UpFrom(x) = UpSet(above, x)
  BY WalksAre
<1>2. UpFrom(n) = UpSet(above, n) /\ n \in UpFrom(n)
  BY WalksAre
<1>3. ASSUME Placed(n) PROVE Opens(n) = ContainingPage(n)
  <2>1. Within(n) = UpFrom(n)
    BY <1>3, WalksAre DEF Placed
  <2>2. {x \in Within(n) : ClaimsPage(x) /\ (above[x] = Root => ~Demoted(x))} = pages
    BY <1>3, <2>1, ClaimsAreChrome
  <2>3. PICK r \in UpFrom(n) : above[r] = Root
    BY <1>3, <2>1 DEF Placed
  <2>4. r \in pages
    BY <1>3, <2>3, ClaimsAreChrome DEF Placed, ClaimsPage
  <2>5. pages \in SUBSET UpSet(above, n)
    BY <1>2
  <2>6. \E x \in pages : \A y \in pages : y \in UpSet(above, x)
    <3> HIDE DEF pages
    <3> QED BY <1>0, <2>4, <2>5, FirstMet
  <2>7. Nearest(pages) # {}
    BY <1>1, <2>6 DEF Nearest
  <2> QED BY <2>2, <2>7 DEF Opens, ContainingPage
<1>4. ASSUME RendersAsPage(n) PROVE Opens(n) = {n}
  <2>1. n \in Nearest(pages)
    BY <1>2, <1>4 DEF Nearest
  <2>2. ASSUME NEW x \in Nearest(pages) PROVE x = n
    <3>1. x \in UpSet(above, n) /\ n \in UpSet(above, x)
      BY <1>1, <1>2, <1>4, <2>2 DEF Nearest
    <3> QED BY <1>0, <3>1, NoTwoAbove
  <2> QED BY <2>1, <2>2 DEF Opens
<1> QED BY <1>3, <1>4

(* The page that a result opens is the one the "page" condition files it under, for every
   tree: the store's walks go all the way, the query's as far as its bound. *)
THEOREM ResultsOpenTheirPage == MatchSpec => []OpensItsPage
<1>1. MatchSpec => []MatchInv
  BY MatchInitInv, MatchStepInv, PTL DEF MatchSpec
<1> QED BY <1>1, InvOpensPage, PTL

(* Whatever is trashed and restored in whatever order, a row that no view shows can be
   restored from the trash, unless it or a row above it was moved or made a class, or it
   was archived itself. *)
THEOREM StrandedByMoves == MatchSpec => OnlyMoveStrands
<1> DEFINE Keeps == \A n \in Stranded' \ Stranded :
                      \/ \E x \in UpFrom(n) : above'[x] # above[x]
                      \/ n \in live /\ Archives(n)
<1>1. ASSUME MatchNext, MatchInv, MatchInv' PROVE Keeps
  <2> SUFFICES ASSUME NEW x \in Stranded', x \notin Stranded,
                      \A y \in UpFrom(x) : above'[y] = above[y]
               PROVE  x \in live /\ Archives(x)
    OBVIOUS
  <2>1. x \in Row /\ x \notin live' /\ UpFrom(x)' \cap binned' = {}
    BY DEF Stranded
  <2>2. UpFrom(x)' = UpFrom(x)
    <3>1. above \in RowParents /\ above' \in RowParents
      BY <1>1 DEF MatchInv, MatchTypeOK
    <3>2. UpFrom(x) = UpSet(above, x) /\ UpFrom(x)' = UpSet(above', x)
      BY <2>1, <3>1, ClimbAll DEF UpFrom
    <3> QED BY <2>1, <3>1, <3>2, SameWayUp
  <2>3. UpFrom(x) \cap binned' = {} /\ x \in UpFrom(x) /\ UpFrom(x) \subseteq Row
    BY <1>1, <2>1, <2>2, WalksAre
  <2>4. ASSUME binned' = binned PROVE x \in live
    BY <2>1, <2>3, <2>4 DEF Stranded
  <2>5. ASSUME NEW n \in Row, NEW p \in Row \cup {Root}, MoveRow(n, p) PROVE FALSE
    BY <2>1, <2>4, <2>5 DEF MoveRow
  <2>6. ASSUME NEW n \in Row, ConvertRow(n) PROVE FALSE
    BY <2>1, <2>4, <2>6 DEF ConvertRow
  <2>7. ASSUME NEW n \in Row, TrashRow(n) PROVE x \in live /\ Archives(x)
    <3>1. CASE n \in System
      <4>1. x \in live /\ x = n
        BY <2>1, <2>4, <2>7, <3>1 DEF TrashRow
      <4> QED BY <2>7, <3>1, <4>1 DEF Archives
    <3>2. CASE n \notin System
      <4>1. n \notin UpFrom(x) /\ UpFrom(x) \cap binned = {}
        BY <2>3, <2>7, <3>2 DEF TrashRow
      <4>2. x \notin live
        BY <2>1, <2>7, <3>2, <4>1 DEF TrashRow, Tree
      <4> QED BY <2>1, <4>1, <4>2 DEF Stranded
    <3> QED BY <3>1, <3>2
  <2>8. ASSUME NEW n \in Row, RestoreRow(n) PROVE FALSE
    <3>1. UpFrom(x) \cap binned \subseteq {n} /\ x \notin live
      BY <2>1, <2>3, <2>8 DEF RestoreRow
    <3>2. n \notin UpFrom(x)
      BY <2>1, <2>8, <3>1 DEF RestoreRow, Rides, Tree
    <3> QED BY <2>1, <3>1, <3>2 DEF Stranded
  <2>9. ASSUME NEW n \in Row, ArchiveRow(n) PROVE x \in live /\ Archives(x)
    <3>1. x \in live /\ x = n
      BY <2>1, <2>4, <2>9 DEF ArchiveRow
    <3> QED BY <2>9, <3>1 DEF Archives
  <2>10. ASSUME NEW n \in Row, UnarchiveRow(n) PROVE FALSE
    BY <2>1, <2>4, <2>10 DEF UnarchiveRow
  <2>11. ASSUME NEW on \in SUBSET Gated, SetFeatures(on) PROVE x \in live /\ Archives(x)
    <3>1. x \in live /\ x \in Gated
      BY <2>1, <2>4, <2>11 DEF SetFeatures
    <3> QED BY <2>11, <3>1 DEF Archives
  <2>12. ASSUME NEW n \in Row, EditRow(n) PROVE FALSE
    BY <2>1, <2>4, <2>12 DEF EditRow
  <2> QED BY <1>1, <2>5, <2>6, <2>7, <2>8, <2>9, <2>10, <2>11, <2>12 DEF MatchNext
<1>2. MatchInv /\ MatchInv' /\ [MatchNext]_matchVars => [Keeps]_matchVars
  BY <1>1
<1>3. MatchSpec => []MatchInv
  BY MatchInitInv, MatchStepInv, PTL DEF MatchSpec
<1> QED BY <1>2, <1>3, PTL DEF MatchSpec, OnlyMoveStrands

-----------------------------------------------------------------------------
(* Features. *)

SetStamps == ToggleStamps \cup {NeverSet}
FeatureRow == [enabled : BOOLEAN, stamp : SetStamps]
NodeBits == [exists : BOOLEAN, active : BOOLEAN, stamp : SetStamps]
RowBits == [exists : BOOLEAN, active : BOOLEAN]

FeaturesTypeOK ==
  /\ features \in [Feature -> FeatureRow]
  /\ classNodes \in [SystemClass -> NodeBits]
  /\ classRows \in [SystemClass -> RowBits]
  /\ delivered \subseteq FeatureEnvelope

\* A class with a node has a registry row.
Registered == \A c \in SystemClass : classNodes[c].exists => classRows[c].exists

FeaturesInv == FeaturesTypeOK /\ Registered

\* A class is in a feature's family when the feature gates it.
LEMMA FamiliesAreGates ==
  /\ \A f \in FamilyFeature, c \in SystemClass : f \in GatingFeatures[c] <=> c \in FamilyClasses[f]
  /\ \A c \in SystemClass : GatingFeatures[c] \subseteq FamilyFeature
  /\ "task" \in SystemClass => "task" \in FamilyClasses["tasks"]
  /\ "tasks" \in FamilyFeature
<1>1. \A f \in FamilyFeature, c \in SystemClass : f \in GatingFeatures[c] <=> c \in FamilyClasses[f]
  BY DEF GatingFeatures, FamilyClasses
<1>2. \A c \in SystemClass : GatingFeatures[c] \subseteq FamilyFeature
  BY DEF GatingFeatures
<1>3. "tasks" \in FamilyFeature /\ BaseClass["tasks"] = "task"
  BY DEF FamilyFeature, BaseClass
<1>4. "task" \in SystemClass => "task" \in FamilyClasses["tasks"]
  BY <1>3 DEF FamilyClasses
<1> QED BY <1>1, <1>2, <1>3, <1>4

LEMMA GateIs ==
  ASSUME NEW rows \in [Feature -> FeatureRow], NEW c \in SystemClass
  PROVE  Gate(rows, c) \in BOOLEAN
BY DEF Gate

LEMMA EnvelopeParts ==
  ASSUME NEW e \in FeatureEnvelope
  PROVE  /\ e.stamp \in SetStamps
         /\ e.op \in {"workspace.feature.set", "class.create", "object.delete", "object.update"}
         /\ e.op = "workspace.feature.set" => e.feature \in Feature /\ e.enabled \in BOOLEAN
         /\ e.op # "workspace.feature.set" => e.class \in SystemClass
         /\ e.op = "object.update" => e.active \in BOOLEAN
BY DEF FeatureEnvelope, SetStamps

LEMMA BitsTyped ==
  ASSUME NEW rows \in [Feature -> FeatureRow], NEW family
  PROVE  /\ \A T \in [SystemClass -> NodeBits] : FamilyBits(rows, family, T) \in [SystemClass -> NodeBits]
         /\ \A T \in [SystemClass -> RowBits] : FamilyBits(rows, family, T) \in [SystemClass -> RowBits]
<1>1. ASSUME NEW T \in [SystemClass -> NodeBits]
      PROVE  FamilyBits(rows, family, T) \in [SystemClass -> NodeBits]
  <2>1. \A c \in SystemClass : [T[c] EXCEPT !.active = Gate(rows, c)] \in NodeBits /\ T[c] \in NodeBits
    BY GateIs DEF NodeBits
  <2> QED BY <2>1 DEF FamilyBits
<1>2. ASSUME NEW T \in [SystemClass -> RowBits]
      PROVE  FamilyBits(rows, family, T) \in [SystemClass -> RowBits]
  <2>1. \A c \in SystemClass : [T[c] EXCEPT !.active = Gate(rows, c)] \in RowBits /\ T[c] \in RowBits
    BY GateIs DEF RowBits
  <2> QED BY <2>1 DEF FamilyBits
<1> QED BY <1>1, <1>2

\* U is T with the family's bits derived, bit by bit.
Derived(rows, family, T, U) ==
  \A c \in SystemClass :
    /\ U[c].exists = T[c].exists
    /\ U[c].active = IF c \in family /\ T[c].exists THEN Gate(rows, c) ELSE T[c].active

LEMMA BitsAre ==
  ASSUME NEW rows, NEW family, NEW T,
         T \in [SystemClass -> NodeBits] \/ T \in [SystemClass -> RowBits]
  PROVE  Derived(rows, family, T, FamilyBits(rows, family, T))
BY DEF Derived, FamilyBits, NodeBits, RowBits

-----------------------------------------------------------------------------
(* A toggle of f over tables in which a class outside of its family is as before. *)
ToggleOf(f, N, R) ==
  /\ f \in Feature \cap FamilyFeature
  /\ \A g \in Feature : g # f => features'[g] = features[g]
  /\ N \in [SystemClass -> NodeBits] /\ R \in [SystemClass -> RowBits]
  /\ \A c \in SystemClass : c \notin FamilyClasses[f] => N[c] = classNodes[c] /\ R[c] = classRows[c]
  /\ \A c \in SystemClass : N[c].exists => R[c].exists
  /\ features' \in [Feature -> FeatureRow]
  /\ classNodes' = FamilyBits(features', FamilyClasses[f], N)
  /\ classRows' = FamilyBits(features', FamilyClasses[f], R)

LEMMA ToggleKeeps ==
  ASSUME FeaturesInv, NEW f, NEW N, NEW R, ToggleOf(f, N, R), delivered' \subseteq FeatureEnvelope
  PROVE  /\ FeaturesInv'
         /\ \A c \in SystemClass : (Follows(c) => Follows(c)') /\ (Agree(c) => Agree(c)')
<1> USE DEF ToggleOf
<1>1. classNodes' \in [SystemClass -> NodeBits] /\ classRows' \in [SystemClass -> RowBits]
  BY BitsTyped
<1>2. ASSUME NEW c \in SystemClass
      PROVE  /\ classNodes'[c].exists = N[c].exists /\ classRows'[c].exists = R[c].exists
             /\ classNodes'[c].active = IF c \in FamilyClasses[f] /\ N[c].exists THEN Gate(features', c) ELSE N[c].active
             /\ classRows'[c].active = IF c \in FamilyClasses[f] /\ R[c].exists THEN Gate(features', c) ELSE R[c].active
  <2>1. Derived(features', FamilyClasses[f], N, classNodes') /\ Derived(features', FamilyClasses[f], R, classRows')
    BY BitsAre
  <2> QED BY <2>1 DEF Derived
<1>3. FeaturesInv'
  BY <1>1, <1>2 DEF FeaturesInv, FeaturesTypeOK, Registered
<1>4. ASSUME NEW c \in SystemClass, c \notin FamilyClasses[f]
      PROVE  Gate(features', c) = Gate(features, c)
  <2>1. f \notin GatingFeatures[c]
    BY <1>4, FamiliesAreGates
  <2>2. \A g \in GatingFeatures[c] : EnabledIn(features', g) = EnabledIn(features, g)
    BY <2>1 DEF EnabledIn
  <2> QED BY <2>2 DEF Gate
<1>5. ASSUME NEW c \in SystemClass, Follows(c) PROVE Follows(c)'
  <2>1. Follows(c)' <=> (classNodes'[c].exists => classNodes'[c].active = Gate(features', c))
    BY DEF Follows, Gate, EnabledIn
  <2> QED BY <1>2, <1>4, <1>5, <2>1 DEF Follows
<1>6. ASSUME NEW c \in SystemClass, Agree(c) PROVE Agree(c)'
  BY <1>2, <1>6 DEF Agree
<1> QED BY <1>3, <1>5, <1>6

\* Nothing but the toggles' rows, one that gates no class.
LEMMA UngatedKeeps ==
  ASSUME FeaturesInv, UNCHANGED <<classNodes, classRows>>, features' \in [Feature -> FeatureRow],
         \A g \in Feature \cap FamilyFeature : features'[g] = features[g],
         delivered' \subseteq FeatureEnvelope
  PROVE  /\ FeaturesInv'
         /\ \A c \in SystemClass : (Follows(c) => Follows(c)') /\ (Agree(c) => Agree(c)')
<1>1. FeaturesInv'
  BY DEF FeaturesInv, FeaturesTypeOK, Registered
<1>2. ASSUME NEW c \in SystemClass, Follows(c) PROVE Follows(c)'
  <2>1. \A g \in GatingFeatures[c] : EnabledIn(features', g) = EnabledIn(features, g)
    BY FamiliesAreGates DEF EnabledIn
  <2>2. Gate(features', c) = Gate(features, c)
    BY <2>1 DEF Gate
  <2>3. Follows(c)' <=> (classNodes'[c].exists => classNodes'[c].active = Gate(features', c))
    BY DEF Follows, Gate, EnabledIn
  <2> QED BY <1>2, <2>2, <2>3 DEF Follows
<1>3. ASSUME NEW c \in SystemClass, Agree(c) PROVE Agree(c)'
  BY <1>3 DEF Agree
<1> QED BY <1>1, <1>2, <1>3

LEMMA WriteFeatureTyped ==
  ASSUME FeaturesInv, NEW f \in Feature, NEW b \in BOOLEAN, NEW s \in SetStamps
  PROVE  /\ WriteFeature(f, b, s) \in [Feature -> FeatureRow]
         /\ \A g \in Feature : g # f => WriteFeature(f, b, s)[g] = features[g]
         /\ ~Ahead(s, features[f].stamp) => WriteFeature(f, b, s) = features
BY DEF WriteFeature, FeaturesInv, FeaturesTypeOK, FeatureRow

-----------------------------------------------------------------------------
Drift(e) == \A c \in SystemClass : (GatingFeatures[c] # {} => DriftsByItself(c, e)) /\ SplitsRedeclared(c, e)

LEMMA KeepsAreDrifts ==
  ASSUME NEW e, \A c \in SystemClass : (Follows(c) => Follows(c)') /\ (Agree(c) => Agree(c)')
  PROVE  Drift(e)
BY DEF Drift, DriftsByItself, SplitsRedeclared

LEMMA FeatureSetKeeps ==
  ASSUME FeaturesInv, NEW e \in FeatureEnvelope, FeatureSet(e), delivered' \subseteq FeatureEnvelope
  PROVE  FeaturesInv' /\ Drift(e)
<1>1. /\ e.feature \in Feature /\ e.enabled \in BOOLEAN /\ e.stamp \in SetStamps
      /\ features' = WriteFeature(e.feature, e.enabled, e.stamp)
  BY EnvelopeParts DEF FeatureSet
<1>2. /\ features' \in [Feature -> FeatureRow]
      /\ \A g \in Feature : g # e.feature => features'[g] = features[g]
      /\ ~Ahead(e.stamp, features[e.feature].stamp) => features' = features
  BY <1>1, WriteFeatureTyped
<1>3. CASE UNCHANGED <<classNodes, classRows>> /\ (e.feature \in FamilyFeature => features' = features)
  BY <1>2, <1>3, UngatedKeeps, KeepsAreDrifts
<1> DEFINE ensures == e.feature = "tasks" /\ e.enabled /\ "task" \in SystemClass
           N == IF ensures THEN EnsureTaskFamily(classNodes, e.stamp) ELSE classNodes
           R == IF ensures /\ ~classRows["task"].exists
                  THEN [classRows EXCEPT !["task"] = [exists |-> TRUE, active |-> TRUE]] ELSE classRows
<1>4. CASE e.feature \in FamilyFeature /\ classNodes' = FamilyBits(features', FamilyClasses[e.feature], N)
           /\ classRows' = FamilyBits(features', FamilyClasses[e.feature], R)
  <2>1. N \in [SystemClass -> NodeBits] /\ R \in [SystemClass -> RowBits]
    <3>1. "task" \in SystemClass => EnsureTaskFamily(classNodes, e.stamp) \in [SystemClass -> NodeBits]
      BY <1>1 DEF EnsureTaskFamily, NodeBits, FeaturesInv, FeaturesTypeOK
    <3>2. "task" \in SystemClass => [classRows EXCEPT !["task"] = [exists |-> TRUE, active |-> TRUE]] \in [SystemClass -> RowBits]
      BY DEF RowBits, FeaturesInv, FeaturesTypeOK
    <3> QED BY <3>1, <3>2 DEF FeaturesInv, FeaturesTypeOK
  <2>2. \A c \in SystemClass : c # "task" \/ ~ensures => N[c] = classNodes[c] /\ R[c] = classRows[c]
    BY DEF EnsureTaskFamily, FeaturesInv, FeaturesTypeOK
  <2>3. ensures => "task" \in FamilyClasses[e.feature]
    BY FamiliesAreGates
  <2>4. ensures => R["task"].exists
    BY DEF FeaturesInv, FeaturesTypeOK, RowBits
  <2>5. \A c \in SystemClass : N[c].exists => R[c].exists
    BY <2>2, <2>4 DEF FeaturesInv, Registered
  <2> HIDE DEF N, R, ensures
  <2>6. ToggleOf(e.feature, N, R)
    BY <1>1, <1>2, <1>4, <2>1, <2>2, <2>3, <2>5 DEF ToggleOf
  <2> QED BY <2>6, ToggleKeeps, KeepsAreDrifts
<1> QED BY <1>2, <1>3, <1>4 DEF FeatureSet

LEMMA CreateKeeps ==
  ASSUME FeaturesInv, NEW e \in FeatureEnvelope, CreateClass(e), delivered' \subseteq FeatureEnvelope
  PROVE  FeaturesInv' /\ Drift(e)
<1>1. e.class \in SystemClass /\ e.stamp \in SetStamps /\ e.op = "class.create"
  BY EnvelopeParts DEF CreateClass
<1>2. /\ classNodes' \in [SystemClass -> NodeBits] /\ classRows' \in [SystemClass -> RowBits]
      /\ features' = features
  BY <1>1 DEF CreateClass, NodeBits, RowBits, FeaturesInv, FeaturesTypeOK
<1>3. \A c \in SystemClass : c # e.class => classNodes'[c] = classNodes[c] /\ classRows'[c] = classRows[c]
  BY DEF CreateClass, FeaturesInv, FeaturesTypeOK
<1>4. /\ classRows'[e.class].exists /\ classRows'[e.class].active = TRUE
      /\ classNodes'[e.class].active = IF classNodes[e.class].exists THEN classNodes[e.class].active ELSE TRUE
  BY <1>1 DEF CreateClass, NodeBits, FeaturesInv, FeaturesTypeOK
<1>5. FeaturesInv'
  BY <1>2, <1>3, <1>4 DEF FeaturesInv, FeaturesTypeOK, Registered
<1>6. ASSUME NEW c \in SystemClass, c # e.class
      PROVE  (Follows(c) => Follows(c)') /\ (Agree(c) => Agree(c)')
  <2>1. Gate(features, c)' = Gate(features, c)
    BY <1>2 DEF Gate, EnabledIn
  <2> QED BY <1>3, <1>6, <2>1 DEF Follows, Agree
<1>7. Agree(e.class) /\ ~Agree(e.class)' => ~classNodes[e.class].active
  BY <1>4 DEF Agree
<1> QED BY <1>1, <1>5, <1>6, <1>7 DEF Drift, DriftsByItself, SplitsRedeclared

\* A delete or an update that writes the bits of one class in both tables alike.
LEMMA WriteKeeps ==
  ASSUME FeaturesInv, NEW e \in FeatureEnvelope, e.op \in {"object.update", "object.delete"},
         delivered' \subseteq FeatureEnvelope, features' = features,
         classNodes' \in [SystemClass -> NodeBits], classRows' \in [SystemClass -> RowBits],
         \A c \in SystemClass : c # e.class => classNodes'[c] = classNodes[c] /\ classRows'[c] = classRows[c],
         classNodes'[e.class].exists = classNodes[e.class].exists,
         classRows'[e.class].exists = classRows[e.class].exists,
         classNodes'[e.class].active = classRows'[e.class].active
  PROVE  FeaturesInv' /\ Drift(e)
<1>1. e.class \in SystemClass
  BY EnvelopeParts
<1>2. FeaturesInv'
  BY <1>1 DEF FeaturesInv, FeaturesTypeOK, Registered
<1>3. ASSUME NEW c \in SystemClass, c # e.class
      PROVE  (Follows(c) => Follows(c)') /\ (Agree(c) => Agree(c)')
  <2>1. Gate(features, c)' = Gate(features, c)
    BY DEF Gate, EnabledIn
  <2> QED BY <1>3, <2>1 DEF Follows, Agree
<1>4. Agree(e.class)'
  BY DEF Agree
<1> QED BY <1>2, <1>3, <1>4 DEF Drift, DriftsByItself, SplitsRedeclared

LEMMA StillKeeps ==
  ASSUME FeaturesInv, NEW e \in FeatureEnvelope, delivered' \subseteq FeatureEnvelope,
         UNCHANGED <<features, classNodes, classRows>>
  PROVE  FeaturesInv' /\ Drift(e)
BY UngatedKeeps, KeepsAreDrifts DEF FeaturesInv, FeaturesTypeOK

LEMMA DeleteKeeps ==
  ASSUME FeaturesInv, NEW e \in FeatureEnvelope, ObjectDelete(e), delivered' \subseteq FeatureEnvelope
  PROVE  FeaturesInv' /\ Drift(e)
<1>1. e.class \in SystemClass /\ e.stamp \in SetStamps /\ e.op = "object.delete"
  BY EnvelopeParts DEF ObjectDelete
<1>2. CASE UNCHANGED <<features, classNodes, classRows>>
  BY <1>2, StillKeeps
<1>3. ASSUME NEW f \in FamilyFeature \cap Feature, features' = WriteFeature(f, FALSE, e.stamp),
             classNodes' = FamilyBits(features', FamilyClasses[f], classNodes),
             classRows' = FamilyBits(features', FamilyClasses[f], classRows)
      PROVE  FeaturesInv' /\ Drift(e)
  <2>1. ToggleOf(f, classNodes, classRows)
    BY <1>1, <1>3, WriteFeatureTyped DEF ToggleOf, FeaturesInv, FeaturesTypeOK, Registered
  <2> QED BY <2>1, ToggleKeeps, KeepsAreDrifts
<1>4. CASE /\ classNodes' = [classNodes EXCEPT ![e.class].active = FALSE]
           /\ classRows' = [classRows EXCEPT ![e.class].active = FALSE]
           /\ features' = features
  <2>1. /\ classNodes' \in [SystemClass -> NodeBits] /\ classRows' \in [SystemClass -> RowBits]
        /\ \A c \in SystemClass : c # e.class => classNodes'[c] = classNodes[c] /\ classRows'[c] = classRows[c]
        /\ classNodes'[e.class].exists = classNodes[e.class].exists
        /\ classRows'[e.class].exists = classRows[e.class].exists
        /\ classNodes'[e.class].active = classRows'[e.class].active
    BY <1>1, <1>4 DEF FeaturesInv, FeaturesTypeOK, NodeBits, RowBits
  <2> QED BY <1>1, <1>4, <2>1, WriteKeeps
<1> QED BY <1>2, <1>3, <1>4 DEF ObjectDelete, RefuseUpdate

LEMMA UpdateKeeps ==
  ASSUME FeaturesInv, NEW e \in FeatureEnvelope, ObjectUpdate(e), delivered' \subseteq FeatureEnvelope
  PROVE  FeaturesInv' /\ Drift(e)
<1>1. e.class \in SystemClass /\ e.stamp \in SetStamps /\ e.op = "object.update" /\ e.active \in BOOLEAN
  BY EnvelopeParts DEF ObjectUpdate
<1>2. CASE UNCHANGED <<features, classNodes, classRows>>
  BY <1>2, StillKeeps
<1>3. CASE /\ classNodes' = [classNodes EXCEPT ![e.class].active = e.active, ![e.class].stamp = e.stamp]
           /\ classRows' = [classRows EXCEPT ![e.class].active = e.active]
           /\ features' = features
  <2>1. /\ classNodes' \in [SystemClass -> NodeBits] /\ classRows' \in [SystemClass -> RowBits]
        /\ \A c \in SystemClass : c # e.class => classNodes'[c] = classNodes[c] /\ classRows'[c] = classRows[c]
        /\ classNodes'[e.class].exists = classNodes[e.class].exists
        /\ classRows'[e.class].exists = classRows[e.class].exists
        /\ classNodes'[e.class].active = classRows'[e.class].active
    BY <1>1, <1>3 DEF FeaturesInv, FeaturesTypeOK, NodeBits, RowBits
  <2> QED BY <1>1, <1>3, <2>1, WriteKeeps
<1> QED BY <1>2, <1>3 DEF ObjectUpdate, RefuseUpdate

LEMMA DeliverKeeps ==
  ASSUME FeaturesInv, NEW e \in FeatureEnvelope \ delivered, DeliverFeature(e)
  PROVE  FeaturesInv' /\ Drift(e) /\ delivered' = delivered \cup {e}
<1>1. delivered' = delivered \cup {e} /\ delivered' \subseteq FeatureEnvelope
  BY DEF DeliverFeature, FeaturesInv, FeaturesTypeOK
<1> QED BY <1>1, FeatureSetKeeps, CreateKeeps, DeleteKeeps, UpdateKeeps DEF DeliverFeature

LEMMA FeaturesInitInv == FeaturesInit => FeaturesInv
<1>1. [enabled |-> TRUE, stamp |-> NeverSet] \in FeatureRow
      /\ [exists |-> FALSE, active |-> FALSE, stamp |-> NeverSet] \in NodeBits
      /\ [exists |-> FALSE, active |-> FALSE] \in RowBits
  BY DEF FeatureRow, NodeBits, RowBits, SetStamps
<1> QED BY <1>1 DEF FeaturesInit, FeaturesInv, FeaturesTypeOK, Registered

LEMMA FeaturesStepInv == FeaturesInv /\ [FeaturesNext]_featureVars => FeaturesInv'
<1>1. ASSUME FeaturesInv, UNCHANGED featureVars PROVE FeaturesInv'
  BY <1>1 DEF featureVars, FeaturesInv, FeaturesTypeOK, Registered
<1> QED BY <1>1, DeliverKeeps DEF FeaturesNext

(* A class under two toggles shows only while both are on, and its two bits agree: for
   every vocabulary of classes, no feature's toggle makes a class leave the gates, and the
   node's bit and the registry's part only when an archived class is declared again. *)
THEOREM DriftsAreOwn == FeaturesSpec => OnlyOwnEnvelopeDrifts
<1> DEFINE Drifts == \A e \in delivered' \ delivered, c \in SystemClass :
                       (GatingFeatures[c] # {} => DriftsByItself(c, e)) /\ SplitsRedeclared(c, e)
<1>1. FeaturesInv /\ [FeaturesNext]_featureVars => [Drifts]_featureVars
  <2> SUFFICES ASSUME FeaturesInv, FeaturesNext PROVE Drifts
    OBVIOUS
  <2>1. PICK d \in FeatureEnvelope \ delivered : DeliverFeature(d)
    BY DEF FeaturesNext
  <2>2. Drift(d) /\ delivered' = delivered \cup {d}
    BY <2>1, DeliverKeeps
  <2>3. \A e \in delivered' \ delivered : e = d
    BY <2>2
  <2> QED BY <2>2, <2>3 DEF Drift
<1>2. FeaturesSpec => []FeaturesInv
  BY FeaturesInitInv, FeaturesStepInv, PTL DEF FeaturesSpec
<1> QED BY <1>1, <1>2, PTL DEF FeaturesSpec, OnlyOwnEnvelopeDrifts
=================================================================================
