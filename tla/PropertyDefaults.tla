--------------------------- MODULE PropertyDefaults ---------------------------
(***************************************************************************)
(* The default of one property schema on one node: the property_schema     *)
(* row, the bindings of class_property, the node's classes, and the three  *)
(* derivations of the value shown: the panel (get_effective_properties in  *)
(* data/store.py), a condition on the property and an aggregation over it  *)
(* (core/query/compiler.py).  A default is never stored per node, each     *)
(* read derives it from the class tables of ClassHierarchy.                *)
(*                                                                         *)
(* The default is schema-level, so the binding that wins (by distance and  *)
(* order of assignment) gives its class for display and never the value:   *)
(* left out, as are names, formats, display contracts and validation rules *)
(* of the schema.  An authored value is one visible row at position 0      *)
(* (PropertyValues).                                                       *)
(***************************************************************************)
EXTENDS ClassHierarchy

CONSTANTS
  Scopes,        \* scope lists a schema may have, {} for a global one
  BindingStamp,  \* stamps of the binding envelopes
  MaxConfig      \* bound on the steps

ASSUME DefaultsAssumption ==
  /\ Scopes \subseteq SUBSET Class
  /\ BindingStamp \subseteq Nat \ {0}
  /\ MaxConfig \in Nat

VARIABLES
  schemaRow,   \* the property_schema row, or NoSchema
  binding,     \* class_property by class, or Unbound
  member,      \* the node's classes
  authored,    \* a visible value at position 0
  configured   \* steps taken

defaultVars == <<tables, schemaRow, binding, member, authored, configured>>

\* An option of the schema, a list of them, a number; one option "opt" in all.
PropertyType == {"select", "multi_select", "number"}
DefaultValue == {"opt", "[opt]", "7", "null"}

\* Options matter to the select types only.
SchemaRow ==
  {row \in [type : PropertyType, default : DefaultValue, options : SUBSET {"opt"}, scope : Scopes, active : BOOLEAN] :
     row.type = "number" => row.options = {}}
NoSchema == [type |-> "none"]
Unbound == [stamp |-> 0, active |-> FALSE]   \* no row: every stamp beats it

ValidDefault(type, value) ==
  value \in {"null", CASE type = "select" -> "opt" [] type = "multi_select" -> "[opt]" [] type = "number" -> "7"}

-----------------------------------------------------------------------------
(* Eligibility, written: the closure table.  Read: the walk over the edges. *)
ClosureMeets(classes, scope) ==
  scope = {} \/ \E c \in classes : c \in scope \/ \E a \in scope : <<c, a>> \in tables.hierarchy

Reach(classes) == UNION {Ancestors(c, tables.extends) : c \in classes}

EligibleRead == schemaRow.scope = {} \/ Reach(member) \cap schemaRow.scope # {}

-----------------------------------------------------------------------------
(* propertySchema.*, class.property.*, and the node's own envelopes. *)

\* Upsert: the payload is the whole row.
CreateSchema ==
  /\ \E row \in SchemaRow : /\ row.active /\ ValidDefault(row.type, row.default)
                            /\ schemaRow' = row
  /\ UNCHANGED <<tables, binding, member, authored>>

\* The type stays, and a new default is checked against it; an unknown id updates no row.
UpdateSchema ==
  /\ schemaRow # NoSchema
  /\ \E row \in SchemaRow : /\ row.type = schemaRow.type /\ ValidDefault(row.type, row.default)
                            /\ row.active = schemaRow.active
                            /\ schemaRow' = row
  /\ UNCHANGED <<tables, binding, member, authored>>

\* The row stays behind its archival bit, which none of the reads below asks.
DeleteSchema ==
  /\ schemaRow # NoSchema
  /\ schemaRow' = [schemaRow EXCEPT !.active = FALSE]
  /\ UNCHANGED <<tables, binding, member, authored>>

\* Row LWW, then the scope check; a payload without the flag keeps the stored one.
BindProperty(c, stamp, flag) ==
  LET stored == binding[c]
  IN  /\ stamp > stored.stamp
      /\ schemaRow # NoSchema => ClosureMeets({c}, schemaRow.scope)
      /\ binding' = [binding EXCEPT ![c] =
           [stamp |-> stamp,
            active |-> IF flag = "absent" THEN stored = Unbound \/ stored.active ELSE flag = "on"]]
      /\ UNCHANGED <<tables, schemaRow, member, authored>>

\* A plain delete: no tombstone, no stamp asked.
UnbindProperty(c) ==
  /\ binding' = [binding EXCEPT ![c] = Unbound]
  /\ UNCHANGED <<tables, schemaRow, member, authored>>

\* class.assign, class.unassign (Replicas).
ReclassNode ==
  /\ \E c \in Class : member' = (member \ {c}) \cup ({c} \ member)
  /\ UNCHANGED <<tables, schemaRow, binding, authored>>

\* property.set and its removal (PropertyValues): a scope refuses the first only.
AuthorValue ==
  /\ schemaRow # NoSchema => ClosureMeets(member, schemaRow.scope)
  /\ authored' = TRUE
  /\ UNCHANGED <<tables, schemaRow, binding, member>>

ClearValue ==
  /\ authored' = FALSE
  /\ UNCHANGED <<tables, schemaRow, binding, member>>

\* A class envelope (ClassHierarchy); deleting the class's node takes its bindings along.
ReceiveRegistry(e) ==
  /\ ReceiveClass(e)
  /\ binding' = IF e.op = "object.delete" /\ e.class \in tables.nodes \ DOMAIN Seeded
                  THEN [binding EXCEPT ![e.class] = Unbound] ELSE binding
  /\ UNCHANGED <<schemaRow, member, authored>>

\* wipe clears what hangs on a node row; the schema row has none.
WipeConfig ==
  /\ WipeClasses
  /\ binding' = [c \in Class |-> IF c \in tables.nodes THEN Unbound ELSE binding[c]]
  /\ member' = {} /\ authored' = FALSE
  /\ UNCHANGED schemaRow

Declared == [nodes |-> Class, registry |-> Class, extends |-> {}, hierarchy |-> {<<c, c>> : c \in Class}]

DefaultsInit ==
  /\ schemaRow = NoSchema
  /\ binding = [c \in Class |-> Unbound]
  /\ member = {} /\ authored = FALSE
  /\ configured = 0

DefaultsNext ==
  /\ configured < MaxConfig
  /\ configured' = configured + 1
  /\ \/ CreateSchema \/ UpdateSchema \/ DeleteSchema
     \/ \E c \in Class, stamp \in BindingStamp, flag \in {"absent", "on", "off"} : BindProperty(c, stamp, flag)
     \/ \E c \in Class : UnbindProperty(c)
     \/ ReclassNode \/ AuthorValue \/ ClearValue
     \/ \E e \in ClassEnvelope : ReceiveRegistry(e)
     \/ WipeConfig

DefaultsSpec == tables = Declared /\ DefaultsInit /\ [][DefaultsNext]_defaultVars

-----------------------------------------------------------------------------
(* What a class that binds the property gives the node: by the panel's walk,
   and by the join of the query, which knows the node's own classes only. *)
Binds(c) == binding[c].active
PanelBound == \E c \in Reach(member) : Binds(c)
QueryBound == \E c \in member : Binds(c)

\* A default that is a list of options is not asked for its members.
PanelValue ==
  IF authored THEN "authored"
  ELSE IF /\ schemaRow # NoSchema /\ PanelBound /\ EligibleRead
          /\ ValidDefault(schemaRow.type, schemaRow.default)
          /\ schemaRow.type = "select" => schemaRow.default \in schemaRow.options
         THEN schemaRow.default ELSE "null"

\* Wrong on purpose: the options are not asked.
DerivedByQueryUnasked == IF schemaRow # NoSchema /\ QueryBound THEN schemaRow.default ELSE "null"

\* An option of the schema must equal the default: a list equals none.
DerivedByQuery ==
  IF /\ schemaRow # NoSchema /\ QueryBound
     /\ schemaRow.type \in {"select", "multi_select"} => schemaRow.default \in schemaRow.options
    THEN schemaRow.default ELSE "null"

QueryValue == IF authored THEN "authored" ELSE DerivedByQuery

\* An aggregation groups by the default whatever the options.
AggregateValue ==
  IF authored THEN "authored"
  ELSE IF schemaRow # NoSchema /\ QueryBound THEN schemaRow.default ELSE "null"

-----------------------------------------------------------------------------
(* The three reads of one property agree, whatever was configured before, but for a
   default that only an ancestor binds, one the node's classes put out of scope, a
   list of options, and, grouped by, an option the schema no longer has. *)
ReadsAgree ==
  LET inherited == PanelBound /\ ~QueryBound
      outOfScope == schemaRow # NoSchema /\ ~EligibleRead
      list == schemaRow.type = "multi_select"
  IN  ~inherited /\ ~outOfScope /\ ~list =>
        /\ PanelValue = QueryValue
        /\ AggregateValue # QueryValue => schemaRow.default \notin schemaRow.options
=============================================================================
