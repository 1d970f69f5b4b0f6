----------------------------- MODULE QueryBuilder -----------------------------
(***************************************************************************)
(* The query builder dialog over one query token: the draft's condition    *)
(* rows and what each control does to them (core/query/builder.py and      *)
(* ui/query_builder.py), the prune and dump on Apply and the strict parse  *)
(* on the next opening (core/protocol/query_ast.py), and whether the       *)
(* applied query compiles (core/query/compiler.py).                        *)
(*                                                                         *)
(* A draft is the tree of rows below its root group, kept as one function: *)
(* a row is a condition or a group, perhaps under a NOT, and names every   *)
(* row it stands below, groups and members over a nested query alike.  The *)
(* order of siblings, which no property tells apart, is left out.          *)
(*                                                                         *)
(* Picked nodes, texts, dates and property values are drawn from small     *)
(* sets; a bound property is named by its type, "gone" is one no schema    *)
(* knows any more.  While the dialog is open the token is out of the state *)
(* (Cancel brings it back unchanged); scope and aggregation ride along.    *)
(***************************************************************************)
EXTENDS Naturals, Functions

CONSTANTS
  Family,   \* the member families offered
  Pick,     \* nodes the picker offers
  Bound,    \* types of the bound properties
  Typed,    \* what a user types into an entry
  Tokens,   \* roots of tokens written elsewhere
  MaxRows   \* bound on the rows a draft grows to

Missing == "none"          \* Python's None
Blank == {"", "  "}     \* strip() leaves nothing
Marks == "..."          \* a text without letters or digits

VARIABLES
  open,     \* the dialog is open
  root,     \* the draft while it is, else the token's: [logic, rows]
  written   \* the builder wrote the token

builderVars == <<open, root, written>>

-----------------------------------------------------------------------------
(* The draft's records. *)
GroupOf(logic) == [type |-> "group", logic |-> logic]
Plain(body) == [neg |-> FALSE, body |-> body]
NotOf(body) == [neg |-> TRUE, body |-> body]
DraftOf(logic, rows) == [logic |-> logic, rows |-> rows]
EmptyDraft == DraftOf("and", <<>>)

NoTarget == [mode |-> Missing]
Ids(s) == [mode |-> "ids", ids |-> s]
Nested(logic) == [mode |-> "query", logic |-> logic]
Self == [mode |-> "self"]

Member(f, op, target) == [type |-> "member", family |-> f, op |-> op, target |-> target]
Text(type, op, value) == [type |-> type, op |-> op, value |-> value]
Property(schema, op, value, from, to, period) ==
  [type |-> "property", schema |-> schema, op |-> op, value |-> value,
   from |-> from, to |-> to, period |-> period]
Date(field, op, timestamp, from, to, period) ==
  [type |-> "date", field |-> field, op |-> op, timestamp |-> timestamp,
   from |-> from, to |-> to, period |-> period]
NodeField(field, op, value) == [type |-> "nodeField", field |-> field, op |-> op, value |-> value]

IsGroup(body) == body.type = "group"
HasTarget(c) == c.op \in {"in", "not-in", "exact"}

\* Rows stand below a group, and below a member over a nested query.
IsQuery(body) == body.type = "member" /\ body.target.mode = "query"
Holds(body) == IsGroup(body) \/ IsQuery(body)

\* create_condition and the add menu's constructors.
FreshChildren ==
  {Plain(Member(f, "in", Ids({}))) : f \in Family}
    \cup {Plain(NodeField("isClass", "eq", "true")), Plain(NodeField("coverAsset", "exists", Missing)),
          Plain(Text("content", "contains", "")), Plain(Property("", "eq", "", Missing, Missing, Missing)),
          Plain(Date("created", "after", "", Missing, Missing, Missing))}
    \cup {Plain(GroupOf("and")), Plain(GroupOf("or")), NotOf(GroupOf("and"))}

-----------------------------------------------------------------------------
(* The operator column: labels by family, and what it shows. *)
Positives(f) == CASE f = "class" -> {"is", "contains"} [] f = "childPath" -> {"contains"} [] OTHER -> {"is"}
Negatives(f) == CASE f = "class" -> {"is-not", "not-contains"} [] f = "childPath" -> {"not-contains"}
                  [] OTHER -> {"is-not"}
Canonical(f) == IF f \in {"class", "childPath"} THEN "contains" ELSE "is"
CanonicalNot(f) == IF f \in {"class", "childPath"} THEN "not-contains" ELSE "is-not"
SetBits == {"set", "not-set"}

Comparisons == {"eq", "neq", "gt", "gte", "lt", "lte", "between"}
PropertyOptions(schema) ==
  IF schema \notin Bound THEN {"eq", "neq", "contains", "not-contains"} \cup SetBits
  ELSE CASE schema = "number" -> Comparisons \cup {"contains", "not-contains"} \cup SetBits
         [] schema = "datetime" -> Comparisons \cup {"within"} \cup SetBits
         [] schema \in {"select", "object"} -> {"eq", "neq"} \cup SetBits
         [] schema = "boolean" -> SetBits
         [] OTHER -> {"eq", "neq", "contains", "not-contains"} \cup SetBits

OperatorOptions(c) ==
  CASE c.type = "member" ->
         Positives(c.family) \cup Negatives(c.family)
           \cup (IF c.family \in {"root", "referencePath"} THEN {} ELSE SetBits)
    [] c.type = "name" -> {"is", "is-not", "contains", "not-contains"} \cup SetBits
    [] c.type = "content" ->
         {"is", "is-not", "contains", "not-contains", "starts", "ends", "fts"} \cup SetBits
    [] c.type = "property" -> PropertyOptions(c.schema)
    [] c.type = "date" -> {"is", "is-not", "gt", "gte", "lt", "lte", "between", "within"}
    [] c.type = "nodeField" -> IF c.field = "isClass" THEN {} ELSE {"exists", "not-exists"}

Polar(neg, label, opposite) == IF neg THEN opposite ELSE label

OperatorOf(c, neg) ==
  CASE c.type = "member" ->
         (CASE c.op = "exact" -> Polar(neg, "is", "is-not")
            [] c.op = "exists" -> Polar(neg, "set", "not-set")
            [] c.op = "not-exists" -> Polar(neg, "not-set", "set")
            [] c.op = "not-in" -> Polar(neg, CanonicalNot(c.family), Canonical(c.family))
            [] OTHER -> Polar(neg, Canonical(c.family), CanonicalNot(c.family)))
    [] c.type \in {"content", "name"} ->
         (CASE c.op = "exists" -> Polar(neg, "set", "not-set")
            [] c.op \in {"fts", "starts", "ends"} -> c.op
            [] c.op = "eq" -> Polar(neg, "is", "is-not")
            [] OTHER -> Polar(neg, "contains", "not-contains"))
    [] c.type = "property" ->
         (CASE c.op = "exists" -> Polar(neg, "set", "not-set")
            [] c.op = "eq" -> IF c.value \in {"True", "False"} THEN Polar(neg, "set", "not-set") ELSE Polar(neg, "eq", "neq")
            [] c.op = "contains" -> Polar(neg, "contains", "not-contains")
            [] OTHER -> c.op)
    [] c.type = "date" ->
         (CASE c.op = "eq" -> Polar(neg, "is", "is-not")
            [] c.op = "neq" -> Polar(neg, "is-not", "is")
            [] OTHER -> c.op)
    [] c.type = "nodeField" ->
         IF c.field = "isClass" THEN Polar(neg, "is", "is-not") ELSE Polar(neg, "exists", "not-exists")

-----------------------------------------------------------------------------
(* The operator choices: apply_operator, one arm per condition type. *)
Or(value, default) == IF value = Missing THEN default ELSE value

MemberOperator(c, op) ==
  LET target == IF HasTarget(c) THEN c.target ELSE Ids({})
      inOp == IF c.op = "not-exists" THEN "not-in" ELSE "in"
  IN  Plain(CASE op \in Positives(c.family) -> Member(c.family, inOp, target)
              [] op \in Negatives(c.family) -> Member(c.family, "not-in", target)
              [] op = "set" -> Member(c.family, "exists", NoTarget)
              [] op = "not-set" -> Member(c.family, "not-exists", NoTarget))

TextOperator(c, op) ==
  LET carried == Or(c.value, "")
  IN  CASE op = "is" -> Plain(Text(c.type, "eq", carried))
        [] op = "is-not" -> NotOf(Text(c.type, "eq", carried))
        [] op = "not-contains" -> NotOf(Text(c.type, "contains", carried))
        [] op \in {"contains", "starts", "ends", "fts"} -> Plain(Text(c.type, op, carried))
        [] op = "set" -> Plain(Text(c.type, "exists", Missing))
        [] op = "not-set" -> NotOf(Text(c.type, "exists", Missing))

DateOperator(c, op) ==
  LET carried == Or(c.timestamp, Or(c.from, ""))
      Cmp(dateOp) == Date(c.field, dateOp, carried, Missing, Missing, Missing)
  IN  CASE op = "is" -> Plain(Cmp("eq"))
        [] op = "is-not" -> NotOf(Cmp("eq"))
        [] op \in {"gt", "gte", "lt", "lte"} -> Plain(Cmp(op))
        [] op = "between" -> Plain(Date(c.field, "between", Missing, carried, Or(c.to, carried), Missing))
        [] op = "within" -> Plain(Date(c.field, "within", Missing, Missing, Missing, Or(c.period, "today")))

PropertyOperator(c, op) ==
  LET Valued(propOp) == Property(c.schema, propOp, c.value, Missing, Missing, Missing)
      exists == Property(c.schema, "exists", Missing, Missing, Missing, Missing)
  IN  CASE op \in {"eq", "neq", "contains", "gt", "gte", "lt", "lte"} -> Plain(Valued(op))
        [] op = "not-contains" -> NotOf(Valued("contains"))
        [] op = "between" ->
             Plain(Property(c.schema, "between", Missing, Or(c.value, c.from), Or(c.to, c.value), Missing))
        [] op = "within" -> Plain(Property(c.schema, "within", Missing, Missing, Missing, Or(c.period, "today")))
        [] op = "set" -> Plain(exists)
        [] op = "not-set" -> NotOf(exists)

ApplyOperator(c, op) ==
  CASE c.type = "member" -> MemberOperator(c, op)
    [] c.type \in {"content", "name"} -> TextOperator(c, op)
    [] c.type = "date" -> DateOperator(c, op)
    [] c.type = "property" -> PropertyOperator(c, op)
    [] OTHER -> [neg |-> op = "not-exists", body |-> c]

\* The dropdown reports only a choice other than the one it shows.
PickOperator(child) ==
  {ApplyOperator(child.body, op) : op \in OperatorOptions(child.body) \ {OperatorOf(child.body, child.neg)}}

-----------------------------------------------------------------------------
(* The other columns of a row; the NOT stays where it was. *)
TargetMode(c, mode) ==
  LET inOp == IF c.op \in {"not-in", "not-exists"} THEN "not-in" ELSE "in"
  IN  Member(c.family, inOp,
        CASE mode = "query" -> Nested("and")
          [] mode = "self" -> Self
          [] mode = "manual" -> Ids({}))

\* The mode is shown as Manual on a row without a target.
ModeSwitches(c) ==
  LET shown == IF HasTarget(c) /\ c.target.mode # "ids" THEN c.target.mode ELSE "manual"
  IN  {IF mode = "manual" /\ HasTarget(c) /\ c.target.mode = "ids" THEN c ELSE TargetMode(c, mode) :
         mode \in {"manual", "query", "self"} \ {shown}}

\* The chips replace the target, whatever the op.
Chips(c) ==
  IF HasTarget(c) /\ c.target.mode # "ids" THEN {}
  ELSE LET ids == IF c.target.mode = "ids" THEN c.target.ids ELSE {}
       IN  {[c EXCEPT !.target = Ids(ids \ {x})] : x \in ids}
             \cup {[c EXCEPT !.target = Ids(ids \cup {x})] : x \in Pick \ ids}

SchemaPicks(c) ==
  {Property(schema, "eq", IF schema = "boolean" THEN "True" ELSE "", Missing, Missing, Missing) :
     schema \in (Bound \cup {""}) \ {c.schema}}

PropertyValues(c) ==
  IF c.op = "within" THEN {[c EXCEPT !.period = "this_week"]}
  ELSE IF c.op = "between" THEN {[c EXCEPT !.from = v] : v \in Typed} \cup {[c EXCEPT !.to = v] : v \in Typed}
  ELSE IF c.schema = "boolean"
    THEN {Property(c.schema, "eq", v, Missing, Missing, Missing) :
            v \in {"True", "False"} \ {IF c.value = "True" THEN "True" ELSE "False"}}
  ELSE IF c.schema = "select" THEN {[c EXCEPT !.value = v] : v \in Typed \ Blank}
  ELSE {[c EXCEPT !.value = v] : v \in IF c.op = "exists" THEN {} ELSE Typed}

DateValues(c) ==
  CASE c.op = "within" -> {[c EXCEPT !.period = "this_week"]}
    [] c.op = "between" -> {[c EXCEPT !.from = v] : v \in Typed} \cup {[c EXCEPT !.to = v] : v \in Typed}
    [] OTHER -> {[c EXCEPT !.timestamp = v] : v \in Typed}

ValueEdits(c) ==
  CASE c.type = "member" -> Chips(c) \cup ModeSwitches(c)
    [] c.type \in {"content", "name"} -> {[c EXCEPT !.value = v] : v \in Typed}
    [] c.type = "property" -> SchemaPicks(c) \cup PropertyValues(c)
    [] c.type = "date" -> DateValues(c)
    [] c.type = "nodeField" ->
         IF c.field = "isClass" THEN {[c EXCEPT !.value = IF c.value = "true" THEN "false" ELSE "true"]} ELSE {}

-----------------------------------------------------------------------------
(* The edits of a draft's rows. *)
Below(rows, x) == {y \in DOMAIN rows : x \in rows[y].in}
Row(in, child) == [in |-> in, neg |-> child.neg, body |-> child.body]
Flip(logic) == IF logic = "and" THEN "or" ELSE "and"

\* A row goes with everything below it.
RemoveChild(rows, x) == Restrict(rows, DOMAIN rows \ ({x} \cup Below(rows, x)))

\* A row changes in place; a nested query goes with the target that held it.
ReplaceChild(rows, x, child) ==
  [y \in IF Holds(child.body) THEN DOMAIN rows ELSE DOMAIN rows \ Below(rows, x) |->
     IF y = x THEN Row(rows[x].in, child) ELSE rows[y]]

\* The add menu of the root, a group or a nested query, each below those it is in.
Places(rows) == {{}} \cup {{q} \cup rows[q].in : q \in {q \in DOMAIN rows : Holds(rows[q].body)}}
FirstUnused(rows) ==
  LET unused == (1..MaxRows) \ DOMAIN rows IN {x \in unused : \A y \in unused : x <= y}
AddChild(rows, new, in, child) ==
  [y \in DOMAIN rows \cup {new} |-> IF y = new THEN Row(in, child) ELSE rows[y]]

LogicEdit(body) ==
  IF IsGroup(body) THEN [body EXCEPT !.logic = Flip(@)] ELSE [body EXCEPT !.target = Nested(Flip(@.logic))]

\* A bare group has no Exclude box; one under a NOT has.
Exclude(child) ==
  IF IsGroup(child.body) /\ ~child.neg THEN {} ELSE {[neg |-> ~child.neg, body |-> child.body]}

\* The controls of a row.
ChildEdits(child) ==
  LET InPlace(body) == [neg |-> child.neg, body |-> body]
  IN  Exclude(child)
        \cup (IF Holds(child.body) THEN {InPlace(LogicEdit(child.body))} ELSE {})
        \cup (IF IsGroup(child.body) THEN {}
              ELSE PickOperator(child) \cup {InPlace(c) : c \in ValueEdits(child.body)})

-----------------------------------------------------------------------------
(* Apply: half-typed children are pruned, the rest is dumped verbatim. *)
\* A half-typed condition is dropped.
ConditionFilled(c) ==
  CASE c.type = "member" -> HasTarget(c) => c.target.mode = "self" \/ c.target.ids # {}
    [] c.type \in {"content", "name"} -> c.op = "exists" \/ Or(c.value, "") \notin Blank
    [] c.type = "property" -> c.schema # "" /\ (c.op = "between" => c.from # Missing /\ c.to # Missing)
    [] c.type = "date" ->
         (CASE c.op = "between" -> Or(c.from, "") \notin Blank /\ Or(c.to, "") \notin Blank
            [] c.op = "within" -> TRUE
            [] OTHER -> Or(c.timestamp, "") \notin Blank)
    [] c.type = "nodeField" -> TRUE

\* What holds rows lives by the ones below it.
Filled(body) == ~Holds(body) /\ ConditionFilled(body)

\* Wrong on purpose: a nested query is kept as it was typed.
SurvivorsFlat(rows) ==
  {x \in DOMAIN rows : \E y \in DOMAIN rows : /\ x \in {y} \cup rows[y].in
                                               /\ \/ Filled(rows[y].body)
                                                  \/ \E q \in rows[y].in : IsQuery(rows[q].body)}

Survivors(rows) ==
  {x \in DOMAIN rows : \E y \in DOMAIN rows : x \in {y} \cup rows[y].in /\ Filled(rows[y].body)}

\* The set bits are dumped without the target a chip may have given them.
Dumped(c) == IF c.type = "member" /\ ~HasTarget(c) THEN [c EXCEPT !.target = NoTarget] ELSE c

DraftOrFactory(draft) ==
  LET kept == Survivors(draft.rows)
  IN  IF kept = {} THEN EmptyDraft
      ELSE DraftOf(draft.logic, [x \in kept |-> [draft.rows[x] EXCEPT !.body = Dumped(@)]])

-----------------------------------------------------------------------------
(* The strict parse, and the compiler's errors. *)
ConditionParses(c) ==
  CASE c.type = "member" ->
         (CASE c.op = "exact" -> c.target.mode = "ids" /\ \E x \in Pick : c.target.ids = {x}
            [] c.op \in {"in", "not-in"} -> c.target.mode = "ids" => c.target.ids # {}
            [] OTHER -> TRUE)
    [] c.type \in {"content", "name", "nodeField"} -> c.value # ""
    [] c.type = "date" -> "" \notin {c.timestamp, c.from, c.to}
    [] c.type = "property" -> c.schema # ""

Conditions(draft) == {draft.rows[x].body : x \in {x \in DOMAIN draft.rows : ~IsGroup(draft.rows[x].body)}}
Parses(draft) == \A c \in Conditions(draft) : ConditionParses(c)

ConditionCompiles(c) ==
  CASE c.type = "member" ->
         c.op \in {"exists", "not-exists"} => c.family \notin {"root", "referencePath"}
    [] c.type = "content" -> /\ c.op # "exists" => c.value # Missing
                             /\ c.op = "fts" => c.value # Marks
    [] c.type = "property" ->
         (CASE c.op = "between" -> c.from # Missing /\ c.to # Missing
            [] c.op = "within" -> c.period # Missing
            [] OTHER -> c.op # "exists" => c.value # Missing)
    [] c.type = "date" ->
         (CASE c.op = "between" -> c.from # Missing /\ c.to # Missing
            [] c.op = "within" -> c.period # Missing
            [] OTHER -> c.timestamp # Missing)
    [] c.type = "name" -> c.op # "exists" => c.value # Missing
    [] c.type = "nodeField" ->
         IF c.field = "isClass" THEN c.op = "eq" /\ c.value \in {"true", "false"}
         ELSE c.op # "exists" => c.value # Missing

Compiles(draft) == \A c \in Conditions(draft) : ConditionCompiles(c)

-----------------------------------------------------------------------------
(* What a token or a draft is: a tree of rows, whatever their fields hold. *)
Shaped(c) ==
  \/ c.type = "group" /\ c = GroupOf(c.logic)
  \/ /\ c.type = "member"
     /\ c = Member(c.family, c.op, c.target)
     /\ c.op \in {"in", "not-in", "exact", "exists", "not-exists"}
     /\ \/ ~HasTarget(c) /\ c.target = NoTarget
        \/ c.target.mode = "ids" /\ c.target = Ids(c.target.ids)
        \/ HasTarget(c) /\ c.target = Self
        \/ HasTarget(c) /\ c.target.mode = "query" /\ c.target = Nested(c.target.logic)
  \/ c.type \in {"content", "name"} /\ c = Text(c.type, c.op, c.value)
  \/ c.type = "property" /\ c = Property(c.schema, c.op, c.value, c.from, c.to, c.period)
  \/ c.type = "date" /\ c = Date(c.field, c.op, c.timestamp, c.from, c.to, c.period)
  \/ c.type = "nodeField" /\ c = NodeField(c.field, c.op, c.value)

\* Every row stands below containers, and below all those its own containers stand below.
Nests(rows) ==
  \A x \in DOMAIN rows : \A q \in rows[x].in :
    q \in DOMAIN rows \ {x} /\ Holds(rows[q].body) /\ rows[q].in \subseteq rows[x].in

IsDraft(draft) ==
  /\ draft = DraftOf(draft.logic, [x \in DOMAIN draft.rows |-> Row(draft.rows[x].in, draft.rows[x])])
  /\ Nests(draft.rows)
  /\ \A x \in DOMAIN draft.rows : Shaped(draft.rows[x].body)

\* A token written elsewhere that can be read can be run.
ASSUME BuilderAssumption ==
  /\ MaxRows \in Nat
  /\ \A token \in Tokens : IsDraft(token) /\ (Parses(token) => Compiles(token))

-----------------------------------------------------------------------------
BuilderInit == open = FALSE /\ root \in Tokens /\ written = FALSE

\* An unreadable token opens as the empty draft.
OpenBuilder ==
  /\ ~open
  /\ open' = TRUE
  /\ root' = IF Parses(root) THEN root ELSE EmptyDraft
  /\ UNCHANGED written

\* The logic, an add, a remove or a row's own controls.
EditDraft ==
  /\ open
  /\ \/ root' = [root EXCEPT !.logic = Flip(@)]
     \/ \E new \in FirstUnused(root.rows), in \in Places(root.rows), child \in FreshChildren :
          root' = [root EXCEPT !.rows = AddChild(@, new, in, child)]
     \/ \E x \in DOMAIN root.rows :
          \/ root' = [root EXCEPT !.rows = RemoveChild(@, x)]
          \/ \E child \in ChildEdits(root.rows[x]) : root' = [root EXCEPT !.rows = ReplaceChild(@, x, child)]
  /\ UNCHANGED <<open, written>>

ApplyDraft ==
  /\ open
  /\ open' = FALSE
  /\ root' = DraftOrFactory(root)
  /\ written' = TRUE

BuilderNext == OpenBuilder \/ EditDraft \/ ApplyDraft

BuilderSpec == BuilderInit /\ [][BuilderNext]_builderVars

-----------------------------------------------------------------------------
(* What Apply writes can be read and run.  Every sequence of edits that breaks it ends
   in one of four shapes the prune lets through: an "exactly" row given a second class,
   an "is set" row whose entry was typed in and emptied, a comparison whose value an
   earlier choice dropped, and a full-text search for marks only. *)
Slips(c) ==
  \/ c.type = "member" /\ c.op = "exact" /\ ~\E x \in Pick : c.target = Ids({x})
  \/ c.type \in {"content", "name"} /\ c.op = "exists" /\ c.value = ""
  \/ c.type = "property" /\ c.op \notin {"exists", "between", "within"} /\ c.value = Missing
  \/ c.type = "content" /\ c.op = "fts" /\ c.value = Marks
AppliedQueryRuns ==
  ~open /\ written =>
    \A c \in Conditions(root) : (ConditionParses(c) /\ ConditionCompiles(c)) \/ Slips(c)

=============================================================================
