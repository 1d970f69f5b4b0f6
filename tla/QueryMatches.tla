----------------------------- MODULE QueryMatches -----------------------------
(***************************************************************************)
(* What a query's member conditions match over one mirror, as the SQL that *)
(* the compiler writes for them (core/query/compiler.py), where a click on *)
(* a result leads (open_query_result, ui/query_run.py), and the envelopes  *)
(* that move rows in and out of sight below it (data/store.py): the tree   *)
(* guards are those of NodeTree, is_active and the trash table are whole   *)
(* here.                                                                   *)
(*                                                                         *)
(* Every row belongs to the one workspace.  Conditions are those on picked *)
(* ids; a condition is one of SQL's three values for each row.             *)
(***************************************************************************)
EXTENDS Naturals, FiniteSets

CONSTANTS
  Row,        \* node ids
  Root,       \* NULL as an id: the parent_id of a parentless row
  ClassRow,   \* rows that are classes from the start
  Demoting,   \* classes whose closure has a class of parentlessRole "block"
  Locked,     \* system classes that nothing archives or deletes
  FamilyBase, \* base classes of the feature families
  System,     \* the other system classes
  Gated,      \* classes that feature toggles archive: bases and some that extend them
  MaxOps,     \* bound on the envelopes applied
  WalkBound   \* levels a recursive query walks (64 in the code)

ASSUME MatchesAssumption ==
  /\ IsFiniteSet(Row) /\ Root \notin Row /\ "" \notin Row \cup {Root}
  /\ Demoting \subseteq ClassRow /\ ClassRow \subseteq Row
  /\ Locked \cup FamilyBase \cup System \subseteq ClassRow
  /\ FamilyBase \subseteq Gated /\ Gated \subseteq FamilyBase \cup System
  /\ MaxOps \in Nat /\ WalkBound \in Nat \ {0}

VARIABLES
  above,     \* parent_id
  live,      \* rows with is_active = 1
  binned,    \* rows with a trash row of their own
  isClass,   \* rows with is_class = 1
  inline,    \* rows with is_embedded = 1
  classes,   \* class_ids
  edge,      \* the edge table: <<source_id, target_id>>
  ops        \* envelopes applied

matchVars == <<above, live, binned, isClass, inline, classes, edge, ops>>

-----------------------------------------------------------------------------
(* Walks over parent_id: the rows within `steps` steps up from n, itself included. *)
Climb(parents, steps, n) ==
  LET up[at \in Nat \X Row] ==   \* at: the steps left and the row
        LET x == at[2]
        IN  IF at[1] = 0 \/ parents[x] = Root THEN {x} ELSE {x} \cup up[<<at[1] - 1, parents[x]>>]
  IN  up[<<steps, n>>]

UpFrom(n) == Climb(above, Cardinality(Row), n)   \* all the way, as the tree's own walks go
Within(n) == Climb(above, WalkBound, n)          \* as far as the page and reference queries go
Tree(n) == {x \in Row : n \in UpFrom(x)}

\* Of rows on one way up, the one it meets first.
Nearest(S) == {x \in S : \A y \in S : y \in UpFrom(x)}
RootOf(n) == CHOOSE x \in UpFrom(n) : above[x] = Root

Demoted(n) == classes[n] \cap Demoting # {}

\* _is_page_row: n renders with document chrome, and so do all rows above it.
RendersAsPage(n) ==
  \A x \in UpFrom(n) : /\ x \notin isClass
                       /\ IF above[x] = Root THEN ~Demoted(x) ELSE x \notin inline

-----------------------------------------------------------------------------
(* The envelopes: object.move, object.delete, object.restore, class.create on an existing
   node, feature toggles, and what object.update writes of what the matches read. *)
Envelopes == ops < MaxOps /\ ops' = ops + 1

ClaimsChrome(n) == above[n] = Root /\ n \in inline \ isClass /\ ~Demoted(n)

\* A move leaves is_active as it finds it.
MoveRow(n, p) ==
  /\ Envelopes
  /\ p # Root => /\ p \notin Tree(n) /\ n \notin isClass
                 /\ (n \notin inline \/ ClaimsChrome(n)) => RendersAsPage(p)
  /\ above' = [above EXCEPT ![n] = p]
  /\ inline' = IF p # Root /\ ClaimsChrome(n) THEN inline \ {n} ELSE inline
  /\ UNCHANGED <<live, binned, isClass, classes, edge>>

\* class.create on a node: it becomes a root, trashed or not.
ConvertRow(n) ==
  /\ Envelopes
  /\ n \notin isClass
  /\ isClass' = isClass \cup {n}
  /\ above' = [above EXCEPT ![n] = Root]
  /\ inline' = inline \ {n}
  /\ UNCHANGED <<live, binned, classes, edge>>

\* object.delete of a system class archives it, and of a family's base turns the feature
\* off (SetFeatures); of anything else it files a trash row and hides the tree below.
TrashRow(n) ==
  /\ Envelopes
  /\ n \notin Locked \cup FamilyBase
  /\ IF n \in System THEN live' = live \ {n} /\ UNCHANGED binned
                     ELSE live' = live \ Tree(n) /\ binned' = binned \cup {n}
  /\ UNCHANGED <<above, isClass, inline, classes, edge>>

\* Wrong on purpose: what is below comes back without what is below that.
RidesDirect(n, x) == x = n \/ (x \notin binned /\ above[x] = n)

\* x was trashed with n, and not on its own or with a row in between.
Rides(n, x) == (UpFrom(x) \cap Tree(n)) \cap binned \subseteq {n}

RestoreRow(n) ==
  /\ Envelopes
  /\ n \in binned
  /\ live' = live \cup {x \in Tree(n) : Rides(n, x)}
  /\ binned' = binned \ {n}
  /\ UNCHANGED <<above, isClass, inline, classes, edge>>

\* object.update {active}: this row's bit alone, no trash row.
ArchiveRow(n) ==
  /\ Envelopes
  /\ n \notin Locked \cup FamilyBase
  /\ live' = live \ {n}
  /\ UNCHANGED <<above, binned, isClass, inline, classes, edge>>

UnarchiveRow(n) ==
  /\ Envelopes
  /\ live' = live \cup {n}
  /\ UNCHANGED <<above, binned, isClass, inline, classes, edge>>

\* A toggle rewrites the bits of the classes it gates (which ones: Features).
SetFeatures(on) ==
  /\ Envelopes
  /\ live' = (live \ Gated) \cup on
  /\ UNCHANGED <<above, binned, isClass, inline, classes, edge>>

\* A class joined or left, the render bit (inert on a class), a link in the content.
EditRow(n) ==
  /\ Envelopes
  /\ \/ \E c \in isClass : /\ classes' = [classes EXCEPT ![n] = IF c \in @ THEN @ \ {c} ELSE @ \cup {c}]
                           /\ UNCHANGED <<inline, edge>>
     \/ /\ n \notin isClass /\ n \notin inline
        /\ above[n] # Root => \A x \in Row : above[x] = n => x \in inline
        /\ inline' = inline \cup {n}
        /\ UNCHANGED <<classes, edge>>
     \/ /\ n \in inline
        /\ above[n] # Root => RendersAsPage(above[n])
        /\ inline' = inline \ {n}
        /\ UNCHANGED <<classes, edge>>
     \/ \E x \in Row : edge' = edge \cup {<<n, x>>} /\ UNCHANGED <<classes, inline>>
  /\ UNCHANGED <<above, live, binned, isClass>>

MatchInit ==
  /\ above = [n \in Row |-> Root]
  /\ live = Row /\ binned = {} /\ isClass = ClassRow
  /\ inline \in SUBSET (Row \ ClassRow)
  /\ classes = [n \in Row |-> {}]
  /\ edge = {}
  /\ ops = 0

MatchNext ==
  \/ \E n \in Row :
       \/ \E p \in Row \cup {Root} : MoveRow(n, p)
       \/ ConvertRow(n) \/ TrashRow(n) \/ RestoreRow(n)
       \/ ArchiveRow(n) \/ UnarchiveRow(n) \/ EditRow(n)
  \/ \E on \in SUBSET Gated : SetFeatures(on)

MatchSpec == MatchInit /\ [][MatchNext]_matchVars

-----------------------------------------------------------------------------
(* SQL's three values: what the operators of the compiler's text yield, NULL included. *)
SqlEq(x, y) == IF Root \in {x, y} THEN "null" ELSE IF x = y THEN "true" ELSE "false"
SqlNot(v) == CASE v = "true" -> "false" [] v = "false" -> "true" [] OTHER -> "null"
SqlAnd(v, w) == IF "false" \in {v, w} THEN "false" ELSE IF "null" \in {v, w} THEN "null" ELSE "true"
SqlOr(v, w) == SqlNot(SqlAnd(SqlNot(v), SqlNot(w)))

\* x IN (S): NULL when x is, or when x is not found and S holds a NULL.
SqlIn(x, S) ==
  IF S = {} THEN "false"
  ELSE IF x # Root /\ x \in S THEN "true"
  ELSE IF x = Root \/ Root \in S THEN "null" ELSE "false"

\* A WHERE clause keeps the rows its condition is true of; EXISTS asks whether any is left.
IsTrue(v) == v = "true"
SqlExists(S) == IF S = {} THEN "false" ELSE "true"
SqlIsNotNull(x) == IF x = Root THEN "false" ELSE "true"
Coalesced(x) == IF x = Root THEN "" ELSE x

-----------------------------------------------------------------------------
(* The compiler. *)
\* Wrong on purpose: only the render bit counts.
ClaimsPageByBit(n) == n \in isClass \/ n \notin inline

\* The containing page: the nearest row that claims to be one.
ClaimsPage(n) == n \in isClass \/ n \notin inline \/ (above[n] = Root /\ ~Demoted(n))
ContainingPage(n) ==
  Nearest({x \in Within(n) : ClaimsPage(x) /\ (above[x] = Root => ~Demoted(x))})

\* As a scalar subquery: NULL when no row is left.
PageOf(n) == IF ContainingPage(n) = {} THEN Root ELSE CHOOSE p \in ContainingPage(n) : TRUE

\* The ids the recursive walks list: they step to parent_id, so a root's NULL is one.
AboveIds(n) == {above[x] : x \in Within(n)}
PathIds(n) == {n} \cup {above[x] : x \in Climb(above, WalkBound - 1, n)}

\* backlinksWithRollup: direct links to a target, and rows strictly inside a target's
\* tree that link outside of every target's tree.
LinkedTo(T) ==
  LET inside == UNION {Tree(t) : t \in T}
  IN  {e[1] : e \in {x \in edge : IsTrue(SqlIn(x[2], T))}}
        \cup {n \in inside : /\ \E t \in T : t \in UpFrom(n) \ {n}
                             /\ \E e \in edge : e[1] = n /\ IsTrue(SqlNot(SqlIn(e[2], inside)))}

\* A target above the row, or one that the row or some row above it links to.
OnReferencePath(t, n) ==
  SqlOr(SqlIn(t, {x \in PathIds(n) : IsTrue(SqlNot(SqlEq(x, n)))}),
        SqlExists({e \in edge : IsTrue(SqlEq(e[2], t)) /\ IsTrue(SqlIn(e[1], PathIds(n)))}))

\* Wrong on purpose: the parentless NULL is compared as it is.
ParentInBare(T, n) == SqlIn(above[n], T)

\* A parentless row reads as the empty id.
ParentIn(T, n) == SqlIn(Coalesced(above[n]), T)

MemberIn(family, T, n) ==
  CASE family = "class" -> SqlExists({c \in classes[n] : IsTrue(SqlIn(c, T))})
    [] family = "links" -> SqlIn(n, LinkedTo(T))
    [] family = "childPath" -> SqlAnd(SqlIn(n, UNION {Tree(t) : t \in T}), SqlNot(SqlIn(n, T)))
    [] family = "parent" -> ParentIn(T, n)
    [] family = "child" ->
         SqlExists({c \in live : IsTrue(SqlEq(above[c], n)) /\ IsTrue(SqlIn(c, T))})
    [] family = "referencePath" -> SqlExists({t \in T : IsTrue(OnReferencePath(t, n))})
    [] family = "page" -> SqlExists({t \in T : IsTrue(SqlEq(t, PageOf(n)))})
    [] family = "parentPath" -> SqlExists({x \in AboveIds(n) : \E t \in T : IsTrue(SqlEq(t, x))})
    [] family = "root" -> SqlExists({t \in T : IsTrue(SqlEq(t, RootOf(n)))})

MemberExists(family, n) ==
  CASE family = "class" -> SqlExists(classes[n])
    [] family = "links" -> SqlExists({e \in edge : IsTrue(SqlEq(e[2], n))})
    [] family \in {"parent", "parentPath"} -> SqlIsNotNull(above[n])
    [] family = "child" -> SqlExists({c \in live : IsTrue(SqlEq(above[c], n))})
    [] family = "childPath" -> SqlExists({x \in Tree(n) : IsTrue(SqlNot(SqlEq(x, n)))})
    [] family = "page" -> SqlNot(SqlEq(PageOf(n), n))

InFamilies == {"class", "links", "childPath", "parent", "child", "referencePath", "page", "parentPath", "root"}
ExistsFamilies == InFamilies \ {"referencePath", "root"}

\* The rows a query with this condition lists (every query asks for active rows), and
\* those it lists with NOT in front of the condition.
Results(c) == {n \in live : IsTrue(c[n])}
Negated(c) == [n \in live |-> SqlNot(c[n])]

-----------------------------------------------------------------------------
(* open_query_result: the row itself when it has document chrome, else the first row
   above it that has, else the row. *)
Opens(n) ==
  LET pages == Nearest({x \in UpFrom(n) : RendersAsPage(x)})
  IN  IF pages = {} THEN {n} ELSE pages

-----------------------------------------------------------------------------
(* A condition and its negation share the active rows between them, whatever the tree
   looks like, so Exclude shows exactly what was not shown: the NULLs of parentless rows
   and of the walks that step past the root stay inside COALESCE and EXISTS.  One gets
   out: a row no page contains is neither "set" nor "not set". *)
PolarityPartitions ==
  LET targets == {{x} : x \in Row} \cup {Row}
      conditions == {[n \in live |-> MemberIn(f, T, n)] : f \in InFamilies, T \in targets}
                      \cup {[n \in live |-> MemberExists(f, n)] : f \in ExistsFamilies \ {"page"}}
      paged == [n \in live |-> MemberExists("page", n)]
  IN  /\ \A c \in conditions : Results(Negated(c)) = live \ Results(c)
      /\ live \ (Results(paged) \cup Results(Negated(paged))) = {n \in live : ContainingPage(n) = {}}

(* Two independent walks agree: the page that a result opens is the page the "page"
   condition files it under, for every row whose way up is no longer than the query
   walks and has no class, no demoted root and no standalone row under a block.  And a
   row with document chrome opens as itself. *)
Placed(n) ==
  /\ \E x \in Within(n) : above[x] = Root
  /\ \A x \in UpFrom(n) : /\ x \notin isClass
                          /\ above[x] = Root => ~Demoted(x)
                          /\ above[x] # Root /\ x \notin inline => RendersAsPage(above[x])
OpensItsPage ==
  \A n \in Row : /\ Placed(n) => Opens(n) = ContainingPage(n)
                 /\ RendersAsPage(n) => Opens(n) = {n}

(* A row that no view shows can be restored with some row that the trash lists.  Three
   things alone take that away from a row: a move out of a trashed tree, of itself or of
   a row above it, which does not activate it; class.create on such a row, which cuts it
   off in the same way; and its own archiving, by an update, the delete of a system
   class, or a toggle.  No delete or restore of another row does, in whatever order. *)
Stranded == {n \in Row \ live : UpFrom(n) \cap binned = {}}
Archives(n) ==
  \/ ArchiveRow(n)
  \/ n \in System /\ TrashRow(n)
  \/ n \in Gated /\ \E on \in SUBSET Gated : SetFeatures(on)
OnlyMoveStrands ==
  [][\A n \in Stranded' \ Stranded :
       \/ \E x \in UpFrom(n) : above'[x] # above[x]
       \/ n \in live /\ Archives(n)]_matchVars
=============================================================================
