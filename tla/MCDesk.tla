-------------------------------- MODULE MCDesk --------------------------------
(***************************************************************************)
(* What a desk shows, writes and sends on small instances: the tree of     *)
(* pages, the query builder, an open query section, the opening of an      *)
(* encrypted workspace and the cards two devices review.  They share no    *)
(* state: a behaviour follows one of them, chosen at the start.            *)
(***************************************************************************)
EXTENDS NodeTree, QueryBuilder, SealedSync, QueryRun, CardReview

CONSTANTS page, other, place

VARIABLE window

TypedDef == {Marks}
TokensDef ==
  {EmptyDraft,
   DraftOf("and", <<Row({}, Plain(Member("class", "exact", Ids({page})))), Row({}, Plain(Text("name", "neq", "word")))>>),
   DraftOf("or", <<Row({}, NotOf(Property("gone", "gt", "word", Missing, Missing, Missing)))>>)}

DeskInit ==
  /\ window \in {"tree", "builder", "opening", "section", "cards"}
  /\ Init /\ BuilderInit /\ SealedInit /\ RunInit /\ CardsInit
  /\ window # "builder" => root = EmptyDraft
  /\ window # "opening" => keyRow = "none" /\ ~master

\* Rows of the root do not interact: all but one are as they were added or read.
Untouched == {Row({}, child) : child \in FreshChildren} \cup UNION {Range(token.rows) : token \in Tokens}
Settled(x) == root.rows[x] \in Untouched /\ Below(root.rows, x) = {}
OneChildEdited ==
  LET top == {x \in DOMAIN root.rows : root.rows[x].in = {}} IN \A x, y \in top : x # y => Settled(x) \/ Settled(y)

\* With all the edits made and all the engines started, no save is under way.
OneOpening == stamped < MaxEdits \/ current < MaxEngines \/ At("saver", "idle")

\* Three grades meet on one day, two over two days.
FewGrades == today > 0 => grades.here + grades.there <= 2

DeskNext ==
  /\ UNCHANGED window
  /\ \/ window = "tree" /\ Next /\ UNCHANGED <<builderVars, sealedVars, runVars, cardVars>>
     \/ window = "builder" /\ BuilderNext /\ OneChildEdited' /\ UNCHANGED <<vars, sealedVars, runVars, cardVars>>
     \/ window = "opening" /\ SealedNext /\ OneOpening' /\ UNCHANGED <<vars, builderVars, runVars, cardVars>>
     \/ window = "section" /\ RunNext /\ UNCHANGED <<vars, builderVars, sealedVars, cardVars>>
     \/ window = "cards" /\ CardsNext /\ FewGrades' /\ UNCHANGED <<vars, builderVars, sealedVars, runVars>>

DeskSpec == DeskInit /\ [][DeskNext]_<<window, vars, builderVars, sealedVars, runVars, cardVars>> /\ RunFairness
=============================================================================
