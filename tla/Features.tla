-------------------------------- MODULE Features --------------------------------
(***************************************************************************)
(* Workspace features: the toggle rows and the archival bits of the system *)
(* classes that follow them (data/store.py, core/protocol/features.py). A  *)
(* class is archived in two places: its node (nodes.is_active, here        *)
(* classNodes), which pickers and search read, and its registry row        *)
(* (class.active, here classRows). Envelopes come in any order.            *)
(*                                                                         *)
(* The seed vocabulary is the source's; the settings record that rides a   *)
(* toggle and the option lists of the task family are left out.            *)
(***************************************************************************)
EXTENDS Naturals, FiniteSets

CONSTANTS
  SystemClass,  \* the system classes the envelopes address
  Feature,      \* the features they toggle
  ToggleStamps, \* (hlc, actor) pairs
  MaxToggles    \* bound on the envelopes delivered

\* The six features; journal gates surfaces only.
WorkspaceFeature == {"tasks", "events", "meetings", "sources", "persons", "journal"}

BaseClass ==
  [tasks |-> "task", events |-> "event", meetings |-> "meeting",
   sources |-> "source", persons |-> "person"]

FamilyFeature == DOMAIN BaseClass

\* The static extends map of the seeds.
SystemClassExtends ==
  {<<"meeting", "event">>, <<"birthday", "event">>, <<"trip", "event">>,
   <<"person", "agent">>, <<"organization", "agent">>}
    \cup ({"book", "journal_article", "thesis", "document", "film", "song", "tv_series",
           "conference", "web_page", "audio_recording", "artwork", "bill", "blog_post",
           "book_section", "computer_program", "conference_paper", "dataset",
           "dictionary_entry", "email", "encyclopedia_article", "forum_post", "hearing",
           "instant_message", "interview", "letter", "magazine_article", "manuscript",
           "map", "newspaper_article", "patent", "podcast", "preprint", "presentation",
           "radio_broadcast", "report", "standard", "statute", "tv_broadcast",
           "video_recording"} \X {"source"})

LockedSystemClasses ==
  {"year", "month", "day", "table", "asset", "query", "code", "template", "comment"}

ASSUME FeaturesAssumption ==
  /\ Feature \subseteq WorkspaceFeature
  /\ ToggleStamps \subseteq (Nat \ {0}) \X Nat /\ MaxToggles \in Nat

\* Every class above a class; no chain of the map is longer than two.
Extended == {"event", "agent", "source"}   \* the map's right-hand sides
Parents(names) == {p \in Extended : \E n \in names : <<n, p>> \in SystemClassExtends}

SystemClassAncestors ==
  [name \in SystemClass |-> Parents({name}) \cup Parents(Parents({name}))]

\* Its own feature when it is a family's base, and that of every base above it.
GatingFeatures ==
  [name \in SystemClass |->
     {f \in FamilyFeature : BaseClass[f] = name \/ BaseClass[f] \in SystemClassAncestors[name]}]

FamilyClasses ==
  [feature \in FamilyFeature |->
     {c \in SystemClass : c = BaseClass[feature] \/ BaseClass[feature] \in SystemClassAncestors[c]}]

\* A delete or an archival of one of the five bases belongs to its toggle.
Managed(name) == \E f \in FamilyFeature : BaseClass[f] = name

-----------------------------------------------------------------------------
VARIABLES
  features,   \* workspace_feature: the winning toggle, or an absent row
  classNodes, \* per class: its node row's existence, is_active and stamp
  classRows,  \* per class: its class row's existence and active bit
  delivered,  \* envelopes delivered
  rejected    \* those an applier refused

featureVars == <<features, classNodes, classRows, delivered, rejected>>

NeverSet == <<0, 0>>

FeatureEnvelope ==
  [op : {"workspace.feature.set"}, feature : Feature, enabled : BOOLEAN, stamp : ToggleStamps]
    \cup [op : {"class.create", "object.delete"}, class : SystemClass, stamp : ToggleStamps]
    \cup [op : {"object.update"}, class : SystemClass, active : BOOLEAN, stamp : ToggleStamps]

FeaturesInit ==
  /\ features = [f \in Feature |-> [enabled |-> TRUE, stamp |-> NeverSet]]
  /\ classNodes = [c \in SystemClass |-> [exists |-> FALSE, active |-> FALSE, stamp |-> NeverSet]]
  /\ classRows = [c \in SystemClass |-> [exists |-> FALSE, active |-> FALSE]]
  /\ delivered = {} /\ rejected = {}

Ahead(s, t) == s[1] > t[1] \/ (s[1] = t[1] /\ s[2] > t[2])

\* An absent row means enabled.
EnabledIn(rows, f) == f \notin Feature \/ rows[f].enabled

Gate(rows, c) == \A f \in GatingFeatures[c] : EnabledIn(rows, f)

\* Wrong on purpose: the whole family is set to the one toggle.
FamilyBitsFlipped(rows, family, table) ==
  [c \in SystemClass |->
     IF c \in family /\ table[c].exists
       THEN [table[c] EXCEPT !.active =
              \A f \in FamilyFeature : FamilyClasses[f] = family => EnabledIn(rows, f)]
       ELSE table[c]]

\* Every class of the family follows all its gates, the stamps stay as they are.
FamilyBits(rows, family, table) ==
  [c \in SystemClass |->
     IF c \in family /\ table[c].exists THEN [table[c] EXCEPT !.active = Gate(rows, c)]
                                        ELSE table[c]]

WriteFeature(f, enabled, stamp) ==
  IF Ahead(stamp, features[f].stamp)
    THEN [features EXCEPT ![f] = [enabled |-> enabled, stamp |-> stamp]] ELSE features

-----------------------------------------------------------------------------
(* Enabling tasks also authors the task class, whichever toggle wins; what is
   there already is left alone, and the bits are derived again. *)
EnsureTaskFamily(table, stamp) ==
  IF "task" \in SystemClass /\ ~table["task"].exists
    THEN [table EXCEPT !["task"] = [exists |-> TRUE, active |-> TRUE, stamp |-> stamp]]
    ELSE table

FeatureSet(e) ==
  /\ e.op = "workspace.feature.set"
  /\ features' = WriteFeature(e.feature, e.enabled, e.stamp)
  /\ IF e.feature \in FamilyFeature
       THEN LET ensures == e.feature = "tasks" /\ e.enabled /\ "task" \in SystemClass
                table == IF ensures THEN EnsureTaskFamily(classNodes, e.stamp) ELSE classNodes
                rows == IF ensures /\ ~classRows["task"].exists
                          THEN [classRows EXCEPT !["task"] = [exists |-> TRUE, active |-> TRUE]]
                          ELSE classRows
            IN  IF Ahead(e.stamp, features[e.feature].stamp) \/ ensures
                  THEN /\ classNodes' = FamilyBits(features', FamilyClasses[e.feature], table)
                       /\ classRows' = FamilyBits(features', FamilyClasses[e.feature], rows)
                  ELSE UNCHANGED <<classNodes, classRows>>
       ELSE UNCHANGED <<classNodes, classRows>>
  /\ UNCHANGED rejected

(* A fresh node is active whatever the toggles say.  The classRows bit is set also on
   one that is there; its node keeps its bit, and takes the stamp if that is ahead. *)
CreateClass(e) ==
  /\ e.op = "class.create"
  /\ classNodes' = [classNodes EXCEPT ![e.class] =
       IF ~@.exists THEN [exists |-> TRUE, active |-> TRUE, stamp |-> e.stamp]
       ELSE IF Ahead(e.stamp, @.stamp) THEN [@ EXCEPT !.stamp = e.stamp] ELSE @]
  /\ classRows' = [classRows EXCEPT ![e.class] = [exists |-> TRUE, active |-> TRUE]]
  /\ UNCHANGED <<features, rejected>>

RefuseUpdate(e) ==
  /\ rejected' = rejected \cup {e}
  /\ UNCHANGED <<features, classNodes, classRows>>

\* The delete of a base class is a disable, of another system class an archival.
ObjectDelete(e) ==
  /\ e.op = "object.delete"
  /\ IF ~classNodes[e.class].exists \/ e.class \in LockedSystemClasses THEN RefuseUpdate(e)
     ELSE IF Managed(e.class)
       THEN \E f \in FamilyFeature :
              /\ BaseClass[f] = e.class
              /\ IF f \in Feature /\ Ahead(e.stamp, features[f].stamp)
                   THEN /\ features' = WriteFeature(f, FALSE, e.stamp)
                        /\ classNodes' = FamilyBits(features', FamilyClasses[f], classNodes)
                        /\ classRows' = FamilyBits(features', FamilyClasses[f], classRows)
                   ELSE UNCHANGED <<features, classNodes, classRows>>
              /\ UNCHANGED rejected
       ELSE /\ classNodes' = [classNodes EXCEPT ![e.class].active = FALSE]
            /\ classRows' = [classRows EXCEPT ![e.class].active = FALSE]
            /\ UNCHANGED <<features, rejected>>

\* object.update {active}: last writer wins on the row; locked classes and bases refuse
\* to be archived, anything may be brought back.
ObjectUpdate(e) ==
  /\ e.op = "object.update"
  /\ IF ~classNodes[e.class].exists THEN RefuseUpdate(e)
     ELSE IF ~Ahead(e.stamp, classNodes[e.class].stamp) THEN UNCHANGED <<features, classNodes, classRows, rejected>>
     ELSE IF ~e.active /\ (e.class \in LockedSystemClasses \/ Managed(e.class)) THEN RefuseUpdate(e)
     ELSE /\ classNodes' = [classNodes EXCEPT ![e.class].active = e.active, ![e.class].stamp = e.stamp]
          /\ classRows' = [classRows EXCEPT ![e.class].active = e.active]
          /\ UNCHANGED <<features, rejected>>

DeliverFeature(e) ==
  /\ Cardinality(delivered) < MaxToggles
  /\ \A d \in delivered : d.stamp # e.stamp   \* a device stamps no two envelopes alike
  /\ delivered' = delivered \cup {e}
  /\ FeatureSet(e) \/ CreateClass(e) \/ ObjectDelete(e) \/ ObjectUpdate(e)

FeaturesNext == \E e \in FeatureEnvelope \ delivered : DeliverFeature(e)

FeaturesSpec == FeaturesInit /\ [][FeaturesNext]_featureVars

-----------------------------------------------------------------------------
Follows(c) == classNodes[c].exists => classNodes[c].active = Gate(features, c)

Agree(c) == classNodes[c].exists => classNodes[c].active = classRows[c].active

DriftsByItself(c, e) ==
  Follows(c) /\ ~Follows(c)' =>
    e.op \in {"class.create", "object.update", "object.delete"} /\ e.class = c

SplitsRedeclared(c, e) ==
  Agree(c) /\ ~Agree(c)' => ~classNodes[c].active /\ e.op = "class.create" /\ e.class = c

(* A class under two toggles shows only while both are on.  Its bit leaves the gates only
   by an envelope that addresses the class itself, a declaration after the toggle or a
   direct archival, never by another feature's toggle.  Its node's bit and its registry
   bit part only when an archived class is declared again: class.create sets the
   registry's and leaves the node's. *)
OnlyOwnEnvelopeDrifts ==
  [][\A e \in delivered' \ delivered, c \in SystemClass :
       (GatingFeatures[c] # {} => DriftsByItself(c, e)) /\ SplitsRedeclared(c, e)]_featureVars
=============================================================================
