------------------------------- MODULE MCMirror -------------------------------
(***************************************************************************)
(* The read models of one mirror on small instances.  An envelope writes   *)
(* one family of tables, and what a family's properties say depends on its *)
(* own envelopes only: a behaviour feeds one family, chosen at the start,  *)
(* and the others stay as they are.                                        *)
(***************************************************************************)
EXTENDS PropertyDefaults, PropertyValues, Features, EdgeIndex, Registers, TLC

CONSTANTS base, kind, topic, elem, notes

VARIABLE family

SeededDef == base :> {}
HomeDef == elem :> notes
StampsDef == {<<1, 1>>, <<1, 2>>, <<2, 1>>}
ToggleStampsDef == {<<1, 1>>, <<1, 2>>, <<2, 1>>}
MemberDef == {<<"c", "o">>}

Families == {"hierarchy", "values", "features", "index", "registers", "defaults"}

setupVars == <<schemaRow, binding, member, authored, configured>>

MirrorInit ==
  /\ family \in Families
  /\ IF family = "defaults" THEN tables = Declared ELSE HierarchyInit
  /\ DefaultsInit /\ ValuesInit /\ FeaturesInit
  /\ IndexInit /\ RegistersInit
  /\ store.rows \in IF family = "index" THEN {Family, Id} ELSE {Family}

\* Whether a class gives a default is asked of each alone: one is bound at a time.
OneBound == Cardinality({c \in Class : binding[c] # Unbound}) <= 1

MirrorNext ==
  /\ UNCHANGED family
  /\ \/ /\ family = "hierarchy" /\ HierarchyNext
        /\ UNCHANGED <<setupVars, valueVars, featureVars, indexVars, registerVars>>
     \/ /\ family = "values" /\ ValuesNext
        /\ UNCHANGED <<defaultVars, featureVars, indexVars, registerVars>>
     \/ /\ family = "features" /\ FeaturesNext
        /\ UNCHANGED <<defaultVars, valueVars, indexVars, registerVars>>
     \/ /\ family = "index" /\ IndexNext
        /\ UNCHANGED <<defaultVars, valueVars, featureVars, registerVars>>
     \/ /\ family = "registers" /\ RegistersNext
        /\ UNCHANGED <<defaultVars, valueVars, featureVars, indexVars>>
     \/ /\ family = "defaults" /\ DefaultsNext /\ OneBound'
        /\ UNCHANGED <<valueVars, featureVars, indexVars, registerVars>>

Interchangeable == Permutations(Id \ Family)
=============================================================================
