---------------------- MODULE FilterQueryBuilder_proofs ----------------------
(***************************************************************************)
(* Proofs about FilterQueryBuilder for every instance of its constants:    *)
(* the type invariant and the uniqueness of the aliases the registry hands *)
(* out.                                                                    *)
(***************************************************************************)
EXTENDS FilterQueryBuilder, FiniteSetTheorems, SequenceTheorems, TLAPS

\* Every alias handed out is at most alias_index_: the next ++alias_index_
\* is fresh.
CounterBound == \A x \in AtomTypes \X Keys : mentioned[x] <= aliasIndex

\* A concept is bound only under the atom its key belongs to: attribute
\* keys are the base and type references, a neighbor key starts with the
\* prefix of its atom.
WellPlaced(a, k) ==
    IF a = "ATTRIBUTE" THEN k \in {kBaseTableRef, kTypeTableRef}
    ELSE k \in NeighborNames /\ StartsWith(k, NeighborPrefix[a])
KeysWellPlaced ==
    \A a \in AtomTypes, k \in Keys : mentioned[<<a, k>>] # NoAlias => WellPlaced(a, k)

\* The base table keeps the alias the constructor gave it.
BaseBound == mentioned[<<"ATTRIBUTE", kBaseTableRef>>] = kBaseTableAlias

\* The registry key <<a, k>> under which VisitResolvedExpressionColumn
\* looks up the alias of ref.
RefKey(ref, a, k) ==
    \/ ~ref.struct /\ a = "ATTRIBUTE"
       /\ k = IF ref.name = "type" THEN kTypeTableRef ELSE kBaseTableRef
    \/ ref.struct /\ a \in NeighborAtoms /\ StartsWith(ref.name, NeighborPrefix[a])
       /\ k = ref.name

\* Every WHERE fragment carries the alias its concept is still bound to.
WhereBound ==
    \A i \in DOMAIN where : \E a \in AtomTypes, k \in Keys :
        RefKey(where[i].ref, a, k) /\ mentioned[<<a, k>>] = where[i].alias

\* The inductive invariant.
IInv == TypeOK /\ CounterBound /\ AliasesDistinct /\ KeysWellPlaced /\ BaseBound

-----------------------------------------------------------------------------
(* The registry step of GetTableAlias keeps the registry invariants and   *)
(* returns an alias bound to the concept.                                 *)

LEMMA GetTableAliasStep ==
    ASSUME TypeOK, CounterBound, AliasesDistinct, KeysWellPlaced, BaseBound,
           NEW a \in AtomTypes, NEW k \in Keys, WellPlaced(a, k)
    PROVE  /\ GetTableAlias(a, k).mentioned[<<"ATTRIBUTE", kBaseTableRef>>] = kBaseTableAlias
           /\ GetTableAlias(a, k).mentioned \in [AtomTypes \X Keys -> Nat \cup {NoAlias}]
           /\ GetTableAlias(a, k).index \in Nat
           /\ GetTableAlias(a, k).alias \in Nat
           /\ \A x \in AtomTypes \X Keys :
                 GetTableAlias(a, k).mentioned[x] <= GetTableAlias(a, k).index
           /\ \A x, y \in AtomTypes \X Keys :
                 /\ GetTableAlias(a, k).mentioned[x] # NoAlias
                 /\ GetTableAlias(a, k).mentioned[x] = GetTableAlias(a, k).mentioned[y]
                 => x = y
           /\ \A b \in AtomTypes, j \in Keys :
                 GetTableAlias(a, k).mentioned[<<b, j>>] # NoAlias => WellPlaced(b, j)
<1>1. CASE mentioned[<<a, k>>] # NoAlias
  BY <1>1 DEF GetTableAlias, TypeOK, CounterBound, AliasesDistinct, KeysWellPlaced,
              NoAlias, BaseBound
<1>2. CASE mentioned[<<a, k>>] = NoAlias
  <2> DEFINE m == [mentioned EXCEPT ![<<a, k>>] = aliasIndex + 1]
  <2>1. GetTableAlias(a, k) = [mentioned |-> m, index |-> aliasIndex + 1,
                               alias |-> aliasIndex + 1]
    BY <1>2 DEF GetTableAlias
  <2>0. <<a, k>> \in AtomTypes \X Keys
    OBVIOUS
  <2>2. m \in [AtomTypes \X Keys -> Nat \cup {NoAlias}]
    BY <2>0 DEF TypeOK
  <2>3. ASSUME NEW x \in AtomTypes \X Keys PROVE m[x] <= aliasIndex + 1
    <3>1. CASE x = <<a, k>>
      BY <2>0, <3>1 DEF TypeOK
    <3>2. CASE x # <<a, k>>
      <4>1. m[x] = mentioned[x]
        BY <3>2 DEF TypeOK
      <4>2. mentioned[x] <= aliasIndex /\ aliasIndex \in Nat
        BY DEF CounterBound, TypeOK
      <4>3. mentioned[x] \in Int
        BY DEF TypeOK, NoAlias
      <4>4. QED
        BY <4>1, <4>2, <4>3
    <3>3. QED
      BY <3>1, <3>2
  <2>4. ASSUME NEW x \in AtomTypes \X Keys, NEW y \in AtomTypes \X Keys,
               m[x] # NoAlias, m[x] = m[y]
        PROVE  x = y
    <3>1. CASE x = <<a, k>> /\ y = <<a, k>>
      BY <3>1
    <3>2. CASE x = <<a, k>> /\ y # <<a, k>>
      BY <3>2, <2>4 DEF TypeOK, CounterBound
    <3>3. CASE x # <<a, k>> /\ y = <<a, k>>
      BY <3>3, <2>4 DEF TypeOK, CounterBound
    <3>4. CASE x # <<a, k>> /\ y # <<a, k>>
      BY <3>4, <2>4 DEF TypeOK, AliasesDistinct
    <3>5. QED
      BY <3>1, <3>2, <3>3, <3>4
  <2>5. \A b \in AtomTypes, j \in Keys : m[<<b, j>>] # NoAlias => WellPlaced(b, j)
    BY DEF TypeOK, KeysWellPlaced
  <2>6. m[<<"ATTRIBUTE", kBaseTableRef>>] = kBaseTableAlias
    <3>1. <<"ATTRIBUTE", kBaseTableRef>> \in AtomTypes \X Keys
      BY DEF AtomTypes, Keys
    <3>2. <<"ATTRIBUTE", kBaseTableRef>> # <<a, k>>
      BY <1>2 DEF BaseBound, NoAlias, kBaseTableAlias
    <3>3. QED
      BY <3>1, <3>2 DEF BaseBound, TypeOK
  <2>7. QED
    BY <2>0, <2>1, <2>2, <2>3, <2>6, <2>4, <2>5 DEF TypeOK
<1>3. QED
  BY <1>1, <1>2

-----------------------------------------------------------------------------
(* The joins GetFromClause renders are join records.                      *)

LEMMA KeysFinite == IsFiniteSet(Keys)
<1>1. IsFiniteSet({kBaseTableRef, kTypeTableRef})
  <2>1. IsFiniteSet({kBaseTableRef})
    BY FS_Singleton
  <2>2. QED
    BY <2>1, FS_AddElement
<1>2. QED
  BY <1>1, NamesAssumption, FS_Union DEF Keys

\* An ordering of the keys bound under an atom is a sequence of keys.
LEMMA OrderingsAreSequences ==
    ASSUME NEW S \in SUBSET Keys, NEW s \in Orderings(S)
    PROVE  s \in Seq(Keys)
<1>1. Cardinality(S) \in Nat
  BY KeysFinite, FS_Subset, FS_CardinalityType
<1>2. QED
  BY <1>1 DEF Orderings

\* One concept's join template yields nothing or one join record.
LEMMA ConceptJoinType ==
    ASSUME TypeOK, KeysWellPlaced, NEW T \in NodeKinds, NEW a \in AtomTypes,
           NEW k \in Keys, mentioned[<<a, k>>] # NoAlias
    PROVE  \/ ConceptJoin(T, a, k) = <<>>
           \/ \E j \in JoinRecords : ConceptJoin(T, a, k) = <<j>>
<1>1. mentioned[<<a, k>>] \in Nat /\ mentioned[<<"ATTRIBUTE", kBaseTableRef>>] \in Nat \cup {NoAlias}
  BY DEF TypeOK, NoAlias, Keys, AtomTypes, kBaseTableRef
<1>2. WellPlaced(a, k)
  BY DEF KeysWellPlaced
<1>3. T \in {"Artifact", "Execution", "Context"}
  BY KindsAssumption
<1>4. /\ GetTypeKindValue(T) \in {"ARTIFACT_TYPE", "EXECUTION_TYPE", "CONTEXT_TYPE"}
      /\ NodePropertyTable(T) \in {"ArtifactProperty", "ExecutionProperty", "ContextProperty"}
      /\ NodeIdColumn(T) \in {"artifact_id", "execution_id", "context_id"}
  BY <1>3 DEF GetTypeKindValue, NodePropertyTable, NodeIdColumn
<1>5. ASSUME NEW p \in {"properties_", "custom_properties_"},
             a \in {"PROPERTY", "CUSTOM_PROPERTY"}
      PROVE  DropPrefix(k, p) \in PropertyNames \cup (NeighborNames \X {"properties_", "custom_properties_"})
  BY <1>2, <1>5 DEF WellPlaced, DropPrefix, StartsWith, PropertyNames
<1> USE DEF JoinRecords, Join, JoinRels, JoinVias, JoinOns, Filters
<1>6. CASE a = "ATTRIBUTE"
  BY <1>1, <1>4, <1>6 DEF ConceptJoin, GetTypeJoinTable
<1>7. CASE a = "CONTEXT"
  BY <1>1, <1>3, <1>7 DEF ConceptJoin, GetContextJoinTable
<1>8. CASE a = "PROPERTY"
  BY <1>1, <1>4, <1>5, <1>8 DEF ConceptJoin, GetPropertyJoinTableImpl
<1>9. CASE a = "CUSTOM_PROPERTY"
  BY <1>1, <1>4, <1>5, <1>9 DEF ConceptJoin, GetPropertyJoinTableImpl
<1>10. CASE a = "PARENT_CONTEXT"
  BY <1>1, <1>10 DEF ConceptJoin, GetParentContextJoinTable
<1>11. CASE a = "CHILD_CONTEXT"
  BY <1>1, <1>11 DEF ConceptJoin, GetChildContextJoinTable
<1>12. CASE a = "EVENT"
  BY <1>1, <1>4, <1>12 DEF ConceptJoin, GetEventJoinTable
<1>13. QED
  BY <1>6, <1>7, <1>8, <1>9, <1>10, <1>11, <1>12 DEF AtomTypes

\* The joins of one category form a sequence of join records.
LEMMA CategoryJoinsType ==
    ASSUME TypeOK, KeysWellPlaced, NEW T \in NodeKinds, NEW a \in AtomTypes,
           NEW ks \in Seq(Keys), \A i \in DOMAIN ks : mentioned[<<a, ks[i]>>] # NoAlias
    PROVE  CategoryJoins(T, a, ks) \in Seq(JoinRecords)
<1> DEFINE js == [i \in DOMAIN ks |-> ConceptJoin(T, a, ks[i])]
<1>1. \A i \in DOMAIN js : js[i] = <<>> \/ \E j \in JoinRecords : js[i] = <<j>>
  <2> SUFFICES ASSUME NEW i \in DOMAIN ks
               PROVE  js[i] = <<>> \/ \E j \in JoinRecords : js[i] = <<j>>
    OBVIOUS
  <2>1. ks[i] \in Keys /\ mentioned[<<a, ks[i]>>] # NoAlias
    OBVIOUS
  <2>2. QED
    BY <2>1, ConceptJoinType
<1>2. CASE \E i \in DOMAIN js : js[i] = <<>>
  BY <1>2 DEF CategoryJoins
<1>3. CASE \A i \in DOMAIN js : js[i] # <<>>
  <2>1. \A i \in DOMAIN js : js[i][1] \in JoinRecords
    BY <1>1, <1>3
  <2>2. QED
    BY <1>3, <2>1 DEF CategoryJoins
<1>4. QED
  BY <1>2, <1>3

-----------------------------------------------------------------------------
(* The inductive invariant: one step per action.                          *)

\* The constructor's registry, shared by Init and NewRequest.
LEMMA InitialMentionedIInv ==
    /\ InitialMentioned \in [AtomTypes \X Keys -> Nat \cup {NoAlias}]
    /\ \A x \in AtomTypes \X Keys : InitialMentioned[x] <= 0
    /\ \A x, y \in AtomTypes \X Keys :
          InitialMentioned[x] # NoAlias /\ InitialMentioned[x] = InitialMentioned[y] => x = y
    /\ \A a \in AtomTypes, k \in Keys :
          InitialMentioned[<<a, k>>] # NoAlias => WellPlaced(a, k)
    /\ InitialMentioned[<<"ATTRIBUTE", kBaseTableRef>>] = kBaseTableAlias
<1> USE DEF InitialMentioned, NoAlias, kBaseTableAlias
<1>1. <<"ATTRIBUTE", kBaseTableRef>> \in AtomTypes \X Keys
  BY DEF AtomTypes, Keys
<1>2. InitialMentioned \in [AtomTypes \X Keys -> Nat \cup {NoAlias}]
  OBVIOUS
<1>3. \A x \in AtomTypes \X Keys : InitialMentioned[x] <= 0
  OBVIOUS
<1>4. \A x, y \in AtomTypes \X Keys :
          InitialMentioned[x] # NoAlias /\ InitialMentioned[x] = InitialMentioned[y] => x = y
  OBVIOUS
<1>5. \A a \in AtomTypes, k \in Keys :
          InitialMentioned[<<a, k>>] # NoAlias => WellPlaced(a, k)
  BY DEF WellPlaced, kBaseTableRef
<1>6. InitialMentioned[<<"ATTRIBUTE", kBaseTableRef>>] = kBaseTableAlias
  BY <1>1
<1>7. QED
  BY <1>2, <1>3, <1>4, <1>5, <1>6

LEMMA InitIInv == Init => IInv
BY InitialMentionedIInv
DEF Init, IInv, TypeOK, CounterBound, AliasesDistinct, KeysWellPlaced, BaseBound

LEMMA NewRequestIInv == IInv /\ NewRequest => IInv'
BY InitialMentionedIInv
DEF NewRequest, IInv, TypeOK, CounterBound, AliasesDistinct, KeysWellPlaced, BaseBound

\* Pushing a fragment rendered against GetTableAlias(a, k) keeps the
\* invariant.
LEMMA PushIInv ==
    ASSUME IInv, NEW ref \in ColumnRefs, NEW a \in AtomTypes, NEW k \in Keys,
           WellPlaced(a, k), NEW column \in AttrNames \cup {""},
           Push(ref, GetTableAlias(a, k), column),
           UNCHANGED <<kind, from, status, phase>>
    PROVE  IInv'
<1> DEFINE r == GetTableAlias(a, k)
<1>1. /\ r.mentioned[<<"ATTRIBUTE", kBaseTableRef>>] = kBaseTableAlias
      /\ r.mentioned \in [AtomTypes \X Keys -> Nat \cup {NoAlias}]
      /\ r.index \in Nat
      /\ r.alias \in Nat
      /\ \A x \in AtomTypes \X Keys : r.mentioned[x] <= r.index
      /\ \A x, y \in AtomTypes \X Keys :
            r.mentioned[x] # NoAlias /\ r.mentioned[x] = r.mentioned[y] => x = y
      /\ \A b \in AtomTypes, j \in Keys : r.mentioned[<<b, j>>] # NoAlias => WellPlaced(b, j)
  BY GetTableAliasStep DEF IInv
<1>2. mentioned' = r.mentioned /\ aliasIndex' = r.index
  BY DEF Push
<1>3. where' \in Seq(Fragments)
  <2>1. [ref |-> ref, alias |-> r.alias, column |-> column] \in Fragments
    BY <1>1 DEF Fragments
  <2>2. where \in Seq(Fragments)
    BY DEF IInv, TypeOK
  <2>3. QED
    BY <2>1, <2>2, AppendProperties DEF Push
<1>4. TypeOK'
  BY <1>1, <1>2, <1>3 DEF IInv, TypeOK
<1>5. QED
  BY <1>1, <1>2, <1>4 DEF IInv, CounterBound, AliasesDistinct, KeysWellPlaced, BaseBound

LEMMA VisitIInv ==
    ASSUME IInv, NEW ref \in ColumnRefs, VisitResolvedExpressionColumn(ref)
    PROVE  IInv'
<1>1. ASSUME ref.struct, NEW a \in NeighborAtoms, VisitNeighborColumn(ref, a)
      PROVE  IInv'
  <2>1. ref.name \in NeighborNames
    BY <1>1 DEF ColumnRefs
  <2>2. a \in AtomTypes /\ ref.name \in Keys /\ WellPlaced(a, ref.name)
    BY <1>1, <2>1 DEF NeighborAtoms, NeighborPrefix, AtomTypes, Keys, WellPlaced,
                      VisitNeighborColumn
  <2>3. QED
    BY <1>1, <2>2, PushIInv DEF VisitResolvedExpressionColumn, VisitNeighborColumn
<1>2. ASSUME VisitUnknownNeighbor(ref)
      PROVE  IInv'
  BY <1>2 DEF VisitResolvedExpressionColumn, VisitUnknownNeighbor, IInv, TypeOK,
              CounterBound, AliasesDistinct, KeysWellPlaced, BaseBound
<1>3. ASSUME ~ref.struct, VisitAttributeColumn(ref)
      PROVE  IInv'
  <2> DEFINE k == IF ref.name = "type" THEN kTypeTableRef ELSE kBaseTableRef
  <2>1. "ATTRIBUTE" \in AtomTypes /\ k \in Keys /\ WellPlaced("ATTRIBUTE", k)
    BY DEF AtomTypes, Keys, WellPlaced
  <2>2. ref.name \in AttrNames
    BY <1>3 DEF ColumnRefs
  <2>3. QED
    BY <1>3, <2>1, <2>2, PushIInv DEF VisitResolvedExpressionColumn, VisitAttributeColumn
<1>4. QED
  BY <1>1, <1>2, <1>3 DEF VisitResolvedExpressionColumn

LEMMA GetFromClauseIInv == IInv /\ GetFromClause => IInv'
<1> SUFFICES ASSUME IInv, GetFromClause PROVE IInv'
  OBVIOUS
<1> USE DEF IInv
<1>1. ASSUME NEW a \in AtomTypes \ {"ATTRIBUTE"}, NEW ks \in Orderings(BoundKeys(a))
      PROVE  CategoryJoins(kind, a, ks) \in Seq(JoinRecords)
  <2>1. ks \in Seq(Keys)
    BY OrderingsAreSequences DEF BoundKeys
  <2>2. \A i \in DOMAIN ks : mentioned[<<a, ks[i]>>] # NoAlias
    BY DEF Orderings, BoundKeys
  <2>3. QED
    BY <2>1, <2>2, CategoryJoinsType DEF TypeOK
<1>2. CategoryJoins(kind, "ATTRIBUTE", TypeKeys) \in Seq(JoinRecords)
  <2>1. TypeKeys \in Seq(Keys)
    BY DEF TypeKeys, Keys
  <2>2. \A i \in DOMAIN TypeKeys : mentioned[<<"ATTRIBUTE", TypeKeys[i]>>] # NoAlias
    BY DEF TypeKeys
  <2>3. QED
    BY <2>1, <2>2, CategoryJoinsType DEF TypeOK, AtomTypes
<1>3. GetBaseNodeTable(kind, mentioned[<<"ATTRIBUTE", kBaseTableRef>>]) \in Seq(JoinRecords)
  BY DEF BaseBound, kBaseTableAlias, GetBaseNodeTable, Join, JoinRecords, JoinRels,
         JoinVias, JoinOns, Filters, TypeOK
<1>4. from' \in Seq(JoinRecords)
  <2> DEFINE Q == Seq(JoinRecords)
  <2>1. PICK kc \in Orderings(BoundKeys("CONTEXT")),
             kp \in Orderings(BoundKeys("PROPERTY")),
             kq \in Orderings(BoundKeys("CUSTOM_PROPERTY")),
             kr \in Orderings(BoundKeys("PARENT_CONTEXT")),
             kh \in Orderings(BoundKeys("CHILD_CONTEXT")),
             ke \in Orderings(BoundKeys("EVENT")) :
          from' = GetBaseNodeTable(kind, mentioned[<<"ATTRIBUTE", kBaseTableRef>>])
                    \o CategoryJoins(kind, "ATTRIBUTE", TypeKeys)
                    \o CategoryJoins(kind, "CONTEXT", kc)
                    \o CategoryJoins(kind, "PROPERTY", kp)
                    \o CategoryJoins(kind, "CUSTOM_PROPERTY", kq)
                    \o CategoryJoins(kind, "PARENT_CONTEXT", kr)
                    \o CategoryJoins(kind, "CHILD_CONTEXT", kh)
                    \o CategoryJoins(kind, "EVENT", ke)
    BY DEF GetFromClause
  <2>2. /\ CategoryJoins(kind, "CONTEXT", kc) \in Q
        /\ CategoryJoins(kind, "PROPERTY", kp) \in Q
        /\ CategoryJoins(kind, "CUSTOM_PROPERTY", kq) \in Q
        /\ CategoryJoins(kind, "PARENT_CONTEXT", kr) \in Q
        /\ CategoryJoins(kind, "CHILD_CONTEXT", kh) \in Q
        /\ CategoryJoins(kind, "EVENT", ke) \in Q
    BY <1>1 DEF AtomTypes
  <2>3. QED
    BY <1>2, <1>3, <2>1, <2>2, ConcatProperties
<1>5. QED
  BY <1>4 DEF GetFromClause, TypeOK, CounterBound, AliasesDistinct, KeysWellPlaced, BaseBound

LEMMA NextIInv == IInv /\ [Next]_vars => IInv'
<1> SUFFICES ASSUME IInv, [Next]_vars PROVE IInv'
  OBVIOUS
<1>1. CASE \E ref \in ColumnRefs : VisitResolvedExpressionColumn(ref)
  BY <1>1, VisitIInv
<1>2. CASE GetFromClause
  BY <1>2, GetFromClauseIInv
<1>3. CASE NewRequest
  BY <1>3, NewRequestIInv
<1>4. CASE UNCHANGED vars
  BY <1>4 DEF vars, IInv, TypeOK, CounterBound, AliasesDistinct, KeysWellPlaced, BaseBound
<1>5. QED
  BY <1>1, <1>2, <1>3, <1>4 DEF Next

LEMMA InvariantHolds == Spec => []IInv
BY InitIInv, NextIInv, PTL DEF Spec

-----------------------------------------------------------------------------
(* Refinement of the abstract registry, binding <- mentioned.              *)

LEMMA RegistryInit == Init => Registry!Init
BY DEF Init, InitialMentioned, Registry!Init, Registry!InitBinding

\* A step that sets the registry to GetTableAlias(a, k).mentioned leaves
\* the abstract binding alone or binds <<a, k>> to a fresh alias.
LEMMA GetTableAliasRefines ==
    ASSUME IInv, NEW a \in AtomTypes, NEW k \in Keys,
           mentioned' = GetTableAlias(a, k).mentioned
    PROVE  [Registry!Next]_mentioned
<1>1. CASE mentioned[<<a, k>>] # NoAlias
  BY <1>1 DEF GetTableAlias
<1>2. CASE mentioned[<<a, k>>] = NoAlias
  <2>1. mentioned' = [mentioned EXCEPT ![<<a, k>>] = aliasIndex + 1]
    BY <1>2 DEF GetTableAlias
  <2>2. mentioned \in [AtomTypes \X Keys -> Nat \cup {NoAlias}] /\ aliasIndex \in Nat
    BY DEF IInv, TypeOK
  <2>3. mentioned'[<<a, k>>] = aliasIndex + 1
    BY <2>1, <2>2
  <2>4. aliasIndex + 1 \notin Registry!Aliases
    <3>1. ASSUME NEW c \in AtomTypes \X Keys PROVE mentioned[c] # aliasIndex + 1
      BY <2>2, NoAlias = -1 DEF IInv, CounterBound, NoAlias
    <3>2. QED
      BY <3>1 DEF Registry!Aliases
  <2>5. mentioned' = [mentioned EXCEPT ![<<a, k>>] = mentioned'[<<a, k>>]]
    BY <2>1, <2>3
  <2>6. aliasIndex + 1 \in Nat
    BY <2>2
  <2>7. Registry!Bind(<<a, k>>)
    BY <1>2, <2>3, <2>4, <2>5, <2>6 DEF Registry!Bind
  <2>8. QED
    BY <2>7 DEF Registry!Next
<1>3. QED
  BY <1>1, <1>2

LEMMA NextRefines == IInv /\ [Next]_vars => [Registry!Next]_mentioned
<1> SUFFICES ASSUME IInv, [Next]_vars PROVE [Registry!Next]_mentioned
  OBVIOUS
<1>1. ASSUME NEW ref \in ColumnRefs, VisitResolvedExpressionColumn(ref)
      PROVE  [Registry!Next]_mentioned
  <2>1. ASSUME ref.struct, NEW a \in NeighborAtoms, VisitNeighborColumn(ref, a)
        PROVE  [Registry!Next]_mentioned
    <3>1. ref.name \in NeighborNames
      BY <2>1 DEF ColumnRefs
    <3>2. a \in AtomTypes /\ ref.name \in Keys
      BY <3>1 DEF NeighborAtoms, NeighborPrefix, AtomTypes, Keys
    <3>3. QED
      BY <2>1, <3>2, GetTableAliasRefines DEF VisitNeighborColumn, Push
  <2>2. ASSUME VisitUnknownNeighbor(ref) PROVE [Registry!Next]_mentioned
    BY <2>2 DEF VisitUnknownNeighbor
  <2>3. ASSUME VisitAttributeColumn(ref) PROVE [Registry!Next]_mentioned
    <3> DEFINE k == IF ref.name = "type" THEN kTypeTableRef ELSE kBaseTableRef
    <3>1. "ATTRIBUTE" \in AtomTypes /\ k \in Keys
      BY DEF AtomTypes, Keys
    <3>2. QED
      BY <2>3, <3>1, GetTableAliasRefines DEF VisitAttributeColumn, Push
  <2>4. QED
    BY <1>1, <2>1, <2>2, <2>3 DEF VisitResolvedExpressionColumn
<1>2. CASE GetFromClause
  BY <1>2 DEF GetFromClause
<1>3. CASE NewRequest
  <2>1. Registry!Reset
    BY <1>3 DEF NewRequest, InitialMentioned, Registry!Reset, Registry!InitBinding
  <2>2. QED
    BY <2>1 DEF Registry!Next
<1>4. CASE UNCHANGED vars
  BY <1>4 DEF vars
<1>5. QED
  BY <1>1, <1>2, <1>3, <1>4 DEF Next

-----------------------------------------------------------------------------
(* Alias reuse: WHERE fragments stay bound to their concepts' aliases.     *)

\* The relationship kind spec 4.3 gives each neighbor atom.
ConceptTag == [CONTEXT |-> "ContextJoin", PROPERTY |-> "PropertyJoin",
               CUSTOM_PROPERTY |-> "CustomPropertyJoin",
               PARENT_CONTEXT |-> "ParentContextJoin",
               CHILD_CONTEXT |-> "ChildContextJoin", EVENT |-> "EventJoin"]

\* The concept of a neighbor reference with a known prefix.
LEMMA NeighborConcept ==
    ASSUME NEW r \in ColumnRefs, r.struct, NEW a \in NeighborAtoms,
           StartsWith(r.name, NeighborPrefix[a])
    PROVE  SpecConcept(r) =
             <<ConceptTag[a], IF a \in {"PROPERTY", "CUSTOM_PROPERTY"}
                              THEN SplitName[r.name][2] ELSE r.name>>
<1> USE DEF SpecConcept, StartsWith, NeighborPrefix, ConceptTag
<1>1. CASE a = "CONTEXT"
  BY <1>1
<1>2. CASE a = "PROPERTY"
  BY <1>2
<1>3. CASE a = "CUSTOM_PROPERTY"
  BY <1>3
<1>4. CASE a = "PARENT_CONTEXT"
  BY <1>4
<1>5. CASE a = "CHILD_CONTEXT"
  BY <1>5
<1>6. CASE a = "EVENT"
  BY <1>6
<1>7. QED
  BY <1>1, <1>2, <1>3, <1>4, <1>5, <1>6 DEF NeighborAtoms

\* Two references denote the same concept exactly when the code looks
\* their aliases up under the same registry key.
LEMMA ConceptKey ==
    ASSUME NEW r1 \in ColumnRefs, NEW r2 \in ColumnRefs,
           NEW a1, NEW k1, NEW a2, NEW k2, RefKey(r1, a1, k1), RefKey(r2, a2, k2)
    PROVE  SpecConcept(r1) = SpecConcept(r2) <=> <<a1, k1>> = <<a2, k2>>
<1>1. CASE ~r1.struct /\ ~r2.struct
  BY <1>1 DEF RefKey, SpecConcept, kTypeTableRef, kBaseTableRef
<1>2. CASE r1.struct # r2.struct
  <2>1. ASSUME NEW r \in ColumnRefs, NEW a, NEW k, RefKey(r, a, k), r.struct
        PROVE  /\ SpecConcept(r)[1] \notin {"TypeJoin", "BaseAttribute"}
               /\ a # "ATTRIBUTE"
    BY <2>1, NeighborConcept DEF RefKey, ConceptTag, NeighborAtoms, NeighborPrefix
  <2>2. ASSUME NEW r \in ColumnRefs, NEW a, NEW k, RefKey(r, a, k), ~r.struct
        PROVE  /\ SpecConcept(r)[1] \in {"TypeJoin", "BaseAttribute"}
               /\ a = "ATTRIBUTE"
    BY <2>2 DEF RefKey, SpecConcept
  <2>3. CASE r1.struct /\ ~r2.struct
    <3>1. SpecConcept(r1)[1] \notin {"TypeJoin", "BaseAttribute"} /\ a1 # "ATTRIBUTE"
      BY <2>1, <2>3
    <3>2. SpecConcept(r2)[1] \in {"TypeJoin", "BaseAttribute"} /\ a2 = "ATTRIBUTE"
      BY <2>2, <2>3
    <3>3. QED
      BY <3>1, <3>2
  <2>4. CASE ~r1.struct /\ r2.struct
    <3>1. SpecConcept(r2)[1] \notin {"TypeJoin", "BaseAttribute"} /\ a2 # "ATTRIBUTE"
      BY <2>1, <2>4
    <3>2. SpecConcept(r1)[1] \in {"TypeJoin", "BaseAttribute"} /\ a1 = "ATTRIBUTE"
      BY <2>2, <2>4
    <3>3. QED
      BY <3>1, <3>2
  <2>5. r1.struct \in BOOLEAN /\ r2.struct \in BOOLEAN
    BY DEF ColumnRefs
  <2>6. QED
    BY <1>2, <2>3, <2>4, <2>5
<1>3. CASE r1.struct /\ r2.struct
  <2>1. /\ a1 \in NeighborAtoms /\ StartsWith(r1.name, NeighborPrefix[a1]) /\ k1 = r1.name
        /\ a2 \in NeighborAtoms /\ StartsWith(r2.name, NeighborPrefix[a2]) /\ k2 = r2.name
    BY <1>3 DEF RefKey
  <2>2. /\ SpecConcept(r1) = <<ConceptTag[a1], IF a1 \in {"PROPERTY", "CUSTOM_PROPERTY"}
                                               THEN SplitName[r1.name][2] ELSE r1.name>>
        /\ SpecConcept(r2) = <<ConceptTag[a2], IF a2 \in {"PROPERTY", "CUSTOM_PROPERTY"}
                                               THEN SplitName[r2.name][2] ELSE r2.name>>
    BY <1>3, <2>1, NeighborConcept
  <2>3. ConceptTag[a1] = ConceptTag[a2] <=> a1 = a2
    BY <2>1 DEF ConceptTag, NeighborAtoms, NeighborPrefix
  <2>4. CASE a1 = a2 /\ a1 \in {"PROPERTY", "CUSTOM_PROPERTY"}
    <3>1. r1.name \in NeighborNames /\ r2.name \in NeighborNames
      BY <1>3 DEF ColumnRefs
    <3>2. SplitName[r1.name] \in STRING \X STRING /\ SplitName[r2.name] \in STRING \X STRING
      BY <3>1, NamesAssumption
    <3>3. SplitName[r1.name][1] = SplitName[r2.name][1]
      BY <2>1, <2>4 DEF StartsWith
    <3>4. SplitName[r1.name][2] = SplitName[r2.name][2] => r1.name = r2.name
      BY <3>1, <3>2, <3>3, SplitAssumption
    <3>5. QED
      BY <2>1, <2>2, <2>4, <3>4
  <2>5. CASE a1 = a2 /\ a1 \notin {"PROPERTY", "CUSTOM_PROPERTY"}
    BY <2>1, <2>2, <2>5
  <2>6. CASE a1 # a2
    BY <2>2, <2>3, <2>6
  <2>7. QED
    BY <2>4, <2>5, <2>6
<1>4. QED
  <2>1. r1.struct \in BOOLEAN /\ r2.struct \in BOOLEAN
    BY DEF ColumnRefs
  <2>2. QED
    BY <1>1, <1>2, <1>3, <2>1

\* GetTableAlias returns the alias it leaves bound to the concept, and
\* never changes a binding already made.
LEMMA GetTableAliasBinds ==
    ASSUME TypeOK, NEW a \in AtomTypes, NEW k \in Keys
    PROVE  /\ GetTableAlias(a, k).alias = GetTableAlias(a, k).mentioned[<<a, k>>]
           /\ \A x \in AtomTypes \X Keys :
                 mentioned[x] # NoAlias => GetTableAlias(a, k).mentioned[x] = mentioned[x]
BY DEF GetTableAlias, TypeOK

\* Pushing a fragment rendered against GetTableAlias(a, k), with <<a, k>>
\* the key of its reference, keeps WhereBound.
LEMMA PushWhereBound ==
    ASSUME TypeOK, WhereBound, NEW ref \in ColumnRefs, NEW a \in AtomTypes,
           NEW k \in Keys, RefKey(ref, a, k), NEW column,
           Push(ref, GetTableAlias(a, k), column)
    PROVE  WhereBound'
<1> DEFINE r == GetTableAlias(a, k)
<1>1. /\ mentioned' = r.mentioned
      /\ where' = Append(where, [ref |-> ref, alias |-> r.alias, column |-> column])
  BY DEF Push
<1>2. where \in Seq(Fragments)
  BY DEF TypeOK
<1>3. SUFFICES ASSUME NEW i \in DOMAIN where'
               PROVE  \E b \in AtomTypes, j \in Keys :
                         RefKey(where'[i].ref, b, j) /\ mentioned'[<<b, j>>] = where'[i].alias
  BY DEF WhereBound
<1>4. CASE i \in DOMAIN where
  <2>1. PICK b \in AtomTypes, j \in Keys :
            RefKey(where[i].ref, b, j) /\ mentioned[<<b, j>>] = where[i].alias
    BY <1>4 DEF WhereBound
  <2>2. where'[i] = where[i]
    BY <1>1, <1>2, <1>4
  <2>3. where[i].alias \in Nat
    <3>1. where[i] \in Fragments
      BY <1>2, <1>4, ElementOfSeq
    <3>2. QED
      BY <3>1 DEF Fragments
  <2>4. mentioned'[<<b, j>>] = mentioned[<<b, j>>]
    <3>1. mentioned[<<b, j>>] # NoAlias /\ <<b, j>> \in AtomTypes \X Keys
      BY <2>1, <2>3 DEF NoAlias
    <3>2. QED
      BY <1>1, <3>1, GetTableAliasBinds
  <2>5. QED
    BY <2>1, <2>2, <2>4
<1>5. CASE i \notin DOMAIN where
  <2>1. where'[i] = [ref |-> ref, alias |-> r.alias, column |-> column]
    BY <1>1, <1>2, <1>5
  <2>2. QED
    BY <1>1, <2>1, GetTableAliasBinds
<1>6. QED
  BY <1>4, <1>5

LEMMA WhereBoundStep == IInv /\ WhereBound /\ [Next]_vars => WhereBound'
<1> SUFFICES ASSUME IInv, WhereBound, [Next]_vars PROVE WhereBound'
  OBVIOUS
<1>0. TypeOK
  BY DEF IInv
<1>1. ASSUME NEW ref \in ColumnRefs, VisitResolvedExpressionColumn(ref)
      PROVE  WhereBound'
  <2>1. ASSUME ref.struct, NEW a \in NeighborAtoms, VisitNeighborColumn(ref, a)
        PROVE  WhereBound'
    <3>1. ref.name \in NeighborNames
      BY <2>1 DEF ColumnRefs
    <3>2. a \in AtomTypes /\ ref.name \in Keys /\ RefKey(ref, a, ref.name)
      BY <2>1, <3>1 DEF NeighborAtoms, NeighborPrefix, AtomTypes, Keys, RefKey,
                        VisitNeighborColumn
    <3>3. QED
      BY <1>0, <2>1, <3>2, PushWhereBound DEF VisitNeighborColumn
  <2>2. ASSUME VisitUnknownNeighbor(ref) PROVE WhereBound'
    BY <2>2 DEF VisitUnknownNeighbor, WhereBound
  <2>3. ASSUME ~ref.struct, VisitAttributeColumn(ref) PROVE WhereBound'
    <3> DEFINE k == IF ref.name = "type" THEN kTypeTableRef ELSE kBaseTableRef
    <3>1. "ATTRIBUTE" \in AtomTypes /\ k \in Keys /\ RefKey(ref, "ATTRIBUTE", k)
      BY <2>3 DEF AtomTypes, Keys, RefKey
    <3>2. QED
      BY <1>0, <2>3, <3>1, PushWhereBound DEF VisitAttributeColumn
  <2>4. QED
    BY <1>1, <2>1, <2>2, <2>3 DEF VisitResolvedExpressionColumn
<1>2. CASE GetFromClause
  BY <1>2 DEF GetFromClause, WhereBound
<1>3. CASE NewRequest
  BY <1>3 DEF NewRequest, WhereBound
<1>4. CASE UNCHANGED vars
  BY <1>4 DEF vars, WhereBound
<1>5. QED
  BY <1>1, <1>2, <1>3, <1>4 DEF Next

\* WhereBound and the registry invariant give alias reuse.
LEMMA WhereBoundReuse == IInv /\ WhereBound => SameConceptSameAlias
<1> SUFFICES ASSUME IInv, WhereBound, NEW i \in DOMAIN where, NEW j \in DOMAIN where
             PROVE  SpecConcept(where[i].ref) = SpecConcept(where[j].ref)
                      <=> where[i].alias = where[j].alias
  BY DEF SameConceptSameAlias
<1>1. where \in Seq(Fragments)
  BY DEF IInv, TypeOK
<1>2. /\ where[i].ref \in ColumnRefs /\ where[j].ref \in ColumnRefs
      /\ where[i].alias \in Nat /\ where[j].alias \in Nat
  <2>1. where[i] \in Fragments /\ where[j] \in Fragments
    BY <1>1, ElementOfSeq
  <2>2. QED
    BY <2>1 DEF Fragments
<1>3. PICK a1 \in AtomTypes, k1 \in Keys :
          RefKey(where[i].ref, a1, k1) /\ mentioned[<<a1, k1>>] = where[i].alias
  BY DEF WhereBound
<1>4. PICK a2 \in AtomTypes, k2 \in Keys :
          RefKey(where[j].ref, a2, k2) /\ mentioned[<<a2, k2>>] = where[j].alias
  BY DEF WhereBound
<1>5. SpecConcept(where[i].ref) = SpecConcept(where[j].ref) <=> <<a1, k1>> = <<a2, k2>>
  BY <1>2, <1>3, <1>4, ConceptKey
<1>6. where[i].alias = where[j].alias => <<a1, k1>> = <<a2, k2>>
  BY <1>2, <1>3, <1>4 DEF IInv, AliasesDistinct, NoAlias
<1>7. QED
  BY <1>3, <1>4, <1>5, <1>6

LEMMA WhereBoundHolds == Spec => [](IInv /\ WhereBound)
<1>1. Init => IInv /\ WhereBound
  BY InitIInv DEF Init, WhereBound
<1>2. IInv /\ WhereBound /\ [Next]_vars => (IInv /\ WhereBound)'
  BY NextIInv, WhereBoundStep
<1>3. QED
  BY <1>1, <1>2, PTL DEF Spec

-----------------------------------------------------------------------------
(* Theorems.                                                               *)

\* Type correctness: in every state of every compilation the registry maps
\* concepts to aliases or NoAlias, the WHERE fragments carry aliases and
\* the FROM clause GetFromClause renders is a sequence of join records.
THEOREM TypeCorrect == Spec => []TypeOK
BY InvariantHolds, PTL DEF IInv

\* Alias uniqueness: however the traversal interleaves mentions of the
\* seven categories, GetTableAlias never gives two concepts, nor a concept
\* and the base table, the same alias.
THEOREM AliasesUnique == Spec => []AliasesDistinct
BY InvariantHolds, PTL DEF IInv


\* Refinement: the builder's registry behaves as the abstract registry of
\* AliasRegistry; every step of GetTableAlias binds at most one unbound
\* concept, to an alias no concept holds, or resets the whole binding to the
\* base table alone; no step moves a bound concept to another alias.
THEOREM ImplementsRegistry == Spec => RegistryRefined
<1>1. Init => Registry!Init
  BY RegistryInit
<1>2. IInv /\ [Next]_vars => [Registry!Next]_mentioned
  BY NextRefines
<1>3. QED
  BY <1>1, <1>2, InvariantHolds, PTL DEF Spec, RegistryRefined, Registry!Spec


\* Alias reuse (spec 8): in every state of every compilation, two rendered
\* column references denote the same concept exactly when
\* VisitResolvedExpressionColumn rendered them against the same alias.
THEOREM ConceptsShareAliases == Spec => []SameConceptSameAlias
BY WhereBoundHolds, WhereBoundReuse, PTL

=============================================================================
