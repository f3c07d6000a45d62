---------------------- MODULE FilterQueryBuilder_joins ----------------------
(***************************************************************************)
(* Proof that the FROM clause GetFromClause renders realises the WHERE     *)
(* text (FromRealisesWhere), for every instance of the constants whose     *)
(* Admissible obeys the resolver's contract.  Without the contract the     *)
(* property fails (run invalid_relationship): a contexts_ or events_      *)
(* reference of a Context builder gets an alias and an empty join         *)
(* template, a parent_ or child_contexts_ reference of an Artifact or     *)
(* Execution builder a self-join of contexts on the node's id.            *)
(***************************************************************************)
EXTENDS FilterQueryBuilder_proofs

\* The resolver's contract (spec 4.2, 6, 7): a builder for T is handed a
\* neighbor reference only when T has that relationship.
AdmissibleContract ==
    \A T \in NodeKinds, ref \in ColumnRefs :
        Admissible(T, ref) /\ ref.struct =>
            /\ T = "Context" => /\ ~StartsWith(ref.name, "contexts_")
                                /\ ~StartsWith(ref.name, "events_")
            /\ T # "Context" => /\ ~StartsWith(ref.name, "parent_contexts_")
                                /\ ~StartsWith(ref.name, "child_contexts_")

BaseKey == <<"ATTRIBUTE", kBaseTableRef>>

\* The concepts the registry has bound.
Bound == {x \in AtomTypes \X Keys : mentioned[x] # NoAlias}

\* Every WHERE fragment was admitted for the builder's node kind.
WhereAdmissible == \A i \in DOMAIN where : Admissible(kind, where[i].ref)

\* Every bound concept but the base table was bound by a reference that a
\* WHERE fragment renders against its alias.
BoundUsed ==
    \A x \in Bound \ {BaseKey} : \E i \in DOMAIN where :
        RefKey(where[i].ref, x[1], x[2]) /\ where[i].alias = mentioned[x]

\* The inductive invariant of FromRealisesWhere.
JInv == IInv /\ WhereBound /\ WhereAdmissible /\ BoundUsed
          /\ (phase = "assembled" => FromRealisesWhere)

\* The join GetFromClause renders for a bound concept: the base table for
\* the base concept, the concept's template otherwise.
JoinOf(x) ==
    IF x = BaseKey THEN Join("Base", mentioned[BaseKey], kind, "id", <<>>)
    ELSE ConceptJoin(kind, x[1], x[2])[1]

\* The joins of the concepts bound under the atoms of A.
Done(A) == {JoinOf(x) : x \in {y \in Bound : y[1] \in A}}

\* A prefix of the FROM clause that lists the join of every concept bound
\* under the atoms of A once, the base table first.
FromGood(s, A) ==
    /\ s \in Seq(JoinRecords)
    /\ IsInjective(s)
    /\ Range(s) = Done(A)
    /\ Len(s) >= 1
    /\ s[1] = JoinOf(BaseKey)

-----------------------------------------------------------------------------
(* Sequences: orderings and concatenation.                                 *)

\* An ordering of a set of keys lists each of them exactly once.
LEMMA OrderingOnto ==
    ASSUME NEW S \in SUBSET Keys, NEW s \in Orderings(S)
    PROVE  /\ s \in Seq(Keys)
           /\ Range(s) = S
           /\ IsInjective(s)
<1>1. IsFiniteSet(S) /\ Cardinality(S) \in Nat
  BY KeysFinite, FS_Subset, FS_CardinalityType
<1>2. s \in Injection(1..Cardinality(S), S)
  BY DEF Orderings, Injection, IsInjective
<1>3. Cardinality(1..Cardinality(S)) = Cardinality(S)
  BY <1>1, FS_Interval
<1>4. s \in Surjection(1..Cardinality(S), S)
  BY <1>1, <1>2, <1>3, FS_Injection
<1>5. Range(s) = S
  BY <1>4 DEF Surjection, Range
<1>6. QED
  BY <1>5, OrderingsAreSequences DEF IsInjective, Orderings

\* Two injective sequences with disjoint ranges concatenate to an
\* injective sequence.
LEMMA ConcatInjective ==
    ASSUME NEW S, NEW s \in Seq(S), NEW t \in Seq(S), IsInjective(s), IsInjective(t),
           Range(s) \cap Range(t) = {}
    PROVE  IsInjective(s \o t)
<1> DEFINE u == s \o t
<1>1. /\ Len(u) = Len(s) + Len(t)
      /\ \A i \in 1..Len(s) + Len(t) : u[i] = IF i <= Len(s) THEN s[i] ELSE t[i - Len(s)]
      /\ DOMAIN u = 1..Len(s) + Len(t)
  BY ConcatProperties, LenProperties
<1> SUFFICES ASSUME NEW i \in DOMAIN u, NEW j \in DOMAIN u, u[i] = u[j] PROVE i = j
  BY DEF IsInjective
<1>2. Len(s) \in Nat /\ Len(t) \in Nat /\ DOMAIN s = 1..Len(s) /\ DOMAIN t = 1..Len(t)
  BY LenProperties
<1>3. CASE i <= Len(s) /\ j <= Len(s)
  BY <1>1, <1>2, <1>3 DEF IsInjective
<1>4. CASE i > Len(s) /\ j > Len(s)
  <2>1. t[i - Len(s)] = t[j - Len(s)] /\ i - Len(s) \in DOMAIN t /\ j - Len(s) \in DOMAIN t
    BY <1>1, <1>2, <1>4
  <2>2. QED
    BY <2>1, <1>2 DEF IsInjective
<1>5. CASE i <= Len(s) /\ j > Len(s)
  <2>1. s[i] = t[j - Len(s)] /\ i \in DOMAIN s /\ j - Len(s) \in DOMAIN t
    BY <1>1, <1>2, <1>5
  <2>2. QED
    BY <2>1 DEF Range
<1>6. CASE i > Len(s) /\ j <= Len(s)
  <2>1. t[i - Len(s)] = s[j] /\ j \in DOMAIN s /\ i - Len(s) \in DOMAIN t
    BY <1>1, <1>2, <1>6
  <2>2. QED
    BY <2>1 DEF Range
<1>7. QED
  BY <1>1, <1>2, <1>3, <1>4, <1>5, <1>6

-----------------------------------------------------------------------------
(* The code's join templates agree with the catalog of spec 4.2.          *)

\* SpecJoin fills in the alias it is given.
LEMMA SpecJoinAlias ==
    ASSUME NEW T, NEW c, NEW al
    PROVE  SpecJoin(T, c, al).alias = al
BY DEF SpecJoin, Join

\* The catalog's join for the base attributes is the base table.
LEMMA SpecJoinBase ==
    ASSUME NEW T, NEW al
    PROVE  SpecJoin(T, <<"BaseAttribute", "">>, al) = Join("Base", al, T, "id", <<>>)
BY DEF SpecJoin

\* For a reference the contract admits, the template GetFromClause appends
\* for the reference's registry key is the join the catalog prescribes for
\* the reference's concept.
LEMMA CatalogAgrees ==
    ASSUME AdmissibleContract, NEW T \in NodeKinds, NEW ref \in ColumnRefs,
           Admissible(T, ref), NEW a \in AtomTypes, NEW k \in Keys,
           RefKey(ref, a, k), <<a, k>> # BaseKey
    PROVE  ConceptJoin(T, a, k) = <<SpecJoin(T, SpecConcept(ref), mentioned[<<a, k>>])>>
<1> DEFINE al == mentioned[<<a, k>>]
           base == mentioned[<<"ATTRIBUTE", kBaseTableRef>>]
           c == SpecConcept(ref)
<1>0. T \in {"Artifact", "Execution", "Context"}
  BY KindsAssumption
<1>1. CASE ~ref.struct
  <2>1. a = "ATTRIBUTE" /\ k = kTypeTableRef /\ ref.name = "type"
    BY <1>1 DEF RefKey, BaseKey, kTypeTableRef, kBaseTableRef
  <2>2. c[1] = "TypeJoin"
    BY <1>1, <2>1 DEF SpecConcept
  <2>3. ConceptJoin(T, a, k) = GetTypeJoinTable(T, base, al)
    BY <2>1 DEF ConceptJoin
  <2>4. SpecJoin(T, c, al) =
          Join("Type", al, "Type", "type_id", <<"type_kind", GetTypeKindValue(T)>>)
    BY <2>2 DEF SpecJoin
  <2>5. QED
    BY <2>3, <2>4 DEF GetTypeJoinTable
<1>2. CASE ref.struct
  <2>1. a \in NeighborAtoms /\ StartsWith(ref.name, NeighborPrefix[a]) /\ k = ref.name
    BY <1>2 DEF RefKey
  <2>2. c = <<ConceptTag[a], IF a \in {"PROPERTY", "CUSTOM_PROPERTY"}
                             THEN SplitName[ref.name][2] ELSE ref.name>>
    BY <1>2, <2>1, NeighborConcept
  <2>3. ref.struct /\ Admissible(T, ref)
    BY <1>2
  <2> DEFINE idcol == [Artifact |-> "artifact_id", Execution |-> "execution_id",
                       Context |-> "context_id"][T]
             ptab == [Artifact |-> "ArtifactProperty", Execution |-> "ExecutionProperty",
                      Context |-> "ContextProperty"][T]
  <2>0. idcol = NodeIdColumn(T) /\ ptab = NodePropertyTable(T)
    BY DEF NodeIdColumn, NodePropertyTable
  <2>4. CASE a = "CONTEXT"
    <3>1. T # "Context"
      BY <2>1, <2>3, <2>4 DEF AdmissibleContract, NeighborPrefix
    <3>2. c[1] = "ContextJoin"
      BY <2>2, <2>4 DEF ConceptTag
    <3>3. ConceptJoin(T, a, k) = GetContextJoinTable(T, base, al)
      BY <2>4 DEF ConceptJoin
    <3>4. CASE T = "Artifact"
      <4>1. SpecJoin(T, c, al) = Join("Context", al, "Attribution", "artifact_id", <<>>)
        BY <3>2, <3>4 DEF SpecJoin
      <4>2. QED
        BY <3>3, <3>4, <4>1 DEF GetContextJoinTable
    <3>5. CASE T = "Execution"
      <4>1. SpecJoin(T, c, al) = Join("Context", al, "Association", "execution_id", <<>>)
        BY <3>2, <3>5 DEF SpecJoin
      <4>2. QED
        BY <3>3, <3>5, <4>1 DEF GetContextJoinTable
    <3>6. QED
      BY <1>0, <3>1, <3>4, <3>5
  <2>5. CASE a \in {"PROPERTY", "CUSTOM_PROPERTY"}
    <3>1. DropPrefix(k, NeighborPrefix[a]) = SplitName[ref.name][2]
      BY <2>1 DEF DropPrefix
    <3>2. CASE a = "PROPERTY"
      <4>1. c = <<"PropertyJoin", SplitName[ref.name][2]>>
        BY <2>2, <3>2 DEF ConceptTag
      <4>2. SpecJoin(T, c, al) =
              Join("Property", al, ptab, idcol, <<SplitName[ref.name][2], FALSE>>)
        BY <4>1 DEF SpecJoin
      <4>3. ConceptJoin(T, a, k) =
              GetPropertyJoinTableImpl(T, base, al, DropPrefix(k, "properties_"), FALSE)
        BY <3>2 DEF ConceptJoin
      <4>4. QED
        BY <2>0, <3>1, <3>2, <4>2, <4>3 DEF GetPropertyJoinTableImpl, NeighborPrefix
    <3>3. CASE a = "CUSTOM_PROPERTY"
      <4>1. c = <<"CustomPropertyJoin", SplitName[ref.name][2]>>
        BY <2>2, <3>3 DEF ConceptTag
      <4>2. SpecJoin(T, c, al) =
              Join("Property", al, ptab, idcol, <<SplitName[ref.name][2], TRUE>>)
        BY <4>1 DEF SpecJoin
      <4>3. ConceptJoin(T, a, k) =
              GetPropertyJoinTableImpl(T, base, al, DropPrefix(k, "custom_properties_"), TRUE)
        BY <3>3 DEF ConceptJoin
      <4>4. QED
        BY <2>0, <3>1, <3>3, <4>2, <4>3 DEF GetPropertyJoinTableImpl, NeighborPrefix
    <3>4. QED
      BY <2>5, <3>2, <3>3
  <2>6. CASE a \in {"PARENT_CONTEXT", "CHILD_CONTEXT"}
    <3>1. T = "Context"
      BY <1>0, <2>1, <2>3, <2>6 DEF AdmissibleContract, NeighborPrefix
    <3>2. CASE a = "PARENT_CONTEXT"
      <4>1. c[1] = "ParentContextJoin"
        BY <2>2, <3>2 DEF ConceptTag
      <4>2. SpecJoin(T, c, al) = Join("ParentContext", al, "ParentContext.parent_context_id",
                                      "child_context_id", <<>>)
        BY <3>1, <4>1 DEF SpecJoin
      <4>3. QED
        BY <3>2, <4>2 DEF ConceptJoin, GetParentContextJoinTable
    <3>3. CASE a = "CHILD_CONTEXT"
      <4>1. c[1] = "ChildContextJoin"
        BY <2>2, <3>3 DEF ConceptTag
      <4>2. SpecJoin(T, c, al) = Join("ChildContext", al, "ParentContext.context_id",
                                      "parent_context_id", <<>>)
        BY <3>1, <4>1 DEF SpecJoin
      <4>3. QED
        BY <3>3, <4>2 DEF ConceptJoin, GetChildContextJoinTable
    <3>4. QED
      BY <2>6, <3>2, <3>3
  <2>7. CASE a = "EVENT"
    <3>1. T # "Context"
      BY <2>1, <2>3, <2>7 DEF AdmissibleContract, NeighborPrefix
    <3>2. c[1] = "EventJoin"
      BY <2>2, <2>7 DEF ConceptTag
    <3>3. SpecJoin(T, c, al) = Join("Event", al, "Event", idcol, <<>>)
      BY <3>1, <3>2 DEF SpecJoin
    <3>4. QED
      BY <2>0, <2>7, <3>1, <3>3 DEF ConceptJoin, GetEventJoinTable
  <2>8. QED
    BY <2>1, <2>4, <2>5, <2>6, <2>7 DEF NeighborAtoms, NeighborPrefix
<1>3. QED
  BY <1>1, <1>2

-----------------------------------------------------------------------------
(* The joins of the bound concepts.                                        *)

\* Every bound concept has a join, with the concept's alias; a concept
\* other than the base table has a non-empty template.
LEMMA BoundJoin ==
    ASSUME IInv, WhereAdmissible, BoundUsed, AdmissibleContract, NEW x \in Bound
    PROVE  /\ x # BaseKey => ConceptJoin(kind, x[1], x[2]) = <<JoinOf(x)>>
           /\ JoinOf(x).alias = mentioned[x]
           /\ JoinOf(x) \in JoinRecords
<1>0. TypeOK /\ BaseBound
  BY DEF IInv
<1>1. CASE x = BaseKey
  <2>1. mentioned[BaseKey] = 0 /\ kind \in NodeKinds
    BY <1>0 DEF BaseBound, BaseKey, kBaseTableAlias, TypeOK
  <2>2. QED
    BY <1>1, <2>1 DEF JoinOf, Join, JoinRecords, JoinRels, JoinVias, JoinOns, Filters
<1>2. CASE x # BaseKey
  <2>1. PICK i \in DOMAIN where : RefKey(where[i].ref, x[1], x[2])
    BY <1>2 DEF BoundUsed
  <2>2. where[i].ref \in ColumnRefs /\ Admissible(kind, where[i].ref) /\ kind \in NodeKinds
    <3>1. where \in Seq(Fragments)
      BY <1>0 DEF TypeOK
    <3>2. where[i] \in Fragments
      BY <3>1, ElementOfSeq
    <3>3. QED
      BY <1>0, <3>2 DEF Fragments, WhereAdmissible, TypeOK
  <2>3. x = <<x[1], x[2]>> /\ x[1] \in AtomTypes /\ x[2] \in Keys /\ mentioned[x] # NoAlias
    BY DEF Bound
  <2>4. ConceptJoin(kind, x[1], x[2])
          = <<SpecJoin(kind, SpecConcept(where[i].ref), mentioned[x])>>
    BY <1>2, <2>1, <2>2, <2>3, CatalogAgrees
  <2>5. JoinOf(x) = SpecJoin(kind, SpecConcept(where[i].ref), mentioned[x])
    BY <1>2, <2>4 DEF JoinOf
  <2>6. JoinOf(x) \in JoinRecords
    <3>1. \/ ConceptJoin(kind, x[1], x[2]) = <<>>
          \/ \E j \in JoinRecords : ConceptJoin(kind, x[1], x[2]) = <<j>>
      BY <1>0, <2>2, <2>3, ConceptJoinType DEF IInv
    <3>2. QED
      BY <2>4, <2>5, <3>1
  <2>7. QED
    BY <1>2, <2>4, <2>5, <2>6, SpecJoinAlias
<1>3. QED
  BY <1>1, <1>2

\* Distinct bound concepts have distinct joins: their aliases differ.
LEMMA JoinOfInjective ==
    ASSUME IInv, WhereAdmissible, BoundUsed, AdmissibleContract,
           NEW x \in Bound, NEW y \in Bound, JoinOf(x) = JoinOf(y)
    PROVE  x = y
<1>1. mentioned[x] = mentioned[y]
  BY BoundJoin
<1>2. QED
  BY <1>1 DEF Bound, IInv, AliasesDistinct

\* The joins GetFromClause emits for a neighbor category: one per bound
\* concept of the category, none twice.
LEMMA CategoryPiece ==
    ASSUME IInv, WhereAdmissible, BoundUsed, AdmissibleContract,
           NEW a \in AtomTypes \ {"ATTRIBUTE"}, NEW ks \in Orderings(BoundKeys(a))
    PROVE  /\ CategoryJoins(kind, a, ks) \in Seq(JoinRecords)
           /\ IsInjective(CategoryJoins(kind, a, ks))
           /\ Range(CategoryJoins(kind, a, ks)) = Done({a})
<1> DEFINE P == CategoryJoins(kind, a, ks)
           js == [i \in DOMAIN ks |-> ConceptJoin(kind, a, ks[i])]
<1>1. /\ ks \in Seq(Keys) /\ Range(ks) = BoundKeys(a) /\ IsInjective(ks)
  BY OrderingOnto DEF BoundKeys
<1>2. ASSUME NEW i \in DOMAIN ks
      PROVE  /\ <<a, ks[i]>> \in Bound
             /\ js[i] = <<JoinOf(<<a, ks[i]>>)>>
             /\ JoinOf(<<a, ks[i]>>) \in JoinRecords
  <2>1. <<a, ks[i]>> \in Bound /\ <<a, ks[i]>> # BaseKey
    BY <1>1 DEF Range, BoundKeys, Bound, BaseKey
  <2>2. QED
    BY <2>1, BoundJoin
<1>3. P = [i \in DOMAIN ks |-> JoinOf(<<a, ks[i]>>)]
  <2>1. ASSUME NEW i \in DOMAIN ks
        PROVE  js[i] # <<>> /\ js[i][1] = JoinOf(<<a, ks[i]>>)
    <3>1. js[i] = <<JoinOf(<<a, ks[i]>>)>>
      BY <1>2
    <3>2. QED
      BY <3>1
  <2>2. ~\E i \in DOMAIN js : js[i] = <<>>
    BY <2>1
  <2>3. P = [i \in DOMAIN js |-> js[i][1]]
    BY <2>2 DEF CategoryJoins
  <2>4. QED
    BY <2>1, <2>3
<1>4. DOMAIN ks = 1..Len(ks)
  BY <1>1, LenProperties
<1>5. P \in Seq(JoinRecords)
  BY <1>1, <1>2, <1>3, <1>4
<1>6. IsInjective(P)
  <2> SUFFICES ASSUME NEW i \in DOMAIN ks, NEW j \in DOMAIN ks, P[i] = P[j] PROVE i = j
    BY <1>3 DEF IsInjective
  <2>1. <<a, ks[i]>> = <<a, ks[j]>>
    BY <1>2, <1>3, JoinOfInjective
  <2>2. QED
    BY <1>1, <2>1 DEF IsInjective
<1>7. Range(P) = Done({a})
  <2>1. Range(P) \subseteq Done({a})
    BY <1>2, <1>3 DEF Range, Done
  <2>2. Done({a}) \subseteq Range(P)
    <3> SUFFICES ASSUME NEW x \in Bound, x[1] = a PROVE JoinOf(x) \in Range(P)
      BY DEF Done
    <3>1. x[2] \in BoundKeys(a) /\ x = <<a, x[2]>>
      BY DEF Bound, BoundKeys
    <3>2. PICK i \in DOMAIN ks : ks[i] = x[2]
      BY <1>1, <3>1 DEF Range
    <3>3. QED
      BY <1>3, <3>1, <3>2 DEF Range
  <2>3. QED
    BY <2>1, <2>2
<1>8. QED
  BY <1>5, <1>6, <1>7

\* The base table and the type join: the joins of the attribute concepts,
\* the base table first.
LEMMA StartPiece ==
    ASSUME IInv, WhereAdmissible, BoundUsed, AdmissibleContract
    PROVE  LET s == GetBaseNodeTable(kind, mentioned[<<"ATTRIBUTE", kBaseTableRef>>])
                      \o CategoryJoins(kind, "ATTRIBUTE", TypeKeys)
           IN  FromGood(s, {"ATTRIBUTE"})
<1> DEFINE TK == <<"ATTRIBUTE", kTypeTableRef>>
           B == GetBaseNodeTable(kind, mentioned[<<"ATTRIBUTE", kBaseTableRef>>])
           Q == CategoryJoins(kind, "ATTRIBUTE", TypeKeys)
           J0 == JoinOf(BaseKey)
<1>0. TypeOK /\ BaseBound /\ KeysWellPlaced
  BY DEF IInv
<1>1. BaseKey \in Bound /\ J0 \in JoinRecords
  <2>1. BaseKey \in Bound
    BY <1>0 DEF BaseBound, BaseKey, Bound, kBaseTableAlias, NoAlias, AtomTypes, Keys
  <2>2. QED
    BY <2>1, BoundJoin
<1>2. B = <<J0>>
  BY DEF GetBaseNodeTable, JoinOf, BaseKey
<1>3. /\ B \in Seq(JoinRecords) /\ IsInjective(B) /\ Range(B) = {J0}
      /\ Len(B) = 1 /\ B[1] = J0
  BY <1>1, <1>2 DEF IsInjective, Range
<1>4. ASSUME NEW x \in Bound, x[1] = "ATTRIBUTE" PROVE x = BaseKey \/ x = TK
  BY <1>0, <1>4 DEF Bound, KeysWellPlaced, WellPlaced, BaseKey
<1>5. /\ Q \in Seq(JoinRecords) /\ IsInjective(Q)
      /\ Range(Q) = Done({"ATTRIBUTE"}) \ {J0}
  <2>1. CASE TK \in Bound
    <3>1. TypeKeys = <<kTypeTableRef>>
      BY <2>1 DEF TypeKeys, Bound
    <3>2. TK # BaseKey
      BY DEF BaseKey, kBaseTableRef, kTypeTableRef
    <3>3. ConceptJoin(kind, "ATTRIBUTE", kTypeTableRef) = <<JoinOf(TK)>>
          /\ JoinOf(TK) \in JoinRecords
      BY <2>1, <3>2, BoundJoin
    <3>4. Q = <<JoinOf(TK)>>
      BY <3>1, <3>3 DEF CategoryJoins
    <3>5. JoinOf(TK) # J0
      BY <1>1, <2>1, <3>2, JoinOfInjective
    <3>6. Done({"ATTRIBUTE"}) = {J0, JoinOf(TK)}
      BY <1>1, <1>4, <2>1 DEF Done, BaseKey
    <3>7. QED
      BY <3>3, <3>4, <3>5, <3>6 DEF IsInjective, Range
  <2>2. CASE TK \notin Bound
    <3>1. TypeKeys = <<>>
      BY <2>2 DEF TypeKeys, Bound, AtomTypes, Keys
    <3>2. Q = <<>>
      BY <3>1 DEF CategoryJoins
    <3>3. {y \in Bound : y[1] \in {"ATTRIBUTE"}} = {BaseKey}
      BY <1>1, <1>4, <2>2 DEF BaseKey
    <3>4. Done({"ATTRIBUTE"}) = {J0}
      BY <3>3 DEF Done
    <3>5. Range(Q) = {} /\ IsInjective(Q) /\ Q \in Seq(JoinRecords)
      <4>1. <<>> \in Seq(JoinRecords) /\ DOMAIN <<>> = {}
        BY EmptySeq
      <4>2. QED
        BY <3>2, <4>1 DEF IsInjective, Range
    <3>6. QED
      BY <3>4, <3>5
  <2>3. QED
    BY <2>1, <2>2
<1>6. Range(B) \cap Range(Q) = {}
  BY <1>3, <1>5
<1>7. IsInjective(B \o Q)
  BY <1>3, <1>5, <1>6, ConcatInjective
<1>8. Range(B \o Q) = Done({"ATTRIBUTE"})
  <2>1. J0 \in Done({"ATTRIBUTE"})
    BY <1>1 DEF Done, BaseKey
  <2>2. Range(B \o Q) = Range(B) \cup Range(Q)
    BY <1>3, <1>5, RangeConcatenation
  <2>3. QED
    BY <1>3, <1>5, <2>1, <2>2
<1>9. B \o Q \in Seq(JoinRecords) /\ Len(B \o Q) >= 1 /\ (B \o Q)[1] = J0
  BY <1>3, <1>5, ConcatProperties
<1>10. QED
  BY <1>7, <1>8, <1>9 DEF FromGood

\* Appending the joins of one more neighbor category keeps the FROM clause
\* free of repeats and adds exactly the joins of that category.
LEMMA StepConcat ==
    ASSUME IInv, WhereAdmissible, BoundUsed, AdmissibleContract,
           NEW A \in SUBSET AtomTypes, NEW a \in AtomTypes \ A, "ATTRIBUTE" \in A,
           NEW s, FromGood(s, A), NEW ks \in Orderings(BoundKeys(a))
    PROVE  FromGood(s \o CategoryJoins(kind, a, ks), A \cup {a})
<1>0. s \in Seq(JoinRecords) /\ IsInjective(s) /\ Range(s) = Done(A)
      /\ Len(s) >= 1 /\ s[1] = JoinOf(BaseKey)
  BY DEF FromGood
<1> DEFINE P == CategoryJoins(kind, a, ks)
<1>1. P \in Seq(JoinRecords) /\ IsInjective(P) /\ Range(P) = Done({a})
  BY CategoryPiece
<1>2. Range(s) \cap Range(P) = {}
  <2> SUFFICES ASSUME NEW x \in Bound, x[1] \in A, NEW y \in Bound, y[1] = a,
                      JoinOf(x) = JoinOf(y)
               PROVE  FALSE
    BY <1>0, <1>1 DEF Done
  <2>1. x = y
    BY JoinOfInjective
  <2>2. QED
    BY <2>1
<1>3. IsInjective(s \o P)
  BY <1>0, <1>1, <1>2, ConcatInjective
<1>4. Range(s \o P) = Done(A \cup {a})
  <2>1. Range(s \o P) = Done(A) \cup Done({a})
    BY <1>0, <1>1, RangeConcatenation
  <2>2. QED
    BY <2>1 DEF Done
<1>5. s \o P \in Seq(JoinRecords) /\ Len(s \o P) >= 1 /\ (s \o P)[1] = JoinOf(BaseKey)
  BY <1>0, <1>1, ConcatProperties, LenProperties
<1>6. QED
  BY <1>3, <1>4, <1>5 DEF FromGood

\* The FROM clause GetFromClause renders lists the join of every bound
\* concept exactly once, the base table first.
LEMMA FromClauseJoins ==
    ASSUME IInv, WhereAdmissible, BoundUsed, AdmissibleContract, GetFromClause
    PROVE  FromGood(from', AtomTypes)
<1>1. PICK kc \in Orderings(BoundKeys("CONTEXT")),
           kp \in Orderings(BoundKeys("PROPERTY")),
           kq \in Orderings(BoundKeys("CUSTOM_PROPERTY")),
           kr \in Orderings(BoundKeys("PARENT_CONTEXT")),
           kh \in Orderings(BoundKeys("CHILD_CONTEXT")),
           ke \in Orderings(BoundKeys("EVENT")) :
        from' = GetBaseNodeTable(kind, mentioned[<<"ATTRIBUTE", kBaseTableRef>>])
                  \o CategoryJoins(kind, "ATTRIBUTE", TypeKeys)
                  \o CategoryJoins(kind, "CONTEXT", kc)
                  \o CategoryJoins(kind, "PROPERTY", kp)
                  \o CategoryJoins(kind, "CUSTOM_PROPERTY", kq)
                  \o CategoryJoins(kind, "PARENT_CONTEXT", kr)
                  \o CategoryJoins(kind, "CHILD_CONTEXT", kh)
                  \o CategoryJoins(kind, "EVENT", ke)
  BY DEF GetFromClause
<1> DEFINE s0 == GetBaseNodeTable(kind, mentioned[<<"ATTRIBUTE", kBaseTableRef>>])
                   \o CategoryJoins(kind, "ATTRIBUTE", TypeKeys)
           s1 == s0 \o CategoryJoins(kind, "CONTEXT", kc)
           s2 == s1 \o CategoryJoins(kind, "PROPERTY", kp)
           s3 == s2 \o CategoryJoins(kind, "CUSTOM_PROPERTY", kq)
           s4 == s3 \o CategoryJoins(kind, "PARENT_CONTEXT", kr)
           s5 == s4 \o CategoryJoins(kind, "CHILD_CONTEXT", kh)
           s6 == s5 \o CategoryJoins(kind, "EVENT", ke)
           A0 == {"ATTRIBUTE"}
           A1 == A0 \cup {"CONTEXT"}
           A2 == A1 \cup {"PROPERTY"}
           A3 == A2 \cup {"CUSTOM_PROPERTY"}
           A4 == A3 \cup {"PARENT_CONTEXT"}
           A5 == A4 \cup {"CHILD_CONTEXT"}
           A6 == A5 \cup {"EVENT"}
<1>2. FromGood(s0, A0)
  BY StartPiece
<1>3. FromGood(s1, A1)
  <2>1. A0 \in SUBSET AtomTypes /\ "CONTEXT" \in AtomTypes \ A0 /\ "ATTRIBUTE" \in A0
    BY DEF AtomTypes
  <2>2. QED
    BY <1>2, <2>1, StepConcat
<1>4. FromGood(s2, A2)
  <2>1. A1 \in SUBSET AtomTypes /\ "PROPERTY" \in AtomTypes \ A1 /\ "ATTRIBUTE" \in A1
    BY DEF AtomTypes
  <2>2. QED
    BY <1>3, <2>1, StepConcat
<1>5. FromGood(s3, A3)
  <2>1. A2 \in SUBSET AtomTypes /\ "CUSTOM_PROPERTY" \in AtomTypes \ A2 /\ "ATTRIBUTE" \in A2
    BY DEF AtomTypes
  <2>2. QED
    BY <1>4, <2>1, StepConcat
<1>6. FromGood(s4, A4)
  <2>1. A3 \in SUBSET AtomTypes /\ "PARENT_CONTEXT" \in AtomTypes \ A3 /\ "ATTRIBUTE" \in A3
    BY DEF AtomTypes
  <2>2. QED
    BY <1>5, <2>1, StepConcat
<1>7. FromGood(s5, A5)
  <2>1. A4 \in SUBSET AtomTypes /\ "CHILD_CONTEXT" \in AtomTypes \ A4 /\ "ATTRIBUTE" \in A4
    BY DEF AtomTypes
  <2>2. QED
    BY <1>6, <2>1, StepConcat
<1>8. FromGood(s6, A6)
  <2>1. A5 \in SUBSET AtomTypes /\ "EVENT" \in AtomTypes \ A5 /\ "ATTRIBUTE" \in A5
    BY DEF AtomTypes
  <2>2. QED
    BY <1>7, <2>1, StepConcat
<1>9. A6 = AtomTypes /\ from' = s6
  BY <1>1 DEF AtomTypes
<1>10. QED
  BY <1>8, <1>9

\* A FROM clause that lists the join of every bound concept once, the base
\* table first, realises the WHERE fragments.
LEMMA RealisesFrom ==
    ASSUME IInv, WhereBound, WhereAdmissible, BoundUsed, AdmissibleContract,
           FromGood(from', AtomTypes), UNCHANGED <<kind, mentioned, where>>
    PROVE  FromRealisesWhere'
<1>a. /\ from' \in Seq(JoinRecords) /\ IsInjective(from') /\ Range(from') = Done(AtomTypes)
      /\ Len(from') >= 1 /\ from'[1] = JoinOf(BaseKey)
  BY DEF FromGood
<1>0. TypeOK /\ BaseBound /\ AliasesDistinct
  BY DEF IInv
<1>1. ASSUME NEW y \in Bound, NEW n \in DOMAIN from', from'[n] = JoinOf(y)
      PROVE  from'[n].alias = mentioned[y]
  BY <1>1, BoundJoin
<1>2. ASSUME NEW n \in DOMAIN from' PROVE \E y \in Bound : from'[n] = JoinOf(y)
  BY <1>a DEF Range, Done
<1>3. ASSUME NEW i \in DOMAIN where
      PROVE  \E m \in DOMAIN from' :
                /\ from'[m] = SpecJoin(kind, SpecConcept(where[i].ref), where[i].alias)
                /\ \A n \in DOMAIN from' : from'[n].alias = where[i].alias => n = m
  <2>1. where[i] \in Fragments /\ kind \in NodeKinds
    <3>1. where \in Seq(Fragments)
      BY <1>0 DEF TypeOK
    <3>2. QED
      BY <1>0, <3>1, ElementOfSeq DEF TypeOK
  <2> DEFINE ref == where[i].ref
  <2>2. ref \in ColumnRefs /\ where[i].alias \in Nat /\ Admissible(kind, ref)
    BY <2>1 DEF Fragments, WhereAdmissible
  <2>3. PICK a \in AtomTypes, k \in Keys :
            RefKey(ref, a, k) /\ mentioned[<<a, k>>] = where[i].alias
    BY DEF WhereBound
  <2> DEFINE x == <<a, k>>
  <2>4. x \in Bound
    BY <2>2, <2>3 DEF Bound, NoAlias
  <2>5. JoinOf(x) = SpecJoin(kind, SpecConcept(ref), where[i].alias)
    <3>1. CASE x = BaseKey
      <4>1. a = "ATTRIBUTE" /\ k = kBaseTableRef
        BY <3>1 DEF BaseKey
      <4>2. ~ref.struct /\ ref.name # "type"
        BY <2>3, <4>1 DEF RefKey, kBaseTableRef, kTypeTableRef, NeighborAtoms, NeighborPrefix
      <4>3. SpecConcept(ref) = <<"BaseAttribute", "">>
        BY <4>2 DEF SpecConcept
      <4>4. SpecJoin(kind, SpecConcept(ref), where[i].alias)
              = Join("Base", where[i].alias, kind, "id", <<>>)
        BY <4>3, SpecJoinBase
      <4>5. QED
        BY <2>3, <3>1, <4>4 DEF JoinOf
    <3>2. CASE x # BaseKey
      <4>1. ConceptJoin(kind, a, k) = <<SpecJoin(kind, SpecConcept(ref), mentioned[x])>>
        BY <2>1, <2>2, <2>3, <3>2, CatalogAgrees
      <4>2. QED
        BY <2>3, <3>2, <4>1 DEF JoinOf
    <3>3. QED
      BY <3>1, <3>2
  <2>6. PICK m \in DOMAIN from' : from'[m] = JoinOf(x)
    <3>1. JoinOf(x) \in Done(AtomTypes)
      BY <2>4 DEF Done, Bound
    <3>2. QED
      BY <1>a, <3>1 DEF Range
  <2>7. ASSUME NEW n \in DOMAIN from', from'[n].alias = where[i].alias PROVE n = m
    <3>1. PICK y \in Bound : from'[n] = JoinOf(y)
      BY <1>2
    <3>2. mentioned[y] = mentioned[x]
      BY <1>1, <2>3, <2>7, <3>1
    <3>3. y = x
      <4>1. y \in AtomTypes \X Keys /\ x \in AtomTypes \X Keys /\ mentioned[y] # NoAlias
        BY <2>4 DEF Bound
      <4>2. QED
        BY <1>0, <3>2, <4>1 DEF AliasesDistinct
    <3>4. QED
      BY <1>a, <2>6, <3>1, <3>3 DEF IsInjective
  <2>8. QED
    BY <2>5, <2>6, <2>7
<1>4. from'[1] = SpecJoin(kind, <<"BaseAttribute", "">>, kBaseTableAlias)
  <2>1. JoinOf(BaseKey) = Join("Base", kBaseTableAlias, kind, "id", <<>>)
    BY <1>0 DEF JoinOf, BaseKey, BaseBound
  <2>2. QED
    BY <1>a, <2>1, SpecJoinBase
<1>5. ASSUME NEW m \in 2..Len(from')
      PROVE  \E i \in DOMAIN where : from'[m].alias = where[i].alias
  <2>1. m \in DOMAIN from' /\ 1 \in DOMAIN from' /\ m # 1
    BY <1>a, LenProperties
  <2>2. PICK y \in Bound : from'[m] = JoinOf(y)
    BY <1>2, <2>1
  <2>3. y # BaseKey
    BY <1>a, <2>1, <2>2 DEF IsInjective
  <2>4. PICK i \in DOMAIN where : where[i].alias = mentioned[y]
    BY <2>3 DEF BoundUsed
  <2>5. QED
    BY <1>1, <2>1, <2>2, <2>4
<1>6. QED
  BY <1>3, <1>4, <1>5 DEF FromRealisesWhere

-----------------------------------------------------------------------------
(* The inductive invariant, one step per action.                          *)

\* Pushing a fragment rendered against GetTableAlias(a, k), with <<a, k>>
\* the key of its reference, keeps every bound concept used.
LEMMA PushBoundUsed ==
    ASSUME TypeOK, BoundUsed, NEW ref \in ColumnRefs, NEW a \in AtomTypes,
           NEW k \in Keys, RefKey(ref, a, k), NEW column,
           Push(ref, GetTableAlias(a, k), column)
    PROVE  BoundUsed'
<1> DEFINE r == GetTableAlias(a, k)
           frag == [ref |-> ref, alias |-> r.alias, column |-> column]
<1>1. /\ mentioned' = r.mentioned
      /\ where' = Append(where, frag)
  BY DEF Push
<1>2. where \in Seq(Fragments)
  BY DEF TypeOK
<1>3. SUFFICES ASSUME NEW x \in AtomTypes \X Keys, mentioned'[x] # NoAlias, x # BaseKey
               PROVE  \E i \in DOMAIN where' :
                         RefKey(where'[i].ref, x[1], x[2]) /\ where'[i].alias = mentioned'[x]
  BY DEF BoundUsed, Bound
<1>4. CASE mentioned[x] # NoAlias
  <2>1. PICK i \in DOMAIN where :
            RefKey(where[i].ref, x[1], x[2]) /\ where[i].alias = mentioned[x]
    BY <1>3, <1>4 DEF BoundUsed, Bound
  <2>2. where'[i] = where[i] /\ i \in DOMAIN where'
    BY <1>1, <1>2, AppendProperties, LenProperties
  <2>3. mentioned'[x] = mentioned[x]
    BY <1>1, <1>4, GetTableAliasBinds
  <2>4. QED
    BY <2>1, <2>2, <2>3
<1>5. CASE mentioned[x] = NoAlias
  <2>1. x = <<a, k>>
    BY <1>1, <1>3, <1>5 DEF GetTableAlias
  <2>2. where'[Len(where) + 1] = frag /\ Len(where) + 1 \in DOMAIN where'
    BY <1>1, <1>2, AppendProperties, LenProperties
  <2>3. r.alias = r.mentioned[<<a, k>>]
    BY GetTableAliasBinds
  <2>4. QED
    BY <1>1, <2>1, <2>2, <2>3
<1>6. QED
  BY <1>4, <1>5

\* The constructor's registry binds the base table only.
LEMMA InitialBound ==
    ASSUME NEW x \in AtomTypes \X Keys, InitialMentioned[x] # NoAlias
    PROVE  x = BaseKey
BY DEF InitialMentioned, BaseKey, kBaseTableAlias, NoAlias

LEMMA InitJInv == Init => JInv
<1> SUFFICES ASSUME Init PROVE JInv
  OBVIOUS
<1>1. IInv /\ WhereBound
  BY InitIInv DEF Init, WhereBound
<1>2. BoundUsed
  BY InitialBound DEF Init, BoundUsed, Bound
<1>3. QED
  BY <1>1, <1>2 DEF Init, JInv, WhereAdmissible

LEMMA JInvStep ==
    ASSUME AdmissibleContract, JInv, [Next]_vars
    PROVE  JInv'
<1>0. IInv /\ WhereBound /\ WhereAdmissible /\ BoundUsed /\ TypeOK
  BY DEF JInv, IInv
<1>1. IInv' /\ WhereBound'
  BY <1>0, NextIInv, WhereBoundStep
<1>2. ASSUME NEW ref \in ColumnRefs, VisitResolvedExpressionColumn(ref)
      PROVE  JInv'
  <2>1. phase' = "translate" /\ kind' = kind /\ Admissible(kind, ref)
    BY <1>2 DEF VisitResolvedExpressionColumn
  <2>2. WhereAdmissible'
    <3>1. CASE UNCHANGED where
      BY <1>0, <2>1, <3>1 DEF WhereAdmissible
    <3>2. CASE \E r, c : where' = Append(where, [ref |-> ref, alias |-> r, column |-> c])
      <4>1. where \in Seq(Fragments)
        BY <1>0 DEF TypeOK
      <4>2. QED
        BY <1>0, <2>1, <3>2, <4>1, AppendProperties, LenProperties DEF WhereAdmissible
    <3>3. QED
      BY <1>2, <3>1, <3>2 DEF VisitResolvedExpressionColumn, VisitNeighborColumn,
         VisitUnknownNeighbor, VisitAttributeColumn, Push
  <2>3. BoundUsed'
    <3>1. ASSUME ref.struct, NEW a \in NeighborAtoms, VisitNeighborColumn(ref, a)
          PROVE  BoundUsed'
      <4>1. ref.name \in NeighborNames
        BY <3>1 DEF ColumnRefs
      <4>2. a \in AtomTypes /\ ref.name \in Keys /\ RefKey(ref, a, ref.name)
        BY <3>1, <4>1 DEF NeighborAtoms, NeighborPrefix, AtomTypes, Keys, RefKey,
                          VisitNeighborColumn
      <4>3. QED
        BY <1>0, <3>1, <4>2, PushBoundUsed DEF VisitNeighborColumn
    <3>2. ASSUME VisitUnknownNeighbor(ref) PROVE BoundUsed'
      BY <1>0, <3>2 DEF VisitUnknownNeighbor, BoundUsed, Bound
    <3>3. ASSUME ~ref.struct, VisitAttributeColumn(ref) PROVE BoundUsed'
      <4> DEFINE k == IF ref.name = "type" THEN kTypeTableRef ELSE kBaseTableRef
      <4>1. "ATTRIBUTE" \in AtomTypes /\ k \in Keys /\ RefKey(ref, "ATTRIBUTE", k)
        BY <3>3 DEF AtomTypes, Keys, RefKey
      <4>2. QED
        BY <1>0, <3>3, <4>1, PushBoundUsed DEF VisitAttributeColumn
    <3>4. QED
      BY <1>2, <3>1, <3>2, <3>3 DEF VisitResolvedExpressionColumn
  <2>4. QED
    BY <1>1, <2>1, <2>2, <2>3 DEF JInv
<1>3. CASE GetFromClause
  <2>1. UNCHANGED <<kind, mentioned, where>>
    BY <1>3 DEF GetFromClause
  <2>2. FromGood(from', AtomTypes)
    BY <1>0, <1>3, FromClauseJoins
  <2>3. FromRealisesWhere'
    BY <1>0, <2>1, <2>2, RealisesFrom
  <2>4. WhereAdmissible' /\ BoundUsed'
    BY <1>0, <2>1 DEF WhereAdmissible, BoundUsed, Bound
  <2>5. QED
    BY <1>1, <2>3, <2>4 DEF JInv
<1>4. CASE NewRequest
  <2>1. phase' = "translate" /\ where' = <<>> /\ mentioned' = InitialMentioned
    BY <1>4 DEF NewRequest
  <2>2. WhereAdmissible'
    BY <2>1 DEF WhereAdmissible
  <2>3. BoundUsed'
    BY <2>1, InitialBound DEF BoundUsed, Bound
  <2>4. QED
    BY <1>1, <2>1, <2>2, <2>3 DEF JInv
<1>5. CASE UNCHANGED vars
  <2>1. UNCHANGED <<kind, mentioned, where, from, phase>>
    BY <1>5 DEF vars
  <2>2. WhereAdmissible' /\ BoundUsed'
    BY <1>0, <2>1 DEF WhereAdmissible, BoundUsed, Bound
  <2>3. phase = "assembled" => FromRealisesWhere
    BY DEF JInv
  <2>4. (phase = "assembled" => FromRealisesWhere)'
    BY <2>1, <2>3 DEF FromRealisesWhere
  <2>5. QED
    BY <1>1, <2>2, <2>4 DEF JInv
<1>6. QED
  BY <1>2, <1>3, <1>4, <1>5 DEF Next

-----------------------------------------------------------------------------
(* Theorem.                                                                *)

\* FROM/WHERE agreement (spec 4.4 and 8): whenever the resolver hands a
\* builder only references its node kind has, then after GetFromClause
\* every alias of the WHERE text is defined by exactly one join of the FROM
\* clause, that join is the one the catalog prescribes, and the FROM clause
\* holds nothing else but the base table, however the traversal mixed the
\* categories and in whichever order each category is iterated.
THEOREM JoinsRealiseWhere == AdmissibleContract => (Spec => []FromRealisesWhere)
<1> SUFFICES ASSUME AdmissibleContract PROVE Spec => []FromRealisesWhere
  OBVIOUS
<1>1. Init => JInv
  BY InitJInv
<1>2. JInv /\ [Next]_vars => JInv'
  BY JInvStep
<1>3. JInv => FromRealisesWhere
  BY DEF JInv, FromRealisesWhere
<1>4. QED
  BY <1>1, <1>2, <1>3, PTL DEF Spec

=============================================================================
