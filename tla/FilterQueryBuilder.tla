------------------------- MODULE FilterQueryBuilder -------------------------
(***************************************************************************)
(* FilterQueryBuilder<T> of ml_metadata/query/filter_query_builder.cc: one *)
(* builder instance compiles one resolved filter predicate for node kind   *)
(* T (Artifact, Execution or Context).  Visiting a column reference of the *)
(* predicate renders it against a table alias, minting the alias on first  *)
(* mention of its concept (GetTableAlias); GetFromClause then renders the  *)
(* base table and one join per mentioned concept, category by category.   *)
(*                                                                         *)
(* Data abstraction.  A column name is a string; a neighbor name is split  *)
(* into the prefix it starts with and the rest by the table SplitName      *)
(* (TLC has no substring operators).  An alias "table_<n>" is the number   *)
(* n: StrCat with a fixed prefix is injective in n.  A join fragment is    *)
(* the record of what its SQL template joins: the table or edge it goes    *)
(* through, the column of the neighbor matched against the base id, and    *)
(* the filter of the derived table.  An empty template is the empty        *)
(* sequence: appending "" to the FROM text adds nothing.                   *)
(***************************************************************************)
EXTENDS Integers, Sequences, FiniteSets

CONSTANTS
    NodeKinds,       \* the template arguments T the builder is instantiated with
    AttrNames,       \* names of scalar (direct attribute) columns, "type" included
    NeighborNames,   \* names of struct-typed (neighbor) columns
    SplitName,       \* SplitName[n] = <<prefix, rest>> with n = prefix \o rest
    Admissible(_, _),\* Admissible(T, ref): the resolver may hand ref to a builder for T
    MaxRefs          \* bound on the column references of one predicate

ASSUME KindsAssumption == NodeKinds \subseteq {"Artifact", "Execution", "Context"}
ASSUME NamesAssumption ==
    /\ AttrNames \subseteq STRING
    /\ IsFiniteSet(NeighborNames)
    /\ SplitName \in [NeighborNames -> STRING \X STRING]
    /\ "" \notin NeighborNames /\ "type" \notin NeighborNames
\* SplitName[n] is <<prefix, rest>> with n = prefix \o rest, so it tells
\* names apart.
ASSUME SplitAssumption ==
    \A n, m \in NeighborNames : SplitName[n] = SplitName[m] => n = m
ASSUME MaxRefsAssumption == MaxRefs \in Nat

VARIABLES
    kind,        \* T of the current builder instance
    mentioned,   \* mentioned_alias_: mentioned[<<atom, key>>] is the alias, or NoAlias
    aliasIndex,  \* alias_index_: the number of the last minted alias
    where,       \* the query fragments pushed so far, in traversal order
    from,        \* the FROM clause rendered by GetFromClause, a sequence of joins
    status,      \* the absl::Status of the traversal: "ok" or "unimplemented"
    phase        \* "translate" while visiting, "assembled" after GetFromClause

vars == <<kind, mentioned, aliasIndex, where, from, status, phase>>

-----------------------------------------------------------------------------
(* Names of the header: AtomType, the reference keys and the base alias.  *)

AtomTypes == {"ATTRIBUTE", "CONTEXT", "PROPERTY", "CUSTOM_PROPERTY",
              "PARENT_CONTEXT", "CHILD_CONTEXT", "EVENT"}
kBaseTableRef == ""
kTypeTableRef == "type"
Keys == {kBaseTableRef, kTypeTableRef} \cup NeighborNames
\* kBaseTableAlias, "table_0": the alias with number 0.
kBaseTableAlias == 0
NoAlias == -1

\* The column references of a resolved predicate: a struct-typed column is
\* a neighbor mention, any other column a direct attribute.
ColumnRefs == [struct : {TRUE}, name : NeighborNames]
                \cup [struct : {FALSE}, name : AttrNames]

StartsWith(n, p) == SplitName[n][1] = p
\* std::string::substr(len(p)) of a neighbor name: the rest when n starts
\* with p, and otherwise some other string, never a property name.
DropPrefix(n, p) == IF StartsWith(n, p) THEN SplitName[n][2] ELSE <<n, p>>

\* The prefix tested for each neighbor atom in VisitResolvedExpressionColumn.
NeighborPrefix == [CONTEXT |-> "contexts_", PROPERTY |-> "properties_",
                   CUSTOM_PROPERTY |-> "custom_properties_",
                   PARENT_CONTEXT |-> "parent_contexts_",
                   CHILD_CONTEXT |-> "child_contexts_", EVENT |-> "events_"]
NeighborAtoms == DOMAIN NeighborPrefix

-----------------------------------------------------------------------------
(* Join Template Catalog.                                                  *)

\* A join fragment: rel is the template, via the table or edge the neighbor
\* is reached through, on the neighbor column equated with the base id (or
\* type_id), filter the WHERE of the derived table.
Join(rel, alias, via, on, filter) ==
    [rel |-> rel, alias |-> alias, via |-> via, on |-> on, filter |-> filter]

GetTypeKindValue(T) ==
    [Artifact |-> "ARTIFACT_TYPE", Execution |-> "EXECUTION_TYPE",
     Context |-> "CONTEXT_TYPE"][T]

GetBaseNodeTable(T, base) == <<Join("Base", base, T, "id", <<>>)>>

GetTypeJoinTable(T, base, a) ==
    <<Join("Type", a, "Type", "type_id", <<"type_kind", GetTypeKindValue(T)>>)>>

\* GetContextJoinTemplate<Context> logs an error and returns "".
GetContextJoinTable(T, base, a) ==
    CASE T = "Artifact"  -> <<Join("Context", a, "Attribution", "artifact_id", <<>>)>>
      [] T = "Execution" -> <<Join("Context", a, "Association", "execution_id", <<>>)>>
      [] T = "Context"   -> <<>>

\* Mutant: the parent-context join oriented like the child-context one.
ParentJoinReversed(T, base, a) ==
    <<Join("ParentContext", a, "ParentContext.context_id",
           "parent_context_id", <<>>)>>

GetParentContextJoinTable(T, base, a) ==
    <<Join("ParentContext", a, "ParentContext.parent_context_id",
           "child_context_id", <<>>)>>

GetChildContextJoinTable(T, base, a) ==
    <<Join("ChildContext", a, "ParentContext.context_id",
           "parent_context_id", <<>>)>>

\* The node's property table and id column, for property and event joins.
NodePropertyTable(T) ==
    [Artifact |-> "ArtifactProperty", Execution |-> "ExecutionProperty",
     Context |-> "ContextProperty"][T]

NodeIdColumn(T) ==
    [Artifact |-> "artifact_id", Execution |-> "execution_id",
     Context |-> "context_id"][T]

GetPropertyJoinTableImpl(T, base, a, name, isCustom) ==
    <<Join("Property", a, NodePropertyTable(T), NodeIdColumn(T), <<name, isCustom>>)>>

\* GetEventJoinTemplate<Context> logs an error and returns "".
GetEventJoinTable(T, base, a) ==
    IF T = "Context" THEN <<>>
    ELSE <<Join("Event", a, "Event", NodeIdColumn(T), <<>>)>>

-----------------------------------------------------------------------------
(* Alias Registry.                                                         *)

\* Mutants of GetTableAlias: alias_index_++ instead of ++alias_index_;
\* no lookup of an existing binding; a lookup with operator[] that never
\* inserts.
GetTableAliasPostIncrement(a, k) ==
    IF mentioned[<<a, k>>] # NoAlias
    THEN [mentioned |-> mentioned, index |-> aliasIndex, alias |-> mentioned[<<a, k>>]]
    ELSE [mentioned |-> [mentioned EXCEPT ![<<a, k>>] = aliasIndex],
          index |-> aliasIndex + 1, alias |-> aliasIndex]
GetTableAliasNoLookup(a, k) ==
    [mentioned |-> [mentioned EXCEPT ![<<a, k>>] = aliasIndex + 1],
     index |-> aliasIndex + 1, alias |-> aliasIndex + 1]
GetTableAliasNoInsert(a, k) ==
    [mentioned |-> mentioned, index |-> aliasIndex, alias |-> mentioned[<<a, k>>]]

\* GetTableAlias(atom, key): the alias of the concept, minting
\* "table_" ++alias_index_ when the concept has none yet.  Its results are
\* the new registry, the new counter and the alias returned.
GetTableAlias(a, k) ==
    IF mentioned[<<a, k>>] # NoAlias
    THEN [mentioned |-> mentioned, index |-> aliasIndex, alias |-> mentioned[<<a, k>>]]
    ELSE [mentioned |-> [mentioned EXCEPT ![<<a, k>>] = aliasIndex + 1],
          index |-> aliasIndex + 1, alias |-> aliasIndex + 1]

\* The builder's constructor: only the base table is mentioned.
InitialMentioned ==
    [x \in AtomTypes \X Keys |->
        IF x = <<"ATTRIBUTE", kBaseTableRef>> THEN kBaseTableAlias ELSE NoAlias]

Init ==
    /\ kind \in NodeKinds
    /\ mentioned = InitialMentioned
    /\ aliasIndex = 0
    /\ where = <<>>
    /\ from = <<>>
    /\ status = "ok"
    /\ phase = "translate"

-----------------------------------------------------------------------------
(* Neighbor Reference Translator: VisitResolvedExpressionColumn.          *)

\* PushQueryFragment(node, text): text is <<alias, column>>, column "" when
\* the alias alone is rendered.
Push(ref, r, column) ==
    /\ mentioned' = r.mentioned
    /\ aliasIndex' = r.index
    /\ where' = Append(where, [ref |-> ref, alias |-> r.alias, column |-> column])

\* A struct column whose name starts with a known prefix: the alias alone.
VisitNeighborColumn(ref, a) ==
    /\ StartsWith(ref.name, NeighborPrefix[a])
    /\ Push(ref, GetTableAlias(a, ref.name), "")
    /\ UNCHANGED status

\* A struct column with no known prefix: UnimplementedError.
VisitUnknownNeighbor(ref) ==
    /\ \A a \in NeighborAtoms : ~StartsWith(ref.name, NeighborPrefix[a])
    /\ status' = "unimplemented"
    /\ UNCHANGED <<mentioned, aliasIndex, where>>

\* A scalar column: "type" reads the type join, others the base table.
VisitAttributeColumn(ref) ==
    /\ Push(ref, GetTableAlias("ATTRIBUTE",
                   IF ref.name = "type" THEN kTypeTableRef ELSE kBaseTableRef),
            ref.name)
    /\ UNCHANGED status

VisitResolvedExpressionColumn(ref) ==
    /\ phase = "translate"
    /\ status = "ok"
    /\ Len(where) < MaxRefs
    /\ Admissible(kind, ref)
    /\ \/ /\ ref.struct
          /\ \/ \E a \in NeighborAtoms : VisitNeighborColumn(ref, a)
             \/ VisitUnknownNeighbor(ref)
       \/ /\ ~ref.struct
          /\ VisitAttributeColumn(ref)
    /\ UNCHANGED <<kind, from, phase>>

-----------------------------------------------------------------------------
(* Clause Assembler: GetFromClause.                                        *)

\* The keys bound under atom a.  The header declares the map type of
\* mentioned_alias_, which fixes the order a category is iterated in; it is
\* not part of the modelled source, so every order is allowed.
BoundKeys(a) == {k \in Keys : mentioned[<<a, k>>] # NoAlias}
Orderings(S) ==
    {s \in [1..Cardinality(S) -> S] : \A i, j \in DOMAIN s : s[i] = s[j] => i = j}

\* The join appended for the concept (a, k).
ConceptJoin(T, a, k) ==
    LET base == mentioned[<<"ATTRIBUTE", kBaseTableRef>>]
        al   == mentioned[<<a, k>>]
    IN  CASE a = "ATTRIBUTE"       -> GetTypeJoinTable(T, base, al)
          [] a = "CONTEXT"         -> GetContextJoinTable(T, base, al)
          [] a = "PROPERTY"        ->
               GetPropertyJoinTableImpl(T, base, al, DropPrefix(k, "properties_"), FALSE)
          [] a = "CUSTOM_PROPERTY" ->
               GetPropertyJoinTableImpl(T, base, al, DropPrefix(k, "custom_properties_"), TRUE)
          [] a = "PARENT_CONTEXT"  -> GetParentContextJoinTable(T, base, al)
          [] a = "CHILD_CONTEXT"   -> GetChildContextJoinTable(T, base, al)
          [] a = "EVENT"           -> GetEventJoinTable(T, base, al)

\* The joins of one category, the keys iterated in the order ks; a
\* template that is "" for T contributes nothing.
CategoryJoins(T, a, ks) ==
    LET js == [i \in DOMAIN ks |-> ConceptJoin(T, a, ks[i])]
    IN  IF \E i \in DOMAIN js : js[i] = <<>> THEN <<>>
        ELSE [i \in DOMAIN js |-> js[i][1]]

\* The type join is emitted when the "type" key is bound; the other
\* categories follow in a fixed order.
TypeKeys ==
    IF mentioned[<<"ATTRIBUTE", kTypeTableRef>>] # NoAlias THEN <<kTypeTableRef>> ELSE <<>>

GetFromClause ==
    /\ phase = "translate"
    /\ status = "ok"
    /\ \E kc \in Orderings(BoundKeys("CONTEXT")),
          kp \in Orderings(BoundKeys("PROPERTY")),
          kq \in Orderings(BoundKeys("CUSTOM_PROPERTY")),
          kr \in Orderings(BoundKeys("PARENT_CONTEXT")),
          kh \in Orderings(BoundKeys("CHILD_CONTEXT")),
          ke \in Orderings(BoundKeys("EVENT")) :
          from' = GetBaseNodeTable(kind, mentioned[<<"ATTRIBUTE", kBaseTableRef>>])
                    \o CategoryJoins(kind, "ATTRIBUTE", TypeKeys)
                    \o CategoryJoins(kind, "CONTEXT", kc)
                    \o CategoryJoins(kind, "PROPERTY", kp)
                    \o CategoryJoins(kind, "CUSTOM_PROPERTY", kq)
                    \o CategoryJoins(kind, "PARENT_CONTEXT", kr)
                    \o CategoryJoins(kind, "CHILD_CONTEXT", kh)
                    \o CategoryJoins(kind, "EVENT", ke)
    /\ phase' = "assembled"
    /\ UNCHANGED <<kind, mentioned, aliasIndex, where, status>>

\* The caller drops the builder once it has the clauses or an error, and
\* constructs a fresh one for the next request.
NewRequest ==
    /\ \/ phase = "assembled"
       \/ status # "ok"
    /\ kind' \in NodeKinds
    /\ mentioned' = InitialMentioned
    /\ aliasIndex' = 0
    /\ where' = <<>>
    /\ from' = <<>>
    /\ status' = "ok"
    /\ phase' = "translate"

Next ==
    \/ \E ref \in ColumnRefs : VisitResolvedExpressionColumn(ref)
    \/ GetFromClause
    \/ NewRequest

Spec == Init /\ [][Next]_vars

\* The abstract registry, with mentioned_alias_ as its binding.
Registry == INSTANCE AliasRegistry
    WITH Concepts <- AtomTypes \X Keys, BaseConcept <- <<"ATTRIBUTE", kBaseTableRef>>,
         BaseAlias <- kBaseTableAlias, Unbound <- NoAlias, binding <- mentioned

-----------------------------------------------------------------------------
(* What the design promises (spec sections 3, 4.2, 4.3 and 8), stated     *)
(* independently of the code above, and the properties checked.           *)

\* The values the join templates fill in: template names, the tables or
\* edges joined through, the neighbor columns matched, and the filters of
\* the derived tables (none, the type kind, or a property name, possibly a
\* mangled substring, with the custom flag).
JoinRels == {"Base", "Type", "Context", "ParentContext", "ChildContext",
             "Property", "Event"}
JoinVias == NodeKinds \cup {"Type", "Attribution", "Association",
             "ParentContext.parent_context_id", "ParentContext.context_id",
             "ArtifactProperty", "ExecutionProperty", "ContextProperty", "Event"}
JoinOns == {"id", "type_id", "artifact_id", "execution_id", "context_id",
            "child_context_id", "parent_context_id"}
PropertyNames == {SplitName[n][2] : n \in NeighborNames}
Filters == {<<>>}
             \cup ({"type_kind"} \X {"ARTIFACT_TYPE", "EXECUTION_TYPE", "CONTEXT_TYPE"})
             \cup ((PropertyNames \cup (NeighborNames \X {"properties_", "custom_properties_"}))
                   \X BOOLEAN)
Fragments == [ref : ColumnRefs, alias : Nat, column : AttrNames \cup {""}]
JoinRecords == [rel : JoinRels, alias : Nat, via : JoinVias, on : JoinOns, filter : Filters]

TypeOK ==
    /\ kind \in NodeKinds
    /\ mentioned \in [AtomTypes \X Keys -> Nat \cup {NoAlias}]
    /\ aliasIndex \in Nat
    /\ where \in Seq(Fragments)
    /\ from \in Seq(JoinRecords)
    /\ status \in {"ok", "unimplemented"}
    /\ phase \in {"translate", "assembled"}

\* The concept a column reference denotes (spec 4.3): a relationship kind
\* and a concept key.  Property keys are the name minus the prefix.
SpecConcept(ref) ==
    IF ~ref.struct
    THEN IF ref.name = "type" THEN <<"TypeJoin", "">> ELSE <<"BaseAttribute", "">>
    ELSE CASE StartsWith(ref.name, "contexts_") -> <<"ContextJoin", ref.name>>
           [] StartsWith(ref.name, "properties_") ->
                <<"PropertyJoin", SplitName[ref.name][2]>>
           [] StartsWith(ref.name, "custom_properties_") ->
                <<"CustomPropertyJoin", SplitName[ref.name][2]>>
           [] StartsWith(ref.name, "parent_contexts_") -> <<"ParentContextJoin", ref.name>>
           [] StartsWith(ref.name, "child_contexts_") -> <<"ChildContextJoin", ref.name>>
           [] StartsWith(ref.name, "events_") -> <<"EventJoin", ref.name>>
           [] OTHER -> <<"Unsupported", ref.name>>

\* The join the catalog of spec 4.2 prescribes for concept c of a node of
\* kind T under alias al; an "Undefined" join where the spec defines none.
SpecJoin(T, c, al) ==
    LET idcol == [Artifact |-> "artifact_id", Execution |-> "execution_id",
                  Context |-> "context_id"][T]
        ptab  == [Artifact |-> "ArtifactProperty", Execution |-> "ExecutionProperty",
                  Context |-> "ContextProperty"][T]
    IN CASE c[1] = "BaseAttribute" -> Join("Base", al, T, "id", <<>>)
         [] c[1] = "TypeJoin" ->
              Join("Type", al, "Type", "type_id", <<"type_kind", GetTypeKindValue(T)>>)
         [] c[1] = "ContextJoin" /\ T = "Artifact" ->
              Join("Context", al, "Attribution", "artifact_id", <<>>)
         [] c[1] = "ContextJoin" /\ T = "Execution" ->
              Join("Context", al, "Association", "execution_id", <<>>)
         [] c[1] = "PropertyJoin" ->
              Join("Property", al, ptab, idcol, <<c[2], FALSE>>)
         [] c[1] = "CustomPropertyJoin" ->
              Join("Property", al, ptab, idcol, <<c[2], TRUE>>)
         [] c[1] = "ParentContextJoin" /\ T = "Context" ->
              Join("ParentContext", al, "ParentContext.parent_context_id",
                   "child_context_id", <<>>)
         [] c[1] = "ChildContextJoin" /\ T = "Context" ->
              Join("ChildContext", al, "ParentContext.context_id",
                   "parent_context_id", <<>>)
         [] c[1] = "EventJoin" /\ T # "Context" ->
              Join("Event", al, "Event", idcol, <<>>)
         [] OTHER -> Join("Undefined", al, "", "", <<>>)


\* Alias uniqueness (spec 3, AliasBinding): no two concepts of the registry,
\* of the same or of different atom types, share an alias, and the base
\* alias "table_0" is never minted again by GetTableAlias.
AliasesDistinct ==
    \A x, y \in AtomTypes \X Keys :
        mentioned[x] # NoAlias /\ mentioned[x] = mentioned[y] => x = y

\* Alias reuse (spec 8, first two properties): two rendered column
\* references denote the same concept exactly when VisitResolvedExpressionColumn
\* rendered them against the same alias, however far apart in the traversal
\* they were and whichever neighbor categories were mentioned in between.
SameConceptSameAlias ==
    \A i, j \in DOMAIN where :
        SpecConcept(where[i].ref) = SpecConcept(where[j].ref)
            <=> where[i].alias = where[j].alias

\* FROM/WHERE agreement (spec 4.4 and 8): once GetFromClause has run after
\* a successful traversal, every alias the WHERE text uses is defined by
\* exactly one fragment of the FROM clause, that fragment is the join the
\* catalog prescribes for the reference's concept and node kind, and the
\* FROM clause holds nothing but the base table and such joins.
FromRealisesWhere ==
    phase = "assembled" =>
        /\ \A i \in DOMAIN where :
              \E m \in DOMAIN from :
                 /\ from[m] = SpecJoin(kind, SpecConcept(where[i].ref), where[i].alias)
                 /\ \A n \in DOMAIN from : from[n].alias = where[i].alias => n = m
        /\ from[1] = SpecJoin(kind, <<"BaseAttribute", "">>, kBaseTableAlias)
        /\ \A m \in 2..Len(from) : \E i \in DOMAIN where : from[m].alias = where[i].alias


\* The builder implements the abstract registry: under mentioned_alias_ as
\* the binding, every step of GetTableAlias, GetFromClause and the
\* constructor either leaves the registry alone, binds one unbound concept
\* to an alias no concept holds (base table_0 included), or starts over;
\* a bound concept is never rebound within one builder.
RegistryRefined == Registry!Spec

=============================================================================
