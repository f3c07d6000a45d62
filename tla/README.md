# Verification project for the ml-metadata filter query builder

This directory holds TLA+ models of the code under `src/`, the TLC runs that
model-check them on small instances, and the TLAPS proofs about them.

## 1. Inventory

### The system

`src/ml_metadata/query/filter_query_builder.cc` is the core. It defines
`FilterQueryBuilder<T>` for `T` in {Artifact, Execution, Context}. A fresh
builder compiles one resolved filter predicate. zetasql's `SQLBuilder` walks
the predicate and calls `VisitResolvedExpressionColumn` for every column
reference, in traversal order. Each call renders the column against a table
alias and, as a side effect, records which neighbor concept needs a join.
Afterwards the caller asks for `GetWhereClause()` (the rendered text) and
`GetFromClause()` (the base table followed by the joins).

`src/ml_metadata/tools/mlmd_bench/util.cc` holds the set-up helpers of the
mlmd_bench benchmark. They read the existing types and nodes of a
`MetadataStore` and bulk-insert new types and nodes.

### Components, their state and operations

| Component | State | Operations that change state |
|---|---|---|
| Alias Registry | `mentioned_alias_` (atom type -> concept key -> alias), `alias_index_` | constructor (binds the base table to `table_0`); `GetTableAlias` (mints `table_` + `++alias_index_` on the first mention of a concept) |
| Join Template Catalog | none (constant SQL templates) | none. It dispatches on `T` and returns an empty template for Context joins and Event joins of `T = Context` |
| Neighbor Reference Translator | the pushed query fragments (in the zetasql base class) | `VisitResolvedExpressionColumn`: a known neighbor prefix renders the alias alone; an unknown prefix returns `UnimplementedError`; a scalar column renders `base.col`, or `type_alias.type` for `type` |
| Clause Assembler | none of its own | `GetFromClause`: base table, the type join if mentioned, then contexts, properties, custom properties, parent contexts, child contexts and events, each category in the iteration order of its map |
| mlmd_bench utilities | the `MetadataStore` (outside `src/`) | `InsertTypesInDb` (one `PutTypes`), `InsertNodesInDb` (three `GetExistingTypes`, then `PutArtifacts`, `PutExecutions`, `PutContexts`), plus read-only `GetExistingTypes` and `GetExistingNodes` |

### Interactions

The translator calls the registry through `GetTableAlias`. The assembler
reads the registry's final state and calls the catalog for each binding.
Both share one piece of state: the registry. The WHERE text and the FROM text
must agree: every alias the WHERE text uses must be defined by exactly one
FROM fragment, and that fragment must be the join for the concept's category
and for `T`. The builder itself is single-threaded and has no I/O. What makes
it hard is that agreement across a long traversal mixing seven categories and
three node kinds, plus the fallback paths: empty templates, the
`UnimplementedError` after aliases were already minted, and the unchecked
parent/child joins. The benchmark utilities interact with the store through
a sequence of calls, any of which can fail.

### What makes each component correct

- Registry: aliases are pairwise distinct, the base alias included. A concept
  keeps its alias once bound.
- Translator: two references share an alias exactly when they denote the same
  concept (spec section 8, properties 1 and 2).
- Catalog and assembler: after a successful traversal, FROM defines each
  alias WHERE uses exactly once, with the join spec section 4.2 prescribes,
  and holds nothing else (spec sections 4.4 and 8). A reference whose
  relationship `T` lacks must fail, never yield an empty join (spec
  section 8, negative scenario).
- Utilities: a successful `InsertNodesInDb` inserts every requested node with
  a type of its own kind. A failure should leave a state the caller can
  recover from.

The hazards these properties aim at are listed, each at its line, under
`hazards` in `PROJECT.json`.

## 2. Plan

1. **Done.** `FilterQueryBuilder`: the registry, catalog, translator and
   assembler, composed in one module because they share the registry. With
   `MC_FilterQueryBuilder`, its runs, `FilterQueryBuilder_proofs` and
   `FilterQueryBuilder_joins`.
2. **Done.** `BenchUtil`: the mlmd_bench utilities over an abstract store,
   with three runs and the proofs `BenchUtil_proofs` and
   `BenchUtil_roundrobin`.
3. **Done.** `AliasRegistry`, the abstract registry, and the proof that
   `FilterQueryBuilder` refines it.
4. **Done.** The proof of `SameConceptSameAlias`.
5. **Left.** A determinism run with two builders compiling the same
   predicate. It needs the map type of `mentioned_alias_`, which lives in the
   header outside `src/`. Until that is fixed, such a run would only show that
   the hash-map ordering can make FROM texts differ.
6. **Done.** The proof of `FromRealisesWhere` (`FilterQueryBuilder_joins`),
   under the resolver's contract `AdmissibleContract`.

## 3. Modules

### `FilterQueryBuilder.tla`

Constants:

- `NodeKinds`: the template arguments.
- `AttrNames`: the scalar columns, `type` among them.
- `NeighborNames`: the struct columns.
- `SplitName`: splits a neighbor name into the prefix it starts with and the
  rest. TLC has no substring operators, so `absl::StartsWith` and
  `substr(prefix.length())` are read off this table.
- `Admissible(T, ref)`: what the resolver may hand a builder for `T`.
- `MaxRefs`: the bound on one predicate's column references.

Variables:

- `kind` is `T`.
- `mentioned[<<atom, key>>]` is `mentioned_alias_[atom][key]`. `NoAlias`
  stands for an absent key.
- `aliasIndex` is `alias_index_`.
- `where` is the sequence of pushed fragments (the reference, its alias and
  the column rendered after it).
- `from` is the rendered FROM clause, a sequence of join records.
- `status` is the traversal's `absl::Status`.
- `phase` is before or after `GetFromClause`.

An alias `table_<n>` is the number `n`, since `StrCat` with a fixed prefix is
injective in `n`. The base alias `table_0` (`kBaseTableAlias`, defined in the
header) is 0.

A join record describes what its SQL template joins:

- the template;
- the alias;
- the table or edge it goes through;
- the neighbor column compared with the base id;
- the filter of the derived table (the type kind, or the property name with
  the custom flag).

An empty template (`""`) is the empty sequence, because appending `""` adds
nothing to the FROM text.

Actions:

- `VisitResolvedExpressionColumn(ref)` is the whole visitor. It has three
  disjuncts: `VisitNeighborColumn`, `VisitUnknownNeighbor` and
  `VisitAttributeColumn`. `GetTableAlias` and the push are part of the step.
- `GetFromClause` renders the full FROM clause in one step. The order inside
  a category is an existential choice over all orderings of the category's
  keys, because the map type lives in the header.
- `NewRequest` drops a finished or failed builder and constructs a fresh one,
  as the store's callers do per request. This is why the runs check
  deadlock: the system never stops.

Properties:

- `TypeOK`: the type invariant.
- `AliasesDistinct`: no two registry concepts share an alias.
- `SameConceptSameAlias`: two WHERE fragments denote the same concept (spec
  section 4.3, independent of the code's keys) exactly when they carry the
  same alias.
- `FromRealisesWhere`: after `GetFromClause`, each WHERE alias is defined by
  exactly one FROM fragment, and that fragment equals `SpecJoin`, the join
  spec section 4.2 prescribes for the concept and kind. The first fragment is
  the base table, and no fragment is unused.

### `MC_FilterQueryBuilder.tla`

The instance has:

- all three node kinds;
- the attributes `uri`, `id` and `type`;
- one neighbor name per prefix;
- two property names, so distinct properties need distinct joins;
- a property and a custom property with the same rest, so the two categories
  must not share an alias;
- an unknown prefix (`artifacts_`), which reaches the error path;
- up to `MaxRefs = 4` references per predicate.

With four references a predicate can mention a concept twice with two other
categories in between, or mention three categories plus the type join. That
is enough to reach every branch of `GetTableAlias` and every category of
`GetFromClause` for every kind. `ResolverAdmits` is the resolver's contract
from spec sections 4.2 and 7. `InvalidRelationship` admits every structured
reference. That adds what spec section 7 calls InvalidRelationshipForRecordKind:
`contexts_` and `events_` under Context (the negative scenario of spec
section 8 is the first), and `parent_contexts_` and `child_contexts_` under
Artifact and Execution.

### `AliasRegistry.tla`

This is the abstract specification of what the registry promises. The
variable `binding` maps each concept to an alias or to `Unbound`. `Init`
binds only the base concept, to the base alias. `Bind(c)` gives an unbound
concept a natural number that no concept holds. `Reset` starts a new builder.
`FilterQueryBuilder` defines
`Registry == INSTANCE AliasRegistry WITH binding <- mentioned, ...`. The
concepts are the pairs (atom type, key), the base concept is
(`ATTRIBUTE`, `kBaseTableRef`), and `Unbound` is `NoAlias`. The property
`RegistryRefined == Registry!Spec` says every builder step is a `Bind`, a
`Reset` or a stutter of the registry. So no step moves a bound concept to another
alias. The abstract registry allows a `Reset` at any step, so the
refinement does not say when the binding is reset. In the model only
`NewRequest` resets it, but no property states that.

### `FilterQueryBuilder_proofs.tla`

This module holds the lemmas and theorems about the builder (section 5).

### `BenchUtil.tla`

This module models `util.cc`. The `MetadataStore` is outside `src/`, so it is
abstract: per kind, the sequence of type ids and the set of nodes. Each store
call either commits whole or fails with an error status. The store is
persistent, and the process may die and restart around it.

Constants:

- `MaxCount` bounds the nodes or types one call asks for, summed over the
  three kinds.
- `MaxCalls` bounds the calls of a behaviour.
- `Specs` is the set of node kinds the readers may be asked for. It includes
  one that is not Artifact, Execution or Context.

Variables:

- `types` and `nodes` are the store.
- `pc` is where `InsertNodesInDb` is: idle, fetching, putting, or crashed.
- `stage` is the kind being fetched or put.
- `req` is the request.
- `fetched` is what `GetExistingTypes` has returned so far.
- `readStatus` is the status of the last read.
- `calls` is a history of calls with their results.

Actions:

- `InsertTypesInDb(n)` is one `PutTypes`. The new ids follow the existing
  ones.
- `CallInsertNodesInDb(n)` starts the function.
- `FetchTypes` is one `GetExistingTypes`. It appends the store's types of
  the kind to `fetched`, or returns the error.
- `PutNodes` is one `Put{Artifacts,Executions,Contexts}`. Node `i` takes type
  `fetched[i % size]` (`PrepareNode`).
- `Restart` recovers from a crash. It keeps the store.
- `GetExistingTypes(s)` and `GetExistingNodes(s)` read.

`i % size` with no types is undefined behaviour. It is modelled as both
outcomes the build can produce: the process dies (SIGFPE), or the put
proceeds and is refused with an error. `GetExistingNodes` on an unknown
kind hits `LOG(FATAL)` and dies; `GetExistingTypes` returns
`Unimplemented`.

Properties:

- `TypeOK`: the type invariant.
- `NodesTypedOwnKind`: every node in the store has a type of its own kind.
- `InsertedPrefix`: the nodes each call left behind are all of the request
  for the first `j` kinds and none of the later ones. A call that returned OK
  has `j = 3`.
- `TypesRoundRobin`: within one call and kind, the node counts of any two
  fetched types differ by at most one.
- `InsertReturnsStatus`: no call ends in a crash. The function returns a
  `Status` on every path.

`MC_BenchUtil` sets `Specs` to the three kinds plus `Unknown`. It has two
instances:

- `MaxCount = 2` and `MaxCalls = 3` for `bench_util`. Two nodes spread over
  three kinds reach every pairing of empty and non-empty type lists. Three
  calls allow types, nodes, then nodes again, so a second call meets the
  nodes of a crashed or failed first one. With at most two nodes of a kind,
  `i % size` never wraps here.
- `MaxCount = 3` and `MaxCalls = 2` for `bench_round_robin`: a types call,
  then a nodes call. A kind with two types can be asked for three nodes, so
  node 2 wraps to the first type. TLC reaches such a call: the invariant
  "no call puts three nodes of a kind over two fetched types" fails on this
  instance. `MaxCount = 3` with `MaxCalls = 3` takes about six minutes
  (16.7 million states), too long for a routine run.

### `FilterQueryBuilder_joins.tla`

This module holds the proof of `FromRealisesWhere` (section 5). It extends
`FilterQueryBuilder_proofs` and states the resolver's contract as the
definition `AdmissibleContract`.

### `BenchUtil_proofs.tla`

This module holds the proofs of `NodesTypedOwnKind`, `InsertedPrefix` and
`TypeOK` (section 5).

### `BenchUtil_roundrobin.tla`

This module holds the proof of `TypesRoundRobin` (section 5). It extends
`BenchUtil_proofs` and reuses its invariant `TypeInv`.

## 4. Runs

| Run | cfg | Expect | What it shows |
|---|---|---|---|
| `builder_safety` | `MC_FilterQueryBuilder.cfg` | pass (31,743 states) | For every kind and every predicate of up to four references, `TypeOK`, `AliasesDistinct`, `SameConceptSameAlias` and `FromRealisesWhere` hold, and the builder refines `AliasRegistry` (`RegistryRefined`). |
| `invalid_relationship` | `MC_InvalidRelationship.cfg` | violation | A builder given a reference outside its kind's relationships compiles it without error. TLC's trace: an Artifact builder given `parent_contexts_c` emits a Context self-join on the artifact's id. |
| `bench_util` | `MC_BenchUtil.cfg` | pass (2,004,704 states) | Across failures, crashes and restarts, `TypeOK`, `NodesTypedOwnKind` and `InsertedPrefix` hold. |
| `bench_round_robin` | `MC_BenchUtilWrap.cfg` | pass (159,912 states) | With the `i % size` wrap reached, `TypesRoundRobin` holds. |
| `bench_no_types` | `MC_BenchUtilNoTypes.cfg` | violation | `InsertNodesInDb` with nodes asked of a kind that has no types divides by zero instead of returning a status. |

The `invalid_relationship` violation is a divergence from spec sections 7
and 8. The builder never checks a reference against its kind. For Context,
`GetContextJoinTemplate` and `GetEventJoinTemplate` log an error (lines 142
and 154) and return `""`, so the alias in WHERE is never defined in FROM. For
Artifact and Execution, `GetParentContextJoinTable` and
`GetChildContextJoinTable` (lines 204-216) emit the context self-join on the
node's id. In every case the compilation reports success. Each of the four
cases alone also violates `FromRealisesWhere`. The `bench_no_types` violation is
a code bug at `util.cc:215`: `i % fetched_types.size()` with an empty list.

Each property of a passing run has a mutant that TLC kills:

- `GetTableAliasNoInsert` breaks `TypeOK`.
- `GetTableAliasPostIncrement` breaks `AliasesDistinct` and
  `RegistryRefined`.
- `GetTableAliasNoLookup` breaks `SameConceptSameAlias`.
- `ParentJoinReversed` (the parent-context join oriented like the
  child-context one) breaks `FromRealisesWhere`.
- `NextStageNoReset` breaks the bench `TypeOK`.
- `FetchKindSwapped` (the Execution and Context type lists swapped) breaks
  `NodesTypedOwnKind`.
- `NodesRequestShort` (one node too few) breaks `InsertedPrefix`.
- `TypeIndexFirst` (every node takes the first type) breaks
  `TypesRoundRobin`.

Fairness: none is assumed, and no liveness property is checked. The builder
is a synchronous tree walk. `InsertNodesInDb` is straight-line code with no
loop over store calls and no retry. That it returns once every store call
returns would follow from the shape of any model of it, so it is not stated.
Whether the store's calls return is outside `src/`.

## 5. What is proved

`FilterQueryBuilder_proofs` proves, for every value of the constants that
satisfies the module's assumptions:

- `THEOREM TypeCorrect == Spec => []TypeOK`
- `THEOREM AliasesUnique == Spec => []AliasesDistinct`
- `THEOREM ImplementsRegistry == Spec => RegistryRefined`
- `THEOREM ConceptsShareAliases == Spec => []SameConceptSameAlias`

The assumptions are:

- `KindsAssumption`: the kinds are among the three.
- `NamesAssumption`: finitely many neighbor names, none equal to the reserved
  keys `""` or `type`, each split into two strings.
- `SplitAssumption`: two neighbor names with the same split are equal.
- `MaxRefsAssumption`.

Neither invariant is inductive on its own. They are proved through
`IInv == TypeOK /\ CounterBound /\ AliasesDistinct /\ KeysWellPlaced /\ BaseBound`:

- `CounterBound`: every alias is at most `alias_index_`, so the alias
  `++alias_index_` is fresh. This is what keeps aliases distinct.
- `KeysWellPlaced`: a key is bound only under its own atom. Attribute keys
  are `""` and `type`; a neighbor key starts with its atom's prefix. This is
  what types the property names in the FROM clause.
- `BaseBound`: the base table keeps `table_0`, so the base fragment has an
  alias.

TLC checked `IInv` as an invariant of the `builder_safety` instance before it
was proved.

The proof has one lemma per action:

- `VisitIInv`, through `PushIInv` and `GetTableAliasStep`;
- `GetFromClauseIInv`, through `CategoryJoinsType`, `ConceptJoinType` and
  `OrderingsAreSequences`;
- `NewRequestIInv`;
- `InitIInv`.

`NextIInv` combines them, and the theorems follow by PTL.

The refinement maps the initial state to `Registry!Init` (`RegistryInit`).
`NextRefines` shows that every step is a `Bind`, a `Reset` or a stutter. A
visit that finds its concept unbound binds it to `aliasIndex + 1`, which
`CounterBound` makes fresh. `NewRequest` is `Reset`.

`SameConceptSameAlias` is proved through `WhereBound`: every WHERE fragment
carries the current binding of its concept. `ConceptKey` shows that the
code's key (atom, key) and the spec's concept determine each other. This is
where `SplitAssumption` is needed. A binding is never changed, so
`WhereBound` is preserved, and two fragments share an alias exactly when
they share a concept, by `AliasesDistinct`.

`FilterQueryBuilder_joins` proves

- `THEOREM JoinsRealiseWhere == AdmissibleContract => (Spec => []FromRealisesWhere)`

`AdmissibleContract` is what the resolver promises of a structured reference:
under a context, no `contexts_` or `events_` names; under an artifact or an
execution, no `parent_contexts_` or `child_contexts_` names. The hypothesis
is needed. Without it the catalog renders such a reference with the join of
another concept, and the `invalid_relationship` run finds the property
violated. `ResolverAdmits` in `MC_FilterQueryBuilder` satisfies the contract.

The invariant is strengthened to
`JInv == IInv /\ WhereBound /\ WhereAdmissible /\ BoundUsed /\ (phase = "assembled" => FromRealisesWhere)`:

- `WhereAdmissible`: every WHERE fragment's reference was admitted for the
  request's kind, so the contract applies to it.
- `BoundUsed`: every bound concept other than the base table has a WHERE
  fragment that carries its alias. This is what ties each FROM join back to
  a WHERE fragment.

TLC checked `JInv` as an invariant of the `builder_safety` instance (31,743
states) before it was proved. The argument for `GetFromClause` runs:

- `OrderingOnto`: the order of each category's keys lists every bound key
  once (`FS_Injection`).
- `CatalogAgrees`: for an admitted reference, the catalog's template for its
  key is `SpecJoin` of its concept and alias, one case per atom. This is where
  the contract is used.
- `FromGood(s, A)`: `s` lists, without repetition and starting with the base
  table, exactly the joins of the concepts bound under the atoms in `A`.
  `StartPiece` gives it for the base table and the type join; `StepConcat`
  extends it by one category; `FromClauseJoins` chains the seven categories.
- `RealisesFrom` turns `FromGood(from', AtomTypes)` into `FromRealisesWhere'`,
  with `JoinOfInjective` for the uniqueness of each alias's join.

`JInvStep` preserves `JInv` through every action, and the theorem follows by
PTL.

`BenchUtil_proofs` proves, for every `MaxCount` and `MaxCalls` allowed by
`CountAssumption` (both naturals) and `SpecsAssumption`:

- `THEOREM NodesOwnKind == Spec => []NodesTypedOwnKind`
- `THEOREM NodesInsertedPrefix == Spec => []InsertedPrefix`
- `THEOREM BenchTypeCorrect == Spec => []TypeOK`

`NodesTypedOwnKind` alone is not inductive: a put takes its types from
`fetched`, not from the store. The strengthening `OwnKindInv` adds
`FetchedExisting` (every fetched type is one of the store's types of that
kind) and the shape of `types`, `fetched`, `stage` and `req`. The store only
gains types, and a fetch appends the store's list (`RangeConcatenation`). A
put picks `fetched[i % size + 1]`, which is in the range when the list is
non-empty (`ModRange`). The empty case never writes. The lemma
`NodesRequestTypes` states this.

`InsertedPrefix` speaks only of calls that have returned, so it says nothing
of the call in flight; yet the call in flight is the one whose puts change
the store. `PrefixInv` adds:

- `NodesOfCalls`: node sets are finite and every node's `call` field names a
  record of the history. Without it a put of the running call, whose nodes
  carry the new call number, could seem to add nodes to an earlier call.
- `RunningCall`: while the process is in `fetch` or `put`, the last record is
  the running call, carries the request `req`, and has exactly the kinds
  before `stage` inserted in full (`PrefixDone`).
- `PastCalls`: every other nodes record has some prefix `j` done, with `j = 3`
  when it returned OK.

A successful put moves the running call from `PrefixDone(c, stage - 1)` to
`PrefixDone(c, stage)` (`PutSucceedsPrefix`); a failed put or a crash freezes
it at `stage - 1` (`PutFailsPrefix`); a new call appends a record with
`PrefixDone(c, 0)`. `NextPrefix` preserves `PrefixInv` given `OwnKindInv`.

`TypeOK` bounds type ids by `3 * MaxCount * MaxCalls` and call numbers by
`MaxCalls`, which no step states locally. `TypeInv` adds `BoundsInv`:

- `CountBounds`: the history has at most `MaxCalls` records and the store has
  issued at most `MaxCount` type ids per record.
- `IdsIssued`: every type id in `types` and in any record's `fetched` is one
  the store issued.
- `NodeShape` and `Control`: the shape of `nodes`, `pc` and `readStatus`.

`NextBounds` preserves it, one lemma per action (`InsertTypesBounds`,
`FetchTypesBounds`, `PutNodesBounds`, ...), and `TypeOKFromInv` derives
`TypeOK`. TLC checked `OwnKindInv`, `PrefixInv` and `TypeInv` as invariants of
the `bench_util` instance before they were proved.

`BenchUtil_roundrobin` proves, under the same assumptions:

- `THEOREM TypesSpreadEvenly == Spec => []TypesRoundRobin`

The proof needs no induction over the request size. It counts by a
bijection instead:

- `ResiduesCard`: the loop indices `i < r` with `i % s = p` are exactly
  `j * s + p` for `j < m`, where `m = r \div s`, plus one when
  `p < r % s` (`ResidueCount`). So there are `m` of them (`FS_Bijection`).
- `SpreadOfTypeCard`: the nodes of type `f[p + 1]` in a request built from
  the list `f` are those with `i % s = p`. This needs `f` to hold each type
  once.
- `ResidueCountsClose`: two such counts differ by at most one.

The invariant is strengthened to
`SpreadInv == TypeInv /\ TypesInjective /\ FetchedLists /\ FetchedInjective /\ NodesSpread`:

- `TypesInjective`: each kind's list of types holds every id once. A
  `PutTypes` call hands out ids above `TypeCount`, and `IdsIssued` bounds
  every existing id by `TypeCount` (`ConcatInjective`).
- `FetchedLists`: while `InsertNodesInDb` runs, `existing_<kind>_types` is
  the store's list for the kinds fetched so far and empty for the others.
  The call's history record holds the same lists. This is why a fetch
  appends to an empty list and copies the store's list exactly.
- `FetchedInjective`: every list in the history holds each type once.
- `NodesSpread`: a call has put, of each kind, nothing or exactly
  `Spread(c, k)`, its request rebuilt from the history record. `NotPutYet`
  (from `PrefixInv`) shows that a put finds no earlier nodes of its call and
  kind.

TLC checked `SpreadInv` as an invariant of the `bench_util` instance
(2,004,704 states) and of the `bench_round_robin` instance (159,912 states)
before it was proved. There is one lemma per action
(`InsertTypesSpread`, `CallInsertNodesSpread`, `FetchTypesSpread`,
`PutNodesSpread`, `IdleStepSpread`). `NextSpread` combines them with
`NextBounds`, and `SpreadGivesRoundRobin` derives the property.

Out of the prover's reach, and left to TLC where they arise:

- Liveness and anything about `ENABLED`. The project states no liveness
  property (see the fairness note in section 4).
- What a recursive definition computes for every input. The project's
  theorem modules reach no `RECURSIVE` operator.

No action property (`[][A]_vars`) is stated beyond the refinement
`RegistryRefined`, which is proved. The candidates were checked against the
code. One was that a returned call's history record never changes; no
plausible change to `util.cc` breaks it. Another was that the store's tables
only grow, which restates the abstract store rather than the code. The rest
restate a single action's guard.

## 6. Not modelled

- The zetasql resolver, the parser and the SQL builder's rendering of
  operators and literals. They are outside `src/` and enter the model only as
  the order of the visitor's steps and the `Admissible` contract.
- Identifier quoting (`ToIdentifierLiteral`). It is the identity on
  `table_<n>` and on the modelled names.
- The `MetadataStore` behind the mlmd_bench utilities, its SQL backend and
  its id allocation. They are outside `src/`. The model keeps only what
  `util.cc` relies on: each call commits whole or fails, and the store
  survives the process.
- The node names, properties and URIs that `PrepareNode` fills in. No
  property depends on them.
- The type names and property schemas of `InsertTypesInDb`. Only the count
  and kind of the new types matter to the nodes that use them.
