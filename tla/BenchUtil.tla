------------------------------ MODULE BenchUtil ------------------------------
(***************************************************************************)
(* The set-up helpers of mlmd_bench, ml_metadata/tools/mlmd_bench/util.cc, *)
(* over an abstract MetadataStore.  The store is a database: its type and  *)
(* node tables persist when the benchmark process dies, and each of its    *)
(* calls either commits as a whole or fails with an error Status.          *)
(*                                                                         *)
(* InsertNodesInDb makes six store calls in a row (three GetXTypes, then   *)
(* PutArtifacts, PutExecutions, PutContexts); each is a step of its own,   *)
(* since each can fail and the process can die between them.  Building a  *)
(* request computes type_index = i % existing_types.size(): with no type   *)
(* of the kind this is a division by zero, undefined behaviour whose       *)
(* outcomes are a dead process (SIGFPE) or a garbage type that the store   *)
(* rejects.  InsertTypesInDb is one PutTypes call.                         *)
(*                                                                         *)
(* Data abstraction.  A type is its id; a node is the record of its type,  *)
(* the call that inserted it and its loop index i (its name is            *)
(* pre_insert_<kind>-<time>-<i>).  Names, properties, uris and states that  *)
(* PrepareNode sets are constant and left out.                             *)
(***************************************************************************)
EXTENDS Naturals, Sequences, FiniteSets, Functions

CONSTANTS
    MaxCount,   \* bound on the types or nodes one call asks for, all kinds together
    MaxCalls,   \* bound on the calls of InsertTypesInDb and InsertNodesInDb
    Specs       \* specification values a FillNodesConfig can carry

ASSUME CountAssumption == MaxCount \in Nat /\ MaxCalls \in Nat

\* The node kinds in the order InsertNodesInDb puts them.
Kinds == <<"Artifact", "Execution", "Context">>
KindSet == {Kinds[j] : j \in 1..3}

ASSUME SpecsAssumption == KindSet \subseteq Specs

VARIABLES
    (* The store.                                                          *)
    types,     \* types[k]: the ids of the types of kind k, in id order
    nodes,     \* nodes[k]: the set of nodes of kind k
    (* The benchmark process.                                              *)
    pc,        \* "idle", "fetch" or "put" inside InsertNodesInDb, or "crashed"
    stage,     \* the index in Kinds of the kind fetched or put next
    req,       \* req[k]: num_<kind>_nodes of the running InsertNodesInDb
    fetched,   \* fetched[k]: existing_<kind>_types
    readStatus,\* the Status of the caller's last GetExistingNodes/GetExistingTypes
    (* History.                                                            *)
    calls      \* calls[c]: [op, req, fetched, result] of the c-th insert call

vars == <<types, nodes, pc, stage, req, fetched, readStatus, calls>>

NoCount == [k \in KindSet |-> 0]
NoTypes == [k \in KindSet |-> <<>>]
\* The counts one call is given: at most MaxCount types or nodes in all.
Counts == {n \in [KindSet -> 0..MaxCount] :
              n["Artifact"] + n["Execution"] + n["Context"] <= MaxCount}

\* Type ids are global across kinds, allocated in insertion order.
TypeCount == Len(types["Artifact"]) + Len(types["Execution"]) + Len(types["Context"])

\* The current InsertNodesInDb call, numbered by its place in calls.
Current == Len(calls)

SetResult(r) == calls' = [calls EXCEPT ![Current].result = r]

Init ==
    /\ types = NoTypes
    /\ nodes = [k \in KindSet |-> {}]
    /\ pc = "idle"
    /\ stage = 1
    /\ req = NoCount
    /\ fetched = NoTypes
    /\ readStatus = "none"
    /\ calls = <<>>

-----------------------------------------------------------------------------
(* InsertTypesInDb: one PutTypes request with the artifact, execution and  *)
(* context types in that order; PutTypes commits all of them or none.      *)

InsertTypesInDb(n) ==
    /\ pc = "idle" /\ Len(calls) < MaxCalls
    /\ LET off == [k \in KindSet |->
                    IF k = "Artifact" THEN TypeCount
                    ELSE IF k = "Execution" THEN TypeCount + n["Artifact"]
                    ELSE TypeCount + n["Artifact"] + n["Execution"]]
           put == [k \in KindSet |-> types[k] \o [j \in 1..n[k] |-> off[k] + j]]
       IN \E ok \in BOOLEAN :
            /\ types' = IF ok THEN put ELSE types
            /\ calls' = Append(calls, [op |-> "types", req |-> n, fetched |-> NoTypes,
                                       result |-> IF ok THEN "ok" ELSE "error"])
    /\ UNCHANGED <<nodes, pc, stage, req, fetched, readStatus>>

-----------------------------------------------------------------------------
(* InsertNodesInDb, one step per store call.                               *)

CallInsertNodesInDb(n) ==
    /\ pc = "idle" /\ Len(calls) < MaxCalls
    /\ pc' = "fetch" /\ stage' = 1 /\ req' = n /\ fetched' = NoTypes
    /\ calls' = Append(calls, [op |-> "nodes", req |-> n, fetched |-> NoTypes,
                               result |-> "running"])
    /\ UNCHANGED <<types, nodes, readStatus>>

\* Mutant: the execution and artifact cases of the switch swapped.
FetchKindSwapped == [Artifact |-> "Execution", Execution |-> "Artifact", Context |-> "Context"]

\* GetExistingTypesImpl: the FetchType for each FillTypesConfig value.
FetchKind == [Artifact |-> "Artifact", Execution |-> "Execution", Context |-> "Context"]

\* GetExistingTypes(fill_types_config): append the store's types of the
\* kind to existing_<kind>_types, or return the store's error.
FetchTypes ==
    /\ pc = "fetch"
    /\ LET k == Kinds[stage] IN
       \/ /\ fetched' = [fetched EXCEPT ![k] = @ \o types[FetchKind[k]]]
          /\ calls' = [calls EXCEPT ![Current].fetched = fetched']
          /\ pc' = IF stage = 3 THEN "put" ELSE "fetch"
          /\ stage' = IF stage = 3 THEN 1 ELSE stage + 1
       \/ /\ pc' = "idle" /\ SetResult("error")
          /\ UNCHANGED <<fetched, stage>>
    /\ UNCHANGED <<types, nodes, req, readStatus>>

\* Mutant: every node of a kind gets the first existing type.
TypeIndexFirst(i, size) == 0

\* type_index = i % existing_<kind>_types.size(), for a non-empty list.
TypeIndex(i, size) == i % size

\* Mutant: the loop stops one node early (i < num_nodes - 1).
NodesRequestShort(k) ==
    {[type |-> fetched[k][TypeIndex(i, Len(fetched[k])) + 1], call |-> Current, i |-> i] :
        i \in 0..req[k] - 2}

\* The request PutArtifacts/PutExecutions/PutContexts sends for kind k.
NodesRequest(k) ==
    {[type |-> fetched[k][TypeIndex(i, Len(fetched[k])) + 1], call |-> Current, i |-> i] :
        i \in 0..req[k] - 1}

\* Mutant: the stage cursor is not reset when the last put returns.
NextStageNoReset ==
    IF stage = 3 THEN /\ pc' = "idle" /\ stage' = stage + 1 /\ SetResult("ok")
                 ELSE /\ stage' = stage + 1 /\ UNCHANGED <<pc, calls>>

\* After a successful put: the next kind, or the OK return after contexts.
NextStage ==
    IF stage = 3 THEN /\ pc' = "idle" /\ stage' = 1 /\ SetResult("ok")
                 ELSE /\ stage' = stage + 1 /\ UNCHANGED <<pc, calls>>

\* Building the request of kind k and putting it.  With nodes requested
\* and no type fetched the modulo divides by zero: the process dies, or a
\* garbage type makes the store reject the request.
PutNodes ==
    /\ pc = "put"
    /\ LET k == Kinds[stage] IN
       \/ /\ req[k] > 0 /\ fetched[k] = <<>>
          /\ \/ pc' = "crashed" /\ SetResult("crashed")
             \/ pc' = "idle" /\ SetResult("error")
          /\ UNCHANGED <<nodes, stage>>
       \/ /\ ~(req[k] > 0 /\ fetched[k] = <<>>)
          /\ nodes' = [nodes EXCEPT ![k] = @ \cup NodesRequest(k)]
          /\ NextStage
       \/ /\ ~(req[k] > 0 /\ fetched[k] = <<>>)
          /\ pc' = "idle" /\ SetResult("error")
          /\ UNCHANGED <<nodes, stage>>
    /\ UNCHANGED <<types, req, fetched, readStatus>>

-----------------------------------------------------------------------------
(* The process dies (above) and is started again: the store keeps what it  *)
(* committed, the process's vectors and requests are gone.                 *)

Restart ==
    /\ pc = "crashed"
    /\ pc' = "idle" /\ stage' = 1 /\ req' = NoCount /\ fetched' = NoTypes
    /\ UNCHANGED <<types, nodes, readStatus, calls>>

-----------------------------------------------------------------------------
(* The read-only helpers as the benchmark's workloads call them.  What     *)
(* they copy into the caller's vector is the store's table; the model     *)
(* keeps the Status they return.  An unknown specification makes           *)
(* GetExistingTypes return Unimplemented but GetExistingNodes LOG(FATAL).  *)

GetExistingTypes(s) ==
    /\ pc = "idle"
    /\ \/ s \in KindSet /\ readStatus' \in {"ok", "error"}
       \/ s \notin KindSet /\ readStatus' = "unimplemented"
    /\ UNCHANGED <<types, nodes, pc, stage, req, fetched, calls>>

GetExistingNodes(s) ==
    /\ pc = "idle"
    /\ \/ s \in KindSet /\ readStatus' \in {"ok", "error"} /\ UNCHANGED pc
       \/ s \notin KindSet /\ pc' = "crashed" /\ UNCHANGED readStatus
    /\ UNCHANGED <<types, nodes, stage, req, fetched, calls>>

Next ==
    \/ \E n \in Counts : InsertTypesInDb(n) \/ CallInsertNodesInDb(n)
    \/ FetchTypes
    \/ PutNodes
    \/ Restart
    \/ \E s \in Specs : GetExistingTypes(s) \/ GetExistingNodes(s)

Spec == Init /\ [][Next]_vars

-----------------------------------------------------------------------------
(* Properties.                                                             *)

TypeIds == 1..(3 * MaxCount * MaxCalls)
NodeRecords == [type : TypeIds, call : 1..MaxCalls, i : 0..(MaxCount - 1)]
CallRecords == [op : {"types", "nodes"}, req : Counts,
                fetched : [KindSet -> Seq(TypeIds)],
                result : {"running", "ok", "error", "crashed"}]

TypeOK ==
    /\ types \in [KindSet -> Seq(TypeIds)]
    /\ nodes \in [KindSet -> SUBSET NodeRecords]
    /\ pc \in {"idle", "fetch", "put", "crashed"}
    /\ stage \in 1..3
    /\ req \in Counts
    /\ fetched \in [KindSet -> Seq(TypeIds)]
    /\ readStatus \in {"none", "ok", "error", "unimplemented"}
    /\ calls \in Seq(CallRecords)

\* The nodes of kind k that the c-th call inserted.
CallNodes(c, k) == {n \in nodes[k] : n.call = c}

\* Every node in the store has a type of its own kind: the existing types
\* InsertNodesInDb fetches for a kind are the ones its loop for that kind
\* indexes, whatever failed, crashed or restarted before.
NodesTypedOwnKind ==
    \A k \in KindSet : \A n \in nodes[k] : n.type \in Range(types[k])

\* What an InsertNodesInDb call leaves in the store, whether it returned OK,
\* an error or died: for some j, all requested nodes of the first j kinds
\* in the order artifacts, executions, contexts and none of the others; an
\* OK return means all three.  A failed PutExecutions or PutContexts does
\* not undo the earlier puts.
InsertedPrefix ==
    \A c \in DOMAIN calls : calls[c].op = "nodes" =>
        \E j \in 0..3 :
            /\ \A m \in 1..3 :
                 Cardinality(CallNodes(c, Kinds[m]))
                    = IF m <= j THEN calls[c].req[Kinds[m]] ELSE 0
            /\ calls[c].result = "ok" => j = 3

\* The i % size type index spreads a call's nodes of a kind round-robin
\* over the types that existed when it fetched them: the numbers of nodes
\* two such types received differ by at most one.
TypesRoundRobin ==
    \A c \in DOMAIN calls : \A k \in KindSet :
        \A t1, t2 \in Range(calls[c].fetched[k]) :
            Cardinality({n \in CallNodes(c, k) : n.type = t1})
                <= Cardinality({n \in CallNodes(c, k) : n.type = t2}) + 1

\* util.cc returns a tensorflow::Status from every helper ("Returns detailed
\* error if query executions failed"): an insert call never ends with the
\* process dead.
InsertReturnsStatus ==
    \A c \in DOMAIN calls : calls[c].result # "crashed"

=============================================================================
