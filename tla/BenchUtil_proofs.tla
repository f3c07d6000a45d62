--------------------------- MODULE BenchUtil_proofs ---------------------------
(***************************************************************************)
(* Proofs about BenchUtil for every MaxCount and MaxCalls: whatever store  *)
(* calls fail and however often the process dies, every node in the store *)
(* has a type of its own kind, and every InsertNodesInDb call leaves a     *)
(* prefix of its request in the store.                                     *)
(***************************************************************************)
EXTENDS BenchUtil, SequenceTheorems, FiniteSetTheorems, TLAPS

\* The types fetched for a kind are types of that kind in the store: the
\* store only gains types, and a fetch copies the store's list.
FetchedExisting == \A k \in KindSet : Range(fetched[k]) \subseteq Range(types[k])

\* The shape of the state the proof needs.
Shape ==
    /\ types \in [KindSet -> Seq(Nat)]
    /\ fetched \in [KindSet -> Seq(Nat)]
    /\ DOMAIN nodes = KindSet
    /\ stage \in 1..3
    /\ req \in Counts

\* The inductive invariant.
OwnKindInv == Shape /\ FetchedExisting /\ NodesTypedOwnKind

\* InsertNodesInDb is between its call and its return.
Running == pc \in {"fetch", "put"}

\* The c-th call has put all of its request for the first j kinds and
\* nothing for the others.
PrefixDone(c, j) ==
    \A m \in 1..3 : Cardinality(CallNodes(c, Kinds[m]))
                      = IF m <= j THEN calls[c].req[Kinds[m]] ELSE 0

\* The shape of the call history.
CallShape == [op : {"types", "nodes"}, req : Counts, fetched : [KindSet -> Seq(Nat)],
              result : {"running", "ok", "error", "crashed"}]

\* Node sets are finite and every node names a call of the history.
NodesOfCalls ==
    \A k \in KindSet : /\ IsFiniteSet(nodes[k])
                       /\ \A x \in nodes[k] : x.call \in 1..Len(calls)

\* The running InsertNodesInDb is the last call of the history; its
\* request is req, and it has put the kinds before stage.
RunningCall ==
    Running => /\ Len(calls) > 0
               /\ calls[Len(calls)].op = "nodes"
               /\ calls[Len(calls)].req = req
               /\ calls[Len(calls)].result = "running"
               /\ PrefixDone(Len(calls), IF pc = "put" THEN stage - 1 ELSE 0)

\* Every other InsertNodesInDb call satisfies InsertedPrefix's clause.
PastCalls ==
    \A c \in DOMAIN calls :
        calls[c].op = "nodes" /\ ~(Running /\ c = Len(calls)) =>
            \E j \in 0..3 : PrefixDone(c, j) /\ (calls[c].result = "ok" => j = 3)

\* The strengthening of InsertedPrefix, on top of OwnKindInv.
PrefixInv == calls \in Seq(CallShape) /\ NodesOfCalls /\ RunningCall /\ PastCalls

\* At most MaxCalls insert calls, and each PutTypes adds at most MaxCount
\* types.
CountBounds == Len(calls) <= MaxCalls /\ TypeCount <= MaxCount * Len(calls)

\* Every type id in the store and in a call's fetched lists is one that
\* PutTypes handed out.
IdsIssued ==
    /\ \A k \in KindSet : Range(types[k]) \subseteq 1..TypeCount
    /\ \A c \in DOMAIN calls : \A k \in KindSet :
          Range(calls[c].fetched[k]) \subseteq 1..TypeCount

\* Nodes are records whose loop index is below MaxCount; the process's
\* control state and the last read's Status take their enumerated values.
NodeShape == nodes \in [KindSet -> SUBSET [type : Nat, call : Nat, i : 0..MaxCount - 1]]
Control == /\ pc \in {"idle", "fetch", "put", "crashed"}
           /\ readStatus \in {"none", "ok", "error", "unimplemented"}

\* The bounds TypeOK rests on, and the strengthening of TypeOK.
BoundsInv == CountBounds /\ IdsIssued /\ NodeShape /\ Control
TypeInv == OwnKindInv /\ PrefixInv /\ BoundsInv

-----------------------------------------------------------------------------
(* Facts about the kinds and about sequences.                              *)

LEMMA KindSetDef == KindSet = {"Artifact", "Execution", "Context"}
BY DEF KindSet, Kinds

LEMMA KindsInKindSet == \A j \in 1..3 : Kinds[j] \in KindSet
BY DEF KindSet, Kinds

LEMMA FetchKindIdentity == \A k \in KindSet : FetchKind[k] = k
BY KindSetDef DEF FetchKind

\* A function on 1..m is a sequence.
LEMMA FunctionIsSeq ==
    ASSUME NEW S, NEW m \in Nat, NEW f \in [1..m -> S]
    PROVE  f \in Seq(S)
BY SeqDef

\* The remainder of a division by a positive number, plus one, is an index
\* of a sequence of that length.
LEMMA ModRange ==
    ASSUME NEW x \in Nat, NEW y \in Nat, y > 0
    PROVE  (x % y) + 1 \in 1..y
OBVIOUS

\* The empty request is a request.
LEMMA NoCountInCounts == NoCount \in Counts
BY CountAssumption, KindSetDef DEF NoCount, Counts

-----------------------------------------------------------------------------
(* One lemma per action.                                                   *)

LEMMA InitOwnKind == Init => OwnKindInv
<1> SUFFICES ASSUME Init PROVE OwnKindInv
  OBVIOUS
<1>1. NoCount \in Counts
  BY NoCountInCounts
<1>2. QED
  BY <1>1 DEF Init, OwnKindInv, Shape, FetchedExisting, NodesTypedOwnKind, NoTypes, Range

LEMMA InsertTypesOwnKind ==
    ASSUME OwnKindInv, NEW n \in Counts, InsertTypesInDb(n)
    PROVE  OwnKindInv'
<1> DEFINE off == [k \in KindSet |->
                    IF k = "Artifact" THEN TypeCount
                    ELSE IF k = "Execution" THEN TypeCount + n["Artifact"]
                    ELSE TypeCount + n["Artifact"] + n["Execution"]]
           put == [k \in KindSet |-> types[k] \o [j \in 1..n[k] |-> off[k] + j]]
<1>1. types \in [KindSet -> Seq(Nat)] /\ n \in [KindSet -> 0..MaxCount]
  BY DEF OwnKindInv, Shape, Counts
<1>2. TypeCount \in Nat
  BY <1>1, KindSetDef DEF TypeCount
<1>3. \A k \in KindSet : off[k] \in Nat
  <2> SUFFICES ASSUME NEW k \in KindSet PROVE off[k] \in Nat
    OBVIOUS
  <2>1. n["Artifact"] \in Nat /\ n["Execution"] \in Nat
    BY <1>1, CountAssumption, KindSetDef
  <2>2. QED
    BY <1>2, <2>1
<1>4. \A k \in KindSet : [j \in 1..n[k] |-> off[k] + j] \in Seq(Nat)
  <2> SUFFICES ASSUME NEW k \in KindSet PROVE [j \in 1..n[k] |-> off[k] + j] \in Seq(Nat)
    OBVIOUS
  <2>1. n[k] \in 0..MaxCount
    BY <1>1
  <2>2. n[k] \in Nat
    BY <2>1, CountAssumption
  <2>3. off[k] \in Nat
    BY <1>3
  <2>4. [j \in 1..n[k] |-> off[k] + j] \in [1..n[k] -> Nat]
    BY <2>2, <2>3
  <2>5. QED
    BY <2>2, <2>4, FunctionIsSeq
<1>5. \A k \in KindSet : put[k] \in Seq(Nat) /\ Range(types[k]) \subseteq Range(put[k])
  <2> SUFFICES ASSUME NEW k \in KindSet
               PROVE  put[k] \in Seq(Nat) /\ Range(types[k]) \subseteq Range(put[k])
    OBVIOUS
  <2> DEFINE add == [j \in 1..n[k] |-> off[k] + j]
  <2>1. types[k] \in Seq(Nat) /\ add \in Seq(Nat) /\ put[k] = types[k] \o add
    BY <1>1, <1>4
  <2>2. put[k] \in Seq(Nat)
    BY <2>1, ConcatProperties
  <2>3. Range(put[k]) = Range(types[k]) \cup Range(add)
    BY <2>1, RangeConcatenation
  <2>4. QED
    BY <2>2, <2>3
<1>6. types' = put \/ types' = types
  BY DEF InsertTypesInDb
<1>7. /\ types' \in [KindSet -> Seq(Nat)]
      /\ \A k \in KindSet : Range(types[k]) \subseteq Range(types'[k])
  BY <1>1, <1>5, <1>6
<1>8. UNCHANGED <<nodes, stage, req, fetched>>
  BY DEF InsertTypesInDb
<1>9. QED
  BY <1>7, <1>8 DEF OwnKindInv, Shape, FetchedExisting, NodesTypedOwnKind

LEMMA CallInsertNodesOwnKind ==
    ASSUME OwnKindInv, NEW n \in Counts, CallInsertNodesInDb(n)
    PROVE  OwnKindInv'
BY DEF CallInsertNodesInDb, OwnKindInv, Shape, FetchedExisting, NodesTypedOwnKind,
       NoTypes, Range

LEMMA FetchTypesOwnKind ==
    ASSUME OwnKindInv, FetchTypes
    PROVE  OwnKindInv'
<1> DEFINE k == Kinds[stage]
<1>1. k \in KindSet /\ FetchKind[k] = k
  BY KindsInKindSet, FetchKindIdentity DEF OwnKindInv, Shape
<1>2. CASE fetched' = [fetched EXCEPT ![k] = @ \o types[FetchKind[k]]]
           /\ stage' = IF stage = 3 THEN 1 ELSE stage + 1
  <2>1. fetched[k] \in Seq(Nat) /\ types[k] \in Seq(Nat)
    BY <1>1 DEF OwnKindInv, Shape
  <2>2. fetched'[k] = fetched[k] \o types[k]
    BY <1>1, <1>2 DEF OwnKindInv, Shape
  <2>3. fetched'[k] \in Seq(Nat) /\ Range(fetched'[k]) \subseteq Range(types[k])
    <3>1. fetched'[k] \in Seq(Nat)
      BY <2>1, <2>2
    <3>2. Range(fetched'[k]) = Range(fetched[k]) \cup Range(types[k])
      BY <2>1, <2>2, RangeConcatenation
    <3>3. Range(fetched[k]) \subseteq Range(types[k])
      BY <1>1 DEF OwnKindInv, FetchedExisting
    <3>4. QED
      BY <3>1, <3>2, <3>3
  <2>4. fetched' \in [KindSet -> Seq(Nat)]
    BY <1>1, <1>2, <2>3 DEF OwnKindInv, Shape
  <2>5. \A j \in KindSet : Range(fetched'[j]) \subseteq Range(types[j])
    BY <1>1, <1>2, <2>3 DEF OwnKindInv, FetchedExisting, Shape
  <2>6. stage' \in 1..3
    BY <1>2 DEF OwnKindInv, Shape
  <2>7. QED
    BY <2>4, <2>5, <2>6 DEF FetchTypes, OwnKindInv, Shape, FetchedExisting,
                             NodesTypedOwnKind
<1>3. CASE UNCHANGED <<fetched, stage>>
  BY <1>3 DEF FetchTypes, OwnKindInv, Shape, FetchedExisting, NodesTypedOwnKind
<1>4. QED
  BY <1>2, <1>3 DEF FetchTypes

\* The request built for a kind with nodes asked for and types fetched
\* draws its types from the fetched list.
LEMMA NodesRequestTypes ==
    ASSUME OwnKindInv, NEW k \in KindSet, ~(req[k] > 0 /\ fetched[k] = <<>>)
    PROVE  \A x \in NodesRequest(k) : x.type \in Range(fetched[k])
<1> SUFFICES ASSUME NEW i \in 0..req[k] - 1
             PROVE  fetched[k][TypeIndex(i, Len(fetched[k])) + 1] \in Range(fetched[k])
  BY DEF NodesRequest
<1>1. fetched[k] \in Seq(Nat) /\ req[k] \in Nat /\ Len(fetched[k]) \in Nat
  BY CountAssumption, LenProperties DEF OwnKindInv, Shape, Counts
<1>2. Len(fetched[k]) > 0
  BY <1>1, EmptySeq
<1>3. TypeIndex(i, Len(fetched[k])) + 1 \in 1..Len(fetched[k])
  <2>1. i \in Nat
    BY <1>1
  <2>2. (i % Len(fetched[k])) + 1 \in 1..Len(fetched[k])
    BY <1>1, <1>2, <2>1, ModRange
  <2>3. QED
    BY <2>2 DEF TypeIndex
<1>4. QED
  BY <1>1, <1>3 DEF Range

LEMMA PutNodesOwnKind ==
    ASSUME OwnKindInv, PutNodes
    PROVE  OwnKindInv'
<1> DEFINE k == Kinds[stage]
<1>1. k \in KindSet
  BY KindsInKindSet DEF OwnKindInv, Shape
<1>2. CASE /\ ~(req[k] > 0 /\ fetched[k] = <<>>)
           /\ nodes' = [nodes EXCEPT ![k] = @ \cup NodesRequest(k)]
           /\ NextStage
  <2>1. \A x \in NodesRequest(k) : x.type \in Range(types[k])
    BY <1>1, <1>2, NodesRequestTypes DEF OwnKindInv, FetchedExisting
  <2>2. NodesTypedOwnKind'
    BY <1>1, <1>2, <2>1 DEF PutNodes, OwnKindInv, Shape, NodesTypedOwnKind
  <2>3. stage' \in 1..3
    BY <1>2 DEF NextStage, OwnKindInv, Shape
  <2>4. QED
    BY <1>1, <1>2, <2>2, <2>3 DEF PutNodes, OwnKindInv, Shape, FetchedExisting
<1>3. CASE UNCHANGED <<nodes, stage>>
  BY <1>3 DEF PutNodes, OwnKindInv, Shape, FetchedExisting, NodesTypedOwnKind
<1>4. QED
  BY <1>2, <1>3 DEF PutNodes

LEMMA NextOwnKind == OwnKindInv /\ [Next]_vars => OwnKindInv'
<1> SUFFICES ASSUME OwnKindInv, [Next]_vars PROVE OwnKindInv'
  OBVIOUS
<1>1. CASE \E n \in Counts : InsertTypesInDb(n)
  BY <1>1, InsertTypesOwnKind
<1>2. CASE \E n \in Counts : CallInsertNodesInDb(n)
  BY <1>2, CallInsertNodesOwnKind
<1>3. CASE FetchTypes
  BY <1>3, FetchTypesOwnKind
<1>4. CASE PutNodes
  BY <1>4, PutNodesOwnKind
<1>5. CASE Restart
  BY <1>5, NoCountInCounts DEF Restart, OwnKindInv, Shape, FetchedExisting,
                                NodesTypedOwnKind, NoTypes, Range
<1>6. CASE \E s \in Specs : GetExistingTypes(s) \/ GetExistingNodes(s)
  BY <1>6 DEF GetExistingTypes, GetExistingNodes, OwnKindInv, Shape, FetchedExisting,
              NodesTypedOwnKind
<1>7. CASE UNCHANGED vars
  BY <1>7 DEF vars, OwnKindInv, Shape, FetchedExisting, NodesTypedOwnKind
<1>8. QED
  BY <1>1, <1>2, <1>3, <1>4, <1>5, <1>6, <1>7 DEF Next

-----------------------------------------------------------------------------
(* Facts about the nodes one put adds.                                     *)

\* The request for kind k has req[k] nodes, one per loop index i, all
\* of the current call.
LEMMA RequestCard ==
    ASSUME NEW k \in KindSet, req[k] \in Nat
    PROVE  /\ IsFiniteSet(NodesRequest(k))
           /\ Cardinality(NodesRequest(k)) = req[k]
           /\ \A x \in NodesRequest(k) : x.call = Current
<1> DEFINE S == 0..req[k] - 1
           rec(i) == [type |-> fetched[k][TypeIndex(i, Len(fetched[k])) + 1],
                      call |-> Current, i |-> i]
           f == [i \in S |-> rec(i)]
<1>1. NodesRequest(k) = {rec(i) : i \in S}
  BY DEF NodesRequest
<1>2. f \in Bijection(S, NodesRequest(k))
  <2>1. f \in [S -> NodesRequest(k)]
    BY <1>1
  <2>2. IsInjective(f)
    BY DEF IsInjective
  <2>3. \A t \in NodesRequest(k) : \E i \in S : f[i] = t
    BY <1>1
  <2>4. QED
    BY <2>1, <2>2, <2>3 DEF Bijection, Injection, Surjection
<1>3. IsFiniteSet(S) /\ Cardinality(S) = req[k]
  BY FS_Interval
<1>4. IsFiniteSet(NodesRequest(k)) /\ Cardinality(NodesRequest(k)) = Cardinality(S)
  BY <1>2, <1>3, FS_Bijection DEF ExistsBijection
<1>5. QED
  BY <1>1, <1>3, <1>4

\* A finite set of nodes with no element has cardinality zero, and back.
LEMMA CallNodesFinite ==
    ASSUME NEW k, IsFiniteSet(nodes[k]), NEW c
    PROVE  /\ IsFiniteSet(CallNodes(c, k))
           /\ Cardinality(CallNodes(c, k)) \in Nat
           /\ Cardinality(CallNodes(c, k)) = 0 <=> CallNodes(c, k) = {}
<1>1. IsFiniteSet(CallNodes(c, k))
  BY FS_Subset DEF CallNodes
<1>2. QED
  BY <1>1, FS_EmptySet, FS_CardinalityType

\* The kinds are pairwise distinct.
LEMMA KindsDistinct == \A m, p \in 1..3 : Kinds[m] = Kinds[p] => m = p
BY DEF Kinds

\* A call whose record and nodes a step leaves alone keeps its prefix.
LEMMA PrefixDoneFrame ==
    ASSUME NEW c, NEW j,
           \A m \in 1..3 : CallNodes(c, Kinds[m])' = CallNodes(c, Kinds[m]),
           calls'[c].req = calls[c].req
    PROVE  PrefixDone(c, j)' = PrefixDone(c, j)
BY DEF PrefixDone

\* Setting the result of the last call keeps the history's shape and
\* every other record.
LEMMA SetResultFacts ==
    ASSUME calls \in Seq(CallShape), Len(calls) > 0,
           NEW r \in {"running", "ok", "error", "crashed"}, SetResult(r)
    PROVE  /\ calls' \in Seq(CallShape)
           /\ Len(calls') = Len(calls)
           /\ \A c \in 1..Len(calls) : c # Len(calls) => calls'[c] = calls[c]
           /\ calls'[Len(calls)].op = calls[Len(calls)].op
           /\ calls'[Len(calls)].req = calls[Len(calls)].req
           /\ calls'[Len(calls)].fetched = calls[Len(calls)].fetched
           /\ calls'[Len(calls)].result = r
<1>1. calls[Len(calls)] \in CallShape
  BY ElementOfSeq
<1>2. [calls[Len(calls)] EXCEPT !.result = r] \in CallShape
  BY <1>1 DEF CallShape
<1>3. calls' = [calls EXCEPT ![Len(calls)] = [calls[Len(calls)] EXCEPT !.result = r]]
  BY DEF SetResult, Current
<1>4. Len(calls) \in Nat /\ DOMAIN calls = 1..Len(calls) /\ Len(calls) \in 1..Len(calls)
  BY LenProperties
<1>5. calls' \in Seq(CallShape) /\ Len(calls') = Len(calls)
  BY <1>2, <1>3, <1>4, ExceptSeq
<1>6. \A c \in 1..Len(calls) : c # Len(calls) => calls'[c] = calls[c]
  BY <1>3, <1>4
<1>7. calls'[Len(calls)] = [calls[Len(calls)] EXCEPT !.result = r]
  BY <1>3, <1>4
<1>8. QED
  BY <1>1, <1>5, <1>6, <1>7 DEF CallShape

\* Appending a call record to the history.
LEMMA AppendFacts ==
    ASSUME calls \in Seq(CallShape), NEW e \in CallShape, calls' = Append(calls, e)
    PROVE  /\ calls' \in Seq(CallShape)
           /\ Len(calls) \in Nat
           /\ Len(calls') = Len(calls) + 1
           /\ DOMAIN calls' = 1..Len(calls) + 1
           /\ \A c \in 1..Len(calls) : calls'[c] = calls[c]
           /\ calls'[Len(calls) + 1] = e
<1>1. Len(calls) \in Nat
  BY LenProperties
<1>2. QED
  BY <1>1, AppendProperties, LenProperties

\* The empty type lists are a fetched value of a call record.
LEMMA NoTypesShape == NoTypes \in [KindSet -> Seq(Nat)]
BY EmptySeq DEF NoTypes

\* A past call that a step leaves alone keeps its clause of PastCalls.
LEMMA PastKept ==
    ASSUME PastCalls, NEW c \in DOMAIN calls, calls[c].op = "nodes",
           ~(Running /\ c = Len(calls)),
           calls'[c] = calls[c],
           \A m \in 1..3 : CallNodes(c, Kinds[m])' = CallNodes(c, Kinds[m])
    PROVE  \E j \in 0..3 : PrefixDone(c, j)' /\ (calls'[c].result = "ok" => j = 3)
<1>1. PICK j \in 0..3 : PrefixDone(c, j) /\ (calls[c].result = "ok" => j = 3)
  BY DEF PastCalls
<1>2. PrefixDone(c, j)'
  BY <1>1, PrefixDoneFrame
<1>3. QED
  BY <1>1, <1>2

\* A step that changes neither the nodes, the history nor whether the
\* process is inside InsertNodesInDb keeps PrefixInv: Restart and the reads.
LEMMA IdleStepPrefix ==
    ASSUME PrefixInv, ~Running, ~Running', UNCHANGED <<nodes, calls>>
    PROVE  PrefixInv'
<1>1. \A c : \A m \in 1..3 : CallNodes(c, Kinds[m])' = CallNodes(c, Kinds[m])
  BY DEF CallNodes
<1>2. PastCalls'
  <2> SUFFICES ASSUME NEW c \in DOMAIN calls', calls'[c].op = "nodes"
               PROVE  \E j \in 0..3 : PrefixDone(c, j)' /\ (calls'[c].result = "ok" => j = 3)
    BY DEF PastCalls
  <2>1. PastCalls
    BY DEF PrefixInv
  <2>2. QED
    BY <1>1, <2>1, PastKept
<1>3. QED
  BY <1>2 DEF PrefixInv, NodesOfCalls, RunningCall

LEMMA InsertTypesPrefix ==
    ASSUME PrefixInv, NEW n \in Counts, InsertTypesInDb(n)
    PROVE  PrefixInv'
<1>1. PICK ok \in BOOLEAN :
        calls' = Append(calls, [op |-> "types", req |-> n, fetched |-> NoTypes,
                                result |-> IF ok THEN "ok" ELSE "error"])
  BY DEF InsertTypesInDb
<1> DEFINE e == [op |-> "types", req |-> n, fetched |-> NoTypes,
                 result |-> IF ok THEN "ok" ELSE "error"]
<1>2. e \in CallShape
  BY NoTypesShape DEF CallShape
<1>3. /\ calls' \in Seq(CallShape)
      /\ Len(calls) \in Nat
      /\ Len(calls') = Len(calls) + 1
      /\ DOMAIN calls' = 1..Len(calls) + 1
      /\ \A c \in 1..Len(calls) : calls'[c] = calls[c]
      /\ calls'[Len(calls) + 1] = e
  BY <1>1, <1>2, AppendFacts DEF PrefixInv
<1>4. UNCHANGED <<nodes, pc>> /\ ~Running /\ ~Running'
  BY DEF InsertTypesInDb, Running
<1>5. \A c : \A m \in 1..3 : CallNodes(c, Kinds[m])' = CallNodes(c, Kinds[m])
  BY <1>4 DEF CallNodes
<1>6. NodesOfCalls'
  BY <1>3, <1>4 DEF PrefixInv, NodesOfCalls
<1>7. PastCalls'
  <2> SUFFICES ASSUME NEW c \in DOMAIN calls', calls'[c].op = "nodes"
               PROVE  \E j \in 0..3 : PrefixDone(c, j)' /\ (calls'[c].result = "ok" => j = 3)
    BY DEF PastCalls
  <2>1. c \in 1..Len(calls)
    BY <1>3
  <2>2. calls[c].op = "nodes" /\ calls'[c] = calls[c] /\ c \in DOMAIN calls
    BY <1>3, <2>1, LenProperties DEF PrefixInv
  <2>3. QED
    BY <1>4, <1>5, <2>2, PastKept DEF PrefixInv
<1>8. QED
  BY <1>3, <1>4, <1>6, <1>7 DEF PrefixInv, RunningCall

LEMMA CallInsertNodesPrefix ==
    ASSUME PrefixInv, NEW n \in Counts, CallInsertNodesInDb(n)
    PROVE  PrefixInv'
<1> DEFINE e == [op |-> "nodes", req |-> n, fetched |-> NoTypes, result |-> "running"]
<1>1. e \in CallShape
  BY NoTypesShape DEF CallShape
<1>2. /\ calls' \in Seq(CallShape)
      /\ Len(calls) \in Nat
      /\ Len(calls') = Len(calls) + 1
      /\ DOMAIN calls' = 1..Len(calls) + 1
      /\ \A c \in 1..Len(calls) : calls'[c] = calls[c]
      /\ calls'[Len(calls) + 1] = e
  BY <1>1, AppendFacts DEF PrefixInv, CallInsertNodesInDb
<1>3. UNCHANGED nodes /\ pc' = "fetch" /\ req' = n /\ ~Running /\ Running'
  BY DEF CallInsertNodesInDb, Running
<1>4. \A c : \A m \in 1..3 : CallNodes(c, Kinds[m])' = CallNodes(c, Kinds[m])
  BY <1>3 DEF CallNodes
<1>5. NodesOfCalls'
  BY <1>2, <1>3 DEF PrefixInv, NodesOfCalls
<1>6. PICK L \in Nat : L = Len(calls) + 1 /\ L = Len(calls')
  BY <1>2
<1>7. PrefixDone(L, 0)'
  <2>1. \A m \in 1..3 : CallNodes(L, Kinds[m]) = {}
    BY <1>2, <1>6, KindsInKindSet DEF PrefixInv, NodesOfCalls, CallNodes
  <2>2. \A m \in 1..3 : Cardinality(CallNodes(L, Kinds[m])') = 0
    BY <1>4, <2>1, FS_EmptySet
  <2>3. QED
    BY <2>2 DEF PrefixDone
<1>8. RunningCall'
  <2>1. calls'[L] = e /\ L > 0 /\ pc' # "put"
    BY <1>2, <1>3, <1>6
  <2>2. QED
    BY <1>3, <1>6, <1>7, <2>1 DEF RunningCall
<1>9. PastCalls'
  <2> SUFFICES ASSUME NEW c \in DOMAIN calls', calls'[c].op = "nodes",
                      ~(Running' /\ c = Len(calls'))
               PROVE  \E j \in 0..3 : PrefixDone(c, j)' /\ (calls'[c].result = "ok" => j = 3)
    BY DEF PastCalls
  <2>1. c \in 1..Len(calls)
    BY <1>2, <1>3
  <2>2. calls[c].op = "nodes" /\ calls'[c] = calls[c] /\ c \in DOMAIN calls
    BY <1>2, <2>1, LenProperties DEF PrefixInv
  <2>3. QED
    BY <1>3, <1>4, <2>2, PastKept DEF PrefixInv
<1>10. QED
  BY <1>2, <1>5, <1>8, <1>9 DEF PrefixInv

\* Recording what the last call fetched keeps the history's shape and
\* every other record.
LEMMA SetFetchedFacts ==
    ASSUME calls \in Seq(CallShape), Len(calls) > 0,
           NEW f \in [KindSet -> Seq(Nat)],
           calls' = [calls EXCEPT ![Len(calls)].fetched = f]
    PROVE  /\ calls' \in Seq(CallShape)
           /\ Len(calls') = Len(calls)
           /\ \A c \in 1..Len(calls) : c # Len(calls) => calls'[c] = calls[c]
           /\ calls'[Len(calls)].op = calls[Len(calls)].op
           /\ calls'[Len(calls)].req = calls[Len(calls)].req
           /\ calls'[Len(calls)].fetched = f
           /\ calls'[Len(calls)].result = calls[Len(calls)].result
<1>1. calls[Len(calls)] \in CallShape
  BY ElementOfSeq
<1>2. [calls[Len(calls)] EXCEPT !.fetched = f] \in CallShape
  BY <1>1 DEF CallShape
<1>3. calls' = [calls EXCEPT ![Len(calls)] = [calls[Len(calls)] EXCEPT !.fetched = f]]
  OBVIOUS
<1>4. Len(calls) \in Nat /\ DOMAIN calls = 1..Len(calls) /\ Len(calls) \in 1..Len(calls)
  BY LenProperties
<1>5. calls' \in Seq(CallShape) /\ Len(calls') = Len(calls)
  BY <1>2, <1>3, <1>4, ExceptSeq
<1>6. \A c \in 1..Len(calls) : c # Len(calls) => calls'[c] = calls[c]
  BY <1>3, <1>4
<1>7. calls'[Len(calls)] = [calls[Len(calls)] EXCEPT !.fetched = f]
  BY <1>3, <1>4
<1>8. QED
  BY <1>1, <1>5, <1>6, <1>7 DEF CallShape

LEMMA FetchTypesPrefix ==
    ASSUME OwnKindInv', PrefixInv, FetchTypes
    PROVE  PrefixInv'
<1>1. PICK L \in Nat : L = Len(calls) /\ L > 0
  BY LenProperties DEF FetchTypes, PrefixInv, RunningCall, Running
<1>2. /\ calls[L].op = "nodes" /\ calls[L].result = "running" /\ calls[L].req = req
      /\ PrefixDone(L, 0)
      /\ Running
  BY <1>1 DEF FetchTypes, PrefixInv, RunningCall, Running
<1>3. UNCHANGED <<nodes, req>>
  BY DEF FetchTypes
<1>4. \A c : \A m \in 1..3 : CallNodes(c, Kinds[m])' = CallNodes(c, Kinds[m])
  BY <1>3 DEF CallNodes
<1>5. NodesOfCalls'
  <2>1. Len(calls') = Len(calls)
    <3>1. CASE calls' = [calls EXCEPT ![Current].fetched = fetched']
      BY <3>1, LenProperties DEF PrefixInv, Current
    <3>2. CASE SetResult("error")
      BY <3>2, <1>1, SetResultFacts DEF PrefixInv
    <3>3. QED
      BY <3>1, <3>2 DEF FetchTypes
  <2>2. QED
    BY <1>3, <2>1 DEF PrefixInv, NodesOfCalls
<1>6. CASE /\ calls' = [calls EXCEPT ![Current].fetched = fetched']
           /\ pc' = IF stage = 3 THEN "put" ELSE "fetch"
           /\ stage' = IF stage = 3 THEN 1 ELSE stage + 1
  <2>1. fetched' \in [KindSet -> Seq(Nat)]
    BY DEF OwnKindInv, Shape
  <2>2. /\ calls' \in Seq(CallShape)
        /\ Len(calls') = L
        /\ \A c \in 1..L : c # L => calls'[c] = calls[c]
        /\ calls'[L].op = calls[L].op
        /\ calls'[L].req = calls[L].req
        /\ calls'[L].result = calls[L].result
    BY <1>1, <1>6, <2>1, SetFetchedFacts DEF PrefixInv, Current
  <2>3. Running' /\ (IF pc' = "put" THEN stage' - 1 ELSE 0) = 0
    BY <1>6 DEF Running
  <2>4. PrefixDone(L, 0)'
    BY <1>2, <1>4, <2>2, PrefixDoneFrame
  <2>5. RunningCall'
    <3>1. PrefixDone(Len(calls), IF pc = "put" THEN stage - 1 ELSE 0)'
      BY <1>1, <2>2, <2>3, <2>4
    <3>2. QED
      BY <1>1, <1>2, <1>3, <2>2, <2>3, <3>1 DEF RunningCall
  <2>6. PastCalls'
    <3> SUFFICES ASSUME NEW c \in DOMAIN calls', calls'[c].op = "nodes",
                        ~(Running' /\ c = Len(calls'))
                 PROVE  \E j \in 0..3 : PrefixDone(c, j)' /\ (calls'[c].result = "ok" => j = 3)
      BY DEF PastCalls
    <3>1. c \in 1..L /\ c # L
      BY <2>2, <2>3, LenProperties
    <3>2. calls'[c] = calls[c] /\ calls[c].op = "nodes" /\ c \in DOMAIN calls
      BY <1>1, <2>2, <3>1, LenProperties DEF PrefixInv
    <3>3. QED
      BY <1>1, <1>4, <3>1, <3>2, PastKept DEF PrefixInv
  <2>7. QED
    BY <1>5, <2>2, <2>5, <2>6 DEF PrefixInv
<1>7. CASE pc' = "idle" /\ SetResult("error")
  <2>1. /\ calls' \in Seq(CallShape)
        /\ Len(calls') = L
        /\ \A c \in 1..L : c # L => calls'[c] = calls[c]
        /\ calls'[L].op = calls[L].op
        /\ calls'[L].req = calls[L].req
        /\ calls'[L].result = "error"
    BY <1>1, <1>7, SetResultFacts DEF PrefixInv
  <2>2. ~Running'
    BY <1>7 DEF Running
  <2>3. PastCalls'
    <3> SUFFICES ASSUME NEW c \in DOMAIN calls', calls'[c].op = "nodes"
                 PROVE  \E j \in 0..3 : PrefixDone(c, j)' /\ (calls'[c].result = "ok" => j = 3)
      BY DEF PastCalls
    <3>1. c \in 1..L
      BY <2>1, LenProperties
    <3>2. CASE c = L
      <4>1. PrefixDone(L, 0)'
        BY <1>2, <1>4, <2>1, PrefixDoneFrame
      <4>2. QED
        BY <2>1, <3>2, <4>1
    <3>3. CASE c # L
      <4>1. calls'[c] = calls[c] /\ calls[c].op = "nodes" /\ c \in DOMAIN calls
        BY <1>1, <2>1, <3>1, <3>3, LenProperties DEF PrefixInv
      <4>2. QED
        BY <1>1, <1>4, <3>3, <4>1, PastKept DEF PrefixInv
    <3>4. QED
      BY <3>2, <3>3
  <2>4. QED
    BY <1>5, <2>1, <2>2, <2>3 DEF PrefixInv, RunningCall
<1>8. QED
  BY <1>6, <1>7 DEF FetchTypes

\* A put that fails or kills the process leaves the call with the
\* prefix it had.
LEMMA PutFailsPrefix ==
    ASSUME PrefixInv, pc = "put", UNCHANGED nodes, pc' \in {"crashed", "idle"},
           NEW r \in {"crashed", "error"}, SetResult(r), stage \in 1..3
    PROVE  PrefixInv'
<1>1. PICK L \in Nat : L = Len(calls) /\ L > 0
  BY LenProperties DEF PrefixInv, RunningCall, Running
<1>2. PICK J \in 0..2 : J = stage - 1
  OBVIOUS
<1>9. calls[L].op = "nodes" /\ PrefixDone(L, J)
  BY <1>1, <1>2 DEF PrefixInv, RunningCall, Running
<1>3. \A c : \A m \in 1..3 : CallNodes(c, Kinds[m])' = CallNodes(c, Kinds[m])
  BY DEF CallNodes
<1>4. /\ calls' \in Seq(CallShape)
      /\ Len(calls') = L
      /\ \A c \in 1..L : c # L => calls'[c] = calls[c]
      /\ calls'[L].op = calls[L].op
      /\ calls'[L].req = calls[L].req
      /\ calls'[L].result = r
  BY <1>1, SetResultFacts DEF PrefixInv
<1>5. ~Running'
  BY DEF Running
<1>6. NodesOfCalls'
  BY <1>1, <1>4 DEF PrefixInv, NodesOfCalls
<1>7. PastCalls'
  <2> SUFFICES ASSUME NEW c \in DOMAIN calls', calls'[c].op = "nodes"
               PROVE  \E j \in 0..3 : PrefixDone(c, j)' /\ (calls'[c].result = "ok" => j = 3)
    BY DEF PastCalls
  <2>1. c \in 1..L
    BY <1>4, LenProperties
  <2>2. CASE c = L
    <3>1. PrefixDone(L, J)'
      BY <1>9, <1>3, <1>4, PrefixDoneFrame
    <3>2. QED
      BY <1>4, <2>2, <3>1
  <2>3. CASE c # L
    <3>1. calls'[c] = calls[c] /\ calls[c].op = "nodes" /\ c \in DOMAIN calls
      BY <1>1, <1>4, <2>1, <2>3, LenProperties DEF PrefixInv
    <3>2. QED
      BY <1>1, <1>3, <2>3, <3>1, PastKept DEF PrefixInv
  <2>4. QED
    BY <2>2, <2>3
<1>8. QED
  BY <1>4, <1>5, <1>6, <1>7 DEF PrefixInv, RunningCall

\* A successful put of kind Kinds[S] extends the call's prefix by that
\* kind: to the next stage, or to all three kinds and the OK return.
LEMMA PutSucceedsPrefix ==
    ASSUME OwnKindInv, PrefixInv, pc = "put", NEW S \in 1..3, S = stage,
           nodes' = [nodes EXCEPT ![Kinds[S]] = @ \cup NodesRequest(Kinds[S])],
           NextStage, UNCHANGED req
    PROVE  PrefixInv'
<1> DEFINE k == Kinds[S]
<1>1. PICK L \in Nat : L = Len(calls) /\ L > 0
  BY LenProperties DEF PrefixInv, RunningCall, Running
<1>2. /\ calls[L].op = "nodes" /\ calls[L].req = req /\ calls[L].result = "running"
      /\ PrefixDone(L, S - 1)
  BY <1>1 DEF PrefixInv, RunningCall, Running
<1>3. k \in KindSet /\ req[k] \in Nat /\ DOMAIN nodes = KindSet
  <2>1. k \in KindSet
    BY KindsInKindSet
  <2>2. req \in [KindSet -> 0..MaxCount] /\ DOMAIN nodes = KindSet
    BY DEF OwnKindInv, Shape, Counts
  <2>3. QED
    BY <2>1, <2>2
<1>4. /\ IsFiniteSet(NodesRequest(k))
      /\ Cardinality(NodesRequest(k)) = req[k]
      /\ \A x \in NodesRequest(k) : x.call = L
  BY <1>1, <1>3, RequestCard DEF Current
<1>5. CallNodes(L, k) = {}
  <2>1. Cardinality(CallNodes(L, k)) = 0
    BY <1>2 DEF PrefixDone
  <2>2. IsFiniteSet(nodes[k])
    BY <1>3 DEF PrefixInv, NodesOfCalls
  <2>3. QED
    BY <2>1, <2>2, CallNodesFinite
<1>6. /\ nodes'[k] = nodes[k] \cup NodesRequest(k)
      /\ \A k2 \in KindSet : k2 # k => nodes'[k2] = nodes[k2]
  BY <1>3
<1>7. CallNodes(L, k)' = NodesRequest(k)
  BY <1>4, <1>5, <1>6 DEF CallNodes
<1>8. \A c : \A m \in 1..3 : (c # L \/ m # S) =>
        CallNodes(c, Kinds[m])' = CallNodes(c, Kinds[m])
  BY <1>4, <1>6, KindsDistinct, KindsInKindSet DEF CallNodes
<1>9. /\ calls' \in Seq(CallShape)
      /\ Len(calls') = L
      /\ \A c \in 1..L : c # L => calls'[c] = calls[c]
      /\ calls'[L].op = "nodes"
      /\ calls'[L].req = req
  <2>1. CASE S = 3
    BY <1>1, <1>2, <2>1, SetResultFacts DEF NextStage, PrefixInv
  <2>2. CASE S # 3
    BY <1>1, <1>2, <2>2 DEF NextStage, PrefixInv
  <2>3. QED
    BY <2>1, <2>2
<1>10. PrefixDone(L, S)'
  <2> SUFFICES ASSUME NEW m \in 1..3
               PROVE  Cardinality(CallNodes(L, Kinds[m])')
                        = IF m <= S THEN calls'[L].req[Kinds[m]] ELSE 0
    BY DEF PrefixDone
  <2>1. CASE m = S
    BY <1>4, <1>7, <1>9, <2>1
  <2>2. CASE m # S
    <3>1. CallNodes(L, Kinds[m])' = CallNodes(L, Kinds[m])
      BY <1>8, <2>2
    <3>2. Cardinality(CallNodes(L, Kinds[m])) = IF m <= S - 1 THEN calls[L].req[Kinds[m]] ELSE 0
      BY <1>2 DEF PrefixDone
    <3>3. QED
      BY <1>2, <1>9, <2>2, <3>1, <3>2
  <2>3. QED
    BY <2>1, <2>2
<1>11. NodesOfCalls'
  <2> SUFFICES ASSUME NEW k2 \in KindSet
               PROVE  /\ IsFiniteSet(nodes'[k2])
                      /\ \A x \in nodes'[k2] : x.call \in 1..Len(calls')
    BY DEF NodesOfCalls
  <2>1. CASE k2 = k
    <3>1. IsFiniteSet(nodes[k]) /\ \A x \in nodes[k] : x.call \in 1..L
      BY <1>1, <1>3 DEF PrefixInv, NodesOfCalls
    <3>2. IsFiniteSet(nodes[k] \cup NodesRequest(k))
      BY <1>4, <3>1, FS_Union
    <3>5. IsFiniteSet(nodes'[k])
      BY <1>6, <3>2
    <3>3. \A x \in nodes'[k] : x.call \in 1..Len(calls')
      BY <1>1, <1>4, <1>6, <1>9, <3>1
    <3>4. QED
      BY <2>1, <3>5, <3>3
  <2>2. CASE k2 # k
    BY <1>1, <1>6, <1>9, <2>2 DEF PrefixInv, NodesOfCalls
  <2>3. QED
    BY <2>1, <2>2
<1>12. ASSUME NEW c \in DOMAIN calls', calls'[c].op = "nodes", c # L
       PROVE  \E j \in 0..3 : PrefixDone(c, j)' /\ (calls'[c].result = "ok" => j = 3)
  <2>1. c \in 1..L
    BY <1>9, LenProperties
  <2>2. calls'[c] = calls[c] /\ calls[c].op = "nodes" /\ c \in DOMAIN calls
    BY <1>1, <1>9, <1>12, <2>1, LenProperties DEF PrefixInv
  <2>3. \A m \in 1..3 : CallNodes(c, Kinds[m])' = CallNodes(c, Kinds[m])
    BY <1>8, <1>12
  <2>4. QED
    BY <1>1, <1>12, <2>2, <2>3, PastKept DEF PrefixInv
<1>13. CASE S = 3
  <2>1. ~Running' /\ calls'[L].result = "ok"
    BY <1>1, <1>13, SetResultFacts DEF NextStage, Running, PrefixInv
  <2>2. PastCalls'
    <3> SUFFICES ASSUME NEW c \in DOMAIN calls', calls'[c].op = "nodes"
                 PROVE  \E j \in 0..3 : PrefixDone(c, j)' /\ (calls'[c].result = "ok" => j = 3)
      BY DEF PastCalls
    <3>1. CASE c = L
      BY <1>10, <1>13, <3>1
    <3>2. CASE c # L
      BY <1>12, <3>2
    <3>3. QED
      BY <3>1, <3>2
  <2>3. QED
    BY <1>9, <1>11, <2>1, <2>2 DEF PrefixInv, RunningCall
<1>14. CASE S # 3
  <2>1. calls' = calls /\ pc' = "put" /\ stage' - 1 = S /\ Running'
    BY <1>14 DEF NextStage, Running
  <2>2. RunningCall'
    <3>1. PrefixDone(Len(calls), IF pc = "put" THEN stage - 1 ELSE 0)'
      BY <1>1, <1>10, <2>1
    <3>2. QED
      BY <1>1, <1>2, <2>1, <3>1 DEF RunningCall
  <2>3. PastCalls'
    <3> SUFFICES ASSUME NEW c \in DOMAIN calls', calls'[c].op = "nodes",
                        ~(Running' /\ c = Len(calls'))
                 PROVE  \E j \in 0..3 : PrefixDone(c, j)' /\ (calls'[c].result = "ok" => j = 3)
      BY DEF PastCalls
    <3>1. c # L
      BY <1>9, <2>1
    <3>2. QED
      BY <1>12, <3>1
  <2>4. QED
    BY <1>9, <1>11, <2>2, <2>3 DEF PrefixInv
<1>15. QED
  BY <1>13, <1>14

LEMMA PutNodesPrefix ==
    ASSUME OwnKindInv, PrefixInv, PutNodes
    PROVE  PrefixInv'
<1>1. PICK S \in 1..3 : S = stage
  BY DEF OwnKindInv, Shape
<1> DEFINE k == Kinds[S]
<1>2. pc = "put" /\ UNCHANGED req
  BY DEF PutNodes
<1>3. CASE UNCHANGED nodes /\ pc' = "crashed" /\ SetResult("crashed")
  BY <1>1, <1>2, <1>3, PutFailsPrefix
<1>4. CASE UNCHANGED nodes /\ pc' = "idle" /\ SetResult("error")
  BY <1>1, <1>2, <1>4, PutFailsPrefix
<1>5. CASE nodes' = [nodes EXCEPT ![k] = @ \cup NodesRequest(k)] /\ NextStage
  BY <1>1, <1>2, <1>5, PutSucceedsPrefix
<1>6. QED
  BY <1>1, <1>3, <1>4, <1>5 DEF PutNodes

LEMMA InitPrefix == Init => PrefixInv
<1> SUFFICES ASSUME Init PROVE PrefixInv
  OBVIOUS
<1>1. calls \in Seq(CallShape) /\ Len(calls) = 0 /\ DOMAIN calls = {}
  BY EmptySeq DEF Init
<1>2. NodesOfCalls
  BY FS_EmptySet, KindSetDef DEF Init, NodesOfCalls
<1>3. QED
  BY <1>1, <1>2 DEF Init, PrefixInv, RunningCall, Running, PastCalls

LEMMA NextPrefix == OwnKindInv /\ PrefixInv /\ [Next]_vars => PrefixInv'
<1> SUFFICES ASSUME OwnKindInv, PrefixInv, [Next]_vars PROVE PrefixInv'
  OBVIOUS
<1>1. CASE \E n \in Counts : InsertTypesInDb(n)
  BY <1>1, InsertTypesPrefix
<1>2. CASE \E n \in Counts : CallInsertNodesInDb(n)
  BY <1>2, CallInsertNodesPrefix
<1>3. CASE FetchTypes
  <2>1. OwnKindInv'
    BY NextOwnKind
  <2>2. QED
    BY <1>3, <2>1, FetchTypesPrefix
<1>4. CASE PutNodes
  BY <1>4, PutNodesPrefix
<1>5. CASE Restart
  BY <1>5, IdleStepPrefix DEF Restart, Running
<1>6. CASE \E s \in Specs : GetExistingTypes(s) \/ GetExistingNodes(s)
  BY <1>6, IdleStepPrefix DEF GetExistingTypes, GetExistingNodes, Running
<1>7. CASE UNCHANGED vars
  BY <1>7 DEF vars, PrefixInv, NodesOfCalls, RunningCall, PastCalls, PrefixDone,
              CallNodes, Running
<1>8. QED
  BY <1>1, <1>2, <1>3, <1>4, <1>5, <1>6, <1>7 DEF Next

\* The strengthening gives InsertedPrefix: the running call has put the
\* kinds before stage, and its result is not yet OK.
LEMMA PrefixGivesInserted == OwnKindInv /\ PrefixInv => InsertedPrefix
<1> SUFFICES ASSUME OwnKindInv, PrefixInv, NEW c \in DOMAIN calls, calls[c].op = "nodes"
             PROVE  \E j \in 0..3 : PrefixDone(c, j) /\ (calls[c].result = "ok" => j = 3)
  BY DEF InsertedPrefix, PrefixDone
<1>1. CASE Running /\ c = Len(calls)
  <2>1. (IF pc = "put" THEN stage - 1 ELSE 0) \in 0..3
    BY DEF OwnKindInv, Shape
  <2>2. PrefixDone(c, IF pc = "put" THEN stage - 1 ELSE 0) /\ calls[c].result # "ok"
    BY <1>1 DEF PrefixInv, RunningCall
  <2>3. QED
    BY <2>1, <2>2
<1>2. CASE ~(Running /\ c = Len(calls))
  BY <1>2 DEF PrefixInv, PastCalls
<1>3. QED
  BY <1>1, <1>2

-----------------------------------------------------------------------------
(* Type correctness: the bounds behind TypeIds, NodeRecords, CallRecords.  *)

\* A sequence whose elements lie in T is a sequence over T.
LEMMA SeqRangeSub ==
    ASSUME NEW S, NEW T, NEW s \in Seq(S), Range(s) \subseteq T
    PROVE  s \in Seq(T)
BY SeqOfRange, SeqMonotonic

\* The number of types in the store is a natural number.
LEMMA TypeCountNat ==
    ASSUME types \in [KindSet -> Seq(Nat)]
    PROVE  TypeCount \in Nat
BY KindSetDef, LenProperties DEF TypeCount

\* Every id PutTypes can have handed out lies in TypeIds.
LEMMA IssuedIds ==
    ASSUME CountBounds, TypeCount \in Nat, Len(calls) \in Nat
    PROVE  1..TypeCount \subseteq TypeIds
<1>1. MaxCount \in Nat /\ MaxCalls \in Nat /\ Len(calls) <= MaxCalls
  BY CountAssumption DEF CountBounds
<1>2. MaxCount * Len(calls) <= MaxCount * MaxCalls
  <2>1. MaxCount * MaxCalls = MaxCount * Len(calls) + MaxCount * (MaxCalls - Len(calls))
    BY <1>1
  <2>2. MaxCount * (MaxCalls - Len(calls)) \in Nat
    BY <1>1
  <2>3. QED
    BY <1>1, <2>1, <2>2
<1>3. MaxCount * MaxCalls <= 3 * MaxCount * MaxCalls
  BY <1>1
<1>4. QED
  BY <1>1, <1>2, <1>3 DEF CountBounds, TypeIds

\* A call record of the history's shape whose fetched ids are issued is
\* a record of TypeOK.
LEMMA CallRecordOK ==
    ASSUME NEW e \in CallShape, \A k \in KindSet : Range(e.fetched[k]) \subseteq TypeIds
    PROVE  e \in CallRecords
<1>1. \A k \in KindSet : e.fetched[k] \in Seq(TypeIds)
  BY SeqRangeSub DEF CallShape
<1>2. QED
  BY <1>1 DEF CallShape, CallRecords

LEMMA TypeOKFromInv == TypeInv => TypeOK
<1> SUFFICES ASSUME TypeInv PROVE TypeOK
  OBVIOUS
<1>1. types \in [KindSet -> Seq(Nat)] /\ fetched \in [KindSet -> Seq(Nat)]
      /\ stage \in 1..3 /\ req \in Counts
  BY DEF TypeInv, OwnKindInv, Shape
<1>2. TypeCount \in Nat /\ Len(calls) \in Nat /\ calls \in Seq(CallShape)
  BY <1>1, TypeCountNat, LenProperties DEF TypeInv, PrefixInv
<1>3. 1..TypeCount \subseteq TypeIds
  BY <1>2, IssuedIds DEF TypeInv, BoundsInv
<1>4. types \in [KindSet -> Seq(TypeIds)]
  <2> SUFFICES ASSUME NEW k \in KindSet PROVE types[k] \in Seq(TypeIds)
    BY <1>1
  <2>1. Range(types[k]) \subseteq TypeIds
    BY <1>3 DEF TypeInv, BoundsInv, IdsIssued
  <2>2. QED
    BY <1>1, <2>1, SeqRangeSub
<1>5. fetched \in [KindSet -> Seq(TypeIds)]
  <2> SUFFICES ASSUME NEW k \in KindSet PROVE fetched[k] \in Seq(TypeIds)
    BY <1>1
  <2>1. Range(fetched[k]) \subseteq TypeIds
    BY <1>3 DEF TypeInv, BoundsInv, IdsIssued, OwnKindInv, FetchedExisting
  <2>2. QED
    BY <1>1, <2>1, SeqRangeSub
<1>6. nodes \in [KindSet -> SUBSET NodeRecords]
  <2> SUFFICES ASSUME NEW k \in KindSet, NEW x \in nodes[k] PROVE x \in NodeRecords
    BY DEF TypeInv, BoundsInv, NodeShape
  <2>1. x \in [type : Nat, call : Nat, i : 0..MaxCount - 1]
    BY DEF TypeInv, BoundsInv, NodeShape
  <2>2. x.type \in TypeIds
    BY <1>3 DEF TypeInv, BoundsInv, IdsIssued, OwnKindInv, NodesTypedOwnKind
  <2>3. x.call \in 1..MaxCalls
    <3>1. x.call \in 1..Len(calls)
      BY DEF TypeInv, PrefixInv, NodesOfCalls
    <3>2. QED
      BY <1>2, <3>1, CountAssumption DEF TypeInv, BoundsInv, CountBounds
  <2>4. QED
    BY <2>1, <2>2, <2>3 DEF NodeRecords
<1>7. calls \in Seq(CallRecords)
  <2>1. \A c \in 1..Len(calls) : calls[c] \in CallRecords
    <3> SUFFICES ASSUME NEW c \in 1..Len(calls) PROVE calls[c] \in CallRecords
      OBVIOUS
    <3>1. calls[c] \in CallShape /\ c \in DOMAIN calls
      BY <1>2, ElementOfSeq, LenProperties
    <3>2. \A k \in KindSet : Range(calls[c].fetched[k]) \subseteq TypeIds
      BY <1>3, <3>1 DEF TypeInv, BoundsInv, IdsIssued
    <3>3. QED
      BY <3>1, <3>2, CallRecordOK
  <2>2. calls \in [1..Len(calls) -> CallRecords]
    BY <1>2, <2>1, LenProperties
  <2>3. QED
    BY <1>2, <2>2, FunctionIsSeq
<1>8. QED
  BY <1>1, <1>4, <1>5, <1>6, <1>7 DEF TypeOK, TypeInv, BoundsInv, Control

\* Within one InsertTypesInDb call, the store's type count only grows,
\* and at most by the call's MaxCount types.
LEMMA InsertTypesBounds ==
    ASSUME TypeInv, NEW n \in Counts, InsertTypesInDb(n)
    PROVE  BoundsInv'
<1> DEFINE off == [k \in KindSet |->
                    IF k = "Artifact" THEN TypeCount
                    ELSE IF k = "Execution" THEN TypeCount + n["Artifact"]
                    ELSE TypeCount + n["Artifact"] + n["Execution"]]
           add(k) == [j \in 1..n[k] |-> off[k] + j]
           put == [k \in KindSet |-> types[k] \o add(k)]
<1>1. /\ types \in [KindSet -> Seq(Nat)] /\ n \in [KindSet -> 0..MaxCount]
      /\ n["Artifact"] + n["Execution"] + n["Context"] <= MaxCount
      /\ MaxCount \in Nat
  BY CountAssumption DEF TypeInv, OwnKindInv, Shape, Counts
<1>2. /\ TypeCount \in Nat /\ calls \in Seq(CallShape)
      /\ Len(calls) \in Nat /\ Len(calls) < MaxCalls
  BY <1>1, TypeCountNat, LenProperties DEF TypeInv, PrefixInv, InsertTypesInDb
<1>3. PICK ok \in BOOLEAN :
        /\ types' = IF ok THEN put ELSE types
        /\ calls' = Append(calls, [op |-> "types", req |-> n, fetched |-> NoTypes,
                                   result |-> IF ok THEN "ok" ELSE "error"])
  BY DEF InsertTypesInDb
<1> DEFINE e == [op |-> "types", req |-> n, fetched |-> NoTypes,
                 result |-> IF ok THEN "ok" ELSE "error"]
<1>4. /\ Len(calls') = Len(calls) + 1
      /\ DOMAIN calls' = 1..Len(calls) + 1
      /\ \A c \in 1..Len(calls) : calls'[c] = calls[c]
      /\ calls'[Len(calls) + 1] = e
  <2>1. e \in CallShape
    BY NoTypesShape DEF CallShape
  <2>2. QED
    BY <1>2, <1>3, <2>1, AppendFacts
<1>5. NodeShape' /\ Control'
  BY DEF InsertTypesInDb, TypeInv, BoundsInv, NodeShape, Control
<1>6. /\ TypeCount' \in Nat
      /\ TypeCount <= TypeCount'
      /\ TypeCount' <= TypeCount + MaxCount
      /\ \A k \in KindSet : Range(types'[k]) \subseteq 1..TypeCount'
  <2>1. CASE ~ok
    <3>1. types' = types
      BY <1>3, <2>1
    <3>2. TypeCount' = TypeCount
      BY <3>1 DEF TypeCount
    <3>3. QED
      BY <1>1, <1>2, <3>1, <3>2 DEF TypeInv, BoundsInv, IdsIssued
  <2>2. CASE ok
    <3>0. types' = put
      BY <1>3, <2>2
    <3>1. \A k \in KindSet : /\ n[k] \in Nat /\ off[k] \in Nat
                             /\ add(k) \in Seq(Nat) /\ Len(add(k)) = n[k]
      <4> SUFFICES ASSUME NEW k \in KindSet
                   PROVE  /\ n[k] \in Nat /\ off[k] \in Nat
                          /\ add(k) \in Seq(Nat) /\ Len(add(k)) = n[k]
        OBVIOUS
      <4>1. n[k] \in Nat /\ off[k] \in Nat
        BY <1>1, <1>2, KindSetDef
      <4>2. add(k) \in Seq(Nat)
        BY <4>1, FunctionIsSeq
      <4>3. DOMAIN add(k) = 1..Len(add(k)) /\ Len(add(k)) \in Nat
        BY <4>2, LenProperties
      <4>4. QED
        BY <4>1, <4>2, <4>3
    <3>2. \A k \in KindSet : /\ put[k] = types[k] \o add(k)
                             /\ put[k] \in Seq(Nat)
                             /\ Len(put[k]) = Len(types[k]) + n[k]
                             /\ Range(put[k]) = Range(types[k]) \cup Range(add(k))
      <4> SUFFICES ASSUME NEW k \in KindSet
                   PROVE  /\ put[k] = types[k] \o add(k)
                          /\ put[k] \in Seq(Nat)
                          /\ Len(put[k]) = Len(types[k]) + n[k]
                          /\ Range(put[k]) = Range(types[k]) \cup Range(add(k))
        OBVIOUS
      <4>1. put[k] = types[k] \o add(k)
        OBVIOUS
      <4>2. types[k] \in Seq(Nat) /\ add(k) \in Seq(Nat) /\ Len(add(k)) = n[k]
        BY <1>1, <3>1
      <4>3. types[k] \o add(k) \in Seq(Nat)
            /\ Len(types[k] \o add(k)) = Len(types[k]) + Len(add(k))
        BY <4>2, ConcatProperties
      <4>4. Range(types[k] \o add(k)) = Range(types[k]) \cup Range(add(k))
        BY <4>2, RangeConcatenation
      <4>5. QED
        BY <4>1, <4>2, <4>3, <4>4
    <3>3. TypeCount' = TypeCount + n["Artifact"] + n["Execution"] + n["Context"]
      <4>1. "Artifact" \in KindSet /\ "Execution" \in KindSet /\ "Context" \in KindSet
        BY KindSetDef
      <4>2. TypeCount' = Len(put["Artifact"]) + Len(put["Execution"]) + Len(put["Context"])
        BY <3>0 DEF TypeCount
      <4>3. /\ Len(put["Artifact"]) = Len(types["Artifact"]) + n["Artifact"]
            /\ Len(put["Execution"]) = Len(types["Execution"]) + n["Execution"]
            /\ Len(put["Context"]) = Len(types["Context"]) + n["Context"]
        BY <3>2, <4>1
      <4>4. PICK la \in Nat, le \in Nat, lc \in Nat :
              /\ la = Len(types["Artifact"])
              /\ le = Len(types["Execution"])
              /\ lc = Len(types["Context"])
        BY <1>1, <4>1, LenProperties
      <4>5. TypeCount = la + le + lc
        BY <4>4 DEF TypeCount
      <4>6. TypeCount' = (la + n["Artifact"]) + (le + n["Execution"]) + (lc + n["Context"])
        BY <4>2, <4>3, <4>4
      <4>7. n["Artifact"] \in Nat /\ n["Execution"] \in Nat /\ n["Context"] \in Nat
        BY <3>1, <4>1
      <4>8. QED
        BY <4>5, <4>6, <4>7
    <3>4. \A k \in KindSet : Range(put[k]) \subseteq 1..TypeCount'
      <4> SUFFICES ASSUME NEW k \in KindSet PROVE Range(put[k]) \subseteq 1..TypeCount'
        OBVIOUS
      <4>1. Range(types[k]) \subseteq 1..TypeCount
        BY DEF TypeInv, BoundsInv, IdsIssued
      <4>2. off[k] + n[k] <= TypeCount + n["Artifact"] + n["Execution"] + n["Context"]
        BY <1>1, <1>2, KindSetDef
      <4>3. Range(add(k)) \subseteq 1..(off[k] + n[k])
        <5> SUFFICES ASSUME NEW y \in Range(add(k)) PROVE y \in 1..(off[k] + n[k])
          OBVIOUS
        <5>1. PICK j \in 1..n[k] : y = off[k] + j
          BY DEF Range
        <5>2. QED
          BY <3>1, <5>1
      <4>4. TypeCount \in Nat /\ TypeCount' \in Nat /\ TypeCount <= TypeCount'
        BY <1>1, <1>2, <3>3, KindSetDef
      <4>5. 1..TypeCount \subseteq 1..TypeCount'
        BY <4>4
      <4>9. n["Artifact"] \in Nat /\ n["Execution"] \in Nat /\ n["Context"] \in Nat
        BY <1>1, KindSetDef
      <4>10. off[k] + n[k] <= TypeCount'
        BY <3>1, <3>3, <4>2, <4>4, <4>9
      <4>6. Range(add(k)) \subseteq 1..TypeCount'
        <5> SUFFICES ASSUME NEW y \in Range(add(k)) PROVE y \in 1..TypeCount'
          OBVIOUS
        <5>1. PICK top \in Nat : top = off[k] + n[k]
          BY <3>1
        <5>2. y \in 1..top /\ top <= TypeCount'
          BY <4>3, <4>10, <5>1
        <5>3. QED
          BY <4>4, <5>2
      <4>7. Range(put[k]) = Range(types[k]) \cup Range(add(k))
        BY <3>2
      <4>8. QED
        BY <4>1, <4>5, <4>6, <4>7
    <3>5. TypeCount' \in Nat /\ TypeCount <= TypeCount' /\ TypeCount' <= TypeCount + MaxCount
      BY <1>1, <1>2, <3>3, KindSetDef
    <3>6. QED
      BY <3>0, <3>4, <3>5
  <2>3. QED
    BY <2>1, <2>2
<1>7. CountBounds'
  <2>1. PICK L \in Nat : L = Len(calls)
    BY <1>2
  <2>2. TypeCount <= MaxCount * L
    BY <2>1 DEF TypeInv, BoundsInv, CountBounds
  <2>3. Len(calls') = L + 1 /\ L + 1 <= MaxCalls
    <3>1. Len(calls') = L + 1
      BY <1>4, <2>1, Zenon
    <3>2. L + 1 <= MaxCalls
      BY <1>1, <1>2, <2>1, CountAssumption
    <3>3. QED
      BY <3>1, <3>2
  <2>4. TypeCount' <= MaxCount * L + MaxCount
    <3>1. MaxCount * L \in Nat
      BY <1>1, <2>1
    <3>2. QED
      BY <1>1, <1>2, <1>6, <2>2, <3>1
  <2>5. MaxCount * (L + 1) = MaxCount * L + MaxCount
    BY <1>1
  <2>6. QED
    BY <2>3, <2>4, <2>5 DEF CountBounds
<1>8. IdsIssued'
  <2>1. \A c \in 1..Len(calls) : \A k \in KindSet :
          Range(calls'[c].fetched[k]) \subseteq 1..TypeCount'
    BY <1>4, <1>6, <1>2, LenProperties DEF TypeInv, BoundsInv, IdsIssued
  <2>2. \A k \in KindSet : Range(calls'[Len(calls) + 1].fetched[k]) \subseteq 1..TypeCount'
    BY <1>4 DEF NoTypes, Range
  <2>3. QED
    BY <1>2, <1>4, <1>6, <2>1, <2>2 DEF IdsIssued
<1>9. QED
  BY <1>5, <1>7, <1>8 DEF BoundsInv

\* A step that keeps the types, the history's length and every call's
\* fetched lists keeps IdsIssued and CountBounds.
LEMMA HistoryKept ==
    ASSUME CountBounds, IdsIssued, UNCHANGED types, Len(calls') = Len(calls),
           DOMAIN calls' = DOMAIN calls,
           \A c \in DOMAIN calls : calls'[c].fetched = calls[c].fetched
    PROVE  CountBounds' /\ IdsIssued'
BY DEF CountBounds, IdsIssued, TypeCount

LEMMA CallInsertNodesBounds ==
    ASSUME TypeInv, NEW n \in Counts, CallInsertNodesInDb(n)
    PROVE  BoundsInv'
<1> DEFINE e == [op |-> "nodes", req |-> n, fetched |-> NoTypes, result |-> "running"]
<1>1. e \in CallShape
  BY NoTypesShape DEF CallShape
<1>2. /\ calls \in Seq(CallShape) /\ Len(calls) < MaxCalls /\ MaxCount \in Nat
      /\ UNCHANGED <<types, nodes, readStatus>> /\ pc' = "fetch"
  BY CountAssumption DEF TypeInv, PrefixInv, CallInsertNodesInDb
<1>3. /\ Len(calls) \in Nat
      /\ Len(calls') = Len(calls) + 1
      /\ DOMAIN calls' = 1..Len(calls) + 1
      /\ \A c \in 1..Len(calls) : calls'[c] = calls[c]
      /\ calls'[Len(calls) + 1] = e
  BY <1>1, <1>2, AppendFacts DEF CallInsertNodesInDb
<1>4. PICK L \in Nat : L = Len(calls)
  BY <1>3
<1>5. TypeCount' = TypeCount /\ TypeCount \in Nat
  BY <1>2, TypeCountNat DEF TypeCount, TypeInv, OwnKindInv, Shape
<1>6. CountBounds'
  <2>1. Len(calls') = L + 1 /\ L + 1 <= MaxCalls
    <3>1. Len(calls') = L + 1
      BY <1>3, <1>4, Zenon
    <3>2. QED
      BY <1>2, <1>4, <3>1, CountAssumption
  <2>2. TypeCount <= MaxCount * L /\ MaxCount * L \in Nat
    BY <1>2, <1>4 DEF TypeInv, BoundsInv, CountBounds
  <2>3. MaxCount * (L + 1) = MaxCount * L + MaxCount
    BY <1>2
  <2>4. QED
    BY <1>2, <1>5, <2>1, <2>2, <2>3 DEF CountBounds
<1>7. IdsIssued'
  <2>1. \A c \in 1..L : \A k \in KindSet :
          Range(calls'[c].fetched[k]) \subseteq 1..TypeCount'
    BY <1>3, <1>4, <1>5, LenProperties DEF TypeInv, BoundsInv, IdsIssued
  <2>2. \A k \in KindSet : Range(calls'[L + 1].fetched[k]) \subseteq 1..TypeCount'
    BY <1>3, <1>4 DEF NoTypes, Range
  <2>3. DOMAIN calls' = 1..L \cup {L + 1}
    BY <1>3, <1>4
  <2>4. QED
    BY <1>2, <1>5, <2>1, <2>2, <2>3 DEF IdsIssued, TypeInv, BoundsInv
<1>8. QED
  BY <1>2, <1>6, <1>7 DEF BoundsInv, TypeInv, NodeShape, Control

LEMMA FetchTypesBounds ==
    ASSUME TypeInv, OwnKindInv', FetchTypes
    PROVE  BoundsInv'
<1>1. PICK L \in Nat : L = Len(calls) /\ L > 0
  BY LenProperties DEF FetchTypes, TypeInv, PrefixInv, RunningCall, Running
<1>2. /\ calls \in Seq(CallShape) /\ DOMAIN calls = 1..L
      /\ UNCHANGED <<types, nodes, readStatus>> /\ pc' \in {"put", "fetch", "idle"}
  BY <1>1, LenProperties DEF TypeInv, PrefixInv, FetchTypes
<1>3. NodeShape' /\ Control'
  BY <1>2 DEF TypeInv, BoundsInv, NodeShape, Control
<1>4. CASE calls' = [calls EXCEPT ![Current].fetched = fetched']
  <2>1. fetched' \in [KindSet -> Seq(Nat)]
    BY DEF OwnKindInv, Shape
  <2>2. /\ Len(calls') = L
        /\ \A c \in 1..L : c # L => calls'[c] = calls[c]
        /\ calls'[L].fetched = fetched'
    BY <1>1, <1>2, <1>4, <2>1, SetFetchedFacts DEF Current
  <2>3. DOMAIN calls' = 1..L
    BY <1>4, <1>2 DEF Current
  <2>4. \A k \in KindSet : Range(fetched'[k]) \subseteq 1..TypeCount
    BY <1>2 DEF OwnKindInv, FetchedExisting, TypeInv, BoundsInv, IdsIssued
  <2>5. TypeCount' = TypeCount
    BY <1>2 DEF TypeCount
  <2>6. CountBounds'
    BY <1>1, <1>2, <2>2, <2>5 DEF TypeInv, BoundsInv, CountBounds
  <2>7. IdsIssued'
    BY <1>2, <2>2, <2>3, <2>4, <2>5 DEF TypeInv, BoundsInv, IdsIssued
  <2>8. QED
    BY <1>3, <2>6, <2>7 DEF BoundsInv
<1>5. CASE pc' = "idle" /\ SetResult("error")
  <2>1. /\ Len(calls') = L
        /\ \A c \in 1..L : c # L => calls'[c] = calls[c]
        /\ calls'[L].fetched = calls[L].fetched
    BY <1>1, <1>2, <1>5, SetResultFacts
  <2>2. DOMAIN calls' = DOMAIN calls /\ \A c \in DOMAIN calls : calls'[c].fetched = calls[c].fetched
    BY <1>2, <1>5, <2>1 DEF SetResult, Current
  <2>3. CountBounds' /\ IdsIssued'
    BY <1>1, <1>2, <2>1, <2>2, HistoryKept DEF TypeInv, BoundsInv
  <2>4. QED
    BY <1>3, <2>3 DEF BoundsInv
<1>6. QED
  BY <1>4, <1>5 DEF FetchTypes

\* The nodes a put adds are records with a loop index below MaxCount.
LEMMA RequestShape ==
    ASSUME OwnKindInv, NEW k \in KindSet, ~(req[k] > 0 /\ fetched[k] = <<>>),
           Len(calls) \in Nat
    PROVE  NodesRequest(k) \subseteq [type : Nat, call : Nat, i : 0..MaxCount - 1]
<1>1. \A x \in NodesRequest(k) : x.type \in Nat
  <2>1. \A x \in NodesRequest(k) : x.type \in Range(fetched[k])
    BY NodesRequestTypes
  <2>2. Range(fetched[k]) \subseteq Nat
    BY RangeOfSeq DEF OwnKindInv, Shape
  <2>3. QED
    BY <2>1, <2>2
<1>2. req[k] \in 0..MaxCount /\ MaxCount \in Nat
  BY CountAssumption DEF OwnKindInv, Shape, Counts
<1>3. \A x \in NodesRequest(k) : x = [type |-> x.type, call |-> Len(calls), i |-> x.i]
                                 /\ x.i \in 0..MaxCount - 1
  BY <1>2 DEF NodesRequest, Current
<1>4. QED
  BY <1>1, <1>3

LEMMA PutNodesBounds ==
    ASSUME TypeInv, PutNodes
    PROVE  BoundsInv'
<1> DEFINE k == Kinds[stage]
<1>1. PICK L \in Nat : L = Len(calls) /\ L > 0
  BY LenProperties DEF PutNodes, TypeInv, PrefixInv, RunningCall, Running
<1>2. /\ calls \in Seq(CallShape) /\ DOMAIN calls = 1..L /\ k \in KindSet
      /\ UNCHANGED <<types, readStatus>> /\ pc' \in {"put", "idle", "crashed"}
  BY <1>1, LenProperties, KindsInKindSet DEF TypeInv, PrefixInv, PutNodes, NextStage,
                                              OwnKindInv, Shape
<1>3. /\ DOMAIN calls' = DOMAIN calls /\ Len(calls') = Len(calls)
      /\ \A c \in DOMAIN calls : calls'[c].fetched = calls[c].fetched
  <2>1. CASE UNCHANGED calls
    BY <2>1
  <2>2. CASE \E r \in {"ok", "error", "crashed"} : SetResult(r)
    <3>1. PICK r \in {"ok", "error", "crashed"} : SetResult(r)
      BY <2>2
    <3>2. /\ Len(calls') = L
          /\ \A c \in 1..L : c # L => calls'[c] = calls[c]
          /\ calls'[L].fetched = calls[L].fetched
      BY <1>1, <1>2, <3>1, SetResultFacts
    <3>3. QED
      BY <1>1, <1>2, <3>1, <3>2 DEF SetResult, Current
  <2>3. QED
    BY <2>1, <2>2 DEF PutNodes, NextStage
<1>4. CountBounds' /\ IdsIssued'
  BY <1>2, <1>3, HistoryKept DEF TypeInv, BoundsInv
<1>5. NodeShape'
  <2>1. CASE UNCHANGED nodes
    BY <2>1 DEF TypeInv, BoundsInv, NodeShape
  <2>2. CASE /\ ~(req[k] > 0 /\ fetched[k] = <<>>)
             /\ nodes' = [nodes EXCEPT ![k] = @ \cup NodesRequest(k)]
    <3>1. NodesRequest(k) \subseteq [type : Nat, call : Nat, i : 0..MaxCount - 1]
      BY <1>1, <1>2, <2>2, RequestShape DEF TypeInv
    <3>2. QED
      BY <1>2, <2>2, <3>1 DEF TypeInv, BoundsInv, NodeShape
  <2>3. QED
    BY <2>1, <2>2 DEF PutNodes
<1>6. Control'
  BY <1>2 DEF TypeInv, BoundsInv, Control
<1>7. QED
  BY <1>4, <1>5, <1>6 DEF BoundsInv

LEMMA NextBounds == TypeInv /\ [Next]_vars => BoundsInv'
<1> SUFFICES ASSUME TypeInv, [Next]_vars PROVE BoundsInv'
  OBVIOUS
<1>1. CASE \E n \in Counts : InsertTypesInDb(n)
  BY <1>1, InsertTypesBounds
<1>2. CASE \E n \in Counts : CallInsertNodesInDb(n)
  BY <1>2, CallInsertNodesBounds
<1>3. CASE FetchTypes
  <2>1. OwnKindInv'
    BY NextOwnKind DEF TypeInv
  <2>2. QED
    BY <1>3, <2>1, FetchTypesBounds
<1>4. CASE PutNodes
  BY <1>4, PutNodesBounds
<1>5. CASE Restart \/ \E s \in Specs : GetExistingTypes(s) \/ GetExistingNodes(s)
  <2>1. /\ UNCHANGED <<types, nodes, calls>>
        /\ pc' \in {"idle", "crashed"}
        /\ readStatus' \in {"none", "ok", "error", "unimplemented"}
    BY <1>5 DEF Restart, GetExistingTypes, GetExistingNodes, TypeInv, BoundsInv, Control
  <2>2. CountBounds' /\ IdsIssued'
    BY <2>1, HistoryKept DEF TypeInv, BoundsInv
  <2>3. QED
    BY <2>1, <2>2 DEF TypeInv, BoundsInv, NodeShape, Control
<1>6. CASE UNCHANGED vars
  BY <1>6 DEF vars, TypeInv, BoundsInv, CountBounds, IdsIssued, NodeShape, Control,
              TypeCount
<1>7. QED
  BY <1>1, <1>2, <1>3, <1>4, <1>5, <1>6 DEF Next

LEMMA InitBounds == Init => BoundsInv
<1> SUFFICES ASSUME Init PROVE BoundsInv
  OBVIOUS
<1>1. Len(calls) = 0 /\ DOMAIN calls = {} /\ TypeCount = 0
  BY EmptySeq, KindSetDef DEF Init, NoTypes, TypeCount
<1>2. \A k \in KindSet : Range(types[k]) = {}
  BY DEF Init, NoTypes, Range
<1>3. QED
  BY <1>1, <1>2, CountAssumption DEF Init, BoundsInv, CountBounds, IdsIssued,
                                     NodeShape, Control

-----------------------------------------------------------------------------
(* Theorem.                                                                *)

\* Own-kind types: across failed PutTypes, failed or partial
\* InsertNodesInDb calls, process deaths and restarts, every artifact,
\* execution and context in the store has a type of its own kind.
THEOREM NodesOwnKind == Spec => []NodesTypedOwnKind
<1>1. Init => OwnKindInv
  BY InitOwnKind
<1>2. OwnKindInv /\ [Next]_vars => OwnKindInv'
  BY NextOwnKind
<1>3. QED
  BY <1>1, <1>2, PTL DEF Spec, OwnKindInv

\* Prefix inserts: across failed or partial InsertNodesInDb calls, process
\* deaths and restarts, every InsertNodesInDb call has put all the nodes it
\* was asked for of the first j kinds (artifacts, executions, contexts) and
\* none of the others, and all three when it returned OK.
THEOREM NodesInsertedPrefix == Spec => []InsertedPrefix
<1>1. Init => OwnKindInv /\ PrefixInv
  BY InitOwnKind, InitPrefix
<1>2. OwnKindInv /\ PrefixInv /\ [Next]_vars => OwnKindInv' /\ PrefixInv'
  BY NextOwnKind, NextPrefix
<1>3. OwnKindInv /\ PrefixInv => InsertedPrefix
  BY PrefixGivesInserted
<1>4. QED
  BY <1>1, <1>2, <1>3, PTL DEF Spec

\* Type correctness: however the store calls fail and the process dies,
\* the store's type ids stay within the ids MaxCalls PutTypes calls of
\* MaxCount types can hand out, every node is a record of one of at most
\* MaxCalls calls with a loop index below MaxCount, and the history has
\* at most MaxCalls records.
THEOREM BenchTypeCorrect == Spec => []TypeOK
<1>1. Init => TypeInv
  BY InitOwnKind, InitPrefix, InitBounds DEF TypeInv
<1>2. TypeInv /\ [Next]_vars => TypeInv'
  BY NextOwnKind, NextPrefix, NextBounds DEF TypeInv
<1>3. TypeInv => TypeOK
  BY TypeOKFromInv
<1>4. QED
  BY <1>1, <1>2, <1>3, PTL DEF Spec
=============================================================================
