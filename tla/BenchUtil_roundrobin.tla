-------------------------- MODULE BenchUtil_roundrobin --------------------------
(***************************************************************************)
(* Proof of TypesRoundRobin for every MaxCount and MaxCalls: the nodes an  *)
(* InsertNodesInDb call puts for a kind are spread over the types it       *)
(* fetched by type_index = i % size, so two fetched types receive node     *)
(* counts that differ by at most one.                                      *)
(*                                                                         *)
(* The argument needs no induction.  The nodes of type f[p + 1] are those  *)
(* whose loop index i has i % s = p, and j |-> j * s + p counts those      *)
(* indices bijectively from 0..m - 1, with m = r \div s plus one when      *)
(* p < r % s.  For that, the fetched list must hold each type once (type   *)
(* ids are never reused) and a call's nodes of a kind must be exactly its  *)
(* request, built from the list the history records.                      *)
(***************************************************************************)
EXTENDS BenchUtil_proofs

\* The nodes a call c asks for with fetched list f and count r: loop index
\* i gets the type at i % size of f.  Spread(c, k) is the request of kind
\* k of the c-th call, built from the list and count its history keeps.
SpreadOf(f, r, c) ==
    {[type |-> f[TypeIndex(i, Len(f)) + 1], call |-> c, i |-> i] : i \in 0..r - 1}
Spread(c, k) == SpreadOf(calls[c].fetched[k], calls[c].req[k], c)

\* The nodes of a set that have type t.
TypedNodes(N, t) == {n \in N : n.type = t}

\* A PutTypes call hands out ids above every id in the store, so each
\* kind's list of types holds every id once.
TypesInjective == \A k \in KindSet : IsInjective(types[k])

\* While InsertNodesInDb runs, existing_<kind>_types is the store's list
\* for the kinds already fetched and empty for the others, and the history
\* record of the call holds the same lists.
FetchedLists ==
    /\ pc = "fetch" => \A m \in 1..3 :
          fetched[Kinds[m]] = IF m < stage THEN types[Kinds[m]] ELSE <<>>
    /\ pc = "put" => fetched = types
    /\ Running => calls[Current].fetched = fetched

\* Every list a call fetched holds every type once.
FetchedInjective ==
    \A c \in DOMAIN calls : \A k \in KindSet : IsInjective(calls[c].fetched[k])

\* A call has put either nothing of a kind or exactly its request.
NodesSpread ==
    \A c \in DOMAIN calls : \A k \in KindSet :
        CallNodes(c, k) = {} \/ CallNodes(c, k) = Spread(c, k)

\* The strengthening of TypesRoundRobin, on top of TypeInv.
SpreadInv == TypeInv /\ TypesInjective /\ FetchedLists /\ FetchedInjective /\ NodesSpread

-----------------------------------------------------------------------------
(* Counting the loop indices of one residue class.                         *)

\* The loop indices below r that i % s sends to p.
Residues(r, s, p) == {i \in 0..r - 1 : i % s = p}

\* How many there are: one per full round of s, and one more when the last,
\* partial round reaches p.
ResidueCount(r, s, p) == r \div s + (IF p < r % s THEN 1 ELSE 0)

\* Division facts the counting uses.
LEMMA DivMod ==
    ASSUME NEW i \in Nat, NEW s \in Nat \ {0}
    PROVE  /\ i \div s \in Nat
           /\ i % s \in 0..s - 1
           /\ i = (i \div s) * s + (i % s)
<1>1. i \div s \in Nat /\ i % s \in 0..s - 1
  OBVIOUS
<1>2. i = s * (i \div s) + (i % s)
  OBVIOUS
<1> QED BY <1>1, <1>2

\* j * s + p, for p \in 0..s - 1, has quotient j and remainder p.
LEMMA DivModUnique ==
    ASSUME NEW j \in Nat, NEW s \in Nat \ {0}, NEW p \in 0..s - 1
    PROVE  /\ (j * s + p) \div s = j
           /\ (j * s + p) % s = p
OBVIOUS

LEMMA ResiduesCard ==
    ASSUME NEW r \in Nat, NEW s \in Nat \ {0}, NEW p \in 0..s - 1
    PROVE  /\ IsFiniteSet(Residues(r, s, p))
           /\ Cardinality(Residues(r, s, p)) = ResidueCount(r, s, p)
<1> DEFINE q == r \div s
           m == ResidueCount(r, s, p)
           C == Residues(r, s, p)
           h == [j \in 0..m - 1 |-> j * s + p]
<1>1. q \in Nat /\ r % s \in 0..s - 1 /\ r = q * s + (r % s)
  BY DivMod
<1>2. m \in Nat
  BY <1>1 DEF ResidueCount
<1>3. \A j \in 0..m - 1 : h[j] \in C
  <2> SUFFICES ASSUME NEW j \in 0..m - 1 PROVE j * s + p \in C
    OBVIOUS
  <2>1. (j * s + p) % s = p
    BY DivModUnique
  <2>2. j * s + p <= r - 1
    <3>1. CASE j <= q - 1
      <4>1. j * s <= (q - 1) * s
        BY <3>1, <1>1
      <4>2. (q - 1) * s = q * s - s
        BY <1>1
      <4> QED BY <4>1, <4>2, <1>1
    <3>2. CASE j = q
      <4>1. p < r % s
        BY <3>2, <1>1 DEF ResidueCount
      <4> QED BY <4>1, <3>2, <1>1
    <3> QED BY <3>1, <3>2, <1>1, <1>2 DEF ResidueCount
  <2>3. j * s + p \in Nat
    OBVIOUS
  <2> QED BY <2>1, <2>2, <2>3, DivModUnique DEF Residues
<1>4. \A j1, j2 \in 0..m - 1 : h[j1] = h[j2] => j1 = j2
  BY DivModUnique
<1>5. \A i \in C : \E j \in 0..m - 1 : h[j] = i
  <2> SUFFICES ASSUME NEW i \in C PROVE \E j \in 0..m - 1 : h[j] = i
    OBVIOUS
  <2>1. i \in Nat /\ i <= r - 1 /\ i % s = p
    BY DEF Residues
  <2>2. i = (i \div s) * s + p /\ i \div s \in Nat
    BY <2>1, DivMod
  <2>3. i \div s <= m - 1
    <3>1. CASE i \div s <= q - 1
      BY <3>1, <1>1, <2>2 DEF ResidueCount
    <3>2. CASE i \div s >= q
      <4>1. (i \div s) * s >= q * s
        BY <3>2, <2>2, <1>1
      <4>2. p < r % s
        BY <4>1, <2>1, <2>2, <1>1
      <4>3. i \div s <= q
        <5>1. SUFFICES ASSUME i \div s >= q + 1 PROVE FALSE
          BY <3>2, <2>2, <1>1
        <5>2. (i \div s) * s >= q * s + s
          BY <5>1, <2>2, <1>1
        <5> QED BY <5>2, <2>1, <2>2, <1>1
      <4> QED BY <4>2, <4>3 DEF ResidueCount
    <3> QED BY <3>1, <3>2, <2>2, <1>1
  <2> QED BY <2>2, <2>3
<1>6. h \in Bijection(0..m - 1, C)
  BY <1>3, <1>4, <1>5 DEF Bijection, Injection, Surjection, IsInjective
<1>7. IsFiniteSet(0..m - 1) /\ Cardinality(0..m - 1) = m
  <2>1. \A n \in Nat : IsFiniteSet(0..n - 1) /\ Cardinality(0..n - 1) = n
    BY FS_Interval
  <2> QED BY <2>1, <1>2
<1> QED
  BY <1>6, <1>7, FS_Bijection DEF ExistsBijection

\* In a request built from a list that holds every type once, the nodes
\* of the type at place p + 1 are those whose loop index is p modulo the
\* list's length.
LEMMA SpreadOfTypeCard ==
    ASSUME NEW S, NEW f \in Seq(S), IsInjective(f), Len(f) > 0,
           NEW r \in Nat, NEW c, NEW p \in 0..Len(f) - 1
    PROVE  /\ IsFiniteSet(TypedNodes(SpreadOf(f, r, c), f[p + 1]))
           /\ Cardinality(TypedNodes(SpreadOf(f, r, c), f[p + 1]))
                = ResidueCount(r, Len(f), p)
<1> DEFINE s == Len(f)
           rec(i) == [type |-> f[TypeIndex(i, s) + 1], call |-> c, i |-> i]
           C == Residues(r, s, p)
           T == TypedNodes(SpreadOf(f, r, c), f[p + 1])
           g == [i \in C |-> rec(i)]
<1>1. s \in Nat \ {0} /\ DOMAIN f = 1..s
  BY LenProperties
<1>2. \A i \in 0..r - 1 : TypeIndex(i, s) + 1 \in 1..s
  BY <1>1, ModRange DEF TypeIndex
<1>3. \A i \in 0..r - 1 : rec(i).type = f[p + 1] <=> i % s = p
  <2> SUFFICES ASSUME NEW i \in 0..r - 1 PROVE rec(i).type = f[p + 1] <=> i % s = p
    OBVIOUS
  <2>1. f[TypeIndex(i, s) + 1] = f[p + 1] <=> TypeIndex(i, s) + 1 = p + 1
    BY <1>1, <1>2 DEF IsInjective
  <2> QED BY <2>1 DEF TypeIndex
<1>4. g \in Bijection(C, T)
  <2>1. \A i \in C : g[i] \in T
    BY <1>3 DEF Residues, TypedNodes, SpreadOf
  <2>2. \A i, j \in C : g[i] = g[j] => i = j
    OBVIOUS
  <2>3. \A n \in T : \E i \in C : g[i] = n
    BY <1>3 DEF Residues, TypedNodes, SpreadOf
  <2> QED BY <2>1, <2>2, <2>3 DEF Bijection, Injection, Surjection, IsInjective
<1>5. IsFiniteSet(C) /\ Cardinality(C) = ResidueCount(r, s, p)
  BY <1>1, ResiduesCard
<1> QED
  BY <1>4, <1>5, FS_Bijection DEF ExistsBijection

-----------------------------------------------------------------------------
(* From the invariant to TypesRoundRobin.                                  *)

\* Two places of the fetched list get node counts at most one apart.
LEMMA ResidueCountsClose ==
    ASSUME NEW r \in Nat, NEW s \in Nat \ {0}, NEW p1 \in 0..s - 1, NEW p2 \in 0..s - 1
    PROVE  ResidueCount(r, s, p1) <= ResidueCount(r, s, p2) + 1
BY DEF ResidueCount

LEMMA SpreadGivesRoundRobin == SpreadInv => TypesRoundRobin
<1> SUFFICES ASSUME SpreadInv, NEW c \in DOMAIN calls, NEW k \in KindSet,
                    NEW t1 \in Range(calls[c].fetched[k]), NEW t2 \in Range(calls[c].fetched[k])
             PROVE  Cardinality(TypedNodes(CallNodes(c, k), t1))
                      <= Cardinality(TypedNodes(CallNodes(c, k), t2)) + 1
  BY DEF TypesRoundRobin, TypedNodes
<1> DEFINE f == calls[c].fetched[k]
           r == calls[c].req[k]
           s == Len(f)
<1>1. f \in Seq(Nat) /\ r \in Nat /\ IsInjective(f)
  <2>1. calls \in Seq(CallShape)
    BY DEF SpreadInv, TypeInv, PrefixInv
  <2>2. calls[c] \in CallShape
    BY <2>1, LenProperties, ElementOfSeq
  <2>3. f \in Seq(Nat) /\ r \in 0..MaxCount
    BY <2>2 DEF CallShape, Counts
  <2>4. IsInjective(f)
    BY DEF SpreadInv, FetchedInjective
  <2> QED BY <2>3, <2>4
<1>2. s \in Nat /\ DOMAIN f = 1..s
  BY <1>1, LenProperties
<1>3. PICK p1 \in 0..s - 1 : t1 = f[p1 + 1]
  <2>1. PICK x \in 1..s : t1 = f[x]
    BY <1>2 DEF Range
  <2> QED BY <2>1
<1>4. PICK p2 \in 0..s - 1 : t2 = f[p2 + 1]
  <2>1. PICK x \in 1..s : t2 = f[x]
    BY <1>2 DEF Range
  <2> QED BY <2>1
<1>5. s > 0
  BY <1>2, <1>3
<1>6. CASE CallNodes(c, k) = {}
  <2>1. TypedNodes(CallNodes(c, k), t1) = {} /\ TypedNodes(CallNodes(c, k), t2) = {}
    BY <1>6 DEF TypedNodes
  <2> QED BY <2>1, FS_EmptySet
<1>7. CASE CallNodes(c, k) = Spread(c, k)
  <2>1. Cardinality(TypedNodes(CallNodes(c, k), t1)) = ResidueCount(r, s, p1)
    BY <1>1, <1>3, <1>5, <1>7, SpreadOfTypeCard DEF Spread
  <2>2. Cardinality(TypedNodes(CallNodes(c, k), t2)) = ResidueCount(r, s, p2)
    BY <1>1, <1>4, <1>5, <1>7, SpreadOfTypeCard DEF Spread
  <2> QED BY <2>1, <2>2, <1>1, <1>2, <1>3, <1>4, <1>5, ResidueCountsClose
<1> QED
  BY <1>6, <1>7 DEF SpreadInv, NodesSpread

-----------------------------------------------------------------------------
(* Frame lemmas: what a step must keep for the invariant to carry over.    *)

\* The empty list holds every type once.
LEMMA EmptyInjective == \A k \in KindSet : IsInjective(NoTypes[k])
BY DEF NoTypes, IsInjective

\* NodesSpread carries over when each call either has no nodes of a kind
\* after the step, or keeps its nodes, fetched list and count of the kind.
LEMMA SpreadFrame ==
    ASSUME NodesSpread,
           \A c \in DOMAIN calls' : \A k \in KindSet :
               \/ CallNodes(c, k)' = {}
               \/ /\ c \in DOMAIN calls
                  /\ CallNodes(c, k)' = CallNodes(c, k)
                  /\ calls'[c].fetched[k] = calls[c].fetched[k]
                  /\ calls'[c].req[k] = calls[c].req[k]
    PROVE  NodesSpread'
BY DEF NodesSpread, Spread

\* FetchedInjective carries over when each record keeps its fetched lists
\* or holds lists with every type once.
LEMMA FetchedFrame ==
    ASSUME FetchedInjective,
           \A c \in DOMAIN calls' :
               \/ c \in DOMAIN calls /\ calls'[c].fetched = calls[c].fetched
               \/ \A k \in KindSet : IsInjective(calls'[c].fetched[k])
    PROVE  FetchedInjective'
BY DEF FetchedInjective

\* Steps that leave types, nodes and the history alone and end outside
\* InsertNodesInDb: Restart and the reads.
LEMMA IdleStepSpread ==
    ASSUME SpreadInv, ~Running', UNCHANGED <<types, nodes, calls>>
    PROVE  (TypesInjective /\ FetchedLists /\ FetchedInjective /\ NodesSpread)'
<1>1. TypesInjective' /\ FetchedInjective'
  BY DEF SpreadInv, TypesInjective, FetchedInjective
<1>2. FetchedLists'
  BY DEF FetchedLists, Running
<1>3. NodesSpread'
  BY DEF SpreadInv, NodesSpread, Spread, SpreadOf, CallNodes
<1> QED BY <1>1, <1>2, <1>3

-----------------------------------------------------------------------------
(* One lemma per action.                                                   *)

\* A call appended to the history has no nodes yet.
LEMMA NewCallNoNodes ==
    ASSUME PrefixInv, UNCHANGED nodes, NEW k \in KindSet, NEW c, c = Len(calls) + 1
    PROVE  CallNodes(c, k)' = {}
<1>1. Len(calls) \in Nat
  BY LenProperties DEF PrefixInv
<1>2. CallNodes(c, k) = {}
  BY <1>1 DEF PrefixInv, NodesOfCalls, CallNodes
<1> QED BY <1>2 DEF CallNodes

LEMMA CallInsertNodesSpread ==
    ASSUME SpreadInv, NEW n \in Counts, CallInsertNodesInDb(n)
    PROVE  (TypesInjective /\ FetchedLists /\ FetchedInjective /\ NodesSpread)'
<1> DEFINE e == [op |-> "nodes", req |-> n, fetched |-> NoTypes, result |-> "running"]
<1>1. e \in CallShape
  BY NoTypesShape DEF CallShape
<1>2. /\ calls' \in Seq(CallShape)
      /\ Len(calls) \in Nat
      /\ Len(calls') = Len(calls) + 1
      /\ DOMAIN calls' = 1..Len(calls) + 1
      /\ DOMAIN calls = 1..Len(calls)
      /\ \A c \in 1..Len(calls) : calls'[c] = calls[c]
      /\ calls'[Len(calls) + 1] = e
  BY <1>1, AppendFacts, LenProperties DEF SpreadInv, TypeInv, PrefixInv, CallInsertNodesInDb
<1>3. UNCHANGED <<types, nodes>> /\ pc' = "fetch" /\ stage' = 1 /\ fetched' = NoTypes
  BY DEF CallInsertNodesInDb
<1>4. TypesInjective'
  BY <1>3 DEF SpreadInv, TypesInjective
<1>5. FetchedLists'
  <2>1. \A m \in 1..3 : fetched'[Kinds[m]] = <<>>
    BY <1>3, KindsInKindSet DEF NoTypes
  <2>2. calls'[Current'].fetched = fetched'
    BY <1>2, <1>3 DEF Current
  <2> QED BY <1>3, <2>1, <2>2 DEF FetchedLists
<1>6. FetchedInjective'
  <2>1. \A c \in DOMAIN calls' :
          \/ c \in DOMAIN calls /\ calls'[c].fetched = calls[c].fetched
          \/ \A k \in KindSet : IsInjective(calls'[c].fetched[k])
    BY <1>2, EmptyInjective
  <2> QED BY <2>1, FetchedFrame DEF SpreadInv
<1>7. NodesSpread'
  <2>1. \A c \in DOMAIN calls' : \A k \in KindSet :
          \/ CallNodes(c, k)' = {}
          \/ /\ c \in DOMAIN calls
             /\ CallNodes(c, k)' = CallNodes(c, k)
             /\ calls'[c].fetched[k] = calls[c].fetched[k]
             /\ calls'[c].req[k] = calls[c].req[k]
    <3> SUFFICES ASSUME NEW c \in DOMAIN calls', NEW k \in KindSet
                 PROVE  \/ CallNodes(c, k)' = {}
                        \/ /\ c \in DOMAIN calls
                           /\ CallNodes(c, k)' = CallNodes(c, k)
                           /\ calls'[c].fetched[k] = calls[c].fetched[k]
                           /\ calls'[c].req[k] = calls[c].req[k]
      OBVIOUS
    <3>1. CASE c = Len(calls) + 1
      <4>1. PrefixInv
        BY DEF SpreadInv, TypeInv
      <4>2. CallNodes(c, k)' = {}
        BY <4>1, <1>3, <3>1, NewCallNoNodes
      <4> QED BY <4>2, <3>1
    <3>2. CASE c # Len(calls) + 1
      BY <3>2, <1>2, <1>3 DEF CallNodes
    <3> QED BY <3>1, <3>2
  <2> QED BY <2>1, SpreadFrame DEF SpreadInv
<1> QED BY <1>4, <1>5, <1>6, <1>7

\* Two lists that hold each element once and share none concatenate to a
\* list that holds each element once.
LEMMA ConcatInjective ==
    ASSUME NEW S, NEW s \in Seq(S), NEW t \in Seq(S), IsInjective(s), IsInjective(t),
           Range(s) \cap Range(t) = {}
    PROVE  IsInjective(s \o t)
<1>1. /\ Len(s) \in Nat /\ Len(t) \in Nat
      /\ DOMAIN s = 1..Len(s) /\ DOMAIN t = 1..Len(t)
  BY LenProperties
<1>2. /\ s \o t \in Seq(S)
      /\ Len(s \o t) = Len(s) + Len(t)
      /\ \A i \in 1..Len(s) + Len(t) :
            (s \o t)[i] = IF i <= Len(s) THEN s[i] ELSE t[i - Len(s)]
  BY ConcatProperties
<1>3. DOMAIN (s \o t) = 1..Len(s) + Len(t)
  BY <1>2, LenProperties
<1> SUFFICES ASSUME NEW i \in 1..Len(s) + Len(t), NEW j \in 1..Len(s) + Len(t),
                    (s \o t)[i] = (s \o t)[j]
             PROVE  i = j
  BY <1>3 DEF IsInjective
<1>4. CASE i <= Len(s) /\ j <= Len(s)
  BY <1>1, <1>2, <1>4 DEF IsInjective
<1>5. CASE i > Len(s) /\ j > Len(s)
  BY <1>1, <1>2, <1>5 DEF IsInjective
<1>6. CASE i <= Len(s) /\ j > Len(s)
  <2>1. s[i] \in Range(s) /\ t[j - Len(s)] \in Range(t)
    BY <1>1, <1>6 DEF Range
  <2> QED BY <1>2, <1>6, <2>1
<1>7. CASE i > Len(s) /\ j <= Len(s)
  <2>1. s[j] \in Range(s) /\ t[i - Len(s)] \in Range(t)
    BY <1>1, <1>7 DEF Range
  <2> QED BY <1>2, <1>7, <2>1
<1> QED BY <1>1, <1>4, <1>5, <1>6, <1>7

LEMMA InsertTypesSpread ==
    ASSUME SpreadInv, NEW n \in Counts, InsertTypesInDb(n)
    PROVE  (TypesInjective /\ FetchedLists /\ FetchedInjective /\ NodesSpread)'
<1> DEFINE off == [k \in KindSet |->
                    IF k = "Artifact" THEN TypeCount
                    ELSE IF k = "Execution" THEN TypeCount + n["Artifact"]
                    ELSE TypeCount + n["Artifact"] + n["Execution"]]
           add(k) == [j \in 1..n[k] |-> off[k] + j]
           put == [k \in KindSet |-> types[k] \o add(k)]
<1>1. PICK ok \in BOOLEAN :
        /\ types' = IF ok THEN put ELSE types
        /\ calls' = Append(calls, [op |-> "types", req |-> n, fetched |-> NoTypes,
                                   result |-> IF ok THEN "ok" ELSE "error"])
  BY DEF InsertTypesInDb
<1> DEFINE e == [op |-> "types", req |-> n, fetched |-> NoTypes,
                 result |-> IF ok THEN "ok" ELSE "error"]
<1>2. /\ calls' \in Seq(CallShape)
      /\ Len(calls) \in Nat
      /\ Len(calls') = Len(calls) + 1
      /\ DOMAIN calls' = 1..Len(calls) + 1
      /\ DOMAIN calls = 1..Len(calls)
      /\ \A c \in 1..Len(calls) : calls'[c] = calls[c]
      /\ calls'[Len(calls) + 1] = e
  <2>1. e \in CallShape
    BY NoTypesShape DEF CallShape
  <2> QED BY <1>1, <2>1, AppendFacts, LenProperties DEF SpreadInv, TypeInv, PrefixInv
<1>3. UNCHANGED nodes /\ pc' = "idle"
  BY DEF InsertTypesInDb
<1>4. TypesInjective'
  <2> SUFFICES ASSUME NEW k \in KindSet PROVE IsInjective(types'[k])
    BY DEF TypesInjective
  <2>1. CASE ~ok
    BY <1>1, <2>1 DEF SpreadInv, TypesInjective
  <2>2. CASE ok
    <3>1. /\ types[k] \in Seq(Nat) /\ n[k] \in Nat /\ TypeCount \in Nat
          /\ Range(types[k]) \subseteq 1..TypeCount /\ IsInjective(types[k])
      BY TypeCountNat, KindSetDef
         DEF SpreadInv, TypeInv, OwnKindInv, Shape, BoundsInv, IdsIssued, Counts, TypesInjective
    <3>2. off[k] \in Nat /\ off[k] >= TypeCount
      BY <3>1, KindSetDef DEF Counts
    <3>3. add(k) \in Seq(Nat)
      BY <3>1, <3>2, FunctionIsSeq
    <3>4. IsInjective(add(k))
      BY <3>2 DEF IsInjective
    <3>5. Range(types[k]) \cap Range(add(k)) = {}
      <4>1. \A x \in Range(add(k)) : x > TypeCount
        <5>1. \A j \in 1..n[k] : add(k)[j] > TypeCount
          BY <3>1, <3>2
        <5> QED BY <5>1 DEF Range
      <4>2. \A x \in Range(types[k]) : x <= TypeCount
        BY <3>1
      <4> QED BY <4>1, <4>2, <3>1
    <3>6. types'[k] = types[k] \o add(k)
      BY <1>1, <2>2
    <3> QED BY <3>1, <3>3, <3>4, <3>5, <3>6, ConcatInjective
  <2> QED BY <2>1, <2>2
<1>5. FetchedLists'
  BY <1>3 DEF FetchedLists, Running
<1>6. FetchedInjective'
  <2>1. \A c \in DOMAIN calls' :
          \/ c \in DOMAIN calls /\ calls'[c].fetched = calls[c].fetched
          \/ \A k \in KindSet : IsInjective(calls'[c].fetched[k])
    BY <1>2, EmptyInjective
  <2> QED BY <2>1, FetchedFrame DEF SpreadInv
<1>7. NodesSpread'
  <2>1. \A c \in DOMAIN calls' : \A k \in KindSet :
          \/ CallNodes(c, k)' = {}
          \/ /\ c \in DOMAIN calls
             /\ CallNodes(c, k)' = CallNodes(c, k)
             /\ calls'[c].fetched[k] = calls[c].fetched[k]
             /\ calls'[c].req[k] = calls[c].req[k]
    <3> SUFFICES ASSUME NEW c \in DOMAIN calls', NEW k \in KindSet
                 PROVE  \/ CallNodes(c, k)' = {}
                        \/ /\ c \in DOMAIN calls
                           /\ CallNodes(c, k)' = CallNodes(c, k)
                           /\ calls'[c].fetched[k] = calls[c].fetched[k]
                           /\ calls'[c].req[k] = calls[c].req[k]
      OBVIOUS
    <3>1. CASE c = Len(calls) + 1
      <4>1. PrefixInv
        BY DEF SpreadInv, TypeInv
      <4>2. CallNodes(c, k)' = {}
        BY <4>1, <1>3, <3>1, NewCallNoNodes
      <4> QED BY <4>2
    <3>2. CASE c # Len(calls) + 1
      BY <3>2, <1>2, <1>3 DEF CallNodes
    <3> QED BY <3>1, <3>2
  <2> QED BY <2>1, SpreadFrame DEF SpreadInv
<1> QED BY <1>4, <1>5, <1>6, <1>7

\* The running call has no nodes of a kind it has not put yet.
LEMMA NotPutYet ==
    ASSUME PrefixInv, Running, NEW m \in 1..3, stage \in 1..3,
           pc = "fetch" \/ m >= stage
    PROVE  CallNodes(Len(calls), Kinds[m]) = {}
<1>1. PrefixDone(Len(calls), IF pc = "put" THEN stage - 1 ELSE 0)
  BY DEF PrefixInv, RunningCall
<1>2. Cardinality(CallNodes(Len(calls), Kinds[m])) = 0
  BY <1>1 DEF PrefixDone, Running
<1>3. IsFiniteSet(nodes[Kinds[m]])
  BY KindsInKindSet DEF PrefixInv, NodesOfCalls
<1> QED BY <1>2, <1>3, CallNodesFinite

\* Every kind is one of the three of Kinds.
LEMMA KindSetIsKinds == \A k \in KindSet : \E m \in 1..3 : k = Kinds[m]
BY DEF KindSet

LEMMA FetchTypesSpread ==
    ASSUME SpreadInv, FetchTypes
    PROVE  (TypesInjective /\ FetchedLists /\ FetchedInjective /\ NodesSpread)'
<1> DEFINE k == Kinds[stage]
           L == Len(calls)
<1>1. /\ pc = "fetch" /\ stage \in 1..3 /\ k \in KindSet
      /\ calls \in Seq(CallShape) /\ L \in Nat /\ L > 0 /\ DOMAIN calls = 1..L
      /\ types \in [KindSet -> Seq(Nat)] /\ fetched \in [KindSet -> Seq(Nat)]
      /\ UNCHANGED <<types, nodes>>
  BY KindsInKindSet, LenProperties
     DEF SpreadInv, TypeInv, OwnKindInv, Shape, PrefixInv, RunningCall, Running, FetchTypes
<1>2. TypesInjective'
  BY <1>1 DEF SpreadInv, TypesInjective
<1>3. \A c \in DOMAIN calls : \A j \in KindSet : CallNodes(c, j)' = CallNodes(c, j)
  BY <1>1 DEF CallNodes
<1>4. CASE /\ fetched' = [fetched EXCEPT ![k] = @ \o types[FetchKind[k]]]
           /\ calls' = [calls EXCEPT ![Current].fetched = fetched']
           /\ pc' = IF stage = 3 THEN "put" ELSE "fetch"
           /\ stage' = IF stage = 3 THEN 1 ELSE stage + 1
  <2>1. fetched[k] = <<>>
    BY <1>1 DEF SpreadInv, FetchedLists
  <2>2. fetched' = [fetched EXCEPT ![k] = types[k]]
    <3>1. types[k] \in Seq(Nat) /\ FetchKind[k] = k
      BY <1>1, FetchKindIdentity
    <3>2. <<>> \o types[k] = types[k]
      BY <3>1, ConcatEmptySeq
    <3> QED BY <1>4, <2>1, <3>1, <3>2
  <2>3. fetched' \in [KindSet -> Seq(Nat)]
    BY <1>1, <2>2
  <2>4. /\ calls' \in Seq(CallShape) /\ Len(calls') = L
        /\ \A c \in 1..L : c # L => calls'[c] = calls[c]
        /\ calls'[L].req = calls[L].req
        /\ calls'[L].fetched = fetched'
    BY <1>1, <1>4, <2>3, SetFetchedFacts DEF Current
  <2>5. FetchedLists'
    <3>1. CASE stage = 3
      <4>1. \A j \in KindSet : fetched'[j] = types[j]
        <5> SUFFICES ASSUME NEW m \in 1..3 PROVE fetched'[Kinds[m]] = types[Kinds[m]]
          BY KindSetIsKinds
        <5>1. CASE m < 3
          <6>1. Kinds[m] # k /\ Kinds[m] \in KindSet
            BY <3>1, <5>1, KindsDistinct, KindsInKindSet
          <6> QED BY <6>1, <5>1, <3>1, <2>2, <1>1 DEF SpreadInv, FetchedLists
        <5>2. CASE m = 3
          BY <5>2, <3>1, <2>2, <1>1
        <5> QED BY <5>1, <5>2
      <4>2. fetched' = types'
        BY <4>1, <2>3, <1>1
      <4> QED BY <1>4, <3>1, <4>2, <2>4 DEF FetchedLists, Current, Running
    <3>2. CASE stage # 3
      <4>1. \A m \in 1..3 : fetched'[Kinds[m]] = IF m < stage + 1 THEN types[Kinds[m]] ELSE <<>>
        <5> SUFFICES ASSUME NEW m \in 1..3
                     PROVE  fetched'[Kinds[m]] = IF m < stage + 1 THEN types[Kinds[m]] ELSE <<>>
          OBVIOUS
        <5>1. CASE m = stage
          BY <5>1, <2>2, <1>1
        <5>2. CASE m # stage
          <6>1. Kinds[m] # k /\ Kinds[m] \in KindSet
            BY <5>2, <1>1, KindsDistinct, KindsInKindSet
          <6>2. fetched[Kinds[m]] = IF m < stage THEN types[Kinds[m]] ELSE <<>>
            BY <1>1 DEF SpreadInv, FetchedLists
          <6> QED BY <6>1, <6>2, <5>2, <2>2, <1>1
        <5> QED BY <5>1, <5>2
      <4> QED BY <1>4, <3>2, <4>1, <2>4, <1>1 DEF FetchedLists, Current, Running
    <3> QED BY <3>1, <3>2
  <2>6. FetchedInjective'
    <3>1. \A j \in KindSet : IsInjective(fetched'[j])
      <4> SUFFICES ASSUME NEW m \in 1..3 PROVE IsInjective(fetched'[Kinds[m]])
        BY KindSetIsKinds
      <4>1. fetched'[Kinds[m]] = types[Kinds[m]] \/ fetched'[Kinds[m]] = <<>>
        BY <2>5, <1>4, <1>1 DEF FetchedLists
      <4>2. IsInjective(types[Kinds[m]]) /\ IsInjective(<<>>)
        BY KindsInKindSet DEF SpreadInv, TypesInjective, IsInjective
      <4> QED BY <4>1, <4>2
    <3>2. \A c \in DOMAIN calls' :
            \/ c \in DOMAIN calls /\ calls'[c].fetched = calls[c].fetched
            \/ \A j \in KindSet : IsInjective(calls'[c].fetched[j])
      BY <3>1, <2>4, <1>1, LenProperties
    <3> QED BY <3>2, FetchedFrame DEF SpreadInv
  <2>7. NodesSpread'
    <3>1. \A c \in DOMAIN calls' : \A j \in KindSet :
            \/ CallNodes(c, j)' = {}
            \/ /\ c \in DOMAIN calls
               /\ CallNodes(c, j)' = CallNodes(c, j)
               /\ calls'[c].fetched[j] = calls[c].fetched[j]
               /\ calls'[c].req[j] = calls[c].req[j]
      <4> SUFFICES ASSUME NEW c \in DOMAIN calls', NEW j \in KindSet
                   PROVE  \/ CallNodes(c, j)' = {}
                          \/ /\ c \in DOMAIN calls
                             /\ CallNodes(c, j)' = CallNodes(c, j)
                             /\ calls'[c].fetched[j] = calls[c].fetched[j]
                             /\ calls'[c].req[j] = calls[c].req[j]
        OBVIOUS
      <4>1. c \in 1..L
        BY <2>4, LenProperties
      <4>2. CASE c = L
        <5>1. PICK m \in 1..3 : j = Kinds[m]
          BY KindSetIsKinds
        <5>2. CallNodes(L, Kinds[m]) = {}
          BY <1>1, NotPutYet DEF SpreadInv, TypeInv, Running
        <5> QED BY <4>2, <5>1, <5>2, <1>3, <1>1
      <4>3. CASE c # L
        BY <4>1, <4>3, <2>4, <1>3, <1>1
      <4> QED BY <4>2, <4>3
    <3> QED BY <3>1, SpreadFrame DEF SpreadInv
  <2> QED BY <1>2, <2>5, <2>6, <2>7
<1>5. CASE pc' = "idle" /\ SetResult("error") /\ UNCHANGED <<fetched, stage>>
  <2>1. /\ calls' \in Seq(CallShape) /\ Len(calls') = L
        /\ \A c \in 1..L : c # L => calls'[c] = calls[c]
        /\ calls'[L].req = calls[L].req
        /\ calls'[L].fetched = calls[L].fetched
    BY <1>1, <1>5, SetResultFacts
  <2>2. \A c \in DOMAIN calls' : c \in DOMAIN calls /\ calls'[c] .fetched = calls[c].fetched
                                   /\ calls'[c].req = calls[c].req
    BY <2>1, <1>1, LenProperties
  <2>3. FetchedLists'
    BY <1>5 DEF FetchedLists, Running
  <2>4. FetchedInjective'
    BY <2>2, FetchedFrame DEF SpreadInv
  <2>5. NodesSpread'
    BY <2>2, <1>3, SpreadFrame DEF SpreadInv
  <2> QED BY <1>2, <2>3, <2>4, <2>5
<1> QED BY <1>4, <1>5 DEF FetchTypes

\* A put that adds no nodes and leaves InsertNodesInDb: the division by
\* zero and the store's error.
LEMMA PutReturnsSpread ==
    ASSUME SpreadInv, pc = "put", UNCHANGED <<types, nodes>>, ~Running',
           NEW r \in {"running", "ok", "error", "crashed"}, SetResult(r)
    PROVE  (TypesInjective /\ FetchedLists /\ FetchedInjective /\ NodesSpread)'
<1>1. calls \in Seq(CallShape) /\ Len(calls) > 0 /\ Len(calls) \in Nat
  BY LenProperties DEF SpreadInv, TypeInv, PrefixInv, RunningCall, Running
<1>2. /\ Len(calls') = Len(calls)
      /\ \A c \in 1..Len(calls) : c # Len(calls) => calls'[c] = calls[c]
      /\ calls'[Len(calls)].req = calls[Len(calls)].req
      /\ calls'[Len(calls)].fetched = calls[Len(calls)].fetched
      /\ calls' \in Seq(CallShape)
  BY <1>1, SetResultFacts
<1>3. \A c \in DOMAIN calls' : c \in DOMAIN calls /\ calls'[c].fetched = calls[c].fetched
                                 /\ calls'[c].req = calls[c].req
  BY <1>1, <1>2, LenProperties
<1>4. \A c \in DOMAIN calls : \A j \in KindSet : CallNodes(c, j)' = CallNodes(c, j)
  BY DEF CallNodes
<1>5. TypesInjective' /\ FetchedLists'
  <2>1. TypesInjective'
    BY DEF SpreadInv, TypesInjective
  <2>2. FetchedLists'
    BY DEF FetchedLists, Running
  <2> QED BY <2>1, <2>2
<1>6. FetchedInjective'
  BY <1>3, FetchedFrame DEF SpreadInv
<1>7. NodesSpread'
  BY <1>3, <1>4, SpreadFrame DEF SpreadInv
<1> QED BY <1>5, <1>6, <1>7

\* The request PutNodes sends is the spread the history describes.
LEMMA RequestIsSpread ==
    ASSUME NEW k, NEW c, c = Current, calls[c].fetched[k] = fetched[k],
           calls[c].req[k] = req[k]
    PROVE  NodesRequest(k) = SpreadOf(calls[c].fetched[k], calls[c].req[k], c)
BY DEF NodesRequest, SpreadOf

LEMMA PutSucceedsSpread ==
    ASSUME SpreadInv, pc = "put",
           nodes' = [nodes EXCEPT ![Kinds[stage]] = @ \cup NodesRequest(Kinds[stage])],
           NextStage, UNCHANGED <<types, req, fetched>>
    PROVE  (TypesInjective /\ FetchedLists /\ FetchedInjective /\ NodesSpread)'
<1> DEFINE k == Kinds[stage]
<1>1. PICK L \in Nat : /\ L = Len(calls) /\ L > 0 /\ DOMAIN calls = 1..L
                       /\ calls \in Seq(CallShape) /\ stage \in 1..3 /\ k \in KindSet
                       /\ nodes \in [KindSet -> SUBSET [type : Nat, call : Nat, i : 0..MaxCount - 1]]
                       /\ calls[L].req = req /\ calls[L].fetched = fetched
  BY LenProperties, KindsInKindSet
     DEF SpreadInv, TypeInv, OwnKindInv, Shape, PrefixInv, RunningCall, Running,
         FetchedLists, BoundsInv, NodeShape, Current
<1>2. /\ Len(calls') = L /\ calls' \in Seq(CallShape)
      /\ \A c \in 1..L : calls'[c].fetched = calls[c].fetched /\ calls'[c].req = calls[c].req
  <2>1. CASE stage = 3
    <3>1. SetResult("ok")
      BY <2>1 DEF NextStage
    <3>2. QED
      BY <1>1, <3>1, SetResultFacts
  <2>2. CASE stage # 3
    BY <1>1, <2>2 DEF NextStage
  <2> QED BY <2>1, <2>2
<1>3. DOMAIN calls' = 1..L
  BY <1>2, LenProperties
<1>4. TypesInjective'
  BY DEF SpreadInv, TypesInjective
<1>5. FetchedLists'
  <2>1. CASE stage = 3
    BY <2>1 DEF NextStage, FetchedLists, Running
  <2>2. CASE stage # 3
    BY <2>2 DEF NextStage, SpreadInv, FetchedLists, Running, Current
  <2> QED BY <2>1, <2>2
<1>6. FetchedInjective'
  BY <1>1, <1>2, <1>3, FetchedFrame DEF SpreadInv
<1>7. NodesSpread'
  <2> SUFFICES ASSUME NEW c \in 1..L, NEW j \in KindSet
               PROVE  CallNodes(c, j)' = {} \/ CallNodes(c, j)' = Spread(c, j)'
    BY <1>3 DEF NodesSpread
  <2>1. Spread(c, j)' = Spread(c, j)
    BY <1>2 DEF Spread
  <2>2. \A x \in NodesRequest(k) : x.call = L
    BY <1>1 DEF NodesRequest, Current
  <2>3. CASE j = k /\ c = L
    <3>1. CallNodes(c, j) = {}
      <4>1. PrefixInv /\ Running
        BY DEF SpreadInv, TypeInv, Running
      <4>2. \A m \in 1..3 : m >= stage => CallNodes(Len(calls), Kinds[m]) = {}
        BY <4>1, <1>1, NotPutYet
      <4> QED BY <4>2, <1>1, <2>3
    <3>2. CallNodes(c, j)' = NodesRequest(k)
      BY <1>1, <2>2, <2>3, <3>1 DEF CallNodes
    <3>3. NodesRequest(k) = Spread(c, j)
      BY <1>1, <2>3, RequestIsSpread DEF Spread, Current
    <3> QED BY <2>1, <3>2, <3>3
  <2>4. CASE ~(j = k /\ c = L)
    <3>1. CallNodes(c, j)' = CallNodes(c, j)
      BY <1>1, <2>2, <2>4 DEF CallNodes
    <3> QED BY <2>1, <3>1, <1>1 DEF SpreadInv, NodesSpread
  <2> QED BY <2>3, <2>4
<1> QED BY <1>4, <1>5, <1>6, <1>7

LEMMA PutNodesSpread ==
    ASSUME SpreadInv, PutNodes
    PROVE  (TypesInjective /\ FetchedLists /\ FetchedInjective /\ NodesSpread)'
<1> DEFINE k == Kinds[stage]
<1>1. pc = "put" /\ UNCHANGED <<types, req, fetched>>
  BY DEF PutNodes
<1>2. CASE /\ req[k] > 0 /\ fetched[k] = <<>>
           /\ \/ pc' = "crashed" /\ SetResult("crashed")
              \/ pc' = "idle" /\ SetResult("error")
           /\ UNCHANGED <<nodes, stage>>
  BY <1>1, <1>2, PutReturnsSpread DEF Running
<1>3. CASE /\ ~(req[k] > 0 /\ fetched[k] = <<>>)
           /\ nodes' = [nodes EXCEPT ![k] = @ \cup NodesRequest(k)]
           /\ NextStage
  BY <1>1, <1>3, PutSucceedsSpread
<1>4. CASE /\ ~(req[k] > 0 /\ fetched[k] = <<>>)
           /\ pc' = "idle" /\ SetResult("error")
           /\ UNCHANGED <<nodes, stage>>
  BY <1>1, <1>4, PutReturnsSpread DEF Running
<1> QED BY <1>2, <1>3, <1>4 DEF PutNodes

LEMMA NextSpread == SpreadInv /\ [Next]_vars => SpreadInv'
<1> SUFFICES ASSUME SpreadInv, [Next]_vars
             PROVE  (TypesInjective /\ FetchedLists /\ FetchedInjective /\ NodesSpread)' /\ TypeInv'
  BY DEF SpreadInv
<1>1. TypeInv'
  BY NextOwnKind, NextPrefix, NextBounds DEF SpreadInv, TypeInv
<1>2. CASE \E n \in Counts : InsertTypesInDb(n)
  BY <1>1, <1>2, InsertTypesSpread
<1>3. CASE \E n \in Counts : CallInsertNodesInDb(n)
  BY <1>1, <1>3, CallInsertNodesSpread
<1>4. CASE FetchTypes
  BY <1>1, <1>4, FetchTypesSpread
<1>5. CASE PutNodes
  BY <1>1, <1>5, PutNodesSpread
<1>6. CASE Restart
  BY <1>1, <1>6, IdleStepSpread DEF Restart, Running
<1>7. CASE \E sp \in Specs : GetExistingTypes(sp) \/ GetExistingNodes(sp)
  <2>1. ~Running' /\ UNCHANGED <<types, nodes, calls>>
    BY <1>7 DEF GetExistingTypes, GetExistingNodes, Running
  <2> QED BY <1>1, <2>1, IdleStepSpread
<1>8. CASE UNCHANGED vars
  BY <1>1, <1>8 DEF vars, SpreadInv, TypesInjective, FetchedLists, FetchedInjective,
                    NodesSpread, Spread, SpreadOf, CallNodes, Running, Current
<1> QED BY <1>2, <1>3, <1>4, <1>5, <1>6, <1>7, <1>8 DEF Next

LEMMA InitSpread == Init => SpreadInv
<1> SUFFICES ASSUME Init PROVE SpreadInv
  OBVIOUS
<1>1. TypeInv
  BY InitOwnKind, InitPrefix, InitBounds DEF TypeInv
<1>2. TypesInjective
  BY EmptyInjective DEF Init, TypesInjective
<1>3. FetchedLists /\ FetchedInjective /\ NodesSpread
  BY DEF Init, FetchedLists, Running, FetchedInjective, NodesSpread
<1> QED BY <1>1, <1>2, <1>3 DEF SpreadInv

-----------------------------------------------------------------------------
(* Theorem.                                                                *)

\* Round-robin types: for every MaxCount and MaxCalls, across failed or
\* partial InsertNodesInDb calls, process deaths and restarts, the nodes one
\* call put for a kind are spread by type_index = i % size over the types
\* it fetched, so that any two of those types got node counts at most one
\* apart.
THEOREM TypesSpreadEvenly == Spec => []TypesRoundRobin
<1>1. Init => SpreadInv
  BY InitSpread
<1>2. SpreadInv /\ [Next]_vars => SpreadInv'
  BY NextSpread
<1>3. SpreadInv => TypesRoundRobin
  BY SpreadGivesRoundRobin
<1>4. QED
  BY <1>1, <1>2, <1>3, PTL DEF Spec

=============================================================================
