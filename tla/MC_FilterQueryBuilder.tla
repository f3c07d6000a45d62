----------------------- MODULE MC_FilterQueryBuilder -----------------------
(***************************************************************************)
(* A small instance of FilterQueryBuilder for TLC: all three node kinds,   *)
(* two plain attributes and "type", one neighbor name for every prefix,    *)
(* two property names (so that distinct properties get distinct joins),    *)
(* a property and a custom property with the same rest (so that the two    *)
(* categories must not share an alias), and a name with a prefix the       *)
(* builder does not know.                                                  *)
(***************************************************************************)
EXTENDS FilterQueryBuilder

MCNodeKinds == {"Artifact", "Execution", "Context"}
MCAttrNames == {"uri", "id", "type"}
MCSplitName ==
    [n \in {"contexts_c", "properties_p", "properties_q", "custom_properties_p",
            "parent_contexts_c", "child_contexts_c", "events_e", "artifacts_a"} |->
        CASE n = "contexts_c"          -> <<"contexts_", "c">>
          [] n = "properties_p"        -> <<"properties_", "p">>
          [] n = "properties_q"        -> <<"properties_", "q">>
          [] n = "custom_properties_p" -> <<"custom_properties_", "p">>
          [] n = "parent_contexts_c"   -> <<"parent_contexts_", "c">>
          [] n = "child_contexts_c"    -> <<"child_contexts_", "c">>
          [] n = "events_e"            -> <<"events_", "e">>
          [] n = "artifacts_a"         -> <<"artifacts_", "a">>]
MCNeighborNames == DOMAIN MCSplitName

\* The resolver's contract (spec 4.2, 6, 7): it hands a builder for T only
\* neighbor references whose relationship T has; unknown prefixes do reach
\* the builder (context-artifacts and context-executions are parsed).
ResolverAdmits(T, ref) ==
    ref.struct =>
        /\ T = "Context" => ~StartsWith(ref.name, "contexts_")
                            /\ ~StartsWith(ref.name, "events_")
        /\ T # "Context" => ~StartsWith(ref.name, "parent_contexts_")
                            /\ ~StartsWith(ref.name, "child_contexts_")

\* The references spec 7 calls InvalidRelationshipForRecordKind (a context
\* or event join for Context, a parent or child context join for Artifact
\* or Execution; spec 8's negative scenario is the first), handed to the
\* builder besides what the resolver admits.
InvalidRelationship(T, ref) ==
    \/ ResolverAdmits(T, ref)
    \/ ref.struct

MCMaxRefs == 4
=============================================================================
