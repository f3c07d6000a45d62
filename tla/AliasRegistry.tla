---------------------------- MODULE AliasRegistry ----------------------------
(***************************************************************************)
(* What the alias registry of a filter query builder promises, with no    *)
(* counter and no nested maps: a binding of concepts to table aliases in  *)
(* which the base concept starts bound to the base alias, a concept is    *)
(* bound at most once, a newly bound concept gets an alias no concept     *)
(* holds, and a new builder starts over.  FilterQueryBuilder implements   *)
(* it with binding <- mentioned.                                           *)
(***************************************************************************)
EXTENDS Naturals

CONSTANTS
    Concepts,     \* the concepts a predicate can mention
    BaseConcept,  \* the concept of the base table
    BaseAlias,    \* its alias
    Unbound       \* the value of a concept with no alias, not a number

VARIABLE binding

\* The aliases held by some concept (Unbound among them unless all are bound).
Aliases == {binding[c] : c \in Concepts}

InitBinding == [c \in Concepts |-> IF c = BaseConcept THEN BaseAlias ELSE Unbound]

Init == binding = InitBinding

\* The first mention of c binds it to a fresh alias.
Bind(c) ==
    /\ binding[c] = Unbound
    /\ binding'[c] \in Nat
    /\ binding'[c] \notin Aliases
    /\ binding' = [binding EXCEPT ![c] = binding'[c]]

\* The builder is dropped and a new one constructed.
Reset == binding' = InitBinding

Next == (\E c \in Concepts : Bind(c)) \/ Reset

Spec == Init /\ [][Next]_binding

\* Two distinct concepts never hold the same alias.
Injective ==
    \A c, d \in Concepts : binding[c] # Unbound /\ binding[c] = binding[d] => c = d
=============================================================================
