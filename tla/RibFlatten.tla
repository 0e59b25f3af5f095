----------------------------- MODULE RibFlatten -----------------------------
(***************************************************************************)
(* Rib's flattening of intersection and union types                        *)
(* (golem-rib/src/inferred_type/flatten.rs).                               *)
(*                                                                         *)
(* flatten_all_of_list takes the members of an AllOf and returns them with *)
(* nested AllOfs spliced in and the members of every OneOf gathered into a *)
(* single trailing OneOf; flatten_one_of_list does the dual for a OneOf.   *)
(* Both share one `seen` set per call, so a type met again through a nested *)
(* OneOf or AllOf is dropped.  Every other InferredType (a concrete type)  *)
(* is a leaf here, an atom.                                                *)
(*                                                                         *)
(* The operators are checked against reference definitions over every     *)
(* list of Inputs and each of its suffixes; the state is the list under   *)
(* examination.                                                            *)
(***************************************************************************)
EXTENDS Sequences, FiniteSets, SequencesExt

CONSTANTS
    Atoms,   \* the concrete types (model values)
    Inputs   \* the lists of InferredType the operators are applied to

\* An InferredType: an atom, or an AllOf / OneOf of a list of types.
Atom(a) == [k |-> "atom", a |-> a, ts |-> <<>>]
AllOf(ts) == [k |-> "allOf", a |-> "", ts |-> ts]
OneOf(ts) == [k |-> "oneOf", a |-> "", ts |-> ts]

\* The accumulators of one call: one_of_types, all_of_types and seen.
NoTypes == [one |-> <<>>, all |-> <<>>, seen |-> {}]

\* `for t in flattened { if seen.insert(t.clone()) { <field>.push(t) } }`
PushUnseen(acc, field, flattened) ==
    FoldLeft(LAMBDA c, t : IF t \in c.seen THEN c
                           ELSE [c EXCEPT !.seen = @ \cup {t}, ![field] = Append(@, t)],
             acc, flattened)

RECURSIVE FlattenAllOfList(_), FlattenOneOfList(_)

\* One iteration of flatten_all_of_list's loop: a plain type is pushed
\* without consulting `seen`.
AllOfStep(acc, typ) ==
    CASE typ.k = "oneOf" -> PushUnseen(acc, "one", FlattenOneOfList(typ.ts))
      [] typ.k = "allOf" -> PushUnseen(acc, "all", FlattenAllOfList(typ.ts))
      [] OTHER           -> [acc EXCEPT !.all = Append(@, typ)]

\* Mutant: a plain type pushed without the `seen` check, as in the AllOf loop.
OneOfStepWithoutSeen(acc, typ) ==
    CASE typ.k = "oneOf" -> PushUnseen(acc, "one", FlattenOneOfList(typ.ts))
      [] typ.k = "allOf" -> PushUnseen(acc, "all", FlattenAllOfList(typ.ts))
      [] OTHER           -> [acc EXCEPT !.one = Append(@, typ)]

\* One iteration of flatten_one_of_list's loop.
OneOfStep(acc, typ) ==
    CASE typ.k = "oneOf" -> PushUnseen(acc, "one", FlattenOneOfList(typ.ts))
      [] typ.k = "allOf" -> PushUnseen(acc, "all", FlattenAllOfList(typ.ts))
      [] OTHER           -> PushUnseen(acc, "one", <<typ>>)

\* Mutant: the gathered OneOf members are dropped.
FlattenAllOfListDroppingOneOf(types) ==
    FoldLeft(AllOfStep, NoTypes, types).all

FlattenAllOfList(types) ==
    LET acc == FoldLeft(AllOfStep, NoTypes, types) IN
    IF acc.one # <<>> THEN Append(acc.all, OneOf(acc.one)) ELSE acc.all

FlattenOneOfList(types) ==
    LET acc == FoldLeft(OneOfStep, NoTypes, types) IN
    IF acc.all # <<>> THEN Append(acc.one, AllOf(acc.all)) ELSE acc.one

-----------------------------------------------------------------------------
(* Reference definitions.                                                  *)

RECURSIVE Leaves(_)
\* The concrete types a type is built from.
Leaves(t) == IF t.k = "atom" THEN {t.a} ELSE UNION {Leaves(u) : u \in ToSet(t.ts)}

ListLeaves(l) == UNION {Leaves(t) : t \in ToSet(l)}

RECURSIVE HasAllOfUnderOneOf(_, _)
\* Some AllOf occurs inside a OneOf (at any depth below `under`).
HasAllOfUnderOneOf(t, under) ==
    \/ t.k = "allOf" /\ under
    \/ \E u \in ToSet(t.ts) : HasAllOfUnderOneOf(u, under \/ t.k = "oneOf")

\* The lists Rib's inference produces: "there is no situation of a OneOf
\* having AllOf".
RibShaped(l) == \A t \in ToSet(l) : ~HasAllOfUnderOneOf(t, FALSE)

IsAtom(t) == t.k = "atom"
DistinctAtoms(l) == (\A i \in DOMAIN l : IsAtom(l[i])) /\ Cardinality(ToSet(l)) = Len(l)

VARIABLE types

Init == types \in Inputs

\* The list without its first member is examined next; the empty list is
\* the last.
Examine == types' = IF types = <<>> THEN types ELSE Tail(types)

Spec == Init /\ [][Examine]_types

-----------------------------------------------------------------------------
(* Properties.                                                             *)

\* Flattening neither loses nor invents a concrete type: the members of
\* every nested OneOf and AllOf, and the trailing OneOf (AllOf) that
\* flatten_all_of_list (flatten_one_of_list) builds, keep all of them.
FlattenKeepsLeaves ==
    /\ ListLeaves(FlattenAllOfList(types)) = ListLeaves(types)
    /\ ListLeaves(FlattenOneOfList(types)) = ListLeaves(types)

\* On the shapes Rib produces, the result is flat, as the comments of
\* flatten.rs promise: the members of an AllOf come out as concrete types
\* and OneOfs of distinct concrete types, and the members of a OneOf as
\* distinct concrete types, whatever the nesting and repetition of the input.
FlattenNormalForm ==
    /\ RibShaped(types) =>
          \A t \in ToSet(FlattenAllOfList(types)) : IsAtom(t) \/ (t.k = "oneOf" /\ DistinctAtoms(t.ts))
    /\ RibShaped(<<OneOf(types)>>) => DistinctAtoms(FlattenOneOfList(types))
=============================================================================
