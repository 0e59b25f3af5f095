-------------------------------- MODULE MCRib --------------------------------
(***************************************************************************)
(* The two passes of Rib's type inference that are modelled, checked side *)
(* by side: a state examines either a list of types (RibFlatten) or an     *)
(* expression whose match variables are bound (RibBinding).                *)
(***************************************************************************)
EXTENDS RibFlatten, RibBinding

CONSTANTS a, b, x, y

-----------------------------------------------------------------------------
(* Types for flatten.rs.                                                   *)

MCAtoms == {a, b}

\* Non-empty lists of at most len members of S.
ListsOf(S, len) == UNION {[1..m -> S] : m \in 1..len}

\* Types nested at most one and two levels deep, over lists of at most two.
Types0 == {Atom(t) : t \in MCAtoms}
Types1 == Types0 \cup {AllOf(l) : l \in ListsOf(Types0, 2)} \cup {OneOf(l) : l \in ListsOf(Types0, 2)}
Types2 == Types0 \cup {AllOf(l) : l \in ListsOf(Types1, 2)} \cup {OneOf(l) : l \in ListsOf(Types1, 2)}

\* Every list of up to three shallow types, and every list of one deep
\* type alone or next to a shallow one, in either order.
MCInputs == ListsOf(Types1, 3) \cup ListsOf(Types2, 1)
            \cup {<<t, u>> : t \in Types2, u \in Types1} \cup {<<u, t>> : t \in Types2, u \in Types1}

-----------------------------------------------------------------------------
(* Expressions for variable_binding_pattern_match.rs.                      *)

MCNames == {x, y}

\* some(n), none, and `y @ some(x)`.
Some(n) == PCtor(<<PLit(Id(n))>>)
None == PCtor(<<>>)
Patterns == {Some(x), Some(y), None, PAs(y, Some(x))}

\* A use of either name, and `{ let x = 1; x }`.
Uses == {Id(x), Id(y), Node(<<Let(x, Num), Id(x)>>)}

\* A match on a global name with one or two arms drawn from S.
Matches(s, S) == {Match(Id(s), l) : l \in ListsOf(S, 2)}

Arms1 == {Arm(p, r) : p \in Patterns, r \in Uses}
Match1 == Matches(x, Arms1)

\* An outer match whose first arm resolves to a one-arm inner match, alone
\* or followed by a use of x, and whose second arm is absent or a use.
Inner == {Match(Id(n), <<c>>) : n \in MCNames, c \in Arms1}
Outer == {Match(Id(x), <<Arm(p, r)>> \o l) :
              p \in Patterns, r \in Inner \cup {Node(<<m, Id(x)>>) : m \in Inner},
              l \in {<<>>} \cup {<<Arm(Some(x), Id(x))>>, <<Arm(Some(y), Id(x))>>}}

\* The expressions of the unit tests of variable_binding_pattern_match.rs.
TestSimple == Match(Node(<<Id(x)>>), <<Arm(Some(x), Id(x)), Arm(None, Num)>>)
TestShadow == Match(Node(<<Id(x)>>), <<Arm(Some(x), Node(<<Let(x, Num), Id(x)>>)), Arm(None, Num)>>)
TestBlock == Node(<<TestSimple, TestSimple>>)
TestNested == Match(Node(<<Node(<<Id(x)>>)>>),
                    <<Arm(Some(x), Match(Id(x), <<Arm(Some(x), Id(x)), Arm(None, Num)>>)),
                      Arm(Some(x), Num)>>)

MCExprInputs == Match1 \cup Outer \cup {TestSimple, TestShadow, TestBlock, TestNested}

-----------------------------------------------------------------------------
(* A state examines a list of types with no expression, or an expression   *)
(* with the empty list; the list is shortened, the expression stays.        *)

MCInit == \/ Init /\ expr = NoExpr /\ order = "dfs"
          \/ types = <<>> /\ BindInit

MCNext == Examine /\ UNCHANGED <<expr, order>>

MCSpec == MCInit /\ [][MCNext]_<<types, expr, order>>
================================================================================
