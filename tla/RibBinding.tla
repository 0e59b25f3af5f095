----------------------------- MODULE RibBinding -----------------------------
(***************************************************************************)
(* Rib's binding of pattern-match variables                                *)
(* (golem-rib/src/type_inference/variable_binding_pattern_match.rs).       *)
(*                                                                         *)
(* bind_variables_of_pattern_match gives every arm of every match a global *)
(* index and rewrites the identifiers its pattern introduces, and their    *)
(* uses in its resolution expression, to MatchIdentifier(name, index).     *)
(* bind_variables walks the queue ExprVisitor::top_down builds of every    *)
(* sub-expression, so a nested match is processed once for each enclosing *)
(* arm and once more from the top; only the last write to an identifier    *)
(* stays.                                                                  *)
(*                                                                         *)
(* The expression tree never changes shape and identifiers never change    *)
(* name, so the in-place rewrite is modelled as a function `vid` from the  *)
(* paths of identifier nodes to their VariableId; the tree is a constant.  *)
(***************************************************************************)
EXTENDS Naturals, Sequences, SequencesExt

CONSTANTS
    Names,       \* identifier names (model values)
    ExprInputs,  \* the expressions the pass is applied to
    NoExpr       \* the state in which no expression is examined

(***************************************************************************)
(* Expressions: identifiers, let bindings, matches with their arms, and    *)
(* any other expression (block, call, list, option...) as a node with     *)
(* children.  Arm patterns: a literal expression, a wildcard, `name @ p`   *)
(* (ArmPattern::As) and constructors (Constructor, TupleConstructor,      *)
(* ListConstructor and RecordConstructor are walked alike).                *)
(***************************************************************************)
Id(n) == [k |-> "id", n |-> n, c |-> <<>>]
Num == [k |-> "num", n |-> "", c |-> <<>>]
Let(n, e) == [k |-> "let", n |-> n, c |-> <<e>>]
Node(es) == [k |-> "node", n |-> "", c |-> es]
Arm(p, r) == [k |-> "arm", n |-> "", c |-> <<p, r>>]
Match(s, arms) == [k |-> "match", n |-> "", c |-> <<s>> \o arms]
PLit(e) == [k |-> "plit", n |-> "", c |-> <<e>>]
PWild == [k |-> "wild", n |-> "", c |-> <<>>]
PAs(n, p) == [k |-> "as", n |-> n, c |-> <<p>>]
PCtor(ps) == [k |-> "ctor", n |-> "", c |-> ps]

RECURSIVE At(_, _)
\* The sub-tree of e at path p.
At(e, p) == IF p = <<>> THEN e ELSE At(e.c[Head(p)], Tail(p))

RECURSIVE Paths(_, _)
\* The paths of every node of the sub-tree at p.
Paths(e, p) == {p} \cup UNION {Paths(e, p \o <<j>>) : j \in DOMAIN At(e, p).c}

\* VariableId::Global(name) and VariableId::MatchIdentifier(name, index).
Global(n) == [n |-> n, i |-> 0]
MatchIdentifier(n, i) == [n |-> n, i |-> i]

IdSlots(e) == {p \in Paths(e, <<>>) : At(e, p).k = "id"}

\* Expr::from_text leaves every identifier global.
InitialVid(e) == [p \in IdSlots(e) |-> Global(At(e, p).n)]

\* The sub-expressions ExprVisitor visits below the expression at p: the
\* predicate and the resolution of every arm of a match, the children of
\* any other expression.
ExprChildren(e, p) ==
    LET t == At(e, p) IN
    IF t.k = "match"
    THEN <<p \o <<1>>>> \o [j \in 1..Len(t.c) - 1 |-> p \o <<j + 1, 2>>]
    ELSE [j \in DOMAIN t.c |-> p \o <<j>>]

(***************************************************************************)
(* ExprVisitor::top_down (outside src/): every sub-expression after its    *)
(* ancestors.  Its order among the rest is not known here, so both         *)
(* depth-first pre-order and breadth-first order are checked.              *)
(***************************************************************************)
RECURSIVE DepthFirst(_, _), BreadthFirst(_, _)
DepthFirst(e, p) == <<p>> \o FlattenSeq([j \in DOMAIN ExprChildren(e, p) |-> DepthFirst(e, ExprChildren(e, p)[j])])
BreadthFirst(e, level) ==
    IF level = <<>> THEN <<>>
    ELSE level \o BreadthFirst(e, FlattenSeq([j \in DOMAIN level |-> ExprChildren(e, level[j])]))

TopDown(e, p, order) == IF order = "dfs" THEN DepthFirst(e, p) ELSE BreadthFirst(e, <<p>>)

RECURSIVE LhsIdentifiers(_, _)
\* update_all_identifier_in_lhs_expr: the identifier nodes of a pattern's
\* literal expression, all of them rewritten.
LhsIdentifiers(e, p) ==
    IF At(e, p).k = "id" THEN <<p>>
    ELSE FlattenSeq([j \in DOMAIN At(e, p).c |-> LhsIdentifiers(e, p \o <<j>>)])

RECURSIVE Go(_, _)
\* process_arm's `go`: the names an arm pattern introduces, in the order it
\* pushes them (`name @` first, then the sub-pattern), with the identifier
\* nodes to rewrite; an `@` name has no node.
Go(e, p) ==
    LET t == At(e, p)
        sub == [j \in DOMAIN t.c |-> Go(e, p \o <<j>>)]
    IN CASE t.k = "plit" -> [names |-> [j \in 1..Len(LhsIdentifiers(e, p \o <<1>>)) |->
                                           At(e, LhsIdentifiers(e, p \o <<1>>)[j]).n],
                             nodes |-> ToSet(LhsIdentifiers(e, p \o <<1>>))]
         [] t.k = "as"   -> [names |-> <<t.n>> \o sub[1].names, nodes |-> sub[1].nodes]
         [] OTHER        -> [names |-> FlattenSeq([j \in DOMAIN sub |-> sub[j].names]),
                             nodes |-> UNION {sub[j].nodes : j \in DOMAIN sub}]

RECURSIVE BindVariables(_, _, _, _, _, _), ProcessArm(_, _, _, _, _)

\* Mutant: an arm is numbered without `index += 1`, so the first arm of a
\* match shares the index of the arm around it.
MatchStepWithoutIncrement(e, order, r, acc) ==
    FoldLeft(LAMBDA a, j :
                LET out == ProcessArm(e, order, r \o <<j + 1>>, a.index, a.vid) IN
                [a EXCEPT !.index = out.index, !.vid = out.vid],
             acc, [j \in 1..Len(At(e, r).c) - 1 |-> j])

\* `for arm in match_arms { index += 1; index = process_arm(arm, index) }`.
MatchStep(e, order, r, acc) ==
    FoldLeft(LAMBDA a, j :
                LET out == ProcessArm(e, order, r \o <<j + 1>>, a.index + 1, a.vid) IN
                [a EXCEPT !.index = out.index, !.vid = out.vid],
             acc, [j \in 1..Len(At(e, r).c) - 1 |-> j])

\* The Identifier case: rebind to the first match identifier of the same
\* name, unless a let of that name was popped before in this call.
IdentifierStep(e, r, ids, acc) ==
    LET name == At(e, r).n
        j == SelectInSeq(ids, LAMBDA x : x.n = name)
    IN IF j # 0 /\ name \notin acc.shadowed
       THEN [acc EXCEPT !.vid[r] = ids[j]]
       ELSE acc

\* bind_variables: pop the queue of top_down(expr) from the front;
\* shadowed_let_binding holds every let name popped so far in this call.
BindVariables(e, order, p, previous, ids, vid) ==
    LET step(acc, r) ==
            CASE At(e, r).k = "match" -> MatchStep(e, order, r, acc)
              [] At(e, r).k = "let"   -> [acc EXCEPT !.shadowed = @ \cup {At(e, r).n}]
              [] At(e, r).k = "id"    -> IdentifierStep(e, r, ids, acc)
              [] OTHER                -> acc
        out == FoldLeft(step, [index |-> previous, vid |-> vid, shadowed |-> {}], TopDown(e, p, order))
    IN [index |-> out.index, vid |-> out.vid]

\* process_arm: rewrite the pattern's identifiers to MatchIdentifier(name,
\* index), then bind its resolution expression with the names it introduces.
ProcessArm(e, order, a, index, vid) ==
    LET g == Go(e, a \o <<1>>)
        ids == [j \in DOMAIN g.names |-> MatchIdentifier(g.names[j], index)]
        vid1 == [s \in DOMAIN vid |-> IF s \in g.nodes THEN MatchIdentifier(At(e, s).n, index) ELSE vid[s]]
    IN BindVariables(e, order, a \o <<2>>, index, ids, vid1)

\* bind_variables_of_pattern_match: `bind_variables(expr, 0, &mut [])`.
BindVariablesOfPatternMatch(e, order) ==
    BindVariables(e, order, <<>>, 0, <<>>, InitialVid(e)).vid

-----------------------------------------------------------------------------
(* Reference definitions: lexical scope.                                   *)

RECURSIVE PatternNames(_, _)
\* The names an arm pattern binds.
PatternNames(e, p) ==
    LET t == At(e, p) IN
    CASE t.k = "plit" -> {At(e, s).n : s \in ToSet(LhsIdentifiers(e, p \o <<1>>))}
      [] t.k = "as"   -> {t.n} \cup PatternNames(e, p \o <<1>>)
      [] OTHER        -> UNION {PatternNames(e, p \o <<j>>) : j \in DOMAIN t.c}

\* The innermost arm around the node at p whose pattern binds its name, or
\* <<>> when the name is free there.
Binder(e, p) ==
    LET n == At(e, p).n
        binders == {SubSeq(p, 1, m) : m \in 0..Len(p) - 1} \cap
                   {a \in Paths(e, <<>>) : At(e, a).k = "arm" /\ IsPrefix(a \o <<2>>, p)
                                          /\ n \in PatternNames(e, a \o <<1>>)}
    IN IF binders = {} THEN <<>> ELSE CHOOSE a \in binders : \A b \in binders : Len(b) <= Len(a)

\* The identifier nodes of an arm's pattern.
PatternSlots(e, a) == {s \in IdSlots(e) : IsPrefix(a \o <<1>>, s)}

\* The identifier nodes in expressions (not in patterns).
UseSlots(e) == {s \in IdSlots(e) : \A a \in Paths(e, <<>>) : At(e, a).k = "arm" => ~IsPrefix(a \o <<1>>, s)}

\* A let of the name somewhere in the arm's resolution expression.
LetInArm(e, a, n) == \E q \in Paths(e, a \o <<2>>) : At(e, q).k = "let" /\ At(e, q).n = n

\* The arms of an expression.
Arms(e) == {a \in Paths(e, <<>>) : At(e, a).k = "arm"}

-----------------------------------------------------------------------------
(* The expression under examination, and the order top_down takes.         *)

VARIABLES expr, order

BindInit == expr \in ExprInputs /\ order \in {"dfs", "bfs"}

-----------------------------------------------------------------------------
(* Properties.                                                             *)

\* bind_variables_of_pattern_match scopes match variables lexically, as its
\* comment promises, however often the top_down queue makes it process a
\* nested match again: a use of a name no enclosing arm binds stays
\* global; a use whose innermost enclosing binder is an arm, with no let of
\* that name in the arm's resolution, carries the index of that arm's
\* pattern identifiers, and no other arm's pattern carries that index.
LexicalBinding ==
    expr # NoExpr =>
      LET vid == BindVariablesOfPatternMatch(expr, order)
          ArmIndex(a) == {vid[t].i : t \in PatternSlots(expr, a)}
      IN \A s \in UseSlots(expr) :
           LET n == At(expr, s).n
               a == Binder(expr, s)
           IN /\ a = <<>> => vid[s] = Global(n)
              /\ a # <<>> /\ ~LetInArm(expr, a, n) =>
                    /\ vid[s].n = n /\ vid[s].i > 0
                    /\ ArmIndex(a) \subseteq {vid[s].i}
                    /\ \A b \in Arms(expr) \ {a} : vid[s].i \notin ArmIndex(b)
====
