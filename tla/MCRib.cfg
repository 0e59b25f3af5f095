CONSTANTS
    a = a
    b = b
    x = x
    y = y
    NoExpr = NoExpr
    Atoms <- MCAtoms
    Inputs <- MCInputs
    Names <- MCNames
    ExprInputs <- MCExprInputs

SPECIFICATION MCSpec

INVARIANT FlattenKeepsLeaves
INVARIANT FlattenNormalForm
INVARIANT LexicalBinding
