CONSTANTS
    Declared <- MCDeclared
    Additional <- MCAdditional
    Raw <- MCRaw
    Exprs <- MCExprs
    Deps <- MCDeps
    Rank <- MCRank
    Primitive <- MCPrimitive
    ReadOnly = {"c"}
    Required = {"b"}
    Getters <- MCGetters
    Setters = {"a"}
    Default <- MCDefault
    RawOf <- MCRawOf
    InitOf <- MCInitOf
    ExprInputs <- MCExprInputs
    Eval <- MCEval
    Getter <- MCGetter
    None = None
    Absent = Absent
    Err = Err
    Unknown = Unknown
    Shape = "chain"
SPECIFICATION HSpec
INVARIANTS TypeOK LiteralIsCurrent AnswerIsFresh
PROPERTIES ExpressionsSurviveReads ReadsRepeat
CHECK_DEADLOCK FALSE
