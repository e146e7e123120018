CONSTANTS
    Declared <- MCDeclared
    Additional <- MCAdditional
    Raw <- MCRaw
    Exprs <- MCExprs
    Deps <- MCDeps
    Rank <- MCRank
    Primitive <- MCPrimitive
    ReadOnly = {"m"}
    Required = {"n"}
    Getters <- MCGetters
    Setters = {"m"}
    Default <- MCDefault
    RawOf <- MCRawOf
    InitOf <- MCInitOf
    ExprInputs <- MCExprInputs
    Eval <- MCEval
    Getter <- MCGetter
    None = None
    Absent = Absent
    Err = Err
    Unknown = Unknown
    Shape = "getters"
SPECIFICATION Spec
INVARIANTS AnswerIsFresh SetterApplied NoReentry
CHECK_DEADLOCK FALSE
PROPERTY CallsEnd
