CONSTANTS
    Letter = {"n"}
    Digit = {"1"}
    Keyword <- MCKeyword
    Character = {}
    MaxText = 0
    Given <- MisreadGiven
    ExpressionToken <- MCExpressionToken
    MaxExpression = 0
    Operator <- MCOperator
    MaxChain = 0
    FileToken <- MCFileToken
    MaxFile = 0
    BodyToken <- MCBodyToken
    MaxBody = 0
SPECIFICATION Spec
INVARIANTS ReadsAsWritten
CHECK_DEADLOCK FALSE
