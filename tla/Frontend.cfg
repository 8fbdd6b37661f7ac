CONSTANTS
    Letter = {"n"}
    Digit = {"1"}
    Keyword <- MCKeyword
    Character <- MCCharacter
    MaxText = 5
    Given <- MCGiven
    ExpressionToken <- MCExpressionToken
    MaxExpression = 5
    Operator <- MCOperator
    MaxChain = 5
    FileToken <- MCFileToken
    MaxFile = 8
    BodyToken <- MCBodyToken
    MaxBody = 14
SPECIFICATION Spec
INVARIANTS LexSpells ExpressionsParse FilesParse
CHECK_DEADLOCK FALSE
