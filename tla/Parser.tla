------------------------------- MODULE Parser -------------------------------
(***************************************************************************)
(* Parser.cpp: from the tokens of a file to its tree.  Each operator takes *)
(* the tokens and the ParseContext c, which is the position of the next    *)
(* token and the position at which the first error was reported, or 0; it  *)
(* gives the context after it with the result in `out`, Nothing for a null *)
(* pointer.  Scopes and locations are left out.                            *)
(***************************************************************************)
EXTENDS AST

Nothing == [kind |-> "nullptr"]

Context == [head |-> 1, error_at |-> 0]

gettok(ts, c, off) == IF c.head + off <= Len(ts) THEN ts[c.head + off]
                      ELSE [type |-> "EOF", data |-> << >>, flags |-> {}]
Type(ts, c) == gettok(ts, c, 0).type
advance(c, n) == [c EXCEPT !.head = @ + n]

\* REPORT: the number of errors is only tested for 0.
Report(c) == IF c.error_at = 0 THEN [c EXCEPT !.error_at = c.head] ELSE c

Give(c, out) == [head |-> c.head, error_at |-> c.error_at, out |-> out]
Fail(c) == Give(Report(c), Nothing)
Failed(r) == r.out = Nothing

\* The steps of a handler: the first that fails ends it with what it returns.
Then(r, Next(_)) == IF Failed(r) THEN r ELSE Next(r)

\* The token that follows has to be of this type: it is consumed.
Expect(ts, c, type, out) ==
    IF Type(ts, c) = type THEN Give(advance(c, 1), out) ELSE Fail(c)

-----------------------------------------------------------------------------
(* Types *)

NoType == [TYPE_VOID EXCEPT !.pointer_level = -1]
Nameless(r) == r.out.pointer_level < 0

\* The stars follow the name, and each other, without a space.
parseType(ts, c) ==
    LET Stars[k \in Nat] ==
            IF gettok(ts, c, k).type = "*" /\ gettok(ts, c, k - 1).flags = {}
            THEN 1 + Stars[k + 1] ELSE 0
    IN  IF Type(ts, c) # "id" THEN Give(c, NoType)
        ELSE Give(advance(c, 1 + Stars[1]), TypeId(gettok(ts, c, 0).data, Stars[1]))

-----------------------------------------------------------------------------
(* Expressions *)

\* Two tokens without a space are one operator.
Compound ==
    ( <<"+", "+">> :> "POST_INCREMENT" ) @@ ( <<"-", "-">> :> "POST_DECREMENT" ) @@
    ( <<"&", "&">> :> "AND" )            @@ ( <<"|", "|">> :> "OR" ) @@
    ( <<"=", "=">> :> "EQUAL" )          @@ ( <<"!", "=">> :> "NOT_EQUAL" ) @@
    ( <<"<", "=">> :> "LESS_EQUAL" )     @@ ( <<">", "=">> :> "GREATER_EQUAL" )
Single ==
    [t \in {"+", "-", "*", "/", "<", ">", "="} |->
        CASE t = "+" -> "ADD" [] t = "-" -> "SUB" [] t = "*" -> "MUL" [] t = "/" -> "DIV"
          [] t = "<" -> "LESS" [] t = ">" -> "GREATER" [] t = "=" -> "ASSIGN"]
Prefix ==
    [t \in {"!", "&", "*", "cast"} |->
        CASE t = "!" -> "NOT" [] t = "&" -> "REFER" [] t = "*" -> "DEREF" [] t = "cast" -> "CAST"]
Literal ==
    [t \in {"true", "false", "null"} |->
        CASE t = "true" -> LiteralTrue [] t = "false" -> LiteralFalse [] t = "null" -> LiteralNull]
LiteralFloat(x) == [kind |-> "LITERAL_FLOAT", literal_float |-> x]

UnaryKinds == {"NOT", "REFER", "DEREF", "CAST"} \cup Increment

GetPrecedence(kind) ==
    CASE kind \in {"MUL", "DIV"} -> 10
      [] kind \in {"ADD", "SUB"} -> 5
      [] kind \in Comparison     -> -4
      [] kind \in Logic          -> -5
      [] kind = "ASSIGN"         -> -10

Pair(ts, c) == <<Type(ts, c), gettok(ts, c, 1).type>>
Compact(ts, c) == gettok(ts, c, 0).flags = {}
IsCompound(ts, c) == Compact(ts, c) /\ Pair(ts, c) \in DOMAIN Compound

\* The locals of parseExpression.  `number` and `decimal` keep the last literal that
\* gettok has seen; decimal is not initialised.
Locals(c) ==
    [head |-> c.head, error_at |-> c.error_at, expressions |-> << >>, operations |-> << >>,
     number |-> 0, decimal |-> "uninitialised"]
At(e, c) == [e EXCEPT !.head = c.head, !.error_at = c.error_at]
Operand(e, expr) == [e EXCEPT !.expressions = Append(@, expr)]
Operation(e, kind, type) ==
    [e EXCEPT !.operations = Append(@, [kind |-> kind, type |-> type])]
ReplaceTop(e, expr) == [e EXCEPT !.expressions = Append(Front(@), expr)]

\* fix unary operators (like NOT)
RECURSIVE FixUnary(_)
FixUnary(e) ==
    IF e.operations = << >> \/ Last(e.operations).kind \notin UnaryKinds THEN e
    ELSE LET op   == Last(e.operations)
             left == Last(e.expressions)
             expr == IF op.kind = "CAST" THEN Cast(op.type, left) ELSE Unary(op.kind, left)
         IN  FixUnary(ReplaceTop([e EXCEPT !.operations = Front(@)], expr))

\* The last two expressions become one.
Combine(e, kind) ==
    LET n == Len(e.expressions)
    IN  [e EXCEPT !.expressions = Append(SubSeq(@, 1, n - 2),
                                         Binary(kind, @[n - 1], @[n]))]

\* Mutant: the one on the right comes first when both have one precedence.
AppliedFirst_Higher(left, right) == GetPrecedence(left.kind) > GetPrecedence(right.kind)

AppliedFirst(left, right) == GetPrecedence(left.kind) >= GetPrecedence(right.kind)

\* An operator is applied when one of no higher precedence follows it.
RECURSIVE Reduce(_)
Reduce(e) ==
    LET n == Len(e.operations)
    IN  IF n >= 2 /\ AppliedFirst(e.operations[n - 1], e.operations[n])
        THEN Reduce(Combine([e EXCEPT !.operations = Append(SubSeq(@, 1, n - 2), @[n])],
                            e.operations[n - 1].kind))
        ELSE e

\* At the end of the expression the operators that are left are applied from the right.
Ending(e) ==
    Last(FoldRight(LAMBDA op, x : Combine(x, op.kind), e.operations, e).expressions)

\* gettok(&name, &number, &decimal)
Seen(ts, e) ==
    LET tok == gettok(ts, e, 0)
    IN  CASE tok.type = "lit_int" -> [e EXCEPT !.number = tok.data]
          [] tok.type = "lit_dec" -> [e EXCEPT !.decimal = tok.data]
          [] OTHER -> e

\* The turns of the loop: with is_operator false they expect an operand, otherwise an
\* operator, or the end of the expression.
RECURSIVE parseExpression(_, _), Operands(_, _), Operators(_, _), Arguments(_, _, _)

parseExpression(ts, c) == Operands(ts, Locals(c))

\* An operand is read; what is open on it is applied.
Read(ts, e, r) == Operators(ts, FixUnary(Operand(At(e, r), r.out)))

\* The arguments of a call up to its closing parenthesis; a comma may be the last.
AnotherArgument(ts, call, r) ==
    LET with == [call EXCEPT !.arguments = Append(@, r.out)]
    IN  CASE Type(ts, r) = "," -> Arguments(ts, advance(r, 1), with)
          [] Type(ts, r) = ")" -> Arguments(ts, r, with)
          [] OTHER -> Fail(r)
Arguments(ts, c, call) ==
    CASE Type(ts, c) = "EOF" -> Fail(c)
      [] Type(ts, c) = ")" -> Give(advance(c, 1), call)
      [] OTHER -> Then(parseExpression(ts, c), LAMBDA r : AnotherArgument(ts, call, r))

Operands(ts, e0) ==
    LET e    == Seen(ts, e0)
        t    == Type(ts, e)
        next == gettok(ts, e, 1).type
        data == gettok(ts, e, 0).data
        type == parseType(ts, advance(e, 1))
        Prefixed(c, kind) == Operands(ts, Operation(At(e, c), kind, c.out))
        Leaf(x) == Give(advance(e, 1), x)
        Negative(x) == Give(advance(e, 2), x)
        operand ==
            CASE t = "id" /\ next = "(" -> Arguments(ts, advance(e, 2), FunctionCall(data, << >>))
              [] t = "id" /\ next # "(" -> Leaf(Identifier(data))
              [] t \in DOMAIN Literal -> Leaf(Literal[t])
              [] t = "lit_int" -> Leaf(LiteralInt(e.number))
              [] t = "-" /\ next = "lit_int" -> Negative(LiteralInt(- e.number))
              [] t = "lit_dec" -> Leaf(LiteralFloat(e.decimal))
              [] t = "-" /\ next = "lit_dec" -> Negative(LiteralFloat(<<"-", e.decimal>>))
              [] t = "lit_str" -> Leaf(LiteralStr(data))
              [] t = "lit_char" -> Leaf(LiteralChar(data))
              [] t = "sizeof" -> Give(type, Sizeof(type.out))
              [] t = "(" -> Then(parseExpression(ts, advance(e, 1)),
                                 LAMBDA r : Expect(ts, r, ")", r.out))
              [] OTHER -> Fail(e)
    IN  CASE t \in {"!", "&", "*"} -> Prefixed(Give(advance(e, 1), NoType), Prefix[t])
          [] t = "cast" -> Prefixed(type, "CAST")
          [] IsCompound(ts, e) /\ t = "+" /\ next = "+" ->
                Prefixed(Give(advance(e, 2), NoType), "PRE_INCREMENT")
          [] IsCompound(ts, e) /\ t = "-" /\ next = "-" ->
                Prefixed(Give(advance(e, 2), NoType), "PRE_DECREMENT")
          [] OTHER -> Then(operand, LAMBDA r : Read(ts, e, r))

Indexed(ts, left, r) == Expect(ts, r, "]", Binary("INDEX", left, r.out))

Operators(ts, e0) ==
    LET e    == Seen(ts, e0)
        t    == Type(ts, e)
        left == Last(e.expressions)
        Binop(n, kind) == Operands(ts, Reduce(Operation(advance(e, n), kind, NoType)))
    IN  CASE IsCompound(ts, e) ->
                LET kind == Compound[Pair(ts, e)]
                IN  IF kind \in Increment
                    THEN Operators(ts, FixUnary(Operation(advance(e, 2), kind, NoType)))
                    ELSE Binop(2, kind)
          [] ~IsCompound(ts, e) /\ t \in DOMAIN Single -> Binop(1, Single[t])
          [] t = "." ->
                LET member == Member(left, gettok(ts, e, 1).data)
                IN  IF gettok(ts, e, 1).type = "id"
                    THEN Operators(ts, FixUnary(ReplaceTop(advance(e, 2), member)))
                    ELSE Fail(advance(e, 1))
          [] t = "[" ->     \* a null index is not noticed here
                Then(Indexed(ts, left, parseExpression(ts, advance(e, 1))),
                     LAMBDA r : Operators(ts, FixUnary(ReplaceTop(At(e, r), r.out))))
          [] OTHER -> Give(e, Ending(e))

-----------------------------------------------------------------------------
(* Statements *)

Body(statements) == [kind |-> "BODY", statements |-> statements]

\* The word that names what is declared; where the caller has not tested the token,
\* the assertion is compiled out and any token is taken.
DeclaredName(tok) == IF tok.type \in {"id", "lit_str", "lit_char"} THEN tok.data ELSE << >>

\* What follows the type.
Declared(ts, kind, name, type) ==
    CASE Nameless(type) -> Fail(type)
      [] ~Nameless(type) /\ Type(ts, type) = ";" ->
            Give(type, Declare(kind, name, type.out, NoExpression))
      [] ~Nameless(type) /\ Type(ts, type) = "=" /\ kind # "GLOBAL_DECLARATION" ->
            Then(parseExpression(ts, advance(type, 1)),
                 LAMBDA expr : Give(expr, Declare(kind, name, type.out, expr.out)))
      [] ~Nameless(type) /\ Type(ts, type) = "=" /\ kind = "GLOBAL_DECLARATION" ->
            Fail(advance(type, 1))
      [] OTHER -> Fail(type)

parseDeclaration(ts, c, kind) ==
    Then(Expect(ts, advance(c, 1), ":", NoExpression),
         LAMBDA colon : Declared(ts, kind, DeclaredName(gettok(ts, c, 0)), parseType(ts, colon)))

DeclarationKind(t) == IF t = "global" THEN "GLOBAL_DECLARATION" ELSE "CONST_DECLARATION"

\* Mutant: a semicolon that is forgotten is not reported.
Semicolon_Optional(ts, statement) ==
    Then(statement, LAMBDA r : IF Type(ts, r) # ";" THEN r ELSE Give(advance(r, 1), r.out))

\* A statement with the semicolon behind it.
Semicolon(ts, statement) == Then(statement, LAMBDA r : Expect(ts, r, ";", r.out))

RECURSIVE parseBody(_, _), parseIf(_, _), parseStatement(_, _), Statements(_, _, _)

parseWhile(ts, c) ==
    Then(parseExpression(ts, advance(c, 1)), LAMBDA expr :
    Then(parseBody(ts, expr), LAMBDA body :
    Give(body, While(expr.out, body.out))))

\* An else body that cannot be parsed has reported its error, and is a null pointer.
Else(ts, expr, body) ==
    LET With(r, otherwise) == Give(r, IfElse(expr.out, body.out, otherwise))
    IN  CASE Type(ts, body) # "else" -> Give(body, If(expr.out, body.out))
          [] Type(ts, body) = "else" /\ gettok(ts, body, 1).type = "if" ->
                Then(parseIf(ts, advance(body, 1)), LAMBDA r : With(r, Body(<<r.out>>)))
          [] OTHER -> LET r == parseBody(ts, advance(body, 1)) IN With(r, r.out)

parseIf(ts, c) ==
    Then(parseExpression(ts, advance(c, 1)), LAMBDA expr :
    Then(parseBody(ts, expr), LAMBDA body :
    Else(ts, expr, body)))

parseReturn(ts, c) ==
    IF gettok(ts, c, 1).type = ";" THEN Give(advance(c, 1), Return(NoExpression))
    ELSE Then(parseExpression(ts, advance(c, 1)), LAMBDA expr : Give(expr, Return(expr.out)))

\* The statements that end with a semicolon.
parseSimple(ts, c) ==
    LET t == Type(ts, c)
    IN  CASE t = "return" -> parseReturn(ts, c)
          [] t = "continue" -> Give(advance(c, 1), Continue)
          [] t = "break" -> Give(advance(c, 1), Break)
          [] t \in {"global", "const"} -> parseDeclaration(ts, advance(c, 1), DeclarationKind(t))
          [] t = "id" /\ gettok(ts, c, 1).type = ":" -> parseDeclaration(ts, c, "VAR_DECLARATION")
          [] OTHER -> Then(parseExpression(ts, c), LAMBDA expr : Give(expr, Expression(expr.out)))

parseStatement(ts, c) ==
    CASE Type(ts, c) = "if" -> parseIf(ts, c)
      [] Type(ts, c) = "while" -> parseWhile(ts, c)
      [] Type(ts, c) \in {"struct", "fun"} -> Fail(c)
      [] OTHER -> Semicolon(ts, parseSimple(ts, c))

Statements(ts, c, statements) ==
    CASE Type(ts, c) = "EOF" -> Fail(c)
      [] Type(ts, c) = "}" -> Give(advance(c, 1), Body(statements))
      [] OTHER -> Then(parseStatement(ts, c),
                       LAMBDA r : Statements(ts, r, Append(statements, r.out)))

parseBody(ts, c) ==
    IF Type(ts, c) = "{" THEN Statements(ts, advance(c, 1), << >>) ELSE Fail(c)

-----------------------------------------------------------------------------
(* Functions, structures and files *)

Fields(fields) == [kind |-> "FIELDS", fields |-> fields]

\* The parameters of a function or the members of a struct.  At the end of the file the
\* loop over parameters is left without a result, and parseBody fails at once.
RECURSIVE parseFields(_, _, _, _)
AnotherField(ts, close, fields, type) ==
    CASE Nameless(type) -> Fail(type)
      [] ~Nameless(type) /\ Type(ts, type) = "," -> parseFields(ts, advance(type, 1), close, fields)
      [] ~Nameless(type) /\ Type(ts, type) = close -> parseFields(ts, type, close, fields)
      [] OTHER -> Fail(type)
parseField(ts, c, close, fields, type) ==
    AnotherField(ts, close, Append(fields, Field(gettok(ts, c, 0).data, type.out)), type)
parseFields(ts, c, close, fields) ==
    CASE Type(ts, c) = close -> Give(advance(c, 1), Fields(fields))
      [] Type(ts, c) = "id" -> Then(Expect(ts, advance(c, 1), ":", NoExpression),
            LAMBDA colon : parseField(ts, c, close, fields, parseType(ts, colon)))
      [] OTHER -> Fail(c)

\* The name after the keyword and the token that opens the list of fields.
Opening(ts, c, open) ==
    Then(Expect(ts, advance(c, 1), "id", NoExpression),
         LAMBDA name : Expect(ts, name, open, NoExpression))

ResultType(ts, params) ==
    IF Type(ts, params) = ":" THEN parseType(ts, advance(params, 1)) ELSE Give(params, TYPE_VOID)

parseFunction(ts, c) ==
    LET name == gettok(ts, c, 1).data
        Made(params, type, body) ==
            Give(body, Function(name, params.out.fields, type.out, body.out)
                       @@ [kind |-> "FUNCTION"])
        WithBody(params, type) ==
            IF Nameless(type) THEN Fail(type)
            ELSE Then(parseBody(ts, type), LAMBDA body : Made(params, type, body))
    IN  Then(Opening(ts, c, "("), LAMBDA open :
        Then(parseFields(ts, open, ")", << >>), LAMBDA params :
        WithBody(params, ResultType(ts, params))))

parseStruct(ts, c) ==
    LET name == gettok(ts, c, 1).data
        Made(r) == Give(r, Struct(name, r.out.fields) @@ [kind |-> "STRUCT"])
    IN  Then(Opening(ts, c, "{"), LAMBDA open : Then(parseFields(ts, open, "}", << >>), Made))

Import(items, dependencies) ==
    [kind |-> "IMPORT", items |-> items, dependencies |-> dependencies]
AddDependency(imp, path) ==
    IF Contains(imp.dependencies, path) THEN imp
    ELSE [imp EXCEPT !.dependencies = Append(@, path)]
AddItem(imp, item) == [imp EXCEPT !.items = Append(@, item)]

\* A struct or function that fails ends the parse with what there is, any other error
\* with a null pointer.
RECURSIVE ParseItems(_, _, _)
ParseItems(ts, c, imp) ==
    LET t        == Type(ts, c)
        Added(r) == ParseItems(ts, r, AddItem(imp, r.out))
        Item(r)  == IF Failed(r) THEN Give(r, imp) ELSE Added(r)
    IN  CASE t = "EOF" -> Give(c, imp)
          [] t = "struct" -> Item(parseStruct(ts, c))
          [] t = "fun" -> Item(parseFunction(ts, c))
          [] t \in {"global", "const"} ->
                Then(Semicolon(ts, parseDeclaration(ts, advance(c, 1), DeclarationKind(t))), Added)
          [] t = "import" ->
                Then(Expect(ts, advance(c, 1), "lit_str", NoExpression),
                     LAMBDA r : ParseItems(ts, r, AddDependency(imp, gettok(ts, c, 1).data)))
          [] OTHER -> Fail(c)

ParseTokenStream(ts) == ParseItems(ts, Context, Import(<< >>, << >>))
=============================================================================
