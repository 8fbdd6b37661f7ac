------------------------------ MODULE Grammar ------------------------------
(***************************************************************************)
(* The grammar of docs/lang_design.md, with `.`, ++, -- and the literals   *)
(* that the tests use, as sets of trees: what the tokens from i to j may   *)
(* mean as an expression of a level, as a statement, or as a file.  There  *)
(* is no stack, no position and no error.  Where the doc and the tests     *)
(* leave a choice, or the tests go beyond the doc: binary operators of one *)
(* level are taken from the left, any expression is a statement, break and *)
(* continue may stand in any body, & has any operand, a list may be empty  *)
(* and a comma may follow its last element or not.                         *)
(***************************************************************************)
EXTENDS Parser, FiniteSets

Is(ts, k, type) == k \in DOMAIN ts /\ ts[k].type = type

\* Two tokens that belong to one operator, and the binary operators that start at k.
Joined(ts, k) ==
    /\ k \in DOMAIN ts /\ k + 1 \in DOMAIN ts /\ ts[k].flags = {}
    /\ <<ts[k].type, ts[k + 1].type>> \in DOMAIN Compound
JoinedKind(ts, k) == Compound[<<ts[k].type, ts[k + 1].type>>]

BinaryAt(ts, k) ==
    IF Joined(ts, k) THEN {[kind |-> JoinedKind(ts, k), length |-> 2]}
    ELSE IF ts[k].type \in DOMAIN Single THEN {[kind |-> Single[ts[k].type], length |-> 1]}
    ELSE {}

Level == <<{"ASSIGN"}, Logic, Comparison, {"ADD", "SUB"}, {"MUL", "DIV"}>>
Lowest == 1
unary_operation == 6
index_operation == 7

\* The places where the type that starts at i may end, and the type.
TypeEnds(ts, i) ==
    IF ~Is(ts, i, "id") THEN {}
    ELSE {j \in i .. Len(ts) :
            /\ \A k \in i + 1 .. j : Is(ts, k, "*") /\ ts[k - 1].flags = {}
            /\ ~(Is(ts, j + 1, "*") /\ ts[j].flags = {})}
TypeAt(ts, i, j) == TypeId(ts[i].data, j - i)

LeafAt(tok) ==
    CASE tok.type = "id"       -> {Identifier(tok.data)}
      [] tok.type = "lit_int"  -> {LiteralInt(tok.data)}
      [] tok.type = "lit_dec"  -> {LiteralFloat(tok.data)}
      [] tok.type = "lit_str"  -> {LiteralStr(tok.data)}
      [] tok.type = "lit_char" -> {LiteralChar(tok.data)}
      [] tok.type \in DOMAIN Literal -> {Literal[tok.type]}
      [] OTHER -> {}

RECURSIVE Expr(_, _, _, _), Argument(_, _, _)

\* expression, logical, comparison, arithmetic_low, arithmetic_high
OperatorsAt(ts, l, k) == {op \in BinaryAt(ts, k) : op.kind \in Level[l]}
BinaryExpr(ts, l, i, j) ==
    UNION {UNION {{Binary(op.kind, x, y) : x \in Expr(ts, l, i, m - 1),
                                           y \in Expr(ts, l + 1, m + op.length, j)} :
                  op \in OperatorsAt(ts, l, m)} : m \in i + 1 .. j - 1}

UnaryExpr(ts, i, j) ==
    CASE ts[i].type \in {"!", "&", "*"} ->
            {Unary(Prefix[ts[i].type], x) : x \in Expr(ts, unary_operation, i + 1, j)}
      [] ts[i].type = "cast" ->
            UNION {{Cast(TypeAt(ts, i + 1, k), x) : x \in Expr(ts, unary_operation, k + 1, j)} :
                   k \in TypeEnds(ts, i + 1)}
      [] Joined(ts, i) /\ ts[i].type \in {"+", "-"} ->
            {Unary(IF ts[i].type = "+" THEN "PRE_INCREMENT" ELSE "PRE_DECREMENT", x) :
             x \in Expr(ts, unary_operation, i + 2, j)}
      [] OTHER -> {}

PostfixExpr(ts, i, j) ==
    CASE ts[j].type = "id" /\ Is(ts, j - 1, ".") ->
            {Member(x, ts[j].data) : x \in Expr(ts, index_operation, i, j - 2)}
      [] ts[j].type = "]" ->
            UNION {{Binary("INDEX", x, y) : x \in Expr(ts, index_operation, i, m - 1),
                                            y \in Expr(ts, Lowest, m + 1, j - 1)} :
                   m \in {m \in i .. j : Is(ts, m, "[")}}
      [] Joined(ts, j - 1) /\ JoinedKind(ts, j - 1) \in Increment ->
            {Unary(JoinedKind(ts, j - 1), x) : x \in Expr(ts, index_operation, i, j - 2)}
      [] OTHER -> {}

ValueExpr(ts, i, j) ==
    CASE i = j -> LeafAt(ts[i])
      [] j = i + 1 /\ ts[i].type = "-" /\ ts[j].type = "lit_int" -> {LiteralInt(- ts[j].data)}
      [] ts[i].type = "sizeof" -> {Sizeof(TypeAt(ts, i + 1, k)) : k \in TypeEnds(ts, i + 1) \cap {j}}
      [] i < j /\ ts[i].type = "(" /\ ts[j].type = ")" -> Expr(ts, Lowest, i + 1, j - 1)
      [] i < j /\ ts[i].type = "id" /\ Is(ts, i + 1, "(") /\ ts[j].type = ")" ->
            {FunctionCall(ts[i].data, a) : a \in Argument(ts, i + 2, j - 1)}
      [] OTHER -> {}

Expr(ts, l, i, j) ==
    CASE i > j -> {}
      [] i <= j /\ l < unary_operation -> Expr(ts, l + 1, i, j) \cup BinaryExpr(ts, l, i, j)
      [] i <= j /\ l = unary_operation -> Expr(ts, index_operation, i, j) \cup UnaryExpr(ts, i, j)
      [] i <= j /\ l = index_operation -> ValueExpr(ts, i, j) \cup PostfixExpr(ts, i, j)

\* The sequences of arguments; a comma may follow the last.
Argument(ts, i, j) ==
    IF i > j THEN {<< >>}
    ELSE {<<x>> : x \in Expr(ts, Lowest, i, j)} \cup
         UNION {{<<x>> \o rest : x \in Expr(ts, Lowest, i, m - 1), rest \in Argument(ts, m + 1, j)} :
                m \in {m \in i .. j : Is(ts, m, ",")}}

Expressions(ts) == Expr(ts, Lowest, 1, Len(ts))

-----------------------------------------------------------------------------
(* Statements and files *)

Declaration(ts, kind, i, j) ==
    LET With(k) == IF k = j THEN {NoExpression}
                   ELSE IF Is(ts, k + 1, "=") THEN Expr(ts, Lowest, k + 2, j) ELSE {}
    IN  IF ~(Is(ts, i, "id") /\ Is(ts, i + 1, ":")) THEN {}
        ELSE UNION {{Declare(kind, ts[i].data, TypeAt(ts, i + 2, k), x) : x \in With(k)} :
                    k \in {k \in TypeEnds(ts, i + 2) : k <= j}}

\* What may stand before a semicolon.
Simple(ts, i, j) ==
    CASE ts[i].type = "break" /\ i = j    -> {Break}
      [] ts[i].type = "continue" /\ i = j -> {Continue}
      [] ts[i].type = "return" ->
            {Return(x) : x \in IF i = j THEN {NoExpression} ELSE Expr(ts, Lowest, i + 1, j)}
      [] ts[i].type \in {"global", "const"} ->
            Declaration(ts, DeclarationKind(ts[i].type), i + 1, j)
      [] OTHER -> Declaration(ts, "VAR_DECLARATION", i, j)
                    \cup {Expression(x) : x \in Expr(ts, Lowest, i, j)}

RECURSIVE Statement(_, _, _), Sequence(_, _, _)

Block(ts, i, j) ==
    IF i < j /\ Is(ts, i, "{") /\ Is(ts, j, "}")
    THEN {Body(s) : s \in Sequence(ts, i + 1, j - 1)} ELSE {}

\* while and if: a condition and a block, and for if what follows else.
Conditional(ts, i, j) ==
    LET Guarded(k) == UNION {{<<x, b>> : x \in Expr(ts, Lowest, i + 1, m - 1), b \in Block(ts, m, k)} :
                           m \in {m \in i + 1 .. k : Is(ts, m, "{")}}
        Otherwise(k) == IF ~Is(ts, k + 1, "else") THEN {}
                    ELSE IF Is(ts, k + 2, "if")
                         THEN {Body(<<s>>) : s \in Statement(ts, k + 2, j)}
                         ELSE Block(ts, k + 2, j)
    IN  IF ts[i].type = "while" THEN {While(p[1], p[2]) : p \in Guarded(j)}
        ELSE {If(p[1], p[2]) : p \in Guarded(j)} \cup
             UNION {{IfElse(p[1], p[2], e) : p \in Guarded(k), e \in Otherwise(k)} :
                    k \in {k \in i .. j - 1 : Is(ts, k, "}")}}

Statement(ts, i, j) ==
    CASE i > j -> {}
      [] i <= j /\ ts[i].type \in {"while", "if"} -> Conditional(ts, i, j)
      [] i <= j /\ ts[i].type \notin {"while", "if"} ->
            IF i < j /\ Is(ts, j, ";") THEN Simple(ts, i, j - 1) ELSE {}

Sequence(ts, i, j) ==
    IF i > j THEN {<< >>}
    ELSE UNION {{<<s>> \o rest : s \in Statement(ts, i, m), rest \in Sequence(ts, m + 1, j)} :
                m \in {m \in i .. j : ts[m].type \in {";", "}"}}}

\* id ":" type, separated by commas; one may follow the last.
RECURSIVE FieldList(_, _, _)
FieldList(ts, i, j) ==
    IF i > j THEN {<< >>}
    ELSE IF ~(Is(ts, i, "id") /\ Is(ts, i + 1, ":")) THEN {}
    ELSE UNION {{<<Field(ts[i].data, TypeAt(ts, i + 2, k))>> \o rest :
                 rest \in IF k = j THEN {<< >>}
                          ELSE IF Is(ts, k + 1, ",") THEN FieldList(ts, k + 2, j) ELSE {}} :
                k \in {k \in TypeEnds(ts, i + 2) : k <= j}}

FunctionItem(ts, i, j) ==
    LET Result(k) == IF ~Is(ts, k + 1, ":") THEN {<<TYPE_VOID, k>>}
                     ELSE {<<TypeAt(ts, k + 2, m), m>> : m \in TypeEnds(ts, k + 2)}
        From(k, r) == {Function(ts[i + 1].data, fields, r[1], b) @@ [kind |-> "FUNCTION"] :
                        fields \in FieldList(ts, i + 3, k - 1), b \in Block(ts, r[2] + 1, j)}
    IN  IF ~(Is(ts, i + 1, "id") /\ Is(ts, i + 2, "(")) THEN {}
        ELSE UNION {UNION {From(k, r) : r \in Result(k)} :
                    k \in {k \in i + 3 .. j : Is(ts, k, ")")}}

Item(ts, i, j) ==
    CASE ts[i].type = "fun" -> FunctionItem(ts, i, j)
      [] ts[i].type = "struct" ->
            IF ~(Is(ts, i + 1, "id") /\ Is(ts, i + 2, "{") /\ Is(ts, j, "}") /\ i + 2 < j) THEN {}
            ELSE {Struct(ts[i + 1].data, fields) @@ [kind |-> "STRUCT"] :
                  fields \in FieldList(ts, i + 3, j - 1)}
      [] ts[i].type = "import" ->
            IF j = i + 1 /\ Is(ts, j, "lit_str") THEN {[kind |-> "PATH", path |-> ts[j].data]} ELSE {}
      [] ts[i].type \in {"global", "const"} ->
            IF Is(ts, j, ";") THEN Declaration(ts, DeclarationKind(ts[i].type), i + 1, j - 1) ELSE {}
      [] OTHER -> {}

\* The sequences of items that a file may mean, its imports among them.
RECURSIVE Items(_, _)
Items(ts, i) ==
    IF i > Len(ts) THEN {<< >>}
    ELSE UNION {{<<x>> \o rest : x \in Item(ts, i, m), rest \in Items(ts, m + 1)} :
                m \in {m \in i .. Len(ts) : ts[m].type \in {";", "}", "lit_str"}}}

\* The parser keeps the imports apart, each path once.
IsPath(x) == x.kind = "PATH"
Means(imp, items) ==
    /\ imp.items = SelectSeq(items, LAMBDA x : ~IsPath(x))
    /\ IsInjective(imp.dependencies)
    /\ ToSet(imp.dependencies) = {x.path : x \in {y \in ToSet(items) : IsPath(y)}}

-----------------------------------------------------------------------------
(* What the parser is known to read otherwise                              *)

Parts(e) ==
    CASE e.kind = "FUNCTION_CALL" -> ToSet(e.arguments)
      [] "right" \in DOMAIN e -> {e.left, e.right}
      [] "left" \in DOMAIN e /\ "right" \notin DOMAIN e -> {e.left}
      [] OTHER -> {}
RECURSIVE Nodes(_)
Nodes(e) == {e} \cup UNION {Nodes(x) : x \in Parts(e)}

Postfix == {"MEMBER", "INDEX", "POST_INCREMENT", "POST_DECREMENT"}
PrefixKinds == {"NOT", "REFER", "DEREF", "CAST", "PRE_INCREMENT", "PRE_DECREMENT"}

\* A prefix is applied before a postfix of the same operand; a negative literal has the
\* number of the literal before it.
ReadOtherwise(e) ==
    \E x \in Nodes(e) :
        \/ x.kind \in PrefixKinds /\ x.left.kind \in Postfix
        \/ x.kind = "LITERAL_INT" /\ x.literal_integer < 0

\* A global is declared with a value, which the parser refuses.
SetsGlobal(ts) ==
    \E k, m \in DOMAIN ts :
        /\ k < m /\ Is(ts, k, "global") /\ Is(ts, m, "=")
        /\ \A n \in k .. m : ~Is(ts, n, ";")
=============================================================================
