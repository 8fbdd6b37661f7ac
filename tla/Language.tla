------------------------------ MODULE Language ------------------------------
(***************************************************************************)
(* What a Tin program means: the items that it prints.                     *)
(*                                                                         *)
(* The definition knows no stack, registers or code.  The memory of a      *)
(* program is a function from cells to numbers; a scalar takes one cell,   *)
(* a struct as many as it has scalars, and a value is the sequence of the  *)
(* numbers of its cells.  A pointer is the number of a cell, and null is   *)
(* 0.  It is defined for programs without type errors that come to an end  *)
(* and follow valid pointers only.                                         *)
(***************************************************************************)
EXTENDS AST, Bytes

\* How many cells a value of a type takes.
RECURSIVE Cells(_, _)
Cells(types, type) ==
    IF IsPointer(type) \/ ~types[type.base].is_struct THEN 1
    ELSE FoldLeft(LAMBDA n, mem : n + Cells(types, mem.type), 0,
                  types[type.base].members)

\* The cells before a member, and the type of the member.
MemberCell(types, base, m) ==
    LET members == types[base].members
        i == CHOOSE k \in DOMAIN members : members[k].name = m
    IN  [cell |-> FoldLeft(LAMBDA n, mem : n + Cells(types, mem.type), 0,
                           SubSeq(members, 1, i - 1)),
         type |-> members[i].type]

Zeros(n) == [k \in 1..n |-> 0]

-----------------------------------------------------------------------------
(***************************************************************************)
(* A state of the program:                                                 *)
(*   cells, next        the memory, and the first cell that is not used    *)
(*   scopes             what the names stand for, innermost last           *)
(*   out                what is printed                                    *)
(*   types, functions   of the program, never changed                      *)
(***************************************************************************)
Reserve(s, n) ==
    [s EXCEPT !.cells = [c \in s.next..(s.next + n - 1) |-> 0] @@ @,
              !.next  = @ + n]

Read(s, cell, type) ==
    [k \in 1..Cells(s.types, type) |-> s.cells[cell + k - 1]]

\* A number as it is kept in a variable of a type.
Narrow(type, n) ==
    CASE type = TYPE_INT -> Word32(n) [] type = TYPE_CHAR -> Word8(n) [] OTHER -> n

Write(s, cell, type, v) ==
    [s EXCEPT !.cells = [c \in cell..(cell + Len(v) - 1) |->
                            Narrow(type, v[c - cell + 1])] @@ @]

Bind(s, x, entry) == [s EXCEPT !.scopes[Len(s.scopes)] = (x :> entry) @@ @]

Variable(cell, type) == [constant |-> FALSE, cell |-> cell, type |-> type]

\* A new variable with a value.
Define(s, x, type, v) ==
    Bind(Write(Reserve(s, Len(v)), s.next, type, v), x, Variable(s.next, type))

Lookup(s, x) ==
    LET k == CHOOSE k \in DOMAIN s.scopes :
                /\ x \in DOMAIN s.scopes[k]
                /\ \A j \in DOMAIN s.scopes : x \in DOMAIN s.scopes[j] => j <= k
    IN  s.scopes[k][x]

Written(s, items) == [s EXCEPT !.out = @ \o items]

Value(s, v, type) == [s |-> s, v |-> v, type |-> type]

At(s, cell, type) == [s |-> s, cell |-> cell, type |-> type]

-----------------------------------------------------------------------------
(* Expressions *)

RECURSIVE Eval(_, _), Locate(_, _), Exec(_, _), Block(_, _, _)

\* x op y, for numbers.
Apply(op, x, y) ==
    CASE op = "ADD" -> x + y  [] op = "SUB" -> x - y  [] op = "MUL" -> x * y
      [] op = "DIV" -> Quotient(x, y)
      [] op = "AND" -> Bit(x # 0 /\ y # 0)  [] op = "OR" -> Bit(x # 0 \/ y # 0)
      [] op = "EQUAL" -> Bit(x = y)         [] op = "NOT_EQUAL" -> Bit(x # y)
      [] op = "LESS" -> Bit(x < y)          [] op = "GREATER" -> Bit(x > y)
      [] op = "LESS_EQUAL" -> Bit(x <= y)   [] op = "GREATER_EQUAL" -> Bit(x >= y)

ResultType(op, ltype, rtype) ==
    CASE op \in Logic \cup Comparison -> TYPE_BOOL
      [] op \in Arithmetic /\ ltype = rtype -> ltype
      [] op \in Arithmetic /\ ltype # rtype -> TYPE_INT

\* The string at a cell.
RECURSIVE Text(_, _)
Text(s, cell) ==
    IF s.cells[cell] = 0 THEN << >>
    ELSE <<<<"char", s.cells[cell]>>>> \o Text(s, cell + 1)

\* The value of a call of a native function.
CallNative(s, f, v) ==
    CASE f = "printi" -> Value(Written(s, <<<<"int", Word32(v[1][1])>>>>), << >>, TYPE_VOID)
      [] f = "printc" -> Value(Written(s, <<<<"char", Word8(v[1][1])>>>>), << >>, TYPE_VOID)
      [] f = "prints" -> Value(Written(s, Text(s, v[1][1])), << >>, TYPE_VOID)
      [] f = "malloc" -> Value(Reserve(s, v[1][1]), <<s.next>>, PointerTo("void"))
      [] f = "mfree"  -> Value(s, << >>, TYPE_VOID)
      [] f = "memcpy" -> Value(Write(s, v[1][1], TYPE_VOID,
                                     [k \in 1..v[3][1] |-> s.cells[v[2][1] + k - 1]]),
                               << >>, TYPE_VOID)

\* The callee sees the globals and its parameters.
CallFunction(s, fun, v) ==
    LET entered == [s EXCEPT !.scopes = <<s.scopes[1], << >>>>]
        bound   == FoldLeft(LAMBDA t, i : Define(t, fun.parameters[i].name,
                                                 fun.parameters[i].type, v[i]),
                            entered, [i \in DOMAIN v |-> i])
        done    == Block(bound, fun.body, TRUE)
    IN  Value([done.s EXCEPT !.scopes = s.scopes], done.v, fun.return_type)

CallOf(s, e) ==
    LET args == FoldLeft(LAMBDA r, arg : LET x == Eval(r.s, arg)
                                         IN  [s |-> x.s, v |-> Append(r.v, x.v)],
                         [s |-> s, v |-> << >>], e.arguments)
        found == SelectSeq(s.functions, LAMBDA fun : fun.name = e.name)
    IN  IF found = << >> THEN CallNative(args.s, e.name, args.v)
        ELSE CallFunction(args.s, found[1], args.v)

Locate(s, e) ==
    CASE e.kind = "IDENTIFIER" ->
            LET entry == Lookup(s, e.name) IN At(s, entry.cell, entry.type)
      [] e.kind = "DEREF" ->
            LET p == Eval(s, e.left) IN At(p.s, p.v[1], WithLevel(p.type, -1))
      [] e.kind = "MEMBER" ->
            LET l == Locate(s, e.left)
                m == MemberCell(s.types, l.type.base, e.name)
                start == IF IsPointer(l.type) THEN l.s.cells[l.cell] ELSE l.cell
            IN  At(l.s, start + m.cell, m.type)
      [] e.kind = "INDEX" ->
            LET l == Locate(s, e.left)
                i == Eval(l.s, e.right)
                type == WithLevel(l.type, -1)
            IN  At(i.s, l.s.cells[l.cell] + i.v[1] * Cells(s.types, type), type)

Change(kind) == IF kind \in {"PRE_INCREMENT", "POST_INCREMENT"} THEN 1 ELSE -1

\* The value of e and the state after it.  The right operand of an assignment
\* and of an index comes first.
Eval(s, e) ==
    CASE e.kind = "LITERAL_INT"   -> Value(s, <<e.literal_integer>>, TYPE_INT)
      [] e.kind = "LITERAL_CHAR"  -> Value(s, e.literal_string, TYPE_CHAR)
      [] e.kind = "LITERAL_TRUE"  -> Value(s, <<1>>, TYPE_BOOL)
      [] e.kind = "LITERAL_FALSE" -> Value(s, <<0>>, TYPE_BOOL)
      [] e.kind = "LITERAL_NULL"  -> Value(s, <<0>>, PointerTo("void"))
      [] e.kind = "LITERAL_STR"   ->
            LET text == Append(e.literal_string, 0)
            IN  Value(Write(Reserve(s, Len(text)), s.next, TYPE_CHAR, text),
                      <<s.next>>, PointerTo("char"))
      [] e.kind = "IDENTIFIER" ->
            LET entry == Lookup(s, e.name)
            IN  IF entry.constant THEN Eval(s, entry.expression)
                ELSE Value(s, Read(s, entry.cell, entry.type), entry.type)
      [] e.kind = "FUNCTION_CALL" -> CallOf(s, e)
      [] e.kind \in Arithmetic \cup Logic \cup Comparison ->
            LET l == Eval(s, e.left)
                r == Eval(l.s, e.right)
            IN  Value(r.s, <<Apply(e.kind, l.v[1], r.v[1])>>,
                      ResultType(e.kind, l.type, r.type))
      [] e.kind = "NOT" ->
            LET l == Eval(s, e.left) IN Value(l.s, <<Bit(l.v[1] = 0)>>, l.type)
      [] e.kind = "REFER" ->
            LET l == Locate(s, e.left) IN Value(l.s, <<l.cell>>, WithLevel(l.type, 1))
      [] e.kind \in {"DEREF", "MEMBER"} ->
            LET l == Locate(s, e) IN Value(l.s, Read(l.s, l.cell, l.type), l.type)
      [] e.kind = "INDEX" ->
            LET i == Eval(s, e.right)
                l == Eval(i.s, e.left)
                type == WithLevel(l.type, -1)
            IN  Value(l.s, Read(l.s, l.v[1] + i.v[1] * Cells(s.types, type), type), type)
      [] e.kind = "CAST"   -> LET l == Eval(s, e.left) IN Value(l.s, l.v, e.type)
      [] e.kind = "SIZEOF" -> Value(s, <<SizeOfType(s.types, e.type)>>, TYPE_INT)
      [] e.kind = "ASSIGN" ->
            LET r == Eval(s, e.right)
                l == Locate(r.s, e.left)
                t == Write(l.s, l.cell, l.type, r.v)
            IN  Value(t, Read(t, l.cell, l.type), l.type)
      [] e.kind \in Increment ->
            LET l == Locate(s, e.left)
                x == l.s.cells[l.cell]
                t == Write(l.s, l.cell, TYPE_INT, <<x + Change(e.kind)>>)
            IN  Value(t, <<IF e.kind \in {"PRE_INCREMENT", "PRE_DECREMENT"}
                           THEN x + Change(e.kind) ELSE x>>, TYPE_INT)

-----------------------------------------------------------------------------
(* Statements *)

\* The state after a statement, and whether it ends the bodies around it.
Outcome(s, flow, v) == [s |-> s, flow |-> flow, v |-> v]

Repeat(s, stmt) ==
    LET cond == Eval(s, stmt.expression)
        body == Block(cond.s, stmt.body, FALSE)
    IN  IF cond.v[1] = 0 THEN Outcome(cond.s, "next", << >>)
        ELSE CASE body.flow \in {"next", "continue"} -> Exec(body.s, stmt)
               [] body.flow = "break"  -> Outcome(body.s, "next", << >>)
               [] body.flow = "return" -> body

Exec(s, stmt) ==
    CASE stmt.kind = "EXPRESSION" ->
            Outcome(Eval(s, stmt.expression).s, "next", << >>)
      [] stmt.kind = "CONST_DECLARATION" ->
            Outcome(Bind(s, stmt.name, [constant |-> TRUE,
                                        expression |-> stmt.expression]),
                    "next", << >>)
      [] stmt.kind = "VAR_DECLARATION" ->
            LET r == IF stmt.expression = NoExpression
                     THEN Value(s, Zeros(Cells(s.types, stmt.type)), stmt.type)
                     ELSE Eval(s, stmt.expression)
            IN  Outcome(Define(r.s, stmt.name, stmt.type, r.v), "next", << >>)
      [] stmt.kind = "WHILE" -> Repeat(s, stmt)
      [] stmt.kind = "IF" ->
            LET cond == Eval(s, stmt.expression)
            IN  Block(cond.s, IF cond.v[1] # 0 THEN stmt.body ELSE stmt.elseBody, FALSE)
      [] stmt.kind = "BREAK"    -> Outcome(s, "break", << >>)
      [] stmt.kind = "CONTINUE" -> Outcome(s, "continue", << >>)
      [] stmt.kind = "RETURN" ->
            IF stmt.expression = NoExpression THEN Outcome(s, "return", << >>)
            ELSE LET r == Eval(s, stmt.expression) IN Outcome(r.s, "return", r.v)

\* A body has a scope of its own; that of a function also has the parameters.
Block(s, body, parameters) ==
    LET entered == IF parameters THEN s ELSE [s EXCEPT !.scopes = Append(@, << >>)]
        last == FoldLeft(LAMBDA r, stmt : IF r.flow = "next" THEN Exec(r.s, stmt) ELSE r,
                         Outcome(entered, "next", << >>), body)
    IN  [last EXCEPT !.s.scopes = s.scopes]

\* The globals are set before main is called.
Meaning(program) ==
    LET start == [cells |-> << >>, next |-> 1, scopes |-> << << >> >>, out |-> << >>,
                  types |-> TypesOf(program.structs), functions |-> program.functions]
        globals == FoldLeft(LAMBDA s, stmt : Exec(s, stmt).s, start, program.globals)
    IN  CallOf(globals, FunctionCall("main", << >>)).s.out
=============================================================================
