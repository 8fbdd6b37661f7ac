------------------------------ MODULE Generator ------------------------------
(***************************************************************************)
(* The code generator (Generator.cpp): from the tree of a program to the   *)
(* pieces of bytecode the virtual machine executes.                        *)
(*                                                                         *)
(* A GeneratorContext is a record: the fields of the piece it writes (see  *)
(* Bytecode), and                                                          *)
(*   frame     current_frameOffset                                         *)
(*   scopes    the identifiers of the enclosing bodies, innermost last     *)
(*   loops     loopScopes                                                  *)
(*   result    return_type and return_offset of the function               *)
(*   types, functions    of the program, laid out (see AST)                *)
(*   data, strings       global_data and string_map of Bytecode            *)
(*   errors    reporter->errors # 0                                        *)
(* Every operation takes the context g and gives the next one; those that  *)
(* generate an expression also give its type, <<context, type>>.           *)
(***************************************************************************)
EXTENDS AST, Bytes, Bytecode

Report(g) == [g EXCEPT !.errors = TRUE]

\* REPORT(...); return TYPE_VOID;
Failure(g) == <<Report(g), TYPE_VOID>>

Size(g, type) == SizeOfType(g.types, type)

IsStruct(g, type) == ~IsPointer(type) /\ g.types[type.base].is_struct

MembersOf(g, type) == g.types[type.base].members

-----------------------------------------------------------------------------
(***************************************************************************)
(* Identifiers and data.                                                   *)
(***************************************************************************)
EmptyScope == [x \in {} |-> 0]

Id(kind, type, offset, expression) ==
    [kind |-> kind, type |-> type, offset |-> offset, expression |-> expression]

Declared(g, x) == x \in DOMAIN Last(g.scopes)

\* AST::addVariable; a name that the scope has already is reported by the
\* callers.
AddVariable(g, x, id) ==
    IF Declared(g, x) THEN Report(g)
    ELSE [g EXCEPT !.scopes[Len(g.scopes)] = (x :> id) @@ @]

VariableScopes(g, x) == {k \in DOMAIN g.scopes : x \in DOMAIN g.scopes[k]}

\* AST::findVariable
FindVariable(g, x) ==
    g.scopes[CHOOSE k \in VariableScopes(g, x) :
                \A j \in VariableScopes(g, x) : j <= k][x]

Exists(g, x) == VariableScopes(g, x) # {}

\* AST::findFunction: the file is searched before the native functions, which
\* are the last ones of g.functions.
FindFunctions(g, f) == SelectSeq(g.functions, LAMBDA fun : fun.name = f)

\* appendData without data fills with '_'.
AppendData(g, bytes) == [g EXCEPT !.data = @ \o bytes]

Underscores(size) == [k \in 1..size |-> 95 % ByteBase]

\* appendString: one place for equal strings.
AppendString(g, str) ==
    IF str \in DOMAIN g.strings THEN g
    ELSE [AppendData(g, str \o <<0>>) EXCEPT
            !.strings = (str :> Len(g.data)) @@ @]

-----------------------------------------------------------------------------
(***************************************************************************)
(* Values move between the stack and memory one scalar at a time; a value  *)
(* of a struct takes as many slots of the stack as it has scalars.         *)
(***************************************************************************)
RECURSIVE generatePop(_, _, _, _), generatePush(_, _, _, _)

PopMembers(g, reg, offset, members) ==
    FoldRight(LAMBDA mem, h : generatePop(h, reg, offset + mem.offset, mem.type),
              members, g)

generatePop(g, reg, offset, type) ==
    IF type = TYPE_VOID THEN g
    ELSE IF IsStruct(g, type)
    THEN PopMembers(g, reg, offset, MembersOf(g, type))
    ELSE LET popped == emit_pop(g, "a")
         IN  IF reg = NoRegister THEN popped
             ELSE emit_mov_mr_disp(popped, reg, "a", Size(g, type), offset)

generatePush(g, reg, offset, type) ==
    IF IsStruct(g, type)
    THEN FoldLeft(LAMBDA h, mem :
                    generatePush(h, reg, offset + mem.offset, mem.type),
                  g, MembersOf(g, type))
    ELSE emit_push(emit_mov_rm_disp(g, "a", reg, Size(g, type), offset), "a")

\* li a, n; push a
PushLiteral(g, n) == emit_push(emit_li(g, "a", n), "a")

\* performCast: no code is emitted without floats.  The condition on rtype
\* ends in "|| TYPE_BOOL", which is true.
CanCast(ltype, rtype) ==
    \/ ltype = rtype
    \/ IsPointer(ltype) /\ IsPointer(rtype)
    \/ ltype \in {TYPE_INT, TYPE_CHAR, TYPE_BOOL}

VoidPointer == PointerTo("void")

\* void* and any pointer of level 1 stand for each other.
Assignable(ltype, rtype) ==
    \/ ltype = rtype
    \/ ltype = VoidPointer /\ rtype.pointer_level = 1
    \/ ltype.pointer_level = 1 /\ rtype = VoidPointer

-----------------------------------------------------------------------------
(***************************************************************************)
(* References.  A place is what generateReference knows of an expression   *)
(* between two turns of its loop; "INVALID" stands for an early return.    *)
(***************************************************************************)
RECURSIVE generateExpression(_, _), generateReference(_, _), PlaceOf(_, _)

Place(g, ptr, type, offset) ==
    [g |-> g, ptr |-> ptr, type |-> type, offset |-> offset]

NoPlace(g) == Place(Report(g), "INVALID", TYPE_VOID, 0)

IdentifierPlace(g, x) ==
    IF ~Exists(g, x) THEN NoPlace(g)
    ELSE LET id == FindVariable(g, x)
         IN  CASE id.kind = "LOCAL_ID" -> Place(g, "LOCAL", id.type, id.offset)
               [] id.kind = "GLOBAL_ID" ->
                    Place(emit_dataptr(g, "b", id.offset), "VALUE", id.type, 0)
               [] id.kind = "CONST_ID" -> NoPlace(g)

\* The pointer that is stored at a place, in register b.
LoadPointer(p) ==
    emit_mov_rm_disp(p.g, "b", IF p.ptr = "LOCAL" THEN "bp" ELSE "b", 8, p.offset)

\* Mutant: the offset of the pointer is kept when it is followed.
FollowedOffset_Kept(p, mem) == p.offset + mem.offset

FollowedOffset(p, mem) == mem.offset

MemberPlace(p, m) ==
    LET found == SelectSeq(MembersOf(p.g, TypeId(p.type.base, 0)),
                           LAMBDA mem : mem.name = m)
    IN  IF p.type.pointer_level > 1 \/ found = << >> THEN NoPlace(p.g)
        ELSE IF p.type.pointer_level = 0
        THEN [p EXCEPT !.offset = @ + found[1].offset, !.type = found[1].type]
        ELSE Place(LoadPointer(p), "VALUE", found[1].type,
                   FollowedOffset(p, found[1]))

\* a is an index and b a pointer: b = b + a * sizeof element
Scale(g, elem_type) ==
    emit_op(emit_op(emit_li(g, "c", Size(g, elem_type)), "INST_MUL", "a", "c"),
            "INST_ADD", "b", "a")

IndexPlace(p, e) ==
    IF ~IsPointer(p.type) THEN NoPlace(p.g)
    ELSE LET index == generateExpression(emit_push(LoadPointer(p), "b"), e)
             elem_type == WithLevel(p.type, -1)
         IN  IF index[2] # TYPE_INT THEN NoPlace(index[1])
             ELSE Place(Scale(emit_pop(emit_pop(index[1], "a"), "b"), elem_type),
                        "VALUE", elem_type, 0)

PlaceOf(g, e) ==
    IF e.kind = "IDENTIFIER" THEN IdentifierPlace(g, e.name)
    ELSE IF e.kind \notin {"MEMBER", "INDEX"} THEN NoPlace(g)
    ELSE LET p == PlaceOf(g, e.left)
         IN  IF p.ptr = "INVALID" THEN p
             ELSE IF e.kind = "MEMBER" THEN MemberPlace(p, e.name)
             ELSE IndexPlace(p, e.right)

\* The address of a place, in register b.
Address(p) ==
    CASE p.ptr = "LOCAL" /\ p.offset = 0 -> emit_mov_rr(p.g, "b", "bp")
      [] p.ptr = "LOCAL" /\ p.offset # 0 ->
            emit_op(emit_li(p.g, "b", p.offset), "INST_ADD", "b", "bp")
      [] p.ptr = "VALUE" /\ p.offset = 0 -> p.g
      [] OTHER -> emit_op(emit_li(p.g, "a", p.offset), "INST_ADD", "b", "a")

generateReference(g, e) ==
    IF e.kind = "DEREF"
    THEN LET r == generateExpression(g, e.left)
         IN  <<r[1], WithLevel(r[2], -1)>>
    ELSE LET p == PlaceOf(g, e)
         IN  IF p.ptr = "INVALID" THEN <<p.g, TYPE_VOID>>
             ELSE <<emit_push(Address(p), "b"), p.type>>

-----------------------------------------------------------------------------
(***************************************************************************)
(* Expressions.  The value is left on the stack.                           *)
(***************************************************************************)
LiteralStrExpression(g, str) ==
    LET h == AppendString(g, str)
    IN  <<emit_push(emit_dataptr(h, "a", h.strings[str]), "a"), PointerTo("char")>>

\* Only a literal is allowed.  For a constant without an expression the report reads
\* e->location of a null e (Generator.cpp:281), which ends the compiler: it leaves as little
\* as after a report.
ConstantExpression(g, e) ==
    IF IsConst(e) THEN generateExpression(g, e) ELSE Failure(g)

IdentifierExpression(g, x) ==
    IF ~Exists(g, x) THEN Failure(g)
    ELSE LET id == FindVariable(g, x)
         IN  CASE id.kind = "LOCAL_ID" ->
                    <<generatePush(g, "bp", id.offset, id.type), id.type>>
               [] id.kind = "GLOBAL_ID" ->
                    <<generatePush(emit_dataptr(g, "b", id.offset), "b", 0, id.type),
                      id.type>>
               [] id.kind = "CONST_ID" -> ConstantExpression(g, id.expression)

\* Every argument in turn: the context and the types.
Arguments(g, arguments) ==
    FoldLeft(LAMBDA r, e : LET x == generateExpression(r.g, e)
                           IN  [g |-> x[1], types |-> Append(r.types, x[2])],
             [g |-> g, types |-> << >>], arguments)

ArgumentsFit(fun, types) ==
    /\ Len(fun.parameters) = Len(types)
    /\ \A i \in DOMAIN types : Assignable(fun.parameters[i].type, types[i])

\* Mutant: the link that the call will push is not counted.
ParameterPlace_NoLink(param, arg_diff) == param.offset - arg_diff

\* Where a parameter is, from the stack pointer below the arguments.
ParameterPlace(param, arg_diff) == param.offset - 16 - arg_diff

MoveArguments(g, fun, arg_diff) ==
    FoldRight(LAMBDA param, h :
                generatePop(h, "b", ParameterPlace(param, arg_diff), param.type),
              fun.parameters, emit_mov_rr(g, "b", "sp"))

FetchResult(g, fun) ==
    IF Valid(fun.return_type)
    THEN generatePush(emit_incr(emit_mov_rr(g, "b", "sp"), "sp", fun.parameters_size),
                      "b", fun.return_offset - 16, fun.return_type)
    ELSE emit_incr(g, "sp", fun.parameters_size)

CallExpression(g, e) ==
    LET found == FindFunctions(g, e.name)
        fun   == found[1]
        space == emit_incr(g, "sp", - fun.parameters_size)
        args  == Arguments(space, e.arguments)
        moved == MoveArguments(args.g, fun, args.g.virtual_sp - space.virtual_sp)
    IN  IF found = << >> THEN Failure(g)
        ELSE IF ~ArgumentsFit(fun, args.types) THEN Failure(args.g)
        ELSE <<FetchResult(emit_call(moved, fun.name), fun), fun.return_type>>

Numbers == {TYPE_INT, TYPE_CHAR}

\* The type of an operation; void when the operands do not fit.
OperationType(kind, ltype, rtype) ==
    CASE kind \in Logic -> TYPE_BOOL
      [] kind \in Comparison ->
            IF {ltype, rtype} \subseteq Numbers THEN TYPE_BOOL ELSE TYPE_VOID
      [] kind \in Arithmetic ->
            CASE ltype = rtype -> ltype
              [] ltype = TYPE_INT /\ IsPointer(rtype) -> rtype
              [] rtype = TYPE_INT /\ IsPointer(ltype) -> ltype
              [] ltype # rtype /\ {ltype, rtype} \subseteq Numbers -> TYPE_INT
              [] OTHER -> TYPE_VOID

Opcode(kind) ==
    [ADD |-> "INST_ADD", SUB |-> "INST_SUB", MUL |-> "INST_MUL",
     DIV |-> "INST_DIV", AND |-> "INST_AND", OR |-> "INST_OR",
     EQUAL |-> "INST_EQUAL", NOT_EQUAL |-> "INST_NOT_EQUAL",
     LESS |-> "INST_LESS", GREATER |-> "INST_GREATER",
     LESS_EQUAL |-> "INST_LESS_EQUAL",
     GREATER_EQUAL |-> "INST_GREATER_EQUAL"][kind]

PopOperands(g) == emit_pop(emit_pop(g, "d"), "a")

\* The size of the left operand, of a pointer the size of what it points to.
EmitOperation(g, kind, ltype) ==
    IF kind \in Comparison
    THEN emit_compare(g, Opcode(kind), "a", "d", g.types[ltype.base].size)
    ELSE emit_op(g, Opcode(kind), "a", "d")

\* An operation that returns void without a report follows one that reported.
BinaryExpression(g, e) ==
    LET l == generateExpression(g, e.left)
        r == generateExpression(l[1], e.right)
        type == OperationType(e.kind, l[2], r[2])
        fits == Valid(type) \/ (e.kind \in Arithmetic /\ l[2] = r[2])
    IN  IF ~fits THEN Failure(r[1])
        ELSE <<emit_push(EmitOperation(PopOperands(r[1]), e.kind, l[2]), "a"), type>>

NotExpression(g, e) ==
    LET r == generateExpression(g, e.left)
    IN  <<emit_push(emit_op(emit_pop(r[1], "a"), "INST_NOT", "a", "a"), "a"), r[2]>>

ReferExpression(g, e) ==
    LET r == generateReference(g, e.left)
    IN  <<r[1], WithLevel(r[2], 1)>>

\* The value is read with the type of the pointer.
DerefExpression(g, e) ==
    LET r == generateExpression(g, e.left)
    IN  IF ~IsPointer(r[2]) THEN Failure(r[1])
        ELSE <<generatePush(emit_pop(r[1], "b"), "b", 0, r[2]), WithLevel(r[2], -1)>>

MemberExpression(g, e) ==
    LET r == generateReference(g, e)
    IN  IF ~Valid(r[2]) THEN r
        ELSE <<generatePush(emit_pop(r[1], "b"), "b", 0, r[2]), r[2]>>

IndexExpression(g, e) ==
    LET r == generateExpression(g, e.right)
        l == generateExpression(r[1], e.left)
        elem_type == WithLevel(l[2], -1)
    IN  IF ~IsPointer(l[2]) \/ r[2] # TYPE_INT THEN Failure(l[1])
        ELSE <<generatePush(Scale(emit_pop(emit_pop(l[1], "b"), "a"), elem_type),
                            "b", 0, elem_type),
               elem_type>>

Integral == {TYPE_INT, TYPE_CHAR, TYPE_BOOL}

\* No code is emitted without floats.  An unknown type is the void type.
CastExpression(g, e) ==
    LET r == generateExpression(g, e.left)
        castType == IF Known(g.types, e.type) THEN e.type ELSE TYPE_VOID
    IN  IF \/ r[2] = castType
           \/ IsPointer(r[2]) /\ IsPointer(castType)
           \/ {r[2], castType} \subseteq Integral
        THEN <<r[1], castType>>
        ELSE Failure(r[1])

SizeofExpression(g, e) ==
    IF Known(g.types, e.type) THEN <<PushLiteral(g, Size(g, e.type)), TYPE_INT>>
    ELSE <<Report(g), TYPE_INT>>

AssignOperands(g, e) ==
    LET r == generateExpression(g, e.right)
        l == generateReference(r[1], e.left)
    IN  [g |-> l[1], ltype |-> l[2], rtype |-> r[2]]

\* The value that was assigned is the value of the assignment.  "error should
\* be reported already": a void type is not reported here.
AssignExpression(g, e) ==
    LET x == AssignOperands(g, e)
    IN  IF ~Valid(x.ltype) \/ ~Valid(x.rtype) THEN <<x.g, TYPE_VOID>>
        ELSE IF ~Assignable(x.ltype, x.rtype) THEN Failure(x.g)
        ELSE <<generatePush(generatePop(emit_pop(x.g, "b"), "b", 0, x.ltype),
                            "b", 0, x.ltype),
               x.ltype>>

\* PRE_DECREMENT adds one, as the code does.
Increase(g, kind) ==
    CASE kind \in {"PRE_INCREMENT", "PRE_DECREMENT"} ->
            emit_push(emit_incr(g, "a", 1), "a")
      [] kind = "POST_INCREMENT" -> emit_incr(emit_push(g, "a"), "a", 1)
      [] kind = "POST_DECREMENT" -> emit_incr(emit_push(g, "a"), "a", -1)

IncrementExpression(g, e) ==
    LET r == generateReference(g, e.left)
        value == emit_mov_rm_disp(emit_pop(r[1], "b"), "a", "b", 4, 0)
    IN  IF ~Valid(r[2]) THEN r
        ELSE IF r[2] # TYPE_INT THEN Failure(r[1])
        ELSE <<emit_mov_mr_disp(Increase(value, e.kind), "b", "a", 4, 0), TYPE_INT>>

generateExpression(g, e) ==
    CASE e.kind = "LITERAL_INT"   -> <<PushLiteral(g, e.literal_integer), TYPE_INT>>
      [] e.kind = "LITERAL_CHAR"  -> <<PushLiteral(g, e.literal_string[1]), TYPE_CHAR>>
      [] e.kind = "LITERAL_TRUE"  -> <<PushLiteral(g, 1), TYPE_BOOL>>
      [] e.kind = "LITERAL_FALSE" -> <<PushLiteral(g, 0), TYPE_BOOL>>
      [] e.kind = "LITERAL_NULL"  -> <<PushLiteral(g, 0), VoidPointer>>
      [] e.kind = "LITERAL_STR"   -> LiteralStrExpression(g, e.literal_string)
      [] e.kind = "IDENTIFIER"    -> IdentifierExpression(g, e.name)
      [] e.kind = "FUNCTION_CALL" -> CallExpression(g, e)
      [] e.kind \in Arithmetic \cup Logic \cup Comparison -> BinaryExpression(g, e)
      [] e.kind = "NOT"           -> NotExpression(g, e)
      [] e.kind = "REFER"         -> ReferExpression(g, e)
      [] e.kind = "DEREF"         -> DerefExpression(g, e)
      [] e.kind = "MEMBER"        -> MemberExpression(g, e)
      [] e.kind = "INDEX"         -> IndexExpression(g, e)
      [] e.kind = "CAST"          -> CastExpression(g, e)
      [] e.kind = "SIZEOF"        -> SizeofExpression(g, e)
      [] e.kind = "ASSIGN"        -> AssignExpression(g, e)
      [] e.kind \in Increment     -> IncrementExpression(g, e)

-----------------------------------------------------------------------------
(***************************************************************************)
(* Statements.  The flow of a statement says what generateBody does next:  *)
(* "next" statement, "stop" and free the locals, or "fail": return false   *)
(* as it is, which no caller looks at.                                     *)
(***************************************************************************)
RECURSIVE generateBody(_, _, _)

Flow(g, flow) == [g |-> g, flow |-> flow]

Then(g) == Flow(g, "next")

Reported(g) == Flow(Report(g), "fail")

NoScope == EmptyScope

ExpressionStatement(g, stmt) ==
    LET r == generateExpression(g, stmt.expression)
    IN  Then(generatePop(r[1], NoRegister, 0, r[2]))

ConstDeclaration(g, stmt) ==
    IF ~Known(g.types, stmt.type) THEN Reported(g)
    ELSE Then(AddVariable(g, stmt.name, Id("CONST_ID", stmt.type, 0, stmt.expression)))

ZeroLocal(g, offset, type) ==
    emit_memzero(emit_li(emit_op(emit_li(g, "b", offset), "INST_ADD", "b", "bp"),
                         "a", Size(g, type)),
                 "b", "a")

Initialise(g, offset, type, e) ==
    LET r == generateExpression(g, e)
    IN  IF ~Valid(r[2]) THEN Flow(r[1], "fail")
        ELSE IF ~CanCast(r[2], type) THEN Reported(r[1])
        ELSE Then(generatePop(r[1], "bp", offset, type))

\* Mutant: the space of a local is not a multiple of 8.
LocalSize_Unaligned(size) == size

LocalSize(size) == Align(size, 8)

VarDeclaration(g, stmt) ==
    LET size  == LocalSize(Size(g, stmt.type))
        space == [emit_incr(g, "sp", - size) EXCEPT !.frame = @ - size]
        id    == Id("LOCAL_ID", stmt.type, space.frame, NoExpression)
        added == AddVariable(space, stmt.name, id)
    IN  IF ~Known(g.types, stmt.type) THEN Reported(g)
        ELSE IF Declared(g, stmt.name) THEN Then(added)
        ELSE IF stmt.expression = NoExpression
        THEN Then(ZeroLocal(added, id.offset, stmt.type))
        ELSE Initialise(added, id.offset, stmt.type, stmt.expression)

\* The condition of a while or if statement: in register a.
Condition(g, e) ==
    LET r == generateExpression(g, e)
    IN  IF CanCast(r[2], TYPE_BOOL) THEN Then(emit_pop(r[1], "a"))
        ELSE Reported(r[1])

pushLoop(g) ==
    [g EXCEPT !.loops = Append(@, [continue_pc  |-> get_pc(g),
                                   frame_offset |-> g.frame,
                                   breaks_to_resolve |-> << >>])]

popLoop(g) == [g EXCEPT !.loops = Front(@)]

FixAll(g, imms) == FoldLeft(fix_jump_here, g, imms)

\* Mutant: the ways out of the loop lead to the jump back to its condition.
CloseLoop_BreaksFirst(g, exit) ==
    emit_jmp_to(FixAll(g, <<exit>> \o Last(g.loops).breaks_to_resolve),
                Last(g.loops).continue_pc)

CloseLoop(g, exit) ==
    FixAll(emit_jmp_to(g, Last(g.loops).continue_pc),
           <<exit>> \o Last(g.loops).breaks_to_resolve)

WhileStatement(g, stmt) ==
    LET cond == Condition(pushLoop(g), stmt.expression)
        jz   == emit_jz(cond.g, "a")
        body == generateBody(jz, stmt.body, NoScope)
    IN  IF cond.flow = "fail" THEN cond
        ELSE Then(popLoop(CloseLoop(body, LastImm(jz))))

\* Mutant: the locals of the bodies that are left are not freed.
LeaveLoop_NotFreed(g) == g

\* The locals that the loop's bodies have declared so far are freed.
LeaveLoop(g) ==
    LET loop == Last(g.loops)
    IN  IF g.frame # loop.frame_offset
        THEN emit_incr(g, "sp", loop.frame_offset - g.frame)
        ELSE g

Leave(g, prev) == Flow([g EXCEPT !.frame = prev], "stop")

ContinueStatement(g, prev) ==
    IF g.loops = << >> THEN Reported(g)
    ELSE Leave(emit_jmp_to(LeaveLoop(g), Last(g.loops).continue_pc), prev)

BreakStatement(g, prev) ==
    LET jmp == emit_jmp(LeaveLoop(g))
    IN  IF g.loops = << >> THEN Reported(g)
        ELSE Leave([jmp EXCEPT !.loops[Len(g.loops)].breaks_to_resolve =
                                  Append(@, LastImm(jmp))],
                  prev)

IfStatement(g, stmt) ==
    LET cond  == Condition(g, stmt.expression)
        jz    == emit_jz(cond.g, "a")
        body  == generateBody(jz, stmt.body, NoScope)
        jmp   == emit_jmp(body)
        other == generateBody(fix_jump_here(jmp, LastImm(jz)), stmt.elseBody, NoScope)
    IN  CASE cond.flow = "fail" -> cond
          [] cond.flow # "fail" /\ ~stmt.has_else ->
                Then(fix_jump_here(body, LastImm(jz)))
          [] cond.flow # "fail" /\ stmt.has_else ->
                Then(fix_jump_here(other, LastImm(jmp)))

FreeAll(g) == IF g.frame # 0 THEN emit_incr(g, "sp", - g.frame) ELSE g

\* The result goes to the first slot of the frame, with the type it has.
StoreResult(g, e) ==
    LET r == generateExpression(g, e)
    IN  IF ~Valid(g.return_type) THEN Reported(g)
        ELSE IF ~CanCast(r[2], g.return_type) THEN Reported(r[1])
        ELSE Then(generatePop(r[1], "bp", g.return_offset, r[2]))

ReturnStatement(g, stmt, prev) ==
    LET stored == IF stmt.expression = NoExpression THEN Then(g)
                  ELSE StoreResult(g, stmt.expression)
    IN  IF stored.flow = "fail" THEN stored
        ELSE Leave(emit_ret(FreeAll(stored.g)), prev)

Statement(g, stmt, prev) ==
    CASE stmt.kind = "EXPRESSION"        -> ExpressionStatement(g, stmt)
      [] stmt.kind = "CONST_DECLARATION" -> ConstDeclaration(g, stmt)
      [] stmt.kind = "VAR_DECLARATION"   -> VarDeclaration(g, stmt)
      [] stmt.kind = "WHILE"             -> WhileStatement(g, stmt)
      [] stmt.kind = "CONTINUE"          -> ContinueStatement(g, prev)
      [] stmt.kind = "BREAK"             -> BreakStatement(g, prev)
      [] stmt.kind = "IF"                -> IfStatement(g, stmt)
      [] stmt.kind = "RETURN"            -> ReturnStatement(g, stmt, prev)

\* "free" local variables from stack
FreeLocals(g, prev) ==
    IF g.frame # prev
    THEN [emit_incr(g, "sp", prev - g.frame) EXCEPT !.frame = prev]
    ELSE g

\* names: the parameters, for the body of a function.
generateBody(g, body, names) ==
    LET last == FoldLeft(LAMBDA r, stmt : IF r.flow = "next"
                                          THEN Statement(r.g, stmt, g.frame) ELSE r,
                         Then([g EXCEPT !.scopes = Append(@, names)]), body)
        done == IF last.flow = "fail" THEN last.g ELSE FreeLocals(last.g, g.frame)
    IN  [done EXCEPT !.scopes = g.scopes]

-----------------------------------------------------------------------------
(***************************************************************************)
(* Functions and the program.                                              *)
(***************************************************************************)
\* CheckGlobals: a global whose name is taken ends it.
CheckGlobals(g, globals) ==
    FoldLeft(LAMBDA h, stmt :
                IF h.errors THEN h
                ELSE IF ~Known(h.types, stmt.type) THEN Report(h)
                ELSE AddVariable(AppendData(h, Underscores(Size(h, stmt.type))),
                                 stmt.name,
                                 Id("GLOBAL_ID", stmt.type, Len(h.data), NoExpression)),
             g, globals)

SetGlobal(g, stmt) ==
    LET id == FindVariable(g, stmt.name)
        r  == generateExpression(g, stmt.expression)
    IN  IF stmt.expression = NoExpression
        THEN emit_memzero(emit_li(emit_dataptr(g, "b", id.offset), "a",
                                  Size(g, id.type)),
                          "b", "a")
        ELSE IF ~Valid(r[2]) THEN r[1]
        ELSE IF id.type # r[2] THEN Report(r[1])
        ELSE generatePop(emit_dataptr(r[1], "b", id.offset), "b", 0, r[2])

ReserveResult(g, f) ==
    LET size == LocalSize(Size(g, f.return_type))
    IN  IF Valid(f.return_type)
        THEN [emit_incr(g, "sp", - size) EXCEPT !.frame = @ - size]
        ELSE g

ForgottenReturn(g, f) ==
    LET checked == IF Valid(f.return_type) THEN Report(g) ELSE g
    IN  IF g.code = << >> \/ LooksLikeRet(Last(g.code)) THEN g
        ELSE emit_ret(FreeAll(checked))

ParameterScope(f) ==
    [x \in {f.parameters[i].name : i \in DOMAIN f.parameters} |->
        LET param == f.parameters[CHOOSE i \in DOMAIN f.parameters :
                                    f.parameters[i].name = x]
        IN  Id("LOCAL_ID", param.type, param.offset, NoExpression)]

GenerateFunction(g, f, globals) ==
    LET fresh  == EmptyPiece @@ [g EXCEPT !.return_type = f.return_type,
                                          !.return_offset = f.return_offset]
        set    == IF f.name = "main" THEN FoldLeft(SetGlobal, fresh, globals)
                  ELSE fresh
        body   == generateBody(ReserveResult(set, f), f.body, ParameterScope(f))
        piece  == ForgottenReturn(body, f)
    IN  [piece EXCEPT !.frame = 0, !.loops = << >>]

Context(types, functions) ==
    EmptyPiece @@
    [frame |-> 0, scopes |-> <<EmptyScope>>, loops |-> << >>,
     return_type |-> TYPE_VOID, return_offset |-> 0,
     types |-> types, functions |-> functions,
     data |-> << >>, strings |-> EmptyScope, errors |-> FALSE]

KnownSignature(types, f) ==
    /\ \A i \in DOMAIN f.parameters : Known(types, f.parameters[i].type)
    /\ f.return_type = TYPE_VOID \/ Known(types, f.return_type)

\* The native functions are numbered from below zero.
CodeIndex(functions) ==
    [f \in {functions[i].name : i \in DOMAIN functions}
           \cup {NativeFunctions[i].name : i \in DOMAIN NativeFunctions} |->
        IF \E i \in DOMAIN functions : functions[i].name = f
        THEN (CHOOSE i \in DOMAIN functions : functions[i].name = f) - 1
        ELSE (CHOOSE i \in DOMAIN NativeFunctions : NativeFunctions[i].name = f)
             - 1 - Len(NativeFunctions)]

\* The functions are generated in order, as by one thread; main is the function
\* the virtual machine looks for.
Compile(program) ==
    LET types     == TypesOf(program.structs)
        functions == [i \in DOMAIN program.functions |->
                        CheckFunction(types, program.functions[i])]
        start     == CheckGlobals(Context(types, functions \o NativeFunctions),
                                  program.globals)
        result    == FoldLeft(LAMBDA r, f :
                                LET g == GenerateFunction(r.g, f, program.globals)
                                IN  [g |-> g, pieces |-> Append(r.pieces, g)],
                              [g |-> start, pieces |-> << >>], functions)
        index     == CodeIndex(functions)
    IN  [errors  |-> result.g.errors \/
                     \E i \in DOMAIN functions : ~KnownSignature(types, functions[i]),
         pieces  |-> [i \in DOMAIN functions |-> Relocate(result.pieces[i], index)],
         main    |-> index["main"],
         data    |-> result.g.data]
=============================================================================
