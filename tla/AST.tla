--------------------------------- MODULE AST ---------------------------------
(***************************************************************************)
(* The syntax tree of a Tin program as the generator sees it (AST.h) and   *)
(* the layout of its types: primitive sizes (AST::AST), structs            *)
(* (GeneratorContext::generateStruct) and function signatures              *)
(* (CheckFunction).                                                        *)
(*                                                                         *)
(* A program has one source file: how several files become visible to each *)
(* other is the subject of Compiler.  Structs and functions are declared   *)
(* at file level, and a struct stands before the structs that contain it.  *)
(***************************************************************************)
EXTENDS Integers, Sequences, SequencesExt, TLC

-----------------------------------------------------------------------------
(* Types: TypeId *)

TypeId(base, level) == [base |-> base, pointer_level |-> level]

TYPE_VOID == TypeId("void", 0)
TYPE_INT  == TypeId("int", 0)
TYPE_CHAR == TypeId("char", 0)
TYPE_BOOL == TypeId("bool", 0)

PointerTo(base) == TypeId(base, 1)

Valid(type) == type # TYPE_VOID

IsPointer(type) == type.pointer_level > 0

WithLevel(type, change) == [type EXCEPT !.pointer_level = @ + change]

-----------------------------------------------------------------------------
(* Expressions: ASTExpression *)

LiteralInt(n)   == [kind |-> "LITERAL_INT", literal_integer |-> n]
LiteralChar(c)  == [kind |-> "LITERAL_CHAR", literal_string |-> <<c>>]
LiteralStr(s)   == [kind |-> "LITERAL_STR", literal_string |-> s]
LiteralTrue     == [kind |-> "LITERAL_TRUE"]
LiteralFalse    == [kind |-> "LITERAL_FALSE"]
LiteralNull     == [kind |-> "LITERAL_NULL"]
Identifier(x)   == [kind |-> "IDENTIFIER", name |-> x]
Unary(k, e)     == [kind |-> k, left |-> e]
Binary(k, l, r) == [kind |-> k, left |-> l, right |-> r]
Member(e, m)    == [kind |-> "MEMBER", left |-> e, name |-> m]
Cast(type, e)   == [kind |-> "CAST", left |-> e, type |-> type]
Sizeof(type)    == [kind |-> "SIZEOF", type |-> type]
FunctionCall(f, arguments) ==
    [kind |-> "FUNCTION_CALL", name |-> f, arguments |-> arguments]

NoExpression == [kind |-> "INVALID"]

Arithmetic == {"ADD", "SUB", "MUL", "DIV"}
Logic      == {"AND", "OR"}
Comparison == {"EQUAL", "NOT_EQUAL", "LESS", "GREATER", "LESS_EQUAL",
               "GREATER_EQUAL"}
Increment  == {"PRE_INCREMENT", "POST_INCREMENT", "PRE_DECREMENT",
               "POST_DECREMENT"}

\* ASTExpression::isConst
IsConst(e) == e.kind \in {"SIZEOF", "LITERAL_INT", "LITERAL_STR",
                          "LITERAL_CHAR", "LITERAL_NULL", "LITERAL_TRUE",
                          "LITERAL_FALSE"}

-----------------------------------------------------------------------------
(* Statements: ASTStatement; a body is the sequence of its statements *)

Declare(kind, x, type, e) ==
    [kind |-> kind, name |-> x, type |-> type, expression |-> e]
Var(x, type, e) == Declare("VAR_DECLARATION", x, type, e)
Expression(e)   == [kind |-> "EXPRESSION", expression |-> e]
While(e, body)  == [kind |-> "WHILE", expression |-> e, body |-> body]
If(e, body)     == [kind |-> "IF", expression |-> e, body |-> body,
                    has_else |-> FALSE, elseBody |-> << >>]
IfElse(e, body, elseBody) ==
                   [kind |-> "IF", expression |-> e, body |-> body,
                    has_else |-> TRUE, elseBody |-> elseBody]
Break           == [kind |-> "BREAK"]
Continue        == [kind |-> "CONTINUE"]
Return(e)       == [kind |-> "RETURN", expression |-> e]

-----------------------------------------------------------------------------
(* Declarations *)

Field(x, type) == [name |-> x, type |-> type]

Struct(x, members) == [name |-> x, members |-> members]

Function(f, parameters, return_type, body) ==
    [name |-> f, parameters |-> parameters, return_type |-> return_type,
     body |-> body]

ASTBody(structs, globals, functions) ==
    [structs |-> structs, globals |-> globals, functions |-> functions]

-----------------------------------------------------------------------------
(* Layout *)

\* (n + (a-1)) & ~(a-1), for a power of two a
Align(n, a) == ((n + a - 1) \div a) * a

\* TypeInfo
TypeInfo(size, is_struct, members) ==
    [size |-> size, is_struct |-> is_struct, members |-> members]

PrimitiveTypes ==
    [b \in {"void", "int", "char", "bool"} |->
        TypeInfo(CASE b = "void" -> 0 [] b = "int" -> 4 [] OTHER -> 1,
                 FALSE, << >>)]

SizeOfType(types, type) ==
    IF IsPointer(type) THEN 8 ELSE types[type.base].size

\* convertFullType gives the void type for a name it does not know.
Known(types, type) == type.base \in DOMAIN types /\ Valid(type)

MemberAlignment(size) == CASE size = 2 -> 2 [] size <= 4 -> 4 [] OTHER -> 8

\* A member or parameter that has its place.
PlacedAt(field, offset) == [name |-> field.name, type |-> field.type, offset |-> offset]

\* One turn of the loop of generateStruct.
PlaceMember(types, layout, mem) ==
    LET size    == SizeOfType(types, mem.type)
        aligned == MemberAlignment(size)
        offset  == Align(layout.end, aligned)
    IN  [end       |-> offset + size,
         alignment |-> IF layout.alignment < aligned THEN aligned
                       ELSE layout.alignment,
         members   |-> Append(layout.members, PlacedAt(mem, offset))]

GenerateStruct(types, st) ==
    LET layout == FoldLeft(LAMBDA l, mem : PlaceMember(types, l, mem),
                           [end |-> 0, alignment |-> 1, members |-> << >>],
                           st.members)
        info   == TypeInfo(Align(layout.end, layout.alignment), TRUE, layout.members)
    IN  [b \in DOMAIN types \cup {st.name} |-> IF b = st.name THEN info ELSE types[b]]

TypesOf(structs) == FoldLeft(GenerateStruct, PrimitiveTypes, structs)

ParameterAlignment(size) ==
    CASE size <= 1 -> 1 [] size = 2 -> 2 [] size \in 3..4 -> 4 [] OTHER -> 8

\* Parameters are placed upwards from the saved registers (16 bytes above the
\* base pointer); the return value is the first thing below the base pointer.
PlaceParameter(types, layout, param) ==
    LET size   == SizeOfType(types, param.type)
        offset == Align(layout.end, ParameterAlignment(size))
    IN  [end        |-> offset + size,
         parameters |-> Append(layout.parameters, PlacedAt(param, offset))]

ReturnOffset(size) == - Align(size, 8)

CheckFunction(types, f) ==
    LET layout == FoldLeft(LAMBDA l, param : PlaceParameter(types, l, param),
                           [end |-> 16, parameters |-> << >>], f.parameters)
    IN  [name            |-> f.name,
         parameters      |-> layout.parameters,
         parameters_size |-> Align(layout.end, 8) - 16,
         return_type     |-> f.return_type,
         return_offset   |-> IF Valid(f.return_type)
                             THEN ReturnOffset(SizeOfType(types, f.return_type))
                             ELSE 0,
         body            |-> f.body]

\* The native functions that take no float and touch no file.
NativeFunctions ==
    LET Native(f, parameters, return_type) ==
            CheckFunction(PrimitiveTypes,
                          Function(f, parameters, return_type, << >>))
    IN  << Native("printi", <<Field("v", TYPE_INT)>>, TYPE_VOID),
           Native("printc", <<Field("v", TYPE_CHAR)>>, TYPE_VOID),
           Native("prints", <<Field("v", PointerTo("char"))>>, TYPE_VOID),
           Native("malloc", <<Field("size", TYPE_INT)>>, PointerTo("void")),
           Native("mfree", <<Field("ptr", PointerTo("void"))>>, TYPE_VOID),
           Native("memcpy", <<Field("dst", PointerTo("void")),
                              Field("src", PointerTo("void")),
                              Field("size", TYPE_INT)>>, TYPE_VOID) >>
=============================================================================
