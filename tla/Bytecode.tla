------------------------------ MODULE Bytecode ------------------------------
(***************************************************************************)
(* A piece of bytecode, the code of one function (BytecodePiece), and the  *)
(* operations that append to it (Bytecode.h, Bytecode.cpp).                *)
(*                                                                         *)
(* The code is a sequence of words.  A word is an instruction or the       *)
(* immediate of the instruction before it; the program counter, which      *)
(* starts at 0, counts words.  Word number pc is code[pc + 1].             *)
(***************************************************************************)
EXTENDS Integers, Sequences, SequencesExt

Register == {"a", "b", "c", "d", "sp", "bp"}

NoRegister == "invalid"

\* Instructions that are followed by an immediate (opcode >= INST_IMMEDIATES).
Immediates == {"INST_LI", "INST_JMP", "INST_JZ", "INST_CALL",
               "INST_MOV_MR_DISP", "INST_MOV_RM_DISP", "INST_DATAPTR"}

\* op0 and op1 are registers; arg is op2, the two bytes of INST_INCR or the
\* value of an immediate.
Word(opcode, op0, op1, arg) ==
    [opcode |-> opcode, op0 |-> op0, op1 |-> op1, arg |-> arg]

Immediate(n) == Word("immediate", NoRegister, NoRegister, n)

\* The number of INST_RET in the enumeration of opcodes.
RetByte == 22

\* The test of the opcode byte of the last word, instruction or not.
LooksLikeRet(word) ==
    IF word.opcode = "immediate" THEN word.arg % 256 = RetByte
    ELSE word.opcode = "INST_RET"

EmptyPiece ==
    [code        |-> << >>,   \* instructions
     starts      |-> << >>,   \* index_of_non_immediates
     virtual_sp  |-> 0,
     relocations |-> << >>]

get_pc(p) == Len(p.code)

-----------------------------------------------------------------------------
Emit(p, word) == [p EXCEPT !.code = Append(@, word),
                           !.starts = Append(@, get_pc(p))]

EmitImm(p, word, imm) == [Emit(p, word) EXCEPT !.code = Append(@, Immediate(imm))]

Op0(opcode)                 == Word(opcode, NoRegister, NoRegister, 0)
Op1(opcode, reg)            == Word(opcode, reg, NoRegister, 0)
Op2(opcode, to, from)       == Word(opcode, to, from, 0)

emit_li(p, reg, imm) == EmitImm(p, Op1("INST_LI", reg), imm)

emit_dataptr(p, reg, offset) == EmitImm(p, Op1("INST_DATAPTR", reg), offset)

emit_mov_rr(p, to, from) == Emit(p, Op2("INST_MOV_RR", to, from))

emit_memzero(p, reg, reg_size) == Emit(p, Op2("INST_MEMZERO", reg, reg_size))

emit_ret(p) == Emit(p, Op0("INST_RET"))

\* add, sub, mul, div, and, or, not
emit_op(p, opcode, to, from) == Emit(p, Op2(opcode, to, from))

\* eq, neq, less, ... with the size of the operands as control flags
emit_compare(p, opcode, to, from, size) ==
    Emit(p, Word(opcode, to, from, size))

emit_push(p, reg) ==
    [Emit(p, Op1("INST_PUSH", reg)) EXCEPT !.virtual_sp = @ - 8]

\* pop_last_inst
PopLastInst(p) == [p EXCEPT !.code = SubSeq(@, 1, Last(p.starts)),
                            !.starts = Front(@)]

\* Mutant: any push before the pop is removed.
Redundant_AnyPush(p, reg) ==
    /\ p.starts # << >>
    /\ p.code[Last(p.starts) + 1].opcode = "INST_PUSH"

\* The last instruction pushes the register that is popped.
Redundant(p, reg) ==
    /\ p.starts # << >>
    /\ p.code[Last(p.starts) + 1] = Op1("INST_PUSH", reg)

emit_pop(p, reg) ==
    LET q == [p EXCEPT !.virtual_sp = @ + 8]
    IN  IF Redundant(p, reg) THEN PopLastInst(q)
        ELSE Emit(q, Op1("INST_POP", reg))

\* The operand keeps the low 16 bits of imm, one byte in op1 and one in op2.
emit_incr(p, reg, imm) ==
    [Emit(p, Word("INST_INCR", reg, NoRegister, imm % 65536))
        EXCEPT !.virtual_sp = IF reg = "sp" THEN @ + imm ELSE @]

emit_mov_mr_disp(p, to, from, size, offset) ==
    IF offset = 0 THEN Emit(p, Word("INST_MOV_MR", to, from, size))
    ELSE EmitImm(p, Word("INST_MOV_MR_DISP", to, from, size), offset)

emit_mov_rm_disp(p, to, from, size, offset) ==
    IF offset = 0 THEN Emit(p, Word("INST_MOV_RM", to, from, size))
    ELSE EmitImm(p, Word("INST_MOV_RM_DISP", to, from, size), offset)

-----------------------------------------------------------------------------
(***************************************************************************)
(* Jumps.  The immediate is relative to its own place.  A forward jump is  *)
(* emitted with an immediate of 0, and its place is the last word then.    *)
(***************************************************************************)
LastImm(p) == get_pc(p) - 1

emit_jmp_to(p, pc) == EmitImm(p, Op0("INST_JMP"), pc - (get_pc(p) + 1))

emit_jmp(p) == EmitImm(p, Op0("INST_JMP"), 0)

emit_jz(p, reg) == EmitImm(p, Op1("INST_JZ", reg), 0)

\* Mutant: the distance is counted from the jump itself.
JumpDistance_FromJump(p, imm_index) == get_pc(p) - imm_index + 1

JumpDistance(p, imm_index) == get_pc(p) - imm_index

fix_jump_here(p, imm_index) ==
    [p EXCEPT !.code[imm_index + 1].arg = JumpDistance(p, imm_index)]

\* emit_call and addRelocation
emit_call(p, f) ==
    LET q == EmitImm(p, Op0("INST_CALL"), 0)
    IN  [q EXCEPT !.relocations =
            Append(@, [index_of_immediate |-> LastImm(q), function |-> f])]

\* Mutant: the number of a piece is used as it is.
CalleeNumber_Unshifted(index) == index

\* 0 is seen as invalid.
CalleeNumber(index) == IF index < 0 THEN index ELSE index + 1

\* apply_relocations, for one piece: code_index[f] is the index of f's piece,
\* or negative for a native function.
Relocate(p, code_index) ==
    FoldLeft(LAMBDA code, rel :
                [code EXCEPT ![rel.index_of_immediate + 1].arg =
                    CalleeNumber(code_index[rel.function])],
             p.code, p.relocations)

-----------------------------------------------------------------------------
(***************************************************************************)
(* What the instructions of a piece do to the order of execution.          *)
(***************************************************************************)
\* The words that are instructions.
InstructionAt(code, pc) ==
    pc < Len(code) /\ code[pc + 1].opcode # "immediate"

\* The word that a jump goes to.
JumpTarget(code, pc) == pc + 1 + code[pc + 2].arg

Jumps(code) ==
    {pc \in 0..(Len(code) - 1) : code[pc + 1].opcode \in {"INST_JMP", "INST_JZ"}}
=============================================================================
