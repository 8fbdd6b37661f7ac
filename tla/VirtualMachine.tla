--------------------------- MODULE VirtualMachine ---------------------------
(***************************************************************************)
(* The virtual machine (VirtualMachine.cpp): the execution of the pieces   *)
(* of a program, one action per instruction.                               *)
(*                                                                         *)
(* An image is what the generator and the relocations leave: the code of   *)
(* the pieces, the number of the piece of main, and the global data.  The  *)
(* program counter, which is a register of the code, starts at 0.          *)
(*                                                                         *)
(* A register has 8 bytes and a sign.                                      *)
(***************************************************************************)
EXTENDS Memory, Bytecode, FiniteSets

CONSTANTS
    Program,     \* the names of the programs that may be executed
    Image(_)     \* the image of each

VARIABLES
    program,      \* the program that is executed
    registers,
    piece_index,
    memory,       \* the stack, global_data and the blocks of malloc
    allocations,  \* the size of each block of malloc
    printed,      \* what the natives have printed
    status        \* "running", or how the execution ended

-----------------------------------------------------------------------------
(***************************************************************************)
(* The images that the generator and the relocations leave.                *)
(***************************************************************************)
Words == [opcode : STRING, op0 : STRING, op1 : STRING, arg : Int]

\* Where the execution may come to: an instruction, or the end of the code.
Places(code) == {pc \in 0..Len(code) : pc = Len(code) \/ InstructionAt(code, pc)}

SizeOf(word) == IF word.opcode \in Immediates THEN 2 ELSE 1

Operations  == {"INST_ADD", "INST_SUB", "INST_MUL", "INST_DIV", "INST_AND", "INST_OR",
                "INST_NOT"}

Comparisons == {"INST_EQUAL", "INST_NOT_EQUAL", "INST_LESS", "INST_LESS_EQUAL",
                "INST_GREATER", "INST_GREATER_EQUAL"}

\* Loads and stores, of a number of bytes.
Moves == {"INST_MOV_RM", "INST_MOV_RM_DISP", "INST_MOV_MR", "INST_MOV_MR_DISP"}

\* What has a result in op0, which is not the stack pointer or the base pointer.
Results == {"INST_MOV_RR", "INST_LI", "INST_DATAPTR", "INST_MOV_RM", "INST_MOV_RM_DISP",
            "INST_POP"} \cup Operations \cup Comparisons

\* What reads op0, and what reads op1.
FirstRead  == {"INST_MOV_MR", "INST_MOV_MR_DISP", "INST_MEMZERO", "INST_PUSH", "INST_JZ",
               "INST_INCR"} \cup Operations \cup Comparisons

SecondRead == {"INST_MOV_RR", "INST_MOV_RM", "INST_MOV_RM_DISP", "INST_MOV_MR",
               "INST_MOV_MR_DISP", "INST_MEMZERO"} \cup Operations \cup Comparisons

\* What an immediate may be: a jump stays in the code, a call names a native function or
\* a piece, a value fits in a register, and a store to the frame is below the base pointer.
WellAimed(pieces, code, pc) ==
    LET opcode == code[pc + 1].opcode
        arg    == code[pc + 2].arg
    IN  /\ opcode \in {"INST_JMP", "INST_JZ"} => JumpTarget(code, pc) \in Places(code)
        /\ opcode = "INST_CALL" => arg \in (-6 .. -1) \cup (1..Len(pieces))
        /\ opcode = "INST_LI" => Word64(arg) = arg
        /\ opcode = "INST_DATAPTR" => Word64(DataBase + arg) = DataBase + arg
        /\ opcode = "INST_MOV_MR_DISP" /\ code[pc + 1].op0 = "bp" => arg + code[pc + 1].arg <= 0

WellFormedAt(pieces, code, pc) ==
    LET word == code[pc + 1]
    IN  /\ pc + SizeOf(word) \in Places(code)
        /\ word.opcode \in Results => word.op0 \in {"a", "b", "c", "d"}
        /\ word.opcode = "INST_INCR" => word.op0 # "bp" /\ 0 <= word.arg /\ word.arg < 65536
        /\ word.opcode = "INST_MOV_MR" => word.op0 # "bp"
        /\ word.opcode \in Moves => word.arg \in {1, 4, 8}
        /\ word.opcode \in FirstRead => word.op0 \in Register
        /\ word.opcode \in SecondRead => word.op1 \in Register
        /\ word.opcode \in Immediates => WellAimed(pieces, code, pc)

\* The two bytes of INST_INCR: (i8)op1 | ((i8)op2 << 8)
IncrementOf(arg) ==
    LET low  == arg % 256
        high == arg \div 256
    IN  IF low >= 128 THEN low - 256
        ELSE (IF high >= 128 THEN high - 256 ELSE high) * 256 + low

\* What an instruction adds to the height of the frame, from sp up to bp.  A call adds
\* nothing, since its return takes away what it has pushed.
GrowthOf(word) ==
    CASE word.opcode = "INST_PUSH" -> 8
      [] word.opcode = "INST_POP"  -> -8
      [] word.opcode = "INST_INCR" /\ word.op0 = "sp" -> - IncrementOf(word.arg)
      [] OTHER -> 0

\* Where the function may go on after an instruction.
NextPlaces(code, pc) ==
    LET word == code[pc + 1]
        next == pc + SizeOf(word)
    IN  CASE word.opcode = "INST_RET" -> {}
          [] word.opcode = "INST_JMP" -> {JumpTarget(code, pc)}
          [] word.opcode = "INST_JZ"  -> {next, JumpTarget(code, pc)}
          [] OTHER -> {next}

Unreached == -1

\* The height of the frame at each place, as the first path to it from above leaves it.
Heights(code) ==
    LET HeightAfter(heights, pc) ==
            LET origins == {q \in 0..(pc - 1) : /\ InstructionAt(code, q)
                                                /\ heights[q + 1] # Unreached
                                                /\ pc \in NextPlaces(code, q)}
                q == Min(origins)
            IN  IF origins = {} THEN Unreached ELSE heights[q + 1] + GrowthOf(code[q + 1])
    IN  FoldLeft(LAMBDA heights, pc : Append(heights, HeightAfter(heights, pc)), <<0>>,
                 [pc \in 1..Len(code) |-> pc])

\* On all paths a place is reached with the same frame, which never pops what it has not
\* pushed; a function returns with an empty one, and does not run past its end.  A store to
\* the frame is to a part of it that is in use.
Balanced(code) ==
    LET heights == Heights(code)
    IN  /\ heights[1] = 0
        /\ heights[Len(code) + 1] = Unreached
        /\ \A pc \in 0..(Len(code) - 1) :
              InstructionAt(code, pc) /\ heights[pc + 1] # Unreached =>
                 /\ code[pc + 1].opcode = "INST_RET" => heights[pc + 1] = 0
                 /\ code[pc + 1].opcode = "INST_MOV_MR_DISP" /\ code[pc + 1].op0 = "bp" =>
                       heights[pc + 1] + code[pc + 2].arg >= 0
                 /\ \A next \in NextPlaces(code, pc) :
                       /\ heights[next + 1] >= 0
                       /\ heights[next + 1] = heights[pc + 1] + GrowthOf(code[pc + 1])

WellFormed(pieces, code) ==
    /\ Len(code) < Half(4)
    /\ 0 \in Places(code)
    /\ Balanced(code)
    /\ \A pc \in 0..(Len(code) - 1) :
          InstructionAt(code, pc) => WellFormedAt(pieces, code, pc)

WellFormedImage(image) ==
    /\ image.pieces \in Seq(Seq(Words)) /\ Len(image.pieces) < Half(4)
    /\ image.main \in 0..(Len(image.pieces) - 1)
    /\ image.data \in Seq(0..(ByteBase - 1))
    /\ DataBase + Len(image.data) <= StackBase
    /\ \A k \in DOMAIN image.pieces : WellFormed(image.pieces, image.pieces[k])

vars == <<program, registers, piece_index, memory, allocations, printed, status>>

-----------------------------------------------------------------------------
(* Memory *)

GlobalData == Image(program).data

\* The n bytes at an address, as an unsigned number.
Load(address, size) ==
    LET Four(a) == memory[a] + ByteBase * (memory[a + 1] +
                      ByteBase * (memory[a + 2] + ByteBase * memory[a + 3]))
    IN  CASE size = 1 -> memory[address]
          [] size = 4 -> Four(address)
          [] size = 8 -> Four(address) + Power[4] * Four(address + 4)
          [] OTHER    -> 0

\* can_access_memory
CanAccessMemory(address, size) ==
    \/ Inside(address, size, StackBase, StackMax)
    \/ Inside(address, size, DataBase, Len(GlobalData))
    \/ \E block \in DOMAIN allocations :
            Inside(address, size, block, allocations[block])

\* The bytes are the machine's.  What the natives and the pops use is not tested, and the
\* test lets an access pass that begins up to its size below a region.
Raw(address, size) == Addresses(address, size) \subseteq DOMAIN memory

-----------------------------------------------------------------------------
(* Instructions *)

Code == Image(program).pieces[piece_index + 1]

InBounds == registers.pc >= 0 /\ registers.pc < Len(Code)

inst == Code[registers.pc + 1]

\* The word after the instruction.
imm == Code[registers.pc + 2].arg

NextPc == registers.pc + SizeOf(inst)

Displacement ==
    IF inst.opcode \in {"INST_MOV_MR_DISP", "INST_MOV_RM_DISP"} THEN imm ELSE 0

\* Mutant: the stack may grow below its memory.
CheckStack_TopOnly(sp) == sp <= StackTop

\* CHECK_STACK
CheckStack(sp) == StackBase <= sp /\ sp <= StackTop

Executes(opcodes) == status = "running" /\ InBounds /\ inst.opcode \in opcodes

\* The instruction sets register reg to x.
SetRegister(reg, x) ==
    /\ registers' = [registers EXCEPT !.pc = NextPc, ![reg] = x]
    /\ UNCHANGED <<program, piece_index, memory, allocations, printed, status>>

\* The loop or the function ends.  The blocks that are left are freed at the
\* end of the loop only; the process ends in both cases.
EndWith(s) ==
    /\ status' = s
    /\ UNCHANGED <<program, registers, piece_index, memory, allocations, printed>>

-----------------------------------------------------------------------------
Init ==
    /\ program \in Program
    /\ piece_index = Image(program).main
    /\ registers = [a |-> 0, b |-> 0, c |-> 0, d |-> 0,
                    sp |-> StackTop, bp |-> StackTop, pc |-> 0]
    /\ \E byte \in Garbage :
         memory = Join(Filled(Addresses(StackBase, StackMax), byte),
                       [b \in Addresses(DataBase, Len(GlobalData)) |->
                            GlobalData[b - DataBase + 1]])
    /\ allocations = << >>
    /\ printed = << >>
    /\ status = IF Code = << >> THEN "no_instructions" ELSE "running"

PcOutOfBounds == status = "running" /\ ~InBounds /\ EndWith("pc_out_of_bounds")

MovRR == /\ Executes({"INST_MOV_RR"})
         /\ SetRegister(inst.op0, registers[inst.op1])

Li == Executes({"INST_LI"}) /\ SetRegister(inst.op0, imm)

DataPtr == Executes({"INST_DATAPTR"}) /\ SetRegister(inst.op0, DataBase + imm)

MovRM ==
    LET address == registers[inst.op1] + Displacement
    IN  /\ Executes({"INST_MOV_RM", "INST_MOV_RM_DISP"})
        /\ CanAccessMemory(address, inst.arg) /\ Raw(address, inst.arg)
        /\ SetRegister(inst.op0, Word64(Load(address, inst.arg)))

MovMR ==
    LET address == registers[inst.op0] + Displacement
    IN  /\ Executes({"INST_MOV_MR", "INST_MOV_MR_DISP"})
        /\ CanAccessMemory(address, inst.arg) /\ Raw(address, inst.arg)
        /\ memory' = Store(memory, address, inst.arg, registers[inst.op1])
        /\ registers' = [registers EXCEPT !.pc = NextPc]
        /\ UNCHANGED <<program, piece_index, allocations, printed, status>>

\* memset with 0 of a size_t; the test takes an int.
MemZero ==
    LET address == registers[inst.op0]
        size    == registers[inst.op1]
    IN  /\ Executes({"INST_MEMZERO"})
        /\ CanAccessMemory(address, Word32(size)) /\ size >= 0 /\ Raw(address, size)
        /\ memory' = Join(memory, Filled(Addresses(address, size), 0))
        /\ registers' = [registers EXCEPT !.pc = NextPc]
        /\ UNCHANGED <<program, piece_index, allocations, printed, status>>

AccessViolation ==
    /\ \/ /\ Executes({"INST_MOV_RM", "INST_MOV_RM_DISP"})
          /\ ~CanAccessMemory(registers[inst.op1] + Displacement, inst.arg)
       \/ /\ Executes({"INST_MEMZERO"})
          /\ ~CanAccessMemory(registers[inst.op0], Word32(registers[inst.op1]))
    /\ EndWith("access_violation")

\* What the store would have changed is read after the switch, without a test.
StoreViolation ==
    /\ Executes({"INST_MOV_MR", "INST_MOV_MR_DISP"})
    /\ ~CanAccessMemory(registers[inst.op0] + Displacement, inst.arg)
    /\ \E s \in {"access_violation", "undefined"} : EndWith(s)

\* The access passes the test and uses memory that is not the machine's.
StrayAccess ==
    /\ LET Strays(address, tested, size) ==
              CanAccessMemory(address, tested) /\ ~(size >= 0 /\ Raw(address, size))
       IN  \/ /\ Executes({"INST_MOV_RM", "INST_MOV_RM_DISP"})
              /\ Strays(registers[inst.op1] + Displacement, inst.arg, inst.arg)
           \/ /\ Executes({"INST_MOV_MR", "INST_MOV_MR_DISP"})
              /\ Strays(registers[inst.op0] + Displacement, inst.arg, inst.arg)
           \/ /\ Executes({"INST_MEMZERO"})
              /\ Strays(registers[inst.op0], Word32(registers[inst.op1]), registers[inst.op1])
    /\ EndWith("undefined")

Push ==
    LET sp == registers.sp - 8
    IN  /\ Executes({"INST_PUSH"})
        /\ CheckStack(sp)
        /\ memory' = Store(memory, sp, 8, registers[inst.op0])
        /\ registers' = [registers EXCEPT !.pc = NextPc, !.sp = sp]
        /\ UNCHANGED <<program, piece_index, allocations, printed, status>>

Pop ==
    /\ Executes({"INST_POP"})
    /\ Raw(registers.sp, 8)
    /\ CheckStack(registers.sp + 8)
    /\ registers' = [registers EXCEPT !.pc = NextPc, !.sp = @ + 8,
                                      ![inst.op0] = Word64(Load(registers.sp, 8))]
    /\ UNCHANGED <<program, piece_index, memory, allocations, printed, status>>

Incremented == Word64(registers[inst.op0] + IncrementOf(inst.arg))

Incr ==
    /\ Executes({"INST_INCR"})
    /\ inst.op0 = "sp" => CheckStack(Incremented)
    /\ SetRegister(inst.op0, Incremented)

Jmp ==
    /\ Executes({"INST_JMP"})
    /\ SetRegister("pc", NextPc + imm - 1)

Jz ==
    /\ Executes({"INST_JZ"})
    /\ SetRegister("pc", IF registers[inst.op0] = 0 THEN NextPc + imm - 1
                         ELSE NextPc)

\* The operations of two registers, CASEF and CASEC without floats.  A size of
\* 1 compares the low bytes.
Operand(x) == IF inst.arg % 2 = 1 THEN Word8(x) ELSE x

Compared(x, y) ==
    CASE inst.opcode = "INST_EQUAL"         -> x = y
      [] inst.opcode = "INST_NOT_EQUAL"     -> x # y
      [] inst.opcode = "INST_LESS"          -> x < y
      [] inst.opcode = "INST_LESS_EQUAL"    -> x <= y
      [] inst.opcode = "INST_GREATER"       -> x > y
      [] inst.opcode = "INST_GREATER_EQUAL" -> x >= y

Computed(x, y) ==
    CASE inst.opcode = "INST_ADD" -> Word64(x + y)
      [] inst.opcode = "INST_SUB" -> Word64(x - y)
      [] inst.opcode = "INST_MUL" -> Word64(x * y)
      [] inst.opcode = "INST_AND" -> Bit(x # 0 /\ y # 0)
      [] inst.opcode = "INST_OR"  -> Bit(x # 0 \/ y # 0)
      [] inst.opcode = "INST_NOT" -> Bit(y = 0)

Compute ==
    /\ Executes(Operations \ {"INST_DIV"})
    /\ SetRegister(inst.op0, Computed(registers[inst.op0], registers[inst.op1]))

Compare ==
    /\ Executes(Comparisons)
    /\ SetRegister(inst.op0, Bit(Compared(Operand(registers[inst.op0]),
                                          Operand(registers[inst.op1]))))

Divide ==
    /\ Executes({"INST_DIV"})
    /\ registers[inst.op1] # 0
    /\ SetRegister(inst.op0, Word64(Quotient(registers[inst.op0],
                                             registers[inst.op1])))

DivideByZero ==
    /\ Executes({"INST_DIV"})
    /\ registers[inst.op1] = 0
    /\ EndWith("undefined")

-----------------------------------------------------------------------------
(* Calls *)

IsNative == imm < 0

\* Mutant: the return address is not saved.
LinkedMemory_NoPc(sp) ==
    Store(Store(memory, sp - 8, 4, piece_index), sp - 16, 8, registers.bp)

\* The return address, the piece and the base pointer of the caller.
LinkedMemory(sp) ==
    Store(Store(Store(memory, sp - 4, 4, NextPc), sp - 8, 4, piece_index),
          sp - 16, 8, registers.bp)

\* Mutant: the piece after the one that is called.
Callee_Unshifted == imm

\* Pieces are numbered from 0, a call counts from 1.
Callee == imm - 1

Call ==
    LET sp == registers.sp
    IN  /\ Executes({"INST_CALL"})
        /\ ~IsNative
        /\ CheckStack(sp - 16)
        /\ memory' = LinkedMemory(sp)
        /\ registers' = [registers EXCEPT !.pc = 0, !.sp = sp - 16, !.bp = sp - 16]
        /\ piece_index' = Callee
        /\ UNCHANGED <<program, allocations, printed, status>>

RestoredBp(sp) == Word64(Load(sp, 8))

\* Back to the caller.
Ret ==
    LET sp == registers.sp
        index == Word32(Load(sp + 8, 4))
    IN  /\ Executes({"INST_RET"})
        /\ sp # StackTop
        /\ sp = registers.bp
        /\ Raw(sp, 16) /\ CheckStack(sp + 16)
        /\ registers' = [registers EXCEPT !.pc = Word32(Load(sp + 12, 4)),
                                          !.sp = sp + 16, !.bp = RestoredBp(sp)]
        /\ piece_index' = index
        /\ UNCHANGED <<program, memory, allocations, printed, status>>

\* The stack is empty: the program is over.
Finish ==
    /\ Executes({"INST_RET"})
    /\ registers.sp = StackTop
    /\ EndWith("finished")

Mismatch ==
    /\ Executes({"INST_RET"})
    /\ registers.sp # StackTop
    /\ registers.sp # registers.bp
    /\ EndWith("mismatch")

\* The return has something to read.
Returns == inst.opcode = "INST_RET" /\ registers.sp # StackTop /\ registers.sp = registers.bp

\* Where the instruction leaves the stack pointer.
MovedSp ==
    CASE inst.opcode = "INST_PUSH" -> registers.sp - 8
      [] inst.opcode = "INST_POP"  -> registers.sp + 8
      [] inst.opcode = "INST_INCR" /\ inst.op0 = "sp" -> Incremented
      [] inst.opcode = "INST_CALL" /\ ~IsNative -> registers.sp - 16
      [] Returns -> registers.sp + 16
      [] OTHER -> registers.sp

\* The stack pointer that CHECK_STACK refuses.
StackOverflow ==
    /\ Executes({"INST_PUSH", "INST_POP", "INST_INCR", "INST_CALL", "INST_RET"})
    /\ ~CheckStack(MovedSp)
    /\ EndWith("stack_overflow")

\* A pop and a return read from the stack before CHECK_STACK: at its top, they read past it.
StrayPop ==
    /\ Executes({"INST_POP", "INST_RET"})
    /\ inst.opcode = "INST_POP" \/ Returns
    /\ ~Raw(registers.sp, MovedSp - registers.sp)
    /\ EndWith("undefined")

-----------------------------------------------------------------------------
(* Native functions *)

\* The names, in the order of the numbers below zero.
NativeNames == <<"printi", "printc", "prints", "malloc", "mfree", "memcpy">>

\* The bytes of the arguments of each, from the stack pointer on.
ArgumentBytes == [printi |-> 4, printc |-> 1, prints |-> 8, malloc |-> 4, mfree |-> 8,
                  memcpy |-> 20]

\* The argument at an offset from the stack pointer.
IntArgument(offset) == Word32(Load(registers.sp + offset, 4))

PointerArgument(offset) == Word64(Load(registers.sp + offset, 8))

\* n characters and the first byte that is 0.
IsString(address, n) ==
    /\ Raw(address, n + 1)
    /\ \A k \in 0..n : (memory[address + k] = 0) = (k = n)

MaxString == Cardinality(DOMAIN memory)

StringAt(address) ==
    LET size == CHOOSE n \in 0..MaxString : IsString(address, n)
    IN  [k \in 1..size |-> <<"char", Word8(memory[address + k - 1])>>]

HasString(address) == \E n \in 0..MaxString : IsString(address, n)

\* The result of a native function of one parameter is below the place of the
\* link it does not have.
ResultPlace == registers.sp - 24

CanMove(dst, src, size) == size >= 0 /\ Raw(dst, size) /\ Raw(src, size)

\* The native function uses no memory that is not there: it makes no test itself.
CanRun(f) ==
    /\ Raw(registers.sp, ArgumentBytes[f])
    /\ f = "prints" => HasString(PointerArgument(0))
    /\ f = "malloc" => Raw(ResultPlace, 8)
    /\ f = "memcpy" => CanMove(PointerArgument(0), PointerArgument(8), IntArgument(16))

Native == NativeNames[imm + Len(NativeNames) + 1]

CallsNative(f) == Executes({"INST_CALL"}) /\ IsNative /\ Native = f /\ CanRun(f)

NextInstruction == registers' = [registers EXCEPT !.pc = NextPc]

PrintOut(items) ==
    /\ printed' = printed \o items
    /\ NextInstruction
    /\ UNCHANGED <<program, piece_index, memory, allocations, status>>

printi == CallsNative("printi") /\ PrintOut(<< <<"int", IntArgument(0)>> >>)

printc == CallsNative("printc")
          /\ PrintOut(<< <<"char", Word8(memory[registers.sp])>> >>)

prints == /\ CallsNative("prints")
          /\ PrintOut(StringAt(PointerArgument(0)))

Disjoint(address, size) ==
    \A block \in DOMAIN allocations :
        \/ address + size <= block
        \/ block + allocations[block] <= address

Free(size) ==
    {address \in Heap \ ({0} \cup DOMAIN allocations) :
        size >= 0 /\ Disjoint(address, size)}

\* What malloc may give: null when nothing is free.
Allocated(size) ==
    Free(size) \cup (IF 0 \in Heap \/ Free(size) = {} THEN {0} ELSE {})

malloc ==
    /\ CallsNative("malloc")
    /\ \E address \in Allocated(IntArgument(0)), byte \in Garbage :
         LET size == IntArgument(0)
             mem  == Store(memory, ResultPlace, 8, address)
         IN  IF address = 0
             THEN memory' = mem /\ UNCHANGED allocations
             ELSE /\ memory' = Join(mem, Filled(Addresses(address, size), byte))
                  /\ allocations' = Join(allocations, [b \in {address} |-> size])
    /\ NextInstruction
    /\ UNCHANGED <<program, piece_index, printed, status>>

Without(f, x) == [y \in DOMAIN f \ {x} |-> f[y]]

FreedMemory(block) ==
    [b \in DOMAIN memory \ Addresses(block, allocations[block]) |-> memory[b]]

\* A pointer that was not allocated is reported and left alone, as is null.
mfree ==
    LET block == PointerArgument(0)
    IN  /\ CallsNative("mfree")
        /\ IF block \in DOMAIN allocations
           THEN /\ memory' = FreedMemory(block)
                /\ allocations' = Without(allocations, block)
           ELSE UNCHANGED <<memory, allocations>>
        /\ NextInstruction
        /\ UNCHANGED <<program, piece_index, printed, status>>

\* memmove
memcpy ==
    LET dst  == PointerArgument(0)
        src  == PointerArgument(8)
        size == IntArgument(16)
    IN  /\ CallsNative("memcpy")
        /\ memory' = [b \in DOMAIN memory |->
                        IF b \in Addresses(dst, size) THEN memory[src + (b - dst)]
                        ELSE memory[b]]
        /\ NextInstruction
        /\ UNCHANGED <<program, piece_index, allocations, printed, status>>

\* A native function follows a pointer that points nowhere, or has its arguments or its
\* result outside of the stack.
NativeViolation ==
    /\ Executes({"INST_CALL"})
    /\ IsNative
    /\ ~CanRun(Native)
    /\ EndWith("undefined")

-----------------------------------------------------------------------------
\* The machine has stopped.
Ended == status # "running" /\ UNCHANGED vars

Next ==
    \/ PcOutOfBounds \/ MovRR \/ Li \/ DataPtr \/ MovRM \/ MovMR \/ MemZero
    \/ AccessViolation \/ StoreViolation \/ StrayAccess \/ Push \/ Pop \/ Incr \/ Jmp \/ Jz
    \/ Compute \/ Compare \/ Divide \/ DivideByZero
    \/ Call \/ Ret \/ Finish \/ Mismatch \/ StackOverflow \/ StrayPop
    \/ printi \/ printc \/ prints \/ malloc \/ mfree \/ memcpy
    \/ NativeViolation \/ Ended

Spec == Init /\ [][Next]_vars /\ WF_vars(Next)
=============================================================================
