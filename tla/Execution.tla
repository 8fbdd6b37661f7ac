------------------------------ MODULE Execution ------------------------------
(***************************************************************************)
(* The execution of generated code, with what the proof of its correctness *)
(* would look at: the calls that have not returned, and how deep the stack *)
(* is at every instruction.                                                *)
(***************************************************************************)
EXTENDS VirtualMachine

CONSTANT Output(_)   \* what each program means: see Language

VARIABLES
    links,    \* for each call that has not returned, what it saved and where
    depths    \* the height of the frame at the instructions executed so far

fullVars == <<vars, links, depths>>

Here == <<piece_index, registers.pc>>

Height == registers.bp - registers.sp

Link == [place |-> registers.sp - 16, pc |-> NextPc, piece_index |-> piece_index,
         bp |-> registers.bp]

FullInit == Init /\ links = << >> /\ depths = [h \in {} |-> 0]

Observe ==
    /\ links' = CASE Executes({"INST_CALL"}) /\ ~IsNative -> Append(links, Link)
                  [] Executes({"INST_RET"}) /\ links # << >> -> Front(links)
                  [] OTHER -> links
    /\ depths' = IF Here \in DOMAIN depths THEN depths
                 ELSE Join(depths, [h \in {Here} |-> Height])

FullNext ==
    \/ PcOutOfBounds    /\ Observe
    \/ MovRR            /\ Observe
    \/ Li               /\ Observe
    \/ DataPtr          /\ Observe
    \/ MovRM            /\ Observe
    \/ MovMR            /\ Observe
    \/ MemZero          /\ Observe
    \/ AccessViolation  /\ Observe
    \/ StoreViolation   /\ Observe
    \/ StrayAccess      /\ Observe
    \/ Push             /\ Observe
    \/ Pop              /\ Observe
    \/ Incr             /\ Observe
    \/ Jmp              /\ Observe
    \/ Jz               /\ Observe
    \/ Compute          /\ Observe
    \/ Compare          /\ Observe
    \/ Divide           /\ Observe
    \/ DivideByZero     /\ Observe
    \/ Call             /\ Observe
    \/ Ret              /\ Observe
    \/ Finish           /\ Observe
    \/ Mismatch         /\ Observe
    \/ StackOverflow    /\ Observe
    \/ StrayPop         /\ Observe
    \/ printi           /\ Observe
    \/ printc           /\ Observe
    \/ prints           /\ Observe
    \/ malloc           /\ Observe
    \/ mfree            /\ Observe
    \/ memcpy           /\ Observe
    \/ NativeViolation  /\ Observe
    \/ Ended            /\ Observe

FullSpec == FullInit /\ [][FullNext]_fullVars /\ WF_fullVars(FullNext)

-----------------------------------------------------------------------------
(* Properties *)

\* Every register, every byte and the place of the next instruction are in
\* range.
TypeOK ==
    /\ program \in Program
    /\ piece_index \in 0..(Len(Image(program).pieces) - 1)
    /\ \A r \in DOMAIN registers : registers[r] = Word64(registers[r])
    /\ \A address \in DOMAIN memory : memory[address] \in 0..(ByteBase - 1)
    /\ status \in {"running", "finished", "no_instructions", "pc_out_of_bounds",
                   "access_violation", "stack_overflow", "mismatch", "undefined"}

\* The machine fetches instructions, never the immediate of one: jumps, fixed
\* jumps and return addresses agree with the words that were emitted.
FetchesInstructions ==
    status = "running" => ~InBounds \/ InstructionAt(Code, registers.pc)

\* No store, push or native call changes what a call saved until it returns,
\* and the base pointer is the place of the innermost link.
LinksIntact ==
    status = "running" =>
        /\ registers.bp = IF links = << >> THEN StackTop ELSE Last(links).place
        /\ \A k \in DOMAIN links :
             LET link == links[k]
             IN  /\ Word64(Load(link.place, 8)) = link.bp
                 /\ Word32(Load(link.place + 8, 4)) = link.piece_index
                 /\ Word32(Load(link.place + 12, 4)) = link.pc

\* What the generator and the relocations leave can be executed: jumps and calls lead to
\* instructions, and every operand is one that its instruction has.  The code never changes,
\* so that it is enough to say this of the program when it begins.
CodeIsWellFormed == links = << >> /\ registers.pc = 0 => WellFormedImage(Image(program))

\* The addresses that the calls which have not returned will read.
LinkPlaces == UNION {Addresses(links[k].place, 16) : k \in DOMAIN links}

\* Where the next instruction stores to by an address that it finds in a register, other
\* than its own frame.
PointerStores ==
    IF Executes({"INST_MOV_MR", "INST_MOV_MR_DISP"}) /\ inst.op0 # "bp"
    THEN Addresses(registers[inst.op0] + Displacement, inst.arg)
    ELSE IF Executes({"INST_MEMZERO"})
    THEN Addresses(registers[inst.op0], registers[inst.op1])
    ELSE IF CallsNative("memcpy") THEN Addresses(PointerArgument(0), IntArgument(16))
    ELSE {}

\* No pointer is followed to what a call has saved.
PointersSpareLinks == status = "running" => PointerStores \cap LinkPlaces = {}

\* An instruction finds the stack as high over the base pointer each time it is
\* executed, by whichever jump or call it was reached.
DepthIsStatic ==
    status = "running" /\ Here \in DOMAIN depths => Height = depths[Here]

\* A store to the stack goes to a slot that is in use, never below the stack
\* pointer where the next push would overwrite it.
StoresAreLive ==
    [][Executes({"INST_MOV_MR", "INST_MOV_MR_DISP"}) =>
        LET address == registers[inst.op0] + Displacement
        IN  address \in Addresses(StackBase, StackMax) => address >= registers.sp
      ]_fullVars

\* The stack pointer never leaves the memory of the stack while the machine
\* runs: what would move it out stops the machine.
StaysInStack ==
    status = "running" => registers.sp \in StackBase..StackTop

\* The program comes to its end: it neither runs forever nor stops with a fault.
Finishes == <>(status = "finished")

\* The detailed execution implements the promise of the language.
Promised ==
    INSTANCE Promise WITH printed <- printed, ended <- status = "finished"

KeepsPromise == Promised!Spec
=============================================================================
