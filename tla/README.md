# A verification development of the Tin compiler

TLA+ models of the compiler in `src/` (its sources are `src/src/*.cpp` and
`src/include/*.h`), TLC configurations that check them on small programs, and
theorems about them whose proofs TLAPS checks.

## The system

The compiler takes one initial file, compiles it and everything it imports
with several threads into bytecode, and can run the bytecode in its own virtual
machine. All the threads run one function, `Compiler::processTasks`, over one
queue of tasks; a task is the work on one import object (one file) and goes
through four phases.

| component | state | operations | correct when |
|---|---|---|---|
| driver (`Compiler.cpp`) | task queue, `is_signaled`, semaphore of maximum 1, `threads_processing`; per import `fixups`, `deps_count`, `deps_now` | `CompileFile`, `processTasks`, one handler per phase | every task is run by one thread at a time, no wake-up is lost, threads leave only when nothing can follow, a file is checked only after the bodies of its imports are there, accepted means complete, rejected means wrong |
| import table (`AST.h`) | `imports`, `import_map` | `createImport`, `findImport` | one object for each file |
| scopes (`AST.cpp`) | arrays of scopes in doubling blocks, shared scopes, identifiers, types | `createScope`, `iterate`, `addVariable`, `findVariable`, `createType`, `findType`, `findFunction` | a search goes by distance, to the shared scopes before the parent, leaves out what it has visited, and ends; a scope that was given out is never lost and never given twice |
| struct and function checks (`Generator.cpp`) | `complete`, `created_type`, offsets and sizes | `generateStruct`, `CheckStructs`, `CheckFunction`, `CheckGlobals` | members do not overlap, a size is used only when it is known, caller and callee agree on the frame |
| code generator (`Generator.cpp`) | frame offset, virtual stack pointer, loop scopes, code | `generateExpression`, `generateReference`, `generateBody`, `GenerateFunction` | running the code does what the program says; the stack is balanced on every path |
| bytecode (`Bytecode.cpp`) | pieces, relocations, data section, string table | `emit_*`, `pop_last_inst`, `appendData`, `appendString`, `apply_relocations` | an encoded operand is decoded to itself, no byte of the data section is given twice, a string is where the table says, every call reaches its function |
| virtual machine (`VirtualMachine.cpp`) | registers, stack, allocations, piece | `execute`, `run_native_call` | frames are restored, memory outside stack, data and heap is never touched |
| parser (`Parser.cpp`) | token position, the two stacks of an expression | `parseExpression`, `parseBody`, `parseFunction`, `parseStruct`, `ParseTokenStream` | the tree is the one of the grammar of `docs/lang_design.md`, and whatever is not in the grammar is reported |
| lexer (`Lexer.cpp`) | position, token under construction | `lex_file`, `TokenStream::add`, `getToken` | the tokens spell the text; comments and strings end |
| threads and locks (`Util.cpp`) | semaphores, mutexes and their kernel objects, threads | `wait`, `signal`, `lock`, `unlock`, `init`, `join` | one thread in a section, no signal lost; Win32 semantics, see below |
| error reporter (`Reporter.h`) | `errors` | `err` | counted atomically |
| memory tracker, program generator, command line, profiler | | | not modelled, see the end |

How they interact: the driver calls lexer and parser in the first phase, the
struct checks in the second, the function and global checks in the third and
the generator in the fourth. The phases of one file are in order; those of
different files are ordered only by the wait for the body of a direct import.
All of them read and write the one AST, most of it without a lock, and append
to the one bytecode container. The virtual machine starts after all threads
have been joined.

The hard behaviour is in the driver: threads that sleep and must be woken,
imports that wait for each other, also in circles, files that are missing or
broken while others wait for them, phases of different files that overtake each
other, and retries of a check that may fail because another thread is slow. Below it are
three structures that all handlers share: the mutexes, which create their kernel
object in the first `lock()`; the bytecode container, whose data section, string
table and pieces several generating threads append to; and the scopes, which
parsing threads create in blocks of an array while others search them. The lexer and
the parser are sequential and pure, and hard for another reason: the tests of their
loops overlap, and what one character or token means depends on the flags that
several others have left behind.

## Modules

| module | what it is |
|---|---|
| `Compiler` | the driver with its import table, and the phases as far as other threads can see them |
| `TaskPool` | what `processTasks` promises as a scheduler, without semaphore, flag, lock and counter |
| `MCCompiler` | the small programs that TLC compiles |
| `CompilerProofs` | theorems about the types and the scheduler of `Compiler` |
| `ImportProofs` | theorems about the imports of `Compiler`: who works on them, what they wait for, what they see |
| `ResultProofs` | theorems about what a compilation gives: stuck tasks mean an error, accepted means complete, and with a single thread also generated |
| `PoolProofs` | the step refinement: `Compiler` implements `TaskPool` |
| `AST` | the tree of a program, the layout of its structs and signatures |
| `LayoutProofs` | theorems about the layouts of `AST` |
| `Bytes`, `Memory` | numbers of a width, and the memory of the virtual machine |
| `Bytecode` | a piece of code and the operations that append to it |
| `Generator` | the code generator: from a tree to pieces of code |
| `VirtualMachine` | the interpreter, one action per instruction and native function |
| `Execution` | the machine with a record of its calls and stack depths, and its properties |
| `MachineProofs` | theorems about `Execution`: what the machine guarantees to well-formed code that follows no pointer to a link |
| `Language` | what a program means, without stack, registers or code |
| `Promise` | what the execution of a program promises: to print its meaning and end |
| `Programs`, `MCMachine` | the programs that TLC compiles and runs |
| `Mutex` | class `Mutex`: a Win32 mutex that the first `lock()` creates |
| `Jobs` | a thread that does one operation after the other, in stages |
| `BytecodeContainer` | `createPiece`, `appendData`, `appendString`, calls and `apply_relocations` |
| `Allocator` | what `appendData` promises: fresh bytes for each request, without lock, offsets or array |
| `ScopeArrays` | `createBody` and `createScope` with the blocks of the scope array |
| `SharedContainers`, `MCContainers` | the threads on the container and the scopes together, and small amounts of work |
| `SharedContainersProofs` | theorems about `SharedContainers` |
| `ScopeSearch`, `MCSearch` | the iterator behind `findType`, `findVariable` and `findFunction`, while imports are attached and names declared |
| `ScopeSearchProofs` | the theorem about `ScopeSearch`: a search finds a nearest declaration |
| `Lexer` | `lex_file`: from characters to tokens |
| `Spelling` | how a text is cut into words, and what each stands for, without the lexer's state |
| `Parser` | `Parser.cpp`: from tokens to the tree of `AST` |
| `Grammar` | the grammar of `docs/lang_design.md`: which trees a range of tokens may have |
| `Frontend`, `MCFrontend` | texts, expressions and files that grow by one piece at a time, and the alphabets |

`Compiler` and `Generator` meet in the order of phases only: the driver sees of a
file which names and sizes its phases need, the generator sees one file in the order
the driver gives it. `Generator` and `Parser` share the trees of `AST`.
`SharedContainers` composes `Mutex`, `Jobs`, `BytecodeContainer` and `ScopeArrays`;
`Frontend` composes `Lexer`, `Spelling`, `Parser` and `Grammar`.

### `Compiler` and the code

The variables have the names they have in `struct Compiler`, `struct AST` and
`AST::Import`. An import object is the number of its place in `ast->imports`.
`pc[t]` says where thread `t` is in `processTasks`; `task`, `queue_task`, `i`,
`dep_imp`, `changed`, `failure` and `ignore_errors` are the locals of that
function, reset when the loop body ends.

*Grain of the actions.* A section under `tasks_lock` or `imports_lock` is one
action: nothing inside blocks, so no other thread can see it half done. Between
two sections there is one action for each access to something another thread
can see: `lex_file` with the start of `ParseTokenStream` (the import object and
its body appear), the rest of the parse, the loop over `fixups`, for each
dependency `findImport`, `createImport` and the section that queues or attaches,
for each struct the creation of its type and the lookup of its members, the
function signatures, the test of `reporter->errors`, the globals, the globals of
`main`, and the function bodies.

*Semaphore.* `Semaphore::signal` is `ReleaseSemaphore` with a maximum of 1: on a
full semaphore it fails, prints an error and changes nothing. `Signal` sets the
count to 1, which is both cases; `OneToken` says when the second does not
happen.

*Programs.* A program is what the driver can tell about it: for each file how
its parse ends, its imports, its structs as the sets of their member types, the
types in its signatures and bodies, the files whose functions it calls, and
whether it declares a global. Structs are numbered by position. A program is
chosen in `Init` and never changes.

*A failed parse.* `ParseTokenStream` returns `nullptr` for a token that starts
nothing (outcome `null`), and a partly filled body after an error inside a struct
or function (outcome `partial`). Its caller reads `imp->fixups` before it tests
`imp`; the model's `crashed` is that null dereference.

### The scheduler implements a pool

`Compiler` satisfies `TaskPool` under the refinement mapping at its end: the
queue is `tasks`, a worker holds the task of a thread that works, a key is
blocked while `deps_count # deps_now`, a worker has left when its thread is
`done`. `TaskPool` takes the first free item atomically.

Its specification has two parts. `Safety` is its initial condition and its steps; that
the driver implements it (`PoolSteps`) is checked by TLC and proved in `PoolProofs`.
`Fairness` says that a free item is taken while a worker is at hand and that workers leave
when nothing is left to do, so a wake-up that is lost would refute it; that the driver
implements it (`PoolServes`) is liveness and is checked by TLC alone.

### Generated code and the virtual machine

`Generator` is a function: `Compile(program)` gives the pieces of code, the data
section and whether an error was reported. Its operators have the names of the
methods of `GeneratorContext` where there is one; each takes the context `g` and
gives the next. `Bytecode` has the `emit_*` operations, with the removal of
`push a; pop a` in `emit_pop` and the distances of jumps; a word of code is an
instruction or an immediate, as in the vector `instructions`. `AST` has the
layout: members, parameters, results. The declarations of a program are in one
file and are generated in order, which is what the driver does for one file.

`VirtualMachine` executes an image. Its variables are the fields of
`struct VirtualMachine`; `memory` is one function for the stack, the data section
and the blocks of `malloc`, and its domain is what belongs to the machine.
Each case of the `switch` in `execute` is an action, and each way to stop is a
value of `status`; `undefined` stands for what C++ does not define (a division by
zero, a native function that follows a bad pointer, the read after a refused
store, and an access to what is not the machine's). `Inside` is the test of
`can_access_memory` on one region as the code computes it, in unsigned words: `diff >= 0`
is always true and `diff + size` wraps, so an access that begins up to its size below
a region passes. Such an access is the action `StrayAccess`. A pop, and
a return, read before `CHECK_STACK`: at the top of the stack that is
`StrayPop`. Both end in `undefined`. Fresh memory is filled with any byte of `Garbage`, and `malloc` gives any
free block of `Heap`, or null when there is none or `Heap` has 0.

`Execution` adds two history variables: `links`, what the calls that have not
returned have saved and where, and `depths`, the height of the frame at each
instruction when it was first executed.

The machine checks little: it tests where an access ends (see `Inside` above) and the
stack pointer, and otherwise trusts the code. What it relies on is stated in two properties.
`CodeIsWellFormed` is about the image a program begins with (`WellFormedImage` of
`VirtualMachine`, an image being what the generator and `apply_relocations` leave): jumps and
calls lead to instructions of the pieces, every operand is one its instruction has, immediates
fit where they are loaded, and the code passes a test of its frames, as the verifier of a
bytecode makes it. `Heights` gives each place the height of the frame there, as the first path
from above finds it; `Balanced` asks that every other path agrees, that none pops more than its
frame has or runs past the end, that a function returns with an empty frame, and that a store by
the base pointer is to a part of the frame that is in use. `PointersSpareLinks` is
about an execution: no pointer that the program follows leads to what a call has saved. Both are
claims about the generator and its programs. TLC checks them on every compiled program of
`execution`; what follows from them for the machine is proved. The flawed programs
of `faults` break the one or the other.

`Language` gives the reference: `Meaning(program)` is the sequence of what the
program prints, computed over cells that hold one scalar each. It has no bytes,
offsets, frames or pieces; only the sizes that `sizeof` shows are those of `AST`.
The execution implements `Promise`: `printed` only grows, always stays a prefix
of the meaning, and is all of it when the machine has finished.

### Mutexes, the bytecode container and the scopes

*Mutexes.* `Mutex` has one action for each access of `lock()` that another thread can
see: the test of `m_internalHandle`, `CreateMutex` with the assignment, the second
reading of the handle, and the return of `WaitForSingleObject`; `unlock()` releases
what the handle is then. Two threads that both find no handle create one object each.
`Exclusion` says that this is the only way two threads get into sections of one lock;
when it has happened the state is `Broken` and nothing follows, since what then
happens to the vectors and maps is undefined. `scopes_lock` is `Ready`: the main
thread has used it before it starts the workers (`createBody` of the preload import).
`general_lock` is not.

*Work.* What a handler does to the containers is an `Operation` of a thread's work:
to generate a function (`createPiece`), to refer to a string (`appendString`, then
`emit_dataptr`), to call a function (`emit_call` and its relocation), to append a
global (`appendData`), to create a body (`createBody`). `stage[t]` is how far the
operation is. A section under the lock has an action for each reading and each writing
of the shared fields, so that exclusion is what makes it atomic and not the model. In
`appendString` the search, `appendData` and the insertion are three sections, with
other threads in between.

*Scopes.* `index_1` and `index_2` split an id as `createScope` does; a block is the pair
of its place and the thread that allocates it, so that a second block for one place can
be told from the first. The test of the block without the lock, the test with it, the
fill of the blank entries and the publication are actions of their own. `crashed` is the
null pointer that `createScope` gives at its limit and `createBody` dereferences.

*Link.* `Link` is `apply_relocations`, after all workers have been joined.

### The search for a name

`ScopeSearch` has the iterator of `AST.cpp`: `Visit` takes the next scope, `Expand` is
the loop over `shared_scopes`, the parent, and the caller's test for the name. Between
the two, and between the turns, `Share` and `Declare` are the steps of other threads:
Compiler.cpp pushes to `shared_scopes` under `tasks_lock`, which a search does not
take. A push to the vector that the search is iterating over, and an insertion in the map of
names that it reads (`AST.cpp:402` and `AST.cpp:449`, neither under a lock in the build), may be
undefined (`raced`, and the run goes no further); all other orders are explored. A name is
declared in the scope that the search looks at with both outcomes.

### The front end

`Lex(text)` and `ParseTokenStream(tokens)` are functions, one operator for each branch
of `lex_file` and each method of `ParseContext`. The state of `Lex` is the record of
the loop's variables, with the set `is` for its booleans. A parse operator takes the
context and gives the next one with its result; `Then` is the early return of a null
pointer. Errors are counted by the position of the first, because everything after it
only asks whether there was one.

`Spelling` cuts a text at the longest word, and `Grammar` gives the trees of the tokens
from `i` to `j` by splitting the range: neither has a position, a flag or a stack, so that
they say something the code does not say. `Grammar` is `docs/lang_design.md`, an initialiser of
a global included; where the doc and the tests leave a choice, or the tests go beyond the
doc, its first comment says how it is taken. The texts, expressions and files are grown
in `Frontend` by one character, token or operator; what has already failed is not
continued, which cuts the number of files without leaving one out that could still
succeed.

Named exceptions. `LexSpells` is about texts that are `Clean`: quotes and comments are
closed, strings contain no comment sign and no other quote, no comment, quote or `.5`
stands directly behind a word, and a last symbol does not touch the word before it. Tabs
and comments between two tokens count as no space (`SameFlags`), as the code has it.
`ExpressionsParse` leaves out the trees of `ReadOtherwise` (a prefix on an operand that
has a postfix, a negative literal). `ExpressionsParse` and `FilesParse` suppose a name
behind `cast`, `sizeof`, `global` and `const`, which the code does not test or tests with an
assertion that is compiled out. `FilesParse` has one more: a file that gives a global a value
(`SetsGlobal`) is one of the grammar and is always refused. Each exception is a program the code reads differently,
and is listed below.

## What is checked

| run | instance | question |
|---|---|---|
| `driver` | 2 threads, nine programs, about 228 000 states | is the driver right in every interleaving, does it end, does it implement `TaskPool`, its steps and its fairness |
| `one_thread` | 1 thread, thirteen programs | what the races break, holds without them: no file is two imports, and what is accepted has its code |
| `globals_missed` | 1 thread, one program | `main` is generated before all globals are known, below |
| `two_threads` | 2 threads, two programs that race | disagreements that need two threads, below |
| `one_order` | 1 thread, three programs | two disagreements that need only an unlucky order of the queue, below |
| `execution` | 324 programs, about 57 000 states: the accepted ones of 408 nestings of two operators, 12 expressions with side effects, 27 loops left in each way at each depth, 84 signatures of 1 to 3 parameters, recursion, nested calls, struct results, structs, pointers, globals, strings, blocks, scopes | does each program end and print what it means; are jumps, frames, links and stores right on every path; does the generator leave what `MachineProofs` supposes |
| `faults` | 36 programs that are stopped or go wrong | does each one end as the tests of the machine have it, by the one that is for it or past it in foreign memory, and does a program that the generator gets wrong go wrong in the one way described below |
| `misprinted` | programs with one flaw each | six disagreements with tests and comments, below |
| `containers` | 3 threads, six kinds of work, about 331 000 states | do the locks, the data section, the string table, the relocations and the scope blocks hold in every interleaving; is the image linked in the end |
| `search` | five scopes, up to three sharings and two declarations while the search runs, about 953 000 states | does a search find a nearest declaration and end, with circles of sharing and other threads at work |
| `frontend` | all texts of 5 characters, expressions of 5 tokens, chains of 5 operands, files of 8 tokens and bodies of 9, five longer texts, about 1 007 000 states | are the tokens the words of the text, is the tree the one of the grammar, is an error reported exactly when the grammar says so |
| `misread` | five texts | five disagreements with the grammar and the tests, below |

Bounds. `MaxImports = 6` places for import objects: the files of a program are at
most five, and a sixth is only needed where two threads create the same object.
Two threads are enough for every race between two handlers, and a queue of five
tasks for a task behind one that waits. The programs are chosen so that each
branch of a handler is taken: a shared import, a circle with an import of the
file itself and a repeated import, a missing file and a broken one behind a file
that waits for it, types across files in both directions, a type that does not
exist, a struct that needs two attempts.

Bounds of the machine runs. `ByteBase = 8`: a byte has 8 values, so that an i64
fits in a number of TLC; an int then has 4096 values and a char 8, and no program
of a family leaves them. Sizes and offsets in bytes are those of the code, and the
16 bits of `incr` are kept. `StackMax` is 384 bytes for 65536, enough for the
deepest program of `execution`; in `faults` it is 128, so that stacks do run
out. `Heap` has at most two places, which is what a copy from an old block to a
new one needs. `Garbage` has a byte that is 0 and one that is not, to tell memory
that was set from memory that happened to be 0. The machine is deterministic but
for these, so that the states of a run are the steps of its programs; the variety
is in the programs, which are products: every operator under every operator,
every way to leave a loop at every depth, every order of parameter kinds.

Fairness of the machine. `FullSpec` has weak fairness of the next step: the
interpreter is a loop in one thread that keeps running.

Bounds of `containers`. Two threads race for every section, and the third is
needed where one waits for an object of a mutex while another one replaces it.
`scopes_max1 = scopes_max2 = 2`: three bodies and the global
scope fill two blocks, which is the last that fits (`GetsLinked` asks that it does), and a
fifth scope is one too many. One work calls a function that nobody generates. A string has one character and its 0,
a global three bytes, so that offsets of the two kinds never coincide by chance and the
array grows twice. Two functions that call each other and have one string in common are
the least where pieces, relocations and offsets can be in different orders. The
theorems below lift all of these bounds.

Bounds of `search`. The search starts in the body of a function (scope 4) of the import
1 and can meet the imports 2 and 3. Three sharings give a circle of two or of three, an
import that shares itself, and one that is shared twice; two declarations give a nearer
and a farther one, or one that appears during the search.

Bounds of `frontend`. The alphabet has one letter, one digit and each character that
has a branch of its own; five characters reach every pair of open word and closing sign
with something before and after them. Five tokens have a prefix, an index or a call with
an operator; a chain of five operands has all orders of four operators of the levels,
which is one more than the stacks need to reduce twice in a row. Eight tokens are enough
for the shortest struct and function with an item behind it, and a body of nine tokens
for an `if` with an `else` in a loop. The five longer texts have comments and escapes.

Fairness of `containers`: a thread keeps running, and the main thread links when it may
(`FairSpec`). Of `search`: the searching thread keeps running, however long others share
and declare. No fairness is assumed of a lock: in `containers` a thread has finitely much
work, so that its competitor gets the lock in the end. The one exception is a thread
that waits for an object which its owner can no longer release (`Orphaned`).

Fairness of the driver. `FairSpec` asks weak fairness of each thread's next step. A step is
disabled only while the thread sleeps on a closed semaphore, and that is
exactly where it can be starved in the code too. Nothing is assumed of the order
in which threads get the semaphore. `Termination` is checked under it.
Deadlock is checked in every run: the only states without a step of a thread are
those where all threads are done or the process has crashed (`Terminated`).

The main properties: `NoLostWakeup`, `QuitIsFinal` and `CountIsWorkers` (the
semaphore protocol), `OneToken` (no signal is lost on a full semaphore),
`OneTaskPerImport` (fields of an import have one writer), `PendingDeps` and
`NoLostFixup` (the wait for imports), `StuckMeansError` (circles do not
deadlock), `ScopesComplete` (the published bodies of all imports are visible from the struct check on; that
they are also parsed by then is `ReadsWholeBodies`, which two threads break, see `two_threads`),
`AcceptedIsComplete` (no error is lost), `PoolSteps` and `PoolServes` (the scheduler is a
pool), and with one thread `NoDuplicateImport` and `AcceptedIsGenerated` (no task is
dropped in silence).

For the shared structures: `Exclusion`; `GivesBytesOnce`, by which `appendData`
implements `Allocator`: the bytes it gives are fresh; `StringsHold` (an offset in the table has the
whole string, within the array, though two threads may both append it); `LinksResolve` (each call has the piece of its callee,
whatever the order of the threads, or -1 when nobody generates it); `ScopesKept` (no scope is lost with a replaced block, no
id is given twice); `GetsLinked` (work that needs no more scopes than there are is done and
linked, unless two objects of one mutex have let two threads in or left one outside);
`FindsNearest` (a search returns a declaration at the
least distance, as of its start or nearer, and gives up only when there was none);
`SearchEnds`.

For the machine: `KeepsPromise` (the output is the meaning), `DepthIsStatic` (the
stack is balanced on every path into an instruction), `LinksIntact` (nothing
changes what a call saved), `PointersSpareLinks` and `CodeIsWellFormed` (the generator leaves
what the machine relies on), `StoresAreLive` (no store goes below the stack
pointer), `FetchesInstructions` (no jump goes to an immediate), `EndsAsExpected`
(the right test stops a bad program), `StaysInStack` (the stack pointer never leaves the
stack, in programs that try), and `Finishes` (no program runs forever or stops with a fault).

### Where the code disagrees with itself

Those marked with a run are the property that TLC finds violated there, and
entries of `findings` in `PROJECT.json`. `misprinted` has several programs, of
which TLC reports the one that stops first; `faults` checks of each of them that
it ends as is said here.

- `two_threads`, an import compiled twice: `findImport` and `createImport` are separate
  critical sections, so two threads create one file twice; `AST.h:327` asserts that this
  does not happen, and the build compiles assertions out.
- `globals_missed`: `main` sets "all globals in all imports" while a file
  imported further down is not parsed yet.
- `two_threads`, a dropped task: the attempt that should print the errors succeeds,
  because another thread has created the type in between; the task is dropped without an
  error and its functions never get code.
- `two_threads`, a file that is read while it is parsed: `ParseTokenStream` publishes the body
  before its loop, so a second thread that imports the file finds a body, does not wait, and
  checks its own structs with what is there so far (`ReadsWholeBodies`, a part of
  `IndependentOfThreads`; checked alone it has a trace of its own). `Parser.cpp:871` has "TODO: Mutex".
- `one_order`, a spurious error: a program that is right is rejected when the task that
  creates a type is behind two attempts of the one that needs it (`Far`, `Caller`). With two
  threads it also happens to `tests/test_a.tin` and `test_b.tin`.
- `one_order`, a member of an incomplete struct: the size of a struct can be used before
  its layout is complete, so that the struct it is a member of is completed with a wrong
  size (`Late`).
- A syntax error at the top level of a file dereferences a null pointer before the
  error path that is meant for it (`crashed` in `Compiler`).

- `misprinted`: an empty function, and one whose last statement is an `if` that
  ends in `return`, get no `ret` and run past their end.
- `misprinted`: a 4-byte load does not extend the sign, so a loop from -1 does not
  run. Negative ints are right only while they stay in registers.
- `misprinted`: `*p` reads 8 bytes for an int, past the end of the data section for
  the last global.
- `misprinted`: the result of a call is read from below the stack pointer while it
  is pushed; a struct of four ints loses its last member when the function has no
  parameters.
- `misprinted`: `--x` adds one.
- `misprinted`: the 128 bytes of sixteen locals are decoded as -128, and the
  function cannot return.
- After `x: int = f();` with a void `f` the rest of the body has no code, and no
  error is reported, where `Generator.cpp:755` says "error should be reported
  already"; `faults` has a program that shows it.
- `misread`: the number behind a minus is never read, so `-1` is the last literal of the
  same expression, or 0 (`tests/loops.tin:7` has `i: int = -1`). Programs of the machine
  runs therefore write `0 - 1`.
- `misread`: `!a.b` is read as `(!a).b`, where the grammar binds a member or an index
  tighter than a prefix.
- `misread`: `"n'n"` and `"http://"` are not strings: comments and the other quote are
  tested first.
- `misread`: a word that is open at the end of the file takes the last character, so a file
  that ends in `n)` has no closing parenthesis.
- `misread`: a global with a value is refused ("You cannot declare global variables with an
  expression"), where `docs/lang_design.md:5` and `:19` have `"global" declaration` with
  `[ "=" expression ]`, and `tests/scoping.tin:2` has `global angle: float = pi * start_angle();`.
- An access that begins just below the stack, the data section or a block passes
  `can_access_memory`, whose test `diff >= 0` of a `u64` (`VirtualMachine.cpp:70`) is always true;
  `faults` has a load and a store four bytes below the data, which no test stops, and eight bytes
  below, which are refused.
- A pop reads before `CHECK_STACK` (`VirtualMachine.cpp:245-247`), so one at the top of the stack
  reads past it; `faults` has a program that does.
- A constant without an expression is accepted by the parser, and its use is reported at the
  location of the missing expression, a null pointer (`Generator.cpp:281`). `Generator` counts
  it as a report; either way there is no image.
- The lexer drops a string or comment that is not closed without an error.
- The parser does not report a missing type behind `cast` and `sizeof`, nor a missing name
  behind `global` and `const` when assertions are compiled out; `[` without an index and
  `else` without a body end with an error only from what follows.
- `Exclusion` has its exception because of Util.cpp:378: the first two calls of `lock()` may
  both create the kernel object. `general_lock`, which the main thread does not use before the
  workers start, has no exclusion in that moment. If the first thread is inside with its object
  when the second one stores another handle, its `unlock()` releases the wrong object, and a third
  thread that waits for the first object waits for ever (`Orphaned`, the exception of
  `GetsLinked`; without it TLC shows this in `containers`).
- `createScope` gives a null pointer at its limit, and `createBody` dereferences it before
  anything is reported (`TooMany` in `MCContainers`).
- A function that is called and never generated, as after the dropped task of `two_threads`, keeps
  the piece -1, and `apply_relocations` writes it; the machine takes a negative piece for a native
  function. `LinksResolve` says exactly this of it.
- `shared_scopes` is pushed to under `tasks_lock` and read without it (`raced`), although
  Config.h:41-43 says that no two threads access the scopes of one import at the same time.
- The tests `test_base.tin` (a pointer as a condition, line 12) and `loops.tin` (a
  variable declared twice in a body, lines 2 and 7) are rejected: `CanCast` and
  `AddVariable` of `Generator` say why.

`execution` stays clear of these: its programs have no negative number in a
variable, no value of `*p` wider than what is printed of it, no void initialiser,
fewer than sixteen locals, and a return statement or none at the end of a
function.
Some of the trees have globals with a value, which `SetGlobal` of the generator handles and no file
leads to, since the parser refuses it.

## What is proved

`CompilerProofs` proves six theorems of `Spec`, for every set of threads, files
and programs that satisfy the assumptions of `Compiler` (finitely many threads,
two different names for the initial file and the preload import, room for one
import, well-formed programs):

- `TypeCorrect`: `[]TypeOK`, and `HandlersHaveImports`: `[]ImportKnown`;
- `OneTokenHolds`, `CountHolds`, `WakeupHolds`, `QuitHolds`: `[]OneToken`,
  `[]CountIsWorkers`, `[]NoLostWakeup`, `[]QuitIsFinal`.

The inductive invariant is `IInv == TypeInv /\ SchedInv`. `TypeInv` adds to the
types that handlers have an import (`ImportKnown`) and that the loop indices are in
range (`IndexKnown`): without them a step could index a function outside its
domain and the types would not be inductive. `SchedInv` is the conjunction of the
four scheduler invariants, which need each other: that a thread may leave when
`threads_processing` is 0 needs the count to be exact; that no wake-up is lost
when a thread goes back to sleep needs that somebody works, again by the count,
and that this one will signal, which needs `OneToken`; that the count stays a
natural number needs the count to be exact. Each handler is shown to be internal
to the scheduler (`HandlersAreInternal`): it changes neither the flag, the
semaphore and the counter nor the sets of threads that work and that look at the
queue. So only five actions have to be proved one by one.

`ImportProofs` proves four more theorems of the same `Spec`, under the same assumptions,
about the import objects. Each has an invariant of its own that is inductive relative to
`IInv` and to those before it:

- `ImportsAreTakenOnce`: `[]OneTaskPerImport`. `TasksInv`: an import belongs to the one
  task that is queued or worked on, or to the thread at "enqueue" that has created it; a
  new one has a number above all known ones, so nobody can have it yet.
- `WaitsAreExact`: `[]PendingDeps`. `WaitsInv`: `deps_count` is `deps_now` and the number of
  places where the import is registered (`Waits`), and an import whose own fixups are still
  to come (`Fresh`) is registered nowhere. The second part is what makes the reset of both
  counts in `Fixups` harmless; it needs `PhaseInv`, that a task of a later phase never goes
  back to `TASK_LEX_FILE`, and `TasksInv`, that the import has one writer.
- `BodiesAreDelivered`: `[]NoLostFixup`. `DeliveryInv`: every known import is `Settled`: its
  fixups are still to come, or are done and it has a body, or it has none and `errors` is
  set. So a registration after the delivery finds the body, and one before it is delivered.
- `ScopesAreComplete`: `[]ScopesComplete`. `ScopesInv`: each file a program names is one whose
  scope the import searches (`Has`) or one it is registered for (`Awaits`). A task is only
  taken when its counts agree, then by `WaitsInv` nothing is awaited, so it `Has` all. What
  was told to an import is never taken back (`Grows`).

`ResultProofs` uses all of these for what a reader of the compiler's output relies on, again
for any number of threads:

- `StuckTasksMeanError`: `[]StuckMeansError`. When all threads have left, nothing that is
  queued is ready (`QuitIsFinal`), so each import left is registered with some file (`WaitsInv`).
  The fixups of this file are not still to come, since an import that is `Fresh` waits for nothing
  and would be ready; so it is `Settled` without a body (`DeliveryInv`), which is only so after an
  error. No order of the imports is used: a circle of imports is no reason to be stuck.
- `AcceptedProgramsAreComplete`: `[]AcceptedIsComplete`. `ResultInv` says what holds as long
  as there is no error: a task or a thread of phase n belongs to a file that was read, whose
  imports exist, and whose structs are laid out once it is past their check (`TaskOK`,
  `ThreadOK`); and every import is complete or still with a task or a thread (`Underway`),
  the initial file included, which has no import object at first (`MainUnderway`). The attempt to
  lay out the structs needs the most care: what it has already passed must stay laid out
  while others create types (`AttemptsKept`), and it may give up only by queueing its task
  again. At the end there is neither a task nor a thread, so every import is complete.

`PoolProofs` proves `DriverIsPool`: `Spec => PoolSteps`. What the pool sees of a thread is the
task in its hand (`InHand`), and of the counts only which imports are blocked (`Blocked`). Each
action is a step of the pool or a stutter: `TakeTask` takes the first ready task since the
loop of `processTasks` has seen those before it (`IndexKnown`); a handler puts one task in the
queue at most and keeps what it holds, and only the import of its own task can become blocked
by it, since a blocked import is one that is registered somewhere (`BlockedIsWaiting`, from
`WaitsInv`); and a thread that leaves has seen `threads_processing` at 0, which by
`CountIsWorkers` means that no worker has a task.

`ResultProofs` has two more theorems, of `Spec` for a `Thread` with one element, which run
`two_threads` refutes for more:

- `OneThreadImportsOnce`: `[]NoDuplicateImport`. `MapInv`: `import_map` is exactly the inverse of
  `imports`, and between `findImport` and `createImport` the name is still missing. The
  initial file needs its own part: it is the only task without an import, and nothing is imported
  before it is read (`NullOnce`, `MainFirst`).
- `OneThreadGeneratesAll`: `[]AcceptedIsGenerated`. `GeneratedInv`: the attempt that is to
  report its errors still has ahead of it a struct with a member of an unknown type
  (`Attempt`), because nobody creates a type between its two attempts (`AllCreated`,
  `Unknown`). So a task is dropped only after an error or after its code was generated.

`SharedContainersProofs` proves five theorems of `SharedContainers!Spec`, for any
threads, locks, functions, strings, amounts of work and sizes of the arrays:

- `ExclusionHolds`: `[]Exclusion`;
- `BytesAreGivenOnce`: the specification implements `Allocator`, whose step gives a thread
  bytes that nobody has;
- `StringsAreHeld`, `ScopesAreKept`, `LinksAreResolved`: `[]StringsHold`, `[]ScopesKept`,
  `[]LinksResolve`.

Assumptions: `LockAssumption` (the main thread is not a worker, and null is no object),
`ScopesAssumption` (both dimensions of the scope array are positive, null is no block),
`WorkAssumption` (work is a sequence of operations, sizes are natural numbers) and, for
`LinksAreResolved` alone, `LinkAssumption` (code is only written to a function that a thread
generates; what it calls may have been dropped). The argument:

1. `MutexInv` is inductive by itself: a thread that waits or is inside has an object of the
   lock it wants, and an object is owned by the one that is inside with it. `Exclusion`
   follows: two threads inside one lock own two objects.
2. As long as the program is `Running`, a section is therefore with one thread
   (`Section`), and nobody else changes the fields it reads. `Core` adds to this that a
   thread that is between the two halves of a section has in `found` what the field still
   is (`SectionInv`), and the types of work and container. Every step keeps `Core`, and
   `CoreHolds` is used by all that follows.
3. `DataInv` says that what was given out lies below `global_data_size`; the one step that
   stores gives bytes from there on, which is a step of `Allocator` (`StepGives`).
4. `StringsInv` adds to `StringsHold` that a thread between `appendData` and the insertion
   has an offset at which the string is; data only grows (`DataGrows`), so both stay true.
5. `ScopesInv`: ids that are given or being made are distinct and below `scopes_used`
   (`OwnInv`), a block that is published belongs to its place and has all its entries
   (`BlocksInv`), and whoever is about to publish has the lock, a blank block and an empty
   place (`CreatingInv`). Without the second test under the lock this is not inductive. The
   split of an id into place and index is shown to be one to one (`DivMod`, `PlaceOf`).
6. `LinksInv`: a relocation names the immediate of its call and its callee, a function has a
   number exactly when it has a piece, one with code has a piece or is still promised by some
   thread's work, and the image is linked only when all work is done, so that nothing is promised
   any more. `Link` then writes the piece of the callee, or -1 (`Numbered`).

`ScopeSearchProofs` proves `SearchFindsNearest`: `Spec => []FindsNearest`, for any finite set of
scopes with any parents, any number of imports that others share and names they declare
while the search runs. `SearchAssumption` has the types of the constants and that
the null pointer is no scope. The argument gives each place of the queue a rank, its distance
from the start:

1. `Ranked`: ranks do not decrease along the queue and are at most one above that of the
   current scope; a scope with rank n can be reached in n steps; and what a scope that has been
   passed shared when the search began is in the queue with a rank at most one higher.
2. `RanksReach`: hence a scope that was n steps away when the search began has rank n or
   less, once all scopes of smaller rank have been passed. What others share meanwhile
   only brings scopes nearer (`WithinGrows`), and the rank of a scope that is shared late does not matter.
3. `NoneNearer`: no scope of a lower rank than the current one declared the name at the start. So a
   result is at the least distance as of the start, or nearer, and a search that gives
   up has passed everything that was in reach.

The levels of `Within` and the loop of `AddShared` are recursive functions, whose equations
have to be shown to have a solution before they can be used. The induction theorems of the
library cannot be instantiated (they take an operator), so the module states induction with
sets: a set that holds 0 and is closed under the next number holds them all (`CountUp`), which
rests on the naturals being well ordered (`LeastNumber`); `IteratesExist` gives the solution.

`MachineProofs` proves seven theorems of `Execution`, each of the form
`FullSpec /\ CodeIsWellFormed /\ []PointersSpareLinks => []P`:

- `TypeCorrect`: `[]TypeOK`, and `InstructionsFetched`: `[]FetchesInstructions`;
- `LinksKept`: `[]LinksIntact`, and `StackKept`: `[]StaysInStack`;
- `DepthKept`: `[]DepthIsStatic`. The test of frames, which follows each path through the code
  once, is right about all executions, however deep the calls and whatever the data;
- `NeverLost`: the machine neither runs past the end of a piece nor stops for a stack that is
  not balanced at a return, the two ways in which misgenerated code ends in `faults`;
- `FrameStoresKept`: a store by the base pointer goes to the frame, from the
  stack pointer up to the link.

They hold for any program and image, any even number of values of a byte, any size of the stack
that fits in a register and any blocks beyond the stack (`ByteBaseAssumption`,
`MemoryAssumption`; in the program a byte has 256 values and the stack 65536 bytes, which no run
can have). The two hypotheses are needed: `execute` does not compare a store through a pointer
with the frames, and code that pops what it has not pushed returns to wherever it wants.
They leave to the machine all that it does to links itself: pushes, calls, results, stores by
by the base pointer, blocks of `malloc` and their release, and every return.

What passes the test of memory without being the machine's ends the machine (`StrayAccess`,
`StrayPop`), so the theorems are about what is done before that; a store just below a region
could change anything. The argument:

1. Arithmetic: the powers of `ByteBase` divide each other (`Powers`, `DivDiv`), so the bytes that
   `Store` leaves are the digits of a number (`StoreHolds`), four or eight digits
   are the number again (`FourDigits`, `LoadsWhatIsHeld`), and a number of a width is its own
   `Signed` (`SignedSame`). Hence what is stored in an undisturbed place is what is loaded.
2. `MachineInv`, the inductive invariant. `RegistersInv` and `MemoryInv`: registers are numbers of
   8 bytes, memory is bytes, and the stack and the data are in it. `BlocksInv`: the
   blocks of `malloc` are apart from the stack and from each other; without it `mfree` could
   take memory of the stack away. `RunningInv`: the machine is at an instruction or at the
   end of the code, `sp` is in the stack, the frame is as high as `Heights` has it at this
   place (`HeightInv`), and `LinksInv`: the links lie in the stack one below
   the other, each has the base pointer of the frame before it, memory holds the three
   numbers of each, and the frame to which it returns will be as high as `Heights` has it at the
   instruction behind the call (`LinkInv`, `Level`). The property `LinksIntact` alone is
   not inductive: it neither says that links do not overlap nor that a saved counter is a place
   of the code; and `DepthIsStatic` is not: what a frame is like after a call has to be known
   while the callee runs.
3. `Advances` is what most instructions have in common: the next place of the same
   piece, and links that stay. Each action is shown to keep `MachineInv`: for a push and a call,
   `sp <= bp`, which the heights give, puts what is written below all links (`BelowLinks`); for
   a return, whose frame is empty, the innermost link is at `bp` and its numbers are loaded
   (`SavedValues`). An INCR of the stack pointer does not wrap, since an operand has 16 bits and a
   register, of 8 bytes whatever a byte is, is wide enough (`RegistersAreWide`, `SumIsKept`).
   `MachineStep` puts the actions together.
4. `DepthsInv` says that each height that was recorded is that of `Heights`; with `HeightInv`
   this is `DepthIsStatic`. `Unlost` follows from `HeightInv` too: at a return the height
   is 0, and the end of a piece, which no path reaches, has none.

`IncrementKept` is about the operand of INCR, for every amount of 16 bits: it is decoded to what
`emit_incr` was given exactly when its low byte is below 128 or it is negative and -128 or more.
The 128 bytes of sixteen locals in `misprinted` are thus the first amount that fails, and so
does every frame whose size has the eighth bit set.

TLC evaluates `MachineInv`, `DepthsInv` and `Unlost` too, but slowly: it found no violation in
the first 7600 states of `execution`, which is why no run has them as invariants.

`LayoutProofs` proves two theorems about the operators of `AST`, for all inputs:

- `StructsAreLaidOut`: for any sequence of structs that have names of their own and contain
  only structs before them (`Declarable`; the member without a size that `one_order` finds in `Late`
  is not such a sequence, and is laid out wrongly), `TypesOf` gives each type a size, and each struct a
  layout (`LaidOut`) with its members as declared, none in the bytes of another, all
  inside of the size, each at a multiple of its `MemberAlignment`. The size of the
  struct and its own alignment are multiples of it too, so a member that is a struct keeps its
  members aligned, however deep they are.
- `ParametersAreLaidOut`: for any signature `CheckFunction` gives the parameters bytes of their
  own, above the 16 bytes of a link and inside of `parameters_size`, which is a multiple of 8,
  and the result a space below the base pointer that holds it.

The layouts are left folds. An induction theorem cannot take the operator of a fold, so the module
shows that the equation behind `FoldLeft`, which is over all subsets of the positions, has a solution
(`FoldExists`, and `TypesFoldExists` for the types, whose steps have no common domain). So a fold
is a loop (`MembersLoop`, `TypesLoop`, `ParametersLoop`), and an invariant of the loop is shown
by counting up (`CountUp`): `PlacedInv`, that the fields so far are placed in their order
before the end, and `TypesInv`, that the structs so far are laid out; a struct that follows
leaves them so, since it changes no size that they use (`StaysLaidOut`).

Only model-checked: liveness (`Termination`, `PoolServes`, `GetsLinked`, `SearchEnds`,
`Finishes`), which needs ENABLED and fairness; the front end, the generator and `KeepsPromise`:
`Generator`, `Language`, `Spelling`, `Parser` and `Grammar` are recursive over trees or sequences,
which is out of reach of the provers. For the same reason the two hypotheses of `MachineProofs`,
`PointersSpareLinks` and `CodeIsWellFormed`, are checked on compiled programs and not proved of the
generator, and so is, for stores through pointers, `StoresAreLive`, which depends on
where the program points.

## Plan

Done: the driver, its scheduler, its imports, its results and its refinement of the pool, with
their proofs; the generator and the machine against the meaning of programs; scopes, data
section and relocations with several threads, and their proofs; the search for names with its
proof; the machine under well-formed code; the layouts; lexer and parser against text and grammar. Left, in
this order:

1. Floats, and globals in the bodies of functions.
2. What `CodeIsWellFormed` asks of the image, proved of the generator for one expression or
   statement at a time; it needs an induction over trees, which only the model checker does here.

## Not modelled

The memory tracker (compiled out), the random program generator, option parsing
and measurements, the vendored Tracy profiler, and the editor extension hold no
state the compiled program depends on. Tracy is most of the lines of the repository
(`src/libs/tracy-0.10` has more than five times the lines of the compiler); it is compiled
out unless `TRACY_ENABLE` is defined, and is not this program's logic. Of the generator and the machine: floats
and casts to them, the natives `printf`, `pow`, `sqrt`, `read_file` and
`write_file`, structs and globals inside of functions, debug lines, and the
interactive mode. Error messages and log output are left out
everywhere.
