------------------------------- MODULE Memory -------------------------------
(***************************************************************************)
(* The memory of the virtual machine: a function from the addresses the    *)
(* program may use to bytes, numbers below ByteBase.  A number of several  *)
(* bytes is little-endian.  The stack, the global data and the blocks of   *)
(* malloc are apart from each other.                                       *)
(***************************************************************************)
EXTENDS Bytes

CONSTANTS
    StackMax,     \* stack_max
    Heap,         \* the addresses malloc may give; 0 when it may fail
    Garbage       \* what fresh memory may be filled with

DataBase   == 64
StackBase  == 256
StackTop   == StackBase + StackMax

\* The blocks of malloc are beyond the stack, and an address fits in a register.
ASSUME MemoryAssumption ==
    /\ StackMax \in Nat \ {0} /\ StackTop < Half(8)
    /\ Heap \subseteq Nat /\ \A address \in Heap \ {0} : address >= StackTop
    /\ Garbage \subseteq 0..(ByteBase - 1)

Addresses(address, size) == address..(address + size - 1)

\* Mutant: the test forgets the size of the access.
Inside_NoSize(address, size, start, limit) == (address - start) % Power[8] <= limit

\* The test of can_access_memory on one region, in unsigned words: diff >= 0 is true of
\* every diff, and diff + size wraps, so that only the end of the access is looked at.
Inside(address, size, start, limit) == (address + size - start) % Power[8] <= limit

\* The memory after the low bytes of x are stored.
Store(mem, address, size, x) ==
    [b \in DOMAIN mem |->
        IF b \in Addresses(address, size)
        THEN (x \div Power[b - address]) % ByteBase ELSE mem[b]]

Filled(addresses, byte) == [b \in addresses |-> byte]

Join(f, g) == [x \in DOMAIN f \cup DOMAIN g |->
                 IF x \in DOMAIN g THEN g[x] ELSE f[x]]
=============================================================================
