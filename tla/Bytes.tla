-------------------------------- MODULE Bytes --------------------------------
(***************************************************************************)
(* Numbers of a width: the values of the language and of the registers of  *)
(* the virtual machine.  A byte has ByteBase values, 256 in the program;   *)
(* small instances take fewer, so that 8 bytes fit in a number of TLC.     *)
(***************************************************************************)
EXTENDS Integers

CONSTANT ByteBase

ASSUME ByteBaseAssumption == ByteBase \in Nat /\ ByteBase > 1 /\ ByteBase % 2 = 0

\* ByteBase^n, in a form that can be reasoned about.
Power[n \in 0 .. 8] == IF n = 0 THEN 1 ELSE ByteBase * Power[n - 1]

Half(n) == Power[n] \div 2

\* The low n bytes of x, with a sign.
Signed(x, n) == ((x + Half(n)) % (2 * Half(n))) - Half(n)

\* An i64, an int and a char.
Word64(x) == Signed(x, 8)
Word32(x) == Signed(x, 4)
Word8(x)  == Signed(x, 1)

\* The division of C.
Quotient(x, y) ==
    LET Abs(n) == IF n < 0 THEN - n ELSE n
    IN  IF (x < 0) = (y < 0) THEN Abs(x) \div Abs(y) ELSE - (Abs(x) \div Abs(y))

Bit(condition) == IF condition THEN 1 ELSE 0
=============================================================================
