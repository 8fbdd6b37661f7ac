---------------------------- MODULE MachineProofs ----------------------------
(***************************************************************************)
(* The virtual machine executes any image that is well formed, while its   *)
(* program follows no pointer to a link (PointersSpareLinks), without      *)
(* mistaking a word, losing a link or leaving the stack, and finds at each *)
(* instruction the frame that the code alone says it has.                  *)
(*                                                                         *)
(* The inductive invariant, MachineInv, says of every call that has not    *)
(* returned where its link is, that the links are in the stack one below   *)
(* the other, that each has the base pointer of the frame before, that the *)
(* frame to which it returns is as high as the code expects it there, and  *)
(* that the bytes of memory are the numbers a return will load.  For that  *)
(* the bytes of a number that is stored must be those of the number that   *)
(* is loaded, which is the arithmetic of the first part.                   *)
(***************************************************************************)
EXTENDS Execution, TLAPS

-----------------------------------------------------------------------------
(* Numbers and bytes *)

\* The division of natural numbers.
LEMMA DivMod ==
    ASSUME NEW x \in Nat, NEW d \in Nat, d > 0
    PROVE  /\ x \div d \in Nat /\ x % d \in 0 .. d - 1
           /\ x = d * (x \div d) + (x % d)
  OBVIOUS

\* The quotient is the only number with this property.
LEMMA DivIs ==
    ASSUME NEW x \in Nat, NEW d \in Nat, d > 0, NEW q \in Nat, NEW r \in 0 .. d - 1,
           x = d * q + r
    PROVE  x \div d = q
<1> DEFINE u == x \div d
           v == x % d
<1>1. u \in Nat /\ v \in 0 .. d - 1 /\ x = d * u + v
  BY DivMod
<1> HIDE DEF u, v
<1>2. u >= q + 1 => d * u >= d * q + d
  <2> SUFFICES ASSUME u >= q + 1 PROVE d * u >= d * q + d
    OBVIOUS
  <2>1. PICK k \in Nat : u = q + 1 + k
    <3>1. u - (q + 1) \in Nat /\ u = q + 1 + (u - (q + 1))
      BY <1>1
    <3> QED
      BY <3>1
  <2>2. d * u = d * q + d + d * k /\ d * k \in Nat /\ d * q \in Nat
    BY <2>1
  <2> QED
    BY <2>2
<1>3. u <= q - 1 => d * q >= d * u + d
  <2> SUFFICES ASSUME u <= q - 1 PROVE d * q >= d * u + d
    OBVIOUS
  <2>1. PICK k \in Nat : q = u + 1 + k
    <3>1. q - (u + 1) \in Nat /\ q = u + 1 + (q - (u + 1))
      BY <1>1
    <3> QED
      BY <3>1
  <2>2. d * q = d * u + d + d * k /\ d * k \in Nat /\ d * u \in Nat
    BY <1>1, <2>1
  <2> QED
    BY <2>2
<1>4. d * u \in Nat /\ d * q \in Nat
  BY <1>1
<1>5. u = q
  BY <1>1, <1>2, <1>3, <1>4
<1> QED
  BY <1>5 DEF u

\* Division by a product in two steps.
LEMMA DivDiv ==
    ASSUME NEW x \in Nat, NEW d \in Nat, d > 0, NEW e \in Nat, e > 0
    PROVE  x \div (e * d) = (x \div d) \div e
<1> DEFINE q == x \div d
           r == x % d
           qq == q \div e
           s == q % e
<1>1. q \in Nat /\ r \in 0 .. d - 1 /\ x = d * q + r
  BY DivMod
<1> HIDE DEF q, r
<1>2. qq \in Nat /\ s \in 0 .. e - 1 /\ q = e * qq + s
  BY <1>1, DivMod
<1> HIDE DEF qq, s
<1>3. e * d \in Nat /\ e * d > 0
  OBVIOUS
<1>4. x = (e * d) * qq + (d * s + r)
  BY <1>1, <1>2
<1>5. d * s + r \in 0 .. (e * d) - 1
  <2>1. PICK k \in Nat : e = s + 1 + k
    <3>1. e - (s + 1) \in Nat /\ e = s + 1 + (e - (s + 1))
      BY <1>2
    <3> QED
      BY <3>1
  <2>2. e * d = d * s + d + d * k /\ d * k \in Nat /\ d * s \in Nat
    BY <1>2, <2>1
  <2> QED
    BY <1>1, <2>2
<1>6. x \div (e * d) = qq
  BY <1>2, <1>3, <1>4, <1>5, DivIs
<1> QED
  BY <1>6 DEF qq, q

\* Power is what its definition says: for a recursive function that is to be shown.
LEMMA Powers ==
    /\ Power[0] = 1
    /\ \A n \in 1 .. 8 : Power[n] = ByteBase * Power[n - 1]
    /\ \A n \in 0 .. 8 : Power[n] \in Nat /\ Power[n] > 0
<1> DEFINE B == ByteBase
           rec(f) == [n \in 0 .. 8 |-> IF n = 0 THEN 1 ELSE B * f[n - 1]]
           p1 == B
           p2 == B * p1
           p3 == B * p2
           p4 == B * p3
           p5 == B * p4
           p6 == B * p5
           p7 == B * p6
           p8 == B * p7
<1>1. B \in Nat /\ B > 1 BY ByteBaseAssumption
<1>2. \E f : f = rec(f)
  <2> HIDE DEF B
  <2>1. PICK f : f = [n \in 0 .. 8 |->
                        IF n = 0 THEN 1 ELSE IF n = 1 THEN p1 ELSE IF n = 2 THEN p2
                        ELSE IF n = 3 THEN p3 ELSE IF n = 4 THEN p4
                        ELSE IF n = 5 THEN p5 ELSE IF n = 6 THEN p6
                        ELSE IF n = 7 THEN p7 ELSE p8]
    OBVIOUS
  <2>2. /\ f[0] = 1 /\ f[1] = B * f[0] /\ f[2] = B * f[1] /\ f[3] = B * f[2]
        /\ f[4] = B * f[3] /\ f[5] = B * f[4] /\ f[6] = B * f[5] /\ f[7] = B * f[6]
        /\ f[8] = B * f[7]
    BY <1>1, <2>1
  <2>3. \A n \in 1 .. 8 : f[n] = B * f[n - 1]
    <3> TAKE n \in 1 .. 8
    <3>1. n = 1 \/ n = 2 \/ n = 3 \/ n = 4 \/ n = 5 \/ n = 6 \/ n = 7 \/ n = 8 OBVIOUS
    <3> HIDE DEF p1, p2, p3, p4, p5, p6, p7, p8
    <3> QED BY <2>2, <3>1
  <2>4. f = rec(f)
    <3>1. f = [n \in 0 .. 8 |-> f[n]] BY <2>1
    <3> HIDE DEF p1, p2, p3, p4, p5, p6, p7, p8
    <3> QED BY <2>2, <2>3, <3>1
  <2> QED BY <2>4
<1>3. Power = CHOOSE f : f = rec(f)
  BY Zenon DEF Power
<1>4. Power = rec(Power)
  <2> HIDE DEF rec
  <2> QED BY <1>2, <1>3
<1>5. Power[0] = 1 /\ \A n \in 1 .. 8 : Power[n] = B * Power[n - 1]
  <2> HIDE DEF B
  <2>1. \A n \in 0 .. 8 : Power[n] = IF n = 0 THEN 1 ELSE B * Power[n - 1]
    BY <1>4
  <2> QED BY <2>1
<1> DEFINE Fine(n) == Power[n] \in Nat /\ Power[n] > 0
<1>6. ASSUME NEW n \in 1 .. 8, Fine(n - 1) PROVE Fine(n)
  <2> DEFINE p == Power[n - 1]
  <2>1. Power[n] = B * p /\ p \in Nat /\ p > 0 BY <1>5, <1>6
  <2> HIDE DEF p, B
  <2>2. B * p \in Nat /\ B * p > 0 BY <1>1, <2>1
  <2> QED BY <2>1, <2>2
<1>7. \A n \in 0 .. 8 : Fine(n)
  <2>0. Fine(0) BY <1>5
  <2> HIDE DEF Fine
  <2>1. Fine(1) BY <1>6, <2>0
  <2>2. Fine(2) BY <1>6, <2>1
  <2>3. Fine(3) BY <1>6, <2>2
  <2>4. Fine(4) BY <1>6, <2>3
  <2>5. Fine(5) BY <1>6, <2>4
  <2>6. Fine(6) BY <1>6, <2>5
  <2>7. Fine(7) BY <1>6, <2>6
  <2>8. Fine(8) BY <1>6, <2>7
  <2> QED BY <2>0, <2>1, <2>2, <2>3, <2>4, <2>5, <2>6, <2>7, <2>8
<1> QED BY <1>5, <1>7

\* Half of a power is a whole number.
LEMMA HalfPower ==
    ASSUME NEW n \in 1 .. 8
    PROVE  Half(n) \in Nat /\ Half(n) > 0 /\ Power[n] = 2 * Half(n)
<1> DEFINE p == Power[n - 1]
           h == ByteBase \div 2
<1>1. Power[n] = ByteBase * p /\ p \in Nat /\ p > 0
  BY Powers
<1>2. h \in Nat /\ h > 0 /\ ByteBase = 2 * h
  BY ByteBaseAssumption
<1> HIDE DEF p, h
<1>3. h * p \in Nat /\ h * p > 0 /\ ByteBase * p = 2 * (h * p)
  BY <1>1, <1>2
<1> DEFINE m == h * p
<1>4. Half(n) = (2 * m) \div 2
  BY <1>1, <1>3 DEF Half
<1> HIDE DEF m
<1>5. (2 * m) \div 2 = m
  BY <1>3 DEF m
<1> QED
  BY <1>1, <1>3, <1>4, <1>5 DEF m

\* A number of n bytes is in range, and a number in range is left as it is.
LEMMA SignedRange ==
    ASSUME NEW n \in 1 .. 8, NEW x \in Int
    PROVE  /\ Signed(x, n) \in Int
           /\ Signed(x, n) \in - Half(n) .. Half(n) - 1
           /\ Signed(Signed(x, n), n) = Signed(x, n)
<1> DEFINE h == Half(n)
<1>1. h \in Nat /\ h > 0
  BY HalfPower
<1>2. Signed(x, n) = ((x + h) % (2 * h)) - h
  BY DEF Signed
<1> HIDE DEF h
<1>3. (x + h) % (2 * h) \in 0 .. (2 * h) - 1
  BY <1>1
<1>4. Signed(x, n) \in - h .. h - 1
  BY <1>1, <1>2, <1>3
<1>5. Signed(Signed(x, n), n) = ((Signed(x, n) + h) % (2 * h)) - h
  BY DEF Signed, h
<1>6. (Signed(x, n) + h) % (2 * h) = Signed(x, n) + h
  BY <1>1, <1>4
<1> QED
  BY <1>1, <1>4, <1>5, <1>6 DEF h

\* A number in range is left as it is.
LEMMA SignedSame ==
    ASSUME NEW n \in 1 .. 8, NEW x \in - Half(n) .. Half(n) - 1
    PROVE  Signed(x, n) = x
<1> DEFINE h == Half(n)
<1>1. h \in Nat /\ h > 0
  BY HalfPower
<1>2. Signed(x, n) = ((x + h) % (2 * h)) - h /\ x \in - h .. h - 1
  BY DEF Signed
<1> HIDE DEF h
<1>3. (x + h) % (2 * h) = x + h
  BY <1>1, <1>2
<1> QED
  BY <1>1, <1>2, <1>3

\* Load, of any memory.
LoadFrom(mem, address, size) ==
    LET Four(a) == mem[a] + ByteBase * (mem[a + 1] +
                      ByteBase * (mem[a + 2] + ByteBase * mem[a + 3]))
    IN  CASE size = 1 -> mem[address]
          [] size = 4 -> Four(address)
          [] size = 8 -> Four(address) + Power[4] * Four(address + 4)
          [] OTHER    -> 0

\* x without its low n bytes, and byte n of x.
From(x, n) == x \div Power[n]
Digit(x, n) == From(x, n) % ByteBase

\* A number is its low byte and what is above it.
LEMMA NextDigit ==
    ASSUME NEW x \in Nat, NEW n \in 0 .. 7
    PROVE  /\ From(x, n) \in Nat /\ From(x, n + 1) \in Nat
           /\ Digit(x, n) \in Nat /\ Digit(x, n) < ByteBase
           /\ From(x, n) = Digit(x, n) + ByteBase * From(x, n + 1)
<1>1. /\ Power[n] \in Nat /\ Power[n] > 0 /\ Power[n + 1] = ByteBase * Power[n]
      /\ ByteBase \in Nat /\ ByteBase > 0
  BY Powers, ByteBaseAssumption
<1>2. From(x, n) \in Nat
  BY <1>1, DivMod DEF From
<1>3. From(x, n + 1) = From(x, n) \div ByteBase
  BY <1>1, DivDiv DEF From
<1> DEFINE y == From(x, n)
           q == y \div ByteBase
           d == y % ByteBase
<1>4. q \in Nat /\ d \in 0 .. ByteBase - 1 /\ y = ByteBase * q + d
  BY <1>1, <1>2, DivMod
<1>5. From(x, n + 1) = q /\ Digit(x, n) = d
  BY <1>3 DEF Digit
<1> HIDE DEF y, q, d
<1>6. d \in Nat /\ d < ByteBase /\ ByteBase * q \in Nat
  BY <1>1, <1>4
<1>7. y = d + ByteBase * q
  BY <1>4, <1>6
<1> QED
  BY <1>2, <1>4, <1>5, <1>6, <1>7 DEF y

\* The arithmetic of a step of FourDigits.
LEMMA Regroup ==
    ASSUME NEW b \in Nat, NEW d \in Nat, NEW s \in Nat, NEW p \in Nat, NEW y \in Nat
    PROVE  d + b * (s + p * y) = (d + b * s) + (b * p) * y
  OBVIOUS

\* A number is its four low bytes and what is above them.
LEMMA FourDigits ==
    ASSUME NEW x \in Nat, NEW k \in {0, 4}
    PROVE  From(x, k) = (Digit(x, k) + ByteBase * (Digit(x, k + 1) +
                           ByteBase * (Digit(x, k + 2) + ByteBase * Digit(x, k + 3))))
                        + Power[4] * From(x, k + 4)
<1> DEFINE b  == ByteBase
           d0 == Digit(x, k)
           d1 == Digit(x, k + 1)
           d2 == Digit(x, k + 2)
           d3 == Digit(x, k + 3)
           y  == From(x, k + 4)
           s2 == d2 + b * d3
           s1 == d1 + b * s2
           s0 == d0 + b * s1
<1>1. /\ From(x, k + 3) = d3 + b * y
      /\ From(x, k + 2) = d2 + b * From(x, k + 3)
      /\ From(x, k + 1) = d1 + b * From(x, k + 2)
      /\ From(x, k) = d0 + b * From(x, k + 1)
      /\ d0 \in Nat /\ d1 \in Nat /\ d2 \in Nat /\ d3 \in Nat /\ y \in Nat /\ b \in Nat
  <2>1. /\ k + 1 \in 0 .. 7 /\ k + 2 \in 0 .. 7 /\ k + 3 \in 0 .. 7 /\ k \in 0 .. 7
        /\ (k + 1) + 1 = k + 2 /\ (k + 2) + 1 = k + 3 /\ (k + 3) + 1 = k + 4
    OBVIOUS
  <2>2. /\ From(x, k + 3) = d3 + b * y /\ d3 \in Nat /\ y \in Nat
    BY <2>1, NextDigit
  <2>3. From(x, k + 2) = d2 + b * From(x, k + 3) /\ d2 \in Nat
    BY <2>1, NextDigit
  <2>4. From(x, k + 1) = d1 + b * From(x, k + 2) /\ d1 \in Nat
    BY <2>1, NextDigit
  <2>5. From(x, k) = d0 + b * From(x, k + 1) /\ d0 \in Nat
    BY <2>1, NextDigit
  <2> QED
    BY <2>2, <2>3, <2>4, <2>5, ByteBaseAssumption
<1>2. Power[1] = b /\ Power[2] = b * b /\ Power[3] = b * Power[2] /\ Power[4] = b * Power[3]
      /\ Power[2] \in Nat /\ Power[3] \in Nat
  <2>1. Power[0] = 1 /\ Power[1] = b * Power[0] /\ Power[2] = b * Power[1]
        /\ Power[3] = b * Power[2] /\ Power[4] = b * Power[3]
    BY Powers
  <2> QED
    BY <2>1, <1>1, Powers
<1> HIDE DEF b, d0, d1, d2, d3, y
<1>3. From(x, k + 2) = s2 + Power[2] * y /\ s2 \in Nat
  <2>1. d2 + b * (d3 + b * y) = (d2 + b * d3) + (b * b) * y
    BY <1>1, Regroup
  <2> QED
    BY <1>1, <1>2, <2>1
<1> HIDE DEF s2
<1>4. From(x, k + 1) = s1 + Power[3] * y /\ s1 \in Nat
  <2>1. d1 + b * (s2 + Power[2] * y) = (d1 + b * s2) + (b * Power[2]) * y
    BY <1>1, <1>2, <1>3, Regroup
  <2> QED
    BY <1>1, <1>2, <1>3, <2>1
<1> HIDE DEF s1
<1>5. From(x, k) = s0 + Power[4] * y
  <2>1. d0 + b * (s1 + Power[3] * y) = (d0 + b * s1) + (b * Power[3]) * y
    BY <1>1, <1>2, <1>4, Regroup
  <2> QED
    BY <1>1, <1>2, <1>4, <2>1
<1> QED
  BY <1>5 DEF s0, s1, s2, b, d0, d1, d2, d3, y

\* The digits of x from an address on.
Holds(mem, address, size, x) == \A j \in 0 .. size - 1 : mem[address + j] = Digit(x, j)

\* What is stored is loaded again.
LEMMA LoadsWhatIsHeld ==
    ASSUME NEW mem, NEW address \in Int, NEW size \in {4, 8}, NEW x \in Nat, x < Power[size],
           Holds(mem, address, size, x)
    PROVE  LoadFrom(mem, address, size) = x
<1>1. From(x, 0) = x
  <2>1. Power[0] = 1
    BY Powers
  <2> QED
    BY <2>1 DEF From
<1>2. From(x, size) = 0
  <2> DEFINE p == Power[size]
  <2>1. p \in Nat /\ p > 0 /\ x < p
    BY Powers
  <2> HIDE DEF p
  <2>2. x = p * 0 + x /\ x \in 0 .. p - 1
    BY <2>1
  <2>3. x \div p = 0
    BY <2>1, <2>2, DivIs
  <2> QED
    BY <2>3 DEF From, p
<1>3. Power[4] * 0 = 0 /\ Power[4] \in Nat
  BY Powers
<1> DEFINE Four(k) == Digit(x, k) + ByteBase * (Digit(x, k + 1) +
                         ByteBase * (Digit(x, k + 2) + ByteBase * Digit(x, k + 3)))
<1>4. x = Four(0) + Power[4] * From(x, 4) /\ From(x, 4) = Four(4) + Power[4] * From(x, 8)
  <2>1. From(x, 0) = Four(0) + Power[4] * From(x, 0 + 4) /\ From(x, 4) = Four(4) + Power[4] * From(x, 4 + 4)
    BY FourDigits
  <2> QED
    BY <1>1, <2>1
<1>5. Four(0) \in Nat /\ Four(4) \in Nat
  <2>1. \A n \in 0 .. 7 : Digit(x, n) \in Nat
    BY NextDigit
  <2>2. ASSUME NEW k \in {0, 4} PROVE Four(k) \in Nat
    <3>1. Digit(x, k) \in Nat /\ Digit(x, k + 1) \in Nat /\ Digit(x, k + 2) \in Nat /\ Digit(x, k + 3) \in Nat
      BY <2>1
    <3> QED
      BY <3>1, ByteBaseAssumption
  <2> QED
    BY <2>2
<1>6. size >= 4 /\ (mem[address] = Digit(x, 0) /\ mem[address + 1] = Digit(x, 0 + 1)
                    /\ mem[address + 2] = Digit(x, 0 + 2) /\ mem[address + 3] = Digit(x, 0 + 3))
  <2>1. mem[address + 0] = Digit(x, 0) /\ address + 0 = address
    BY DEF Holds
  <2> QED
    BY <2>1 DEF Holds
<1>7. CASE size = 4
  <2>1. LoadFrom(mem, address, size) = Four(0)
    BY <1>6, <1>7 DEF LoadFrom
  <2> HIDE DEF Four
  <2> QED
    BY <1>2, <1>3, <1>4, <1>5, <1>7, <2>1
<1>8. CASE size = 8
  <2>1. mem[address + 4] = Digit(x, 4) /\ mem[(address + 4) + 1] = Digit(x, 4 + 1)
        /\ mem[(address + 4) + 2] = Digit(x, 4 + 2) /\ mem[(address + 4) + 3] = Digit(x, 4 + 3)
    <3>1. (address + 4) + 1 = address + 5 /\ (address + 4) + 2 = address + 6 /\ (address + 4) + 3 = address + 7
      OBVIOUS
    <3> QED
      BY <1>8, <3>1 DEF Holds
  <2>2. LoadFrom(mem, address, size) = Four(0) + Power[4] * Four(4)
    BY <1>6, <1>8, <2>1 DEF LoadFrom
  <2> HIDE DEF Four
  <2>3. From(x, 4) = Four(4)
    BY <1>2, <1>3, <1>4, <1>5, <1>8
  <2> QED
    BY <1>4, <2>2, <2>3
<1> QED
  BY <1>7, <1>8

\* What is stored is there.
LEMMA StoreHolds ==
    ASSUME NEW mem, NEW address \in Int, NEW size \in Nat, NEW x,
           Addresses(address, size) \subseteq DOMAIN mem
    PROVE  Holds(Store(mem, address, size, x), address, size, x)
<1> SUFFICES ASSUME NEW j \in 0 .. size - 1
             PROVE  Store(mem, address, size, x)[address + j] = Digit(x, j)
  BY DEF Holds
<1>1. address + j \in Addresses(address, size) /\ (address + j) - address = j
  BY DEF Addresses
<1> QED
  BY <1>1 DEF Store, Digit, From

\* A store changes its own addresses only.
LEMMA StoreLeaves ==
    ASSUME NEW mem, NEW address, NEW size, NEW x
    PROVE  /\ DOMAIN Store(mem, address, size, x) = DOMAIN mem
           /\ \A b \in DOMAIN mem \ Addresses(address, size) :
                 Store(mem, address, size, x)[b] = mem[b]
  BY DEF Store

\* A number that is loaded from bytes.
LEMMA LoadIsNumber ==
    ASSUME NEW mem, NEW address \in Int, NEW size \in Int,
           \A b \in Addresses(address, size) : mem[b] \in 0 .. ByteBase - 1
    PROVE  LoadFrom(mem, address, size) \in Nat
<1>0. ByteBase \in Nat /\ Power[4] \in Nat
  BY ByteBaseAssumption, Powers
<1>1. ASSUME NEW a \in Int, a >= address, a + 3 < address + size
      PROVE  mem[a] + ByteBase * (mem[a + 1] + ByteBase * (mem[a + 2] + ByteBase * mem[a + 3])) \in Nat
  <2>1. mem[a] \in Nat /\ mem[a + 1] \in Nat /\ mem[a + 2] \in Nat /\ mem[a + 3] \in Nat
    BY <1>0, <1>1 DEF Addresses
  <2> QED
    BY <1>0, <2>1
<1>2. CASE size = 1
  BY <1>0, <1>2 DEF LoadFrom, Addresses
<1>3. CASE size = 4
  BY <1>1, <1>3 DEF LoadFrom
<1>4. CASE size = 8
  <2> DEFINE Four(a) == mem[a] + ByteBase * (mem[a + 1] + ByteBase * (mem[a + 2] + ByteBase * mem[a + 3]))
  <2>1. Four(address) \in Nat /\ Four(address + 4) \in Nat
    BY <1>1, <1>4
  <2>2. LoadFrom(mem, address, size) = Four(address) + Power[4] * Four(address + 4)
    BY <1>4 DEF LoadFrom
  <2> HIDE DEF Four
  <2> QED
    BY <1>0, <2>1, <2>2
<1>5. CASE size \notin {1, 4, 8}
  BY <1>5 DEF LoadFrom
<1> QED
  BY <1>2, <1>3, <1>4, <1>5

-----------------------------------------------------------------------------
(* The invariant *)

Int64 == - Half(8) .. Half(8) - 1
RegisterName == Register \cup {"pc"}
Statuses == {"running", "finished", "no_instructions", "pc_out_of_bounds",
             "access_violation", "stack_overflow", "mismatch", "undefined"}
Pieces == Image(program).pieces

ImageInv == WellFormedImage(Image(program))

\* The types, of the parts that every instruction changes.
RegistersInv ==
    /\ program \in Program /\ ImageInv /\ status \in Statuses
    /\ piece_index \in 0 .. Len(Pieces) - 1
    /\ registers \in [RegisterName -> Int64]

\* What the machine may use without a fault is mapped, and has bytes.
MemoryInv ==
    /\ \A b \in DOMAIN memory : memory[b] \in 0 .. ByteBase - 1
    /\ Addresses(StackBase, StackMax) \subseteq DOMAIN memory
    /\ Addresses(DataBase, Len(GlobalData)) \subseteq DOMAIN memory

\* The blocks of malloc are in the heap, mapped and apart.
BlocksInv ==
    /\ DOMAIN allocations \subseteq Heap \ {0}
    /\ \A block \in DOMAIN allocations :
          /\ allocations[block] \in Nat
          /\ Addresses(block, allocations[block]) \subseteq DOMAIN memory
    /\ \A block, other \in DOMAIN allocations :
          block # other => \/ block + allocations[block] <= other
                           \/ other + allocations[other] <= block

\* The base pointer that the call of a link has saved.
SavedBp(k) == IF k = 1 THEN StackTop ELSE links[k - 1].place

\* A place of the code is one that is reached with a frame of this height.
HeightAt(code, pc) == Heights(code)[pc + 1]
Level(code, pc, height) == height >= 0 /\ HeightAt(code, pc) = height

\* A link is in the stack, says where the caller goes on and with which frame, and memory
\* has it.
LinkInv(k) ==
    /\ links[k].place \in StackBase .. StackTop - 16
    /\ links[k].piece_index \in 0 .. Len(Pieces) - 1
    /\ links[k].pc \in Places(Pieces[links[k].piece_index + 1])
    /\ links[k].bp = SavedBp(k)
    /\ Level(Pieces[links[k].piece_index + 1], links[k].pc, links[k].bp - (links[k].place + 16))
    /\ LoadFrom(memory, links[k].place, 8) = links[k].bp
    /\ LoadFrom(memory, links[k].place + 8, 4) = links[k].piece_index
    /\ LoadFrom(memory, links[k].place + 12, 4) = links[k].pc

LinksInv ==
    /\ links \in Seq([place : Int, pc : Int, piece_index : Int, bp : Int])
    /\ registers.bp = IF links = << >> THEN StackTop ELSE links[Len(links)].place
    /\ \A k \in DOMAIN links : LinkInv(k)
    /\ \A j, k \in DOMAIN links : j < k => links[k].place + 16 <= links[j].place

\* While the machine runs it is at an instruction or the end of the code, and the stack
\* pointer is in the stack.
RunningInv ==
    status = "running" =>
        /\ registers.pc \in Places(Code)
        /\ registers.sp \in StackBase .. StackTop
        /\ LinksInv

\* The frame is as high as the code alone says that it is here.
HeightInv == Level(Code, registers.pc, registers.bp - registers.sp)

MachineInv == RegistersInv /\ MemoryInv /\ BlocksInv /\ RunningInv /\ HeightInv

-----------------------------------------------------------------------------
\* The bounds of numbers and of the stack.
LEMMA Bounds ==
    /\ Half(8) \in Nat /\ Half(4) \in Nat /\ Half(4) > 0 /\ Half(4) <= Half(8)
    /\ Power[4] = 2 * Half(4) /\ Power[8] = 2 * Half(8)
    /\ StackMax \in Nat /\ StackTop \in Nat /\ StackTop < Half(8) /\ StackTop = 256 + StackMax
    /\ StackBase = 256 /\ Int64 \subseteq Int
    /\ ByteBase \in Nat /\ ByteBase > 1
<1>1. /\ Half(8) \in Nat /\ Half(4) \in Nat /\ Half(4) > 0 /\ Half(8) > 0
      /\ Power[4] = 2 * Half(4) /\ Power[8] = 2 * Half(8)
  BY HalfPower
<1>2. ASSUME NEW n \in 4 .. 7 PROVE Power[n] <= Power[n + 1]
  <2> DEFINE p == Power[n]
  <2>1. Power[n + 1] = ByteBase * p /\ p \in Nat
    BY Powers
  <2> HIDE DEF p
  <2>2. PICK b \in Nat : ByteBase = b + 1
    <3>1. ByteBase - 1 \in Nat /\ ByteBase = (ByteBase - 1) + 1
      BY ByteBaseAssumption
    <3> QED
      BY <3>1
  <2>3. ByteBase * p = b * p + p /\ b * p \in Nat
    BY <2>1, <2>2
  <2> QED
    BY <2>1, <2>3 DEF p
<1>3. Power[4] <= Power[8]
  <2>1. Power[4] <= Power[5] /\ Power[5] <= Power[6] /\ Power[6] <= Power[7] /\ Power[7] <= Power[8]
    BY <1>2
  <2>2. Power[4] \in Nat /\ Power[5] \in Nat /\ Power[6] \in Nat /\ Power[7] \in Nat /\ Power[8] \in Nat
    BY Powers
  <2> QED
    BY <2>1, <2>2
<1> QED
  BY <1>1, <1>3, MemoryAssumption, ByteBaseAssumption DEF Int64, StackTop, StackBase

\* What is cut to 8 bytes is a number of a register.
LEMMA Word64Range ==
    ASSUME NEW x \in Int
    PROVE  Word64(x) \in Int64
  BY SignedRange DEF Word64, Int64

\* A number of a register is not changed by the cut.
LEMMA Word64Same ==
    ASSUME NEW x \in Int64
    PROVE  Word64(x) = x
  BY SignedSame DEF Word64, Int64

\* What is cut to 4 bytes is a number.
LEMMA Word32Range ==
    ASSUME NEW x \in Int
    PROVE  Word32(x) \in Int
  BY SignedRange DEF Word32

\* Nor is a small number by the cut to 4 bytes.
LEMMA Word32Same ==
    ASSUME NEW x \in Nat, x < Half(4)
    PROVE  Word32(x) = x
<1>1. x \in - Half(4) .. Half(4) - 1
  BY Bounds
<1> QED
  BY <1>1, SignedSame DEF Word32

\* What is known of the image.
LEMMA ImageFacts ==
    ASSUME RegistersInv
    PROVE  /\ Pieces \in Seq(Seq(Words)) /\ Len(Pieces) < Half(4)
           /\ GlobalData \in Seq(0 .. ByteBase - 1) /\ DataBase + Len(GlobalData) <= StackBase
           /\ \A k \in DOMAIN Pieces : Pieces[k] \in Seq(Words) /\ WellFormed(Pieces, Pieces[k])
           /\ piece_index + 1 \in DOMAIN Pieces /\ Code = Pieces[piece_index + 1]
           /\ Image(program).main \in 0 .. Len(Pieces) - 1
<1>1. ImageInv /\ piece_index \in 0 .. Len(Pieces) - 1
  BY DEF RegistersInv
<1>2. /\ Pieces \in Seq(Seq(Words)) /\ Len(Pieces) < Half(4)
      /\ GlobalData \in Seq(0 .. ByteBase - 1) /\ DataBase + Len(GlobalData) <= StackBase
      /\ \A k \in DOMAIN Pieces : WellFormed(Pieces, Pieces[k])
      /\ Image(program).main \in 0 .. Len(Pieces) - 1
  BY <1>1 DEF ImageInv, WellFormedImage, Pieces, GlobalData
<1>3. \A k \in DOMAIN Pieces : Pieces[k] \in Seq(Words)
  BY <1>2
<1>4. piece_index + 1 \in DOMAIN Pieces
  BY <1>1, <1>2
<1> QED
  BY <1>2, <1>3, <1>4 DEF Code, Pieces

\* The place of a piece is a number that a link of four bytes can hold.
LEMMA PlacesAreSmall ==
    ASSUME RegistersInv, NEW k \in DOMAIN Pieces, NEW pc \in Places(Pieces[k])
    PROVE  pc \in Nat /\ pc < Half(4) /\ pc \in Int64
<1>1. Pieces[k] \in Seq(Words) /\ Len(Pieces[k]) < Half(4)
  BY ImageFacts DEF WellFormed
<1>2. pc \in 0 .. Len(Pieces[k])
  BY DEF Places
<1> QED
  BY <1>1, <1>2, Bounds DEF Int64

\* The next instruction.
LEMMA Fetched ==
    ASSUME RegistersInv, RunningInv, status = "running", InBounds
    PROVE  /\ inst \in Words /\ WellFormedAt(Pieces, Code, registers.pc)
           /\ registers.pc \in Nat
           /\ NextPc \in Places(Code) /\ NextPc \in Int64
           /\ (inst.opcode \in Immediates => WellAimed(Pieces, Code, registers.pc) /\ imm \in Int)
<1> DEFINE pc == registers.pc
<1>1. Code \in Seq(Words) /\ WellFormed(Pieces, Code) /\ piece_index + 1 \in DOMAIN Pieces /\ Code = Pieces[piece_index + 1]
  BY ImageFacts
<1>2. pc \in Places(Code) /\ pc >= 0 /\ pc < Len(Code)
  BY DEF RunningInv, InBounds
<1>3. pc \in 0 .. Len(Code) - 1 /\ InstructionAt(Code, pc)
  BY <1>1, <1>2 DEF Places
<1>4. WellFormedAt(Pieces, Code, pc)
  BY <1>1, <1>3 DEF WellFormed
<1>5. inst \in Words
  BY <1>1, <1>3 DEF inst
<1>6. NextPc \in Places(Code)
  BY <1>4 DEF WellFormedAt, NextPc, inst
<1>7. NextPc \in Int64
  BY <1>1, <1>6, PlacesAreSmall
<1>8. ASSUME inst.opcode \in Immediates PROVE WellAimed(Pieces, Code, pc) /\ imm \in Int
  <2>1. NextPc = pc + 2 /\ NextPc \in 0 .. Len(Code)
    BY <1>6, <1>8 DEF NextPc, SizeOf, Places
  <2>2. pc + 2 \in 1 .. Len(Code)
    BY <1>3, <2>1
  <2>3. Code[pc + 2] \in Words
    BY <1>1, <2>2
  <2> QED
    BY <1>4, <1>8, <2>3 DEF WellFormedAt, inst, imm, Words
<1> QED
  BY <1>3, <1>4, <1>5, <1>6, <1>7, <1>8

\* Load is LoadFrom of the memory.
LEMMA LoadIs ==
    ASSUME NEW address, NEW size
    PROVE  Load(address, size) = LoadFrom(memory, address, size)
  BY DEF Load, LoadFrom

\* Only the bytes that are loaded matter.
LEMMA LoadSame ==
    ASSUME NEW mem, NEW other, NEW address \in Int, NEW size \in {4, 8},
           \A b \in Addresses(address, size) : mem[b] = other[b]
    PROVE  LoadFrom(mem, address, size) = LoadFrom(other, address, size)
<1>1. /\ address \in Addresses(address, size) /\ address + 1 \in Addresses(address, size)
      /\ address + 2 \in Addresses(address, size) /\ address + 3 \in Addresses(address, size)
  BY DEF Addresses
<1>2. CASE size = 4
  BY <1>1, <1>2 DEF LoadFrom
<1>3. CASE size = 8
  <2>1. /\ address + 4 \in Addresses(address, size) /\ (address + 4) + 1 \in Addresses(address, size)
        /\ (address + 4) + 2 \in Addresses(address, size) /\ (address + 4) + 3 \in Addresses(address, size)
    BY <1>3 DEF Addresses
  <2> QED
    BY <1>1, <1>3, <2>1 DEF LoadFrom
<1> QED
  BY <1>2, <1>3

\* Nothing of a link changes with its bytes in place.
LEMMA LinkStays ==
    ASSUME RegistersInv, LinksInv, NEW k \in DOMAIN links, program' = program,
           \A b \in Addresses(links[k].place, 16) : memory'[b] = memory[b]
    PROVE  /\ LoadFrom(memory', links[k].place, 8) = links[k].bp
           /\ LoadFrom(memory', links[k].place + 8, 4) = links[k].piece_index
           /\ LoadFrom(memory', links[k].place + 12, 4) = links[k].pc
<1> DEFINE place == links[k].place
<1>1. LinkInv(k) /\ place \in Int
  <2>1. LinkInv(k)
    BY DEF LinksInv
  <2> QED
    BY <2>1 DEF LinkInv
<1>2. /\ Addresses(place, 8) \subseteq Addresses(place, 16)
      /\ Addresses(place + 8, 4) \subseteq Addresses(place, 16)
      /\ Addresses(place + 12, 4) \subseteq Addresses(place, 16)
  BY <1>1 DEF Addresses
<1> HIDE DEF place
<1>3. \A b \in Addresses(place, 16) : memory'[b] = memory[b]
  BY DEF place
<1>4. /\ LoadFrom(memory', place, 8) = LoadFrom(memory, place, 8)
      /\ LoadFrom(memory', place + 8, 4) = LoadFrom(memory, place + 8, 4)
      /\ LoadFrom(memory', place + 12, 4) = LoadFrom(memory, place + 12, 4)
  BY <1>1, <1>2, <1>3, LoadSame
<1> QED
  BY <1>1, <1>4 DEF LinkInv, place

\* The machine goes on in the piece it is in.
Advances ==
    /\ status = "running" /\ UNCHANGED <<program, piece_index, status, links>>
    /\ registers' \in [RegisterName -> Int64]
    /\ registers'.pc \in Places(Code)
    /\ registers'.bp = registers.bp
    /\ registers'.sp \in StackBase .. StackTop
    /\ Level(Code, registers'.pc, registers.bp - registers'.sp)

\* The invariant stays when the machine goes on and no link is touched.
LEMMA AdvancesKeeps ==
    ASSUME MachineInv, Advances, MemoryInv', BlocksInv',
           \A b \in LinkPlaces : memory'[b] = memory[b]
    PROVE  MachineInv'
<1>1. RegistersInv'
  BY DEF Advances, MachineInv, RegistersInv, ImageInv, Pieces
<1>2. ASSUME NEW k \in DOMAIN links PROVE LinkInv(k)'
  <2>1. \A b \in Addresses(links[k].place, 16) : memory'[b] = memory[b]
    BY DEF LinkPlaces
  <2>2. LinksInv /\ RegistersInv
    BY DEF MachineInv, RunningInv, Advances
  <2>3. /\ LoadFrom(memory', links[k].place, 8) = links[k].bp
        /\ LoadFrom(memory', links[k].place + 8, 4) = links[k].piece_index
        /\ LoadFrom(memory', links[k].place + 12, 4) = links[k].pc
    BY <2>1, <2>2, LinkStays DEF Advances
  <2>4. LinkInv(k)
    BY <2>2 DEF LinksInv
  <2> QED
    BY <2>3, <2>4 DEF LinkInv, SavedBp, Advances, Pieces
<1>3. RunningInv'
  <2>1. Code' = Code
    BY DEF Advances, Code
  <2>2. LinksInv'
    BY <1>2 DEF MachineInv, RunningInv, LinksInv, Advances
  <2> QED
    BY <2>1, <2>2 DEF RunningInv, Advances
<1>4. HeightInv'
  <2>1. Code' = Code
    BY DEF Advances, Code
  <2> QED
    BY <2>1 DEF HeightInv, Advances
<1> QED
  BY <1>1, <1>3, <1>4 DEF MachineInv

\* The machine stops.
LEMMA StopKeeps ==
    ASSUME MachineInv, NEW s \in Statuses \ {"running"}, EndWith(s)
    PROVE  MachineInv'
<1>1. RegistersInv' /\ MemoryInv' /\ BlocksInv' /\ RunningInv'
  BY DEF EndWith, MachineInv, RegistersInv, ImageInv, MemoryInv, BlocksInv, RunningInv,
         Statuses, Pieces, GlobalData
<1>2. HeightInv'
  BY DEF EndWith, MachineInv, HeightInv, Code
<1> QED
  BY <1>1, <1>2 DEF MachineInv

\* What stays of memory and blocks.
LEMMA MemoryStays ==
    ASSUME MachineInv, UNCHANGED <<program, memory, allocations>>
    PROVE  MemoryInv' /\ BlocksInv' /\ \A b \in LinkPlaces : memory'[b] = memory[b]
  BY DEF MachineInv, MemoryInv, BlocksInv, GlobalData

\* Bytes are stored where there is memory.
LEMMA BytesStored ==
    ASSUME MachineInv, UNCHANGED <<program, allocations>>,
           DOMAIN memory' = DOMAIN memory,
           \A b \in DOMAIN memory : memory'[b] \in 0 .. ByteBase - 1
    PROVE  MemoryInv' /\ BlocksInv'
  BY DEF MachineInv, MemoryInv, BlocksInv, GlobalData

\* What is stored are bytes.
LEMMA StoreIsBytes ==
    ASSUME NEW mem, \A b \in DOMAIN mem : mem[b] \in 0 .. ByteBase - 1,
           NEW address \in Int, NEW size \in Int, NEW x \in Int, size <= 8
    PROVE  /\ DOMAIN Store(mem, address, size, x) = DOMAIN mem
           /\ \A b \in DOMAIN mem : Store(mem, address, size, x)[b] \in 0 .. ByteBase - 1
<1> SUFFICES ASSUME NEW b \in DOMAIN mem
             PROVE  Store(mem, address, size, x)[b] \in 0 .. ByteBase - 1
  BY DEF Store
<1>1. CASE b \in Addresses(address, size)
  <2> DEFINE d == Power[b - address]
             y == x \div d
  <2>1. b - address \in 0 .. 8
    BY <1>1 DEF Addresses
  <2>2. d \in Nat /\ d > 0
    BY <2>1, Powers
  <2>3. Store(mem, address, size, x)[b] = y % ByteBase
    BY <1>1 DEF Store
  <2> HIDE DEF d
  <2>4. y \in Int
    BY <2>2
  <2> HIDE DEF y
  <2>5. y % ByteBase \in 0 .. ByteBase - 1
    BY <2>4, Bounds
  <2> QED
    BY <2>3, <2>5
<1>2. CASE b \notin Addresses(address, size)
  BY <1>2 DEF Store
<1> QED
  BY <1>1, <1>2

\* An instruction that is no call and no return leaves the links alone.
LEMMA LinksStay ==
    ASSUME Observe, status = "running", InBounds,
           inst.opcode \notin {"INST_CALL", "INST_RET"} \/ (inst.opcode = "INST_CALL" /\ IsNative)
    PROVE  links' = links
<1>1. ~(Executes({"INST_CALL"}) /\ ~IsNative) /\ ~(Executes({"INST_RET"}) /\ links # << >>)
  BY DEF Executes
<1> QED
  BY <1>1, Zenon DEF Observe

-----------------------------------------------------------------------------
(* Frames *)

\* The machine is at an instruction, and where it may go on the frame is what the
\* instruction makes of it.
LEMMA GoesOn ==
    ASSUME MachineInv, status = "running"
    PROVE  /\ InBounds /\ InstructionAt(Code, registers.pc)
           /\ inst.opcode = "INST_RET" => registers.sp = registers.bp
           /\ inst.opcode = "INST_MOV_MR_DISP" /\ inst.op0 = "bp" =>
                 registers.bp - registers.sp + imm >= 0
           /\ \A next \in NextPlaces(Code, registers.pc) :
                 Level(Code, next, registers.bp - registers.sp + GrowthOf(inst))
<1> DEFINE pc == registers.pc
           height == registers.bp - registers.sp
<1>1. /\ Code \in Seq(Words) /\ Balanced(Code)
  BY ImageFacts DEF MachineInv, WellFormed
<1>2. pc \in Places(Code) /\ height >= 0 /\ Heights(Code)[pc + 1] = height
  BY DEF MachineInv, RunningInv, HeightInv, Level, HeightAt
<1>3. registers.sp \in Int /\ registers.bp \in Int /\ height \in Int
  <2>1. registers.sp \in Int /\ registers.bp \in Int
    BY Bounds DEF MachineInv, RegistersInv, RegisterName, Register
  <2> QED
    BY <2>1
<1>4. height # Unreached
  BY <1>2, <1>3 DEF Unreached
<1> HIDE DEF height
<1>5. pc # Len(Code)
  BY <1>1, <1>2, <1>4 DEF Balanced
<1>6. pc \in 0 .. Len(Code) - 1 /\ InstructionAt(Code, pc)
  BY <1>1, <1>2, <1>5 DEF Places
<1>7. /\ Code[pc + 1].opcode = "INST_RET" => Heights(Code)[pc + 1] = 0
      /\ Code[pc + 1].opcode = "INST_MOV_MR_DISP" /\ Code[pc + 1].op0 = "bp" =>
            Heights(Code)[pc + 1] + Code[pc + 2].arg >= 0
      /\ \A next \in NextPlaces(Code, pc) :
            /\ Heights(Code)[next + 1] >= 0
            /\ Heights(Code)[next + 1] = Heights(Code)[pc + 1] + GrowthOf(Code[pc + 1])
  BY <1>1, <1>2, <1>4, <1>6 DEF Balanced
<1>8. InBounds
  BY <1>1, <1>6 DEF InBounds
<1>9. inst.opcode = "INST_RET" => registers.sp = registers.bp
  BY <1>2, <1>3, <1>7 DEF inst, height
<1>10. \A next \in NextPlaces(Code, pc) : Level(Code, next, height + GrowthOf(inst))
  BY <1>2, <1>7 DEF inst, Level, HeightAt
<1>11. inst.opcode = "INST_MOV_MR_DISP" /\ inst.op0 = "bp" => height + imm >= 0
  BY <1>2, <1>7 DEF inst, imm
<1> QED
  BY <1>6, <1>8, <1>9, <1>10, <1>11 DEF height

\* An instruction that goes on with the next one.
LEMMA FallsThrough ==
    ASSUME MachineInv, status = "running", inst.opcode \notin {"INST_RET", "INST_JMP"}
    PROVE  Level(Code, NextPc, registers.bp - registers.sp + GrowthOf(inst))
<1>1. NextPc \in NextPlaces(Code, registers.pc)
  BY DEF NextPlaces, NextPc, inst
<1> QED
  BY <1>1, GoesOn

\* An instruction that leaves the frame as it is.
LEMMA SameFrame ==
    ASSUME MachineInv, status = "running",
           inst.opcode \notin {"INST_RET", "INST_JMP", "INST_PUSH", "INST_POP"},
           inst.opcode = "INST_INCR" => inst.op0 # "sp"
    PROVE  Level(Code, NextPc, registers.bp - registers.sp)
<1>1. GrowthOf(inst) = 0
  BY DEF GrowthOf
<1>2. registers.sp \in Int /\ registers.bp \in Int
  BY Bounds DEF MachineInv, RegistersInv, RegisterName, Register
<1>3. registers.bp - registers.sp + GrowthOf(inst) = registers.bp - registers.sp
  BY <1>1, <1>2
<1> QED
  BY <1>3, FallsThrough

-----------------------------------------------------------------------------
(* Instructions on registers *)

\* An instruction that sets one register, with the frame that the code expects.
LEMMA SetsOne ==
    ASSUME MachineInv, status = "running", InBounds, Observe,
           inst.opcode \notin {"INST_CALL", "INST_RET"},
           NEW reg \in {"a", "b", "c", "d", "sp", "pc"}, NEW x \in Int64, SetRegister(reg, x),
           reg = "sp" => x \in StackBase .. StackTop,
           reg = "pc" => x \in Places(Code),
           Level(Code, IF reg = "pc" THEN x ELSE NextPc,
                 registers.bp - (IF reg = "sp" THEN x ELSE registers.sp))
    PROVE  MachineInv'
<1>1. links' = links
  BY LinksStay
<1>2. NextPc \in Places(Code) /\ NextPc \in Int64
  BY Fetched DEF MachineInv
<1>3. registers \in [RegisterName -> Int64] /\ registers.sp \in StackBase .. StackTop
  BY DEF MachineInv, RegistersInv, RunningInv
<1>4. registers' = [registers EXCEPT !.pc = NextPc, ![reg] = x]
  BY DEF SetRegister
<1> HIDE DEF NextPc
<1>5. /\ registers' \in [RegisterName -> Int64] /\ registers'.bp = registers.bp
      /\ registers'.pc = (IF reg = "pc" THEN x ELSE NextPc)
      /\ registers'.sp = (IF reg = "sp" THEN x ELSE registers.sp)
  BY <1>2, <1>3, <1>4 DEF RegisterName, Register
<1>6. Advances
  BY <1>1, <1>2, <1>3, <1>5 DEF Advances, SetRegister
<1> QED
  BY <1>6, MemoryStays, AdvancesKeeps DEF SetRegister

\* An instruction that sets one register, and none that frames depend on.
LEMMA SetsRegister ==
    ASSUME MachineInv, status = "running", InBounds, Observe,
           inst.opcode \notin {"INST_CALL", "INST_RET", "INST_JMP", "INST_PUSH", "INST_POP"},
           inst.opcode = "INST_INCR" => inst.op0 # "sp",
           NEW reg \in {"a", "b", "c", "d"}, NEW x \in Int64, SetRegister(reg, x)
    PROVE  MachineInv'
<1>1. reg # "sp" /\ reg # "pc" /\ reg \in {"a", "b", "c", "d", "sp", "pc"}
  OBVIOUS
<1>2. Level(Code, NextPc, registers.bp - registers.sp)
  BY SameFrame
<1>3. Level(Code, IF reg = "pc" THEN x ELSE NextPc,
            registers.bp - (IF reg = "sp" THEN x ELSE registers.sp))
  BY <1>1, <1>2
<1> QED
  BY <1>1, <1>3, SetsOne

\* The operands of an instruction.
LEMMA Operands ==
    ASSUME MachineInv, status = "running", InBounds
    PROVE  /\ inst.opcode \in Results => inst.op0 \in {"a", "b", "c", "d"}
           /\ inst.opcode = "INST_INCR" =>
                 inst.op0 \in {"a", "b", "c", "d", "sp"} /\ 0 <= inst.arg /\ inst.arg < 65536
           /\ inst.opcode \in FirstRead => inst.op0 \in Register /\ registers[inst.op0] \in Int64
           /\ inst.opcode \in SecondRead => inst.op1 \in Register /\ registers[inst.op1] \in Int64
           /\ inst.arg \in Int /\ (inst.opcode \in Moves => inst.arg \in {1, 4, 8})
<1>1. inst \in Words /\ WellFormedAt(Pieces, Code, registers.pc)
  BY Fetched DEF MachineInv
<1>2. registers \in [RegisterName -> Int64]
  BY DEF MachineInv, RegistersInv
<1>3. /\ inst.opcode \in Results => inst.op0 \in {"a", "b", "c", "d"}
      /\ inst.opcode = "INST_INCR" => inst.op0 # "bp" /\ 0 <= inst.arg /\ inst.arg < 65536
      /\ inst.opcode \in Moves => inst.arg \in {1, 4, 8}
      /\ inst.opcode \in FirstRead => inst.op0 \in Register
      /\ inst.opcode \in SecondRead => inst.op1 \in Register
  BY <1>1 DEF WellFormedAt, inst
<1>4. "INST_INCR" \in FirstRead
  BY DEF FirstRead
<1> QED
  BY <1>1, <1>2, <1>3, <1>4 DEF Words, RegisterName, Register

\* MOV_RR, LI and DATAPTR.
LEMMA RegisterMoves ==
    ASSUME MachineInv, Observe, MovRR \/ Li \/ DataPtr
    PROVE  MachineInv'
<1>1. CASE MovRR
  <2>1. /\ status = "running" /\ InBounds /\ inst.opcode = "INST_MOV_RR"
        /\ SetRegister(inst.op0, registers[inst.op1])
    BY <1>1 DEF MovRR, Executes
  <2>2. inst.op0 \in {"a", "b", "c", "d"} /\ registers[inst.op1] \in Int64
    BY <2>1, Operands DEF Results, SecondRead
  <2> QED
    BY <2>1, <2>2, SetsRegister
<1>2. CASE Li
  <2>1. status = "running" /\ InBounds /\ inst.opcode = "INST_LI" /\ SetRegister(inst.op0, imm)
    BY <1>2 DEF Li, Executes
  <2>2. WellAimed(Pieces, Code, registers.pc) /\ imm \in Int
    BY <2>1, Fetched DEF MachineInv, Immediates
  <2>3. Word64(imm) = imm
    BY <2>1, <2>2 DEF WellAimed, inst, imm
  <2>4. inst.op0 \in {"a", "b", "c", "d"} /\ imm \in Int64
    BY <2>1, <2>2, <2>3, Operands, Word64Range DEF Results
  <2> QED
    BY <2>1, <2>4, SetsRegister
<1>3. CASE DataPtr
  <2>1. status = "running" /\ InBounds /\ inst.opcode = "INST_DATAPTR" /\ SetRegister(inst.op0, DataBase + imm)
    BY <1>3 DEF DataPtr, Executes
  <2>2. WellAimed(Pieces, Code, registers.pc) /\ imm \in Int
    BY <2>1, Fetched DEF MachineInv, Immediates
  <2>3. Word64(DataBase + imm) = DataBase + imm /\ DataBase + imm \in Int
    BY <2>1, <2>2 DEF WellAimed, inst, imm, DataBase
  <2>4. inst.op0 \in {"a", "b", "c", "d"} /\ DataBase + imm \in Int64
    BY <2>1, <2>3, Operands, Word64Range DEF Results
  <2> QED
    BY <2>1, <2>4, SetsRegister
<1> QED
  BY <1>1, <1>2, <1>3

\* A quotient of numbers is a number.
LEMMA QuotientIsNumber ==
    ASSUME NEW x \in Int, NEW y \in Int, y # 0
    PROVE  Quotient(x, y) \in Int
<1> DEFINE Abs(n) == IF n < 0 THEN - n ELSE n
           u == Abs(x)
           v == Abs(y)
<1>1. u \in Nat /\ v \in Nat /\ v > 0
  OBVIOUS
<1>2. Quotient(x, y) = IF (x < 0) = (y < 0) THEN u \div v ELSE - (u \div v)
  BY DEF Quotient
<1> HIDE DEF u, v
<1>3. u \div v \in Int
  BY <1>1
<1> QED
  BY <1>2, <1>3

\* The operations and comparisons of two registers.
LEMMA Calculations ==
    ASSUME MachineInv, Observe, Compute \/ Compare \/ Divide
    PROVE  MachineInv'
<1> DEFINE x == registers[inst.op0]
           y == registers[inst.op1]
<1>1. status = "running" /\ InBounds /\ inst.opcode \in Operations \cup Comparisons
  BY DEF Compute, Compare, Divide, Executes, Operations
<1>2. inst.op0 \in {"a", "b", "c", "d"} /\ x \in Int64 /\ y \in Int64
  <2>1. inst.opcode \in Results /\ inst.opcode \in FirstRead /\ inst.opcode \in SecondRead
    BY <1>1 DEF Results, FirstRead, SecondRead
  <2> QED
    BY <1>1, <2>1, Operands
<1>3. /\ inst.opcode \notin {"INST_CALL", "INST_RET", "INST_JMP", "INST_PUSH", "INST_POP"}
      /\ inst.opcode # "INST_INCR"
  BY <1>1 DEF Operations, Comparisons
<1>4. x \in Int /\ y \in Int /\ \A c : Bit(c) \in Int64
  <2>1. 0 \in Int64 /\ 1 \in Int64
    BY Bounds DEF Int64
  <2> QED
    BY <1>2, <2>1, Bounds DEF Bit
<1>5. CASE Compute
  <2>1. SetRegister(inst.op0, Computed(x, y)) /\ inst.opcode \in Operations \ {"INST_DIV"}
    BY <1>5 DEF Compute, Executes
  <2> HIDE DEF x, y
  <2>2. Word64(x + y) \in Int64 /\ Word64(x - y) \in Int64 /\ Word64(x * y) \in Int64
    BY <1>4, Word64Range
  <2>3. Computed(x, y) \in {Word64(x + y), Word64(x - y), Word64(x * y),
                            Bit(x # 0 /\ y # 0), Bit(x # 0 \/ y # 0), Bit(y = 0)}
    BY <2>1 DEF Computed, Operations
  <2>4. Computed(x, y) \in Int64
    BY <1>4, <2>2, <2>3
  <2> QED
    BY <1>1, <1>2, <1>3, <2>1, <2>4, SetsRegister
<1>6. CASE Compare
  BY <1>1, <1>2, <1>3, <1>4, <1>6, SetsRegister DEF Compare
<1>7. CASE Divide
  <2>1. y # 0 /\ SetRegister(inst.op0, Word64(Quotient(x, y)))
    BY <1>7 DEF Divide
  <2> HIDE DEF x, y
  <2>2. Word64(Quotient(x, y)) \in Int64
    BY <1>4, <2>1, QuotientIsNumber, Word64Range
  <2> QED
    BY <1>1, <1>2, <1>3, <2>1, <2>2, SetsRegister
<1> QED
  BY <1>5, <1>6, <1>7

\* JMP and JZ.
LEMMA Jumping ==
    ASSUME MachineInv, Observe, Jmp \/ Jz
    PROVE  MachineInv'
<1>1. status = "running" /\ InBounds /\ inst.opcode \in {"INST_JMP", "INST_JZ"}
  BY DEF Jmp, Jz, Executes
<1>2. /\ NextPc \in Places(Code) /\ NextPc \in Int64 /\ registers.pc \in Nat
      /\ WellAimed(Pieces, Code, registers.pc) /\ imm \in Int
  BY <1>1, Fetched DEF MachineInv, Immediates
<1>3. NextPc + imm - 1 \in Places(Code)
  <2>1. NextPc = registers.pc + 2
    BY <1>1 DEF NextPc, SizeOf, Immediates
  <2>2. NextPc + imm - 1 = registers.pc + 1 + imm
    BY <1>2, <2>1
  <2> QED
    BY <1>1, <1>2, <2>2 DEF WellAimed, JumpTarget, inst, imm
<1>4. NextPc + imm - 1 \in Int64
  BY <1>3, ImageFacts, PlacesAreSmall DEF MachineInv
<1>5. PICK x \in {NextPc, NextPc + imm - 1} :
         SetRegister("pc", x) /\ (inst.opcode = "INST_JMP" => x = NextPc + imm - 1)
  BY DEF Jmp, Jz, Executes
<1>6. GrowthOf(inst) = 0
  BY <1>1 DEF GrowthOf
<1>7. x \in NextPlaces(Code, registers.pc)
  <2>1. NextPc + imm - 1 = JumpTarget(Code, registers.pc)
    <3>1. NextPc = registers.pc + 2
      BY <1>1 DEF NextPc, SizeOf, Immediates
    <3>2. NextPc + imm - 1 = registers.pc + 1 + imm
      BY <1>2, <3>1
    <3> QED
      BY <3>2 DEF JumpTarget, imm
  <2>2. CASE inst.opcode = "INST_JMP"
    BY <1>5, <2>1, <2>2 DEF NextPlaces, inst
  <2>3. CASE inst.opcode = "INST_JZ"
    BY <1>5, <2>1, <2>3 DEF NextPlaces, NextPc, inst
  <2> QED
    BY <1>1, <2>2, <2>3
<1>8. Level(Code, x, registers.bp - registers.sp)
  <2>1. Level(Code, x, registers.bp - registers.sp + GrowthOf(inst))
    BY <1>1, <1>7, GoesOn
  <2>2. registers.sp \in Int /\ registers.bp \in Int
    BY Bounds DEF MachineInv, RegistersInv, RegisterName, Register
  <2>3. registers.bp - registers.sp + GrowthOf(inst) = registers.bp - registers.sp
    BY <1>6, <2>2
  <2> QED
    BY <2>1, <2>3
<1>9. x \in Places(Code) /\ x \in Int64
  BY <1>2, <1>3, <1>4, <1>5
<1> QED
  BY <1>1, <1>5, <1>8, <1>9, SetsOne

\* The operand of INCR has two bytes.
LEMMA IncrementRange ==
    ASSUME NEW arg \in Int, 0 <= arg, arg < 65536
    PROVE  /\ IncrementOf(arg) \in Int
           /\ -32768 <= IncrementOf(arg) /\ IncrementOf(arg) < 32640
<1> DEFINE low  == arg % 256
           high == arg \div 256
<1>1. /\ low \in Int /\ 0 <= low /\ low < 256
      /\ high \in Int /\ 0 <= high /\ high < 256
  OBVIOUS
<1>2. IncrementOf(arg) = IF low >= 128 THEN low - 256
                         ELSE (IF high >= 128 THEN high - 256 ELSE high) * 256 + low
  BY DEF IncrementOf
<1> HIDE DEF low, high
<1> QED
  BY <1>1, <1>2

\* A register is wide enough for an increment of the stack pointer, since the stack fits
\* in it.
LEMMA RegistersAreWide == Half(8) >= 32768
<1> DEFINE B == ByteBase
           p(n) == Power[n]
<1>1. /\ p(0) = 1 /\ p(1) = B * p(0) /\ p(2) = B * p(1) /\ p(3) = B * p(2) /\ p(4) = B * p(3)
      /\ p(5) = B * p(4) /\ p(6) = B * p(5) /\ p(7) = B * p(6) /\ p(8) = B * p(7)
      /\ p(0) \in Nat /\ p(1) \in Nat /\ p(2) \in Nat /\ p(3) \in Nat /\ p(4) \in Nat
      /\ p(5) \in Nat /\ p(6) \in Nat /\ p(7) \in Nat /\ p(8) \in Nat
  BY Powers
<1>2. p(8) = 2 * Half(8) /\ Half(8) \in Nat /\ Half(8) > 256
  BY Bounds, MemoryAssumption
<1>3. B \in Nat /\ B > 1 /\ B % 2 = 0
  BY ByteBaseAssumption
<1> HIDE DEF B, p
<1>4. B # 2
  <2> SUFFICES ASSUME B = 2 PROVE FALSE
    OBVIOUS
  <2>1. p(8) = 256
    BY <1>1
  <2> QED
    BY <1>2, <2>1
<1>5. B >= 4
  BY <1>3, <1>4
<1>6. ASSUME NEW c \in Nat, NEW q \in Nat, q >= c PROVE B * q >= 4 * c
  <2>1. PICK k \in Nat : B = k + 4
    <3>1. B - 4 \in Nat /\ B = (B - 4) + 4
      BY <1>3, <1>5
    <3> QED
      BY <3>1
  <2>2. B * q = k * q + 4 * q /\ k * q \in Nat
    BY <2>1
  <2> QED
    BY <1>6, <2>2
<1>7. p(1) >= 4 /\ p(2) >= 16 /\ p(3) >= 64 /\ p(4) >= 256
  <2>1. p(1) >= 4 * 1
    BY <1>1, <1>6
  <2>2. p(2) >= 4 * 4
    BY <1>1, <1>6, <2>1
  <2>3. p(3) >= 4 * 16
    BY <1>1, <1>6, <2>2
  <2>4. p(4) >= 4 * 64
    BY <1>1, <1>6, <2>3
  <2> QED
    BY <2>1, <2>2, <2>3, <2>4
<1>8. p(5) >= 1024 /\ p(6) >= 4096 /\ p(7) >= 16384 /\ p(8) >= 65536
  <2>1. p(5) >= 4 * 256
    BY <1>1, <1>6, <1>7
  <2>2. p(6) >= 4 * 1024
    BY <1>1, <1>6, <2>1
  <2>3. p(7) >= 4 * 4096
    BY <1>1, <1>6, <2>2
  <2>4. p(8) >= 4 * 16384
    BY <1>1, <1>6, <2>3
  <2> QED
    BY <2>1, <2>2, <2>3, <2>4
<1> QED
  BY <1>2, <1>8

\* The stack pointer that INCR gives is the sum itself, when CHECK_STACK accepts it.
LEMMA SumIsKept ==
    ASSUME NEW sp \in StackBase .. StackTop, NEW n \in Int, -32768 <= n, n < 32640,
           CheckStack(Word64(sp + n))
    PROVE  Word64(sp + n) = sp + n
<1> DEFINE h == Half(8)
           x == sp + n
<1>1. h \in Nat /\ h >= 32768 /\ StackBase = 256 /\ StackTop \in Nat /\ StackTop < h
  BY Bounds, RegistersAreWide
<1>2. x \in Int /\ x >= 256 - 32768 /\ x < h + 32640 /\ x = sp + n
  BY <1>1
<1>3. Word64(x) = ((x + h) % (2 * h)) - h
  BY DEF Word64, Signed
<1> HIDE DEF h, x
<1>4. CASE x < h
  <2>1. (x + h) % (2 * h) = x + h
    BY <1>1, <1>2, <1>4
  <2> QED
    BY <1>1, <1>2, <1>3, <2>1
<1>5. CASE x >= h
  <2>1. (x + h) % (2 * h) = x - h
    <3>1. x + h = (2 * h) * 1 + (x - h) /\ x - h \in 0 .. (2 * h) - 1 /\ x + h \in Nat
      BY <1>1, <1>2, <1>5
    <3>2. 2 * h \in Nat /\ 2 * h > 0
      BY <1>1
    <3>3. (x + h) \div (2 * h) = 1
      BY <3>1, <3>2, DivIs
    <3>4. x + h = (2 * h) * ((x + h) \div (2 * h)) + ((x + h) % (2 * h))
      BY <3>1, <3>2, DivMod
    <3> DEFINE m == (x + h) % (2 * h)
    <3>5. m \in Int
      BY <3>1, <3>2
    <3>6. x + h = (2 * h) * 1 + m
      BY <3>3, <3>4
    <3> HIDE DEF m
    <3>7. m = x - h
      BY <1>1, <1>2, <3>5, <3>6
    <3> QED
      BY <3>7 DEF m
  <2>2. Word64(x) < 0
    BY <1>1, <1>2, <1>3, <2>1
  <2>3. Word64(x) >= 256
    BY <1>1, <1>2 DEF CheckStack, x
  <2> QED
    BY <1>1, <1>2, <1>3, <2>1, <2>2, <2>3
<1> QED
  BY <1>1, <1>2, <1>4, <1>5 DEF x

\* INCR: the stack pointer is tested, the other registers are cut.
LEMMA Incrementing ==
    ASSUME MachineInv, Observe, Incr
    PROVE  MachineInv'
<1>1. /\ status = "running" /\ InBounds /\ inst.opcode = "INST_INCR"
      /\ inst.op0 = "sp" => CheckStack(Incremented)
      /\ SetRegister(inst.op0, Incremented)
  BY DEF Incr, Executes
<1>2. /\ inst.op0 \in {"a", "b", "c", "d", "sp"} /\ registers[inst.op0] \in Int64
      /\ inst.arg \in Int /\ 0 <= inst.arg /\ inst.arg < 65536
  BY <1>1, Operands DEF FirstRead
<1>3. /\ IncrementOf(inst.arg) \in Int
      /\ -32768 <= IncrementOf(inst.arg) /\ IncrementOf(inst.arg) < 32640
  BY <1>2, IncrementRange
<1>4. Incremented \in Int64
  <2>1. registers[inst.op0] \in Int
    <3>1. registers[inst.op0] \in Int64
      BY <1>2
    <3> QED
      BY <3>1, Bounds
  <2>2. registers[inst.op0] + IncrementOf(inst.arg) \in Int
    BY <1>3, <2>1
  <2> QED
    BY <2>2, Word64Range DEF Incremented
<1>5. CASE inst.op0 = "sp"
  <2>1. registers.sp \in StackBase .. StackTop /\ registers.sp \in Int /\ registers.bp \in Int
    BY <1>1, Bounds DEF MachineInv, RunningInv, RegistersInv, RegisterName, Register
  <2>2. Incremented = registers.sp + IncrementOf(inst.arg)
    BY <1>1, <1>3, <1>5, <2>1, SumIsKept DEF Incremented
  <2>3. GrowthOf(inst) = - IncrementOf(inst.arg)
    BY <1>1, <1>5 DEF GrowthOf
  <2>4. registers.bp - registers.sp + GrowthOf(inst) = registers.bp - Incremented
    BY <1>3, <2>1, <2>2, <2>3
  <2>5. Level(Code, NextPc, registers.bp - Incremented)
    BY <1>1, <2>4, FallsThrough
  <2>6. Incremented \in StackBase .. StackTop
    BY <1>1, <1>4, <1>5, Bounds DEF CheckStack
  <2> HIDE DEF Incremented
  <2> QED
    BY <1>1, <1>4, <1>5, <2>5, <2>6, SetsOne
<1>6. CASE inst.op0 # "sp"
  <2> HIDE DEF Incremented
  <2> QED
    BY <1>1, <1>2, <1>4, <1>6, SetsRegister
<1> QED
  BY <1>5, <1>6

-----------------------------------------------------------------------------
(* Instructions on memory *)

\* A number in memory that is mapped.
LEMMA LoadsNumber ==
    ASSUME MachineInv, NEW address \in Int, NEW size \in Int,
           Addresses(address, size) \subseteq DOMAIN memory
    PROVE  Load(address, size) \in Nat
  BY LoadIs, LoadIsNumber DEF MachineInv, MemoryInv

\* An instruction with an operand in memory.
LEMMA DisplacementIsNumber ==
    ASSUME MachineInv, status = "running", InBounds
    PROVE  Displacement \in Int
  BY Fetched DEF MachineInv, Displacement, Immediates

\* MOV_RM.
LEMMA Loading ==
    ASSUME MachineInv, Observe, MovRM
    PROVE  MachineInv'
<1> DEFINE address == registers[inst.op1] + Displacement
           x == Word64(Load(address, inst.arg))
<1>1. /\ status = "running" /\ InBounds /\ inst.opcode \in {"INST_MOV_RM", "INST_MOV_RM_DISP"}
      /\ Addresses(address, inst.arg) \subseteq DOMAIN memory /\ SetRegister(inst.op0, x)
  BY DEF MovRM, Executes, Raw
<1>2. inst.op0 \in {"a", "b", "c", "d"} /\ registers[inst.op1] \in Int64 /\ inst.arg \in Int
  BY <1>1, Operands DEF Results, SecondRead
<1>3. address \in Int
  <2>1. registers[inst.op1] \in Int
    BY <1>2, Bounds
  <2>2. Displacement \in Int
    BY <1>1, DisplacementIsNumber
  <2> QED
    BY <2>1, <2>2
<1> HIDE DEF address
<1>4. x \in Int64
  BY <1>1, <1>2, <1>3, LoadsNumber, Word64Range
<1> HIDE DEF x
<1> QED
  BY <1>1, <1>2, <1>4, SetsRegister

\* An instruction that goes on and stores to memory.
LEMMA StoresAndGoesOn ==
    ASSUME MachineInv, status = "running", InBounds, links' = links,
           inst.opcode \in {"INST_MOV_MR", "INST_MOV_MR_DISP", "INST_MEMZERO", "INST_CALL"},
           UNCHANGED <<program, piece_index, status>>,
           MemoryInv', BlocksInv', \A b \in LinkPlaces : memory'[b] = memory[b],
           registers' = [registers EXCEPT !.pc = NextPc]
    PROVE  MachineInv'
<1>1. NextPc \in Places(Code) /\ NextPc \in Int64
  BY Fetched DEF MachineInv
<1>2. registers \in [RegisterName -> Int64] /\ registers.sp \in StackBase .. StackTop
  BY DEF MachineInv, RegistersInv, RunningInv
<1>3. Level(Code, NextPc, registers.bp - registers.sp)
  BY SameFrame
<1> HIDE DEF NextPc
<1>4. Advances
  BY <1>1, <1>2, <1>3 DEF Advances, RegisterName, Register
<1> QED
  BY <1>4, AdvancesKeeps

\* A link is in the stack.
LEMMA LinkInStack ==
    ASSUME LinksInv, NEW k \in DOMAIN links
    PROVE  links[k].place \in StackBase .. StackTop - 16 /\ links[k].place \in Int
<1>1. LinkInv(k)
  BY DEF LinksInv
<1>2. links[k].place \in StackBase .. StackTop - 16
  BY <1>1 DEF LinkInv
<1> QED
  BY <1>2, Bounds

\* The links are in the stack, from the base pointer on.
LEMMA LinksAreAbove ==
    ASSUME MachineInv, status = "running", NEW b \in LinkPlaces
    PROVE  /\ b \in Addresses(StackBase, StackMax) /\ b \in DOMAIN memory
           /\ b >= registers.bp /\ b >= registers.sp
<1>1. PICK k \in DOMAIN links : b \in Addresses(links[k].place, 16)
  BY DEF LinkPlaces
<1>2. /\ LinksInv /\ registers.sp \in Int /\ registers.bp \in Int
      /\ registers.bp - registers.sp >= 0
  BY Bounds DEF MachineInv, RunningInv, RegistersInv, RegisterName, Register, HeightInv, Level
<1>3. links[k].place \in StackBase .. StackTop - 16
  BY <1>2, LinkInStack
<1> DEFINE n == Len(links)
<1>4. n \in DOMAIN links /\ k <= n /\ n \in Nat /\ k \in Nat /\ links # << >>
  <2>1. links \in Seq([place : Int, pc : Int, piece_index : Int, bp : Int])
    BY <1>2 DEF LinksInv
  <2>2. n \in Nat /\ DOMAIN links = 1 .. n /\ k \in 1 .. n
    BY <2>1
  <2> HIDE DEF n
  <2> QED
    BY <2>2
<1>5. links[n].place <= links[k].place
  <2>1. links[n].place \in Int /\ links[k].place \in Int
    BY <1>2, <1>4, LinkInStack
  <2>2. k < n => links[n].place + 16 <= links[k].place
    BY <1>2, <1>4 DEF LinksInv
  <2> HIDE DEF n
  <2> QED
    BY <1>4, <2>1, <2>2
<1>6. registers.bp = links[n].place
  BY <1>2, <1>4 DEF LinksInv
<1>7. b \in Addresses(StackBase, StackMax) /\ b >= registers.bp /\ b >= registers.sp
  <2>1. links[n].place \in StackBase .. StackTop - 16
    BY <1>2, <1>4, LinkInStack
  <2> HIDE DEF n
  <2> QED
    BY <1>1, <1>2, <1>3, <1>5, <1>6, <2>1, Bounds DEF Addresses
<1> QED
  BY <1>7 DEF MachineInv, MemoryInv

\* MOV_MR: a store to the frame is below the base pointer, and by PointersSpareLinks one
\* through a pointer hits no link.
LEMMA Storing ==
    ASSUME MachineInv, Observe, PointersSpareLinks, MovMR
    PROVE  MachineInv'
<1> DEFINE address == registers[inst.op0] + Displacement
           x == registers[inst.op1]
<1>1. /\ status = "running" /\ InBounds /\ inst.opcode \in {"INST_MOV_MR", "INST_MOV_MR_DISP"}
      /\ memory' = Store(memory, address, inst.arg, x)
      /\ registers' = [registers EXCEPT !.pc = NextPc]
      /\ UNCHANGED <<program, piece_index, allocations, status>>
  BY DEF MovMR, Executes
<1>3. registers[inst.op0] \in Int64 /\ x \in Int64 /\ inst.arg \in {1, 4, 8}
  BY <1>1, Operands DEF FirstRead, SecondRead, Moves
<1>4. address \in Int /\ x \in Int
  <2>1. registers[inst.op0] \in Int /\ x \in Int /\ Displacement \in Int
    BY <1>1, <1>3, Bounds, DisplacementIsNumber
  <2> QED
    BY <2>1
<1>2. LinkPlaces \cap Addresses(address, inst.arg) = {}
  <2>1. CASE inst.op0 # "bp"
    <3>1. PointerStores = Addresses(address, inst.arg)
      BY <1>1, <2>1 DEF PointerStores, Executes
    <3> QED
      BY <1>1, <3>1 DEF PointersSpareLinks
  <2>2. CASE inst.op0 = "bp"
    <3>1. WellFormedAt(Pieces, Code, registers.pc) /\ inst.opcode = "INST_MOV_MR_DISP"
      BY <1>1, <2>2, Fetched DEF MachineInv, WellFormedAt, inst
    <3>2. WellAimed(Pieces, Code, registers.pc) /\ imm \in Int
      BY <1>1, <3>1, Fetched DEF MachineInv, Immediates
    <3>3. imm + inst.arg <= 0
      BY <2>2, <3>1, <3>2 DEF WellAimed, inst, imm
    <3>4. address = registers.bp + imm /\ registers.bp \in Int
      BY <2>2, <3>1, Bounds DEF Displacement, MachineInv, RegistersInv, RegisterName, Register
    <3>5. ASSUME NEW b \in LinkPlaces, b \in Addresses(address, inst.arg) PROVE FALSE
      <4>1. b >= registers.bp
        BY <1>1, LinksAreAbove
      <4>2. b \in Int /\ b <= address + inst.arg - 1
        BY <1>4, <3>5 DEF Addresses
      <4> HIDE DEF address
      <4> QED
        BY <1>3, <3>2, <3>3, <3>4, <4>1, <4>2
    <3> QED
      BY <3>5
  <2> QED
    BY <2>1, <2>2
<1> HIDE DEF address, x
<1>5. MemoryInv' /\ BlocksInv'
  <2>1. \A b \in DOMAIN memory : memory[b] \in 0 .. ByteBase - 1
    BY DEF MachineInv, MemoryInv
  <2>2. inst.arg \in Int /\ inst.arg <= 8
    BY <1>3
  <2>3. DOMAIN memory' = DOMAIN memory /\ \A b \in DOMAIN memory : memory'[b] \in 0 .. ByteBase - 1
    BY <1>1, <1>4, <2>1, <2>2, StoreIsBytes
  <2> QED
    BY <1>1, <2>3, BytesStored
<1>6. \A b \in LinkPlaces : memory'[b] = memory[b]
  <2> SUFFICES ASSUME NEW b \in LinkPlaces PROVE memory'[b] = memory[b]
    OBVIOUS
  <2>1. b \in DOMAIN memory /\ b \notin Addresses(address, inst.arg)
    BY <1>1, <1>2, LinksAreAbove
  <2> QED
    BY <1>1, <2>1, StoreLeaves
<1>7. links' = links
  BY <1>1, LinksStay
<1> QED
  BY <1>1, <1>5, <1>6, <1>7, StoresAndGoesOn

\* MEMZERO: by PointersSpareLinks it hits no link.
LEMMA Zeroing ==
    ASSUME MachineInv, Observe, PointersSpareLinks, MemZero
    PROVE  MachineInv'
<1> DEFINE address == registers[inst.op0]
           size    == registers[inst.op1]
<1>1. /\ status = "running" /\ InBounds /\ inst.opcode = "INST_MEMZERO"
      /\ Addresses(address, size) \subseteq DOMAIN memory
      /\ memory' = Join(memory, Filled(Addresses(address, size), 0))
      /\ registers' = [registers EXCEPT !.pc = NextPc]
      /\ UNCHANGED <<program, piece_index, allocations, status>>
  BY DEF MemZero, Executes, Raw
<1>2. PointerStores = Addresses(address, size)
  BY <1>1 DEF PointerStores, Executes
<1> HIDE DEF address, size
<1>5. MemoryInv' /\ BlocksInv'
  <2>1. \A b \in DOMAIN memory : memory[b] \in 0 .. ByteBase - 1
    BY DEF MachineInv, MemoryInv
  <2>2. 0 \in 0 .. ByteBase - 1
    BY Bounds
  <2>3. DOMAIN memory' = DOMAIN memory /\ \A b \in DOMAIN memory : memory'[b] \in 0 .. ByteBase - 1
    BY <1>1, <2>1, <2>2 DEF Join, Filled
  <2> QED
    BY <1>1, <2>3, BytesStored
<1>6. \A b \in LinkPlaces : memory'[b] = memory[b]
  <2> SUFFICES ASSUME NEW b \in LinkPlaces PROVE memory'[b] = memory[b]
    OBVIOUS
  <2>1. b \in DOMAIN memory /\ b \notin Addresses(address, size)
    BY <1>1, <1>2, LinksAreAbove DEF PointersSpareLinks
  <2> QED
    BY <1>1, <2>1 DEF Join, Filled
<1>7. links' = links
  BY <1>1, LinksStay
<1> QED
  BY <1>1, <1>5, <1>6, <1>7, StoresAndGoesOn

\* What is stored below the stack pointer changes no link.
LEMMA BelowLinks ==
    ASSUME MachineInv, status = "running", NEW address \in Int, NEW size \in Int,
           address + size <= registers.sp, NEW x
    PROVE  \A b \in LinkPlaces : Store(memory, address, size, x)[b] = memory[b]
<1> SUFFICES ASSUME NEW b \in LinkPlaces
             PROVE  Store(memory, address, size, x)[b] = memory[b]
  OBVIOUS
<1>1. b \in Addresses(StackBase, StackMax) /\ b >= registers.sp /\ b \in DOMAIN memory
  BY LinksAreAbove
<1>2. registers.sp \in Int
  BY Bounds DEF MachineInv, RunningInv
<1>3. b \notin Addresses(address, size)
  BY <1>1, <1>2, Bounds DEF Addresses
<1> QED
  BY <1>1, <1>3, StoreLeaves

\* PUSH stores below the stack pointer, where no link is.
LEMMA Pushing ==
    ASSUME MachineInv, Observe, Push
    PROVE  MachineInv'
<1> DEFINE sp == registers.sp - 8
           x == registers[inst.op0]
<1>1. /\ status = "running" /\ InBounds /\ inst.opcode = "INST_PUSH" /\ CheckStack(sp)
      /\ memory' = Store(memory, sp, 8, x)
      /\ registers' = [registers EXCEPT !.pc = NextPc, !.sp = sp]
      /\ UNCHANGED <<program, piece_index, allocations, status>>
  BY DEF Push, Executes
<1>2. registers.sp \in StackBase .. StackTop
  BY <1>1 DEF MachineInv, RunningInv
<1>3. sp \in Int /\ sp \in StackBase .. StackTop /\ sp + 8 <= registers.sp
  BY <1>1, <1>2, Bounds DEF CheckStack
<1>4. x \in Int
  BY <1>1, Operands, Bounds DEF FirstRead
<1> HIDE DEF sp, x
<1>5. MemoryInv' /\ BlocksInv'
  <2>1. \A b \in DOMAIN memory : memory[b] \in 0 .. ByteBase - 1
    BY DEF MachineInv, MemoryInv
  <2> DEFINE stored == Store(memory, sp, 8, x)
  <2>2. DOMAIN stored = DOMAIN memory /\ \A b \in DOMAIN memory : stored[b] \in 0 .. ByteBase - 1
    <3>1. 8 \in Int /\ 8 <= 8
      OBVIOUS
    <3> QED
      BY <1>3, <1>4, <2>1, <3>1, StoreIsBytes, Zenon
  <2> QED
    BY <1>1, <2>2, BytesStored
<1>6. \A b \in LinkPlaces : memory'[b] = memory[b]
  BY <1>1, <1>3, BelowLinks
<1>7. links' = links
  BY <1>1, LinksStay
<1>8. Level(Code, NextPc, registers.bp - sp)
  <2>1. registers.bp - registers.sp + GrowthOf(inst) = registers.bp - sp
    <3>1. GrowthOf(inst) = 8
      BY <1>1 DEF GrowthOf
    <3>2. registers.sp \in Int /\ registers.bp \in Int
      BY Bounds DEF MachineInv, RegistersInv, RegisterName, Register
    <3> QED
      BY <3>1, <3>2 DEF sp
  <2> QED
    BY <1>1, <2>1, FallsThrough
<1>9. NextPc \in Places(Code) /\ NextPc \in Int64
  BY <1>1, Fetched DEF MachineInv
<1>10. registers \in [RegisterName -> Int64] /\ sp \in Int64
  BY <1>3, Bounds DEF MachineInv, RegistersInv, Int64
<1> HIDE DEF NextPc
<1>11. Advances
  BY <1>1, <1>3, <1>7, <1>8, <1>9, <1>10 DEF Advances, RegisterName, Register
<1> QED
  BY <1>5, <1>6, <1>11, AdvancesKeeps

\* POP.
LEMMA Popping ==
    ASSUME MachineInv, Observe, Pop
    PROVE  MachineInv'
<1> DEFINE x == Word64(Load(registers.sp, 8))
<1>1. /\ status = "running" /\ InBounds /\ inst.opcode = "INST_POP" /\ CheckStack(registers.sp + 8)
      /\ registers' = [registers EXCEPT !.pc = NextPc, !.sp = @ + 8, ![inst.op0] = x]
      /\ UNCHANGED <<program, piece_index, memory, allocations, status>>
  BY DEF Pop, Executes
<1>2. registers.sp \in StackBase .. StackTop /\ registers \in [RegisterName -> Int64]
  BY <1>1 DEF MachineInv, RunningInv, RegistersInv
<1>3. registers.sp \in Int /\ registers.sp + 8 \in StackBase .. StackTop /\ registers.sp + 8 \in Int64
  BY <1>1, <1>2, Bounds DEF CheckStack, Int64
<1>4. x \in Int64
  <2>1. Addresses(registers.sp, 8) \subseteq Addresses(StackBase, StackMax)
    BY <1>2, <1>3, Bounds DEF Addresses
  <2>2. Addresses(registers.sp, 8) \subseteq DOMAIN memory
    BY <2>1 DEF MachineInv, MemoryInv
  <2>3. Load(registers.sp, 8) \in Nat
    BY <1>3, <2>2, LoadsNumber
  <2> QED
    BY <2>3, Word64Range
<1>5. NextPc \in Places(Code) /\ NextPc \in Int64
  BY <1>1, Fetched DEF MachineInv
<1>6. inst.op0 \in {"a", "b", "c", "d"}
  BY <1>1, Operands DEF Results
<1>7. links' = links
  BY <1>1, LinksStay
<1>8. Level(Code, NextPc, registers.bp - (registers.sp + 8))
  <2>1. registers.bp - registers.sp + GrowthOf(inst) = registers.bp - (registers.sp + 8)
    <3>1. GrowthOf(inst) = -8
      BY <1>1 DEF GrowthOf
    <3>2. registers.sp \in Int /\ registers.bp \in Int
      BY Bounds DEF MachineInv, RegistersInv, RegisterName, Register
    <3> QED
      BY <3>1, <3>2
  <2> QED
    BY <1>1, <2>1, FallsThrough
<1> HIDE DEF x, NextPc
<1>9. Advances
  BY <1>1, <1>2, <1>3, <1>4, <1>5, <1>6, <1>7, <1>8 DEF Advances, RegisterName, Register
<1> QED
  BY <1>1, <1>9, MemoryStays, AdvancesKeeps

-----------------------------------------------------------------------------
(* Calls *)

\* What an address has is not changed by a store elsewhere.
LEMMA HoldsStays ==
    ASSUME NEW mem, NEW address \in Int, NEW size \in Nat, NEW x, Holds(mem, address, size, x),
           NEW place \in Int, NEW width \in Nat, NEW y,
           place + width <= address, Addresses(address, size) \subseteq DOMAIN mem
    PROVE  Holds(Store(mem, place, width, y), address, size, x)
<1> SUFFICES ASSUME NEW j \in 0 .. size - 1
             PROVE  Store(mem, place, width, y)[address + j] = Digit(x, j)
  BY DEF Holds
<1>1. address + j \in Addresses(address, size) /\ address + j \notin Addresses(place, width)
  BY DEF Addresses
<1>2. Store(mem, place, width, y)[address + j] = mem[address + j]
  BY <1>1, StoreLeaves
<1> QED
  BY <1>2 DEF Holds

\* The link that a call stores is the one that a return will load.
LEMMA LinkIsStored ==
    ASSUME MachineInv, NEW sp \in Int, Addresses(sp - 16, 16) \subseteq DOMAIN memory,
           NextPc \in Nat, NextPc < Power[4], piece_index \in Nat, piece_index < Power[4],
           registers.bp \in Nat, registers.bp < Power[8]
    PROVE  /\ DOMAIN LinkedMemory(sp) = DOMAIN memory
           /\ \A b \in DOMAIN memory : LinkedMemory(sp)[b] \in 0 .. ByteBase - 1
           /\ \A b \in DOMAIN memory \ Addresses(sp - 16, 16) : LinkedMemory(sp)[b] = memory[b]
           /\ LoadFrom(LinkedMemory(sp), sp - 16, 8) = registers.bp
           /\ LoadFrom(LinkedMemory(sp), (sp - 16) + 8, 4) = piece_index
           /\ LoadFrom(LinkedMemory(sp), (sp - 16) + 12, 4) = NextPc
<1> DEFINE pc == NextPc
           bp == registers.bp
           m1 == Store(memory, sp - 4, 4, pc)
           m2 == Store(m1, sp - 8, 4, piece_index)
           m3 == Store(m2, sp - 16, 8, bp)
<1>1. LinkedMemory(sp) = m3 /\ pc \in Nat /\ bp \in Nat /\ pc < Power[4] /\ bp < Power[8]
  BY DEF LinkedMemory
<1> HIDE DEF pc, bp
<1>2. /\ 8 \in Int /\ 8 <= 8 /\ 4 \in Int /\ 4 <= 8 /\ 4 \in Nat /\ 8 \in Nat /\ 4 \in {4, 8} /\ 8 \in {4, 8}
      /\ sp - 4 \in Int /\ sp - 8 \in Int /\ sp - 16 \in Int
      /\ piece_index \in Int /\ pc \in Int /\ bp \in Int
  BY <1>1
<1>3. \A b \in DOMAIN memory : memory[b] \in 0 .. ByteBase - 1
  BY DEF MachineInv, MemoryInv
<1>4. DOMAIN m1 = DOMAIN memory /\ \A b \in DOMAIN memory : m1[b] \in 0 .. ByteBase - 1
  BY <1>2, <1>3, StoreIsBytes, Zenon
<1> HIDE DEF m1
<1>5. DOMAIN m2 = DOMAIN memory /\ \A b \in DOMAIN memory : m2[b] \in 0 .. ByteBase - 1
  <2>1. DOMAIN m2 = DOMAIN m1 /\ \A b \in DOMAIN m1 : m2[b] \in 0 .. ByteBase - 1
    BY <1>2, <1>4, StoreIsBytes, Zenon
  <2> QED
    BY <1>4, <2>1
<1> HIDE DEF m2
<1>6. DOMAIN m3 = DOMAIN memory /\ \A b \in DOMAIN memory : m3[b] \in 0 .. ByteBase - 1
  <2>1. DOMAIN m3 = DOMAIN m2 /\ \A b \in DOMAIN m2 : m3[b] \in 0 .. ByteBase - 1
    BY <1>2, <1>5, StoreIsBytes, Zenon
  <2> QED
    BY <1>5, <2>1
<1> HIDE DEF m3
<1>7. /\ Addresses(sp - 4, 4) \subseteq DOMAIN memory
      /\ Addresses(sp - 8, 4) \subseteq DOMAIN memory
      /\ Addresses(sp - 16, 8) \subseteq DOMAIN memory
  <2>1. /\ Addresses(sp - 4, 4) \subseteq Addresses(sp - 16, 16)
        /\ Addresses(sp - 8, 4) \subseteq Addresses(sp - 16, 16)
        /\ Addresses(sp - 16, 8) \subseteq Addresses(sp - 16, 16)
    BY DEF Addresses
  <2> QED
    BY <2>1
<1>8. Holds(m3, sp - 4, 4, pc)
  <2>1. Holds(m1, sp - 4, 4, pc)
    BY <1>2, <1>7, StoreHolds, Zenon DEF m1
  <2>2. (sp - 8) + 4 <= sp - 4 /\ (sp - 16) + 8 <= sp - 4
    OBVIOUS
  <2>3. Holds(m2, sp - 4, 4, pc)
    BY <1>2, <1>4, <1>7, <2>1, <2>2, HoldsStays, Zenon DEF m2
  <2> QED
    BY <1>2, <1>5, <1>7, <2>2, <2>3, HoldsStays, Zenon DEF m3
<1>9. Holds(m3, sp - 8, 4, piece_index)
  <2>1. Holds(m2, sp - 8, 4, piece_index)
    BY <1>2, <1>4, <1>7, StoreHolds, Zenon DEF m2
  <2>2. (sp - 16) + 8 <= sp - 8
    OBVIOUS
  <2> QED
    BY <1>2, <1>5, <1>7, <2>1, <2>2, HoldsStays, Zenon DEF m3
<1>10. Holds(m3, sp - 16, 8, bp)
  BY <1>2, <1>5, <1>7, StoreHolds, Zenon DEF m3
<1>11. ASSUME NEW b \in DOMAIN memory \ Addresses(sp - 16, 16) PROVE m3[b] = memory[b]
  <2>1. b \notin Addresses(sp - 16, 8) /\ b \notin Addresses(sp - 8, 4) /\ b \notin Addresses(sp - 4, 4)
    BY <1>11 DEF Addresses
  <2> QED
    BY <1>4, <1>5, <1>11, <2>1, StoreLeaves DEF m1, m2, m3
<1>12. /\ LoadFrom(m3, sp - 16, 8) = bp /\ LoadFrom(m3, sp - 8, 4) = piece_index
       /\ LoadFrom(m3, sp - 4, 4) = pc
  BY <1>1, <1>2, <1>8, <1>9, <1>10, LoadsWhatIsHeld, Zenon
<1>13. (sp - 16) + 8 = sp - 8 /\ (sp - 16) + 12 = sp - 4
  OBVIOUS
<1> QED
  BY <1>1, <1>6, <1>11, <1>12, <1>13 DEF pc, bp

\* The base pointer is in the stack.
LEMMA BpInStack ==
    ASSUME LinksInv
    PROVE  registers.bp \in StackBase .. StackTop
<1> DEFINE n == Len(links)
<1>1. /\ links \in Seq([place : Int, pc : Int, piece_index : Int, bp : Int])
      /\ registers.bp = IF links = << >> THEN StackTop ELSE links[n].place
      /\ \A k \in DOMAIN links : LinkInv(k)
  BY DEF LinksInv
<1>2. CASE links = << >>
  BY <1>1, <1>2, Bounds
<1>3. CASE links # << >>
  <2>1. n \in DOMAIN links
    BY <1>1, <1>3
  <2> HIDE DEF n
  <2>2. links[n].place \in StackBase .. StackTop - 16
    BY <1>1, <2>1 DEF LinkInv
  <2>3. registers.bp = links[n].place
    BY <1>1, <1>3
  <2> QED
    BY <2>2, <2>3, Bounds
<1> QED
  BY <1>2, <1>3

\* CALL: the new link is below the others, and a return would find what it says.
LEMMA Calling ==
    ASSUME MachineInv, Observe, Call
    PROVE  MachineInv'
<1> DEFINE sp == registers.sp
<1>1. /\ status = "running" /\ InBounds /\ inst.opcode = "INST_CALL" /\ ~IsNative
      /\ CheckStack(sp - 16) /\ memory' = LinkedMemory(sp)
      /\ registers' = [registers EXCEPT !.pc = 0, !.sp = sp - 16, !.bp = sp - 16]
      /\ piece_index' = imm - 1 /\ UNCHANGED <<program, allocations, status>>
  BY DEF Call, Executes, Callee
<1>2. links' = Append(links, Link)
  <2>1. Executes({"INST_CALL"}) /\ ~IsNative
    BY <1>1 DEF Executes
  <2>2. ~(Executes({"INST_RET"}) /\ links # << >>)
    BY <1>1 DEF Executes
  <2> QED
    BY <2>1, <2>2 DEF Observe
<1>3. /\ sp \in StackBase .. StackTop /\ LinksInv /\ sp <= registers.bp
      /\ RegistersInv /\ registers \in [RegisterName -> Int64]
  <2>1. sp \in Int /\ registers.bp \in Int /\ registers.bp - sp >= 0
    BY Bounds DEF MachineInv, RegistersInv, RegisterName, Register, HeightInv, Level
  <2> QED
    BY <1>1, <2>1 DEF MachineInv, RunningInv, RegistersInv
<1>4. sp \in Int /\ sp - 16 >= StackBase /\ sp <= StackTop /\ sp - 16 \in Int64
  BY <1>1, <1>3, Bounds DEF CheckStack, Int64
<1>5. imm \in 1 .. Len(Pieces)
  <2>1. WellAimed(Pieces, Code, registers.pc) /\ imm \in Int
    BY <1>1, Fetched DEF MachineInv, Immediates
  <2>2. imm \in (-6 .. -1) \cup (1 .. Len(Pieces))
    BY <1>1, <2>1 DEF WellAimed, inst, imm
  <2> QED
    BY <1>1, <2>1, <2>2 DEF IsNative
<1>6. /\ Pieces \in Seq(Seq(Words)) /\ Len(Pieces) < Half(4) /\ Len(Pieces) \in Nat
      /\ \A k \in DOMAIN Pieces : WellFormed(Pieces, Pieces[k])
      /\ piece_index + 1 \in DOMAIN Pieces /\ Code = Pieces[piece_index + 1]
  BY <1>3, ImageFacts
<1>7. /\ NextPc \in Places(Code) /\ NextPc \in Nat /\ NextPc < Half(4)
  BY <1>1, <1>3, <1>6, Fetched, PlacesAreSmall DEF MachineInv
<1>8. registers.bp \in StackBase .. StackTop
  BY <1>3, BpInStack
<1>9. piece_index \in 0 .. Len(Pieces) - 1
  BY <1>3 DEF RegistersInv
<1>10. Addresses(sp - 16, 16) \subseteq Addresses(StackBase, StackMax)
  BY <1>4, Bounds DEF Addresses
<1>11. /\ DOMAIN memory' = DOMAIN memory
       /\ \A b \in DOMAIN memory : memory'[b] \in 0 .. ByteBase - 1
       /\ \A b \in DOMAIN memory \ Addresses(sp - 16, 16) : memory'[b] = memory[b]
       /\ LoadFrom(memory', sp - 16, 8) = registers.bp
       /\ LoadFrom(memory', (sp - 16) + 8, 4) = piece_index
       /\ LoadFrom(memory', (sp - 16) + 12, 4) = NextPc
  <2>1. Addresses(sp - 16, 16) \subseteq DOMAIN memory
    BY <1>10 DEF MachineInv, MemoryInv
  <2>2. NextPc < Power[4] /\ piece_index \in Nat /\ piece_index < Power[4]
    BY <1>6, <1>7, <1>9, Bounds
  <2>3. registers.bp \in Nat /\ registers.bp < Power[8]
    BY <1>8, Bounds
  <2> HIDE DEF sp
  <2> QED
    BY <1>1, <1>4, <1>7, <2>1, <2>2, <2>3, LinkIsStored
<1>12. MemoryInv' /\ BlocksInv'
  BY <1>1, <1>11, BytesStored
<1>13. RegistersInv'
  <2>1. piece_index' \in 0 .. Len(Pieces) - 1 /\ Pieces' = Pieces
    BY <1>1, <1>5, <1>6 DEF Pieces
  <2>2. 0 \in Int64
    BY Bounds DEF Int64
  <2>3. registers' \in [RegisterName -> Int64]
    BY <1>1, <1>3, <1>4, <2>2
  <2> QED
    BY <1>1, <1>3, <2>1, <2>3 DEF RegistersInv, ImageInv
<1>14. registers'.pc = 0 /\ registers'.sp = sp - 16 /\ registers'.bp = sp - 16
  BY <1>1, <1>3 DEF RegisterName, Register
<1>15. registers'.pc \in Places(Code')
  <2>1. Code' = Pieces[imm]
    BY <1>1, <1>5 DEF Code, Pieces
  <2>2. 0 \in Places(Pieces[imm])
    BY <1>5, <1>6 DEF WellFormed
  <2> QED
    BY <1>14, <2>1, <2>2
<1>n. PICK n \in Nat : n = Len(links)
  <2>1. links \in Seq([place : Int, pc : Int, piece_index : Int, bp : Int])
    BY <1>3 DEF LinksInv
  <2> QED
    BY <2>1
<1>16. /\ n \in Nat /\ DOMAIN links = 1 .. n /\ DOMAIN links' = 1 .. n + 1 /\ Len(links') = n + 1
       /\ links'[n + 1] = Link /\ (\A k \in 1 .. n : links'[k] = links[k]) /\ links' # << >>
       /\ links' \in Seq([place : Int, pc : Int, piece_index : Int, bp : Int])
       /\ \A k \in 1 .. n : links[k].place \in Int
       /\ (links = << >>) = (n = 0)
  <2>1. links \in Seq([place : Int, pc : Int, piece_index : Int, bp : Int])
    BY <1>3 DEF LinksInv
  <2>2. Link \in [place : Int, pc : Int, piece_index : Int, bp : Int]
    <3>1. /\ sp - 16 \in Int /\ NextPc \in Int /\ piece_index \in Int /\ registers.bp \in Int
      BY <1>4, <1>7, <1>8, <1>9, Bounds
    <3> QED
      BY <3>1 DEF Link
  <2>3. links' = Append(links, Link)
    BY <1>2
  <2> HIDE DEF Link
  <2>4. /\ links' \in Seq([place : Int, pc : Int, piece_index : Int, bp : Int])
        /\ n \in Nat /\ DOMAIN links = 1 .. n
    BY <1>n, <2>1, <2>2, <2>3
  <2>5. DOMAIN links' = 1 .. n + 1 /\ Len(links') = n + 1 /\ links'[n + 1] = Link
    BY <1>n, <2>1, <2>2, <2>3
  <2>6. \A k \in 1 .. n : links'[k] = links[k]
    BY <1>n, <2>1, <2>2, <2>3
  <2>7. \A k \in 1 .. n : links[k].place \in Int
    BY <1>3, <2>4, LinkInStack
  <2>8. (links = << >>) = (n = 0)
    BY <1>n, <2>1
  <2>9. links' # << >>
    BY <2>4, <2>5
  <2> QED
    BY <2>4, <2>5, <2>6, <2>7, <2>8, <2>9
<1>17. /\ Link.place = sp - 16 /\ Link.pc = NextPc /\ Link.piece_index = piece_index
       /\ Link.bp = registers.bp
  BY DEF Link
<1>18. /\ (\A k \in 1 .. n : LinkInv(k))
       /\ (\A j, k \in 1 .. n : j < k => links[k].place + 16 <= links[j].place)
       /\ registers.bp = IF n = 0 THEN StackTop ELSE links[n].place
       /\ sp <= registers.bp /\ sp \in Int
  BY <1>3, <1>4, <1>16, <1>n DEF LinksInv
<1> HIDE DEF sp
<1>19. ASSUME NEW k \in 1 .. n PROVE LinkInv(k)'
  <2>1. LinkInv(k) /\ k \in DOMAIN links /\ links'[k] = links[k]
    BY <1>16, <1>18, <1>19
  <2>2. \A b \in Addresses(links[k].place, 16) : memory'[b] = memory[b]
    <3> SUFFICES ASSUME NEW b \in Addresses(links[k].place, 16) PROVE memory'[b] = memory[b]
      OBVIOUS
    <3>1. b \in LinkPlaces
      BY <2>1 DEF LinkPlaces
    <3>2. b \in DOMAIN memory /\ b >= sp /\ b \in Int
      BY <1>1, <3>1, LinksAreAbove DEF sp, Addresses
    <3>3. b \notin Addresses(sp - 16, 16)
      BY <1>4, <3>2 DEF Addresses
    <3> QED
      BY <1>11, <3>2, <3>3
  <2>3. /\ LoadFrom(memory', links[k].place, 8) = links[k].bp
        /\ LoadFrom(memory', links[k].place + 8, 4) = links[k].piece_index
        /\ LoadFrom(memory', links[k].place + 12, 4) = links[k].pc
    BY <1>1, <1>3, <2>1, <2>2, LinkStays
  <2>4. SavedBp(k)' = SavedBp(k)
    <3>1. CASE k = 1
      BY <3>1 DEF SavedBp
    <3>2. CASE k # 1
      <4>1. k - 1 \in 1 .. n
        BY <1>16, <3>2
      <4>2. links'[k - 1] = links[k - 1]
        BY <1>16, <4>1
      <4> QED
        BY <4>2 DEF SavedBp
    <3> QED
      BY <3>1, <3>2
  <2>5. Pieces' = Pieces
    BY <1>1 DEF Pieces
  <2> QED
    BY <2>1, <2>3, <2>4, <2>5 DEF LinkInv
<1>20. LinkInv(n + 1)'
  <2>1. SavedBp(n + 1)' = registers.bp
    <3>1. CASE n = 0
      <4>1. n + 1 = 1 /\ registers.bp = StackTop
        BY <1>18, <3>1
      <4> QED
        BY <4>1 DEF SavedBp
    <3>2. CASE n # 0
      <4>1. n \in 1 .. n /\ (n + 1) - 1 = n /\ n + 1 # 1
        BY <1>16, <3>2
      <4>2. registers.bp = links'[n].place
        BY <1>16, <1>18, <3>2, <4>1
      <4> QED
        BY <4>1, <4>2 DEF SavedBp
    <3> QED
      BY <3>1, <3>2
  <2>2. sp - 16 \in StackBase .. StackTop - 16
    BY <1>4, Bounds
  <2>3. Pieces' = Pieces /\ NextPc \in Places(Pieces[piece_index + 1])
    BY <1>1, <1>6, <1>7 DEF Pieces
  <2>4. /\ links'[n + 1].place = sp - 16 /\ links'[n + 1].pc = NextPc
        /\ links'[n + 1].piece_index = piece_index /\ links'[n + 1].bp = registers.bp
    BY <1>16, <1>17
  <2>5. /\ LoadFrom(memory', links'[n + 1].place, 8) = links'[n + 1].bp
        /\ LoadFrom(memory', links'[n + 1].place + 8, 4) = links'[n + 1].piece_index
        /\ LoadFrom(memory', links'[n + 1].place + 12, 4) = links'[n + 1].pc
    BY <1>11, <2>4
  <2>6. links'[n + 1].pc \in Places(Pieces'[links'[n + 1].piece_index + 1])
    BY <2>3, <2>4
  <2>7. Level(Pieces'[links'[n + 1].piece_index + 1], links'[n + 1].pc,
              links'[n + 1].bp - (links'[n + 1].place + 16))
    <3>1. Level(Code, NextPc, registers.bp - sp)
      BY <1>1, SameFrame DEF sp
    <3>2. registers.bp - sp = registers.bp - ((sp - 16) + 16)
      BY <1>8, <1>18, Bounds
    <3> QED
      BY <1>6, <2>3, <2>4, <3>1, <3>2
  <2> QED
    BY <1>9, <2>1, <2>2, <2>3, <2>4, <2>5, <2>6, <2>7 DEF LinkInv
<1>21. ASSUME NEW j \in 1 .. n + 1, NEW k \in 1 .. n + 1, j < k
       PROVE  links'[k].place + 16 <= links'[j].place
  <2>1. j \in 1 .. n /\ k \in Nat /\ (k \in 1 .. n \/ k = n + 1)
    BY <1>n, <1>21
  <2>2. links'[j] = links[j] /\ links[j].place \in Int
    BY <1>16, <2>1
  <2>3. CASE k \in 1 .. n
    <3>1. links'[k] = links[k] /\ links[k].place + 16 <= links[j].place
      BY <1>16, <1>18, <1>21, <2>1, <2>3
    <3> QED
      BY <2>2, <3>1
  <2>4. CASE k = n + 1
    <3>1. links'[k].place = sp - 16
      BY <1>16, <1>17, <2>4
    <3>2. n # 0 /\ n \in 1 .. n /\ (j < n \/ j = n)
      BY <1>16, <2>1
    <3>3. sp <= links[n].place /\ links[n].place \in Int
      BY <1>16, <1>18, <3>2
    <3>4. j < n => links[n].place + 16 <= links[j].place
      BY <1>18, <2>1, <3>2
    <3>5. sp <= links[j].place
      <4>1. CASE j = n
        BY <3>3, <4>1
      <4>2. CASE j < n
        BY <1>18, <2>2, <3>3, <3>4, <4>2
      <4> QED
        BY <3>2, <4>1, <4>2
    <3> QED
      BY <1>18, <2>2, <3>1, <3>5
  <2> QED
    BY <2>1, <2>3, <2>4
<1>22. LinksInv'
  <2>1. \A k \in 1 .. n + 1 : LinkInv(k)'
    <3> SUFFICES ASSUME NEW k \in 1 .. n + 1 PROVE LinkInv(k)'
      OBVIOUS
    <3>1. k \in 1 .. n \/ k = n + 1
      BY <1>16
    <3> QED
      BY <1>19, <1>20, <3>1
  <2>2. registers'.bp = links'[n + 1].place
    BY <1>14, <1>16, <1>17
  <2>3. /\ links' \in Seq([place : Int, pc : Int, piece_index : Int, bp : Int])
        /\ DOMAIN links' = 1 .. n + 1 /\ Len(links') = n + 1 /\ links' # << >>
    BY <1>16
  <2>4. \A j, k \in 1 .. n + 1 : j < k => links'[k].place + 16 <= links'[j].place
    BY <1>21
  <2>5. registers'.bp = IF links' = << >> THEN StackTop ELSE links'[Len(links')].place
    BY <2>2, <2>3
  <2>6. \A k \in DOMAIN links' : LinkInv(k)'
    BY <2>1, <2>3
  <2>7. \A j, k \in DOMAIN links' : j < k => links'[k].place + 16 <= links'[j].place
    BY <2>3, <2>4
  <2> QED
    BY <2>3, <2>5, <2>6, <2>7 DEF LinksInv
<1>23. registers'.sp \in StackBase .. StackTop
  BY <1>4, <1>14, Bounds
<1>24. HeightInv'
  <2>1. Code' = Pieces[imm] /\ Balanced(Pieces[imm])
    BY <1>1, <1>5, <1>6 DEF Code, Pieces, WellFormed
  <2>2. HeightAt(Pieces[imm], 0) = 0
    BY <2>1 DEF Balanced, HeightAt
  <2>3. registers'.bp - registers'.sp = 0
    BY <1>14, <1>18
  <2> QED
    BY <1>14, <2>1, <2>2, <2>3 DEF HeightInv, Level
<1> QED
  BY <1>12, <1>13, <1>15, <1>22, <1>23, <1>24 DEF MachineInv, RunningInv

-----------------------------------------------------------------------------
(* Returns *)

\* What a return would find at a link is what the call of it has saved.
LEMMA SavedValues ==
    ASSUME MachineInv, status = "running", NEW n \in DOMAIN links
    PROVE  /\ Word32(Load(links[n].place + 12, 4)) = links[n].pc
           /\ Word32(Load(links[n].place + 8, 4)) = links[n].piece_index
           /\ Word64(Load(links[n].place, 8)) = SavedBp(n) /\ links[n].bp = SavedBp(n)
           /\ SavedBp(n) \in StackBase .. StackTop
           /\ links[n].pc \in Int64 /\ links[n].piece_index \in 0 .. Len(Pieces) - 1
           /\ links[n].pc \in Places(Pieces[links[n].piece_index + 1])
           /\ Level(Pieces[links[n].piece_index + 1], links[n].pc,
                    SavedBp(n) - (links[n].place + 16))
<1>1. LinksInv /\ RegistersInv /\ LinkInv(n)
  BY DEF MachineInv, RunningInv, LinksInv
<1>2. /\ links[n].piece_index \in 0 .. Len(Pieces) - 1
      /\ links[n].pc \in Places(Pieces[links[n].piece_index + 1])
      /\ links[n].bp = SavedBp(n)
      /\ Level(Pieces[links[n].piece_index + 1], links[n].pc,
               SavedBp(n) - (links[n].place + 16))
  BY <1>1 DEF LinkInv
<1>3. /\ Load(links[n].place + 12, 4) = links[n].pc
      /\ Load(links[n].place + 8, 4) = links[n].piece_index
      /\ Load(links[n].place, 8) = SavedBp(n)
  BY <1>1, LoadIs DEF LinkInv
<1>4. Pieces \in Seq(Seq(Words)) /\ Len(Pieces) < Half(4) /\ Len(Pieces) \in Nat
  BY <1>1, ImageFacts
<1>5. links[n].piece_index + 1 \in DOMAIN Pieces
  BY <1>2, <1>4
<1>6. links[n].pc \in Nat /\ links[n].pc < Half(4) /\ links[n].pc \in Int64
  BY <1>1, <1>2, <1>5, PlacesAreSmall
<1>7. links[n].piece_index \in Nat /\ links[n].piece_index < Half(4)
  <2>1. links[n].piece_index \in 0 .. Len(Pieces) - 1
    BY <1>2
  <2>2. Half(4) \in Nat
    BY Bounds
  <2>3. Len(Pieces) < Half(4) /\ Len(Pieces) \in Nat
    BY <1>4
  <2> QED
    BY <2>1, <2>2, <2>3
<1>8. SavedBp(n) \in StackBase .. StackTop
  <2>1. CASE n = 1
    BY <2>1, Bounds DEF SavedBp
  <2>2. CASE n # 1
    <3>1. n - 1 \in DOMAIN links
      BY <1>1, <2>2 DEF LinksInv
    <3>2. LinkInv(n - 1)
      BY <1>1, <3>1 DEF LinksInv
    <3>3. links[n - 1].place \in StackBase .. StackTop - 16
      BY <3>2 DEF LinkInv
    <3> QED
      BY <2>2, <3>3, Bounds DEF SavedBp
  <2> QED
    BY <2>1, <2>2
<1>9. SavedBp(n) \in Int64
  BY <1>8, Bounds DEF Int64
<1> QED
  BY <1>2, <1>3, <1>6, <1>7, <1>8, <1>9, Word32Same, Word64Same

\* RET: the frame of the innermost link goes away, the caller goes on where it was.
LEMMA Returning ==
    ASSUME MachineInv, Observe, Ret
    PROVE  MachineInv'
<1> DEFINE sp == registers.sp
<1>1. /\ status = "running" /\ InBounds /\ inst.opcode = "INST_RET"
      /\ sp # StackTop /\ sp = registers.bp /\ CheckStack(sp + 16)
      /\ registers' = [registers EXCEPT !.pc = Word32(Load(sp + 12, 4)),
                                        !.sp = sp + 16, !.bp = RestoredBp(sp)]
      /\ piece_index' = Word32(Load(sp + 8, 4))
      /\ UNCHANGED <<program, memory, allocations, status>>
  BY DEF Ret, Executes
<1>2. /\ sp \in StackBase .. StackTop /\ LinksInv /\ RegistersInv
      /\ registers \in [RegisterName -> Int64]
  BY <1>1 DEF MachineInv, RunningInv, RegistersInv
<1>3. sp \in Int /\ sp + 16 \in StackBase .. StackTop /\ sp + 16 \in Int64
  BY <1>1, <1>2, Bounds DEF CheckStack, Int64
<1>4. links # << >> /\ registers.bp = links[Len(links)].place
  BY <1>1, <1>2 DEF LinksInv
<1>5. links \in Seq([place : Int, pc : Int, piece_index : Int, bp : Int])
  BY <1>2 DEF LinksInv
<1>6. PICK n \in Nat : n = Len(links) /\ n > 0 /\ DOMAIN links = 1 .. n
  BY <1>4, <1>5
<1>7. /\ registers' = [registers EXCEPT !.pc = links[n].pc, !.sp = sp + 16, !.bp = SavedBp(n)]
      /\ piece_index' = links[n].piece_index
      /\ SavedBp(n) \in StackBase .. StackTop /\ SavedBp(n) \in Int64
      /\ links[n].pc \in Int64 /\ links[n].piece_index \in 0 .. Len(Pieces) - 1
      /\ links[n].pc \in Places(Pieces[links[n].piece_index + 1])
      /\ Level(Pieces[links[n].piece_index + 1], links[n].pc, SavedBp(n) - (sp + 16))
  <2>1. n \in DOMAIN links /\ sp = links[n].place
    BY <1>1, <1>4, <1>6
  <2>2. /\ Word32(Load(sp + 12, 4)) = links[n].pc /\ Word32(Load(sp + 8, 4)) = links[n].piece_index
        /\ RestoredBp(sp) = SavedBp(n) /\ SavedBp(n) \in StackBase .. StackTop
        /\ links[n].pc \in Int64 /\ links[n].piece_index \in 0 .. Len(Pieces) - 1
        /\ links[n].pc \in Places(Pieces[links[n].piece_index + 1])
        /\ Level(Pieces[links[n].piece_index + 1], links[n].pc, SavedBp(n) - (sp + 16))
    BY <1>1, <2>1, SavedValues DEF RestoredBp
  <2>3. SavedBp(n) \in Int64
    <3>1. SavedBp(n) \in StackBase .. StackTop
      BY <2>2
    <3> QED
      BY <3>1, Bounds DEF Int64
  <2> HIDE DEF sp
  <2> QED
    BY <1>1, <2>2, <2>3
<1>8. links' = Front(links)
  <2>1. ~(Executes({"INST_CALL"}) /\ ~IsNative) /\ Executes({"INST_RET"}) /\ links # << >>
    BY <1>1, <1>4 DEF Executes
  <2> QED
    BY <2>1, Zenon DEF Observe
<1>9. /\ links' \in Seq([place : Int, pc : Int, piece_index : Int, bp : Int])
      /\ Len(links') = n - 1 /\ DOMAIN links' = 1 .. n - 1
      /\ \A k \in 1 .. n - 1 : links'[k] = links[k]
  <2> DEFINE R == [place : Int, pc : Int, piece_index : Int, bp : Int]
  <2>1. links \in Seq(R) /\ links' = SubSeq(links, 1, n - 1)
    BY <1>5, <1>6, <1>8 DEF Front
  <2> HIDE DEF R
  <2>2. n - 1 \in 0 .. Len(links)
    BY <1>6
  <2>3. links' \in Seq(R) /\ Len(links') = n - 1
    BY <1>6, <2>1, <2>2
  <2>4. \A k \in 1 .. n - 1 : links'[k] = links[k]
    BY <1>6, <2>1, <2>2
  <2> QED
    BY <2>3, <2>4 DEF R
<1>10. Pieces' = Pieces
  BY <1>1 DEF Pieces
<1>11. RegistersInv'
  <2>1. sp + 16 \in Int64 /\ SavedBp(n) \in Int64 /\ links[n].pc \in Int64
    BY <1>3, <1>7
  <2>2. registers' \in [RegisterName -> Int64]
    BY <1>2, <1>7, <2>1
  <2>3. piece_index' \in 0 .. Len(Pieces') - 1
    BY <1>7, <1>10
  <2>4. program' \in Program /\ status' \in Statuses /\ ImageInv'
    BY <1>1, <1>2 DEF RegistersInv, ImageInv
  <2> QED
    BY <2>2, <2>3, <2>4 DEF RegistersInv
<1>12. registers'.pc = links[n].pc /\ registers'.sp = sp + 16 /\ registers'.bp = SavedBp(n)
  BY <1>2, <1>7 DEF RegisterName, Register
<1>13. registers'.pc \in Places(Code')
  BY <1>7, <1>10, <1>12 DEF Code, Pieces
<1>14. ASSUME NEW k \in 1 .. n - 1 PROVE LinkInv(k)'
  <2>1. LinkInv(k) /\ links'[k] = links[k]
    <3>1. k \in DOMAIN links
      BY <1>6
    <3>2. \A j \in DOMAIN links : LinkInv(j)
      BY <1>2 DEF LinksInv
    <3> QED
      BY <1>9, <3>1, <3>2
  <2>2. SavedBp(k)' = SavedBp(k)
    <3>1. k = 1 \/ k - 1 \in 1 .. n - 1
      BY <1>6
    <3> QED
      BY <1>9, <3>1 DEF SavedBp
  <2>3. memory' = memory
    BY <1>1
  <2> QED
    BY <1>10, <2>1, <2>2, <2>3 DEF LinkInv
<1>15. LinksInv'
  <2>1. registers'.bp = IF links' = << >> THEN StackTop ELSE links'[Len(links')].place
    <3>1. CASE n = 1
      <4>1. links' = << >>
        BY <1>9, <3>1
      <4> QED
        BY <1>12, <3>1, <4>1 DEF SavedBp
    <3>2. CASE n # 1
      <4>1. links' # << >> /\ n - 1 \in 1 .. n - 1
        BY <1>6, <1>9, <3>2
      <4> QED
        BY <1>9, <1>12, <3>2, <4>1 DEF SavedBp
    <3> QED
      BY <3>1, <3>2
  <2>2. \A j, k \in DOMAIN links' : j < k => links'[k].place + 16 <= links'[j].place
    <3>1. \A j \in DOMAIN links' : j \in DOMAIN links /\ links'[j] = links[j]
      BY <1>6, <1>9
    <3> QED
      BY <1>2, <3>1 DEF LinksInv
  <2>3. \A k \in DOMAIN links' : LinkInv(k)'
    BY <1>9, <1>14
  <2> QED
    BY <1>9, <2>1, <2>2, <2>3 DEF LinksInv
<1>16. MemoryInv' /\ BlocksInv'
  BY <1>1, MemoryStays
<1>17. HeightInv'
  <2>1. Code' = Pieces[links[n].piece_index + 1]
    BY <1>7, <1>10 DEF Code, Pieces
  <2> QED
    BY <1>7, <1>12, <2>1 DEF HeightInv
<1> QED
  BY <1>3, <1>11, <1>12, <1>13, <1>15, <1>16, <1>17 DEF MachineInv, RunningInv

-----------------------------------------------------------------------------
(* Native functions *)

\* A native function that runs has its arguments, and goes on after the call.
LEMMA NativeRuns ==
    ASSUME MachineInv, Observe, NEW f, CallsNative(f)
    PROVE  /\ status = "running" /\ InBounds /\ inst.opcode = "INST_CALL" /\ IsNative /\ CanRun(f)
           /\ links' = links /\ registers.sp \in Int /\ registers.sp \in StackBase .. StackTop
           /\ Addresses(registers.sp, ArgumentBytes[f]) \subseteq DOMAIN memory
<1>1. /\ status = "running" /\ InBounds /\ inst.opcode = "INST_CALL" /\ IsNative /\ CanRun(f)
  BY DEF CallsNative, Executes
<1>2. links' = links
  BY <1>1, LinksStay
<1>3. registers.sp \in StackBase .. StackTop
  BY <1>1 DEF MachineInv, RunningInv
<1> QED
  BY <1>1, <1>2, <1>3, Bounds DEF CanRun, Raw

\* The arguments of a native function are numbers.
LEMMA Arguments ==
    ASSUME MachineInv, status = "running", NEW bytes \in Nat, NEW offset \in Nat,
           Addresses(registers.sp, bytes) \subseteq DOMAIN memory
    PROVE  /\ offset + 4 <= bytes => IntArgument(offset) \in Int
           /\ offset + 8 <= bytes => PointerArgument(offset) \in Int
<1>1. registers.sp \in Int
  BY Bounds DEF MachineInv, RunningInv
<1>2. ASSUME NEW size \in Nat, offset + size <= bytes
      PROVE  Load(registers.sp + offset, size) \in Nat
  <2>1. Addresses(registers.sp + offset, size) \subseteq Addresses(registers.sp, bytes)
    BY <1>1, <1>2 DEF Addresses
  <2>2. registers.sp + offset \in Int
    BY <1>1
  <2> QED
    BY <1>2, <2>1, <2>2, LoadsNumber
<1>3. ASSUME offset + 4 <= bytes PROVE IntArgument(offset) \in Int
  <2>1. Load(registers.sp + offset, 4) \in Int
    BY <1>2, <1>3
  <2> QED
    BY <2>1, Word32Range DEF IntArgument
<1>4. ASSUME offset + 8 <= bytes PROVE PointerArgument(offset) \in Int
  <2>1. Load(registers.sp + offset, 8) \in Int
    BY <1>2, <1>4
  <2>2. PointerArgument(offset) \in Int64
    BY <2>1, Word64Range DEF PointerArgument
  <2> QED
    BY <2>2, Bounds
<1> QED
  BY <1>3, <1>4

\* printi, printc and prints.
LEMMA Printing ==
    ASSUME MachineInv, Observe, printi \/ printc \/ prints
    PROVE  MachineInv'
<1>1. PICK f \in {"printi", "printc", "prints"} : CallsNative(f)
  BY DEF printi, printc, prints
<1>2. /\ registers' = [registers EXCEPT !.pc = NextPc]
      /\ UNCHANGED <<program, piece_index, memory, allocations, status>>
  BY DEF printi, printc, prints, PrintOut, NextInstruction
<1>3. MemoryInv' /\ BlocksInv' /\ \A b \in LinkPlaces : memory'[b] = memory[b]
  BY <1>2, MemoryStays
<1>4. status = "running" /\ InBounds /\ inst.opcode = "INST_CALL" /\ links' = links
  BY <1>1, NativeRuns
<1> QED
  BY <1>2, <1>3, <1>4, StoresAndGoesOn

\* A new block is apart from the stack, the data and the other blocks.
LEMMA BlockAdded ==
    ASSUME MachineInv, UNCHANGED program, NEW mem, NEW size \in Int, NEW address \in Free(size),
           NEW byte \in Garbage,
           DOMAIN mem = DOMAIN memory,
           \A b \in DOMAIN memory : mem[b] \in 0 .. ByteBase - 1,
           \A b \in LinkPlaces : mem[b] = memory[b],
           LinkPlaces \subseteq Addresses(StackBase, StackMax),
           memory' = Join(mem, Filled(Addresses(address, size), byte)),
           allocations' = Join(allocations, [b \in {address} |-> size])
    PROVE  MemoryInv' /\ BlocksInv' /\ \A b \in LinkPlaces : memory'[b] = memory[b]
<1> DEFINE fresh == Addresses(address, size)
<1>1. /\ address \in Heap \ {0} /\ address \notin DOMAIN allocations /\ size \in Nat
      /\ Disjoint(address, size)
  BY DEF Free
<1>2. address \in Nat /\ address >= StackTop
  BY <1>1, MemoryAssumption
<1>3. DOMAIN memory' = DOMAIN memory \cup fresh
  BY DEF Join, Filled
<1>4. \A b \in DOMAIN memory' : memory'[b] = IF b \in fresh THEN byte ELSE mem[b]
  BY DEF Join, Filled
<1>5. byte \in 0 .. ByteBase - 1
  BY MemoryAssumption
<1> HIDE DEF fresh
<1>6. MemoryInv'
  <2>1. \A b \in DOMAIN memory' : memory'[b] \in 0 .. ByteBase - 1
    BY <1>3, <1>4, <1>5
  <2> QED
    BY <1>3, <2>1 DEF MachineInv, MemoryInv, GlobalData
<1>7. DOMAIN allocations' = DOMAIN allocations \cup {address}
  BY DEF Join
<1>8. /\ allocations'[address] = size
      /\ \A block \in DOMAIN allocations : allocations'[block] = allocations[block]
  BY <1>1 DEF Join
<1>9. BlocksInv'
  <2>1. BlocksInv
    BY DEF MachineInv
  <2>2. DOMAIN allocations' \subseteq Heap \ {0}
    BY <1>1, <1>7, <2>1 DEF BlocksInv
  <2>3. ASSUME NEW block \in DOMAIN allocations'
        PROVE  /\ allocations'[block] \in Nat
               /\ Addresses(block, allocations'[block]) \subseteq DOMAIN memory'
    <3>1. CASE block = address
      BY <1>1, <1>3, <1>8, <3>1 DEF fresh
    <3>2. CASE block \in DOMAIN allocations
      BY <1>3, <1>8, <2>1, <3>2 DEF BlocksInv
    <3> QED
      BY <1>7, <3>1, <3>2
  <2>4. ASSUME NEW block \in DOMAIN allocations', NEW other \in DOMAIN allocations', block # other
        PROVE  \/ block + allocations'[block] <= other
               \/ other + allocations'[other] <= block
    <3>1. CASE block \in DOMAIN allocations /\ other \in DOMAIN allocations
      BY <1>8, <2>1, <2>4, <3>1 DEF BlocksInv
    <3>2. CASE block = address /\ other \in DOMAIN allocations
      BY <1>1, <1>8, <3>2 DEF Disjoint
    <3>3. CASE other = address /\ block \in DOMAIN allocations
      BY <1>1, <1>8, <3>3 DEF Disjoint
    <3> QED
      BY <1>7, <2>4, <3>1, <3>2, <3>3
  <2> QED
    BY <2>2, <2>3, <2>4 DEF BlocksInv
<1>10. ASSUME NEW b \in LinkPlaces PROVE memory'[b] = memory[b]
  <2>1. b \in Addresses(StackBase, StackMax) /\ b \in DOMAIN memory
    BY DEF MachineInv, MemoryInv
  <2>2. b \notin fresh
    BY <1>1, <1>2, <2>1, Bounds DEF fresh, Addresses
  <2> QED
    BY <1>3, <1>4, <2>1, <2>2
<1> QED
  BY <1>6, <1>9, <1>10

\* malloc: the result is stored below the stack pointer, the block is beyond the stack.
LEMMA Allocating ==
    ASSUME MachineInv, Observe, malloc
    PROVE  MachineInv'
<1> DEFINE size == IntArgument(0)
<1>1. CallsNative("malloc")
  BY DEF malloc
<1>2. PICK address \in Allocated(size), byte \in Garbage :
         LET mem == Store(memory, ResultPlace, 8, address)
         IN  IF address = 0
             THEN memory' = mem /\ UNCHANGED allocations
             ELSE /\ memory' = Join(mem, Filled(Addresses(address, size), byte))
                  /\ allocations' = Join(allocations, [b \in {address} |-> size])
  BY DEF malloc
<1>3. /\ registers' = [registers EXCEPT !.pc = NextPc]
      /\ UNCHANGED <<program, piece_index, status>>
  BY DEF malloc, NextInstruction
<1>4. /\ status = "running" /\ InBounds /\ inst.opcode = "INST_CALL" /\ links' = links
      /\ registers.sp \in Int /\ registers.sp \in StackBase .. StackTop
      /\ Addresses(registers.sp, ArgumentBytes["malloc"]) \subseteq DOMAIN memory
  BY <1>1, NativeRuns
<1>5. size \in Int
  <2>1. ArgumentBytes["malloc"] = 4
    BY DEF ArgumentBytes
  <2> QED
    BY <1>4, <2>1, Arguments
<1> HIDE DEF size
<1> DEFINE mem == Store(memory, ResultPlace, 8, address)
<1>6. address = 0 \/ address \in Free(size)
  BY <1>2 DEF Allocated
<1>7. address \in Nat
  <2>1. address = 0 \/ address \in Heap
    BY <1>6 DEF Free
  <2>2. Heap \subseteq Nat /\ 0 \in Nat
    BY MemoryAssumption
  <2> HIDE DEF mem
  <2> QED
    BY <2>1, <2>2, Zenon
<1>8. ResultPlace \in Int /\ ResultPlace + 8 <= registers.sp /\ 8 \in Int /\ 8 <= 8 /\ address \in Int
  BY <1>4, <1>7 DEF ResultPlace
<1>9. DOMAIN mem = DOMAIN memory /\ \A b \in DOMAIN memory : mem[b] \in 0 .. ByteBase - 1
  <2>1. \A b \in DOMAIN memory : memory[b] \in 0 .. ByteBase - 1
    BY DEF MachineInv, MemoryInv
  <2> QED
    BY <1>8, <2>1, StoreIsBytes, Zenon
<1>10. \A b \in LinkPlaces : mem[b] = memory[b]
  <2>1. status = "running" /\ ResultPlace \in Int /\ ResultPlace + 8 <= registers.sp
    BY <1>4, <1>8
  <2> QED
    BY <2>1, BelowLinks
<1>11. LinkPlaces \subseteq Addresses(StackBase, StackMax)
  BY <1>4, LinksAreAbove
<1>12. MemoryInv' /\ BlocksInv' /\ \A b \in LinkPlaces : memory'[b] = memory[b]
  <2>1. CASE address = 0
    <3>1. memory' = mem /\ allocations' = allocations
      BY <1>2, <2>1
    <3> HIDE DEF mem
    <3>2. MemoryInv' /\ BlocksInv'
      BY <1>3, <1>9, <3>1, BytesStored
    <3> QED
      BY <1>10, <3>1, <3>2
  <2>2. CASE address # 0
    <3>1. /\ memory' = Join(mem, Filled(Addresses(address, size), byte))
          /\ allocations' = Join(allocations, [b \in {address} |-> size])
          /\ address \in Free(size)
      BY <1>2, <1>6, <2>2
    <3> HIDE DEF mem
    <3> QED
      BY <1>3, <1>5, <1>9, <1>10, <1>11, <3>1, BlockAdded
  <2> QED
    BY <2>1, <2>2
<1> QED
  BY <1>3, <1>4, <1>12, StoresAndGoesOn

\* A block that is freed leaves the stack, the data and the other blocks as they are.
LEMMA Freeing ==
    ASSUME MachineInv, Observe, mfree
    PROVE  MachineInv'
<1> DEFINE block == PointerArgument(0)
<1>1. CallsNative("mfree")
  BY DEF mfree
<1>2. /\ registers' = [registers EXCEPT !.pc = NextPc]
      /\ UNCHANGED <<program, piece_index, status>>
      /\ \/ /\ block \in DOMAIN allocations /\ memory' = FreedMemory(block)
            /\ allocations' = Without(allocations, block)
         \/ UNCHANGED <<memory, allocations>>
  BY DEF mfree, NextInstruction
<1>3. status = "running" /\ InBounds /\ inst.opcode = "INST_CALL" /\ links' = links
  BY <1>1, NativeRuns
<1> HIDE DEF block
<1>4. CASE UNCHANGED <<memory, allocations>>
  <2>1. MemoryInv' /\ BlocksInv' /\ \A b \in LinkPlaces : memory'[b] = memory[b]
    BY <1>2, <1>4, MemoryStays
  <2> QED
    BY <1>2, <1>3, <2>1, StoresAndGoesOn
<1>5. CASE /\ block \in DOMAIN allocations /\ memory' = FreedMemory(block)
           /\ allocations' = Without(allocations, block)
  <2> DEFINE freed == Addresses(block, allocations[block])
  <2>1. BlocksInv /\ MemoryInv
    BY DEF MachineInv
  <2>2. /\ DOMAIN memory' = DOMAIN memory \ freed
        /\ \A b \in DOMAIN memory' : memory'[b] = memory[b]
    BY <1>5 DEF FreedMemory
  <2>3. /\ DOMAIN allocations' = DOMAIN allocations \ {block}
        /\ \A other \in DOMAIN allocations' : allocations'[other] = allocations[other]
    BY <1>5 DEF Without
  <2>4. block \in Nat /\ block >= StackTop /\ allocations[block] \in Nat
    BY <1>5, <2>1, MemoryAssumption DEF BlocksInv
  <2>5. \A b \in freed : b >= StackTop /\ b \in Int
    BY <2>4, Bounds DEF Addresses
  <2>6. Addresses(StackBase, StackMax) \cap freed = {}
    BY <2>5, Bounds DEF Addresses
  <2>7. Addresses(DataBase, Len(GlobalData)) \cap freed = {}
    <3>1. DataBase + Len(GlobalData) <= StackBase /\ Len(GlobalData) \in Nat
      BY ImageFacts DEF MachineInv
    <3> QED
      BY <2>5, <3>1, Bounds DEF Addresses, DataBase
  <2>8. ASSUME NEW other \in DOMAIN allocations'
        PROVE  /\ allocations'[other] \in Nat
               /\ Addresses(other, allocations'[other]) \subseteq DOMAIN memory'
    <3>1. /\ other \in DOMAIN allocations /\ other # block
          /\ allocations'[other] = allocations[other]
      BY <2>3, <2>8
    <3>2. /\ other \in Nat /\ allocations[other] \in Nat
          /\ Addresses(other, allocations[other]) \subseteq DOMAIN memory
      BY <2>1, <3>1, MemoryAssumption DEF BlocksInv
    <3>3. other + allocations[other] <= block \/ block + allocations[block] <= other
      BY <1>5, <2>1, <3>1 DEF BlocksInv
    <3>4. Addresses(other, allocations[other]) \cap freed = {}
      BY <2>4, <3>2, <3>3 DEF Addresses
    <3> QED
      BY <2>2, <3>1, <3>2, <3>4
  <2> HIDE DEF freed
  <2>9. MemoryInv'
    BY <1>2, <2>1, <2>2, <2>6, <2>7 DEF MemoryInv, GlobalData
  <2>10. BlocksInv'
    BY <2>1, <2>3, <2>8 DEF BlocksInv
  <2>11. \A b \in LinkPlaces : memory'[b] = memory[b]
    <3> SUFFICES ASSUME NEW b \in LinkPlaces PROVE memory'[b] = memory[b]
      OBVIOUS
    <3>1. b \in Addresses(StackBase, StackMax) /\ b \in DOMAIN memory
      BY <1>3, LinksAreAbove
    <3> QED
      BY <2>2, <2>6, <3>1
  <2> QED
    BY <1>2, <1>3, <2>9, <2>10, <2>11, StoresAndGoesOn
<1> QED
  BY <1>2, <1>4, <1>5

\* memcpy: by PointersSpareLinks it hits no link.
LEMMA Copying ==
    ASSUME MachineInv, Observe, PointersSpareLinks, memcpy
    PROVE  MachineInv'
<1> DEFINE dst  == PointerArgument(0)
           src  == PointerArgument(8)
           size == IntArgument(16)
<1>1. CallsNative("memcpy")
  BY DEF memcpy
<1>2. /\ memory' = [b \in DOMAIN memory |->
                      IF b \in Addresses(dst, size) THEN memory[src + (b - dst)] ELSE memory[b]]
      /\ registers' = [registers EXCEPT !.pc = NextPc]
      /\ UNCHANGED <<program, piece_index, allocations, status>>
  BY DEF memcpy, NextInstruction
<1>3. /\ status = "running" /\ InBounds /\ inst.opcode = "INST_CALL" /\ CanRun("memcpy")
      /\ links' = links /\ registers.sp \in StackBase .. StackTop
      /\ Addresses(registers.sp, ArgumentBytes["memcpy"]) \subseteq DOMAIN memory
  BY <1>1, NativeRuns
<1>4. dst \in Int /\ src \in Int /\ size \in Int
  <2>1. ArgumentBytes["memcpy"] = 20
    BY DEF ArgumentBytes
  <2>2. Addresses(registers.sp, 20) \subseteq DOMAIN memory
    BY <1>3, <2>1
  <2>3. 20 \in Nat /\ 0 \in Nat /\ 8 \in Nat /\ 16 \in Nat /\ 0 + 8 <= 20 /\ 8 + 8 <= 20 /\ 16 + 4 <= 20
    OBVIOUS
  <2> QED
    BY <1>3, <2>2, <2>3, Arguments, Zenon
<1>5. Addresses(src, size) \subseteq DOMAIN memory
  BY <1>3 DEF CanRun, CanMove, Raw
<1>6. LinkPlaces \cap Addresses(dst, size) = {}
  <2>1. ~Executes({"INST_MOV_MR", "INST_MOV_MR_DISP"}) /\ ~Executes({"INST_MEMZERO"})
    BY <1>3 DEF Executes
  <2>2. PointerStores = Addresses(dst, size)
    BY <1>1, <2>1 DEF PointerStores
  <2> QED
    BY <1>3, <2>2 DEF PointersSpareLinks
<1> HIDE DEF dst, src, size
<1>7. \A b \in DOMAIN memory : memory[b] \in 0 .. ByteBase - 1
  BY DEF MachineInv, MemoryInv
<1>8. ASSUME NEW b \in DOMAIN memory PROVE memory'[b] \in 0 .. ByteBase - 1
  <2>1. CASE b \in Addresses(dst, size)
    <3>1. src + (b - dst) \in Addresses(src, size)
      BY <1>4, <2>1 DEF Addresses
    <3> QED
      BY <1>2, <1>5, <1>7, <2>1, <3>1
  <2>2. CASE b \notin Addresses(dst, size)
    BY <1>2, <1>7, <2>2
  <2> QED
    BY <2>1, <2>2
<1>9. DOMAIN memory' = DOMAIN memory
  BY <1>2
<1>10. MemoryInv' /\ BlocksInv'
  BY <1>2, <1>8, <1>9, BytesStored
<1>11. \A b \in LinkPlaces : memory'[b] = memory[b]
  <2> SUFFICES ASSUME NEW b \in LinkPlaces PROVE memory'[b] = memory[b]
    OBVIOUS
  <2>1. b \in DOMAIN memory /\ b \notin Addresses(dst, size)
    BY <1>3, <1>6, LinksAreAbove
  <2> QED
    BY <1>2, <2>1
<1> QED
  BY <1>2, <1>3, <1>10, <1>11, StoresAndGoesOn

-----------------------------------------------------------------------------
(* The machine *)

\* An element of a sequence.
LEMMA ElementOf ==
    ASSUME NEW S, NEW s \in Seq(S), NEW k \in 1 .. Len(s)
    PROVE  s[k] \in S
  OBVIOUS

\* The invariant holds at the start.
LEMMA Starting ==
    ASSUME FullInit, CodeIsWellFormed
    PROVE  MachineInv
<1>1. /\ program \in Program /\ piece_index = Image(program).main /\ allocations = << >>
      /\ registers = [a |-> 0, b |-> 0, c |-> 0, d |-> 0,
                      sp |-> StackTop, bp |-> StackTop, pc |-> 0]
      /\ status = (IF Code = << >> THEN "no_instructions" ELSE "running")
      /\ links = << >>
  BY DEF FullInit, Init
<1>2. PICK byte \in Garbage :
         memory = Join(Filled(Addresses(StackBase, StackMax), byte),
                       [b \in Addresses(DataBase, Len(GlobalData)) |->
                            GlobalData[b - DataBase + 1]])
  BY DEF FullInit, Init
<1>3. /\ ImageInv
      /\ Pieces \in Seq(Seq(Words)) /\ piece_index \in 0 .. Len(Pieces) - 1
      /\ GlobalData \in Seq(0 .. ByteBase - 1)
      /\ \A k \in DOMAIN Pieces : WellFormed(Pieces, Pieces[k])
  <2>1. ImageInv
    BY <1>1 DEF CodeIsWellFormed, ImageInv
  <2> QED
    BY <1>1, <2>1 DEF ImageInv, WellFormedImage, Pieces, GlobalData
<1>4. RegistersInv
  <2>1. 0 \in Int64 /\ StackTop \in Int64
    BY Bounds DEF Int64
  <2>2. registers \in [RegisterName -> Int64]
    BY <1>1, <2>1 DEF RegisterName, Register
  <2> QED
    BY <1>1, <1>3, <2>2 DEF RegistersInv, Statuses
<1>5. MemoryInv
  <2> DEFINE data == [b \in Addresses(DataBase, Len(GlobalData)) |-> GlobalData[b - DataBase + 1]]
  <2>1. byte \in 0 .. ByteBase - 1
    BY MemoryAssumption
  <2>2. ASSUME NEW b \in DOMAIN data PROVE data[b] \in 0 .. ByteBase - 1
    <3>1. b \in Addresses(DataBase, Len(GlobalData)) /\ data[b] = GlobalData[b - DataBase + 1]
      BY <2>2
    <3>2. b - DataBase + 1 \in 1 .. Len(GlobalData)
      BY <3>1 DEF Addresses, DataBase
    <3>3. GlobalData \in Seq(0 .. ByteBase - 1)
      BY <1>3
    <3>4. \A k \in 1 .. Len(GlobalData) : GlobalData[k] \in 0 .. ByteBase - 1
      BY <3>3, ElementOf, Zenon
    <3> HIDE DEF data
    <3> QED
      BY <3>1, <3>2, <3>4
  <2>3. DOMAIN data = Addresses(DataBase, Len(GlobalData))
    OBVIOUS
  <2> HIDE DEF data
  <2>4. memory = Join(Filled(Addresses(StackBase, StackMax), byte), data)
    BY <1>2 DEF data
  <2> QED
    BY <2>1, <2>2, <2>3, <2>4 DEF MemoryInv, Join, Filled
<1>6. BlocksInv
  BY <1>1 DEF BlocksInv
<1>7. RunningInv
  <2>1. piece_index + 1 \in DOMAIN Pieces /\ Code = Pieces[piece_index + 1]
    BY <1>3 DEF Code, Pieces
  <2>2. 0 \in Places(Code)
    BY <1>3, <2>1 DEF WellFormed
  <2>3. LinksInv
    BY <1>1 DEF LinksInv
  <2>4. StackTop \in StackBase .. StackTop
    BY Bounds
  <2> QED
    BY <1>1, <2>2, <2>3, <2>4 DEF RunningInv
<1>8. HeightInv
  <2>1. Balanced(Code)
    BY <1>3 DEF Code, Pieces, WellFormed
  <2> QED
    BY <1>1, <2>1, Bounds DEF HeightInv, Level, HeightAt, Balanced
<1> QED
  BY <1>4, <1>5, <1>6, <1>7, <1>8 DEF MachineInv

\* What stops the machine.
LEMMA Stopping ==
    ASSUME MachineInv,
           \/ PcOutOfBounds \/ AccessViolation \/ StoreViolation \/ StrayAccess \/ DivideByZero
           \/ Finish \/ Mismatch \/ StackOverflow \/ StrayPop \/ NativeViolation
    PROVE  MachineInv'
<1>1. PICK s \in Statuses \ {"running"} : EndWith(s)
  BY DEF PcOutOfBounds, AccessViolation, StoreViolation, StrayAccess, DivideByZero, Finish,
         Mismatch, StackOverflow, StrayPop, NativeViolation, Statuses
<1> QED
  BY <1>1, StopKeeps

\* A step that changes nothing.
LEMMA Stuttering ==
    ASSUME MachineInv, UNCHANGED vars, UNCHANGED links \/ status # "running"
    PROVE  MachineInv'
<1>1. RegistersInv' /\ MemoryInv' /\ BlocksInv' /\ HeightInv'
  BY DEF vars, MachineInv, RegistersInv, ImageInv, MemoryInv, BlocksInv, HeightInv, Code,
         Pieces, GlobalData
<1>2. CASE status # "running"
  BY <1>1, <1>2 DEF vars, MachineInv, RunningInv
<1>3. CASE UNCHANGED links
  <2>1. RunningInv'
    BY <1>3 DEF vars, MachineInv, RunningInv, LinksInv, LinkInv, SavedBp, Code, Pieces
  <2> QED
    BY <1>1, <2>1 DEF MachineInv
<1> QED
  BY <1>2, <1>3

\* Each instruction keeps the invariant, while pointers spare the links.
LEMMA MachineStep ==
    ASSUME MachineInv, PointersSpareLinks, [FullNext]_fullVars
    PROVE  MachineInv'
<1>1. CASE (MovRR \/ Li \/ DataPtr) /\ Observe
  BY <1>1, RegisterMoves
<1>2. CASE (Compute \/ Compare \/ Divide) /\ Observe
  BY <1>2, Calculations
<1>3. CASE (Jmp \/ Jz) /\ Observe
  BY <1>3, Jumping
<1>4. CASE Incr /\ Observe
  BY <1>4, Incrementing
<1>5. CASE MovRM /\ Observe
  BY <1>5, Loading
<1>6. CASE MovMR /\ Observe
  BY <1>6, Storing
<1>7. CASE MemZero /\ Observe
  BY <1>7, Zeroing
<1>8. CASE Push /\ Observe
  BY <1>8, Pushing
<1>9. CASE Pop /\ Observe
  BY <1>9, Popping
<1>10. CASE Call /\ Observe
  BY <1>10, Calling
<1>11. CASE Ret /\ Observe
  BY <1>11, Returning
<1>12. CASE (printi \/ printc \/ prints) /\ Observe
  BY <1>12, Printing
<1>13. CASE malloc /\ Observe
  BY <1>13, Allocating
<1>14. CASE mfree /\ Observe
  BY <1>14, Freeing
<1>15. CASE memcpy /\ Observe
  BY <1>15, Copying
<1>16. CASE \/ PcOutOfBounds \/ AccessViolation \/ StoreViolation \/ StrayAccess \/ DivideByZero
             \/ Finish \/ Mismatch \/ StackOverflow \/ StrayPop \/ NativeViolation
  BY <1>16, Stopping
<1>17. CASE Ended
  BY <1>17, Stuttering DEF Ended
<1>18. CASE UNCHANGED fullVars
  BY <1>18, Stuttering DEF fullVars
<1> QED
  BY <1>1, <1>2, <1>3, <1>4, <1>5, <1>6, <1>7, <1>8, <1>9, <1>10, <1>11, <1>12, <1>13, <1>14, <1>15, <1>16, <1>17, <1>18 DEF FullNext

-----------------------------------------------------------------------------
(* What the properties say *)

\* The registers, bytes and status have their types.
LEMMA InvMeansTypeOK == MachineInv => TypeOK
<1> SUFFICES ASSUME MachineInv PROVE TypeOK
  OBVIOUS
<1>1. \A r \in DOMAIN registers : registers[r] = Word64(registers[r])
  BY Word64Same DEF MachineInv, RegistersInv
<1> QED
  BY <1>1 DEF MachineInv, RegistersInv, MemoryInv, TypeOK, Pieces, Statuses

\* The place of the program counter is that of an instruction.
LEMMA InvMeansFetches == MachineInv => FetchesInstructions
<1> SUFFICES ASSUME MachineInv, status = "running", InBounds
             PROVE  InstructionAt(Code, registers.pc)
  BY DEF FetchesInstructions
<1>1. registers.pc \in Places(Code) /\ registers.pc < Len(Code)
  BY DEF MachineInv, RunningInv, InBounds
<1>2. registers.pc # Len(Code)
  <2>1. Code \in Seq(Words)
    BY ImageFacts DEF MachineInv
  <2> QED
    BY <1>1, <2>1
<1> QED
  BY <1>1, <1>2 DEF Places

\* What a return would load is what the call saved.
LEMMA InvMeansLinks == MachineInv => LinksIntact
<1> SUFFICES ASSUME MachineInv, status = "running"
             PROVE  /\ registers.bp = IF links = << >> THEN StackTop ELSE Last(links).place
                    /\ \A k \in DOMAIN links :
                         LET link == links[k]
                         IN  /\ Word64(Load(link.place, 8)) = link.bp
                             /\ Word32(Load(link.place + 8, 4)) = link.piece_index
                             /\ Word32(Load(link.place + 12, 4)) = link.pc
  BY DEF LinksIntact
<1>1. registers.bp = IF links = << >> THEN StackTop ELSE Last(links).place
  BY DEF MachineInv, RunningInv, LinksInv, Last
<1>2. ASSUME NEW k \in DOMAIN links
      PROVE  /\ Word64(Load(links[k].place, 8)) = links[k].bp
             /\ Word32(Load(links[k].place + 8, 4)) = links[k].piece_index
             /\ Word32(Load(links[k].place + 12, 4)) = links[k].pc
  BY <1>2, SavedValues
<1> QED
  BY <1>1, <1>2

\* The stack pointer is in the stack.
LEMMA InvMeansInStack == MachineInv => StaysInStack
  BY DEF MachineInv, RunningInv, StaysInStack

\* The depths that were recorded are those that the code alone gives.
DepthsInv ==
    \A h \in DOMAIN depths : depths[h] = HeightAt(Pieces[h[1] + 1], h[2])

\* A step records the height of the frame where it starts.
LEMMA DepthsStep ==
    ASSUME MachineInv, DepthsInv, [FullNext]_fullVars
    PROVE  DepthsInv'
<1>1. program' = program
  BY DEF FullNext, fullVars, vars, PcOutOfBounds, MovRR, Li, DataPtr, MovRM, MovMR, MemZero,
         AccessViolation, StoreViolation, StrayAccess, StrayPop, Push, Pop, Incr, Jmp, Jz, Compute, Compare, Divide,
         DivideByZero, Call, Ret, Finish, Mismatch, StackOverflow, printi, printc, prints,
         malloc, mfree, memcpy, NativeViolation, Ended, SetRegister, EndWith, PrintOut
<1>2. Pieces' = Pieces
  BY <1>1 DEF Pieces
<1>3. CASE UNCHANGED depths
  BY <1>2, <1>3 DEF DepthsInv
<1>4. CASE depths' = Join(depths, [h \in {Here} |-> Height])
  <2>1. Height = HeightAt(Pieces[Here[1] + 1], Here[2])
    BY DEF MachineInv, HeightInv, Level, Height, Here, Code, Pieces
  <2>2. /\ DOMAIN depths' = DOMAIN depths \cup {Here}
        /\ \A h \in DOMAIN depths' : depths'[h] = IF h = Here THEN Height ELSE depths[h]
    BY <1>4 DEF Join
  <2> HIDE DEF Here, Height
  <2> QED
    BY <1>2, <2>1, <2>2 DEF DepthsInv
<1>5. UNCHANGED depths \/ depths' = Join(depths, [h \in {Here} |-> Height])
  BY Zenon DEF FullNext, fullVars, Observe
<1> QED
  BY <1>3, <1>4, <1>5

\* The frame is now as high as it was recorded here.
LEMMA InvMeansStatic == MachineInv /\ DepthsInv => DepthIsStatic
<1> SUFFICES ASSUME MachineInv, DepthsInv, Here \in DOMAIN depths
             PROVE  Height = depths[Here]
  BY DEF DepthIsStatic
<1>1. Height = HeightAt(Pieces[Here[1] + 1], Here[2])
  BY DEF MachineInv, HeightInv, Level, Height, Here, Code, Pieces
<1> QED
  BY <1>1 DEF DepthsInv

\* The machine does not end for want of an instruction or of the link of its frame.
Unlost == status \notin {"no_instructions", "pc_out_of_bounds", "mismatch"}

LEMMA UnlostStarts ==
    ASSUME MachineInv, FullInit
    PROVE  Unlost
<1>1. Balanced(Code) /\ Code \in Seq(Words)
  BY ImageFacts DEF MachineInv, WellFormed
<1>2. Code # << >>
  <2> SUFFICES ASSUME Code = << >> PROVE FALSE
    OBVIOUS
  <2>1. Len(Code) = 0
    OBVIOUS
  <2>2. Heights(Code)[1] = 0 /\ Heights(Code)[0 + 1] = Unreached
    BY <1>1, <2>1 DEF Balanced
  <2> QED
    BY <2>2 DEF Unreached
<1> QED
  BY <1>2 DEF FullInit, Init, Unlost

LEMMA UnlostStays ==
    ASSUME MachineInv, Unlost, [FullNext]_fullVars
    PROVE  Unlost'
<1>1. CASE status' = status
  BY <1>1 DEF Unlost
<1>2. CASE status' # status
  <2>1. /\ status = "running"
        /\ \/ PcOutOfBounds \/ AccessViolation \/ StoreViolation \/ StrayAccess \/ DivideByZero
           \/ Finish \/ Mismatch \/ StackOverflow \/ StrayPop \/ NativeViolation
    BY <1>2 DEF FullNext, fullVars, vars, PcOutOfBounds, MovRR, Li, DataPtr, MovRM, MovMR, MemZero,
         AccessViolation, StoreViolation, StrayAccess, StrayPop, Push, Pop, Incr, Jmp, Jz, Compute, Compare, Divide,
         DivideByZero, Call, Ret, Finish, Mismatch, StackOverflow, printi, printc, prints,
         malloc, mfree, memcpy, NativeViolation, Ended, SetRegister, PrintOut, Executes
  <2>2. ~PcOutOfBounds
    BY <2>1, GoesOn DEF PcOutOfBounds
  <2>3. ~Mismatch
    BY <2>1, GoesOn DEF Mismatch, Executes
  <2> QED
    BY <2>1, <2>2, <2>3 DEF AccessViolation, StoreViolation, StrayAccess, DivideByZero,
                            Finish, StackOverflow, StrayPop, NativeViolation, EndWith, Unlost
<1> QED
  BY <1>1, <1>2

-----------------------------------------------------------------------------
(***************************************************************************)
(* The theorems: for every image that is well formed, while the program    *)
(* follows no pointer to a link.                                           *)
(***************************************************************************)
\* The invariant always holds.
LEMMA Invariance ==
    FullSpec /\ CodeIsWellFormed /\ []PointersSpareLinks => [](MachineInv /\ DepthsInv /\ Unlost)
<1>1. FullInit /\ CodeIsWellFormed => MachineInv /\ DepthsInv /\ Unlost
  BY Starting, UnlostStarts DEF FullInit, DepthsInv
<1>2. MachineInv /\ DepthsInv /\ Unlost /\ PointersSpareLinks /\ [FullNext]_fullVars
      => (MachineInv /\ DepthsInv /\ Unlost)'
  BY MachineStep, DepthsStep, UnlostStays
<1> QED
  BY <1>1, <1>2, PTL DEF FullSpec

\* The registers, the memory and the status of the machine have their types, whatever
\* well-formed code it executes.
THEOREM TypeCorrect == FullSpec /\ CodeIsWellFormed /\ []PointersSpareLinks => []TypeOK
  BY Invariance, InvMeansTypeOK, PTL

\* The machine fetches an instruction, never an immediate: where a jump leads, where a call
\* starts and where a return goes on.
THEOREM InstructionsFetched ==
    FullSpec /\ CodeIsWellFormed /\ []PointersSpareLinks => []FetchesInstructions
  BY Invariance, InvMeansFetches, PTL

\* What a call has saved is in memory until its return, as CALL wrote it and RET reads it:
\* no push, store, call or native function in between changes a byte of it.
THEOREM LinksKept == FullSpec /\ CodeIsWellFormed /\ []PointersSpareLinks => []LinksIntact
  BY Invariance, InvMeansLinks, PTL

\* The stack pointer is in the stack while the machine runs.
THEOREM StackKept == FullSpec /\ CodeIsWellFormed /\ []PointersSpareLinks => []StaysInStack
  BY Invariance, InvMeansInStack, PTL

\* An instruction finds the same frame each time it is executed: a test of the code alone,
\* one path to each place after the other, tells how high the stack is when the machine is
\* there, whatever the data and however deep the calls.
THEOREM DepthKept == FullSpec /\ CodeIsWellFormed /\ []PointersSpareLinks => []DepthIsStatic
  BY Invariance, InvMeansStatic, PTL

\* The machine never runs past the end of a function and never meets the return of one with
\* a frame that is not empty: where INST_RET tests sp against bp, they are equal.
THEOREM NeverLost ==
    FullSpec /\ CodeIsWellFormed /\ []PointersSpareLinks
        => [](status \notin {"no_instructions", "pc_out_of_bounds", "mismatch"})
<1>1. Unlost => status \notin {"no_instructions", "pc_out_of_bounds", "mismatch"}
  BY DEF Unlost
<1> QED
  BY <1>1, Invariance, PTL

\* Where the next instruction stores to its own frame.
FrameStores ==
    IF Executes({"INST_MOV_MR_DISP"}) /\ inst.op0 = "bp"
    THEN Addresses(registers.bp + imm, inst.arg) ELSE {}

\* What an instruction stores by the base pointer is in the part of the frame that is in
\* use, from the stack pointer up to the link of the function: a local or a result is never
\* where the next push would overwrite it, and never in what the caller has.
THEOREM FrameStoresKept ==
    FullSpec /\ CodeIsWellFormed /\ []PointersSpareLinks
        => [](FrameStores \subseteq registers.sp .. (registers.bp - 1))
<1>1. MachineInv => FrameStores \subseteq registers.sp .. (registers.bp - 1)
  <2> SUFFICES ASSUME MachineInv, NEW b \in FrameStores
               PROVE  b \in registers.sp .. (registers.bp - 1)
    OBVIOUS
  <2>1. /\ status = "running" /\ InBounds /\ inst.opcode = "INST_MOV_MR_DISP" /\ inst.op0 = "bp"
        /\ b \in Addresses(registers.bp + imm, inst.arg)
    BY DEF FrameStores, Executes
  <2>2. WellAimed(Pieces, Code, registers.pc) /\ imm \in Int /\ inst.arg \in Int
    BY <2>1, Fetched, Operands DEF MachineInv, Immediates
  <2>3. imm + inst.arg <= 0
    BY <2>1, <2>2 DEF WellAimed, inst, imm
  <2>4. registers.bp - registers.sp + imm >= 0
    BY <2>1, GoesOn
  <2>5. registers.sp \in Int /\ registers.bp \in Int
    BY Bounds DEF MachineInv, RegistersInv, RegisterName, Register
  <2> QED
    BY <2>1, <2>2, <2>3, <2>4, <2>5 DEF Addresses
<1> QED
  BY <1>1, Invariance, PTL

\* INCR adds what emit_incr was given just when the low byte of it is below 128, or it is
\* -128 or more and below 0: op1 is a signed byte, and its sign spreads over op2.
THEOREM IncrementKept ==
    \A n \in Int : -32768 <= n /\ n < 32768 =>
        ((IncrementOf(n % 65536) = n) <=> (n % 256 < 128 \/ (-128 <= n /\ n < 0)))
<1> SUFFICES ASSUME NEW n \in Int, -32768 <= n, n < 32768
             PROVE  (IncrementOf(n % 65536) = n) <=> (n % 256 < 128 \/ (-128 <= n /\ n < 0))
  OBVIOUS
<1> DEFINE arg  == n % 65536
           low  == arg % 256
           high == arg \div 256
<1>1. arg \in Int /\ arg = IF n >= 0 THEN n ELSE n + 65536
  OBVIOUS
<1>2. /\ low \in Int /\ 0 <= low /\ low < 256
      /\ high \in Int /\ 0 <= high /\ high < 256
      /\ arg = 256 * high + low /\ low = n % 256
  BY <1>1
<1>3. IncrementOf(arg) = IF low >= 128 THEN low - 256
                         ELSE (IF high >= 128 THEN high - 256 ELSE high) * 256 + low
  BY DEF IncrementOf
<1> HIDE DEF arg, low, high
<1> QED
  BY <1>1, <1>2, <1>3 DEF arg
=============================================================================
