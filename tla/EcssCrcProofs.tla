--------------------------- MODULE EcssCrcProofs ---------------------------
(***************************************************************************)
(* Proofs about EcssCrc, for every message and every polynomial whose last *)
(* coefficient is 1.                                                       *)
(***************************************************************************)
EXTENDS EcssCrc, SequenceTheorems, WellFoundedInduction, TLAPS

(* A shift maps registers to registers.                                    *)
LEMMA ShiftType == ASSUME NEW r \in Register PROVE Shift(r) \in Register
<1>1. ShiftLeft(r) \in Register
  <2>1. \A b \in r \ {15} : b \in 0..14 /\ b + 1 \in 0..15
    BY DEF Register
  <2> QED
    BY <2>1 DEF ShiftLeft, Register
<1>2. Xor(ShiftLeft(r), crc_polynomial) \in Register
  BY <1>1, PolynomialAssumption DEF Xor, Register
<1> QED
  BY <1>1, <1>2 DEF Shift

(* No two registers are shifted to the same one: the bit that is pushed    *)
(* out shows in position 0, and with it every other bit one position up.   *)
LEMMA ShiftInjective ==
    ASSUME NEW r \in Register, NEW s \in Register, Shift(r) = Shift(s)
    PROVE  r = s
<1>1. \A b \in 0..15 :
         b \in Shift(r) <=> (((b - 1) \in r /\ b - 1 \in 0..14)
                              # (15 \in r /\ b \in crc_polynomial))
  BY DEF Shift, ShiftLeft, Xor, Register
<1>2. \A b \in 0..15 :
         b \in Shift(s) <=> (((b - 1) \in s /\ b - 1 \in 0..14)
                              # (15 \in s /\ b \in crc_polynomial))
  BY DEF Shift, ShiftLeft, Xor, Register
<1>3. 15 \in r <=> 15 \in s
  <2>1. ~(0 - 1 \in 0..14) /\ 0 \in 0..15
    OBVIOUS
  <2> QED
    BY <1>1, <1>2, <2>1, PolynomialAssumption
<1>4. ASSUME NEW b \in 0..14 PROVE b \in r <=> b \in s
  <2>1. b + 1 \in 0..15 /\ (b + 1) - 1 = b
    OBVIOUS
  <2> QED
    BY <1>1, <1>2, <1>3, <2>1
<1>5. \A b \in 0..15 : b \in r <=> b \in s
  BY <1>3, <1>4
<1> QED
  BY <1>5 DEF Register

(* Eight shifts map registers to registers.                                *)
LEMMA EightShiftsType ==
    ASSUME NEW r \in Register PROVE EightShifts(r) \in Register
BY ShiftType DEF EightShifts

-----------------------------------------------------------------------------
(* The byte goes to the upper half of the register and leaves the lower.   *)
LEMMA UpperBits ==
    ASSUME NEW r \in Register, NEW byte \in Byte
    PROVE  /\ Xor(r, Upper(byte)) \in Register
           /\ \A b \in 0..7 : b \in Xor(r, Upper(byte)) <=> b \in r
           /\ \A b \in 8..15 :
                 b \in Xor(r, Upper(byte)) <=> ((b \in r) # (b - 8 \in byte))
<1>1. \A b \in 0..15 : b \in Upper(byte) <=> (b - 8 \in byte)
  BY DEF Upper, Byte
<1>2. Upper(byte) \subseteq 8..15
  BY DEF Upper, Byte
<1>3. Xor(r, Upper(byte)) \in Register
  <2>1. \A b \in Upper(byte) : b \in 0..15
    BY <1>2
  <2>2. \A b \in r : b \in 0..15
    BY DEF Register
  <2>3. \A b \in Xor(r, Upper(byte)) : b \in 0..15
    BY <2>1, <2>2 DEF Xor
  <2> QED
    BY <2>3 DEF Register
<1>4. \A b \in 0..7 : b \in Xor(r, Upper(byte)) <=> b \in r
  BY <1>2 DEF Xor, Register
<1>5. \A b \in 8..15 :
         b \in Xor(r, Upper(byte)) <=> ((b \in r) # (b - 8 \in byte))
  BY <1>1 DEF Xor, Register
<1> QED
  BY <1>3, <1>4, <1>5

(* A step maps registers to registers.                                     *)
LEMMA ByteStepType ==
    ASSUME NEW r \in Register, NEW byte \in Byte
    PROVE  ByteStep(r, byte) \in Register
BY UpperBits, EightShiftsType DEF ByteStep

-----------------------------------------------------------------------------
(* The checksum takes a register to zero.  A register with nothing in its  *)
(* upper half is only moved by eight shifts.                               *)
LEMMA ShiftMoves ==
    ASSUME NEW r \in Register, 15 \notin r
    PROVE  Shift(r) = {b + 1 : b \in r}
BY DEF Shift, ShiftLeft

(* Eight shifts of a register with an empty upper half only move it.       *)
LEMMA EightShiftsMove ==
    ASSUME NEW r \in Register, r \subseteq 0..7
    PROVE  EightShifts(r) = Upper(r)
<1> DEFINE M(n) == {b + n : b \in r}
<1>1. \A n \in 0..8 : M(n) \in Register
  BY DEF Register
<1>2. \A n \in 0..7 : Shift(M(n)) = M(n + 1)
  <2> TAKE n \in 0..7
  <2>1. 15 \notin M(n) /\ M(n) \in Register
    <3>1. \A b \in r : b \in 0..7 /\ b + n # 15
      OBVIOUS
    <3>2. 15 \notin M(n)
      BY <3>1
    <3>3. n \in 0..8
      OBVIOUS
    <3> HIDE DEF M
    <3> QED
      BY <1>1, <3>2, <3>3
  <2>2. Shift(M(n)) = {b + 1 : b \in M(n)}
    BY <2>1, ShiftMoves
  <2>3. \A b \in r : (b + n) + 1 = b + (n + 1)
    BY DEF Register
  <2> QED
    BY <2>2, <2>3
<1>3. M(0) = r
  <2>1. \A b \in r : b + 0 = b
    OBVIOUS
  <2> QED
    BY <2>1
<1>4. M(8) = Upper(r)
  BY DEF Upper
<1> HIDE DEF M
<1>5. /\ Shift(M(0)) = M(1) /\ Shift(M(1)) = M(2) /\ Shift(M(2)) = M(3)
      /\ Shift(M(3)) = M(4) /\ Shift(M(4)) = M(5) /\ Shift(M(5)) = M(6)
      /\ Shift(M(6)) = M(7) /\ Shift(M(7)) = M(8)
  <2>1. \A n \in {0, 1, 2, 3, 4, 5, 6, 7} : Shift(M(n)) = M(n + 1)
    BY <1>2
  <2> QED
    BY <2>1
<1> QED
  BY <1>3, <1>4, <1>5 DEF EightShifts

(* Both bytes of a register are bytes.                                     *)
LEMMA RegisterBytes ==
    ASSUME NEW r \in Register
    PROVE  HighByte(r) \in Byte /\ LowByte(r) \in Byte
BY DEF HighByte, LowByte, Byte, Register

(* A register that takes its own two bytes becomes zero.                   *)
LEMMA ChecksumClears ==
    ASSUME NEW r \in Register
    PROVE  ByteStep(ByteStep(r, HighByte(r)), LowByte(r)) = {}
<1>1. \A b \in 8..15 : (b - 8 \in HighByte(r)) <=> b \in r
  <2>1. \A b, c \in 8..15 : b - 8 = c - 8 => b = c
    OBVIOUS
  <2> QED
    BY <2>1 DEF HighByte, Register
<1>2. HighByte(r) \in Byte /\ LowByte(r) \in Byte
  BY RegisterBytes
<1>3. Xor(r, Upper(HighByte(r))) = LowByte(r)
  <2>1. \A b \in 0..15 :
           b \in Xor(r, Upper(HighByte(r))) <=> b \in LowByte(r)
    <3>1. \A b \in 8..15 : b \notin Xor(r, Upper(HighByte(r)))
      BY <1>1, <1>2, UpperBits
    <3>2. \A b \in 0..7 : b \in Xor(r, Upper(HighByte(r))) <=> b \in r
      BY <1>2, UpperBits
    <3> QED
      BY <3>1, <3>2 DEF LowByte
  <2>2. Xor(r, Upper(HighByte(r))) \in Register /\ LowByte(r) \in Register
    BY <1>2, UpperBits DEF LowByte, Register
  <2> QED
    BY <2>1, <2>2 DEF Register
<1>4. LowByte(r) \in Register /\ LowByte(r) \subseteq 0..7
  BY DEF LowByte, Register
<1>5. ByteStep(r, HighByte(r)) = Upper(LowByte(r))
  BY <1>3, <1>4, EightShiftsMove DEF ByteStep
<1>6. Xor(Upper(LowByte(r)), Upper(LowByte(r))) = {}
  BY DEF Xor
<1>7. EightShifts({}) = {}
  <2>1. {} \in Register /\ {} \subseteq 0..7 /\ Upper({}) = {}
    BY DEF Register, Upper
  <2> QED
    BY <2>1, EightShiftsMove
<1> QED
  BY <1>5, <1>6, <1>7 DEF ByteStep

-----------------------------------------------------------------------------
(* Induction, for a set of numbers.  The library states it for a predicate *)
(* and well-foundedness for a relation.                                    *)
LEMMA LeastBy ==
    ASSUME NEW R, IsWellFoundedOn(R, Nat),
           \A m, n \in Nat : <<n, m>> \in R <=> n < m,
           NEW T, T \subseteq Nat, T # {}
    PROVE  \E m \in T : \A n \in T : m <= n
<1>1. PICK m \in T : \A n \in T : ~(<<n, m>> \in R)
  BY WFMin
<1>2. m \in Nat /\ \A n \in T : n \in Nat
  OBVIOUS
<1>3. \A n \in T : ~(n < m)
  BY <1>1, <1>2
<1>4. \A n \in T : m <= n
  BY <1>2, <1>3
<1> QED
  BY <1>4

(* The least element of a set of numbers.                                  *)
LEMMA LeastNumber ==
    ASSUME NEW T, T \subseteq Nat, T # {}
    PROVE  \E m \in T : \A n \in T : m <= n
<1> DEFINE R == OpToRel(<, Nat)
<1>1. IsWellFoundedOn(R, Nat)
  BY NatLessThanWellFounded
<1>2. \A m, n \in Nat : <<n, m>> \in R <=> n < m
  BY DEF OpToRel
<1> HIDE DEF R
<1> QED
  BY <1>1, <1>2, LeastBy

(* A set of numbers with 0 and with the successor of each of its elements  *)
(* has every number.                                                       *)
LEMMA Induction ==
    ASSUME NEW P, 0 \in P, \A n \in Nat : n \in P => n + 1 \in P
    PROVE  \A n \in Nat : n \in P
<1> DEFINE T == {n \in Nat : n \notin P}
<1> SUFFICES ASSUME T # {} PROVE FALSE
  OBVIOUS
<1>1. PICK m \in T : \A n \in T : m <= n
  BY LeastNumber
<1>2. m # 0 /\ m - 1 \in Nat /\ m - 1 \notin T /\ (m - 1) + 1 = m
  BY <1>1
<1> QED
  BY <1>2

-----------------------------------------------------------------------------
(* What the definition of Remainder says of a function f that has its      *)
(* value for n - 1.                                                        *)
Division(f, n) ==
    [p \in Poly(n) |-> IF n = 0 THEN p ELSE f[n - 1][Cancel(p, n)]]

(* f is Remainder as far as k.                                             *)
DividesTo(f, k) == f = [n \in 0..k |-> Division(f, n)]

(* A step of the division looks only at the step below.                    *)
LEMMA DivisionLocal ==
    ASSUME NEW f, NEW g, NEW n \in Nat, n > 0 => f[n - 1] = g[n - 1]
    PROVE  Division(f, n) = Division(g, n)
BY DEF Division

(* As far as two such functions go, they are the same.                     *)
LEMMA DivisionUnique ==
    ASSUME NEW f, NEW g, NEW k \in Nat, NEW m \in Nat, k <= m,
           DividesTo(f, k), DividesTo(g, m)
    PROVE  \A n \in 0..k : f[n] = g[n]
<1>1. \A n \in 0..k : f[n] = Division(f, n) /\ g[n] = Division(g, n)
  <2>1. \A n \in 0..k : [i \in 0..k |-> Division(f, i)][n] = Division(f, n)
    OBVIOUS
  <2>2. \A n \in 0..k : n \in 0..m
    OBVIOUS
  <2>3. \A n \in 0..m : [i \in 0..m |-> Division(g, i)][n] = Division(g, n)
    OBVIOUS
  <2>4. /\ f = [i \in 0..k |-> Division(f, i)]
        /\ g = [i \in 0..m |-> Division(g, i)]
    BY DEF DividesTo
  <2> QED
    BY <2>1, <2>2, <2>3, <2>4, Zenon
<1> DEFINE P == {n \in Nat : n <= k => f[n] = g[n]}
<1>2. 0 \in P
  BY <1>1, DivisionLocal
<1>3. ASSUME NEW n \in Nat, n \in P PROVE n + 1 \in P
  <2>1. CASE n + 1 <= k
    <3>1. n + 1 \in 0..k /\ (n + 1) - 1 = n /\ n <= k
      BY <2>1
    <3>2. f[n] = g[n]
      BY <1>3, <3>1
    <3>3. Division(f, n + 1) = Division(g, n + 1)
      BY <3>1, <3>2, DivisionLocal
    <3> QED
      BY <1>1, <3>1, <3>3
  <2>2. CASE ~(n + 1 <= k)
    BY <2>2
  <2> QED
    BY <2>1, <2>2
<1> HIDE DEF P
<1>4. \A n \in Nat : n \in P
  BY <1>2, <1>3, Induction
<1> QED
  BY <1>4 DEF P

(* There is one as far as any k: it is extended from k to k + 1.           *)
LEMMA DivisionExists == \A k \in Nat : \E f : DividesTo(f, k)
<1> DEFINE P == {k \in Nat : \E f : DividesTo(f, k)}
<1>1. 0 \in P
  <2> DEFINE f == [n \in 0..0 |-> Division(<<>>, n)]
  <2>1. \A n \in 0..0 : Division(<<>>, n) = Division(f, n)
    BY DivisionLocal
  <2>2. f = [n \in 0..0 |-> Division(f, n)]
    BY <2>1, Zenon
  <2> QED
    BY <2>2 DEF DividesTo
<1>2. ASSUME NEW k \in Nat, k \in P PROVE k + 1 \in P
  <2>1. PICK f : DividesTo(f, k)
    BY <1>2
  <2> DEFINE g == [n \in 0..(k + 1) |-> Division(f, n)]
  <2>2. \A n \in 0..k : f[n] = g[n]
    <3>1. \A n \in 0..k : [i \in 0..k |-> Division(f, i)][n] = Division(f, n)
      OBVIOUS
    <3>2. \A n \in 0..k : n \in 0..(k + 1)
      OBVIOUS
    <3>3. \A n \in 0..(k + 1) : g[n] = Division(f, n)
      OBVIOUS
    <3> QED
      BY <2>1, <3>1, <3>2, <3>3, Zenon DEF DividesTo
  <2>3. \A n \in 0..(k + 1) : Division(f, n) = Division(g, n)
    <3> HIDE DEF g
    <3> TAKE n \in 0..(k + 1)
    <3>1. n \in Nat /\ (n > 0 => n - 1 \in 0..k)
      OBVIOUS
    <3> QED
      BY <2>2, <3>1, DivisionLocal
  <2>4. g = [n \in 0..(k + 1) |-> Division(g, n)]
    BY <2>3, Zenon
  <2>5. DividesTo(g, k + 1)
    BY <2>4 DEF DividesTo
  <2> QED
    BY <2>5
<1> HIDE DEF P
<1>3. \A n \in Nat : n \in P
  BY <1>1, <1>2, Induction
<1> QED
  BY <1>3 DEF P

(* Remainder is well defined: at n it is the function that goes as far as  *)
(* n.                                                                      *)
LEMMA RemainderDef == Remainder = [n \in Nat |-> Division(Remainder, n)]
<1> DEFINE F(k) == CHOOSE f : DividesTo(f, k)
           g == [n \in Nat |-> F(n)[n]]
<1>1. \A k \in Nat : DividesTo(F(k), k)
  BY DivisionExists
<1> HIDE DEF F
<1>2. \A n \in Nat : F(n)[n] = Division(F(n), n)
  <2> TAKE n \in Nat
  <2>1. F(n) = [i \in 0..n |-> Division(F(n), i)] /\ n \in 0..n
    BY <1>1 DEF DividesTo
  <2>2. [i \in 0..n |-> Division(F(n), i)][n] = Division(F(n), n)
    BY <2>1
  <2> QED
    BY <2>1, <2>2, Zenon
<1>3. \A n \in Nat : Division(F(n), n) = Division(g, n)
  <2> TAKE n \in Nat
  <2>1. CASE n > 0
    <3>1. n - 1 \in Nat /\ n - 1 <= n /\ n - 1 \in 0..(n - 1)
      BY <2>1
    <3>2. F(n - 1)[n - 1] = F(n)[n - 1]
      BY <1>1, <3>1, DivisionUnique
    <3>3. g[n - 1] = F(n - 1)[n - 1]
      BY <3>1
    <3> HIDE DEF g
    <3> QED
      BY <3>2, <3>3, DivisionLocal
  <2>2. CASE ~(n > 0)
    <3> HIDE DEF g
    <3> QED
      BY <2>2, DivisionLocal
  <2> QED
    BY <2>1, <2>2
<1>4. g = [n \in Nat |-> Division(g, n)]
  BY <1>2, <1>3, Zenon
<1> HIDE DEF g
<1>5. \E f : f = [n \in Nat |-> Division(f, n)]
  BY <1>4
<1>6. Remainder = CHOOSE f : f = [n \in Nat |-> Division(f, n)]
  BY Zenon DEF Remainder, Division
<1> QED
  BY <1>5, <1>6, Zenon

-----------------------------------------------------------------------------

(* Polynomials bit by bit.                                                 *)
Divisor == crc_polynomial \cup {16}

(* The bits of a product with a power of x.                                *)
LEMMA TimesBits ==
    ASSUME NEW m \in Nat, NEW p \in Poly(m), NEW n \in Nat
    PROVE  /\ Times(p, n) \in Poly(m + n)
           /\ \A e \in Int : e \in Times(p, n) <=> e - n \in p
<1>1. \A e \in p : e \in 0..(15 + m) /\ e + n \in 0..(15 + (m + n))
  BY DEF Poly
<1>2. ASSUME NEW e \in Int PROVE e \in Times(p, n) <=> e - n \in p
  <2>1. \A b \in p : e = b + n <=> b = e - n
    BY <1>1
  <2> QED
    BY <2>1 DEF Times
<1> QED
  BY <1>1, <1>2 DEF Times, Poly

(* The bits of a polynomial of which the leading term is cancelled; it has *)
(* one coefficient fewer.                                                  *)
LEMMA CancelBits ==
    ASSUME NEW n \in Nat, NEW p \in Poly(n + 1)
    PROVE  /\ Cancel(p, n + 1) \in Poly(n)
           /\ \A e \in Int : e \in Cancel(p, n + 1)
                 <=> ((e \in p) # (16 + n \in p /\ e - n \in Divisor))
<1>1. 15 + (n + 1) = 16 + n /\ (n + 1) - 1 = n
  OBVIOUS
<1>2. Divisor \in Poly(1) /\ \A e \in Divisor : e \in 0..16
  BY PolynomialAssumption DEF Divisor, Poly, Register
<1>3. /\ \A e \in Int : e \in Times(Divisor, n) <=> e - n \in Divisor
      /\ \A e \in Times(Divisor, n) : e \in 0..(16 + n)
  <2>1. /\ Times(Divisor, n) \in Poly(1 + n)
        /\ \A e \in Int : e \in Times(Divisor, n) <=> e - n \in Divisor
    BY <1>2, TimesBits
  <2>2. 15 + (1 + n) = 16 + n
    OBVIOUS
  <2> QED
    BY <2>1, <2>2 DEF Poly
<1>4. \A e \in p : e \in 0..(16 + n)
  BY DEF Poly
<1>5. Cancel(p, n + 1) = IF 16 + n \in p THEN Xor(p, Times(Divisor, n)) ELSE p
  BY <1>1 DEF Cancel, Divisor
<1>6. ASSUME NEW e \in Int
      PROVE  e \in Cancel(p, n + 1)
                <=> ((e \in p) # (16 + n \in p /\ e - n \in Divisor))
  BY <1>3, <1>5 DEF Xor
<1>7. ASSUME NEW e \in Cancel(p, n + 1) PROVE e \in 0..(15 + n)
  <2>1. e \in 0..(16 + n)
    BY <1>3, <1>4, <1>5, <1>7 DEF Xor
  <2>2. e # 16 + n
    <3>1. (16 + n) - n \in Divisor
      BY DEF Divisor
    <3> QED
      BY <1>6, <1>7, <2>1, <3>1
  <2> QED
    BY <2>1, <2>2
<1> QED
  BY <1>6, <1>7 DEF Poly

(* The bits of a sum.                                                      *)
LEMMA XorBits ==
    ASSUME NEW m \in Nat, NEW p \in Poly(m), NEW q \in Poly(m)
    PROVE  /\ Xor(p, q) \in Poly(m)
           /\ \A e : e \in Xor(p, q) <=> ((e \in p) # (e \in q))
BY DEF Xor, Poly

(* Two polynomials with the same bits are the same.                        *)
LEMMA SameBits ==
    ASSUME NEW m \in Nat, NEW p \in Poly(m), NEW q \in Poly(m),
           \A e \in Int : e \in p <=> e \in q
    PROVE  p = q
<1>1. \A e \in p : e \in Int
  BY DEF Poly
<1>2. \A e \in q : e \in Int
  BY DEF Poly
<1> QED
  BY <1>1, <1>2

(* The steps of the long division, as the definition of Remainder has      *)
(* them.                                                                   *)
LEMMA RemainderStep ==
    /\ \A p \in Poly(0) : Remainder[0][p] = p
    /\ \A n \in Nat : \A p \in Poly(n + 1) :
          Remainder[n + 1][p] = Remainder[n][Cancel(p, n + 1)]
<1>1. \A n \in Nat : Remainder[n] = Division(Remainder, n)
  <2>1. \A n \in Nat : [i \in Nat |-> Division(Remainder, i)][n]
                          = Division(Remainder, n)
    OBVIOUS
  <2> QED
    BY <2>1, RemainderDef, Zenon
<1>2. \A p \in Poly(0) : Division(Remainder, 0)[p] = p
  BY DEF Division
<1>3. ASSUME NEW n \in Nat, NEW p \in Poly(n + 1)
      PROVE  Division(Remainder, n + 1)[p] = Remainder[n][Cancel(p, n + 1)]
  <2>1. n + 1 # 0 /\ (n + 1) - 1 = n
    OBVIOUS
  <2> QED
    BY <2>1 DEF Division
<1> QED
  BY <1>1, <1>2, <1>3

(* A register is a polynomial of degree below 16.                          *)
LEMMA Registers == Register = Poly(0)
BY DEF Register, Poly

(* The remainder is a register.                                            *)
LEMMA RemainderType ==
    \A n \in Nat : \A p \in Poly(n) : Remainder[n][p] \in Register
<1> DEFINE P == {n \in Nat : \A p \in Poly(n) : Remainder[n][p] \in Register}
<1>1. 0 \in P
  BY RemainderStep, Registers
<1>2. ASSUME NEW n \in Nat, n \in P PROVE n + 1 \in P
  <2>1. \A p \in Poly(n + 1) : Cancel(p, n + 1) \in Poly(n)
    BY CancelBits
  <2> QED
    BY <1>2, <2>1, RemainderStep
<1> HIDE DEF P
<1>3. \A n \in Nat : n \in P
  BY <1>1, <1>2, Induction
<1> QED
  BY <1>3 DEF P

(* A polynomial of a low degree is one of a higher.                        *)
LEMMA Smaller ==
    ASSUME NEW m \in Nat, NEW n \in Nat, m <= n
    PROVE  Poly(m) \subseteq Poly(n)
BY DEF Poly

(* Terms below the divisor's degree go through the division untouched.     *)
LEMMA RemainderAdds ==
    \A n \in Nat : \A p \in Poly(n), q \in Register :
        Remainder[n][Xor(p, q)] = Xor(Remainder[n][p], q)
<1> DEFINE P == {n \in Nat : \A p \in Poly(n), q \in Register :
                    Remainder[n][Xor(p, q)] = Xor(Remainder[n][p], q)}
<1>1. 0 \in P
  <2>1. \A p \in Poly(0), q \in Register : Xor(p, q) \in Poly(0)
    BY Registers, XorBits
  <2> QED
    BY <2>1, RemainderStep
<1>2. ASSUME NEW n \in Nat, n \in P PROVE n + 1 \in P
  <2>1. ASSUME NEW p \in Poly(n + 1), NEW q \in Register
        PROVE  Remainder[n + 1][Xor(p, q)] = Xor(Remainder[n + 1][p], q)
    <3>1. q \in Poly(n) /\ q \in Poly(n + 1)
      BY Registers, Smaller
    <3>2. Xor(p, q) \in Poly(n + 1)
      BY <3>1, XorBits
    <3>3. Cancel(p, n + 1) \in Poly(n)
      BY CancelBits
    <3>4. Cancel(Xor(p, q), n + 1) = Xor(Cancel(p, n + 1), q)
      <4>1. Cancel(Xor(p, q), n + 1) \in Poly(n)
            /\ Xor(Cancel(p, n + 1), q) \in Poly(n)
        BY <3>1, <3>2, <3>3, CancelBits, XorBits
      <4>2. ~(16 + n \in q)
        BY DEF Register
      <4>3. \A e : e \in Xor(p, q) <=> ((e \in p) # (e \in q))
        BY DEF Xor
      <4>4. \A e : e \in Xor(Cancel(p, n + 1), q)
                     <=> ((e \in Cancel(p, n + 1)) # (e \in q))
        BY DEF Xor
      <4>5. \A e \in Int : e \in Cancel(Xor(p, q), n + 1)
               <=> ((e \in Xor(p, q)) # (16 + n \in Xor(p, q)
                                           /\ e - n \in Divisor))
        BY <3>2, CancelBits
      <4>6. \A e \in Int : e \in Cancel(p, n + 1)
               <=> ((e \in p) # (16 + n \in p /\ e - n \in Divisor))
        BY CancelBits
      <4>7. \A e \in Int : e \in Cancel(Xor(p, q), n + 1)
                              <=> e \in Xor(Cancel(p, n + 1), q)
        BY <4>2, <4>3, <4>4, <4>5, <4>6
      <4> QED
        BY <4>1, <4>7, SameBits
    <3> QED
      BY <1>2, <3>2, <3>3, <3>4, RemainderStep
  <2> QED
    BY <2>1
<1> HIDE DEF P
<1>3. \A n \in Nat : n \in P
  BY <1>1, <1>2, Induction
<1> QED
  BY <1>3 DEF P

(* A shift of the register is a multiplication by x.                       *)
LEMMA RemainderShifts ==
    \A n \in Nat : \A p \in Poly(n) :
        Remainder[n + 1][Times(p, 1)] = Shift(Remainder[n][p])
<1> DEFINE P == {n \in Nat : \A p \in Poly(n) :
                    Remainder[n + 1][Times(p, 1)] = Shift(Remainder[n][p])}
<1>1. 0 \in P
  <2>1. ASSUME NEW p \in Poly(0)
        PROVE  Remainder[0 + 1][Times(p, 1)] = Shift(p)
    <3>1. /\ Times(p, 1) \in Poly(0 + 1)
          /\ \A e \in Int : e \in Times(p, 1) <=> e - 1 \in p
      BY TimesBits
    <3>2. /\ Cancel(Times(p, 1), 0 + 1) \in Poly(0)
          /\ \A e \in Int : e \in Cancel(Times(p, 1), 0 + 1)
                <=> ((e \in Times(p, 1)) # (16 + 0 \in Times(p, 1)
                                              /\ e - 0 \in Divisor))
      BY <3>1, CancelBits
    <3>3. Shift(p) \in Poly(0)
      BY ShiftType, Registers
    <3>4. \A b \in 0..15 :
             b \in Shift(p) <=> (((b - 1) \in p /\ b - 1 \in 0..14)
                                  # (15 \in p /\ b \in crc_polynomial))
      BY Registers DEF Shift, ShiftLeft, Xor, Register
    <3>5. \A e \in Int : e \in Cancel(Times(p, 1), 0 + 1) <=> e \in Shift(p)
      <4>1. \A e \in Int : e \in Cancel(Times(p, 1), 0 + 1) => e \in 0..15
        BY <3>2 DEF Poly
      <4>2. \A e \in Int : e \in Shift(p) => e \in 0..15
        BY <3>3 DEF Poly
      <4>3. \A e \in 0..15 : e \in Divisor <=> e \in crc_polynomial
        BY DEF Divisor
      <4>4. \A e \in p : e \in 0..15
        BY DEF Poly
      <4>5. ASSUME NEW e \in 0..15
            PROVE  e \in Cancel(Times(p, 1), 0 + 1) <=> e \in Shift(p)
        <5>1. 16 + 0 \in Times(p, 1) <=> 15 \in p
          BY <3>1
        <5>2. e \in Times(p, 1) <=> e - 1 \in p
          BY <3>1
        <5>3. e - 1 \in p <=> e - 1 \in p /\ e - 1 \in 0..14
          BY <4>4
        <5>4. e - 0 = e
          OBVIOUS
        <5> QED
          BY <3>2, <3>4, <4>3, <5>1, <5>2, <5>3, <5>4
      <4> QED
        BY <4>1, <4>2, <4>5
    <3>6. Cancel(Times(p, 1), 0 + 1) = Shift(p)
      BY <3>2, <3>3, <3>5, SameBits
    <3> QED
      BY <3>1, <3>3, <3>6, RemainderStep
  <2> QED
    BY <2>1, RemainderStep
<1>2. ASSUME NEW n \in Nat, n \in P PROVE n + 1 \in P
  <2>1. ASSUME NEW p \in Poly(n + 1)
        PROVE  Remainder[(n + 1) + 1][Times(p, 1)]
                 = Shift(Remainder[n + 1][p])
    <3>1. /\ Times(p, 1) \in Poly((n + 1) + 1)
          /\ \A e \in Int : e \in Times(p, 1) <=> e - 1 \in p
      <4>1. n + 1 \in Nat
        OBVIOUS
      <4> QED
        BY <4>1, TimesBits
    <3>2. /\ Cancel(p, n + 1) \in Poly(n)
          /\ \A e \in Int : e \in Cancel(p, n + 1)
                <=> ((e \in p) # (16 + n \in p /\ e - n \in Divisor))
      BY CancelBits
    <3>3. /\ Times(Cancel(p, n + 1), 1) \in Poly(n + 1)
          /\ \A e \in Int : e \in Times(Cancel(p, n + 1), 1)
                               <=> e - 1 \in Cancel(p, n + 1)
      BY <3>2, TimesBits
    <3>4. /\ Cancel(Times(p, 1), (n + 1) + 1) \in Poly(n + 1)
          /\ \A e \in Int : e \in Cancel(Times(p, 1), (n + 1) + 1)
                <=> ((e \in Times(p, 1))
                       # (16 + (n + 1) \in Times(p, 1)
                            /\ e - (n + 1) \in Divisor))
      BY <3>1, CancelBits
    <3>5. ASSUME NEW e \in Int
          PROVE  e \in Cancel(Times(p, 1), (n + 1) + 1)
                   <=> e \in Times(Cancel(p, n + 1), 1)
      <4>1. /\ (16 + (n + 1)) - 1 = 16 + n /\ 16 + (n + 1) \in Int
            /\ e - (n + 1) = (e - 1) - n /\ e - 1 \in Int
        OBVIOUS
      <4>2. 16 + (n + 1) \in Times(p, 1) <=> 16 + n \in p
        BY <3>1, <4>1
      <4> QED
        BY <3>1, <3>2, <3>3, <3>4, <4>1, <4>2
    <3>6. Cancel(Times(p, 1), (n + 1) + 1) = Times(Cancel(p, n + 1), 1)
      BY <3>3, <3>4, <3>5, SameBits
    <3> QED
      BY <1>2, <3>1, <3>2, <3>6, RemainderStep
  <2> QED
    BY <2>1
<1> HIDE DEF P
<1>3. \A n \in Nat : n \in P
  BY <1>1, <1>2, Induction
<1> QED
  BY <1>3 DEF P

(* Eight shifts of the register multiply by x^8.                           *)
LEMMA RemainderTakesByte ==
    ASSUME NEW n \in Nat, NEW p \in Poly(n), NEW byte \in Byte
    PROVE  Remainder[n + 8][Times(Xor(p, Upper(byte)), 8)]
             = ByteStep(Remainder[n][p], byte)
<1> DEFINE q == Xor(p, Upper(byte))
           T(k) == Times(q, k)
           R(k) == Remainder[n + k][T(k)]
<1>1. Upper(byte) \in Register
  <2>1. \A b \in byte : b + 8 \in 0..15
    BY DEF Byte
  <2> QED
    BY <2>1 DEF Upper, Register
<1>2. q \in Poly(n) /\ Remainder[n][q] = Xor(Remainder[n][p], Upper(byte))
  <2>1. Upper(byte) \in Poly(n)
    BY <1>1, Registers, Smaller
  <2> QED
    BY <1>1, <2>1, XorBits, RemainderAdds
<1> HIDE DEF q
<1>3. \A k \in Nat : T(k) \in Poly(n + k)
  BY <1>2, TimesBits
<1>4. ASSUME NEW k \in Nat PROVE T(k + 1) = Times(T(k), 1)
  <2>1. \A e \in q : e \in Int /\ (e + k) + 1 = e + (k + 1)
    BY <1>2 DEF Poly
  <2> QED
    BY <2>1 DEF Times
<1>5. ASSUME NEW k \in Nat PROVE R(k + 1) = Shift(R(k))
  <2>1. n + k \in Nat /\ (n + k) + 1 = n + (k + 1)
    OBVIOUS
  <2>2. Remainder[(n + k) + 1][Times(T(k), 1)] = Shift(Remainder[n + k][T(k)])
    BY <1>3, <2>1, RemainderShifts
  <2> QED
    BY <1>4, <2>1, <2>2
<1>6. R(0) = Remainder[n][q]
  <2>1. T(0) = q
    <3>1. \A e \in q : e + 0 = e
      BY <1>2 DEF Poly
    <3> QED
      BY <3>1 DEF Times
  <2> QED
    BY <2>1
<1> HIDE DEF R
<1>7. /\ R(1) = Shift(R(0)) /\ R(2) = Shift(R(1)) /\ R(3) = Shift(R(2))
      /\ R(4) = Shift(R(3)) /\ R(5) = Shift(R(4)) /\ R(6) = Shift(R(5))
      /\ R(7) = Shift(R(6)) /\ R(8) = Shift(R(7))
  <2>1. \A k \in {0, 1, 2, 3, 4, 5, 6, 7} : R(k + 1) = Shift(R(k))
    BY <1>5
  <2>2. /\ 0 + 1 = 1 /\ 1 + 1 = 2 /\ 2 + 1 = 3 /\ 3 + 1 = 4
        /\ 4 + 1 = 5 /\ 5 + 1 = 6 /\ 6 + 1 = 7 /\ 7 + 1 = 8
    OBVIOUS
  <2> QED
    BY <2>1, <2>2
<1>8. R(8) = EightShifts(Remainder[n][q])
  BY <1>6, <1>7 DEF EightShifts
<1> QED
  BY <1>2, <1>8 DEF ByteStep, R, q

-----------------------------------------------------------------------------
(* The polynomial that RemainderOf divides.                                *)
Dividend(bytes) ==
    Xor(Times(Polynomial(bytes), 16), Times(Initial, 8 * Len(bytes)))

(* A bit of a packet is a bit of one of its bytes.                         *)
LEMMA PolynomialBits ==
    ASSUME NEW bytes \in Seq(Byte)
    PROVE  \A e \in Int : e \in Polynomial(bytes)
              <=> \E k \in 1..Len(bytes) : e - 8 * (Len(bytes) - k) \in bytes[k]
<1>1. DOMAIN bytes = 1..Len(bytes) /\ Len(bytes) \in Nat
  BY LenProperties
<1>2. ASSUME NEW e \in Int, NEW k \in 1..Len(bytes)
      PROVE  e \in Times(bytes[k], 8 * (Len(bytes) - k))
               <=> e - 8 * (Len(bytes) - k) \in bytes[k]
  <2>1. bytes[k] \in Byte
    BY <1>1, ElementOfSeq
  <2>2. \A b \in bytes[k] : b \in 0..7
    BY <2>1 DEF Byte
  <2>3. 8 * (Len(bytes) - k) \in Int
    BY <1>1
  <2> QED
    BY <2>2, <2>3 DEF Times
<1> QED
  BY <1>1, <1>2 DEF Polynomial

(* Its terms are those of the bytes, none below 0.                         *)
LEMMA PolynomialType ==
    ASSUME NEW bytes \in Seq(Byte)
    PROVE  \A e \in Polynomial(bytes) : e \in 0..(8 * Len(bytes) - 1)
<1>1. DOMAIN bytes = 1..Len(bytes) /\ Len(bytes) \in Nat
  BY LenProperties
<1>2. ASSUME NEW e \in Polynomial(bytes)
      PROVE  e \in 0..(8 * Len(bytes) - 1)
  <2>1. PICK k \in 1..Len(bytes) :
           e \in Times(bytes[k], 8 * (Len(bytes) - k))
    BY <1>1 DEF Polynomial
  <2>2. bytes[k] \in Byte
    BY <1>1, ElementOfSeq
  <2>3. PICK b \in bytes[k] : e = b + 8 * (Len(bytes) - k)
    BY <2>1 DEF Times
  <2>4. b \in 0..7
    BY <2>2 DEF Byte
  <2> QED
    BY <1>1, <2>3, <2>4
<1> QED
  BY <1>2

(* The bits of the dividend: those of the packet and those of the initial  *)
(* value.                                                                  *)
LEMMA DividendBits ==
    ASSUME NEW bytes \in Seq(Byte)
    PROVE  /\ Dividend(bytes) \in Poly(8 * Len(bytes))
           /\ \A e \in Int : e \in Dividend(bytes)
                 <=> ((e - 16 \in Polynomial(bytes))
                        # (e - 8 * Len(bytes) \in Initial))
<1> DEFINE n == 8 * Len(bytes)
           a == Times(Polynomial(bytes), 16)
           i == Times(Initial, n)
<1>1. Len(bytes) \in Nat /\ n \in Nat
  BY LenProperties
<1>2. \A e \in Polynomial(bytes) : e \in 0..(n - 1)
  BY PolynomialType
<1>3. \A e \in Initial : e \in 0..15
  BY PolynomialAssumption DEF Register
<1> HIDE DEF n
<1>4. /\ \A e \in a : e \in 0..(15 + n)
      /\ \A e \in Int : e \in a <=> e - 16 \in Polynomial(bytes)
  BY <1>1, <1>2 DEF Times
<1>5. /\ \A e \in i : e \in 0..(15 + n)
      /\ \A e \in Int : e \in i <=> e - n \in Initial
  <2>1. Initial \in Poly(0)
    BY PolynomialAssumption, Registers
  <2>2. /\ i \in Poly(0 + n)
        /\ \A e \in Int : e \in i <=> e - n \in Initial
    BY <1>1, <2>1, TimesBits
  <2>3. 15 + (0 + n) = 15 + n
    BY <1>1
  <2> QED
    BY <2>2, <2>3 DEF Poly
<1>6. Dividend(bytes) = Xor(a, i)
  BY DEF Dividend, n
<1> HIDE DEF a, i
<1>7. Dividend(bytes) \in Poly(n)
  BY <1>4, <1>5, <1>6 DEF Xor, Poly
<1>8. ASSUME NEW e \in Int
      PROVE  e \in Dividend(bytes)
               <=> ((e - 16 \in Polynomial(bytes)) # (e - n \in Initial))
  <2>1. e \in Dividend(bytes) <=> ((e \in a) # (e \in i))
    BY <1>6 DEF Xor
  <2>2. /\ e \in a <=> e - 16 \in Polynomial(bytes)
        /\ e \in i <=> e - n \in Initial
    BY <1>4, <1>5
  <2> QED
    BY <2>1, <2>2
<1> QED
  BY <1>7, <1>8 DEF n

(* A byte more is the byte added to the upper 8 of the 16 zeros, and 8     *)
(* zeros more.                                                             *)
LEMMA DividendGrows ==
    ASSUME NEW bytes \in Seq(Byte), NEW byte \in Byte
    PROVE  Dividend(Append(bytes, byte))
             = Times(Xor(Dividend(bytes), Upper(byte)), 8)
<1> DEFINE n == Len(bytes)
           more == Append(bytes, byte)
           q == Xor(Dividend(bytes), Upper(byte))
<1>1. /\ n \in Nat /\ more \in Seq(Byte) /\ Len(more) = n + 1
      /\ more[n + 1] = byte /\ \A k \in 1..n : more[k] = bytes[k]
  BY LenProperties, AppendProperties
<1> HIDE DEF more
<1>2. \A e \in byte : e \in 0..7
  BY DEF Byte
<1>3. \A e \in Int : e \in Upper(byte) <=> e - 8 \in byte
  BY <1>2 DEF Upper
<1>4. q \in Poly(8 * n) /\ \A e : e \in q <=> ((e \in Dividend(bytes))
                                                 # (e \in Upper(byte)))
  <2>1. Upper(byte) \in Poly(8 * n)
    <3>1. \A e \in Upper(byte) : e \in 0..(15 + 8 * n)
      BY <1>1, <1>2 DEF Upper
    <3> QED
      BY <3>1 DEF Poly
  <2>2. Dividend(bytes) \in Poly(8 * n) /\ 8 * n \in Nat
    BY <1>1, DividendBits
  <2> QED
    BY <2>1, <2>2, XorBits
<1> HIDE DEF q
<1>5. /\ Times(q, 8) \in Poly(8 * (n + 1))
      /\ \A e \in Int : e \in Times(q, 8) <=> e - 8 \in q
  <2>1. 8 * n \in Nat /\ 8 * n + 8 = 8 * (n + 1)
    BY <1>1
  <2> QED
    BY <1>4, <2>1, TimesBits
<1>6. ASSUME NEW e \in Int
      PROVE  e \in Polynomial(more)
               <=> (e - 8 \in Polynomial(bytes) \/ e \in byte)
  <2>1. e \in Polynomial(more)
          <=> \E k \in 1..(n + 1) : e - 8 * ((n + 1) - k) \in more[k]
    BY <1>1, PolynomialBits
  <2>2. e - 8 \in Polynomial(bytes)
          <=> \E k \in 1..n : (e - 8) - 8 * (n - k) \in bytes[k]
    BY PolynomialBits
  <2>3. \A k \in 1..n : e - 8 * ((n + 1) - k) = (e - 8) - 8 * (n - k)
    BY <1>1
  <2>4. e - 8 * ((n + 1) - (n + 1)) = e
    BY <1>1
  <2>5. \A k \in 1..(n + 1) : k = n + 1 \/ k \in 1..n
    BY <1>1
  <2>6. n + 1 \in 1..(n + 1) /\ \A k \in 1..n : k \in 1..(n + 1)
    BY <1>1
  <2> QED
    BY <1>1, <2>1, <2>2, <2>3, <2>4, <2>5, <2>6
<1>7. \A e \in Polynomial(bytes) : e >= 0
  BY PolynomialType
<1>8. ASSUME NEW e \in Int
      PROVE  e \in Dividend(more) <=> e \in Times(q, 8)
  <2>1. e \in Dividend(more)
          <=> ((e - 16 \in Polynomial(more)) # (e - 8 * (n + 1) \in Initial))
    BY <1>1, DividendBits
  <2>2. e - 16 \in Polynomial(more)
          <=> ((e - 8) - 16 \in Polynomial(bytes) \/ (e - 8) - 8 \in byte)
    <3>1. (e - 16) - 8 = (e - 8) - 16 /\ (e - 8) - 8 = e - 16 /\ e - 16 \in Int
      OBVIOUS
    <3> QED
      BY <1>6, <3>1
  <2>3. e - 8 \in Dividend(bytes)
          <=> (((e - 8) - 16 \in Polynomial(bytes))
                 # (e - 8 * (n + 1) \in Initial))
    <3>1. (e - 8) - 8 * n = e - 8 * (n + 1) /\ e - 8 \in Int
      BY <1>1
    <3> QED
      BY <3>1, DividendBits
  <2>4. ~((e - 8) - 16 \in Polynomial(bytes) /\ (e - 8) - 8 \in byte)
    BY <1>2, <1>7
  <2>5. e - 8 \in Upper(byte) <=> (e - 8) - 8 \in byte
    BY <1>3
  <2>6. e \in Times(q, 8) <=> e - 8 \in q
    BY <1>5
  <2>7. e - 8 \in q <=> ((e - 8 \in Dividend(bytes))
                           # (e - 8 \in Upper(byte)))
    BY <1>4
  <2> QED
    BY <2>1, <2>2, <2>3, <2>4, <2>5, <2>6, <2>7
<1>9. Dividend(more) \in Poly(8 * (n + 1)) /\ 8 * (n + 1) \in Nat
  <2>1. Dividend(more) \in Poly(8 * Len(more))
    BY <1>1, DividendBits
  <2> QED
    BY <1>1, <2>1
<1> QED
  BY <1>5, <1>8, <1>9, SameBits DEF more, q

-----------------------------------------------------------------------------
(* The remainder of a packet, byte by byte: of the empty one it is the     *)
(* initial value, and one byte more is one step more.                      *)
LEMMA RemainderOfBytes ==
    /\ RemainderOf(<<>>) = Initial
    /\ \A bytes \in Seq(Byte), byte \in Byte :
          /\ RemainderOf(bytes) \in Register
          /\ RemainderOf(Append(bytes, byte))
               = ByteStep(RemainderOf(bytes), byte)
<1>1. RemainderOf(<<>>) = Initial
  <2>1. Polynomial(<<>>) = {}
    BY DEF Polynomial
  <2>2. Times({}, 16) = {} /\ 8 * Len(<<>>) = 0
    BY DEF Times
  <2>3. Times(Initial, 0) = Initial
    <3>1. \A e \in Initial : e + 0 = e
      BY PolynomialAssumption DEF Register
    <3> QED
      BY <3>1 DEF Times
  <2>4. Xor({}, Initial) = Initial
    BY DEF Xor
  <2> QED
    BY <2>1, <2>2, <2>3, <2>4, RemainderStep, Registers,
       PolynomialAssumption DEF RemainderOf
<1>2. ASSUME NEW bytes \in Seq(Byte), NEW byte \in Byte
      PROVE  /\ RemainderOf(bytes) \in Register
             /\ RemainderOf(Append(bytes, byte))
                  = ByteStep(RemainderOf(bytes), byte)
  <2>1. /\ 8 * Len(bytes) \in Nat
        /\ 8 * Len(Append(bytes, byte)) = 8 * Len(bytes) + 8
    BY LenProperties, AppendProperties
  <2>2. \A more : RemainderOf(more) = Remainder[8 * Len(more)][Dividend(more)]
    BY DEF RemainderOf, Dividend
  <2>3. Dividend(bytes) \in Poly(8 * Len(bytes))
    BY DividendBits
  <2> QED
    BY <2>1, <2>2, <2>3, RemainderType, DividendGrows, RemainderTakesByte
<1> QED
  BY <1>1, <1>2

(* A packet that ends with its checksum has the remainder 0.               *)
LEMMA ChecksumEnds ==
    ASSUME NEW bytes \in Seq(Byte), NEW r, r = RemainderOf(bytes)
    PROVE  RemainderOf(bytes \o <<HighByte(r), LowByte(r)>>) = {}
<1>1. r \in Register
  <2>1. {} \in Byte
    BY DEF Byte
  <2> QED
    BY <2>1, RemainderOfBytes
<1>2. HighByte(r) \in Byte /\ LowByte(r) \in Byte
  BY <1>1, RegisterBytes
<1> DEFINE h == HighByte(r)
           l == LowByte(r)
<1> HIDE DEF h, l
<1>3. bytes \o <<h, l>> = Append(Append(bytes, h), l)
  OBVIOUS
<1>4. Append(bytes, h) \in Seq(Byte)
  BY <1>2, AppendProperties DEF h
<1>5. RemainderOf(Append(Append(bytes, h), l)) = ByteStep(ByteStep(r, h), l)
  <2>1. h \in Byte /\ l \in Byte
    BY <1>2 DEF h, l
  <2> QED
    BY <1>4, <2>1, RemainderOfBytes
<1> QED
  BY <1>1, <1>3, <1>5, ChecksumClears DEF h, l

-----------------------------------------------------------------------------
(* The division is linear: it cancels the leading term of a sum exactly if *)
(* it cancels that of one of the two.                                      *)
LEMMA RemainderLinear ==
    \A n \in Nat : \A p, q \in Poly(n) :
        Remainder[n][Xor(p, q)] = Xor(Remainder[n][p], Remainder[n][q])
<1> DEFINE P == {n \in Nat : \A p, q \in Poly(n) :
                    Remainder[n][Xor(p, q)]
                      = Xor(Remainder[n][p], Remainder[n][q])}
<1>1. 0 \in P
  <2>1. \A p, q \in Poly(0) : Xor(p, q) \in Poly(0)
    BY XorBits
  <2> QED
    BY <2>1, RemainderStep
<1>2. ASSUME NEW n \in Nat, n \in P PROVE n + 1 \in P
  <2>1. ASSUME NEW p \in Poly(n + 1), NEW q \in Poly(n + 1)
        PROVE  Remainder[n + 1][Xor(p, q)]
                 = Xor(Remainder[n + 1][p], Remainder[n + 1][q])
    <3>1. Xor(p, q) \in Poly(n + 1)
      BY XorBits
    <3>2. Cancel(p, n + 1) \in Poly(n) /\ Cancel(q, n + 1) \in Poly(n)
      BY CancelBits
    <3>3. Cancel(Xor(p, q), n + 1) = Xor(Cancel(p, n + 1), Cancel(q, n + 1))
      <4>1. Cancel(Xor(p, q), n + 1) \in Poly(n)
            /\ Xor(Cancel(p, n + 1), Cancel(q, n + 1)) \in Poly(n)
        BY <3>1, <3>2, CancelBits, XorBits
      <4>2. \A e : e \in Xor(p, q) <=> ((e \in p) # (e \in q))
        BY DEF Xor
      <4>3. \A e : e \in Xor(Cancel(p, n + 1), Cancel(q, n + 1))
                 <=> ((e \in Cancel(p, n + 1)) # (e \in Cancel(q, n + 1)))
        BY DEF Xor
      <4>4. \A e \in Int : e \in Cancel(Xor(p, q), n + 1)
               <=> ((e \in Xor(p, q)) # (16 + n \in Xor(p, q)
                                           /\ e - n \in Divisor))
        BY <3>1, CancelBits
      <4>5. \A e \in Int : e \in Cancel(p, n + 1)
               <=> ((e \in p) # (16 + n \in p /\ e - n \in Divisor))
        BY CancelBits
      <4>6. \A e \in Int : e \in Cancel(q, n + 1)
               <=> ((e \in q) # (16 + n \in q /\ e - n \in Divisor))
        BY CancelBits
      <4>7. \A e \in Int : e \in Cancel(Xor(p, q), n + 1)
                 <=> e \in Xor(Cancel(p, n + 1), Cancel(q, n + 1))
        BY <4>2, <4>3, <4>4, <4>5, <4>6
      <4> QED
        BY <4>1, <4>7, SameBits
    <3> QED
      BY <1>2, <3>1, <3>2, <3>3, RemainderStep
  <2> QED
    BY <2>1
<1> HIDE DEF P
<1>3. \A n \in Nat : n \in P
  BY <1>1, <1>2, Induction
<1> QED
  BY <1>3 DEF P

(* Dividing further than the degree asks for changes nothing.              *)
LEMMA RemainderSettles ==
    ASSUME NEW n \in Nat, NEW p \in Poly(n)
    PROVE  \A j \in Nat : Remainder[n + j][p] = Remainder[n][p]
<1> DEFINE P == {j \in Nat : Remainder[n + j][p] = Remainder[n][p]}
<1>1. 0 \in P
  OBVIOUS
<1>2. ASSUME NEW j \in Nat, j \in P PROVE j + 1 \in P
  <2>1. n + j \in Nat /\ n <= n + j /\ n <= (n + j) + 1
        /\ (n + j) + 1 \in Nat /\ n + (j + 1) = (n + j) + 1
    OBVIOUS
  <2>2. p \in Poly(n + j) /\ p \in Poly((n + j) + 1)
    BY <2>1, Smaller
  <2>3. Cancel(p, (n + j) + 1) = p
    <3>1. 15 + ((n + j) + 1) \notin p
      BY <2>2 DEF Poly
    <3> QED
      BY <3>1 DEF Cancel
  <2>4. Remainder[(n + j) + 1][p] = Remainder[n + j][p]
    BY <2>1, <2>2, <2>3, RemainderStep
  <2> QED
    BY <1>2, <2>1, <2>4
<1> HIDE DEF P
<1>3. \A j \in Nat : j \in P
  BY <1>1, <1>2, Induction
<1> QED
  BY <1>3 DEF P

(* No multiple of x^k of a burst is divided without a remainder: the       *)
(* burst alone is its own, and no shift makes it 0.                        *)
LEMMA BurstRemains ==
    ASSUME NEW burst \in Register, burst # {}
    PROVE  \A k \in Nat : /\ Times(burst, k) \in Poly(k)
                          /\ Remainder[k][Times(burst, k)] # {}
<1>1. ASSUME NEW k \in Nat
      PROVE  /\ Times(burst, k) \in Poly(k)
             /\ Times(burst, k + 1) = Times(Times(burst, k), 1)
  <2>1. Times(burst, k) \in Poly(0 + k)
    BY Registers, TimesBits
  <2>2. \A e \in burst : e \in Int /\ (e + k) + 1 = e + (k + 1)
    BY DEF Register
  <2> QED
    BY <2>1, <2>2 DEF Times
<1> DEFINE P == {k \in Nat : Remainder[k][Times(burst, k)] # {}}
<1>2. 0 \in P
  <2>1. Times(burst, 0) = burst
    <3>1. \A e \in burst : e + 0 = e
      BY DEF Register
    <3> QED
      BY <3>1 DEF Times
  <2> QED
    BY <2>1, Registers, RemainderStep
<1>3. ASSUME NEW k \in Nat, k \in P PROVE k + 1 \in P
  <2> DEFINE r == Remainder[k][Times(burst, k)]
  <2>1. r \in Register /\ r # {}
    BY <1>1, <1>3, RemainderType
  <2>2. Remainder[k + 1][Times(burst, k + 1)] = Shift(r)
    BY <1>1, RemainderShifts
  <2> HIDE DEF r
  <2>3. {} \in Register /\ Shift({}) = {}
    BY DEF Register, Shift, ShiftLeft
  <2>4. Shift(r) # {}
    BY <2>1, <2>3, ShiftInjective
  <2> QED
    BY <2>2, <2>4
<1> HIDE DEF P
<1>4. \A k \in Nat : k \in P
  BY <1>2, <1>3, Induction
<1> QED
  BY <1>1, <1>4 DEF P

(* A hit packet has as many bytes, and the burst is added to its           *)
(* polynomial.                                                             *)
LEMMA HitAdds ==
    ASSUME NEW packet \in Seq(Byte), NEW burst \in Register,
           NEW at \in 0..(8 * Len(packet) - 16)
    PROVE  /\ Hit(packet, burst, at) \in Seq(Byte)
           /\ Len(Hit(packet, burst, at)) = Len(packet)
           /\ Polynomial(Hit(packet, burst, at))
                = Xor(Polynomial(packet), Times(burst, at))
<1> DEFINE n == Len(packet)
           hit == Hit(packet, burst, at)
           In(i) == {b \in 0..7 : b + 8 * (n - i) - at \in burst}
<1>1. n \in Nat /\ at \in Nat /\ at + 16 <= 8 * n
  BY LenProperties
<1>2. hit = [i \in 1..n |-> Xor(packet[i], In(i))]
  BY DEF Hit
<1>3. \A i \in 1..n : packet[i] \in Byte /\ In(i) \in Byte
  <2>1. \A i \in 1..n : packet[i] \in Byte
    BY <1>1, ElementOfSeq
  <2> QED
    BY <2>1 DEF Byte
<1>4. \A i \in 1..n : Xor(packet[i], In(i)) \in Byte
  <2> HIDE DEF In
  <2> QED
    BY <1>3 DEF Xor, Byte
<1> HIDE DEF hit
<1>5. hit \in Seq(Byte) /\ Len(hit) = n
  <2> HIDE DEF In, n
  <2>1. hit \in [1..n -> Byte]
    BY <1>2, <1>4
  <2>2. hit \in Seq(Byte)
    BY <1>1, <2>1
  <2>3. DOMAIN hit = 1..n /\ DOMAIN hit = 1..Len(hit) /\ Len(hit) \in Nat
    BY <1>2, <2>2, LenProperties
  <2>4. Len(hit) = n
    BY <1>1, <2>3
  <2> QED
    BY <2>2, <2>4
<1>6. \A e \in burst : e \in 0..15
  BY DEF Register
<1>7. ASSUME NEW e \in Int
      PROVE  e \in Polynomial(hit)
               <=> ((e \in Polynomial(packet)) # (e - at \in burst))
  <2>1. e \in Polynomial(hit)
          <=> \E i \in 1..n : e - 8 * (n - i) \in hit[i]
    BY <1>5, PolynomialBits
  <2>2. e \in Polynomial(packet)
          <=> \E i \in 1..n : e - 8 * (n - i) \in packet[i]
    BY PolynomialBits
  <2>3. \A i \in 1..n : e - 8 * (n - i) \in hit[i]
           <=> ((e - 8 * (n - i) \in packet[i])
                  # (e - 8 * (n - i) \in 0..7 /\ e - at \in burst))
    <3> TAKE i \in 1..n
    <3>1. (e - 8 * (n - i)) + 8 * (n - i) - at = e - at
      BY <1>1
    <3>2. e - 8 * (n - i) \in In(i)
            <=> e - 8 * (n - i) \in 0..7 /\ e - at \in burst
      BY <3>1
    <3> HIDE DEF In
    <3> QED
      BY <1>2, <3>2 DEF Xor
  <2>4. \A i, j \in 1..n :
           e - 8 * (n - i) \in 0..7 /\ e - 8 * (n - j) \in 0..7 => i = j
    BY <1>1
  <2>5. e - at \in burst => \E i \in 1..n : e - 8 * (n - i) \in 0..7
    <3> SUFFICES ASSUME e - at \in burst
                 PROVE  \E i \in 1..n : e - 8 * (n - i) \in 0..7
      OBVIOUS
    <3>1. e \in 0..(8 * n - 1)
      BY <1>1, <1>6
    <3>2. n - (e \div 8) \in 1..n
      BY <1>1, <3>1
    <3>3. n - (n - (e \div 8)) = e \div 8 /\ e - 8 * (e \div 8) \in 0..7
      BY <1>1, <3>1
    <3> QED
      BY <3>2, <3>3
  <2>6. \A i \in 1..n : e - 8 * (n - i) \in packet[i]
                            => e - 8 * (n - i) \in 0..7
    BY <1>3 DEF Byte
  <2> HIDE DEF n, In
  <2> QED
    BY <2>1, <2>2, <2>3, <2>4, <2>5, <2>6
<1>8. Polynomial(hit) = Xor(Polynomial(packet), Times(burst, at))
  <2>1. \A e \in Int : e \in Times(burst, at) <=> e - at \in burst
    BY <1>1, Registers, TimesBits
  <2>2. \A e \in Times(burst, at) : e \in Int
    BY <1>1, <1>6 DEF Times
  <2>3. /\ \A e \in Polynomial(hit) : e \in Int
        /\ \A e \in Polynomial(packet) : e \in Int
    BY <1>5, PolynomialType
  <2>4. ASSUME NEW e \in Int
        PROVE  e \in Polynomial(hit)
                 <=> ((e \in Polynomial(packet)) # (e \in Times(burst, at)))
    <3>1. e \in Polynomial(hit)
            <=> ((e \in Polynomial(packet)) # (e - at \in burst))
      BY <1>7
    <3>2. e \in Times(burst, at) <=> e - at \in burst
      BY <2>1
    <3> QED
      BY <3>1, <3>2
  <2> QED
    BY <2>2, <2>3, <2>4 DEF Xor
<1> QED
  BY <1>5, <1>8 DEF hit

(* A packet of remainder 0 does not keep it when a burst hits it.          *)
LEMMA HitRemains ==
    ASSUME NEW packet \in Seq(Byte), NEW burst \in Register, burst # {},
           NEW at \in 0..(8 * Len(packet) - 16)
    PROVE  RemainderOf(Hit(packet, burst, at)) # RemainderOf(packet)
<1> DEFINE n == 8 * Len(packet)
           hit == Hit(packet, burst, at)
           error == Times(burst, at + 16)
<1>1. n \in Nat /\ at \in Nat /\ at + 16 \in Nat /\ at + 16 <= n
  BY LenProperties
<1>2. /\ hit \in Seq(Byte) /\ 8 * Len(hit) = n
      /\ Polynomial(hit) = Xor(Polynomial(packet), Times(burst, at))
  BY HitAdds
<1> HIDE DEF hit
<1>3. error \in Poly(at + 16) /\ Remainder[at + 16][error] # {}
  BY <1>1, BurstRemains
<1>4. error \in Poly(n) /\ Remainder[n][error] # {}
  <2> HIDE DEF n, error
  <2>1. n - (at + 16) \in Nat /\ (at + 16) + (n - (at + 16)) = n
    BY <1>1
  <2>2. Remainder[(at + 16) + (n - (at + 16))][error]
          = Remainder[at + 16][error]
    BY <1>1, <1>3, <2>1, RemainderSettles
  <2> QED
    BY <1>1, <1>3, <2>1, <2>2, Smaller
<1>5. Dividend(packet) \in Poly(n) /\ Dividend(hit) \in Poly(n)
  BY <1>2, DividendBits
<1>6. Dividend(hit) = Xor(Dividend(packet), error)
  <2>1. ASSUME NEW e \in Int
        PROVE  e \in Dividend(hit) <=> e \in Xor(Dividend(packet), error)
    <3>1. e \in Dividend(hit)
            <=> ((e - 16 \in Polynomial(hit)) # (e - n \in Initial))
      BY <1>2, DividendBits
    <3>2. e \in Dividend(packet)
            <=> ((e - 16 \in Polynomial(packet)) # (e - n \in Initial))
      BY DividendBits
    <3>3. e \in error <=> e - 16 \in Times(burst, at)
      <4>1. burst \in Poly(0) /\ 0 \in Nat /\ e - 16 \in Int
        BY Registers
      <4>2. e \in error <=> e - (at + 16) \in burst
        BY <1>1, <4>1, TimesBits
      <4>3. e - 16 \in Times(burst, at) <=> (e - 16) - at \in burst
        BY <1>1, <4>1, TimesBits
      <4>4. e - (at + 16) = (e - 16) - at
        BY <1>1
      <4> QED
        BY <4>2, <4>3, <4>4
    <3>4. e - 16 \in Polynomial(hit)
            <=> ((e - 16 \in Polynomial(packet))
                   # (e - 16 \in Times(burst, at)))
      BY <1>2 DEF Xor
    <3>5. e \in Xor(Dividend(packet), error)
            <=> ((e \in Dividend(packet)) # (e \in error))
      BY DEF Xor
    <3> HIDE DEF n, error
    <3> QED
      BY <3>1, <3>2, <3>3, <3>4, <3>5
  <2>2. Xor(Dividend(packet), error) \in Poly(n)
    BY <1>1, <1>4, <1>5, XorBits
  <2> QED
    BY <1>1, <1>5, <2>1, <2>2, SameBits
<1> HIDE DEF error
<1>7. Remainder[n][Dividend(hit)]
        = Xor(Remainder[n][Dividend(packet)], Remainder[n][error])
  BY <1>1, <1>4, <1>5, <1>6, RemainderLinear
<1>8. /\ RemainderOf(hit) = Remainder[n][Dividend(hit)]
      /\ RemainderOf(packet) = Remainder[n][Dividend(packet)]
  BY <1>2 DEF RemainderOf, Dividend
<1> HIDE DEF n
<1>9. \A a, b : Xor(a, b) = a => b = {}
  BY DEF Xor
<1> QED
  BY <1>4, <1>7, <1>8, <1>9 DEF hit
-----------------------------------------------------------------------------
(* The builder's packet, which has the remainder 0 as soon as its checksum *)
(* is appended.                                                            *)
BuilderInv ==
    /\ phase \in {"build", "sent", "check", "judged"}
    /\ out \in Seq(Byte)
    /\ crc_shift \in Register
    /\ IF phase = "build" THEN Len(out) <= MaxLength
       ELSE /\ RemainderOf(out) = {}
            /\ Len(out) >= 3 /\ Len(out) <= MaxLength + 2

(* The checker has not started.                                            *)
Idle == /\ in = <<>> /\ data_byte_counter = 0 /\ crc_check = Initial
        /\ verdict = "none"

(* The checker has the builder's packet, perhaps hit by a burst.           *)
CheckerInv ==
    IF phase \in {"build", "sent"} THEN Idle
    ELSE /\ \E burst \in Register, at \in 0..(8 * Len(out) - 16) :
               in = Hit(out, burst, at)
         /\ data_byte_counter \in 0..Len(in)
         /\ crc_check \in Register
         /\ IF phase = "judged"
            THEN /\ data_byte_counter = Len(in)
                 /\ verdict = IF crc_check = {} THEN "Correct SP CRC"
                              ELSE "Incorrect SP CRC"
            ELSE verdict = "none"

CrcInv == BuilderInv /\ CheckerInv /\ RegisterIsRemainder

(* A packet that arrives is a sequence of as many bytes as were sent.      *)
LEMMA Arrived ==
    ASSUME CrcInv, phase \notin {"build", "sent"}
    PROVE  in \in Seq(Byte) /\ Len(in) = Len(out)
<1>1. out \in Seq(Byte)
  BY DEF CrcInv, BuilderInv
<1>2. PICK burst \in Register, at \in 0..(8 * Len(out) - 16) :
         in = Hit(out, burst, at)
  BY DEF CrcInv, CheckerInv
<1> QED
  BY <1>1, <1>2, HitAdds

(* The first packet is empty.                                              *)
LEMMA InitCrcInv == Init => CrcInv
<1> SUFFICES ASSUME Init PROVE CrcInv
  OBVIOUS
<1>1. BuilderInv
  BY PolynomialAssumption, BytesAssumption DEF Init, BuilderInv
<1>2. CheckerInv
  BY DEF Init, CheckerInv, Idle
<1>3. RegisterIsRemainder
  BY RemainderOfBytes DEF Init, RegisterIsRemainder
<1> QED
  BY <1>1, <1>2, <1>3 DEF CrcInv

(* A byte added to the packet is a step of the division.                   *)
LEMMA AddByteKeeps == CrcInv /\ AddByte => CrcInv'
<1> SUFFICES ASSUME CrcInv, AddByte PROVE CrcInv'
  OBVIOUS
<1>1. PICK byte \in Messages : /\ out' = Append(out, byte)
                               /\ crc_shift' = ByteStep(crc_shift, byte)
  BY DEF AddByte
<1>2. /\ phase = "build" /\ phase' = "build" /\ Len(out) < MaxLength
      /\ UNCHANGED <<in, data_byte_counter, crc_check, verdict>>
  BY DEF AddByte
<1>3. /\ out \in Seq(Byte) /\ byte \in Byte /\ crc_shift \in Register
      /\ crc_shift = RemainderOf(out)
  BY <1>2, BytesAssumption DEF CrcInv, BuilderInv, RegisterIsRemainder
<1>4. /\ out' \in Seq(Byte) /\ Len(out') = Len(out) + 1
      /\ Len(out) \in Nat
  BY <1>1, <1>3, LenProperties, AppendProperties
<1>5. BuilderInv'
  BY <1>1, <1>2, <1>3, <1>4, ByteStepType, BytesAssumption DEF BuilderInv
<1>6. CheckerInv'
  BY <1>2 DEF CrcInv, CheckerInv, Idle
<1>7. RegisterIsRemainder'
  BY <1>1, <1>2, <1>3, RemainderOfBytes DEF RegisterIsRemainder
<1> QED
  BY <1>5, <1>6, <1>7 DEF CrcInv

(* The checksum ends the packet.                                           *)
LEMMA AppendChecksumKeeps == CrcInv /\ AppendChecksum => CrcInv'
<1> SUFFICES ASSUME CrcInv, AppendChecksum PROVE CrcInv'
  OBVIOUS
<1>1. /\ phase = "build" /\ phase' = "sent" /\ out # <<>>
      /\ out' = out \o <<HighByte(crc_shift), LowByte(crc_shift)>>
      /\ UNCHANGED <<crc_shift, in, data_byte_counter, crc_check, verdict>>
  BY DEF AppendChecksum, Checksum
<1>2. /\ out \in Seq(Byte) /\ crc_shift \in Register
      /\ crc_shift = RemainderOf(out) /\ Len(out) <= MaxLength
  BY <1>1 DEF CrcInv, BuilderInv, RegisterIsRemainder
<1>3. RemainderOf(out') = {}
  BY <1>1, <1>2, ChecksumEnds
<1>4. out' \in Seq(Byte) /\ Len(out') = Len(out) + 2 /\ Len(out) >= 1
  BY <1>1, <1>2, RegisterBytes
<1>5. BuilderInv'
  BY <1>1, <1>2, <1>3, <1>4, BytesAssumption DEF BuilderInv
<1>6. CheckerInv'
  BY <1>1 DEF CrcInv, CheckerInv, Idle
<1>7. RegisterIsRemainder'
  BY <1>1 DEF RegisterIsRemainder
<1> QED
  BY <1>5, <1>6, <1>7 DEF CrcInv

(* A packet arrives, of which the checker has no byte yet.                 *)
LEMMA DeliverKeeps == CrcInv /\ Deliver => CrcInv'
<1> SUFFICES ASSUME CrcInv, Deliver PROVE CrcInv'
  OBVIOUS
<1>1. PICK at \in 0..(8 * Len(out) - 16), burst \in Bursts :
         in' = Hit(out, burst, at)
  BY DEF Deliver
<1>2. /\ phase = "sent" /\ phase' = "check" /\ burst \in Register
      /\ UNCHANGED <<out, crc_shift, data_byte_counter, crc_check, verdict>>
  BY BytesAssumption DEF Deliver
<1>3. out \in Seq(Byte) /\ Idle
  BY <1>2 DEF CrcInv, BuilderInv, CheckerInv
<1>4. in' \in Seq(Byte) /\ Len(in') \in Nat
  BY <1>1, <1>2, <1>3, HitAdds, LenProperties
<1>5. BuilderInv'
  BY <1>2 DEF CrcInv, BuilderInv
<1>6. CheckerInv'
  BY <1>1, <1>2, <1>3, <1>4, PolynomialAssumption DEF CheckerInv, Idle
<1>7. RegisterIsRemainder'
  <2>1. SubSeq(in', 1, 0) = <<>>
    BY <1>4
  <2> QED
    BY <1>2, <1>3, <2>1, RemainderOfBytes DEF RegisterIsRemainder, Idle
<1> QED
  BY <1>5, <1>6, <1>7 DEF CrcInv

(* A byte checked is a step of the division.                               *)
LEMMA CheckByteKeeps == CrcInv /\ CheckByte => CrcInv'
<1> SUFFICES ASSUME CrcInv, CheckByte PROVE CrcInv'
  OBVIOUS
<1> DEFINE c == data_byte_counter
<1>1. /\ phase = "check" /\ c < Len(in) /\ c' = c + 1
      /\ crc_check' = ByteStep(crc_check, in[c + 1])
      /\ UNCHANGED <<phase, out, crc_shift, in, verdict>>
  BY DEF CheckByte
<1>2. in \in Seq(Byte) /\ c \in 0..Len(in) /\ crc_check \in Register
  BY <1>1, Arrived DEF CrcInv, CheckerInv
<1>3. c \in Nat /\ c + 1 \in 1..Len(in) /\ in[c + 1] \in Byte
  BY <1>1, <1>2, LenProperties, ElementOfSeq
<1>4. /\ SubSeq(in, 1, c) \in Seq(Byte)
      /\ SubSeq(in, 1, c + 1) = Append(SubSeq(in, 1, c), in[c + 1])
  <2> HIDE DEF c
  <2> QED
    BY <1>2, <1>3
<1>5. crc_check = RemainderOf(SubSeq(in, 1, c))
  BY <1>1 DEF CrcInv, RegisterIsRemainder
<1>6. BuilderInv'
  BY <1>1 DEF CrcInv, BuilderInv
<1>7. CheckerInv'
  BY <1>1, <1>2, <1>3, ByteStepType DEF CrcInv, CheckerInv
<1>8. RegisterIsRemainder'
  BY <1>1, <1>3, <1>4, <1>5, RemainderOfBytes DEF RegisterIsRemainder
<1> QED
  BY <1>6, <1>7, <1>8 DEF CrcInv

(* Every step keeps the invariant.                                         *)
LEMMA NextCrcInv == CrcInv /\ [Next]_crcVars => CrcInv'
<1> SUFFICES ASSUME CrcInv, [Next]_crcVars PROVE CrcInv'
  OBVIOUS
<1>1. CASE Judge
  BY <1>1 DEF CrcInv, Judge, BuilderInv, CheckerInv, RegisterIsRemainder
<1>2. CASE NextPacket
  <2>1. BuilderInv'
    BY <1>2, PolynomialAssumption, BytesAssumption DEF NextPacket, BuilderInv
  <2>2. CheckerInv'
    BY <1>2 DEF NextPacket, CheckerInv, Idle
  <2>3. RegisterIsRemainder'
    BY <1>2, RemainderOfBytes DEF NextPacket, RegisterIsRemainder
  <2> QED
    BY <2>1, <2>2, <2>3 DEF CrcInv
<1>3. CASE UNCHANGED crcVars
  BY <1>3 DEF crcVars, CrcInv, BuilderInv, CheckerInv, Idle,
     RegisterIsRemainder
<1> QED
  BY <1>1, <1>2, <1>3, AddByteKeeps, AppendChecksumKeeps, DeliverKeeps,
     CheckByteKeeps DEF Next

(* When the packet has been checked, the register is its remainder.        *)
LEMMA Judged ==
    ASSUME CrcInv, phase = "judged"
    PROVE  verdict = IF RemainderOf(in) = {} THEN "Correct SP CRC"
                     ELSE "Incorrect SP CRC"
<1>1. in \in Seq(Byte) /\ data_byte_counter = Len(in)
  BY Arrived DEF CrcInv, CheckerInv
<1>2. SubSeq(in, 1, Len(in)) = in
  BY <1>1
<1>3. crc_check = RemainderOf(in)
  BY <1>1, <1>2 DEF CrcInv, RegisterIsRemainder
<1> QED
  BY <1>3 DEF CrcInv, CheckerInv

(* The register is the remainder of the bytes built or checked so far, for *)
(* every polynomial and every length.                                      *)
THEOREM RegisterDivides == Spec => []RegisterIsRemainder
<1>1. CrcInv => RegisterIsRemainder
  BY DEF CrcInv
<1> QED
  BY <1>1, InitCrcInv, NextCrcInv, PTL DEF Spec

(* Every packet that arrives undamaged is found correct, for every message *)
(* of every length and every such polynomial.                              *)
THEOREM IntactPackets == Spec => []IntactAccepted
<1>1. CrcInv => IntactAccepted
  BY Judged DEF IntactAccepted, CrcInv, BuilderInv
<1> QED
  BY <1>1, InitCrcInv, NextCrcInv, PTL DEF Spec

(* No packet damaged by a burst of at most 16 bits, wherever it begins, is *)
(* found correct: the burst would have to be a multiple of the divisor,    *)
(* which has 17.                                                           *)
THEOREM DamagedPackets == Spec => []DamageSeen
<1>1. CrcInv => DamageSeen
  <2> SUFFICES ASSUME CrcInv, phase = "judged", in # out
               PROVE  verdict = "Incorrect SP CRC"
    BY DEF DamageSeen
  <2>1. out \in Seq(Byte) /\ RemainderOf(out) = {}
    BY DEF CrcInv, BuilderInv
  <2>2. PICK burst \in Register, at \in 0..(8 * Len(out) - 16) :
           in = Hit(out, burst, at)
    BY DEF CrcInv, CheckerInv
  <2>3. burst # {}
    <3> SUFFICES ASSUME burst = {} PROVE FALSE
      OBVIOUS
    <3>1. in = [i \in 1..Len(out) |-> out[i]]
      <4>1. \A i : {b \in 0..7 : b + 8 * (Len(out) - i) - at \in {}} = {}
        OBVIOUS
      <4>2. \A x : Xor(x, {}) = x
        BY DEF Xor
      <4> QED
        BY <2>2, <4>1, <4>2 DEF Hit
    <3>2. out = [i \in 1..Len(out) |-> out[i]]
      BY <2>1, LenProperties
    <3> QED
      BY <3>1, <3>2
  <2>4. RemainderOf(in) # {}
    BY <2>1, <2>2, <2>3, HitRemains
  <2> QED
    BY <2>4, Judged
<1> QED
  BY <1>1, InitCrcInv, NextCrcInv, PTL DEF Spec

(* The registers keep to 16 bits and the packets to their length.          *)
THEOREM CrcTypeCorrect == Spec => []TypeOK
<1>1. CrcInv => TypeOK
  <2> SUFFICES ASSUME CrcInv PROVE TypeOK
    OBVIOUS
  <2>1. /\ phase \in {"build", "sent", "check", "judged"}
        /\ out \in Seq(Byte) /\ Len(out) <= MaxLength + 2
        /\ crc_shift \in Register
    BY BytesAssumption DEF CrcInv, BuilderInv
  <2>2. /\ in \in Seq(Byte) /\ Len(in) \in {0, Len(out)}
        /\ crc_check \in Register /\ data_byte_counter \in 0..Len(in)
        /\ verdict \in {"none", "Correct SP CRC", "Incorrect SP CRC"}
    <3>1. CASE phase \in {"build", "sent"}
      BY <3>1, PolynomialAssumption DEF CrcInv, CheckerInv, Idle
    <3>2. CASE phase \notin {"build", "sent"}
      BY <3>2, Arrived DEF CrcInv, CheckerInv
    <3> QED
      BY <3>1, <3>2
  <2> QED
    BY <2>1, <2>2 DEF TypeOK
<1> QED
  BY <1>1, InitCrcInv, NextCrcInv, PTL DEF Spec
=============================================================================
