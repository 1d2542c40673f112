------------------------------- MODULE Datapath -------------------------------
(***************************************************************************)
(* The combinational part of src/src/cpu/State.cpp: 32-bit registers as    *)
(* the signed integers their int32_t type holds, the fields decode() cuts  *)
(* out of an instruction word, and the results execute() computes.         *)
(* Nothing here has state; State and ISA both use it.                      *)
(***************************************************************************)
EXTENDS Integers, Sequences

Byte == 0..255

(***************************************************************************)
(* 32-bit two's complement.  Sums and products are taken in pieces, so     *)
(* that every intermediate result is itself a 32-bit integer.              *)
(***************************************************************************)
Power2   == <<1, 2, 4, 8, 16, 32, 64, 128, 256, 512, 1024, 2048, 4096, 8192,
              16384, 32768, 65536>>
Power256 == <<1, 256, 65536, 16777216>>

ByteOf(x, k) == (x \div Power256[k + 1]) % 256
Signed(b, n) == IF b >= n \div 2 THEN b - n ELSE b
\* The word whose bytes are b3, the most significant, to b0.
Word(b3, b2, b1, b0) ==
  Signed(b3, 256) * 16777216 + b2 * 65536 + b1 * 256 + b0

\* The low 32 bits of hi * 2^16 + lo.
Carry(hi, lo) == Signed((hi + lo \div 65536) % 65536, 65536) * 65536
                 + (lo % 65536)
Add32(x, y) ==
  Carry(x \div 65536 + y \div 65536, (x % 65536) + (y % 65536))
Sub32(x, y) ==
  Carry(x \div 65536 - y \div 65536, (x % 65536) - (y % 65536))

\* c0 to c3 are the columns of a product on paper, with base 256.
Mul32(x, y) ==
  LET p(i, j) == ByteOf(x, i) * ByteOf(y, j)
      c0 == p(0, 0)
      c1 == p(0, 1) + p(1, 0) + c0 \div 256
      c2 == p(0, 2) + p(1, 1) + p(2, 0) + c1 \div 256
      c3 == p(0, 3) + p(1, 2) + p(2, 1) + p(3, 0) + c2 \div 256
  IN Word(c3 % 256, c2 % 256, c1 % 256, c0 % 256)

\* A shift count is taken modulo 32, as the processor's shift does.
ShiftLeft(x, n)  == LET m == n % 32
                    IN Mul32(Mul32(x, Power2[m \div 2 + 1]),
                             Power2[m - m \div 2 + 1])
ShiftRight(x, n) == LET m == n % 32
                    IN (x \div Power2[m \div 2 + 1])
                         \div Power2[m - m \div 2 + 1]

\* Bits of a word, bit 0 the least significant, and the word of 32 bits.
Bit(x, k) == (ByteOf(x, k \div 8) \div Power2[(k % 8) + 1]) % 2
EightBits(b, k) == b[k] + 2 * b[k + 1] + 4 * b[k + 2] + 8 * b[k + 3]
                   + 16 * b[k + 4] + 32 * b[k + 5] + 64 * b[k + 6]
                   + 128 * b[k + 7]
OfBits(b) == Word(EightBits(b, 24), EightBits(b, 16), EightBits(b, 8),
                  EightBits(b, 0))
And32(x, y) == OfBits([k \in 0..31 |-> Bit(x, k) * Bit(y, k)])
Or32(x, y)  == OfBits([k \in 0..31 |->
                         IF Bit(x, k) + Bit(y, k) > 0 THEN 1 ELSE 0])
Xor32(x, y) == OfBits([k \in 0..31 |-> (Bit(x, k) + Bit(y, k)) % 2])

LessU(x, y) == IF (x < 0) = (y < 0) THEN x < y ELSE y < 0

\* Division truncates; the remainder has the sign of the dividend.
Abs(x) == IF x < 0 THEN -x ELSE x
Quot(x, y) == IF (x < 0) = (y < 0) THEN Abs(x) \div Abs(y)
                                   ELSE -(Abs(x) \div Abs(y))
Rem(x, y) == x - y * Quot(x, y)

\* Unsigned division, by halving a dividend of 2^31 or more.
DivU(x, y) ==
  LET half == (ByteOf(x, 3) \div 2) * 16777216
              + ((ByteOf(x, 3) % 2) * 16777216 + (x % 16777216)) \div 2
      m == half % y
      room == y - m - (x % 2)
      q == Add32(half \div y, half \div y)
  IN IF x >= 0 /\ y > 0 THEN [quot |-> x \div y, rem |-> x % y]
     ELSE IF y < 0 /\ LessU(x, y) THEN [quot |-> 0, rem |-> x]
     ELSE IF y < 0 THEN [quot |-> 1, rem |-> Sub32(x, y)]
     ELSE IF m >= room THEN [quot |-> Add32(q, 1), rem |-> m - room]
     ELSE [quot |-> q, rem |-> 2 * m + (x % 2)]
-----------------------------------------------------------------------------
(***************************************************************************)
(* Instruction words, as the four bytes fetch() reads, and what decode()   *)
(* makes of them.  The mask for rd leaves out the field's lowest bit, the  *)
(* one for shamt its highest; the immediate is not sign-extended.          *)
(***************************************************************************)
OpBits(w) == w[1] \div 4
Rs(w)     == (w[1] % 4) * 8 + w[2] \div 32
\* Seeded fault: the field is not masked.
Rt_Unmasked(w) == w[2]
Rt(w)     == w[2] % 32
Rd(w)     == 2 * (w[3] \div 16)
Shamt(w)  == (w[3] % 4) * 4 + w[4] \div 64
Func(w)   == w[4] % 64
Imm16(w)  == w[3] * 256 + w[4]
Imm26(w)  == (w[1] % 4) * 16777216 + w[2] * 65536 + w[3] * 256 + w[4]

JumpOpBits   == {2, 3}
BranchOpBits == {4, 5, 6, 7}   \* beq, bne, blez, bgtz
Loads        == {32, 33, 35}   \* lb, lh, lw
Stores       == {40, 41, 43}   \* sb, sh, sw
Syscall      == 12
DivFuncs     == {26, 27}       \* div, divu
-----------------------------------------------------------------------------
(***************************************************************************)
(* What execute() computes.  R-instructions that set the ALU register,     *)
(* from R[rs], R[rt], shamt, HI, LO and the PC of the next instruction.    *)
(* Right shifts are arithmetic, and nor is a logical negation.             *)
(***************************************************************************)
AluFuncs == {0, 2, 3, 4, 6, 7, 9, 16, 18} \cup 32..39 \cup {42, 43}
RAlu(f, s, t, sh, hi, lo, pc) ==
  CASE f = 0            -> ShiftLeft(t, sh)
    [] f \in {2, 3}     -> ShiftRight(t, sh)
    [] f = 4            -> ShiftLeft(t, s)
    [] f \in {6, 7}     -> ShiftRight(t, s)
    [] f = 9            -> Add32(pc, 8)
    [] f = 16           -> hi
    [] f = 18           -> lo
    [] f \in {32, 33}   -> Add32(s, t)
    [] f \in {34, 35}   -> Sub32(s, t)
    [] f = 36           -> And32(s, t)
    [] f = 37           -> Or32(s, t)
    [] f = 38           -> Xor32(s, t)
    [] f = 39           -> IF Or32(s, t) = 0 THEN 1 ELSE 0
    [] f = 42           -> IF s < t THEN 1 ELSE 0
    [] f = 43           -> IF LessU(s, t) THEN 1 ELSE 0

\* HI and LO.  The product is taken in 32 bits: HI is its sign, or 0.
HiLo(f, s, t, hi, lo) ==
  LET both(h, l) == [hi |-> h, lo |-> l]
  IN IF f = 17 THEN both(s, lo)
     ELSE IF f = 19 THEN both(hi, s)
     ELSE IF f = 24 THEN both(IF Mul32(s, t) < 0 THEN -1 ELSE 0, Mul32(s, t))
     ELSE IF f = 25 THEN both(0, Mul32(s, t))
     ELSE IF f = 26 THEN both(Rem(s, t), Quot(s, t))
     ELSE IF f = 27 THEN both(DivU(s, t).rem, DivU(s, t).quot)
     ELSE both(hi, lo)

\* The two divisions the processor traps on.
Traps(f, s, t) == \/ f \in DivFuncs /\ t = 0
                  \/ f = 26 /\ s = -2147483647 - 1 /\ t = -1

AluOpBits == 8..15
IAlu(op, s, imm) ==
  CASE op \in {8, 9} -> Add32(s, imm)
    [] op = 10       -> IF s < imm THEN 1 ELSE 0
    [] op = 11       -> IF LessU(s, imm) THEN 1 ELSE 0
    [] op = 12       -> And32(s, imm)
    [] op = 13       -> Or32(s, imm)
    [] op = 14       -> Xor32(s, imm)
    [] op = 15       -> ShiftLeft(imm, 16)

Taken(op, s, t) == \/ op = 4 /\ s = t
                   \/ op = 5 /\ s # t
                   \/ op = 6 /\ s <= 0
                   \/ op = 7 /\ s > 0

\* Where a taken branch and a jump go, from the PC of the next instruction.
BranchTarget(pc, imm) == Add32(pc, 4 * imm + 4)
JumpTarget(pc, imm)   == Add32(pc, 4 * imm)

\* The bytes a store writes, from its address up: sh writes its low byte
\* twice, sw writes the least significant byte first.
StoreBytes(op, x) ==
  IF op = 40 THEN <<ByteOf(x, 0)>>
  ELSE IF op = 41 THEN <<ByteOf(x, 0), ByteOf(x, 0)>>
  ELSE <<ByteOf(x, 0), ByteOf(x, 1), ByteOf(x, 2), ByteOf(x, 3)>>

\* How many bytes a load reads, and what it makes of them: lh reads one byte,
\* lw takes the first one for the most significant.
LoadSize(op) == IF op = 35 THEN 4 ELSE 1
LoadValue(op, b) == IF op = 35 THEN Word(b[1], b[2], b[3], b[4]) ELSE b[1]
=============================================================================
