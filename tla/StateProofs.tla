---------------------------- MODULE StateProofs ----------------------------
(***************************************************************************)
(* Proofs about the processor, for any size and contents of its memory.    *)
(***************************************************************************)
EXTENDS State, TLAPS
-----------------------------------------------------------------------------
(***************************************************************************)
(* The results of the datapath are integers, the fields in their ranges.   *)
(***************************************************************************)
LEMMA ByteOfType == ASSUME NEW x \in Int, NEW k \in 0..3 PROVE ByteOf(x, k) \in Byte
<1>1. Power256[k + 1] \in Nat \ {0}
  BY DEF Power256
<1>2. x \div Power256[k + 1] \in Int
  BY <1>1
<1> QED BY <1>2 DEF ByteOf, Byte

LEMMA SignedType == ASSUME NEW b \in Int, NEW n \in Nat PROVE Signed(b, n) \in Int
  BY DEF Signed

LEMMA WordType ==
  ASSUME NEW b3 \in Int, NEW b2 \in Int, NEW b1 \in Int, NEW b0 \in Int
  PROVE  Word(b3, b2, b1, b0) \in Int
  BY SignedType DEF Word

LEMMA SumTypes == ASSUME NEW x \in Int, NEW y \in Int
                  PROVE  Add32(x, y) \in Int /\ Sub32(x, y) \in Int
<1>1. ASSUME NEW h \in Int, NEW l \in Int PROVE Carry(h, l) \in Int
  <2>1. (h + l \div 65536) % 65536 \in Int /\ l % 65536 \in Int
    BY <1>1
  <2> QED BY <2>1, SignedType DEF Carry
<1> QED BY <1>1 DEF Add32, Sub32

LEMMA ProductType == ASSUME NEW x \in Int, NEW y \in Int PROVE Mul32(x, y) \in Int
<1> DEFINE p(i, j) == ByteOf(x, i) * ByteOf(y, j)
           c0 == p(0, 0)
           c1 == p(0, 1) + p(1, 0) + c0 \div 256
           c2 == p(0, 2) + p(1, 1) + p(2, 0) + c1 \div 256
           c3 == p(0, 3) + p(1, 2) + p(2, 1) + p(3, 0) + c2 \div 256
<1>1. \A i, j \in 0..3 : p(i, j) \in Int
  <2>1. \A i, j \in 0..3 : ByteOf(x, i) \in Int /\ ByteOf(y, j) \in Int
    BY ByteOfType DEF Byte
  <2> QED BY <2>1
<1> HIDE DEF p
<1>2. c0 \in Int
  BY <1>1
<1> HIDE DEF c0
<1>3. c1 \in Int
  BY <1>1, <1>2
<1> HIDE DEF c1
<1>4. c2 \in Int
  BY <1>1, <1>3
<1> HIDE DEF c2
<1>5. c3 \in Int
  BY <1>1, <1>4
<1> HIDE DEF c3
<1>6. Word(c3 % 256, c2 % 256, c1 % 256, c0 % 256) \in Int
  BY <1>2, <1>3, <1>4, <1>5, WordType
<1> QED BY <1>6 DEF Mul32, p, c0, c1, c2, c3

LEMMA ShiftTypes == ASSUME NEW x \in Int, NEW n \in Int
                    PROVE  ShiftLeft(x, n) \in Int /\ ShiftRight(x, n) \in Int
<1> DEFINE m == n % 32
           a == Power2[m \div 2 + 1]
           b == Power2[m - m \div 2 + 1]
<1>1. m \in 0..31
  OBVIOUS
<1> HIDE DEF m
<1>2. m \div 2 \in 0..15 /\ m - m \div 2 \in 0..16
  BY <1>1
<1>3. \A k \in 0..16 : Power2[k + 1] \in Nat \ {0}
  BY DEF Power2
<1>4. a \in Nat \ {0} /\ b \in Nat \ {0}
  BY <1>2, <1>3
<1> HIDE DEF a, b
<1>5. Mul32(Mul32(x, a), b) \in Int
  BY <1>4, ProductType
<1>6. (x \div a) \div b \in Int
  BY <1>4
<1> QED BY <1>5, <1>6 DEF ShiftLeft, ShiftRight, m, a, b

LEMMA BitType == ASSUME NEW x \in Int, NEW k \in 0..31 PROVE Bit(x, k) \in 0..1
<1>1. ByteOf(x, k \div 8) \in Int
  BY ByteOfType DEF Byte
<1>2. Power2[(k % 8) + 1] \in Nat \ {0}
  BY DEF Power2
<1>3. ByteOf(x, k \div 8) \div Power2[(k % 8) + 1] \in Int
  BY <1>1, <1>2
<1> QED BY <1>3 DEF Bit

LEMMA BitwiseTypes == ASSUME NEW x \in Int, NEW y \in Int
                      PROVE  And32(x, y) \in Int /\ Or32(x, y) \in Int /\ Xor32(x, y) \in Int
<1>1. ASSUME NEW b \in [0..31 -> Int] PROVE OfBits(b) \in Int
  <2>1. \A k \in 0..24 : EightBits(b, k) \in Int
    BY DEF EightBits
  <2>2. /\ EightBits(b, 0) \in Int /\ EightBits(b, 8) \in Int
        /\ EightBits(b, 16) \in Int /\ EightBits(b, 24) \in Int
    BY <2>1
  <2> QED BY <2>2, WordType DEF OfBits
<1>2. \A k \in 0..31 : Bit(x, k) \in Int /\ Bit(y, k) \in Int
  BY BitType
<1>3. [k \in 0..31 |-> Bit(x, k) * Bit(y, k)] \in [0..31 -> Int]
  BY <1>2
<1>4. [k \in 0..31 |-> IF Bit(x, k) + Bit(y, k) > 0 THEN 1 ELSE 0] \in [0..31 -> Int]
  BY <1>2
<1>5. [k \in 0..31 |-> (Bit(x, k) + Bit(y, k)) % 2] \in [0..31 -> Int]
  BY <1>2
<1> QED BY <1>1, <1>3, <1>4, <1>5 DEF And32, Or32, Xor32

LEMMA RAluType ==
  ASSUME NEW f \in AluFuncs, NEW s \in Int, NEW t \in Int, NEW sh \in Int,
         NEW h \in Int, NEW l \in Int, NEW p \in Int
  PROVE  RAlu(f, s, t, sh, h, l, p) \in Int
  BY SumTypes, ShiftTypes, BitwiseTypes, SMT DEF RAlu, AluFuncs

LEMMA AbsType == ASSUME NEW x \in Int PROVE Abs(x) \in Nat /\ (x # 0 => Abs(x) # 0)
  BY DEF Abs

LEMMA QuotTypes == ASSUME NEW x \in Int, NEW y \in Int \ {0}
                   PROVE  Quot(x, y) \in Int /\ Rem(x, y) \in Int
<1>1. Abs(x) \in Int /\ Abs(y) \in Nat \ {0}
  BY AbsType
<1>2. Abs(x) \div Abs(y) \in Int
  BY <1>1
<1>3. Quot(x, y) \in Int
  BY <1>2 DEF Quot
<1>4. y * Quot(x, y) \in Int
  BY <1>3
<1> QED BY <1>3, <1>4 DEF Rem

LEMMA DivUType == ASSUME NEW x \in Int, NEW y \in Int \ {0}
                  PROVE  DivU(x, y).quot \in Int /\ DivU(x, y).rem \in Int
<1> DEFINE half == (ByteOf(x, 3) \div 2) * 16777216
                   + ((ByteOf(x, 3) % 2) * 16777216 + (x % 16777216)) \div 2
           q == Add32(half \div y, half \div y)
           m == half % y
           room == y - m - (x % 2)
<1>1. half \in Int
  <2>1. ByteOf(x, 3) \in Int
    BY ByteOfType DEF Byte
  <2> QED BY <2>1
<1> HIDE DEF half
<1>2. CASE x >= 0 /\ y > 0
  <2>1. x \div y \in Int /\ x % y \in Int
    BY <1>2
  <2>2. DivU(x, y) = [quot |-> x \div y, rem |-> x % y]
    BY <1>2 DEF DivU
  <2> QED BY <2>1, <2>2
<1>3. CASE y < 0
  <2>1. DivU(x, y) = IF LessU(x, y) THEN [quot |-> 0, rem |-> x]
                                    ELSE [quot |-> 1, rem |-> Sub32(x, y)]
    BY <1>3 DEF DivU
  <2> QED BY <2>1, SumTypes
<1>4. CASE ~(x >= 0 /\ y > 0) /\ ~(y < 0)
  <2>1. y \in Nat \ {0}
    BY <1>4
  <2>2. half \div y \in Int /\ m \in Int
    BY <1>1, <2>1
  <2>3. q \in Int
    BY <2>2, SumTypes
  <2>4. DivU(x, y) = IF m >= room THEN [quot |-> Add32(q, 1), rem |-> m - room]
                     ELSE [quot |-> q, rem |-> 2 * m + (x % 2)]
    BY <1>4 DEF DivU, half
  <2> HIDE DEF q, m
  <2>5. Add32(q, 1) \in Int /\ room \in Int
    BY <2>2, <2>3, SumTypes
  <2> HIDE DEF room
  <2> QED BY <2>2, <2>3, <2>4, <2>5
<1> QED BY <1>2, <1>3, <1>4

LEMMA HiLoType ==
  ASSUME NEW f, NEW s \in Int, NEW t \in Int, NEW h \in Int, NEW l \in Int,
         ~Traps(f, s, t)
  PROVE  HiLo(f, s, t, h, l).hi \in Int /\ HiLo(f, s, t, h, l).lo \in Int
<1>1. f \in DivFuncs => t \in Int \ {0}
  BY DEF Traps
<1>2. CASE f = 26
  <2>1. HiLo(f, s, t, h, l) = [hi |-> Rem(s, t), lo |-> Quot(s, t)]
    BY <1>2 DEF HiLo
  <2>2. t \in Int \ {0}
    BY <1>1, <1>2 DEF DivFuncs
  <2>3. Rem(s, t) \in Int /\ Quot(s, t) \in Int
    BY <2>2, QuotTypes
  <2> QED BY <2>1, <2>3
<1>3. CASE f = 27
  <2>1. HiLo(f, s, t, h, l) = [hi |-> DivU(s, t).rem, lo |-> DivU(s, t).quot]
    BY <1>3 DEF HiLo
  <2>2. t \in Int \ {0}
    BY <1>1, <1>3 DEF DivFuncs
  <2>3. DivU(s, t).rem \in Int /\ DivU(s, t).quot \in Int
    BY <2>2, DivUType
  <2> QED BY <2>1, <2>3
<1>4. CASE f = 24
  <2>1. HiLo(f, s, t, h, l)
          = [hi |-> IF Mul32(s, t) < 0 THEN -1 ELSE 0, lo |-> Mul32(s, t)]
    BY <1>4 DEF HiLo
  <2>2. Mul32(s, t) \in Int /\ -1 \in Int
    BY ProductType
  <2> QED BY <2>1, <2>2
<1>5. CASE f = 25
  <2>1. HiLo(f, s, t, h, l) = [hi |-> 0, lo |-> Mul32(s, t)]
    BY <1>5 DEF HiLo
  <2> QED BY <2>1, ProductType
<1>6. CASE f = 17
  <2>1. HiLo(f, s, t, h, l) = [hi |-> s, lo |-> l]
    BY <1>6 DEF HiLo
  <2> QED BY <2>1
<1>7. CASE f = 19
  <2>1. HiLo(f, s, t, h, l) = [hi |-> h, lo |-> s]
    BY <1>7 DEF HiLo
  <2> QED BY <2>1
<1>8. CASE f \notin {17, 19, 24, 25, 26, 27}
  <2>1. HiLo(f, s, t, h, l) = [hi |-> h, lo |-> l]
    BY <1>8 DEF HiLo
  <2> QED BY <2>1
<1> QED BY <1>2, <1>3, <1>4, <1>5, <1>6, <1>7, <1>8

LEMMA IAluType ==
  ASSUME NEW op \in AluOpBits, NEW s \in Int, NEW imm \in Int
  PROVE  IAlu(op, s, imm) \in Int
  BY SumTypes, ShiftTypes, BitwiseTypes, SMT DEF IAlu, AluOpBits

LEMMA TargetTypes ==
  ASSUME NEW p \in Int, NEW imm \in Int
  PROVE  BranchTarget(p, imm) \in Int /\ JumpTarget(p, imm) \in Int
<1>1. 4 * imm + 4 \in Int /\ 4 * imm \in Int
  OBVIOUS
<1> QED BY <1>1, SumTypes, Zenon DEF BranchTarget, JumpTarget

LEMMA StoreBytesType ==
  ASSUME NEW op \in Stores, NEW x \in Int
  PROVE  StoreBytes(op, x) \in Seq(Byte)
<1>1. \A k \in 0..3 : ByteOf(x, k) \in Byte
  BY ByteOfType
<1>2. ByteOf(x, 0) \in Byte /\ ByteOf(x, 1) \in Byte /\ ByteOf(x, 2) \in Byte
      /\ ByteOf(x, 3) \in Byte
  BY <1>1
<1> QED BY <1>2 DEF StoreBytes, Stores

LEMMA LoadValueType ==
  ASSUME NEW op \in Loads, NEW b \in [1..LoadSize(op) -> Byte]
  PROVE  LoadValue(op, b) \in Int
<1>1. CASE op = 35
  <2>1. b[1] \in Int /\ b[2] \in Int /\ b[3] \in Int /\ b[4] \in Int
    BY <1>1 DEF LoadSize, Byte
  <2> QED BY <1>1, <2>1, WordType DEF LoadValue
<1>2. CASE op # 35
  BY <1>2 DEF LoadValue, LoadSize, Byte
<1> QED BY <1>1, <1>2

LEMMA FieldTypes ==
  ASSUME NEW w \in [1..4 -> Byte]
  PROVE  /\ OpBits(w) \in 0..63 /\ Rs(w) \in 0..31 /\ Rt(w) \in 0..31
         /\ Rd(w) \in 0..31 /\ Shamt(w) \in 0..31 /\ Func(w) \in 0..63
         /\ Imm16(w) \in Nat /\ Imm26(w) \in Nat
<1>1. w[1] \in 0..255 /\ w[2] \in 0..255 /\ w[3] \in 0..255 /\ w[4] \in 0..255
  BY DEF Byte
<1>2. OpBits(w) \in 0..63 /\ Rs(w) \in 0..31 /\ Rt(w) \in 0..31
  BY <1>1, SMT DEF OpBits, Rs, Rt
<1>3. Rd(w) \in 0..31 /\ Shamt(w) \in 0..31 /\ Func(w) \in 0..63
  BY <1>1, SMT DEF Rd, Shamt, Func
<1>4. Imm16(w) \in Nat /\ Imm26(w) \in Nat
  <2>1. \A a, b, c, d \in Nat : /\ c * 256 + d \in Nat
                               /\ a * 16777216 + b * 65536 + c * 256 + d \in Nat
    BY SMT
  <2>2. w[1] % 4 \in Nat /\ w[2] \in Nat /\ w[3] \in Nat /\ w[4] \in Nat
    BY <1>1
  <2> QED BY <2>1, <2>2, SMT DEF Imm16, Imm26
<1> QED BY <1>2, <1>3, <1>4
-----------------------------------------------------------------------------
(***************************************************************************)
(* Types.  A tick is begun only while ticks < MaxTicks.  BytesInMemory     *)
(* says that bytes between two addresses have addresses.                   *)
(***************************************************************************)
TypeInv == /\ StateTypeOK
           /\ stage \in {"decode", "execute", "memory", "write_back"} =>
                ticks < MaxTicks

LEMMA BytesInMemory ==
  ASSUME NEW a \in Int, NEW n \in Int, a \in Address, a + n - 1 \in Address
  PROVE  \A k \in 1..n : a + k - 1 \in Address
  BY ImagesAssumption DEF Address

LEMMA ElementsOfSeq ==
  ASSUME NEW S, NEW b \in Seq(S)
  PROVE  Len(b) \in Nat /\ \A k \in 1..Len(b) : b[k] \in S
  OBVIOUS

LEMMA TypeInit == Init => TypeInv
<1> SUFFICES ASSUME Init PROVE TypeInv
  OBVIOUS
<1>1. mem \in [Address -> Byte] /\ alu \in Int /\ ticks \in 0..MaxTicks
  BY ImagesAssumption, JunkAssumption, TicksAssumption DEF Init
<1>2. field \in Latch /\ reg \in [0..31 -> Int] /\ instr \in [1..4 -> Byte]
  BY DEF Init, ZeroField, ZeroReg, Latch, Byte
<1>3. last \in [pc : Int, reg : [0..31 -> Int], hi : Int, lo : Int,
                mem : [Address -> Byte]]
  BY <1>1, <1>2 DEF Init
<1> QED BY <1>1, <1>2, <1>3 DEF Init, TypeInv, StateTypeOK

LEMMA TypeFetch == TypeInv /\ Fetch => TypeInv'
<1> SUFFICES ASSUME TypeInv, Fetch PROVE TypeInv'
  OBVIOUS
<1> USE DEF TypeInv, StateTypeOK
<1>1. instr' \in [1..4 -> Byte]
  <2>1. pc \in Int /\ 4 \in Int /\ pc \in Address /\ pc + 4 - 1 \in Address
    BY DEF Fetch
  <2>2. \A k \in 1..4 : pc + k - 1 \in Address
    BY <2>1, BytesInMemory, Zenon
  <2>3. \A k \in 1..4 : mem[pc + k - 1] \in Byte
    BY <2>2
  <2> QED BY <2>3 DEF Fetch
<1> QED BY <1>1 DEF Fetch

LEMMA TypeDecode == TypeInv /\ Decode => TypeInv'
<1> SUFFICES ASSUME TypeInv, Decode PROVE TypeInv'
  OBVIOUS
<1> USE DEF TypeInv, StateTypeOK
<1>1. field' \in Latch
  <2>1. /\ OpBits(instr) \in 0..63 /\ Rs(instr) \in 0..31 /\ Rt(instr) \in 0..31
        /\ Rd(instr) \in 0..31 /\ Shamt(instr) \in 0..31 /\ Func(instr) \in 0..63
        /\ Imm16(instr) \in Nat /\ Imm26(instr) \in Nat
    BY FieldTypes
  <2>2. DecodeR \in Latch
    BY <2>1 DEF DecodeR, Latch
  <2>3. DecodeJ \in Latch
    BY <2>1 DEF DecodeJ, Latch
  <2>4. DecodeI \in Latch
    BY <2>1 DEF DecodeI, Latch
  <2> QED BY <2>2, <2>3, <2>4 DEF Decode
<1> QED BY <1>1 DEF Decode

LEMMA TypeExecute == TypeInv /\ Execute => TypeInv'
<1> SUFFICES ASSUME TypeInv, Execute PROVE TypeInv'
  OBVIOUS
<1> USE DEF TypeInv, StateTypeOK
<1>1. RegRs \in Int /\ RegRt \in Int /\ field.imm \in Int /\ field.shamt \in Int
  BY DEF RegRs, RegRt, Latch
<1>2. CASE Trap
  BY <1>2 DEF Trap
<1>3. CASE ExecuteR
  <2>1. HiLo(field.func, RegRs, RegRt, hi, lo).hi \in Int
        /\ HiLo(field.func, RegRs, RegRt, hi, lo).lo \in Int
    BY <1>1, <1>3, HiLoType DEF ExecuteR
  <2>2. field.func \in AluFuncs =>
          RAlu(field.func, RegRs, RegRt, field.shamt, hi, lo, pc) \in Int
    BY <1>1, RAluType
  <2>3. pc' \in Int /\ alu' \in Int /\ hi' \in Int /\ lo' \in Int
    BY <1>1, <1>3, <2>1, <2>2 DEF ExecuteR
  <2> QED BY <1>3, <2>3 DEF ExecuteR
<1>4. CASE ExecuteJ
  <2>1. pc' \in Int
    BY <1>1, <1>4, TargetTypes DEF ExecuteJ
  <2>2. reg' \in [0..31 -> Int]
    BY <1>4 DEF ExecuteJ
  <2> QED BY <1>4, <2>1, <2>2 DEF ExecuteJ
<1>5. CASE ExecuteI
  <2>1. pc' \in Int
    BY <1>1, <1>5, TargetTypes DEF ExecuteI
  <2>2. alu' \in Int
    BY <1>1, <1>5, IAluType DEF ExecuteI
  <2>3. mem_addr' \in Int
    BY <1>1, <1>5, SumTypes DEF ExecuteI
  <2> QED BY <1>5, <2>1, <2>2, <2>3 DEF ExecuteI
<1> QED BY <1>2, <1>3, <1>4, <1>5 DEF Execute

LEMMA TypeMemory == TypeInv /\ Memory => TypeInv'
<1> SUFFICES ASSUME TypeInv, Memory PROVE TypeInv'
  OBVIOUS
<1> USE DEF TypeInv, StateTypeOK
<1>1. RegRt \in Int
  BY DEF RegRt, Latch
<1>2. CASE field.op_bits \in Stores
  <2> DEFINE b == StoreBytes(field.op_bits, RegRt)
  <2>1. b \in Seq(Byte)
    BY <1>1, <1>2, StoreBytesType
  <2>2. field.op_bits \notin Loads
    BY <1>2 DEF Stores, Loads
  <2>3. mem' = [a \in Address |-> IF a \in mem_addr..(mem_addr + Len(b) - 1)
                                  THEN b[a - mem_addr + 1] ELSE mem[a]]
        /\ UNCHANGED mem_data
    BY <1>2, <2>2, Zenon DEF Memory
  <2> HIDE DEF b
  <2>4. Len(b) \in Nat /\ \A k \in 1..Len(b) : b[k] \in Byte
    BY <2>1, ElementsOfSeq
  <2>5. ASSUME NEW a \in Address, a \in mem_addr..(mem_addr + Len(b) - 1)
        PROVE  b[a - mem_addr + 1] \in Byte
    <3>1. a \in Int
      BY ImagesAssumption DEF Address
    <3>2. a - mem_addr + 1 \in 1..Len(b)
      BY <2>4, <2>5, <3>1
    <3> QED BY <2>4, <3>2
  <2>6. mem' \in [Address -> Byte]
    BY <2>3, <2>5
  <2> QED BY <2>3, <2>6 DEF Memory
<1>3. CASE field.op_bits \in Loads
  <2> DEFINE n == LoadSize(field.op_bits)
             b == [k \in 1..n |-> mem[mem_addr + k - 1]]
  <2>1. field.op_bits \notin Stores
    BY <1>3 DEF Stores, Loads
  <2>2. /\ InMemory(n) /\ mem_data' = LoadValue(field.op_bits, b)
        /\ UNCHANGED mem
    BY <1>3, <2>1, Zenon DEF Memory
  <2>3. n \in 1..4
    BY DEF LoadSize
  <2> HIDE DEF n
  <2>4. \A k \in 1..n : mem_addr + k - 1 \in Address
    <3>1. /\ mem_addr \in Int /\ n \in Int
          /\ mem_addr \in Address /\ mem_addr + n - 1 \in Address
      BY <2>2, <2>3 DEF InMemory
    <3> QED BY <3>1, BytesInMemory, Zenon
  <2>5. b \in [1..n -> Byte]
    BY <2>4
  <2> HIDE DEF b
  <2>6. mem_data' \in Int
    BY <1>3, <2>2, <2>5, LoadValueType DEF n
  <2> QED BY <2>2, <2>6 DEF Memory
<1>4. CASE field.op_bits \notin Stores \cup Loads
  BY <1>4 DEF Memory
<1> QED BY <1>2, <1>3, <1>4

LEMMA TypeWriteBack == TypeInv /\ WriteBack => TypeInv'
<1> SUFFICES ASSUME TypeInv, WriteBack PROVE TypeInv'
  OBVIOUS
<1> USE DEF TypeInv, StateTypeOK
<1>1. Written \in [0..31 -> Int]
  BY DEF Written
<1>2. last' \in [pc : Int, reg : [0..31 -> Int], hi : Int, lo : Int,
                 mem : [Address -> Byte]]
  BY <1>1 DEF WriteBack, Boundary
<1>3. ticks + 1 \in 0..MaxTicks
  BY TicksAssumption DEF WriteBack
<1> QED BY <1>1, <1>2, <1>3 DEF WriteBack

LEMMA TypeHost == TypeInv /\ (Reset \/ Poke) => TypeInv'
<1> SUFFICES ASSUME TypeInv, Reset \/ Poke PROVE TypeInv'
  OBVIOUS
<1> USE DEF TypeInv, StateTypeOK
<1>1. CASE Reset
  <2>1. ZeroField \in Latch /\ ZeroReg \in [0..31 -> Int]
        /\ <<0, 0, 0, 0>> \in [1..4 -> Byte]
    BY DEF ZeroField, ZeroReg, Latch, Byte
  <2>2. last' \in [pc : Int, reg : [0..31 -> Int], hi : Int, lo : Int,
                   mem : [Address -> Byte]]
    BY <1>1, <2>1 DEF Reset
  <2> QED BY <1>1, <2>1, <2>2 DEF Reset
<1>2. CASE Poke
  <2>1. PICK p \in Pokes : /\ reg' = [reg EXCEPT ![p[1]] = p[2]]
                           /\ last' = Boundary([reg EXCEPT ![p[1]] = p[2]])
    BY <1>2 DEF Poke
  <2>2. p[2] \in Int
    BY PokesAssumption
  <2>3. [reg EXCEPT ![p[1]] = p[2]] \in [0..31 -> Int]
    BY <2>2
  <2>4. last' \in [pc : Int, reg : [0..31 -> Int], hi : Int, lo : Int,
                   mem : [Address -> Byte]]
    BY <2>1, <2>3 DEF Boundary
  <2> QED BY <1>2, <2>1, <2>3, <2>4 DEF Poke
<1> QED BY <1>1, <1>2

(* The processor keeps the types of its variables: no instruction, operand *)
(* or memory makes a field, a register or a byte of another kind.          *)
THEOREM TypeCorrect == Spec => []StateTypeOK
<1>1. TypeInv /\ [Next]_vars => TypeInv'
  <2>1. TypeInv /\ UNCHANGED vars => TypeInv'
    BY DEF vars, TypeInv, StateTypeOK
  <2> QED
    BY <2>1, TypeFetch, TypeDecode, TypeExecute, TypeMemory, TypeWriteBack,
       TypeHost DEF Next
<1>2. TypeInv => StateTypeOK
  BY DEF TypeInv
<1> QED BY TypeInit, <1>1, <1>2, PTL DEF Spec
-----------------------------------------------------------------------------
\* The latches have the fields the struct has.
FieldNames == DOMAIN field = {"op_bits", "rs", "rt", "rd", "shamt", "func", "imm"}

FieldsInv == FieldNames /\ FieldsCurrent

LEMMA FieldsInvariant == Spec => []FieldsInv
<1>1. Init => FieldsInv
  BY DEF Init, FieldsInv, FieldNames, FieldsCurrent, ZeroField
<1>2. FieldsInv /\ [Next]_vars => FieldsInv'
  <2> SUFFICES ASSUME FieldsInv, [Next]_vars PROVE FieldsInv'
    OBVIOUS
  <2> USE DEF FieldsInv, FieldNames, FieldsCurrent
  <2>1. CASE Fetch
    BY <2>1 DEF Fetch
  <2>2. CASE Decode
    <3>1. CASE OpBits(instr) = 0 /\ field' = DecodeR
      BY <2>2, <3>1 DEF Decode, DecodeR, JumpOpBits
    <3>2. CASE OpBits(instr) \in JumpOpBits /\ field' = DecodeJ
      BY <2>2, <3>2 DEF Decode, DecodeJ, JumpOpBits
    <3>3. CASE OpBits(instr) \notin JumpOpBits \cup {0} /\ field' = DecodeI
      BY <2>2, <3>3 DEF Decode, DecodeI, JumpOpBits
    <3> QED BY <2>2, <3>1, <3>2, <3>3 DEF Decode
  <2>3. CASE Execute
    BY <2>3 DEF Execute, Trap, ExecuteR, ExecuteJ, ExecuteI
  <2>4. CASE Memory
    BY <2>4 DEF Memory
  <2>5. CASE WriteBack
    BY <2>5 DEF WriteBack
  <2>6. CASE Reset
    BY <2>6 DEF Reset, ZeroField
  <2>7. CASE Poke
    BY <2>7 DEF Poke
  <2>8. CASE UNCHANGED vars
    BY <2>8 DEF vars
  <2> QED BY <2>1, <2>2, <2>3, <2>4, <2>5, <2>6, <2>7, <2>8 DEF Next
<1> QED BY <1>1, <1>2, PTL DEF Spec

(* From decode() to write_back() the latches belong to the instruction,    *)
(* whatever instruction ran before it.                                     *)
THEOREM LatchesAreCurrent == Spec => []FieldsCurrent
<1>1. FieldsInv => FieldsCurrent
  BY DEF FieldsInv
<1> QED BY <1>1, FieldsInvariant, PTL
-----------------------------------------------------------------------------
(***************************************************************************)
(* The stages implement ISA.  Between two ticks the variables are those of *)
(* the last boundary; from fetch() on, each stage leaves what the          *)
(* instruction at last.pc makes of the values in last.                     *)
(***************************************************************************)
OnBoundary == /\ pc = last.pc /\ reg = last.reg /\ hi = last.hi
              /\ lo = last.lo /\ mem = last.mem

Fetched == last.pc \in Address /\ instr = Arch!w

Advanced == /\ pc = Arch!next /\ reg = last.reg /\ hi = last.hi
            /\ lo = last.lo /\ mem = last.mem

ExecutedR ==
  Arch!op = 0 =>
    /\ ~Traps(Func(Arch!w), Arch!s, Arch!t)
    /\ pc = IF Func(Arch!w) \in {8, 9} THEN Arch!s ELSE Arch!next
    /\ Func(Arch!w) \in AluFuncs =>
         alu = RAlu(Func(Arch!w), Arch!s, Arch!t, Shamt(Arch!w), last.hi,
                    last.lo, Arch!next)
    /\ hi = HiLo(Func(Arch!w), Arch!s, Arch!t, last.hi, last.lo).hi
    /\ lo = HiLo(Func(Arch!w), Arch!s, Arch!t, last.hi, last.lo).lo

ExecutedJ ==
  Arch!op \in JumpOpBits => pc = JumpTarget(Arch!next, Imm26(Arch!w))

ExecutedI ==
  Arch!op \notin JumpOpBits \cup {0} =>
    /\ pc = IF Taken(Arch!op, Arch!s, Arch!t)
            THEN BranchTarget(Arch!next, Imm16(Arch!w)) ELSE Arch!next
    /\ Arch!op \in AluOpBits => alu = IAlu(Arch!op, Arch!s, Imm16(Arch!w))
    /\ Arch!op \in Loads \cup Stores => mem_addr = Arch!data

Executed ==
  /\ ExecutedR /\ ExecutedJ /\ ExecutedI
  /\ Arch!op # 0 => hi = last.hi /\ lo = last.lo
  /\ reg = IF Arch!op = 3 THEN [last.reg EXCEPT ![31] = Arch!next] ELSE last.reg

Accessed ==
  /\ mem = IF Arch!op \in Stores
           THEN Arch!Stored(Arch!data, StoreBytes(Arch!op, Arch!t)) ELSE last.mem
  /\ Arch!op \in Loads =>
       mem_data = LoadValue(Arch!op,
                            Arch!BytesAt(Arch!data, LoadSize(Arch!op)))

TickInv ==
  /\ stage \in {"fetch", "decode", "execute", "memory", "write_back", "trapped"}
  /\ DOMAIN last.mem = Address
  /\ stage = "fetch" => OnBoundary
  /\ stage \in {"decode", "execute", "memory", "write_back"} => Fetched
  /\ stage \in {"decode", "execute"} => Advanced
  /\ stage \in {"memory", "write_back"} => Executed
  /\ stage = "memory" => mem = last.mem
  /\ stage = "write_back" => Accessed

LEMMA ExceptSelf ==
  ASSUME NEW f, NEW r, NEW v, NEW g, g = [f EXCEPT ![r] = v]
  PROVE  g = [f EXCEPT ![r] = g[r]]
  OBVIOUS

LEMMA TickInit == Init => TickInv
  BY ImagesAssumption DEF Init, TickInv, OnBoundary

LEMMA TickFetch == TickInv /\ Fetch => TickInv'
  BY DEF TickInv, Fetch, OnBoundary, Fetched, Advanced, Arch!w, Arch!BytesAt,
         Arch!next

LEMMA TickDecode == TickInv /\ Decode => TickInv'
  BY DEF TickInv, Decode, Fetched, Advanced, Arch!w, Arch!BytesAt, Arch!next

LEMMA TickExecute == TickInv /\ FieldsInv /\ Execute => TickInv'
<1> SUFFICES ASSUME TickInv, FieldsInv, Execute PROVE TickInv'
  OBVIOUS
<1> USE DEF TickInv
<1>1. CASE Trap
  BY <1>1 DEF Trap
<1>2. ASSUME stage = "execute", UNCHANGED <<instr, last>>
      PROVE  Arch!op' = Arch!op /\ Arch!next' = Arch!next /\ Arch!w' = Arch!w
             /\ Arch!s' = Arch!s /\ Arch!t' = Arch!t /\ Arch!data' = Arch!data
  BY <1>2 DEF Arch!op, Arch!s, Arch!t, Arch!w, Arch!BytesAt, Arch!next, Arch!data
<1>3. ASSUME stage = "execute"
      PROVE  /\ instr = Arch!w /\ field.op_bits = Arch!op
             /\ field.op_bits \notin JumpOpBits =>
                   RegRs = Arch!s /\ RegRt = Arch!t
             /\ Advanced /\ Fetched
  BY <1>3 DEF FieldsInv, FieldsCurrent, Fetched, Advanced, Arch!op, Arch!s, Arch!t,
              RegRs, RegRt
<1>4. CASE ExecuteR
  <2>1. stage = "execute" /\ UNCHANGED <<instr, last, reg, mem>>
    BY <1>4 DEF ExecuteR
  <2>2. Arch!op = 0 /\ Arch!op # 3 /\ field.op_bits \notin JumpOpBits
    BY <1>3, <1>4 DEF ExecuteR, JumpOpBits
  <2>3. field.func = Func(Arch!w) /\ field.shamt = Shamt(Arch!w)
    BY <1>3, <2>1, <2>2 DEF FieldsInv, FieldsCurrent
  <2>4. ExecutedR'
    BY <1>2, <1>3, <2>1, <2>2, <2>3, <1>4 DEF ExecuteR, ExecutedR, Advanced
  <2>5. ExecutedJ' /\ ExecutedI'
    BY <1>2, <2>1, <2>2 DEF ExecutedJ, ExecutedI, JumpOpBits
  <2>6. Executed'
    BY <1>2, <1>3, <2>1, <2>2, <2>4, <2>5 DEF Executed, Advanced
  <2> QED
    BY <1>3, <1>2, <2>1, <2>6, <1>4 DEF ExecuteR, Fetched, Advanced
<1>5. CASE ExecuteJ
  <2>1. stage = "execute" /\ UNCHANGED <<instr, last, mem, hi, lo>>
    BY <1>5 DEF ExecuteJ
  <2>2. Arch!op \in JumpOpBits /\ Arch!op # 0
    BY <1>3, <1>5 DEF ExecuteJ, JumpOpBits
  <2>3. field.imm = Imm26(Arch!w)
    BY <1>3, <2>1, <2>2 DEF FieldsInv, FieldsCurrent
  <2>4. ExecutedR' /\ ExecutedJ' /\ ExecutedI'
    BY <1>2, <1>3, <2>1, <2>2, <2>3, <1>5
    DEF ExecuteJ, ExecutedR, ExecutedJ, ExecutedI, Advanced
  <2>5. Executed'
    BY <1>2, <1>3, <2>1, <2>2, <2>4, <1>5 DEF Executed, ExecuteJ, Advanced
  <2> QED
    BY <1>3, <1>2, <2>1, <2>5, <1>5 DEF ExecuteJ, Fetched, Advanced
<1>6. CASE ExecuteI
  <2>1. stage = "execute" /\ UNCHANGED <<instr, last, mem, hi, lo, reg>>
    BY <1>6 DEF ExecuteI
  <2>2. Arch!op \notin JumpOpBits \cup {0} /\ Arch!op # 3
    BY <1>3, <1>6 DEF ExecuteI, JumpOpBits
  <2>3. field.imm = Imm16(Arch!w)
    BY <1>3, <2>1, <2>2 DEF FieldsInv, FieldsCurrent
  <2>4. ExecutedR' /\ ExecutedJ'
    BY <1>2, <2>1, <2>2 DEF ExecutedR, ExecutedJ
  <2>5. ExecutedI'
    BY <1>2, <1>3, <2>1, <2>2, <2>3, <1>6
    DEF ExecuteI, ExecutedI, Advanced, Arch!data
  <2>6. Executed'
    BY <1>2, <1>3, <2>1, <2>2, <2>4, <2>5 DEF Executed, Advanced
  <2> QED
    BY <1>3, <1>2, <2>1, <2>6, <1>6 DEF ExecuteI, Fetched, Advanced
<1> QED BY <1>1, <1>4, <1>5, <1>6 DEF Execute

LEMMA TickMemory == TickInv /\ FieldsInv /\ Memory => TickInv'
<1> SUFFICES ASSUME TickInv, FieldsInv, Memory PROVE TickInv'
  OBVIOUS
<1> USE DEF TickInv
<1>1. stage = "memory" /\ stage' = "write_back"
      /\ UNCHANGED <<pc, instr, field, hi, lo, alu, mem_addr, reg, last>>
  BY DEF Memory
<1>2. Arch!op' = Arch!op /\ Arch!next' = Arch!next /\ Arch!w' = Arch!w
      /\ Arch!s' = Arch!s /\ Arch!t' = Arch!t /\ Arch!data' = Arch!data
  BY <1>1 DEF Arch!op, Arch!s, Arch!t, Arch!w, Arch!BytesAt, Arch!next, Arch!data
<1>3. field.op_bits = Arch!op /\ mem = last.mem /\ Fetched /\ Executed
  BY <1>1 DEF FieldsInv, FieldsCurrent, Fetched, Arch!op
<1>4. Fetched' /\ Executed'
  BY <1>1, <1>2, <1>3
  DEF Fetched, Executed, ExecutedR, ExecutedJ, ExecutedI
<1>5. Accessed'
  <2>1. CASE Arch!op \in Stores
    <3>1. RegRt = Arch!t /\ mem_addr = Arch!data /\ Arch!op \notin Loads
      BY <1>1, <1>3, <2>1 DEF FieldsInv, FieldsCurrent, Fetched, Executed, ExecutedI,
         RegRt, Arch!t, JumpOpBits, Stores, Loads
    <3>2. mem' = LET b == StoreBytes(Arch!op, Arch!t)
                 IN [a \in Address |->
                       IF a \in Arch!data..(Arch!data + Len(b) - 1)
                       THEN b[a - Arch!data + 1] ELSE last.mem[a]]
      BY <1>3, <2>1, <3>1 DEF Memory
    <3>3. mem' = Arch!Stored(Arch!data, StoreBytes(Arch!op, Arch!t))
      BY <3>2 DEF Arch!Stored
    <3>4. Arch!Stored(Arch!data, StoreBytes(Arch!op, Arch!t))'
            = Arch!Stored(Arch!data, StoreBytes(Arch!op, Arch!t))
      BY <1>1, <1>2 DEF Arch!Stored
    <3> QED BY <1>2, <2>1, <3>1, <3>3, <3>4 DEF Accessed
  <2>2. CASE Arch!op \in Loads
    <3>1. mem_addr = Arch!data /\ Arch!op \notin Stores
      BY <1>3, <2>2 DEF Executed, ExecutedI, JumpOpBits, Stores, Loads
    <3>2. mem_data' = LoadValue(Arch!op, Arch!BytesAt(Arch!data, LoadSize(Arch!op)))
          /\ mem' = last.mem
      BY <1>3, <2>2, <3>1 DEF Memory, Arch!BytesAt
    <3>3. Arch!BytesAt(Arch!data, LoadSize(Arch!op))'
            = Arch!BytesAt(Arch!data, LoadSize(Arch!op))
      BY <1>1, <1>2 DEF Arch!BytesAt
    <3> QED BY <1>1, <1>2, <3>1, <3>2, <3>3 DEF Accessed
  <2>3. CASE Arch!op \notin Stores \cup Loads
    BY <1>1, <1>2, <1>3, <2>3 DEF Memory, Accessed
  <2> QED BY <2>1, <2>2, <2>3
<1> QED BY <1>1, <1>4, <1>5

LEMMA TickWriteBack == TickInv /\ FieldsInv /\ WriteBack => TickInv' /\ Arch!Tick
<1> SUFFICES ASSUME TickInv, FieldsInv, WriteBack PROVE TickInv' /\ Arch!Tick
  OBVIOUS
<1> USE DEF TickInv
<1>1. stage = "write_back" /\ stage' = "fetch" /\ reg' = Written
      /\ last' = [pc |-> pc, reg |-> Written, hi |-> hi, lo |-> lo, mem |-> mem]
      /\ UNCHANGED <<pc, hi, lo, mem>>
  BY DEF WriteBack, Boundary
<1>2. instr = Arch!w /\ field.op_bits = Arch!op /\ Fetched /\ Executed /\ Accessed
  BY <1>1 DEF FieldsInv, FieldsCurrent, Fetched, Arch!op
<1>3. last'.pc = pc /\ last'.reg = Written /\ last'.hi = hi /\ last'.lo = lo
      /\ last'.mem = mem
  BY <1>1
<1>4. DOMAIN mem = Address
  BY <1>2 DEF Accessed, Arch!Stored
<1>5. TickInv'
  BY <1>1, <1>3, <1>4 DEF OnBoundary
<1>6. CASE Arch!op = 0
  <2>1. field.func = Func(Arch!w) /\ field.rd = Rd(Arch!w)
    BY <1>1, <1>2, <1>6 DEF FieldsInv, FieldsCurrent
  <2>2. reg = last.reg /\ mem = last.mem
    BY <1>2, <1>6 DEF Executed, Accessed, Stores
  <2>3. \/ Func(Arch!w) = Syscall /\ Written = reg
        \/ Func(Arch!w) # Syscall /\ Written = [reg EXCEPT ![Rd(Arch!w)] = alu]
    BY <1>2, <1>6, <2>1 DEF Written
  <2>4. Func(Arch!w) # Syscall => Arch!Clobbers(Rd(Arch!w))
    BY <1>3, <2>2, <2>3, ExceptSelf DEF Arch!Clobbers, Arch!Sets
  <2>5. Arch!StepR
    BY <1>2, <1>3, <1>6, <2>2, <2>3, <2>4
    DEF Arch!StepR, Arch!Sets, Executed, ExecutedR
  <2> QED BY <1>2, <1>5, <2>5 DEF Arch!Tick, Fetched, Address, Arch!Address
<1>7. CASE Arch!op \in JumpOpBits
  <2>1. Written = reg /\ mem = last.mem /\ hi = last.hi /\ lo = last.lo
    <3>1. Arch!op # 0 /\ Arch!op \notin Stores
      BY <1>7 DEF JumpOpBits, Stores
    <3>2. Written = reg
      BY <1>2, <1>7, <3>1 DEF Written
    <3> QED BY <1>2, <3>1, <3>2 DEF Executed, Accessed
  <2>2. Arch!StepJ
    BY <1>2, <1>3, <1>7, <2>1 DEF Arch!StepJ, Arch!Sets, Executed, ExecutedJ
  <2> QED BY <1>2, <1>5, <2>2 DEF Arch!Tick, Fetched, Address, Arch!Address
<1>8. CASE Arch!op \notin JumpOpBits \cup {0}
  <2>1. field.rt = Rt(Arch!w) /\ reg = last.reg /\ hi = last.hi /\ lo = last.lo
    BY <1>1, <1>2, <1>8 DEF FieldsInv, FieldsCurrent, Executed, JumpOpBits
  <2>2. CASE Arch!op \in Stores
    <3>1. Written = reg
      BY <1>2, <1>8, <2>2 DEF Written
    <3>2. mem = Arch!Stored(Arch!data, StoreBytes(Arch!op, Arch!t))
      BY <1>2, <2>2 DEF Accessed
    <3>3. pc = IF Taken(Arch!op, Arch!s, Arch!t)
               THEN BranchTarget(Arch!next, Imm16(Arch!w)) ELSE Arch!next
      BY <1>2, <1>8 DEF Executed, ExecutedI
    <3>4. Arch!StepI
      BY <1>3, <1>8, <2>1, <2>2, <3>1, <3>2, <3>3 DEF Arch!StepI
    <3> QED
      BY <1>2, <1>5, <3>4 DEF Arch!Tick, Fetched, Address, Arch!Address
  <2>3. CASE Arch!op \in Loads
    <3>1. Written = [reg EXCEPT ![field.rt] = mem_data]
      BY <1>2, <1>8, <2>3 DEF Written, Stores, Loads
    <3>2. Arch!op \notin Stores
      BY <2>3 DEF Stores, Loads
    <3> QED
      BY <1>2, <1>3, <1>5, <1>8, <2>1, <2>3, <3>1, <3>2
      DEF Arch!Tick, Arch!StepI, Arch!Sets, Executed, ExecutedI, Accessed, Fetched,
          Address, Arch!Address
  <2>4. CASE Arch!op \notin Loads \cup Stores
    <3>1. Written = [reg EXCEPT ![field.rt] = alu]
      BY <1>2, <1>8, <2>4 DEF Written
    <3>2. Arch!Clobbers(Rt(Arch!w))
      BY <1>3, <2>1, <3>1, ExceptSelf DEF Arch!Clobbers, Arch!Sets
    <3> QED
      BY <1>2, <1>3, <1>5, <1>8, <2>1, <2>4, <3>1, <3>2
      DEF Arch!Tick, Arch!StepI, Arch!Sets, Executed, ExecutedI, Accessed, Fetched,
          Address, Arch!Address
  <2> QED BY <2>2, <2>3, <2>4
<1> QED BY <1>6, <1>7, <1>8

LEMMA TickStutter == TickInv /\ UNCHANGED vars => TickInv'
<1> SUFFICES ASSUME TickInv, UNCHANGED vars PROVE TickInv'
  OBVIOUS
<1>1. Arch!op' = Arch!op /\ Arch!next' = Arch!next /\ Arch!w' = Arch!w
      /\ Arch!s' = Arch!s /\ Arch!t' = Arch!t /\ Arch!data' = Arch!data
      /\ Arch!Stored(Arch!data, StoreBytes(Arch!op, Arch!t))'
           = Arch!Stored(Arch!data, StoreBytes(Arch!op, Arch!t))
      /\ Arch!BytesAt(Arch!data, LoadSize(Arch!op))'
           = Arch!BytesAt(Arch!data, LoadSize(Arch!op))
  BY DEF vars, Arch!op, Arch!s, Arch!t, Arch!w, Arch!BytesAt, Arch!next,
         Arch!data, Arch!Stored
<1>2. Executed' = Executed /\ Accessed' = Accessed
  BY <1>1 DEF vars, Executed, ExecutedR, ExecutedJ, ExecutedI, Accessed
<1> QED BY <1>1, <1>2 DEF vars, TickInv, OnBoundary, Fetched, Advanced

(* The five stages of tick() are together one step of the instruction set, *)
(* for every memory, register write and number of instructions: nothing an *)
(* earlier instruction left in a latch reaches the architectural state,    *)
(* but for the registers ISA calls clobbered.                              *)
THEOREM Implements == Spec => ImplementsISA
<1>1. Init => TickInv
  BY TickInit
<1>2. TickInv /\ FieldsInv /\ [Next]_vars => TickInv' /\ [Arch!Next]_(Arch!vars)
  <2> SUFFICES ASSUME TickInv, FieldsInv, [Next]_vars
               PROVE  TickInv' /\ [Arch!Next]_(Arch!vars)
    OBVIOUS
  <2>1. CASE last' = last /\ TickInv'
    BY <2>1 DEF Arch!vars
  <2>2. CASE Fetch
    BY <2>1, <2>2, TickFetch DEF Fetch
  <2>3. CASE Decode
    BY <2>1, <2>3, TickDecode DEF Decode
  <2>4. CASE Execute
    BY <2>1, <2>4, TickExecute DEF Execute, Trap, ExecuteR, ExecuteJ, ExecuteI
  <2>5. CASE Memory
    BY <2>1, <2>5, TickMemory DEF Memory
  <2>6. CASE WriteBack
    BY <2>6, TickWriteBack DEF Arch!Next
  <2>7. CASE Reset
    BY <2>7 DEF Reset, TickInv, OnBoundary, Arch!Next, Arch!Reset, ZeroReg
  <2>8. CASE Poke
    <3>1. PICK p \in Pokes : /\ reg' = [reg EXCEPT ![p[1]] = p[2]]
                             /\ last' = Boundary([reg EXCEPT ![p[1]] = p[2]])
      BY <2>8 DEF Poke
    <3>2. UNCHANGED <<stage, pc, hi, lo, mem>> /\ stage = "fetch" /\ OnBoundary
      BY <2>8 DEF Poke, TickInv
    <3>3. last'.reg = [last.reg EXCEPT ![p[1]] = p[2]] /\ last'.reg = reg'
          /\ last'.pc = pc /\ last'.hi = hi /\ last'.lo = lo /\ last'.mem = mem
      BY <3>1, <3>2 DEF Boundary, OnBoundary
    <3>4. Arch!Poke
      BY <3>2, <3>3 DEF Arch!Poke, Arch!Sets, OnBoundary
    <3> QED BY <3>2, <3>3, <3>4 DEF TickInv, OnBoundary, Arch!Next
  <2>9. CASE UNCHANGED vars
    BY <2>1, <2>9, TickStutter DEF vars
  <2> QED
    BY <2>2, <2>3, <2>4, <2>5, <2>6, <2>7, <2>8, <2>9 DEF Next
<1>3. Init => Arch!Init
  <2>1. Init => mem \in [Arch!Address -> 0..255]
    BY ImagesAssumption DEF Init, Byte, Address, Arch!Address
  <2> QED BY <2>1 DEF Init, Arch!Init, ZeroReg
<1> QED
  BY <1>1, <1>2, <1>3, FieldsInvariant, PTL DEF Spec, ImplementsISA, Arch!Spec
=============================================================================
