-------------------------------- MODULE Codec --------------------------------
(***************************************************************************)
(* Instructions to words and back: assembleText of Assembler.cpp and       *)
(* dis_instr of Disassembler.cpp.  A word is cut into its four parts that  *)
(* do not overlap in any format; an R-instruction keeps rd, shamt and the  *)
(* function code in "low", a jump its target in rs, rt and low.            *)
(***************************************************************************)
EXTENDS Integers, Sequences

MaxHalf == 65535
Half == 0..MaxHalf
Word == [op : 0..63, rs : 0..31, rt : 0..31, low : Half]
Noop == [op |-> 0, rs |-> 0, rt |-> 0, low |-> 0]

Arg(type, val) == [type |-> type, val |-> val]
Reg(n) == Arg("REGISTER", n)
Lit(n) == Arg("LITERAL", n)
None   == Arg("NONE", 0)
\* The fields of a TextInfo that assembling and disassembling look at.
Line(op, a, b, c) == [op |-> op, args |-> <<a, b, c>>]
BlankLine == Line("null", None, None, None)

\* instr_to_code.  A mnemonic that is not in it gets the code 0.
FuncCode == [add |-> 32, addu |-> 33, and |-> 36, jr |-> 8, jalr |-> 9,
             mult |-> 24, multu |-> 25, or |-> 37, sll |-> 0, slt |-> 42,
             sltu |-> 43, sub |-> 34, subu |-> 35, div |-> 26, divu |-> 27,
             mfhi |-> 16, mthi |-> 17, mflo |-> 18, mtlo |-> 19, xor |-> 38]
OpCode == [addi |-> 8, addiu |-> 9, beq |-> 4, bne |-> 5, lw |-> 35,
           lui |-> 15, ori |-> 13, sw |-> 43, andi |-> 12, xori |-> 14,
           j |-> 2, jal |-> 3]
CodeOf(table, op) == IF op \in DOMAIN table THEN table[op] ELSE 0
\* The names a line may have, those the disassembler alone knows among them.
Mnemonics == DOMAIN FuncCode \cup DOMAIN OpCode
             \cup {"nor", "srl", "slti", "sltiu", "null"}
Args == [1..3 -> [type : {"REGISTER", "LITERAL", "NONE"}, val : Int]]
-----------------------------------------------------------------------------
(***************************************************************************)
(* assembleText.  Values are cut to the width of their field, whatever the *)
(* type of the argument.                                                   *)
(***************************************************************************)
ThreeRegOps == {"add", "addu", "and", "jr", "or", "slt", "sltu", "sub", "subu",
                "xor"}
ShiftOps    == {"sll", "srl"}
RsRtOps     == {"div", "divu", "mult", "multu"}
RdOps       == {"mfhi", "mflo"}
RsOps       == {"mthi", "mtlo"}
IOps        == {"addi", "addiu", "andi", "beq", "bne", "lw", "ori", "xori", "sw"}
JOps        == {"j", "jal"}

RWord(l, rs, rt, rd, shamt) ==
  [op |-> 0, rs |-> rs % 32, rt |-> rt % 32,
   low |-> (rd % 32) * 2048 + (shamt % 32) * 64 + CodeOf(FuncCode, l.op)]

\* Seeded fault: rs and rt change places, as in a branch.
IWord_Swapped(l, rs, rt, imm) ==
  [op |-> CodeOf(OpCode, l.op), rs |-> rt % 32, rt |-> rs % 32,
   low |-> imm % 65536]
IWord(l, rs, rt, imm) ==
  [op |-> CodeOf(OpCode, l.op), rs |-> rs % 32, rt |-> rt % 32,
   low |-> imm % 65536]

\* The target's bits 2 to 27.
\* Seeded fault: the target is shifted but not masked.
JWord_Unmasked(l, target) ==
  LET t == target \div 4
  IN [op |-> CodeOf(OpCode, l.op), rs |-> t \div 2097152,
      rt |-> (t \div 65536) % 32, low |-> t % 65536]
JWord(l, target) ==
  LET t == (target % 268435456) \div 4
  IN [op |-> CodeOf(OpCode, l.op), rs |-> t \div 2097152,
      rt |-> (t \div 65536) % 32, low |-> t % 65536]

AssembleText(l) ==
  LET a == l.args[1].val
      b == l.args[2].val
      c == l.args[3].val
  IN CASE l.op \in ThreeRegOps -> RWord(l, b, c, a, 0)
       [] l.op \in ShiftOps    -> RWord(l, 0, b, a, c)
       [] l.op \in RsRtOps     -> RWord(l, a, b, 0, 0)
       [] l.op \in RdOps       -> RWord(l, 0, 0, a, 0)
       [] l.op \in RsOps       -> RWord(l, a, 0, 0, 0)
       [] l.op \in IOps        -> IWord(l, b, a, c)
       [] l.op = "lui"         -> IWord(l, 0, a, c)
       [] l.op \in JOps        -> JWord(l, a)
       [] OTHER                -> Noop
-----------------------------------------------------------------------------
(***************************************************************************)
(* dis_instr.                                                              *)
(***************************************************************************)
Rd(w)    == w.low \div 2048
Shamt(w) == (w.low \div 64) % 32
Func(w)  == w.low % 64

\* The R-instructions disassembled, nor and srl among them, xor and jalr not.
FuncNames ==
  [f \in {FuncCode[o] : o \in DOMAIN FuncCode \ {"xor", "jalr"}} |->
     CHOOSE o \in DOMAIN FuncCode : FuncCode[o] = f]
\* Seeded fault: two cases copied from their neighbours keep their names.
DisROp_Copied(f) == CASE f \in {33, 32} -> "add"
                      [] f \in {35, 34} -> "sub"
                      [] f \in DOMAIN FuncNames -> FuncNames[f]
                      [] OTHER -> "null"
DisROp(f) == CASE f = 39 -> "nor"
               [] f = 2  -> "srl"
               [] f \in DOMAIN FuncNames -> FuncNames[f]
               [] OTHER -> "null"

DisR(w) ==
  LET op == DisROp(Func(w))
  IN CASE op \in ShiftOps -> Line(op, Reg(Rd(w)), Reg(w.rt), Lit(Shamt(w)))
       [] op \in RsRtOps  -> Line(op, Reg(w.rs), Reg(w.rt), None)
       [] op \in RdOps    -> Line(op, Reg(Rd(w)), None, None)
       [] op \in RsOps    -> Line(op, Reg(w.rs), None, None)
       [] OTHER           -> Line(op, Reg(Rd(w)), Reg(w.rs), Reg(w.rt))

DisIOp(code) ==
  CASE code = 10 -> "slti"
    [] code = 11 -> "sltiu"
    [] \E o \in DOMAIN OpCode \ JOps : OpCode[o] = code ->
         CHOOSE o \in DOMAIN OpCode \ JOps : OpCode[o] = code
    [] OTHER -> "null"

\* Seeded fault: every I-instruction is printed the way a branch is.
DisI_Swapped(w) == Line(DisIOp(w.op), Reg(w.rs), Reg(w.rt), Lit(w.low))
DisI(w) ==
  LET op == DisIOp(w.op)
  IN IF op \in {"beq", "bne"}
     THEN Line(op, Reg(w.rs), Reg(w.rt), Lit(w.low))
     ELSE Line(op, Reg(w.rt), Reg(w.rs), Lit(w.low))

\* The mask 0x02FFFFFF leaves bit 24 of the target out: it is bit 3 of rs.
\* Seeded fault: the shift to undo the assembler's goes the same way again.
DisJ_Unshifted(w) ==
  LET rs == w.rs - 8 * ((w.rs \div 8) % 2)
  IN Line(IF w.op = 2 THEN "j" ELSE "jal",
          Lit((rs * 2097152 + w.rt * 65536 + w.low) \div 4), None, None)
DisJ(w) ==
  LET rs == w.rs - 8 * ((w.rs \div 8) % 2)
  IN Line(IF w.op = 2 THEN "j" ELSE "jal",
          Lit(4 * (rs * 2097152 + w.rt * 65536 + w.low)), None, None)

DisInstr(w) == IF w = Noop THEN BlankLine
               ELSE CASE w.op \in {2, 3} -> DisJ(w)
                      [] w.op = 0        -> DisR(w)
                      [] OTHER           -> DisI(w)
=============================================================================
