-------------------------- MODULE RoundTripProofs --------------------------
(***************************************************************************)
(* Proofs about assembling and disassembling in turn, for every line and   *)
(* every one of the 2^32 words.                                            *)
(***************************************************************************)
EXTENDS RoundTrip, TLAPS
-----------------------------------------------------------------------------
(***************************************************************************)
(* What assembleText and dis_instr return, for every line and every word.  *)
(***************************************************************************)
\* A half word, without the constant MaxHalf.
LEMMA HalfIs == \A x : x \in Half <=> x \in Int /\ 0 <= x /\ x < 65536
<1>1. MaxHalf \in Int /\ \A x \in Int : x <= MaxHalf <=> x < 65536
  BY SMT DEF MaxHalf
<1> QED BY <1>1, SMT DEF Half

\* The codes of the two tables have six bits.
LEMMA CodeTypes ==
  ASSUME NEW o PROVE CodeOf(FuncCode, o) \in 0..63 /\ CodeOf(OpCode, o) \in 0..63
<1>1. CodeOf(FuncCode, o) \in 0..63
  BY DEF CodeOf, FuncCode
<1>2. CodeOf(OpCode, o) \in 0..63
  BY DEF CodeOf, OpCode
<1> QED BY <1>1, <1>2

\* What the three formats put together fits the fields of a word.
LEMMA RWordType ==
  ASSUME NEW l, NEW rs \in Int, NEW rt \in Int, NEW rd \in Int, NEW shamt \in Int
  PROVE  RWord(l, rs, rt, rd, shamt) \in Word
<1>1. CodeOf(FuncCode, l.op) \in 0..63
  BY CodeTypes
<1>2. /\ rs % 32 \in 0..31 /\ rt % 32 \in 0..31 /\ rd % 32 \in 0..31
      /\ shamt % 32 \in 0..31
  BY SMT
<1>3. (rd % 32) * 2048 + (shamt % 32) * 64 + CodeOf(FuncCode, l.op) \in Half
  BY <1>1, <1>2, HalfIs, SMT
<1> QED BY <1>2, <1>3, SMT DEF RWord, Word

LEMMA IWordType ==
  ASSUME NEW l, NEW rs \in Int, NEW rt \in Int, NEW imm \in Int
  PROVE  IWord(l, rs, rt, imm) \in Word
<1>1. rs % 32 \in 0..31 /\ rt % 32 \in 0..31
  BY SMT
<1>2. imm % 65536 \in Half
  BY HalfIs, SMT
<1> QED BY <1>1, <1>2, CodeTypes, SMT DEF IWord, Word

LEMMA JWordType ==
  ASSUME NEW l, NEW target \in Int PROVE JWord(l, target) \in Word
<1> DEFINE t == (target % 268435456) \div 4
<1>1. t \in Int /\ t >= 0 /\ t < 67108864
  BY SMT
<1> HIDE DEF t
<1>2. t \div 2097152 \in 0..31 /\ (t \div 65536) % 32 \in 0..31
  BY <1>1, SMT
<1>3. t % 65536 \in Half
  BY <1>1, HalfIs, SMT
<1>4. JWord(l, target) = [op |-> CodeOf(OpCode, l.op), rs |-> t \div 2097152,
                          rt |-> (t \div 65536) % 32, low |-> t % 65536]
  BY SMT DEF JWord, t
<1> QED BY <1>2, <1>3, <1>4, CodeTypes, SMT DEF Word

\* Every line is assembled to a word.
LEMMA AssembleTextType ==
  ASSUME NEW l, l.args \in Args PROVE AssembleText(l) \in Word
<1> DEFINE a == l.args[1].val
           b == l.args[2].val
           c == l.args[3].val
<1>1. a \in Int /\ b \in Int /\ c \in Int /\ 0 \in Int
  BY DEF Args
<1>2. Noop \in Word
  BY HalfIs, SMT DEF Noop, Word
<1> HIDE DEF a, b, c
<1>3. /\ RWord(l, b, c, a, 0) \in Word /\ RWord(l, 0, b, a, c) \in Word
      /\ RWord(l, a, b, 0, 0) \in Word /\ RWord(l, 0, 0, a, 0) \in Word
      /\ RWord(l, a, 0, 0, 0) \in Word /\ IWord(l, b, a, c) \in Word
      /\ IWord(l, 0, a, c) \in Word /\ JWord(l, a) \in Word
  BY <1>1, RWordType, IWordType, JWordType
<1> QED BY <1>2, <1>3, Zenon DEF AssembleText, a, b, c
-----------------------------------------------------------------------------
\* The tables, entry by entry.
LEMMA Tables ==
  /\ DOMAIN FuncCode = {"add", "addu", "and", "jr", "jalr", "mult", "multu", "or",
                        "sll", "slt", "sltu", "sub", "subu", "div", "divu",
                        "mfhi", "mthi", "mflo", "mtlo", "xor"}
  /\ DOMAIN OpCode = {"addi", "addiu", "beq", "bne", "lw", "lui", "ori", "sw",
                      "andi", "xori", "j", "jal"}
  BY SMT DEF FuncCode, OpCode

\* A function code is given the name that has it.
LEMMA FuncNamesAre ==
  /\ 39 \notin DOMAIN FuncNames /\ 2 \notin DOMAIN FuncNames
  /\ \A f \in DOMAIN FuncNames : /\ FuncNames[f] \in DOMAIN FuncCode
                                 /\ FuncCode[FuncNames[f]] = f
<1>1. 39 \notin DOMAIN FuncNames /\ 2 \notin DOMAIN FuncNames
  BY SMT DEF FuncNames, FuncCode
<1>2. SUFFICES ASSUME NEW f \in DOMAIN FuncNames
               PROVE  /\ FuncNames[f] \in DOMAIN FuncCode
                      /\ FuncCode[FuncNames[f]] = f
  BY <1>1
<1>3. \E o \in DOMAIN FuncCode : FuncCode[o] = f
  BY DEF FuncNames
<1>4. FuncNames[f] = CHOOSE o \in DOMAIN FuncCode : FuncCode[o] = f
  BY DEF FuncNames
<1> QED BY <1>3, <1>4, Zenon

\* Every function code is given a name, "null" if it has none.
LEMMA DisROpType == ASSUME NEW f PROVE DisROp(f) \in Mnemonics
<1>1. /\ {"nor", "srl", "null"} \subseteq Mnemonics
      /\ \A g \in DOMAIN FuncNames : FuncNames[g] \in Mnemonics
  BY FuncNamesAre DEF Mnemonics
<1>2. CASE f = 39
  BY <1>1, <1>2, FuncNamesAre, SMT DEF DisROp
<1>3. CASE f = 2
  BY <1>1, <1>3, FuncNamesAre, SMT DEF DisROp
<1>4. CASE f \in DOMAIN FuncNames
  BY <1>1, <1>4, FuncNamesAre, SMT DEF DisROp
<1>5. CASE f \notin DOMAIN FuncNames \cup {39, 2}
  BY <1>1, <1>5, SMT DEF DisROp
<1> QED BY <1>2, <1>3, <1>4, <1>5

\* The I-instruction with an operation code, if there is one.
NameOfI(code) == CHOOSE o \in DOMAIN OpCode \ JOps : OpCode[o] = code
HasNameI(code) == \E o \in DOMAIN OpCode \ JOps : OpCode[o] = code

\* No name in the table has the codes that dis_instr handles itself.
LEMMA NamesOfI ==
  /\ ~HasNameI(10) /\ ~HasNameI(11) /\ ~HasNameI(0)
  /\ \A code : HasNameI(code) => /\ NameOfI(code) \in DOMAIN OpCode \ JOps
                                 /\ OpCode[NameOfI(code)] = code
<1>1. ~HasNameI(10) /\ ~HasNameI(11) /\ ~HasNameI(0)
  BY SMT DEF HasNameI, OpCode, JOps
<1>2. \A code : HasNameI(code) => /\ NameOfI(code) \in DOMAIN OpCode \ JOps
                                  /\ OpCode[NameOfI(code)] = code
  BY Zenon DEF HasNameI, NameOfI
<1> QED BY <1>1, <1>2

\* The name of an I-instruction is the one in the table, if there is one.
LEMMA DisIOpIs ==
  ASSUME NEW code
  PROVE  /\ HasNameI(code) => DisIOp(code) = NameOfI(code)
         /\ ~HasNameI(code) => DisIOp(code) \in {"slti", "sltiu", "null"}
<1> DEFINE known == \E o \in DOMAIN OpCode \ JOps : OpCode[o] = code
           name == CHOOSE o \in DOMAIN OpCode \ JOps : OpCode[o] = code
<1>1. known = HasNameI(code) /\ name = NameOfI(code)
  BY Zenon DEF HasNameI, NameOfI
<1>2. DisIOp(code) = CASE code = 10 -> "slti" [] code = 11 -> "sltiu"
                       [] known -> name [] OTHER -> "null"
  BY Zenon DEF DisIOp
<1> HIDE DEF known, name
<1>3. CASE code = 10
  BY <1>1, <1>2, <1>3, NamesOfI, SMT
<1>4. CASE code = 11
  BY <1>1, <1>2, <1>4, NamesOfI, SMT
<1>5. CASE code \notin {10, 11} /\ known
  BY <1>1, <1>2, <1>5, SMT
<1>6. CASE code \notin {10, 11} /\ ~known
  BY <1>1, <1>2, <1>6, SMT
<1> QED BY <1>3, <1>4, <1>5, <1>6

\* Every operation code is given a name.
LEMMA DisIOpType == ASSUME NEW code PROVE DisIOp(code) \in Mnemonics
  BY DisIOpIs, NamesOfI DEF Mnemonics
-----------------------------------------------------------------------------
IsArg(a) == a \in [type : {"REGISTER", "LITERAL", "NONE"}, val : Int]

\* What stands in the arguments of a disassembled line.
LEMMA ArgTypes ==
  /\ \A n \in Int : IsArg(Reg(n)) /\ IsArg(Lit(n))
  /\ IsArg(None)
  BY SMT DEF Reg, Lit, None, Arg, IsArg

IsLine(l) == l \in [op : Mnemonics, args : Args]

\* A name and three arguments make a line.
LEMMA LineType ==
  ASSUME NEW op \in Mnemonics, NEW a, NEW b, NEW c, IsArg(a), IsArg(b), IsArg(c)
  PROVE  IsLine(Line(op, a, b, c))
  BY SMT DEF IsLine, Line, Args, IsArg

\* Every word is disassembled to a line.
LEMMA DisInstrType == ASSUME NEW w \in Word PROVE IsLine(DisInstr(w))
<1>1. /\ w.rs \in 0..31 /\ w.rt \in 0..31 /\ w.low \in Int
      /\ Rd(w) \in Int /\ Shamt(w) \in Int
  BY HalfIs, SMT DEF Word, Rd, Shamt
<1>2. IsLine(DisR(w))
  <2> DEFINE op == DisROp(Func(w))
  <2>1. op \in Mnemonics
    BY DisROpType
  <2>2. /\ IsLine(Line(op, Reg(Rd(w)), Reg(w.rt), Lit(Shamt(w))))
        /\ IsLine(Line(op, Reg(w.rs), Reg(w.rt), None))
        /\ IsLine(Line(op, Reg(Rd(w)), None, None))
        /\ IsLine(Line(op, Reg(w.rs), None, None))
        /\ IsLine(Line(op, Reg(Rd(w)), Reg(w.rs), Reg(w.rt)))
    BY <1>1, <2>1, ArgTypes, LineType
  <2> HIDE DEF op
  <2>3. DisR(w) = CASE op \in ShiftOps ->
                         Line(op, Reg(Rd(w)), Reg(w.rt), Lit(Shamt(w)))
                    [] op \in RsRtOps  -> Line(op, Reg(w.rs), Reg(w.rt), None)
                    [] op \in RdOps    -> Line(op, Reg(Rd(w)), None, None)
                    [] op \in RsOps    -> Line(op, Reg(w.rs), None, None)
                    [] OTHER           -> Line(op, Reg(Rd(w)), Reg(w.rs), Reg(w.rt))
    BY Zenon DEF DisR, op
  <2> QED BY <2>2, <2>3, SMT DEF ShiftOps, RsRtOps, RdOps, RsOps
<1>3. IsLine(DisI(w))
  <2>1. DisIOp(w.op) \in Mnemonics
    BY DisIOpType
  <2>2. /\ IsLine(Line(DisIOp(w.op), Reg(w.rs), Reg(w.rt), Lit(w.low)))
        /\ IsLine(Line(DisIOp(w.op), Reg(w.rt), Reg(w.rs), Lit(w.low)))
    BY <1>1, <2>1, ArgTypes, LineType
  <2> QED BY <2>2 DEF DisI
<1>4. IsLine(DisJ(w))
  <2> DEFINE rs == w.rs - 8 * ((w.rs \div 8) % 2)
             target == 4 * (rs * 2097152 + w.rt * 65536 + w.low)
  <2>1. rs \in Int
    BY <1>1, SMT
  <2>2. target \in Int
    BY <1>1, <2>1, SMT
  <2>3. {"j", "jal"} \subseteq Mnemonics
    BY Tables DEF Mnemonics
  <2> HIDE DEF target
  <2>4. IsLine(Line(IF w.op = 2 THEN "j" ELSE "jal", Lit(target), None, None))
    BY <2>2, <2>3, ArgTypes, LineType
  <2> QED BY <2>4 DEF DisJ, target
<1>5. IsLine(BlankLine)
  <2>1. "null" \in Mnemonics
    BY DEF Mnemonics
  <2> QED BY <2>1, ArgTypes, LineType, Zenon DEF BlankLine
<1>6. CASE w = Noop
  BY <1>5, <1>6, SMT DEF DisInstr
<1>7. CASE w # Noop
  BY <1>2, <1>3, <1>4, <1>7, SMT DEF DisInstr
<1> QED BY <1>6, <1>7
-----------------------------------------------------------------------------
(* The registers and literals of every line are numbers its name is known, *)
(* and every word fits its fields.                                         *)
THEOREM TypeCorrect == Spec => []RoundTripTypeOK
<1>1. Init => RoundTripTypeOK
  <2>1. Noop \in Word
    BY HalfIs, SMT DEF Noop, Word
  <2>2. "null" \in Mnemonics
    BY DEF Mnemonics
  <2>3. IsLine(BlankLine)
    BY <2>2, ArgTypes, LineType, Zenon DEF BlankLine
  <2> QED BY <2>1, <2>3, LinesAssumption, StartsAssumption
          DEF Init, RoundTripTypeOK, IsLine
<1>2. RoundTripTypeOK /\ [Next]_vars => RoundTripTypeOK'
  <2> SUFFICES ASSUME RoundTripTypeOK, [Next]_vars PROVE RoundTripTypeOK'
    OBVIOUS
  <2> USE DEF RoundTripTypeOK
  <2>1. CASE Assemble
    BY <2>1, AssembleTextType DEF Assemble
  <2>2. CASE Disassemble
    BY <2>2, DisInstrType DEF Disassemble, IsLine
  <2>3. CASE UNCHANGED vars
    BY <2>3 DEF vars
  <2> QED BY <2>1, <2>2, <2>3 DEF Next
<1> QED BY <1>1, <1>2, PTL DEF Spec
-----------------------------------------------------------------------------
(***************************************************************************)
(* WordsSettle.  Assembled says what a line becomes, by its name.          *)
(***************************************************************************)
LEMMA Assembled ==
  ASSUME NEW op, NEW a, NEW b, NEW c, NEW l, l = Line(op, a, b, c)
  PROVE  /\ op \in ThreeRegOps => AssembleText(l) = RWord(l, b.val, c.val, a.val, 0)
         /\ op \in ShiftOps => AssembleText(l) = RWord(l, 0, b.val, a.val, c.val)
         /\ op \in RsRtOps => AssembleText(l) = RWord(l, a.val, b.val, 0, 0)
         /\ op \in RdOps => AssembleText(l) = RWord(l, 0, 0, a.val, 0)
         /\ op \in RsOps => AssembleText(l) = RWord(l, a.val, 0, 0, 0)
         /\ op \in IOps => AssembleText(l) = IWord(l, b.val, a.val, c.val)
         /\ op = "lui" => AssembleText(l) = IWord(l, 0, a.val, c.val)
         /\ op \in JOps => AssembleText(l) = JWord(l, a.val)
         /\ op \in {"nor", "slti", "sltiu", "null"} => AssembleText(l) = Noop
<1>1. l.op = op /\ l.args[1] = a /\ l.args[2] = b /\ l.args[3] = c
  BY SMT DEF Line
<1> USE DEF ThreeRegOps, ShiftOps, RsRtOps, RdOps, RsOps, IOps, JOps
<1>2. op \in ThreeRegOps => AssembleText(l) = RWord(l, b.val, c.val, a.val, 0)
  BY <1>1, SMT DEF AssembleText
<1>3. op \in ShiftOps => AssembleText(l) = RWord(l, 0, b.val, a.val, c.val)
  BY <1>1, SMT DEF AssembleText
<1>4. op \in RsRtOps => AssembleText(l) = RWord(l, a.val, b.val, 0, 0)
  BY <1>1, SMT DEF AssembleText
<1>5. op \in RdOps => AssembleText(l) = RWord(l, 0, 0, a.val, 0)
  BY <1>1, SMT DEF AssembleText
<1>6. op \in RsOps => AssembleText(l) = RWord(l, a.val, 0, 0, 0)
  BY <1>1, SMT DEF AssembleText
<1>7. op \in IOps => AssembleText(l) = IWord(l, b.val, a.val, c.val)
  BY <1>1, SMT DEF AssembleText
<1>8. op = "lui" => AssembleText(l) = IWord(l, 0, a.val, c.val)
  BY <1>1, SMT DEF AssembleText
<1>9. op \in JOps => AssembleText(l) = JWord(l, a.val)
  BY <1>1, SMT DEF AssembleText
<1>10. op \in {"nor", "slti", "sltiu", "null"} => AssembleText(l) = Noop
  BY <1>1, SMT DEF AssembleText
<1> QED BY <1>2, <1>3, <1>4, <1>5, <1>6, <1>7, <1>8, <1>9, <1>10

Five == 0..31   \* Five bits.

\* The fields of a word of the R-format are those it was made of.
HasFieldsR(w, rs, rt, rd, shamt, code) ==
  /\ w.op = 0 /\ w.rs = rs /\ w.rt = rt
  /\ Rd(w) = rd /\ Shamt(w) = shamt /\ Func(w) = code

LEMMA FieldsOfR ==
  ASSUME NEW l, NEW rs \in Five, NEW rt \in Five, NEW rd \in Five,
         NEW shamt \in Five
  PROVE  HasFieldsR(RWord(l, rs, rt, rd, shamt), rs, rt, rd, shamt,
                    CodeOf(FuncCode, l.op))
<1> DEFINE w == RWord(l, rs, rt, rd, shamt)
           code == CodeOf(FuncCode, l.op)
           low == rd * 2048 + shamt * 64 + code
<1>1. code \in 0..63
  BY CodeTypes
<1>2. /\ rs % 32 = rs /\ rt % 32 = rt /\ rd % 32 = rd /\ shamt % 32 = shamt
  BY SMT DEF Five
<1>3. w = [op |-> 0, rs |-> rs, rt |-> rt, low |-> low]
  BY <1>2 DEF RWord
<1> HIDE DEF code, w
<1>4. low \div 2048 = rd /\ (low \div 64) % 32 = shamt /\ low % 64 = code
  BY <1>1, SMT DEF Five
<1> HIDE DEF low
<1>5. HasFieldsR(w, rs, rt, rd, shamt, code)
  BY <1>3, <1>4 DEF Rd, Shamt, Func, HasFieldsR
<1> QED BY <1>5 DEF w, code

\* Names and codes of the R-instructions the disassembler knows.
LEMMA CodesOfR ==
  /\ \A o \in DOMAIN FuncCode \ {"xor", "jalr"} :
       /\ FuncCode[o] \in DOMAIN FuncNames /\ FuncNames[FuncCode[o]] = o
  /\ \A o \in DOMAIN FuncCode : (FuncCode[o] = 0 <=> o = "sll")
                                /\ FuncCode[o] \notin {2, 39}
<1>1. \A o, p \in DOMAIN FuncCode : FuncCode[o] = FuncCode[p] => o = p
  BY SMT DEF FuncCode
<1>2. ASSUME NEW o \in DOMAIN FuncCode \ {"xor", "jalr"}
      PROVE  FuncCode[o] \in DOMAIN FuncNames /\ FuncNames[FuncCode[o]] = o
  <2>1. FuncCode[o] \in DOMAIN FuncNames
    BY DEF FuncNames
  <2> QED BY <1>1, <2>1, FuncNamesAre
<1>3. \A o \in DOMAIN FuncCode : (FuncCode[o] = 0 <=> o = "sll")
                                 /\ FuncCode[o] \notin {2, 39}
  BY SMT DEF FuncCode
<1> QED BY <1>2, <1>3

LEMMA NoopSettles == Again(Noop) = Noop
<1>1. DisInstr(Noop) = Line("null", None, None, None)
  BY SMT DEF DisInstr, BlankLine
<1> QED BY <1>1, Assembled, SMT DEF Again

LEMMA WordFields ==
  ASSUME NEW w \in Word
  PROVE  /\ w.op \in 0..63 /\ w.rs \in Five /\ w.rt \in Five
         /\ w.low \in Int /\ 0 <= w.low /\ w.low < 65536
         /\ Rd(w) \in Five /\ Shamt(w) \in Five /\ Func(w) \in 0..63
         /\ w = [op |-> w.op, rs |-> w.rs, rt |-> w.rt, low |-> w.low]
<1>1. /\ w.op \in 0..63 /\ w.rs \in 0..31 /\ w.rt \in 0..31 /\ w.low \in Half
      /\ w = [op |-> w.op, rs |-> w.rs, rt |-> w.rt, low |-> w.low]
  BY SMT DEF Word
<1>2. w.low \in Int /\ 0 <= w.low /\ w.low < 65536
  BY <1>1, HalfIs
<1> DEFINE low == w.low
<1>3. low \in Int /\ 0 <= low /\ low < 65536
  BY <1>2
<1> HIDE DEF low
<1>4. low \div 2048 \in 0..31 /\ (low \div 64) % 32 \in 0..31 /\ low % 64 \in 0..63
  BY <1>3, SMT
<1> QED BY <1>1, <1>2, <1>4 DEF Rd, Shamt, Func, low, Five

LEMMA ValuesOfArgs == /\ \A n : Reg(n).val = n /\ Lit(n).val = n
                      /\ None.val = 0
  BY SMT DEF Reg, Lit, None, Arg

\* How an R-word is listed, by the name its function code has.
LEMMA ListedR ==
  ASSUME NEW w, w.op = 0, w # Noop, NEW op, op = DisROp(Func(w))
  PROVE  /\ op \in ShiftOps =>
              DisInstr(w) = Line(op, Reg(Rd(w)), Reg(w.rt), Lit(Shamt(w)))
         /\ op \in RsRtOps => DisInstr(w) = Line(op, Reg(w.rs), Reg(w.rt), None)
         /\ op \in RdOps => DisInstr(w) = Line(op, Reg(Rd(w)), None, None)
         /\ op \in RsOps => DisInstr(w) = Line(op, Reg(w.rs), None, None)
         /\ op \notin ShiftOps \cup RsRtOps \cup RdOps \cup RsOps =>
              DisInstr(w) = Line(op, Reg(Rd(w)), Reg(w.rs), Reg(w.rt))
<1>1. DisInstr(w) = DisR(w)
  BY SMT DEF DisInstr
<1>2. DisR(w) = CASE op \in ShiftOps ->
                       Line(op, Reg(Rd(w)), Reg(w.rt), Lit(Shamt(w)))
                  [] op \in RsRtOps  -> Line(op, Reg(w.rs), Reg(w.rt), None)
                  [] op \in RdOps    -> Line(op, Reg(Rd(w)), None, None)
                  [] op \in RsOps    -> Line(op, Reg(w.rs), None, None)
                  [] OTHER           -> Line(op, Reg(Rd(w)), Reg(w.rs), Reg(w.rt))
  BY Zenon DEF DisR
<1> QED BY <1>1, <1>2, SMT DEF ShiftOps, RsRtOps, RdOps, RsOps

\* The name of a function code, and the code of that name.
LEMMA NamesOfR ==
  ASSUME NEW f, NEW op, op = DisROp(f)
  PROVE  \/ op \in {"nor", "null"}
         \/ op = "srl" /\ CodeOf(FuncCode, op) = 0
         \/ /\ op \in DOMAIN FuncCode \ {"xor", "jalr"}
            /\ CodeOf(FuncCode, op) = f /\ DisROp(f) = op
<1>1. CASE f = 39
  BY <1>1, FuncNamesAre, SMT DEF DisROp
<1>2. CASE f = 2
  <2>1. op = "srl"
    BY <1>2, FuncNamesAre, SMT DEF DisROp
  <2> QED BY <2>1, Tables, SMT DEF CodeOf
<1>3. CASE f \in DOMAIN FuncNames
  <2>1. op = FuncNames[f]
    BY <1>3, FuncNamesAre, SMT DEF DisROp
  <2>2. PICK o \in DOMAIN FuncCode \ {"xor", "jalr"} : FuncCode[o] = f
    BY <1>3 DEF FuncNames
  <2>3. op = o
    BY <2>1, <2>2, CodesOfR
  <2> QED BY <2>2, <2>3 DEF CodeOf
<1>4. CASE f \notin DOMAIN FuncNames \cup {39, 2}
  BY <1>4, SMT DEF DisROp
<1> QED BY <1>1, <1>2, <1>3, <1>4

LEMMA RWordByName ==
  ASSUME NEW l, NEW m, l.op = m.op, NEW r, NEW t, NEW d, NEW s
  PROVE  RWord(l, r, t, d, s) = RWord(m, r, t, d, s)
  BY SMT DEF RWord

\* The R-instructions that survive a round.
Kept == DOMAIN FuncCode \ {"xor", "jalr"}

LEMMA KeptAre ==
  Kept \subseteq (ThreeRegOps \cup RsRtOps \cup RdOps \cup RsOps \cup {"sll"})
  BY Tables, SMT DEF Kept, ThreeRegOps, RsRtOps, RdOps, RsOps

\* How an R-word that a line became is listed.
LEMMA KeptListed ==
  ASSUME NEW op \in Kept, NEW l, l.op = op,
         NEW r \in Five, NEW t \in Five, NEW d \in Five, NEW s \in Five,
         NEW v, v = RWord(l, r, t, d, s), v # Noop
  PROVE  /\ op \in ThreeRegOps => DisInstr(v) = Line(op, Reg(d), Reg(r), Reg(t))
         /\ op = "sll" => DisInstr(v) = Line(op, Reg(d), Reg(t), Lit(s))
         /\ op \in RsRtOps => DisInstr(v) = Line(op, Reg(r), Reg(t), None)
         /\ op \in RdOps => DisInstr(v) = Line(op, Reg(d), None, None)
         /\ op \in RsOps => DisInstr(v) = Line(op, Reg(r), None, None)
<1>1. /\ v.op = 0 /\ v.rs = r /\ v.rt = t /\ Rd(v) = d /\ Shamt(v) = s
      /\ Func(v) = FuncCode[op]
  <2>1. HasFieldsR(v, r, t, d, s, CodeOf(FuncCode, l.op))
    BY FieldsOfR
  <2>2. CodeOf(FuncCode, l.op) = FuncCode[op]
    BY DEF CodeOf, Kept
  <2> QED BY <2>1, <2>2, SMT DEF HasFieldsR
<1>2. op = DisROp(Func(v))
  <2>1. FuncCode[op] \in DOMAIN FuncNames /\ FuncNames[FuncCode[op]] = op
    BY CodesOfR DEF Kept
  <2> QED BY <1>1, <2>1, FuncNamesAre, SMT DEF DisROp
<1>3. CASE op \in ThreeRegOps
  BY <1>1, <1>2, <1>3, ListedR
  DEF ThreeRegOps, ShiftOps, RsRtOps, RdOps, RsOps
<1>4. CASE op \notin ThreeRegOps
  <2>1. op = "sll" => op \in ShiftOps
    BY DEF ShiftOps
  <2>2. op \in RsRtOps => op \notin ShiftOps \cup RdOps \cup RsOps
    BY DEF RsRtOps, ShiftOps, RdOps, RsOps
  <2>3. op \in RdOps => op \notin ShiftOps \cup RsRtOps \cup RsOps
    BY DEF RsRtOps, ShiftOps, RdOps, RsOps
  <2> QED BY <1>1, <1>2, <1>4, <2>1, <2>2, <2>3, ListedR
<1> QED BY <1>3, <1>4

\* An R-word assembled with the operands its instruction has is assembled again
\* from its own listing.
LEMMA RoundR ==
  ASSUME NEW op \in Kept, NEW l, l.op = op,
         NEW r \in Five, NEW t \in Five, NEW d \in Five, NEW s \in Five,
         NEW v, v = RWord(l, r, t, d, s), v # Noop,
         op \in ThreeRegOps => s = 0,
         op = "sll" => r = 0,
         op \in RsRtOps => d = 0 /\ s = 0,
         op \in RdOps => r = 0 /\ t = 0 /\ s = 0,
         op \in RsOps => t = 0 /\ d = 0 /\ s = 0
  PROVE  Again(v) = v
<1> DEFINE m == DisInstr(v)
<1>1. /\ op \in ThreeRegOps => m = Line(op, Reg(d), Reg(r), Reg(t))
      /\ op = "sll" => m = Line(op, Reg(d), Reg(t), Lit(s))
      /\ op \in RsRtOps => m = Line(op, Reg(r), Reg(t), None)
      /\ op \in RdOps => m = Line(op, Reg(d), None, None)
      /\ op \in RsOps => m = Line(op, Reg(r), None, None)
  BY KeptListed
<1> HIDE DEF m
<1>2. m.op = op
  BY <1>1, KeptAre, SMT DEF Line
<1>3. CASE op \in ThreeRegOps
  <2>1. AssembleText(m) = RWord(m, r, t, d, 0)
    BY <1>1, <1>3, Assembled, ValuesOfArgs
  <2> QED BY <1>2, <1>3, <2>1, RWordByName DEF Again, m
<1>4. CASE op = "sll"
  <2>1. AssembleText(m) = RWord(m, 0, t, d, s)
    BY <1>1, <1>4, Assembled, ValuesOfArgs DEF ShiftOps
  <2> QED BY <1>2, <1>4, <2>1, RWordByName DEF Again, m
<1>5. CASE op \in RsRtOps
  <2>1. AssembleText(m) = RWord(m, r, t, 0, 0)
    BY <1>1, <1>5, Assembled, ValuesOfArgs
  <2> QED BY <1>2, <1>5, <2>1, RWordByName DEF Again, m
<1>6. CASE op \in RdOps
  <2>1. AssembleText(m) = RWord(m, 0, 0, d, 0)
    BY <1>1, <1>6, Assembled, ValuesOfArgs
  <2> QED BY <1>2, <1>6, <2>1, RWordByName DEF Again, m
<1>7. CASE op \in RsOps
  <2>1. AssembleText(m) = RWord(m, r, 0, 0, 0)
    BY <1>1, <1>7, Assembled, ValuesOfArgs
  <2> QED BY <1>2, <1>7, <2>1, RWordByName DEF Again, m
<1> QED BY <1>3, <1>4, <1>5, <1>6, <1>7, KeptAre

\* A word of the R-format settles in one round.
LEMMA SettlesR ==
  ASSUME NEW w \in Word, w.op = 0, w # Noop
  PROVE  Again(Again(w)) = Again(w) /\ Again(w).op = 0
<1> DEFINE r == w.rs
           t == w.rt
           d == Rd(w)
           s == Shamt(w)
           op == DisROp(Func(w))
           l == DisInstr(w)
           v == AssembleText(l)
<1>1. r \in Five /\ t \in Five /\ d \in Five /\ s \in Five /\ 0 \in Five
  <2>1. 0 \in Five
    BY DEF Five
  <2> QED BY <2>1, WordFields
<1>2. op \in {"nor", "null", "srl"} \cup Kept
  BY NamesOfR DEF Kept
<1>3. /\ op \in ShiftOps => l = Line(op, Reg(d), Reg(t), Lit(s))
      /\ op \in RsRtOps => l = Line(op, Reg(r), Reg(t), None)
      /\ op \in RdOps => l = Line(op, Reg(d), None, None)
      /\ op \in RsOps => l = Line(op, Reg(r), None, None)
      /\ op \notin ShiftOps \cup RsRtOps \cup RdOps \cup RsOps =>
           l = Line(op, Reg(d), Reg(r), Reg(t))
  BY ListedR
<1>4. Again(w) = v
  BY DEF Again
<1>5. ASSUME NEW m, NEW kept \in Kept, m.op = kept,
             NEW r1 \in Five, NEW t1 \in Five, NEW d1 \in Five, NEW s1 \in Five,
             v = RWord(m, r1, t1, d1, s1),
             kept \in ThreeRegOps => s1 = 0,
             kept = "sll" => r1 = 0,
             kept \in RsRtOps => d1 = 0 /\ s1 = 0,
             kept \in RdOps => r1 = 0 /\ t1 = 0 /\ s1 = 0,
             kept \in RsOps => t1 = 0 /\ d1 = 0 /\ s1 = 0
      PROVE  Again(v) = v /\ v.op = 0
  <2> HIDE DEF v
  <2>1. v.op = 0
    <3>1. HasFieldsR(v, r1, t1, d1, s1, CodeOf(FuncCode, m.op))
      BY <1>5, FieldsOfR
    <3> QED BY <3>1 DEF HasFieldsR
  <2>2. v # Noop => Again(v) = v
    BY <1>5, RoundR
  <2> QED BY <2>1, <2>2, NoopSettles
<1> HIDE DEF op, l, v, r, t, d, s
<1>6. CASE op \in {"nor", "null"}
  <2>1. l = Line(op, Reg(d), Reg(r), Reg(t))
    BY <1>3, <1>6 DEF ShiftOps, RsRtOps, RdOps, RsOps
  <2>2. v = Noop
    BY <1>6, <2>1, Assembled DEF v
  <2> QED BY <1>4, <2>2, NoopSettles, SMT DEF Noop
<1>7. CASE op \in ThreeRegOps
  <2>1. l = Line(op, Reg(d), Reg(r), Reg(t)) /\ l.op = op
    BY <1>3, <1>7, SMT DEF ThreeRegOps, ShiftOps, RsRtOps, RdOps, RsOps, Line
  <2>2. v = RWord(l, r, t, d, 0)
    BY <1>7, <2>1, Assembled, ValuesOfArgs DEF v
  <2>3. op \in Kept /\ op \notin RsRtOps \cup RdOps \cup RsOps \cup {"sll"}
    BY <1>2, <1>7, SMT DEF ThreeRegOps, RsRtOps, RdOps, RsOps
  <2> QED BY <1>1, <1>4, <1>5, <2>1, <2>2, <2>3
<1>8. CASE op \in ShiftOps
  <2> DEFINE m == Line("sll", None, None, None)
  <2>1. l = Line(op, Reg(d), Reg(t), Lit(s)) /\ l.op = op
    BY <1>3, <1>8, SMT DEF Line
  <2>2. v = RWord(l, 0, t, d, s)
    BY <1>8, <2>1, Assembled, ValuesOfArgs DEF v
  <2>3. CodeOf(FuncCode, "sll") = 0 /\ CodeOf(FuncCode, "srl") = 0
    BY Tables, SMT DEF CodeOf, FuncCode
  <2>4. m.op = "sll"
    BY SMT DEF Line
  <2> HIDE DEF m
  <2>5. v = RWord(m, 0, t, d, s)
    BY <1>8, <2>1, <2>2, <2>3, <2>4, SMT DEF RWord, ShiftOps
  <2>6. "sll" \in Kept /\ "sll" \notin ThreeRegOps \cup RsRtOps \cup RdOps \cup RsOps
    BY Tables, SMT DEF Kept, ThreeRegOps, RsRtOps, RdOps, RsOps
  <2> QED BY <1>1, <1>4, <1>5, <2>4, <2>5, <2>6
<1>9. CASE op \in RsRtOps
  <2>1. l = Line(op, Reg(r), Reg(t), None) /\ l.op = op
    BY <1>3, <1>9, SMT DEF Line
  <2>2. v = RWord(l, r, t, 0, 0)
    BY <1>9, <2>1, Assembled, ValuesOfArgs DEF v
  <2>3. op \in Kept /\ op \notin ThreeRegOps \cup RdOps \cup RsOps \cup {"sll"}
    BY <1>2, <1>9, SMT DEF ThreeRegOps, RsRtOps, RdOps, RsOps
  <2> QED BY <1>1, <1>4, <1>5, <2>1, <2>2, <2>3
<1>10. CASE op \in RdOps
  <2>1. l = Line(op, Reg(d), None, None) /\ l.op = op
    BY <1>3, <1>10, SMT DEF Line
  <2>2. v = RWord(l, 0, 0, d, 0)
    BY <1>10, <2>1, Assembled, ValuesOfArgs DEF v
  <2>3. op \in Kept /\ op \notin ThreeRegOps \cup RsRtOps \cup RsOps \cup {"sll"}
    BY <1>2, <1>10, SMT DEF ThreeRegOps, RsRtOps, RdOps, RsOps
  <2> QED BY <1>1, <1>4, <1>5, <2>1, <2>2, <2>3
<1>11. CASE op \in RsOps
  <2>1. l = Line(op, Reg(r), None, None) /\ l.op = op
    BY <1>3, <1>11, SMT DEF Line
  <2>2. v = RWord(l, r, 0, 0, 0)
    BY <1>11, <2>1, Assembled, ValuesOfArgs DEF v
  <2>3. op \in Kept /\ op \notin ThreeRegOps \cup RsRtOps \cup RdOps \cup {"sll"}
    BY <1>2, <1>11, SMT DEF ThreeRegOps, RsRtOps, RdOps, RsOps
  <2> QED BY <1>1, <1>4, <1>5, <2>1, <2>2, <2>3
<1>12. op \in {"nor", "null"} \cup ThreeRegOps \cup ShiftOps \cup RsRtOps
             \cup RdOps \cup RsOps
  BY <1>2, KeptAre DEF ShiftOps
<1> QED BY <1>6, <1>7, <1>8, <1>9, <1>10, <1>11, <1>12
-----------------------------------------------------------------------------
\* An I- or J-word, by its fields.
Fields(op, rs, rt, low) == [op |-> op, rs |-> rs, rt |-> rt, low |-> low]

LEMMA FieldsRead ==
  ASSUME NEW op, NEW rs, NEW rt, NEW low, NEW w, w = Fields(op, rs, rt, low)
  PROVE  w.op = op /\ w.rs = rs /\ w.rt = rt /\ w.low = low
  BY DEF Fields

LEMMA SwappedFields ==
  ASSUME NEW op, NEW rs, NEW rt, NEW low
  PROVE  Swapped(Fields(op, rs, rt, low)) =
           IF op \in {4, 5} THEN Fields(op, rt, rs, low) ELSE Fields(op, rs, rt, low)
<1> DEFINE w == Fields(op, rs, rt, low)
<1>1. w.op = op /\ w.rs = rs /\ w.rt = rt /\ w.low = low
  BY FieldsRead
<1>2. [w EXCEPT !.rs = rt, !.rt = rs] = Fields(op, rt, rs, low)
  <2>1. [w EXCEPT !.rs = rt] = Fields(op, rt, rt, low)
    BY DEF Fields
  <2>2. [Fields(op, rt, rt, low) EXCEPT !.rt = rs] = Fields(op, rt, rs, low)
    BY DEF Fields
  <2> QED BY <2>1, <2>2 DEF w, Fields
<1> HIDE DEF w
<1>3. Swapped(w) = IF op \in {4, 5} THEN Fields(op, rt, rs, low) ELSE w
  BY <1>1, <1>2, SMT DEF Swapped
<1> QED BY <1>3 DEF w

INames == DOMAIN OpCode \ JOps

LEMMA CodesOfI ==
  ASSUME NEW op \in INames
  PROVE  /\ OpCode[op] \notin {0, 2, 3}
         /\ OpCode[op] \in {4, 5} <=> op \in {"beq", "bne"}
         /\ DisIOp(OpCode[op]) = op
         /\ op \in IOps \cup {"lui"}
<1>1. \A o, p \in INames : OpCode[o] = OpCode[p] => o = p
  BY SMT DEF INames, OpCode, JOps
<1>2. /\ OpCode[op] \notin {0, 2, 3}
      /\ OpCode[op] \in {4, 5} <=> op \in {"beq", "bne"}
      /\ op \in IOps \cup {"lui"}
  BY SMT DEF INames, OpCode, JOps, IOps
<1>3. HasNameI(OpCode[op])
  BY DEF HasNameI, INames
<1>4. NameOfI(OpCode[op]) = op
  BY <1>1, <1>3, NamesOfI DEF INames
<1> QED BY <1>2, <1>3, <1>4, DisIOpIs

LEMMA FieldsOfI ==
  ASSUME NEW l, NEW op \in INames, l.op = op,
         NEW r \in Five, NEW t \in Five, NEW i \in Half
  PROVE  IWord(l, r, t, i) = Fields(OpCode[op], r, t, i)
<1>1. r % 32 = r /\ t % 32 = t
  BY SMT DEF Five
<1>2. i % 65536 = i
  BY HalfIs, SMT
<1>3. CodeOf(OpCode, l.op) = OpCode[op]
  BY DEF CodeOf, INames
<1> QED BY <1>1, <1>2, <1>3 DEF IWord, Fields

\* How an I-word is listed.
LEMMA ListedI ==
  ASSUME NEW op \in INames, NEW r, NEW t, NEW i,
         NEW w, w = Fields(OpCode[op], r, t, i)
  PROVE  /\ op \in {"beq", "bne"} =>
              DisInstr(w) = Line(op, Reg(r), Reg(t), Lit(i))
         /\ op \notin {"beq", "bne"} =>
              DisInstr(w) = Line(op, Reg(t), Reg(r), Lit(i))
<1>1. w.op = OpCode[op] /\ w.rs = r /\ w.rt = t /\ w.low = i
  BY FieldsRead
<1>2. w # Noop
  BY <1>1, CodesOfI, SMT DEF Noop
<1>3. DisInstr(w) = DisI(w)
  BY <1>1, <1>2, CodesOfI, SMT DEF DisInstr
<1> QED BY <1>1, <1>3, CodesOfI DEF DisI

\* One round of an I-word.
LEMMA RoundI ==
  ASSUME NEW op \in INames, NEW r \in Five, NEW t \in Five, NEW i \in Half
  PROVE  Again(Fields(OpCode[op], r, t, i)) =
           IF op = "lui" THEN Fields(OpCode[op], 0, t, i)
           ELSE IF op \in {"beq", "bne"} THEN Fields(OpCode[op], t, r, i)
           ELSE Fields(OpCode[op], r, t, i)
<1> DEFINE w == Fields(OpCode[op], r, t, i)
           l == DisInstr(w)
<1>1. 0 \in Five
  BY DEF Five
<1>2. /\ op \in {"beq", "bne"} => l = Line(op, Reg(r), Reg(t), Lit(i))
      /\ op \notin {"beq", "bne"} => l = Line(op, Reg(t), Reg(r), Lit(i))
  BY ListedI
<1> HIDE DEF w
<1>3. l.op = op
  BY <1>2, SMT DEF Line
<1> HIDE DEF l
<1>4. CASE op = "lui"
  <2>1. AssembleText(l) = IWord(l, 0, t, i)
    BY <1>2, <1>4, Assembled, ValuesOfArgs
  <2> QED BY <1>1, <1>3, <1>4, <2>1, FieldsOfI DEF Again, l, w
<1>5. CASE op \in {"beq", "bne"}
  <2>1. AssembleText(l) = IWord(l, t, r, i)
    BY <1>2, <1>5, Assembled, ValuesOfArgs DEF IOps
  <2> QED BY <1>3, <1>5, <2>1, FieldsOfI DEF Again, l, w
<1>6. CASE op \notin {"lui", "beq", "bne"}
  <2>1. AssembleText(l) = IWord(l, r, t, i)
    BY <1>2, <1>6, Assembled, ValuesOfArgs, CodesOfI
  <2> QED BY <1>3, <1>6, <2>1, FieldsOfI DEF Again, l, w
<1> QED BY <1>4, <1>5, <1>6

\* A word of the I-format settles in one round, but for its operands in a branch.
LEMMA SettlesI ==
  ASSUME NEW w \in Word, w.op \notin {0, 2, 3}
  PROVE  Again(Again(w)) = Swapped(Again(w))
<1> DEFINE r == w.rs
           t == w.rt
           i == w.low
           l == DisInstr(w)
<1>1. r \in Five /\ t \in Five /\ i \in Half /\ 0 \in Five
      /\ w = Fields(w.op, r, t, i)
  <2>1. 0 \in Five
    BY DEF Five
  <2>2. i \in Half
    BY SMT DEF Word
  <2> QED BY <2>1, <2>2, WordFields DEF Fields
<1>2. CASE HasNameI(w.op)
  <2> DEFINE op == NameOfI(w.op)
             code == OpCode[op]
  <2>1. op \in INames /\ code = w.op
    BY <1>2, NamesOfI DEF INames
  <2>2. w = Fields(code, r, t, i)
    BY <1>1, <2>1
  <2>3. code \in {4, 5} <=> op \in {"beq", "bne"}
    BY <2>1, CodesOfI
  <2> HIDE DEF op, r, t, i
  <2>4. \A r1, t1 \in Five :
          Again(Fields(code, r1, t1, i)) =
            IF op = "lui" THEN Fields(code, 0, t1, i)
            ELSE IF op \in {"beq", "bne"} THEN Fields(code, t1, r1, i)
            ELSE Fields(code, r1, t1, i)
    BY <1>1, <2>1, RoundI
  <2>5. \A r1, t1 : Swapped(Fields(code, r1, t1, i)) =
          IF code \in {4, 5} THEN Fields(code, t1, r1, i)
          ELSE Fields(code, r1, t1, i)
    BY SwappedFields
  <2> HIDE DEF code
  <2> QED BY <1>1, <2>2, <2>3, <2>4, <2>5
<1>3. CASE ~HasNameI(w.op)
  <2> DEFINE op == DisIOp(w.op)
  <2>1. op \in {"slti", "sltiu", "null"}
    BY <1>3, DisIOpIs
  <2>2. l = DisI(w)
    BY SMT DEF DisInstr, Noop
  <2> HIDE DEF op
  <2>3. l = Line(op, Reg(t), Reg(r), Lit(i))
    BY <2>1, <2>2 DEF DisI, op
  <2> HIDE DEF l
  <2>4. AssembleText(l) = Noop
    BY <2>1, <2>3, Assembled
  <2>5. Again(w) = Noop
    BY <2>4 DEF Again, l
  <2>6. Swapped(Noop) = Noop
    BY SMT DEF Swapped, Noop
  <2> QED BY <2>5, <2>6, NoopSettles
<1> QED BY <1>2, <1>3
-----------------------------------------------------------------------------
\* What is left of rs in a listed jump.
Cleared(rs) == rs - 8 * ((rs \div 8) % 2)

LEMMA ClearedOnce ==
  ASSUME NEW r \in Five
  PROVE  Cleared(r) \in Five /\ Cleared(Cleared(r)) = Cleared(r)
<1>1. r \in Int /\ 0 <= r /\ r < 32
  BY DEF Five
<1> DEFINE c == Cleared(r)
<1>2. c \in Int /\ 0 <= c /\ c < 32 /\ (c \div 8) % 2 = 0
  BY <1>1, SMT DEF Cleared
<1>3. Cleared(c) = c - 8 * ((c \div 8) % 2)
  BY DEF Cleared
<1> HIDE DEF c
<1>4. Cleared(c) = c /\ c \in Five
  BY <1>2, <1>3, SMT DEF Five
<1> QED BY <1>4 DEF c

\* The bits of a target are back in their fields.
LEMMA FieldsOfJ ==
  ASSUME NEW l, NEW code, CodeOf(OpCode, l.op) = code,
         NEW r \in Five, NEW t \in Five, NEW i \in Half
  PROVE  JWord(l, 4 * (r * 2097152 + t * 65536 + i)) = Fields(code, r, t, i)
<1> DEFINE n == r * 2097152 + t * 65536 + i
           m == ((4 * n) % 268435456) \div 4
<1>1. /\ r \in Int /\ 0 <= r /\ r < 32 /\ t \in Int /\ 0 <= t /\ t < 32
      /\ i \in Int /\ 0 <= i /\ i < 65536
  <2>1. i \in Int /\ 0 <= i /\ i < 65536
    BY HalfIs
  <2> QED BY <2>1, SMT DEF Five
<1>2. n \in Int /\ 0 <= n /\ n < 67108864
  BY <1>1, SMT
<1>3. n \div 2097152 = r /\ (n \div 65536) % 32 = t /\ n % 65536 = i
  BY <1>1, SMT
<1> HIDE DEF n
<1>4. m = n
  BY <1>2, SMT
<1>5. JWord(l, 4 * n) = [op |-> CodeOf(OpCode, l.op), rs |-> m \div 2097152,
                         rt |-> (m \div 65536) % 32, low |-> m % 65536]
  BY SMT DEF JWord
<1> QED BY <1>3, <1>4, <1>5 DEF Fields, n

\* How a jump is listed.
LEMMA ListedJ ==
  ASSUME NEW code \in {2, 3}, NEW r, NEW t, NEW i,
         NEW w, w = Fields(code, r, t, i)
  PROVE  DisInstr(w) = Line(IF code = 2 THEN "j" ELSE "jal",
           Lit(4 * (Cleared(r) * 2097152 + t * 65536 + i)), None, None)
<1>1. w.op = code /\ w.rs = r /\ w.rt = t /\ w.low = i
  BY FieldsRead
<1>2. w # Noop
  BY <1>1, SMT DEF Noop
<1>3. DisInstr(w) = DisJ(w)
  BY <1>1, <1>2, SMT DEF DisInstr
<1> QED BY <1>1, <1>3 DEF DisJ, Cleared

\* One round of a jump.
LEMMA RoundJ ==
  ASSUME NEW code \in {2, 3}, NEW r \in Five, NEW t \in Five, NEW i \in Half
  PROVE  Again(Fields(code, r, t, i)) = Fields(code, Cleared(r), t, i)
<1> DEFINE w == Fields(code, r, t, i)
           l == DisInstr(w)
           op == IF code = 2 THEN "j" ELSE "jal"
           n == 4 * (Cleared(r) * 2097152 + t * 65536 + i)
<1>1. CodeOf(OpCode, op) = code /\ op \in JOps
  BY Tables, SMT DEF CodeOf, OpCode, JOps
<1>2. l = Line(op, Lit(n), None, None)
  BY ListedJ
<1> HIDE DEF w, l, op
<1>3. l.op = op
  BY <1>2, SMT DEF Line
<1>4. Cleared(r) \in Five
  BY ClearedOnce
<1>5. JWord(l, n) = Fields(code, Cleared(r), t, i)
  BY <1>1, <1>3, <1>4, FieldsOfJ
<1> HIDE DEF n
<1>6. AssembleText(l) = JWord(l, n)
  BY <1>1, <1>2, Assembled, ValuesOfArgs
<1> QED BY <1>5, <1>6 DEF Again, l, w

\* A jump settles in one round.
LEMMA SettlesJ ==
  ASSUME NEW w \in Word, w.op \in {2, 3}
  PROVE  Again(Again(w)) = Again(w) /\ Again(w).op = w.op
<1> DEFINE r == w.rs
           t == w.rt
           i == w.low
           code == w.op
           c == Cleared(r)
<1>1. r \in Five /\ t \in Five /\ i \in Half /\ code \in {2, 3}
      /\ w = Fields(code, r, t, i)
  <2>1. i \in Half
    BY SMT DEF Word
  <2> QED BY <2>1, WordFields DEF Fields
<1> HIDE DEF r, t, i, code
<1>2. c \in Five /\ Cleared(c) = c
  BY <1>1, ClearedOnce
<1>3. Again(w) = Fields(code, c, t, i)
  BY <1>1, RoundJ
<1> HIDE DEF c
<1>4. Again(Fields(code, c, t, i)) = Fields(code, c, t, i)
  BY <1>1, <1>2, RoundJ
<1> QED BY <1>3, <1>4, FieldsRead DEF code
-----------------------------------------------------------------------------
(* Listing and assembling any of the 2^32 words once gives a word that     *)
(* further rounds leave alone, up to the operands of a branch: nothing     *)
(* drifts, whichever fields the first round has lost.                      *)
LEMMA EveryWordSettles ==
  ASSUME NEW w \in Word PROVE Again(Again(w)) = Swapped(Again(w))
<1>1. \A u : u.op \notin {4, 5} => Swapped(u) = u
  BY DEF Swapped
<1>2. CASE w = Noop
  <2>1. Swapped(Noop) = Noop
    BY SMT DEF Swapped, Noop
  <2> QED BY <1>2, <2>1, NoopSettles
<1>3. CASE w.op = 0 /\ w # Noop
  BY <1>1, <1>3, SettlesR, SMT
<1>4. CASE w.op \in {2, 3}
  BY <1>1, <1>4, SettlesJ, SMT
<1>5. CASE w.op \notin {0, 2, 3}
  BY <1>5, SettlesI
<1> QED BY <1>2, <1>3, <1>4, <1>5

\* WordsSettle, for every line and word to start from.
THEOREM Settles == Spec => []WordsSettle
<1>1. RoundTripTypeOK => WordsSettle
  BY EveryWordSettles DEF RoundTripTypeOK, WordsSettle
<1> QED BY <1>1, TypeCorrect, PTL
-----------------------------------------------------------------------------
(***************************************************************************)
(* NoOtherInstruction.                                                     *)
(***************************************************************************)
LEMMA ListedName ==
  ASSUME NEW w
  PROVE  \/ DisInstr(w).op = "null"
         \/ w.op \in {2, 3} /\ DisInstr(w).op = IF w.op = 2 THEN "j" ELSE "jal"
         \/ w.op = 0 /\ DisInstr(w).op = DisROp(Func(w))
         \/ w.op \notin {0, 2, 3} /\ DisInstr(w).op = DisIOp(w.op)
<1>1. \A op, a, b, c : Line(op, a, b, c).op = op
  BY SMT DEF Line
<1>2. DisJ(w).op = IF w.op = 2 THEN "j" ELSE "jal"
  BY <1>1 DEF DisJ
<1>3. DisI(w).op = DisIOp(w.op)
  BY <1>1 DEF DisI
<1>4. CASE w = Noop
  BY <1>1, <1>4, SMT DEF DisInstr, BlankLine
<1>5. CASE w # Noop /\ w.op \in {2, 3}
  <2>1. DisInstr(w) = DisJ(w)
    BY <1>5, SMT DEF DisInstr
  <2> QED BY <1>2, <1>5, <2>1
<1>6. CASE w # Noop /\ w.op = 0
  <2> DEFINE op == DisROp(Func(w))
             l == DisInstr(w)
  <2>1. /\ op \in ShiftOps => l = Line(op, Reg(Rd(w)), Reg(w.rt), Lit(Shamt(w)))
        /\ op \in RsRtOps => l = Line(op, Reg(w.rs), Reg(w.rt), None)
        /\ op \in RdOps => l = Line(op, Reg(Rd(w)), None, None)
        /\ op \in RsOps => l = Line(op, Reg(w.rs), None, None)
        /\ op \notin ShiftOps \cup RsRtOps \cup RdOps \cup RsOps =>
             l = Line(op, Reg(Rd(w)), Reg(w.rs), Reg(w.rt))
    BY <1>6, ListedR
  <2> HIDE DEF op, l
  <2>2. l.op = op
    BY <1>1, <2>1
  <2> QED BY <1>6, <2>2 DEF op, l
<1>7. CASE w # Noop /\ w.op \notin {0, 2, 3}
  <2>1. DisInstr(w) = DisI(w)
    BY <1>7, SMT DEF DisInstr
  <2> QED BY <1>3, <1>7, <2>1
<1> QED BY <1>4, <1>5, <1>6, <1>7

\* The function code is not reached by what is in front of it.
LEMMA FuncOfR ==
  ASSUME NEW l, NEW rs, NEW rt, NEW rd \in Int, NEW shamt \in Int,
         NEW w, w = RWord(l, rs, rt, rd, shamt)
  PROVE  w.op = 0 /\ Func(w) = CodeOf(FuncCode, l.op)
<1> DEFINE code == CodeOf(FuncCode, l.op)
           d == rd % 32
           s == shamt % 32
           low == d * 2048 + s * 64 + code
<1>1. code \in 0..63
  BY CodeTypes
<1>2. d \in Int /\ s \in Int
  BY SMT
<1>3. w = [op |-> 0, rs |-> rs % 32, rt |-> rt % 32, low |-> low]
  BY SMT DEF RWord
<1> HIDE DEF code, d, s
<1>4. low % 64 = code
  BY <1>1, <1>2, SMT
<1> HIDE DEF low
<1> QED BY <1>3, <1>4 DEF Func, code

\* A line keeps its name through both.
LEMMA NameKept ==
  ASSUME NEW l, IsLine(l), l.op # "srl"
  PROVE  DisInstr(AssembleText(l)).op \in {l.op, "null"}
<1> DEFINE a == l.args[1].val
           b == l.args[2].val
           c == l.args[3].val
           w == AssembleText(l)
           op == l.op
<1> USE DEF ThreeRegOps, ShiftOps, RsRtOps, RdOps, RsOps, IOps, JOps
<1>1. a \in Int /\ b \in Int /\ c \in Int
  BY DEF IsLine, Args
<1>2. op \in DOMAIN FuncCode \/ op \in DOMAIN OpCode
      \/ op \in {"nor", "slti", "sltiu", "null"}
  BY DEF IsLine, Mnemonics
<1> HIDE DEF a, b, c
<1>3. CASE op \in DOMAIN FuncCode \ {"jalr"}
  <2>1. \/ op \in ThreeRegOps /\ w = RWord(l, b, c, a, 0)
        \/ op = "sll" /\ w = RWord(l, 0, b, a, c)
        \/ op \in RsRtOps /\ w = RWord(l, a, b, 0, 0)
        \/ op \in RdOps /\ w = RWord(l, 0, 0, a, 0)
        \/ op \in RsOps /\ w = RWord(l, a, 0, 0, 0)
    <3>1. op \in ThreeRegOps => w = RWord(l, b, c, a, 0)
      BY SMT DEF AssembleText, a, b, c
    <3>2. op = "sll" => w = RWord(l, 0, b, a, c)
      BY SMT DEF AssembleText, a, b, c
    <3>3. op \in RsRtOps => w = RWord(l, a, b, 0, 0)
      BY SMT DEF AssembleText, a, b, c
    <3>4. op \in RdOps => w = RWord(l, 0, 0, a, 0)
      BY SMT DEF AssembleText, a, b, c
    <3>5. op \in RsOps => w = RWord(l, a, 0, 0, 0)
      BY SMT DEF AssembleText, a, b, c
    <3>6. op \in ThreeRegOps \cup {"sll"} \cup RsRtOps \cup RdOps \cup RsOps
      BY <1>3, Tables, SMT
    <3> QED BY <3>1, <3>2, <3>3, <3>4, <3>5, <3>6
  <2> HIDE DEF w
  <2>2. w.op = 0 /\ Func(w) = CodeOf(FuncCode, op)
    <3>1. 0 \in Int
      OBVIOUS
    <3> QED BY <1>1, <2>1, <3>1, FuncOfR
  <2>3. CodeOf(FuncCode, op) = FuncCode[op]
    BY <1>3 DEF CodeOf
  <2>4. DisROp(FuncCode[op]) \in {op, "null"}
    <3>1. CASE op = "xor"
      <4>1. 38 \notin DOMAIN FuncNames \cup {39, 2} /\ FuncCode["xor"] = 38
        BY SMT DEF FuncNames, FuncCode
      <4> QED BY <3>1, <4>1, SMT DEF DisROp
    <3>2. CASE op # "xor"
      <4>1. FuncCode[op] \in DOMAIN FuncNames /\ FuncNames[FuncCode[op]] = op
        BY <1>3, <3>2, CodesOfR
      <4> QED BY <4>1, FuncNamesAre, SMT DEF DisROp
    <3> QED BY <3>1, <3>2
  <2>5. DisInstr(w).op = "null" \/ DisInstr(w).op = DisROp(Func(w))
    BY <2>2, ListedName
  <2> QED BY <2>2, <2>3, <2>4, <2>5 DEF w
<1>4. CASE op \in INames
  <2>1. w.op = CodeOf(OpCode, op)
    <3>1. op \in IOps => w = IWord(l, b, a, c)
      BY SMT DEF AssembleText, a, b, c
    <3>2. op = "lui" => w = IWord(l, 0, a, c)
      BY SMT DEF AssembleText, a, b, c
    <3>3. \A rs, rt, imm : IWord(l, rs, rt, imm).op = CodeOf(OpCode, op)
      BY SMT DEF IWord
    <3> HIDE DEF w
    <3> QED BY <1>4, <3>1, <3>2, <3>3, CodesOfI
  <2> HIDE DEF w
  <2>2. w.op = OpCode[op]
    BY <1>4, <2>1 DEF CodeOf, INames
  <2>3. DisInstr(w).op = "null" \/ DisInstr(w).op = DisIOp(w.op)
    BY <1>4, <2>2, ListedName, CodesOfI
  <2> QED BY <1>4, <2>2, <2>3, CodesOfI DEF w
<1>5. CASE op \in JOps
  <2>1. w = JWord(l, a)
    BY <1>5, SMT DEF AssembleText, a, b, c
  <2>2. JWord(l, a).op = CodeOf(OpCode, op)
    BY SMT DEF JWord
  <2>3. CodeOf(OpCode, op) = IF op = "j" THEN 2 ELSE 3
    BY <1>5, Tables, SMT DEF CodeOf, OpCode
  <2> HIDE DEF w
  <2>4. DisInstr(w).op = "null"
        \/ DisInstr(w).op = IF w.op = 2 THEN "j" ELSE "jal"
    BY <1>5, <2>1, <2>2, <2>3, ListedName, SMT
  <2> QED BY <1>5, <2>1, <2>2, <2>3, <2>4, SMT DEF w
<1>6. CASE op \in {"jalr", "nor", "slti", "sltiu", "null"}
  <2>1. w = Noop
    BY <1>6, SMT DEF AssembleText
  <2>2. DisInstr(Noop).op = "null"
    BY SMT DEF DisInstr, BlankLine, Line
  <2> QED BY <2>1, <2>2
<1>7. JOps \subseteq DOMAIN OpCode
  BY Tables
<1> QED BY <1>2, <1>3, <1>4, <1>5, <1>6 DEF INames

\* A word on its way to the disassembler was made of the line, if there is one.
FromLine == side = "word" /\ line # BlankLine => word = AssembleText(line)

LEMMA AssembledFrom == Spec => []FromLine
<1>1. Init => FromLine
  BY DEF Init, FromLine
<1>2. FromLine /\ [Next]_vars => FromLine'
  BY DEF FromLine, Next, Assemble, Disassemble, vars
<1> QED BY <1>1, <1>2, PTL DEF Spec

\* NoOtherInstruction, for every line and word to start from.
THEOREM NamesAreKept == Spec => NoOtherInstruction
<1> DEFINE Step == Disassemble => \/ line'.op \in {line.op, "null"}
                                  \/ line = BlankLine \/ line.op = "srl"
<1>1. RoundTripTypeOK /\ FromLine /\ [Next]_vars => [Step]_vars
  <2> SUFFICES ASSUME RoundTripTypeOK, FromLine, Disassemble,
                      line # BlankLine, line.op # "srl"
               PROVE  line'.op \in {line.op, "null"}
    OBVIOUS
  <2>1. IsLine(line)
    BY DEF RoundTripTypeOK, IsLine
  <2>2. line' = DisInstr(AssembleText(line))
    BY DEF FromLine, Disassemble
  <2> QED BY <2>1, <2>2, NameKept
<1> QED BY <1>1, TypeCorrect, AssembledFrom, PTL DEF Spec, NoOtherInstruction
-----------------------------------------------------------------------------
(***************************************************************************)
(* LinesComeBack, by format: with operands that fit, the fields of the     *)
(* word are the operands, and the listing has them in the same places.     *)
(***************************************************************************)
LEMMA LineIs ==
  ASSUME NEW l \in [op : Mnemonics, args : Args]
  PROVE  /\ l = Line(l.op, l.args[1], l.args[2], l.args[3])
         /\ IsArg(l.args[1]) /\ IsArg(l.args[2]) /\ IsArg(l.args[3])
<1>1. l = [op |-> l.op, args |-> l.args] /\ l.args \in Args
  OBVIOUS
<1> DEFINE args == l.args
<1>2. args = <<args[1], args[2], args[3]>>
  BY <1>1 DEF Args
<1>3. IsArg(args[1]) /\ IsArg(args[2]) /\ IsArg(args[3])
  BY <1>1, SMT DEF Args, IsArg
<1> QED BY <1>1, <1>2, <1>3 DEF Line

LEMMA ArgIs ==
  ASSUME NEW arg, IsArg(arg)
  PROVE  /\ IsReg(arg) => arg = Reg(arg.val) /\ arg.val \in Five
         /\ \A top : IsLit(arg, top) => arg = Lit(arg.val) /\ arg.val \in 0..top
  BY DEF IsArg, IsReg, IsLit, Reg, Lit, Arg, Five

LEMMA RLineReturns ==
  ASSUME NEW l, NEW op \in Kept, NEW a, NEW b, NEW c, l = Line(op, a, b, c),
         AssembleText(l) # Noop,
         \/ /\ op \in ThreeRegOps \ {"jr"}
            /\ a.val \in Five /\ b.val \in Five /\ c.val \in Five
            /\ a = Reg(a.val) /\ b = Reg(b.val) /\ c = Reg(c.val)
         \/ /\ op = "sll"
            /\ a.val \in Five /\ b.val \in Five /\ c.val \in Five
            /\ a = Reg(a.val) /\ b = Reg(b.val) /\ c = Lit(c.val)
         \/ /\ op \in RsRtOps /\ a.val \in Five /\ b.val \in Five
            /\ a = Reg(a.val) /\ b = Reg(b.val) /\ c = None
         \/ /\ op \in RdOps \cup RsOps /\ a.val \in Five
            /\ a = Reg(a.val) /\ b = None /\ c = None
  PROVE  DisInstr(AssembleText(l)) = l
<1> DEFINE v == AssembleText(l)
<1>1. 0 \in Five
  BY DEF Five
<1>2. l.op = op
  BY SMT DEF Line
<1>3. CASE op \in ThreeRegOps
  <2>1. op \notin {"sll"} \cup RsRtOps \cup RdOps \cup RsOps
    BY <1>3 DEF ThreeRegOps, RsRtOps, RdOps, RsOps
  <2>2. v = RWord(l, b.val, c.val, a.val, 0)
    BY <1>3, Assembled
  <2> HIDE DEF v
  <2> QED BY <1>1, <1>2, <1>3, <2>1, <2>2, KeptListed DEF v
<1>4. CASE op = "sll"
  <2>1. op \notin ThreeRegOps \cup RsRtOps \cup RdOps \cup RsOps
    BY <1>4 DEF ThreeRegOps, RsRtOps, RdOps, RsOps
  <2>2. v = RWord(l, 0, b.val, a.val, c.val)
    BY <1>4, Assembled DEF ShiftOps
  <2> HIDE DEF v
  <2> QED BY <1>1, <1>2, <1>4, <2>1, <2>2, KeptListed DEF v
<1>5. CASE op \in RsRtOps
  <2>1. op \notin {"sll"} \cup ThreeRegOps \cup RdOps \cup RsOps
    BY <1>5 DEF ThreeRegOps, RsRtOps, RdOps, RsOps
  <2>2. v = RWord(l, a.val, b.val, 0, 0)
    BY <1>5, Assembled
  <2> HIDE DEF v
  <2> QED BY <1>1, <1>2, <1>5, <2>1, <2>2, KeptListed DEF v
<1>6. CASE op \in RdOps
  <2>1. op \notin {"sll"} \cup ThreeRegOps \cup RsRtOps \cup RsOps
    BY <1>6 DEF ThreeRegOps, RsRtOps, RdOps, RsOps
  <2>2. v = RWord(l, 0, 0, a.val, 0)
    BY <1>6, Assembled
  <2> HIDE DEF v
  <2> QED BY <1>1, <1>2, <1>6, <2>1, <2>2, KeptListed DEF v
<1>7. CASE op \in RsOps
  <2>1. op \notin {"sll"} \cup ThreeRegOps \cup RsRtOps \cup RdOps
    BY <1>7 DEF ThreeRegOps, RsRtOps, RdOps, RsOps
  <2>2. v = RWord(l, a.val, 0, 0, 0)
    BY <1>7, Assembled
  <2> HIDE DEF v
  <2> QED BY <1>1, <1>2, <1>7, <2>1, <2>2, KeptListed DEF v
<1> QED BY <1>3, <1>4, <1>5, <1>6, <1>7, KeptAre

\* jr has its register in the place of rd, and is listed with two more.
LEMMA JrReturns ==
  ASSUME NEW l, NEW a, l = Line("jr", a, None, None),
         a = Reg(a.val), a.val \in Five, AssembleText(l) # Noop
  PROVE  DisInstr(AssembleText(l)) = Line("jr", a, Reg(0), Reg(0))
<1> DEFINE v == AssembleText(l)
<1>1. 0 \in Five /\ "jr" \in Kept /\ "jr" \in ThreeRegOps
  BY Tables, SMT DEF Five, Kept, ThreeRegOps
<1>2. l.op = "jr"
  BY SMT DEF Line
<1>3. v = RWord(l, 0, 0, a.val, 0)
  BY <1>1, Assembled, ValuesOfArgs
<1> HIDE DEF v
<1> QED BY <1>1, <1>2, <1>3, KeptListed DEF v

\* srl has no function code and gets that of sll.
LEMMA SrlReturns ==
  ASSUME NEW l, NEW a, NEW b, NEW c, l = Line("srl", a, b, c),
         a = Reg(a.val), b = Reg(b.val), c = Lit(c.val),
         a.val \in Five, b.val \in Five, c.val \in Five, AssembleText(l) # Noop
  PROVE  DisInstr(AssembleText(l)) = Line("sll", a, b, c)
<1> DEFINE v == AssembleText(l)
           m == Line("sll", a, b, c)
<1>1. /\ 0 \in Five /\ "sll" \in Kept
      /\ CodeOf(FuncCode, "srl") = 0 /\ CodeOf(FuncCode, "sll") = 0
  <2>1. CodeOf(FuncCode, "srl") = 0
    BY Tables, SMT DEF CodeOf
  <2>2. CodeOf(FuncCode, "sll") = 0
    BY SMT DEF CodeOf, FuncCode
  <2> QED BY <2>1, <2>2, Tables, SMT DEF Five, Kept
<1>2. l.op = "srl" /\ m.op = "sll"
  BY SMT DEF Line
<1>3. v = RWord(l, 0, b.val, a.val, c.val)
  BY Assembled DEF ShiftOps
<1> HIDE DEF v, m
<1>4. RWord(l, 0, b.val, a.val, c.val) = RWord(m, 0, b.val, a.val, c.val)
  BY <1>1, <1>2 DEF RWord
<1> QED BY <1>1, <1>2, <1>3, <1>4, KeptListed DEF v

\* A branch comes back with its operands swapped.
LEMMA ILineReturns ==
  ASSUME NEW l, NEW op \in INames, NEW a, NEW b, NEW c, l = Line(op, a, b, c),
         op # "lui",
         a = Reg(a.val), b = Reg(b.val), c = Lit(c.val),
         a.val \in Five, b.val \in Five, c.val \in Half
  PROVE  DisInstr(AssembleText(l)) =
           IF op \in {"beq", "bne"} THEN Line(op, b, a, c) ELSE l
<1> DEFINE v == AssembleText(l)
<1>1. l.op = op
  BY SMT DEF Line
<1>2. v = IWord(l, b.val, a.val, c.val)
  BY CodesOfI, Assembled
<1> HIDE DEF v
<1>3. v = Fields(OpCode[op], b.val, a.val, c.val)
  BY <1>1, <1>2, FieldsOfI
<1> QED BY <1>3, ListedI DEF v

LEMMA LuiReturns ==
  ASSUME NEW l, NEW a, NEW c, l = Line("lui", a, None, c),
         a = Reg(a.val), c = Lit(c.val), a.val \in Five, c.val \in Half
  PROVE  DisInstr(AssembleText(l)) = Line("lui", a, Reg(0), c)
<1> DEFINE v == AssembleText(l)
<1>1. l.op = "lui"
  BY SMT DEF Line
<1>2. v = IWord(l, 0, a.val, c.val)
  BY Assembled
<1>3. "lui" \in INames /\ 0 \in Five
  BY Tables, SMT DEF INames, JOps, Five
<1> HIDE DEF v
<1>4. v = Fields(OpCode["lui"], 0, a.val, c.val)
  BY <1>1, <1>2, <1>3, FieldsOfI
<1> QED BY <1>3, <1>4, ListedI DEF v

LEMMA TargetIs == \A x \in 0..MaxTarget : x \in Int /\ 0 <= x /\ x < 268435456
<1>1. MaxTarget \in Int /\ \A x \in Int : x <= MaxTarget <=> x < 268435456
  BY SMT DEF MaxTarget
<1> QED BY <1>1, SMT

\* The bit that is cleared in rs is bit 26 of the target.
LEMMA ClearedBit ==
  ASSUME NEW r \in Five, NEW m \in Int, 0 <= m, m < 8388608
  PROVE  WithoutBit26(8388608 * r + m) = 8388608 * Cleared(r) + m
<1>1. r \in Int /\ 0 <= r /\ r < 32
  BY DEF Five
<1>2. PICK h : h = r \div 8
  OBVIOUS
<1>3. h \in Int /\ 8 * h <= r /\ r < 8 * h + 8
  BY <1>1, <1>2, SMT
<1>4. PICK n : n = 8388608 * r + m
  OBVIOUS
<1>5. n \in Int /\ 67108864 * h <= n /\ n < 67108864 * h + 67108864
  BY <1>1, <1>3, <1>4, SMT
<1>6. n \div 67108864 = h
  BY <1>3, <1>5, SMT
<1>7. PICK k : k = h % 2
  OBVIOUS
<1>8. k \in Int
  BY <1>3, <1>7, SMT
<1>9. WithoutBit26(n) = n - 67108864 * k /\ Cleared(r) = r - 8 * k
  BY <1>2, <1>6, <1>7 DEF WithoutBit26, Cleared
<1> QED BY <1>1, <1>4, <1>8, <1>9, SMT

LEMMA JLineReturns ==
  ASSUME NEW l, NEW op \in JOps, NEW a, l = Line(op, a, None, None),
         a = Lit(a.val), a.val \in 0..MaxTarget, a.val % 4 = 0
  PROVE  DisInstr(AssembleText(l)) =
           Line(op, Lit(WithoutBit26(a.val)), None, None)
<1> DEFINE v == AssembleText(l)
           code == OpCode[op]
           n == a.val
           q == n \div 4
           r == q \div 2097152
           t == (q \div 65536) % 32
           i == q % 65536
<1>1. l.op = op
  BY SMT DEF Line
<1>2. /\ code \in {2, 3} /\ CodeOf(OpCode, op) = code
      /\ op = IF code = 2 THEN "j" ELSE "jal"
  BY Tables, SMT DEF CodeOf, OpCode, JOps
<1>3. n \in 0..MaxTarget /\ n % 4 = 0
  OBVIOUS
<1>4. v = JWord(l, n)
  BY Assembled
<1> HIDE DEF v, code, n
<1>5. q \in Int /\ 0 <= q /\ q < 67108864 /\ 4 * q = n
  <2>1. n \in Int /\ 0 <= n /\ n < 268435456
    BY <1>3, TargetIs
  <2> QED BY <1>3, <2>1, SMT
<1> HIDE DEF q
<1>6. /\ r \in Int /\ 0 <= r /\ r < 32 /\ t \in Int /\ 0 <= t /\ t < 32
      /\ i \in Int /\ 0 <= i /\ i < 65536
      /\ r * 2097152 + t * 65536 + i = q
  BY <1>5, SMT
<1> HIDE DEF r, t, i
<1>7. r \in Five /\ t \in Five /\ i \in Half
  BY <1>6, HalfIs, SMT DEF Five
<1>8. v = Fields(code, r, t, i)
  BY <1>1, <1>2, <1>4, <1>5, <1>6, <1>7, FieldsOfJ, SMT
<1>9. DisInstr(v) = Line(op, Lit(4 * (Cleared(r) * 2097152 + t * 65536 + i)),
                         None, None)
  BY <1>2, <1>8, ListedJ, SMT
<1>10. 4 * (Cleared(r) * 2097152 + t * 65536 + i) = WithoutBit26(n)
  <2>1. PICK m : m = 4 * (t * 65536 + i)
    OBVIOUS
  <2>2. m \in Int /\ 0 <= m /\ m < 8388608 /\ n = 8388608 * r + m
    BY <1>5, <1>6, <2>1, SMT
  <2>3. WithoutBit26(n) = 8388608 * Cleared(r) + m
    BY <1>7, <2>2, ClearedBit
  <2>4. Cleared(r) \in Int
    BY <1>7, ClearedOnce, SMT DEF Five
  <2> QED BY <1>6, <2>1, <2>3, <2>4, SMT
<1> QED BY <1>9, <1>10 DEF v, n

LEMMA EveryLineReturns ==
  ASSUME NEW l \in [op : Mnemonics, args : Args], Fits(l), AssembleText(l) # Noop
  PROVE  DisInstr(AssembleText(l)) = Returned(l)
<1> DEFINE op == l.op
           a == l.args[1]
           b == l.args[2]
           c == l.args[3]
<1>1. l = Line(op, a, b, c) /\ IsArg(a) /\ IsArg(b) /\ IsArg(c)
  BY LineIs
<1>2. \A arg \in {a, b, c} :
        /\ IsReg(arg) => arg = Reg(arg.val) /\ arg.val \in Five
        /\ \A top : IsLit(arg, top) => arg = Lit(arg.val) /\ arg.val \in 0..top
  BY <1>1, ArgIs
<1>3. 0..31 = Five /\ 0..MaxHalf = Half
  BY DEF Five, Half
<1>4. \/ /\ op \in ThreeRegOps \ {"xor", "jr"}
         /\ IsReg(a) /\ IsReg(b) /\ IsReg(c)
      \/ op \in ShiftOps /\ IsReg(a) /\ IsReg(b) /\ IsLit(c, 31)
      \/ op \in RsRtOps /\ IsReg(a) /\ IsReg(b) /\ c = None
      \/ op \in RdOps \cup RsOps \cup {"jr"} /\ IsReg(a) /\ b = None /\ c = None
      \/ op \in IOps /\ IsReg(a) /\ IsReg(b) /\ IsLit(c, MaxHalf)
      \/ op = "lui" /\ IsReg(a) /\ b = None /\ IsLit(c, MaxHalf)
      \/ /\ op \in JOps /\ IsLit(a, MaxTarget) /\ a.val % 4 = 0
         /\ b = None /\ c = None
  BY DEF Fits
<1>5. /\ op \in {"beq", "bne"} => Returned(l) = Line(op, b, a, c)
      /\ op = "jr" => Returned(l) = Line(op, a, Reg(0), Reg(0))
      /\ op = "lui" => Returned(l) = Line(op, a, Reg(0), c)
      /\ op = "srl" => Returned(l) = Line("sll", a, b, c)
      /\ op \in JOps => Returned(l) = Line(op, Lit(WithoutBit26(a.val)), b, c)
      /\ op \notin {"beq", "bne", "jr", "lui", "srl"} \cup JOps => Returned(l) = l
  BY SMT DEF Returned, JOps
<1> HIDE DEF op, a, b, c
<1>6. CASE op \in (ThreeRegOps \ {"xor", "jr"}) \cup {"sll"} \cup RsRtOps
                    \cup RdOps \cup RsOps
  <2>1. op \in Kept /\ op \notin IOps \cup JOps \cup {"lui", "jr", "srl"}
        /\ op \notin {"beq", "bne"} /\ (op \in ShiftOps => op = "sll")
    BY <1>6, Tables, SMT DEF Kept, ThreeRegOps, RsRtOps, RdOps, RsOps, IOps, JOps,
                             ShiftOps
  <2>2. DisInstr(AssembleText(l)) = l
    BY <1>1, <1>2, <1>3, <1>4, <2>1, RLineReturns
  <2> QED BY <1>5, <2>1, <2>2
<1>7. CASE op = "jr"
  <2>1. op \notin (ThreeRegOps \ {"xor", "jr"}) \cup ShiftOps \cup RsRtOps \cup IOps
                    \cup JOps \cup {"lui"}
    BY <1>7, SMT DEF ThreeRegOps, ShiftOps, RsRtOps, IOps, JOps
  <2> QED BY <1>1, <1>2, <1>4, <1>5, <1>7, <2>1, JrReturns
<1>8. CASE op = "srl"
  <2>1. op \notin ThreeRegOps \cup RsRtOps \cup RdOps \cup RsOps \cup IOps
                    \cup JOps \cup {"lui", "jr"}
    BY <1>8, SMT DEF ThreeRegOps, RsRtOps, RdOps, RsOps, IOps, JOps
  <2>2. IsReg(a) /\ IsReg(b) /\ IsLit(c, 31)
    BY <1>4, <1>8, <2>1
  <2>3. /\ a = Reg(a.val) /\ b = Reg(b.val) /\ c = Lit(c.val)
        /\ a.val \in Five /\ b.val \in Five /\ c.val \in Five
    BY <1>2, <1>3, <2>2
  <2>4. l = Line("srl", a, b, c)
    BY <1>1, <1>8
  <2>5. DisInstr(AssembleText(l)) = Line("sll", a, b, c)
    BY <2>3, <2>4, SrlReturns
  <2> QED BY <1>5, <1>8, <2>5
<1>9. CASE op \in IOps
  <2>1. op \in INames /\ op # "lui"
    BY <1>9, Tables, SMT DEF INames, IOps, JOps
  <2>2. op \notin ThreeRegOps \cup ShiftOps \cup RsRtOps \cup RdOps \cup RsOps
                    \cup JOps \cup {"jr", "srl", "lui"}
    BY <1>9, SMT DEF ThreeRegOps, ShiftOps, RsRtOps, RdOps, RsOps, IOps, JOps
  <2>3. DisInstr(AssembleText(l)) =
          IF op \in {"beq", "bne"} THEN Line(op, b, a, c) ELSE l
    <3>1. IsReg(a) /\ IsReg(b) /\ IsLit(c, MaxHalf)
      BY <1>4, <2>1, <2>2
    <3>2. /\ a = Reg(a.val) /\ b = Reg(b.val) /\ c = Lit(c.val)
          /\ a.val \in Five /\ b.val \in Five /\ c.val \in Half
      BY <1>2, <1>3, <3>1
    <3> QED BY <1>1, <2>1, <3>2, ILineReturns
  <2> QED BY <1>5, <2>2, <2>3
<1>10. CASE op = "lui"
  <2>1. op \notin ThreeRegOps \cup ShiftOps \cup RsRtOps \cup RdOps \cup RsOps
                    \cup JOps \cup IOps \cup {"jr"}
    BY <1>10, SMT DEF ThreeRegOps, ShiftOps, RsRtOps, RdOps, RsOps, IOps, JOps
  <2>2. IsReg(a) /\ b = None /\ IsLit(c, MaxHalf)
    BY <1>4, <2>1
  <2>3. a = Reg(a.val) /\ c = Lit(c.val) /\ a.val \in Five /\ c.val \in Half
    BY <1>2, <1>3, <2>2
  <2>4. l = Line("lui", a, None, c)
    BY <1>1, <1>10, <2>2
  <2>5. DisInstr(AssembleText(l)) = Line("lui", a, Reg(0), c)
    BY <2>3, <2>4, LuiReturns
  <2> QED BY <1>5, <1>10, <2>5
<1>11. CASE op \in JOps
  <2>1. op \notin ThreeRegOps \cup ShiftOps \cup RsRtOps \cup RdOps \cup RsOps
                    \cup IOps \cup {"jr", "lui"}
    BY <1>11, SMT DEF ThreeRegOps, ShiftOps, RsRtOps, RdOps, RsOps, IOps, JOps
  <2> QED BY <1>1, <1>2, <1>4, <1>5, <1>11, <2>1, JLineReturns
<1> QED BY <1>4, <1>6, <1>7, <1>8, <1>9, <1>10, <1>11 DEF ShiftOps

(* LinesComeBack, for every line whose operands fit their fields: what     *)
(* comes back is the line itself, or Returned(line) where the two tools    *)
(* differ.                                                                 *)
THEOREM LinesReturn == Spec => []LinesComeBack
<1>1. RoundTripTypeOK => LinesComeBack
  BY EveryLineReturns DEF RoundTripTypeOK, LinesComeBack
<1> QED BY <1>1, TypeCorrect, PTL
=============================================================================
