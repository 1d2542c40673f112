---------------------------- MODULE ProgramProofs ----------------------------
(***************************************************************************)
(* Proofs about programs and their files, for all sources, however often   *)
(* and in whatever order they are assembled, saved, loaded and listed.     *)
(***************************************************************************)
EXTENDS Program, TLAPS
-----------------------------------------------------------------------------
(***************************************************************************)
(* What assembleText and dis_instr return, for every line and every word.  *)
(***************************************************************************)
\* A half word, without the constant MaxHalf.
LEMMA HalfIs == \A x : x \in Half <=> x \in Int /\ 0 <= x /\ x < 65536
<1>1. MaxHalf \in Int /\ \A x \in Int : x <= MaxHalf <=> x < 65536
  BY SMT DEF MaxHalf
<1> QED BY <1>1, SMT DEF Half

\* The codes of the two tables have six bits.
LEMMA CodeTypes ==
  ASSUME NEW o PROVE CodeOf(FuncCode, o) \in 0..63 /\ CodeOf(OpCode, o) \in 0..63
<1>1. CodeOf(FuncCode, o) \in 0..63
  BY DEF CodeOf, FuncCode
<1>2. CodeOf(OpCode, o) \in 0..63
  BY DEF CodeOf, OpCode
<1> QED BY <1>1, <1>2

\* What the three formats put together fits the fields of a word.
LEMMA RWordType ==
  ASSUME NEW l, NEW rs \in Int, NEW rt \in Int, NEW rd \in Int, NEW shamt \in Int
  PROVE  RWord(l, rs, rt, rd, shamt) \in Word
<1>1. CodeOf(FuncCode, l.op) \in 0..63
  BY CodeTypes
<1>2. /\ rs % 32 \in 0..31 /\ rt % 32 \in 0..31 /\ rd % 32 \in 0..31
      /\ shamt % 32 \in 0..31
  BY SMT
<1>3. (rd % 32) * 2048 + (shamt % 32) * 64 + CodeOf(FuncCode, l.op) \in Half
  BY <1>1, <1>2, HalfIs, SMT
<1> QED BY <1>2, <1>3, SMT DEF RWord, Word

LEMMA IWordType ==
  ASSUME NEW l, NEW rs \in Int, NEW rt \in Int, NEW imm \in Int
  PROVE  IWord(l, rs, rt, imm) \in Word
<1>1. rs % 32 \in 0..31 /\ rt % 32 \in 0..31
  BY SMT
<1>2. imm % 65536 \in Half
  BY HalfIs, SMT
<1> QED BY <1>1, <1>2, CodeTypes, SMT DEF IWord, Word

LEMMA JWordType ==
  ASSUME NEW l, NEW target \in Int PROVE JWord(l, target) \in Word
<1> DEFINE t == (target % 268435456) \div 4
<1>1. t \in Int /\ t >= 0 /\ t < 67108864
  BY SMT
<1> HIDE DEF t
<1>2. t \div 2097152 \in 0..31 /\ (t \div 65536) % 32 \in 0..31
  BY <1>1, SMT
<1>3. t % 65536 \in Half
  BY <1>1, HalfIs, SMT
<1>4. JWord(l, target) = [op |-> CodeOf(OpCode, l.op), rs |-> t \div 2097152,
                          rt |-> (t \div 65536) % 32, low |-> t % 65536]
  BY SMT DEF JWord, t
<1> QED BY <1>2, <1>3, <1>4, CodeTypes, SMT DEF Word

\* Every line is assembled to a word.
LEMMA AssembleTextType ==
  ASSUME NEW l, l.args \in Args PROVE AssembleText(l) \in Word
<1> DEFINE a == l.args[1].val
           b == l.args[2].val
           c == l.args[3].val
<1>1. a \in Int /\ b \in Int /\ c \in Int /\ 0 \in Int
  BY DEF Args
<1>2. Noop \in Word
  BY HalfIs, SMT DEF Noop, Word
<1> HIDE DEF a, b, c
<1>3. /\ RWord(l, b, c, a, 0) \in Word /\ RWord(l, 0, b, a, c) \in Word
      /\ RWord(l, a, b, 0, 0) \in Word /\ RWord(l, 0, 0, a, 0) \in Word
      /\ RWord(l, a, 0, 0, 0) \in Word /\ IWord(l, b, a, c) \in Word
      /\ IWord(l, 0, a, c) \in Word /\ JWord(l, a) \in Word
  BY <1>1, RWordType, IWordType, JWordType
<1> QED BY <1>2, <1>3, Zenon DEF AssembleText, a, b, c
-----------------------------------------------------------------------------
\* The tables, entry by entry.
LEMMA Tables ==
  /\ DOMAIN FuncCode = {"add", "addu", "and", "jr", "jalr", "mult", "multu", "or",
                        "sll", "slt", "sltu", "sub", "subu", "div", "divu",
                        "mfhi", "mthi", "mflo", "mtlo", "xor"}
  /\ DOMAIN OpCode = {"addi", "addiu", "beq", "bne", "lw", "lui", "ori", "sw",
                      "andi", "xori", "j", "jal"}
  BY SMT DEF FuncCode, OpCode

\* A function code is given the name that has it.
LEMMA FuncNamesAre ==
  /\ 39 \notin DOMAIN FuncNames /\ 2 \notin DOMAIN FuncNames
  /\ \A f \in DOMAIN FuncNames : /\ FuncNames[f] \in DOMAIN FuncCode
                                 /\ FuncCode[FuncNames[f]] = f
<1>1. 39 \notin DOMAIN FuncNames /\ 2 \notin DOMAIN FuncNames
  BY SMT DEF FuncNames, FuncCode
<1>2. SUFFICES ASSUME NEW f \in DOMAIN FuncNames
               PROVE  /\ FuncNames[f] \in DOMAIN FuncCode
                      /\ FuncCode[FuncNames[f]] = f
  BY <1>1
<1>3. \E o \in DOMAIN FuncCode : FuncCode[o] = f
  BY DEF FuncNames
<1>4. FuncNames[f] = CHOOSE o \in DOMAIN FuncCode : FuncCode[o] = f
  BY DEF FuncNames
<1> QED BY <1>3, <1>4, Zenon

\* Every function code is given a name, "null" if it has none.
LEMMA DisROpType == ASSUME NEW f PROVE DisROp(f) \in Mnemonics
<1>1. /\ {"nor", "srl", "null"} \subseteq Mnemonics
      /\ \A g \in DOMAIN FuncNames : FuncNames[g] \in Mnemonics
  BY FuncNamesAre DEF Mnemonics
<1>2. CASE f = 39
  BY <1>1, <1>2, FuncNamesAre, SMT DEF DisROp
<1>3. CASE f = 2
  BY <1>1, <1>3, FuncNamesAre, SMT DEF DisROp
<1>4. CASE f \in DOMAIN FuncNames
  BY <1>1, <1>4, FuncNamesAre, SMT DEF DisROp
<1>5. CASE f \notin DOMAIN FuncNames \cup {39, 2}
  BY <1>1, <1>5, SMT DEF DisROp
<1> QED BY <1>2, <1>3, <1>4, <1>5

\* Every operation code is given a name.
LEMMA DisIOpType == ASSUME NEW code PROVE DisIOp(code) \in Mnemonics
<1> DEFINE known == \E o \in DOMAIN OpCode \ JOps : OpCode[o] = code
           name == CHOOSE o \in DOMAIN OpCode \ JOps : OpCode[o] = code
<1>1. known => name \in DOMAIN OpCode
  BY Zenon
<1>2. DisIOp(code) = CASE code = 10 -> "slti" [] code = 11 -> "sltiu"
                       [] known -> name [] OTHER -> "null"
  BY Zenon DEF DisIOp
<1>3. {"slti", "sltiu", "null"} \cup DOMAIN OpCode \subseteq Mnemonics
  BY DEF Mnemonics
<1> HIDE DEF known, name
<1> QED BY <1>1, <1>2, <1>3
-----------------------------------------------------------------------------
IsArg(a) == a \in [type : {"REGISTER", "LITERAL", "NONE"}, val : Int]

\* What stands in the arguments of a disassembled line.
LEMMA ArgTypes ==
  /\ \A n \in Int : IsArg(Reg(n)) /\ IsArg(Lit(n))
  /\ IsArg(None)
  BY SMT DEF Reg, Lit, None, Arg, IsArg

IsLine(l) == l \in [op : Mnemonics, args : Args]

\* A name and three arguments make a line.
LEMMA LineType ==
  ASSUME NEW op \in Mnemonics, NEW a, NEW b, NEW c, IsArg(a), IsArg(b), IsArg(c)
  PROVE  IsLine(Line(op, a, b, c))
  BY SMT DEF IsLine, Line, Args, IsArg

\* Every word is disassembled to a line.
LEMMA DisInstrType == ASSUME NEW w \in Word PROVE IsLine(DisInstr(w))
<1>1. /\ w.rs \in 0..31 /\ w.rt \in 0..31 /\ w.low \in Int
      /\ Rd(w) \in Int /\ Shamt(w) \in Int
  BY HalfIs, SMT DEF Word, Rd, Shamt
<1>2. IsLine(DisR(w))
  <2> DEFINE op == DisROp(Func(w))
  <2>1. op \in Mnemonics
    BY DisROpType
  <2>2. /\ IsLine(Line(op, Reg(Rd(w)), Reg(w.rt), Lit(Shamt(w))))
        /\ IsLine(Line(op, Reg(w.rs), Reg(w.rt), None))
        /\ IsLine(Line(op, Reg(Rd(w)), None, None))
        /\ IsLine(Line(op, Reg(w.rs), None, None))
        /\ IsLine(Line(op, Reg(Rd(w)), Reg(w.rs), Reg(w.rt)))
    BY <1>1, <2>1, ArgTypes, LineType
  <2> HIDE DEF op
  <2>3. DisR(w) = CASE op \in ShiftOps ->
                         Line(op, Reg(Rd(w)), Reg(w.rt), Lit(Shamt(w)))
                    [] op \in RsRtOps  -> Line(op, Reg(w.rs), Reg(w.rt), None)
                    [] op \in RdOps    -> Line(op, Reg(Rd(w)), None, None)
                    [] op \in RsOps    -> Line(op, Reg(w.rs), None, None)
                    [] OTHER           -> Line(op, Reg(Rd(w)), Reg(w.rs), Reg(w.rt))
    BY Zenon DEF DisR, op
  <2> QED BY <2>2, <2>3, SMT DEF ShiftOps, RsRtOps, RdOps, RsOps
<1>3. IsLine(DisI(w))
  <2>1. DisIOp(w.op) \in Mnemonics
    BY DisIOpType
  <2>2. /\ IsLine(Line(DisIOp(w.op), Reg(w.rs), Reg(w.rt), Lit(w.low)))
        /\ IsLine(Line(DisIOp(w.op), Reg(w.rt), Reg(w.rs), Lit(w.low)))
    BY <1>1, <2>1, ArgTypes, LineType
  <2> QED BY <2>2 DEF DisI
<1>4. IsLine(DisJ(w))
  <2> DEFINE rs == w.rs - 8 * ((w.rs \div 8) % 2)
             target == 4 * (rs * 2097152 + w.rt * 65536 + w.low)
  <2>1. rs \in Int
    BY <1>1, SMT
  <2>2. target \in Int
    BY <1>1, <2>1, SMT
  <2>3. {"j", "jal"} \subseteq Mnemonics
    BY Tables DEF Mnemonics
  <2> HIDE DEF target
  <2>4. IsLine(Line(IF w.op = 2 THEN "j" ELSE "jal", Lit(target), None, None))
    BY <2>2, <2>3, ArgTypes, LineType
  <2> QED BY <2>4 DEF DisJ, target
<1>5. IsLine(BlankLine)
  <2>1. "null" \in Mnemonics
    BY DEF Mnemonics
  <2> QED BY <2>1, ArgTypes, LineType, Zenon DEF BlankLine
<1>6. CASE w = Noop
  BY <1>5, <1>6, SMT DEF DisInstr
<1>7. CASE w # Noop
  BY <1>2, <1>3, <1>4, <1>7, SMT DEF DisInstr
<1> QED BY <1>6, <1>7
-----------------------------------------------------------------------------
\* A function on 1..n is a sequence of its values.
LEMMA IsSequence ==
  ASSUME NEW S, NEW n \in Nat, NEW f, f = [i \in 1..n |-> f[i]],
         \A i \in 1..n : f[i] \in S
  PROVE  f \in Seq(S) /\ Len(f) = n
  OBVIOUS

(* What the file holds is what save() was given: the count, the words and, *)
(* if there are any, the first address.  Without this a load could index a *)
(* word that is not there.                                                 *)
FileInv ==
  /\ file.count = Len(origin.instructions)
  /\ file.words = Words(origin)
  /\ origin.instructions # << >> => file.adr = origin.instructions[1].adr
  /\ file.have <= 8 + 4 * file.count

ProgramInv == ProgramTypeOK /\ FileInv
-----------------------------------------------------------------------------
LEMMA WordsType ==
  ASSUME NEW p \in ProgramType
  PROVE  /\ Words(p) \in Seq(Word) /\ Len(Words(p)) = Len(p.instructions)
         /\ \A i \in 1..Len(p.instructions) :
              Words(p)[i] = p.instructions[i].ins
<1>1. p.instructions \in Seq(Instr)
  BY DEF ProgramType
<1>2. ASSUME NEW i \in 1..Len(p.instructions)
      PROVE  p.instructions[i].ins \in Word
  <2>1. p.instructions[i] \in Instr
    BY <1>1
  <2> QED BY <2>1 DEF Instr
<1>3. Words(p) = [i \in 1..Len(p.instructions) |-> p.instructions[i].ins]
  BY <1>1 DEF Words
<1> QED BY <1>1, <1>2, <1>3

LEMMA TranslatedType ==
  ASSUME NEW s \in SourceInfo PROVE Translated(s) \in ProgramType
<1> DEFINE ins == Translated(s).instructions
           seg == Translated(s).data_segments
<1>1. s.text \in Seq(TextRecord) /\ s.data \in Seq(DataRecord)
  BY DEF SourceInfo
<1>2. ins \in Seq(Instr)
  <2> DEFINE Rec(i) == [adr |-> s.text[i].addr,
                        ins |-> AssembleText([op |-> s.text[i].op,
                                              args |-> s.text[i].args])]
  <2>1. ASSUME NEW i \in 1..Len(s.text) PROVE Rec(i) \in Instr
    <3> DEFINE l == [op |-> s.text[i].op, args |-> s.text[i].args]
    <3>1. s.text[i] \in TextRecord
      BY <1>1
    <3>2. l.args \in Args /\ s.text[i].addr \in Nat
      BY <3>1 DEF TextRecord
    <3>3. AssembleText(l) \in Word
      BY <3>2, AssembleTextType
    <3> QED BY <3>2, <3>3 DEF Instr
  <2>2. ins = [i \in 1..Len(s.text) |-> Rec(i)]
    BY <1>1 DEF Translated
  <2> HIDE DEF Rec, ins
  <2> QED BY <1>1, <2>1, <2>2
<1>3. seg \in Seq(DataSeg)
  <2>1. ASSUME NEW d \in DataRecord PROVE AssembleData(d) \in DataSeg
    <3>1. d.addr \in Nat /\ d.items \in Nat /\ d.space \in Nat
      BY DEF DataRecord
    <3>2. CASE d.directive \in {".asciiz", ".byte", ".word"}
      BY <3>1, <3>2, SMT DEF AssembleData, DataSeg
    <3>3. CASE d.directive = ".space"
      BY <3>1, <3>3, SMT DEF AssembleData, DataSeg
    <3>4. CASE d.directive \notin {".asciiz", ".byte", ".word", ".space"}
      BY <3>1, <3>4, SMT DEF AssembleData, DataSeg
    <3> QED BY <3>2, <3>3, <3>4
  <2>2. \A i \in 1..Len(s.data) : AssembleData(s.data[i]) \in DataSeg
    BY <1>1, <2>1
  <2> QED BY <1>1, <2>2 DEF Translated
<1> QED BY <1>2, <1>3 DEF Translated, ProgramType

(***************************************************************************)
(* A word and its bytes.                                                   *)
(***************************************************************************)
Byte == 0..255

\* Two numbers side by side, and each of them again.
LEMMA SideBySide ==
  ASSUME NEW a \in Int, NEW b \in Int
  PROVE  /\ a \in 0..255 /\ b \in 0..255 =>
              (b * 256 + a) % 256 = a /\ (b * 256 + a) \div 256 = b
         /\ a \in 0..7 /\ b \in 0..3 =>
              (b * 8 + a) % 8 = a /\ (b * 8 + a) \div 8 = b
  BY SMT

LEMMA BytesType ==
  ASSUME NEW w \in Word PROVE \A j \in 1..4 : Bytes(w)[j] \in Byte
<1>1. w.op \in 0..63 /\ w.rs \in 0..31 /\ w.rt \in 0..31 /\ w.low \in Half
  BY DEF Word
<1>2. w.low \in Int /\ 0 <= w.low /\ w.low < 65536
  BY <1>1, HalfIs
<1>3. w.low % 256 \in Byte /\ w.low \div 256 \in Byte
  BY <1>2, SMT DEF Byte
<1>4. (w.rs % 8) * 32 + w.rt \in Byte
  BY <1>1, SMT DEF Byte
<1>5. w.op * 4 + w.rs \div 8 \in Byte
  BY <1>1, SMT DEF Byte
<1> QED BY <1>3, <1>4, <1>5, SMT DEF Bytes

\* A byte in two parts, and put together again.
LEMMA Parts ==
  ASSUME NEW a \in 0..255
  PROVE  /\ a \div 4 \in 0..63 /\ a % 4 \in 0..3 /\ (a \div 4) * 4 + (a % 4) = a
         /\ a \div 32 \in 0..7 /\ a % 32 \in 0..31
         /\ (a \div 32) * 32 + (a % 32) = a
<1>1. a \in Int /\ 0 <= a /\ a <= 255
  OBVIOUS
<1>2. a \div 4 \in 0..63 /\ a % 4 \in 0..3 /\ (a \div 4) * 4 + (a % 4) = a
  BY <1>1, SMT
<1>3. /\ a \div 32 \in 0..7 /\ a % 32 \in 0..31
      /\ (a \div 32) * 32 + (a % 32) = a
  BY <1>1, SMT
<1> QED BY <1>2, <1>3

\* Four bytes make a word that has these bytes.
Joined(b1, b2, b3, b4) ==
  [op |-> b4 \div 4, rs |-> (b4 % 4) * 8 + b3 \div 32, rt |-> b3 % 32,
   low |-> b2 * 256 + b1]
Are(w, b1, b2, b3, b4) ==
  Bytes(w)[1] = b1 /\ Bytes(w)[2] = b2 /\ Bytes(w)[3] = b3 /\ Bytes(w)[4] = b4

LEMMA FourBytes ==
  ASSUME NEW b1 \in 0..255, NEW b2 \in 0..255, NEW b3 \in 0..255,
         NEW b4 \in 0..255
  PROVE  /\ Joined(b1, b2, b3, b4) \in Word
         /\ Are(Joined(b1, b2, b3, b4), b1, b2, b3, b4)
<1> DEFINE w == Joined(b1, b2, b3, b4)
<1>0. w = [op |-> b4 \div 4, rs |-> (b4 % 4) * 8 + b3 \div 32,
           rt |-> b3 % 32, low |-> b2 * 256 + b1]
  BY DEF Joined
<1> HIDE DEF w
<1>1. (b4 % 4) * 8 + b3 \div 32 \in 0..31
  <2>1. \A x \in 0..3, y \in 0..7 : x * 8 + y \in 0..31
    BY SMT
  <2> QED BY <2>1, Parts
<1>2. b2 * 256 + b1 \in Half
  BY HalfIs, SMT
<1>3. w \in Word
  BY <1>0, <1>1, <1>2, Parts DEF Word
<1>4. w.low % 256 = b1 /\ w.low \div 256 = b2
  BY <1>0, SideBySide
<1>5. w.rs % 8 = b3 \div 32 /\ w.rs \div 8 = b4 % 4
  <2>1. b3 \div 32 \in 0..7 /\ b4 % 4 \in 0..3 /\ 0..7 \subseteq Int /\ 0..3 \subseteq Int
    BY Parts
  <2> QED BY <1>0, <2>1, SideBySide
<1>6. (w.rs % 8) * 32 + w.rt = b3 /\ w.op * 4 + w.rs \div 8 = b4
  <2>1. w.rt = b3 % 32 /\ w.op = b4 \div 4
    BY <1>0
  <2> QED BY <1>5, <2>1, Parts
<1> QED BY <1>3, <1>4, <1>6 DEF Are, Bytes, w

LEMMA WordOfBytes ==
  ASSUME NEW b, \A j \in 1..4 : b[j] \in Byte
  PROVE  WordOf(b) \in Word /\ \A j \in 1..4 : Bytes(WordOf(b))[j] = b[j]
<1>1. b[1] \in 0..255 /\ b[2] \in 0..255 /\ b[3] \in 0..255 /\ b[4] \in 0..255
  <2>1. 1 \in 1..4 /\ 2 \in 1..4 /\ 3 \in 1..4 /\ 4 \in 1..4
    OBVIOUS
  <2> QED BY <2>1, Zenon DEF Byte
<1>2. WordOf(b) = Joined(b[1], b[2], b[3], b[4])
  BY Zenon DEF WordOf, Joined
<1> DEFINE w == Joined(b[1], b[2], b[3], b[4])
<1>3. w \in Word /\ Are(w, b[1], b[2], b[3], b[4])
  BY <1>1, FourBytes
<1> HIDE DEF w
<1>4. \A j \in 1..4 : Bytes(w)[j] = b[j]
  BY <1>3 DEF Are
<1> QED BY <1>2, <1>3, <1>4 DEF w

LEMMA OverwrittenIs ==
  ASSUME NEW old \in Word, NEW new \in Word, NEW r \in Nat
  PROVE  /\ Overwritten(old, new, r) \in Word
         /\ \A j \in 1..4 : Bytes(Overwritten(old, new, r))[j] =
                             IF j <= r THEN Bytes(new)[j] ELSE Bytes(old)[j]
<1> DEFINE b == [j \in 1..4 |-> IF j <= r THEN Bytes(new)[j] ELSE Bytes(old)[j]]
<1>1. \A j \in 1..4 : b[j] \in Byte
  BY BytesType
<1>2. Overwritten(old, new, r) = WordOf(b)
  BY DEF Overwritten
<1> HIDE DEF b
<1>3. /\ WordOf(b) \in Word
      /\ \A j \in 1..4 : Bytes(WordOf(b))[j] = b[j]
  BY <1>1, WordOfBytes
<1> QED BY <1>2, <1>3 DEF b

LEMMA NumberReadIs ==
  ASSUME NEW old \in Nat, NEW new \in Nat, NEW r \in Int
  PROVE  NumberRead(old, new, r) \in Nat /\ (r >= 4 => NumberRead(old, new, r) = new)
<1> DEFINE low == IF r \in 1..3 THEN <<256, 65536, 16777216>>[r] ELSE 1
<1>1. low \in {1, 256, 65536, 16777216}
  BY SMT
<1>2. NumberRead(old, new, r) = IF r >= 4 THEN new
                                ELSE (old \div low) * low + (new % low)
  BY DEF NumberRead
<1> HIDE DEF low
<1>3. (old \div low) * low + (new % low) \in Nat
  <2>1. CASE low = 1
    BY <2>1, SMT
  <2>2. CASE low = 256
    BY <2>2, SMT
  <2>3. CASE low = 65536
    BY <2>3, SMT
  <2>4. CASE low = 16777216
    BY <2>4, SMT
  <2> QED BY <1>1, <2>1, <2>2, <2>3, <2>4
<1> QED BY <1>2, <1>3
-----------------------------------------------------------------------------
\* What CutFilesRepeat says of the words read.
Before(k) == IF k = 0 THEN Noop ELSE origin.instructions[k].ins

\* The i-th word read, in the words of what the file was saved from.
LEMMA WordReadIs ==
  ASSUME ProgramInv, NEW i \in Nat \ {0}
  PROVE  /\ WordRead(i) \in Word
         /\ i <= Whole => WordRead(i) = origin.instructions[i].ins
         /\ i > Whole => \A j \in 1..4 :
              Bytes(WordRead(i))[j] =
                Bytes(IF j <= Rest THEN origin.instructions[Whole + 1].ins
                      ELSE Before(Whole))[j]
<1> DEFINE n == Len(origin.instructions)
<1>1. /\ file.have \in Nat /\ n \in Nat /\ file.have <= 8 + 4 * n
      /\ file.words = Words(origin) /\ origin \in ProgramType
  BY DEF ProgramInv, ProgramTypeOK, FileInv
<1>2. \A j \in 1..n : /\ file.words[j] = origin.instructions[j].ins
                      /\ file.words[j] \in Word
  BY <1>1, WordsType
<1> HIDE DEF n
<1>3. /\ Whole \in 0..n /\ Rest \in 0..3 /\ (Rest > 0 => Whole + 1 \in 1..n)
  BY <1>1, SMT DEF Whole, Rest
<1> DEFINE last == IF Whole = 0 THEN Noop ELSE file.words[Whole]
<1>4. last = Before(Whole) /\ last \in Word
  <2>1. Noop \in Word
    BY HalfIs, SMT DEF Noop, Word
  <2>2. Whole # 0 => Whole \in 1..n
    BY <1>1, <1>3
  <2> QED BY <1>2, <2>1, <2>2 DEF Before
<1>5. WordRead(i) = CASE i <= Whole -> file.words[i]
                      [] i > Whole /\ Rest = 0 -> last
                      [] OTHER -> Overwritten(last, file.words[Whole + 1], Rest)
  BY DEF WordRead
<1> HIDE DEF last
<1>6. CASE i <= Whole
  <2>1. WordRead(i) = file.words[i] /\ i \in 1..n /\ ~(i > Whole)
    BY <1>1, <1>3, <1>5, <1>6
  <2> QED BY <1>2, <2>1
<1>7. CASE i > Whole /\ Rest = 0
  <2>1. WordRead(i) = last /\ ~(i <= Whole) /\ \A j \in 1..4 : ~(j <= Rest)
    BY <1>3, <1>5, <1>7
  <2> QED BY <1>4, <2>1
<1>8. CASE i > Whole /\ Rest # 0
  <2> DEFINE new == file.words[Whole + 1]
  <2>1. /\ WordRead(i) = Overwritten(last, file.words[Whole + 1], Rest)
        /\ ~(i <= Whole)
    BY <1>3, <1>5, <1>8
  <2>2. Whole + 1 \in 1..n /\ Rest \in Nat
    BY <1>3, <1>8
  <2>3. new \in Word /\ new = origin.instructions[Whole + 1].ins
    BY <1>2, <2>2
  <2> HIDE DEF new
  <2>4. /\ Overwritten(last, new, Rest) \in Word
        /\ \A j \in 1..4 : Bytes(Overwritten(last, new, Rest))[j] =
                            IF j <= Rest THEN Bytes(new)[j] ELSE Bytes(last)[j]
    BY <1>4, <2>2, <2>3, OverwrittenIs
  <2> QED BY <1>4, <2>1, <2>3, <2>4 DEF new
<1> QED BY <1>3, <1>6, <1>7, <1>8
-----------------------------------------------------------------------------
LEMMA StartOK == Init => ProgramInv
<1> SUFFICES ASSUME Init PROVE ProgramInv
  OBVIOUS
<1>1. EmptySource \in SourceInfo
  BY DEF EmptySource, SourceInfo
<1>2. EmptyProgram \in ProgramType /\ EmptyProgram.instructions = << >>
  BY DEF EmptyProgram, ProgramType
<1>3. Words(EmptyProgram) = << >>
  BY <1>2, WordsType
<1>4. NoFile \in [have : Nat, count : Nat, adr : Nat, words : Seq(Word)]
  BY DEF NoFile
<1> QED BY <1>1, <1>2, <1>3, <1>4
        DEF Init, ProgramInv, ProgramTypeOK, FileInv, NoFile

LEMMA LoadSourceStep == ASSUME ProgramInv, LoadSource PROVE ProgramInv'
  BY SourcesAssumption DEF LoadSource, ProgramInv, ProgramTypeOK, FileInv

LEMMA AssembleStep == ASSUME ProgramInv, Assemble PROVE ProgramInv'
  BY TranslatedType DEF Assemble, ProgramInv, ProgramTypeOK, FileInv

LEMMA GetProgramStep == ASSUME ProgramInv, GetProgram PROVE ProgramInv'
  BY DEF GetProgram, ProgramInv, ProgramTypeOK, FileInv

LEMMA SaveStep ==
  ASSUME ProgramInv, Save \/ SaveEmpty PROVE ProgramInv'
<1> DEFINE n == Len(prog.instructions)
<1>1. prog \in ProgramType /\ n \in Nat
  BY DEF ProgramInv, ProgramTypeOK, ProgramType
<1>2. Words(prog) \in Seq(Word)
  BY <1>1, WordsType
<1>3. prog.instructions # << >> => prog.instructions[1].adr \in Nat
  <2> SUFFICES ASSUME prog.instructions # << >>
               PROVE  prog.instructions[1].adr \in Nat
    OBVIOUS
  <2>1. prog.instructions[1] \in Instr
    BY <1>1 DEF ProgramType
  <2> QED BY <2>1 DEF Instr
<1>4. PICK k \in Nat, a \in Nat :
        /\ file' = [have |-> k, count |-> n, adr |-> a, words |-> Words(prog)]
        /\ k <= 8 + 4 * n
        /\ prog.instructions # << >> => a = prog.instructions[1].adr
  <2>1. CASE Save
    <3>1. PICK k \in Left(8 + 4 * n) :
            file' = [have |-> k, count |-> n, adr |-> prog.instructions[1].adr,
                     words |-> Words(prog)]
      BY <2>1 DEF Save
    <3>2. k \in Nat /\ k <= 8 + 4 * n
      BY <1>1, CutsAssumption DEF Left
    <3> QED BY <1>3, <2>1, <3>1, <3>2 DEF Save
  <2>2. CASE SaveEmpty
    <3>1. n = 0 /\ Words(prog) = << >>
      BY <1>1, <2>2, WordsType DEF SaveEmpty
    <3>2. PICK g \in Garbage, k \in Left(8) :
            file' = [have |-> k, count |-> 0, adr |-> g, words |-> << >>]
      BY <2>2 DEF SaveEmpty
    <3>3. g \in Nat /\ k \in Nat /\ k <= 8
      BY GarbageAssumption, CutsAssumption DEF Left
    <3> QED BY <2>2, <3>1, <3>2, <3>3 DEF SaveEmpty
  <2> QED BY <2>1, <2>2
<1>5. /\ origin' = prog
      /\ UNCHANGED <<source, assembled, prog>>
  BY DEF Save, SaveEmpty
<1> QED BY <1>1, <1>2, <1>4, <1>5 DEF ProgramInv, ProgramTypeOK, FileInv

\* What load() puts into the vector.
LEMMA RecordsType ==
  ASSUME NEW n \in Nat, NEW a \in Nat, \A i \in 1..n : WordRead(i) \in Word
  PROVE  /\ Records(n, a) \in Seq(Instr) /\ Len(Records(n, a)) = n
         /\ \A i \in 1..n : /\ Records(n, a)[i].ins = WordRead(i)
                            /\ Records(n, a)[i].adr = a + 4 * (i - 1)
<1> DEFINE Rec(i) == [adr |-> AddressRead(a, i), ins |-> WordRead(i)]
<1>1. ASSUME NEW i \in 1..n
      PROVE  /\ Rec(i) \in Instr /\ Rec(i).ins = WordRead(i)
             /\ Rec(i).adr = a + 4 * (i - 1)
  <2>1. a + 4 * (i - 1) \in Nat
    OBVIOUS
  <2> QED BY <2>1 DEF AddressRead, Instr
<1>2. Records(n, a) = [i \in 1..n |-> Rec(i)]
  BY DEF Records
<1> HIDE DEF Rec
<1> QED BY <1>1, <1>2

\* load() replaces the instructions, and they fit their type.
LEMMA LoadIs ==
  ASSUME ProgramInv, Load
  PROVE  \E n, a \in Nat :
           /\ prog' = [prog EXCEPT !.instructions = Records(n, a)]
           /\ prog'.instructions = Records(n, a)
           /\ Records(n, a) \in Seq(Instr) /\ Len(Records(n, a)) = n
           /\ \A i \in 1..n : /\ Records(n, a)[i].ins = WordRead(i)
                              /\ Records(n, a)[i].adr = a + 4 * (i - 1)
           /\ file.have >= 8 => n = file.count /\ a = file.adr
<1>1. PICK n \in Nat, a \in Nat :
        /\ prog' = [prog EXCEPT !.instructions = Records(n, a)]
        /\ file.have >= 8 => n = file.count /\ a = file.adr
  <2>1. file.have \in Nat /\ file.count \in Nat /\ file.adr \in Nat
    BY DEF ProgramInv, ProgramTypeOK
  <2>2. PICK g \in Garbage, h \in Garbage :
          prog' = [prog EXCEPT !.instructions =
                     Records(NumberRead(g, file.count, file.have),
                             NumberRead(h, file.adr, file.have - 4))]
    BY DEF Load
  <2> DEFINE n == NumberRead(g, file.count, file.have)
             a == NumberRead(h, file.adr, file.have - 4)
  <2>3. n \in Nat /\ (file.have >= 8 => n = file.count)
    <3>1. g \in Nat /\ file.have \in Int /\ (file.have >= 8 => file.have >= 4)
      BY <2>1, GarbageAssumption
    <3> QED BY <2>1, <3>1, NumberReadIs
  <2>4. a \in Nat /\ (file.have >= 8 => a = file.adr)
    <3>1. file.have - 4 \in Int /\ (file.have >= 8 => file.have - 4 >= 4)
      BY <2>1
    <3> QED BY <2>1, <3>1, GarbageAssumption, NumberReadIs
  <2> HIDE DEF n, a
  <2> QED BY <2>2, <2>3, <2>4 DEF n, a
<1>2. \A i \in 1..n : WordRead(i) \in Word
  BY WordReadIs
<1>3. /\ Records(n, a) \in Seq(Instr) /\ Len(Records(n, a)) = n
      /\ \A i \in 1..n : /\ Records(n, a)[i].ins = WordRead(i)
                         /\ Records(n, a)[i].adr = a + 4 * (i - 1)
  BY <1>2, RecordsType
<1>4. prog'.instructions = Records(n, a)
  <2>1. prog \in ProgramType
    BY DEF ProgramInv, ProgramTypeOK
  <2> QED BY <1>1, <2>1 DEF ProgramType
<1> QED BY <1>1, <1>3, <1>4

LEMMA LoadStep == ASSUME ProgramInv, Load PROVE ProgramInv'
<1>1. PICK n \in Nat, a \in Nat :
        /\ prog' = [prog EXCEPT !.instructions = Records(n, a)]
        /\ Records(n, a) \in Seq(Instr)
  BY LoadIs
<1>2. prog \in ProgramType
  BY DEF ProgramInv, ProgramTypeOK
<1>3. prog' \in ProgramType
  BY <1>1, <1>2 DEF ProgramType
<1> QED BY <1>3 DEF Load, ProgramInv, ProgramTypeOK, FileInv

LEMMA DisassembleStep == ASSUME ProgramInv, Disassemble PROVE ProgramInv'
<1> DEFINE Rec(i) == LET l == DisInstr(prog.instructions[i].ins)
                     IN [op |-> l.op, args |-> l.args,
                         addr |-> prog.instructions[i].adr]
<1>1. prog.instructions \in Seq(Instr)
  BY DEF ProgramInv, ProgramTypeOK, ProgramType
<1>2. ASSUME NEW i \in 1..Len(prog.instructions) PROVE Rec(i) \in TextRecord
  <2> DEFINE l == DisInstr(prog.instructions[i].ins)
  <2>1. prog.instructions[i] \in Instr
    BY <1>1
  <2>2. prog.instructions[i].ins \in Word /\ prog.instructions[i].adr \in Nat
    BY <2>1 DEF Instr
  <2>3. l.op \in Mnemonics /\ l.args \in Args
    BY <2>2, DisInstrType DEF IsLine
  <2> HIDE DEF l
  <2> QED BY <2>2, <2>3 DEF TextRecord, l
<1>3. source' = [text |-> [i \in 1..Len(prog.instructions) |-> Rec(i)],
                 data |-> << >>]
  <2>1. source' = [text |-> [i \in DOMAIN prog.instructions |-> Rec(i)],
                   data |-> << >>]
    BY Zenon DEF Disassemble
  <2>2. DOMAIN prog.instructions = 1..Len(prog.instructions)
    BY <1>1
  <2> QED BY <2>1, <2>2
<1> HIDE DEF Rec
<1>4. source' \in SourceInfo
  BY <1>1, <1>2, <1>3 DEF SourceInfo
<1> QED BY <1>4 DEF Disassemble, ProgramInv, ProgramTypeOK, FileInv

LEMMA ProgramInvHolds == Spec => []ProgramInv
<1>1. Init => ProgramInv
  BY StartOK
<1>2. ProgramInv /\ [Next]_vars => ProgramInv'
  <2> SUFFICES ASSUME ProgramInv, [Next]_vars PROVE ProgramInv'
    OBVIOUS
  <2>1. CASE UNCHANGED vars
    BY <2>1 DEF vars, ProgramInv, ProgramTypeOK, FileInv
  <2>2. CASE Next
    BY <2>2, LoadSourceStep, AssembleStep, GetProgramStep, SaveStep, LoadStep,
       DisassembleStep DEF Next
  <2> QED BY <2>1, <2>2
<1> QED BY <1>1, <1>2, PTL DEF Spec

(* Sources, programs and the file stay what their types say, from          *)
(* assembling through a file cut anywhere to listing what was loaded.      *)
THEOREM TypeCorrect == Spec => []ProgramTypeOK
<1>1. ProgramInv => ProgramTypeOK
  BY DEF ProgramInv
<1> QED BY <1>1, ProgramInvHolds, PTL
-----------------------------------------------------------------------------
\* A load, in the words of what the file was saved from.
LEMMA LoadedFromOrigin ==
  ASSUME ProgramInv, Load, file.have >= 8
  PROVE  /\ Len(prog'.instructions) = Len(origin.instructions)
         /\ prog'.instructions \in Seq(Instr) /\ origin.instructions \in Seq(Instr)
         /\ \A i \in 1..Len(origin.instructions) :
              /\ prog'.instructions[i].ins = WordRead(i)
              /\ prog'.instructions[i].adr =
                   origin.instructions[1].adr + 4 * (i - 1)
<1>1. PICK n \in Nat, a \in Nat :
        /\ prog'.instructions = Records(n, a)
        /\ Records(n, a) \in Seq(Instr) /\ Len(Records(n, a)) = n
        /\ \A i \in 1..n : /\ Records(n, a)[i].ins = WordRead(i)
                           /\ Records(n, a)[i].adr = a + 4 * (i - 1)
        /\ file.have >= 8 => n = file.count /\ a = file.adr
  BY LoadIs
<1>2. file.have \in Nat /\ origin.instructions \in Seq(Instr)
  BY DEF ProgramInv, ProgramTypeOK, ProgramType
<1>3. n = Len(origin.instructions)
      /\ (origin.instructions # << >> => a = origin.instructions[1].adr)
  BY <1>1, <1>2 DEF ProgramInv, FileInv
<1>4. n > 0 => a = origin.instructions[1].adr
  BY <1>2, <1>3
<1> HIDE DEF Records
<1> QED BY <1>1, <1>2, <1>3, <1>4

(* A full file gives back the words, and the addresses exactly if they     *)
(* were consecutive.                                                       *)
THEOREM FullFilesLoad == Spec => LoadRestores
<1> DEFINE old == origin.instructions
           new == prog'.instructions
           Restored == /\ Words(prog') = Words(origin)
                       /\ new = old <=> Consecutive(origin)
<1>1. ProgramInv /\ ProgramInv' /\ Load /\ file.have = 8 + 4 * Len(old) => Restored
  <2> SUFFICES ASSUME ProgramInv, ProgramInv', Load, file.have = 8 + 4 * Len(old)
               PROVE  Restored
    OBVIOUS
  <2>1. /\ origin \in ProgramType /\ prog' \in ProgramType
        /\ file.count = Len(old) /\ Len(old) \in Nat
    BY DEF ProgramInv, ProgramTypeOK, FileInv, ProgramType
  <2>2. /\ Len(new) = Len(old) /\ new \in Seq(Instr) /\ old \in Seq(Instr)
        /\ \A i \in 1..Len(old) : /\ new[i].ins = WordRead(i)
                                  /\ new[i].adr = old[1].adr + 4 * (i - 1)
    BY <2>1, LoadedFromOrigin
  <2>3. \A i \in 1..Len(old) : WordRead(i) = old[i].ins
    <3>1. Whole = Len(old)
      <4>1. ASSUME NEW n \in Nat, NEW h, h = 8 + 4 * n
            PROVE  h >= 8 /\ (h - 8) \div 4 = n
        <5>1. h \in Int /\ h - 8 = 4 * n
          BY <4>1
        <5> QED BY <4>1, <5>1, SMT
      <4>2. file.have >= 8 /\ (file.have - 8) \div 4 = Len(old)
        BY <2>1, <4>1
      <4> QED BY <4>2 DEF Whole
    <3> QED BY <2>1, <3>1, WordReadIs
  <2>4. /\ Words(prog') \in Seq(Word) /\ Len(Words(prog')) = Len(new)
        /\ \A i \in 1..Len(new) : Words(prog')[i] = new[i].ins
        /\ Words(origin) \in Seq(Word) /\ Len(Words(origin)) = Len(old)
        /\ \A i \in 1..Len(old) : Words(origin)[i] = old[i].ins
    BY <2>1, WordsType
  <2> HIDE DEF new, old
  <2>5. Words(prog') = Words(origin)
    BY <2>2, <2>3, <2>4
  <2>6. new = old <=> \A i \in 1..Len(old) : new[i].adr = old[i].adr
    <3>1. ASSUME \A i \in 1..Len(old) : new[i].adr = old[i].adr
          PROVE  new = old
      <4>1. ASSUME NEW i \in 1..Len(old) PROVE new[i] = old[i]
        <5>1. new[i] \in Instr /\ old[i] \in Instr
          BY <2>2
        <5>2. new[i].ins = old[i].ins /\ new[i].adr = old[i].adr
          BY <2>2, <2>3, <3>1
        <5> QED BY <5>1, <5>2 DEF Instr
      <4> QED BY <2>2, <4>1
    <3> QED BY <3>1
  <2>7. Consecutive(origin) <=>
          \A i \in 1..Len(old) : old[i].adr = old[1].adr + 4 * (i - 1)
    <3>1. DOMAIN old = 1..Len(old)
      BY <2>2
    <3> QED BY <3>1, Zenon DEF Consecutive, old
  <2> QED BY <2>2, <2>5, <2>6, <2>7
<1>2. ProgramInv /\ ProgramInv' /\ [Next]_vars =>
        [Load /\ file.have = 8 + 4 * Len(old) => Restored]_vars
  BY <1>1
<1> QED BY <1>2, ProgramInvHolds, PTL DEF Spec, LoadRestores

(* A file cut after its header, within a word or between two, gives a      *)
(* program of the announced length: the whole words, and then one word     *)
(* made of the bytes of the one the cut is in and of the one before it.    *)
THEOREM CutFilesLoad == Spec => CutFilesRepeat
<1> DEFINE old == origin.instructions
           new == prog'.instructions
           whole == (file.have - 8) \div 4
           before == IF whole = 0 THEN Noop ELSE old[whole].ins
           Repeated ==
             /\ Len(new) = Len(old)
             /\ \A i \in DOMAIN new :
                  IF i <= whole THEN new[i].ins = old[i].ins
                  ELSE \A j \in 1..4 :
                         Bytes(new[i].ins)[j] =
                           Bytes(IF 8 + 4 * whole + j <= file.have
                                 THEN old[whole + 1].ins ELSE before)[j]
<1>1. ProgramInv /\ Load /\ file.have >= 8 => Repeated
  <2> SUFFICES ASSUME ProgramInv, Load, file.have >= 8 PROVE Repeated
    OBVIOUS
  <2>1. file.have \in Nat
    BY DEF ProgramInv, ProgramTypeOK
  <2>2. /\ Len(new) = Len(old) /\ new \in Seq(Instr)
        /\ \A i \in 1..Len(old) : new[i].ins = WordRead(i)
    BY LoadedFromOrigin
  <2>3. whole = Whole /\ before = Before(Whole) /\ Whole \in Nat
    BY <2>1, SMT DEF Whole, Before
  <2>4. \A j \in 1..4 : 8 + 4 * Whole + j <= file.have <=> j <= Rest
    BY <2>1, SMT DEF Whole, Rest
  <2>5. \A i \in 1..Len(old) :
          /\ i <= Whole => WordRead(i) = old[i].ins
          /\ i > Whole => \A j \in 1..4 :
               Bytes(WordRead(i))[j] =
                 Bytes(IF j <= Rest THEN old[Whole + 1].ins
                       ELSE Before(Whole))[j]
    BY WordReadIs
  <2> HIDE DEF new, old, whole, before
  <2>6. \A i \in DOMAIN new : i \in 1..Len(old) /\ (~(i <= Whole) => i > Whole)
    BY <2>2, <2>3
  <2> QED BY <2>2, <2>3, <2>4, <2>5, <2>6
<1>2. ProgramInv /\ [Next]_vars => [Load /\ file.have >= 8 => Repeated]_vars
  BY <1>1
<1> QED BY <1>2, ProgramInvHolds, PTL DEF Spec, CutFilesRepeat
=============================================================================
