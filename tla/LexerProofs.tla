----------------------------- MODULE LexerProofs -----------------------------
(***************************************************************************)
(* Proofs about Lexer for any words, sources, segment addresses and number *)
(* of lex() calls.  The argument: expandPsuedo hands out consecutive       *)
(* addresses (PseudoExpansion) and parseDirective reserves what it records *)
(* (ReservationType); so types are kept (TypeCorrect), each segment is     *)
(* gapless (TextIsGapless, DataIsGapless), and a label, which is entered   *)
(* before its statement is parsed, still marks it (LabelsMarkNext).  The   *)
(* last part follows records and names from step to step.                  *)
(***************************************************************************)
EXTENDS Lexer, SequenceTheorems, FiniteSetTheorems, TLAPS

(* A set of naturals that is not empty has a least element.  "List ends"  *)
(* and "first definition" are least elements chosen from such sets.        *)
LEMMA LeastElement ==
  ASSUME NEW T \in SUBSET Nat, T # {}
  PROVE  \E x \in T : \A y \in T : x <= y
PROOF
<1> DEFINE Seg(k) == 0..(k - 1)
           U == {Seg(k) : k \in T}
           R == StrictSubsetOrdering(Nat)
<1>1. IsWellFoundedOn(R, FiniteSubsetsOf(Nat))
  BY FS_StrictSubsetOrderingWellFounded
<1>2. U \subseteq FiniteSubsetsOf(Nat)
  <2> SUFFICES ASSUME NEW k \in T PROVE Seg(k) \in FiniteSubsetsOf(Nat)
    OBVIOUS
  <2>1. IsFiniteSet(0..(k - 1))
    BY FS_Interval
  <2> QED BY <2>1 DEF FiniteSubsetsOf
<1>3. U # {}
  OBVIOUS
<1> HIDE DEF R, U
<1>4. PICK x \in U : \A y \in U : ~(<<y, x>> \in R)
  BY <1>1, <1>2, <1>3, WFMin
<1>5. PICK k \in T : x = Seg(k)
  BY DEF U
<1>6. ASSUME NEW m \in T PROVE k <= m
  <2> SUFFICES ASSUME m < k PROVE FALSE
    BY <1>6
  <2>1. Seg(m) \in U
    BY DEF U
  <2>2. Seg(m) \in SUBSET Nat /\ Seg(k) \in SUBSET Nat
    OBVIOUS
  <2>3. Seg(m) \subseteq Seg(k) /\ m \in Seg(k) /\ m \notin Seg(m)
    OBVIOUS
  <2>4. <<Seg(m), Seg(k)>> \in R
    BY <2>2, <2>3 DEF R, StrictSubsetOrdering
  <2> QED BY <2>1, <2>4, <1>4, <1>5
<1> QED BY <1>6
-----------------------------------------------------------------------------
\* The words the model itself puts into records.
LEMMA KnownWords ==
  /\ "" \in Words /\ "null" \in Words
  /\ \A w \in InstrCodes : w \in Words
PROOF BY WordsAssumption

\* nextToken always delivers a token, past the end of the source too.
LEMMA TokType ==
  ASSUME source \in Seq(Token), NEW i
  PROVE  /\ Tok(i) \in Token
         /\ Tok(i).word \in Words
         /\ Tok(i).val \in Nat /\ Tok(i).off \in Int
PROOF
<1>1. EmptyToken \in Token
  <2>1. -1 \in Int
    OBVIOUS
  <2> QED BY <2>1, KnownWords DEF EmptyToken, Token
<1>2. ASSUME i \in 1..Len(source) PROVE source[i] \in Token
  BY <1>2, ElementOfSeq
<1>3. Tok(i) \in Token
  BY <1>1, <1>2 DEF Tok
<1> QED BY <1>3 DEF Token

\* parseRegister and parseImmediate deliver arguments.
LEMMA ArgumentTypes ==
  ASSUME source \in Seq(Token)
  PROVE  /\ NoArg \in Argument /\ RegZero \in Argument /\ RegAt \in Argument
         /\ \A n \in Int : Literal(n) \in Argument
         /\ \A i : /\ ParseRegister(i) \in Argument
                   /\ ParseImmediate(i) \in Argument
PROOF
<1>1. \A i : Tok(i).val \in Int /\ Tok(i).off \in Int
  BY TokType
<1> QED BY <1>1 DEF NoArg, RegZero, RegAt, Register, Literal, Argument,
                    ParseRegister, ParseImmediate

\* The operand parsers fill three arguments and take at most three tokens.
LEMMA OperandsType ==
  ASSUME source \in Seq(Token), NEW op, NEW i \in Nat
  PROVE  /\ ParseOperands(op, i).args \in Argument \X Argument \X Argument
         /\ ParseOperands(op, i).used \in 0..3
PROOF
<1>1. /\ NoArg \in Argument
      /\ \A n \in Int : Literal(n) \in Argument
      /\ \A k : ParseRegister(k) \in Argument /\ ParseImmediate(k) \in Argument
  BY ArgumentTypes
<1>2. \A k : ParseRegister(k).offset \in Int
  BY <1>1 DEF Argument
<1> QED BY <1>1, <1>2 DEF ParseOperands

\* TextInfo::init leaves a text record behind.
LEMMA BlankLineType == BlankLine \in TextInfo
PROOF
<1>1. NoArg \in Argument
  BY DEF NoArg, Argument
<1> QED BY <1>1, KnownWords DEF BlankLine, TextInfo

\* parseInstr fills in a text record at text_addr.
LEMMA InstrLineType ==
  ASSUME source \in Seq(Token), pos \in Nat, text_addr \in Nat
  PROVE  /\ InstrLine \in TextInfo
         /\ InstrLine.addr = text_addr
         /\ InstrLine.standalone = FALSE
PROOF
<1>1. \A k : Tok(k).word \in Words
  BY TokType
<1>2. StmtHead.word \in Words /\ LabelOf("text") \in Words
  BY <1>1, KnownWords DEF LabelOf, StmtHead
<1>3. Stmt + 1 \in Nat
  BY DEF Stmt
<1> DEFINE ops == ParseOperands(StmtHead.word, Stmt + 1)
           symbol == IF ops.immAt > 0 /\ IsLabel(Tok(ops.immAt))
                     THEN Tok(ops.immAt).word ELSE ""
<1>4. ops.args \in Argument \X Argument \X Argument
  BY <1>3, OperandsType
<1>5. symbol \in Words
  BY <1>1, KnownWords
<1> HIDE DEF ops
<1> DEFINE symbolic == ops.immAt > 0 /\ IsLabel(Tok(ops.immAt))
           upper == (StmtHead.word = "lui")
           error == \/ StmtHead.word \in RejectedOps
                    \/ ops.checked /\ Tok(ops.immAt).kind # "lit"
                                   /\ ~IsLabel(Tok(ops.immAt))
                    \/ \E k \in 1..ops.used : Malformed(Tok(Stmt + k))
<1>6. InstrLine = [BlankLine EXCEPT
        !.op = StmtHead.word, !.addr = text_addr, !.args = ops.args,
        !.is_symbol = symbolic, !.symbol = symbol, !.label = LabelOf("text"),
        !.upper = upper, !.error = error]
  BY DEF InstrLine, ops
<1>7. symbolic \in BOOLEAN /\ upper \in BOOLEAN /\ error \in BOOLEAN
  OBVIOUS
<1> HIDE DEF symbol, symbolic, upper, error
<1> QED BY <1>2, <1>4, <1>5, <1>6, <1>7, BlankLineType DEF TextInfo, BlankLine
-----------------------------------------------------------------------------
\* A record expandPsuedo builds, and where it puts it.
LEMMA CopyType ==
  ASSUME NEW ti \in TextInfo, NEW op \in Words, NEW k \in Nat,
         NEW args \in Argument \X Argument \X Argument
  PROVE  /\ Copy(ti, op, k, args) \in TextInfo
         /\ Copy(ti, op, k, args).addr = ti.addr + 4 * k
         /\ Copy(ti, op, k, args).standalone = FALSE
PROOF
<1>1. ti.addr + 4 * k \in Nat
  BY DEF TextInfo
<1> QED BY <1>1, BlankLineType DEF Copy, TextInfo, BlankLine

\* The same for the first and the second record of an expansion.
LEMMA CopyPlaces ==
  ASSUME NEW ti \in TextInfo, NEW op \in Words,
         NEW args \in Argument \X Argument \X Argument
  PROVE  /\ Copy(ti, op, 0, args) \in TextInfo
         /\ Copy(ti, op, 0, args).addr = ti.addr
         /\ Copy(ti, op, 0, args).standalone = FALSE
         /\ Copy(ti, op, 1, args) \in TextInfo
         /\ Copy(ti, op, 1, args).addr = ti.addr + 4
         /\ Copy(ti, op, 1, args).standalone = FALSE
PROOF
<1>1. /\ Copy(ti, op, 0, args) \in TextInfo
      /\ Copy(ti, op, 0, args).addr = ti.addr + 4 * 0
      /\ Copy(ti, op, 0, args).standalone = FALSE
  BY CopyType
<1>2. /\ Copy(ti, op, 1, args) \in TextInfo
      /\ Copy(ti, op, 1, args).addr = ti.addr + 4 * 1
      /\ Copy(ti, op, 1, args).standalone = FALSE
  BY CopyType
<1>3. ti.addr + 4 * 0 = ti.addr /\ ti.addr + 4 * 1 = ti.addr + 4
  BY DEF TextInfo
<1> QED BY <1>1, <1>2, <1>3

\* Handing on the label or the symbol moves no record.
LEMMA WithType ==
  ASSUME NEW ti \in TextInfo, NEW line \in TextInfo
  PROVE  /\ WithLabel(line, ti) \in TextInfo
         /\ WithLabel(line, ti).addr = line.addr
         /\ WithLabel(line, ti).standalone = line.standalone
         /\ WithSymbol(line, ti) \in TextInfo
         /\ WithSymbol(line, ti).addr = line.addr
         /\ WithSymbol(line, ti).standalone = line.standalone
PROOF BY DEF WithLabel, WithSymbol, TextInfo

ExpansionOf(ti, lines) ==
  /\ lines \in Seq(TextInfo)
  /\ \A k \in DOMAIN lines : /\ lines[k].addr = ti.addr + 4 * (k - 1)
                             /\ lines[k].standalone = FALSE

\* An expansion of one record.
LEMMA OneLine ==
  ASSUME NEW ti \in TextInfo, NEW l \in TextInfo,
         l.addr = ti.addr, l.standalone = FALSE
  PROVE  ExpansionOf(ti, <<l>>)
PROOF
<1>1. ti.addr + 4 * (1 - 1) = ti.addr
  BY DEF TextInfo
<1>2. <<l>> \in Seq(TextInfo) /\ DOMAIN <<l>> = {1} /\ <<l>>[1] = l
  OBVIOUS
<1> QED BY <1>1, <1>2 DEF ExpansionOf

\* An expansion of two records.
LEMMA TwoLines ==
  ASSUME NEW ti \in TextInfo, NEW l \in TextInfo, NEW m \in TextInfo,
         l.addr = ti.addr, l.standalone = FALSE,
         m.addr = ti.addr + 4, m.standalone = FALSE
  PROVE  ExpansionOf(ti, <<l, m>>)
PROOF
<1>1. /\ ti.addr + 4 * (1 - 1) = ti.addr
      /\ ti.addr + 4 * (2 - 1) = ti.addr + 4
  BY DEF TextInfo
<1>2. /\ <<l, m>> \in Seq(TextInfo) /\ DOMAIN <<l, m>> = {1, 2}
      /\ <<l, m>>[1] = l /\ <<l, m>>[2] = m
  OBVIOUS
<1> QED BY <1>1, <1>2 DEF ExpansionOf

\* The mnemonics pseudo instructions expand to.
LEMMA PseudoWords ==
  /\ "mult" \in Words /\ "mflo" \in Words /\ "slt" \in Words
  /\ "sltu" \in Words /\ "beq" \in Words /\ "bne" \in Words
  /\ "lui" \in Words /\ "ori" \in Words
PROOF BY WordsAssumption DEF InstrCodes, RegRegOps, RegOps, RegRegRegOps,
           RegRegImmOps, ArithImmOps, BranchOps, RegImmOps

\* The compare-and-branch pseudo instructions: two records, four bytes apart.
LEMMA CompareExpansion ==
  ASSUME NEW ti \in TextInfo, source \in Seq(Token)
  PROVE  ExpansionOf(ti, ExpandCompare(ti))
PROOF
<1> DEFINE s == ti.args[1]
           t == ti.args[2]
           set  == IF ti.op = "bgtu" THEN "sltu" ELSE "slt"
           jump == IF ti.op \in {"bge", "ble"} THEN "beq" ELSE "bne"
           operands == IF ti.op \in {"blt", "bge"} THEN <<RegAt, s, t>>
                                                   ELSE <<RegAt, t, s>>
           first  == Copy(ti, set, 0, operands)
           second == Copy(ti, jump, 1, <<RegAt, RegZero, ti.args[3]>>)
<1>1. set \in Words /\ jump \in Words
  BY PseudoWords
<1>2. s \in Argument /\ t \in Argument /\ ti.args[3] \in Argument
  BY DEF TextInfo
<1>3. /\ operands \in Argument \X Argument \X Argument
      /\ <<RegAt, RegZero, ti.args[3]>> \in Argument \X Argument \X Argument
  BY <1>2, ArgumentTypes
<1> HIDE DEF s, t, set, jump, operands
<1>4. /\ first \in TextInfo /\ first.addr = ti.addr + 4 * 0
      /\ first.standalone = FALSE
  BY <1>1, <1>3, CopyType
<1>5. /\ second \in TextInfo /\ second.addr = ti.addr + 4 * 1
      /\ second.standalone = FALSE
  BY <1>1, <1>3, CopyType
<1>6. ti.addr + 4 * 0 = ti.addr /\ ti.addr + 4 * 1 = ti.addr + 4
  BY DEF TextInfo
<1>7. ExpandCompare(ti) = <<WithLabel(first, ti), WithSymbol(second, ti)>>
  BY DEF ExpandCompare, s, t, set, jump, operands
<1> HIDE DEF first, second
<1>8. /\ WithLabel(first, ti) \in TextInfo
      /\ WithLabel(first, ti).addr = ti.addr
      /\ WithLabel(first, ti).standalone = FALSE
  BY <1>4, <1>6, WithType
<1>9. /\ WithSymbol(second, ti) \in TextInfo
      /\ WithSymbol(second, ti).addr = ti.addr + 4
      /\ WithSymbol(second, ti).standalone = FALSE
  BY <1>5, <1>6, WithType
<1>10. ExpansionOf(ti, <<WithLabel(first, ti), WithSymbol(second, ti)>>)
  BY <1>8, <1>9, TwoLines
<1> QED BY <1>7, <1>10

\* The lui/ori pair: two records, four bytes apart.
LEMMA LoadPairExpansion ==
  ASSUME NEW ti \in TextInfo, source \in Seq(Token)
  PROVE  /\ LoadPair(ti) = <<LoadPair(ti)[1], LoadPair(ti)[2]>>
         /\ LoadPair(ti)[1] \in TextInfo /\ LoadPair(ti)[2] \in TextInfo
         /\ LoadPair(ti)[1].addr = ti.addr
         /\ LoadPair(ti)[2].addr = ti.addr + 4
         /\ LoadPair(ti)[1].standalone = FALSE
         /\ LoadPair(ti)[2].standalone = FALSE
PROOF
<1> DEFINE t == ti.args[1]
           imm == ti.args[3]
           highArgs == <<t, NoArg, Half(imm, HighHalf(imm.val))>>
           lowArgs == <<t, t, Half(imm, LowHalf(imm.val))>>
           first  == Copy(ti, "lui", 0, highArgs)
           second == Copy(ti, "ori", 1, lowArgs)
<1>1. t \in Argument /\ imm \in Argument /\ imm.val \in Int
  BY DEF TextInfo, Argument
<1>2. HighHalf(imm.val) \in Int /\ LowHalf(imm.val) \in Int /\ -1 \in Int
  BY <1>1 DEF HighHalf, LowHalf
<1>3. /\ Half(imm, HighHalf(imm.val)) \in Argument
      /\ Half(imm, LowHalf(imm.val)) \in Argument
  BY <1>1, <1>2 DEF Half, Argument
<1>4. highArgs \in Argument \X Argument \X Argument
      /\ lowArgs \in Argument \X Argument \X Argument
  BY <1>1, <1>3, ArgumentTypes
<1> HIDE DEF highArgs, lowArgs
<1>5. "lui" \in Words /\ "ori" \in Words
  BY PseudoWords
<1>6. /\ first \in TextInfo /\ first.addr = ti.addr + 4 * 0
      /\ first.standalone = FALSE
  BY <1>4, <1>5, CopyType
<1>7. /\ second \in TextInfo /\ second.addr = ti.addr + 4 * 1
      /\ second.standalone = FALSE
  BY <1>4, <1>5, CopyType
<1>8. LoadPair(ti) = <<[first EXCEPT !.upper = TRUE],
                       [second EXCEPT !.lower = TRUE]>>
  BY DEF LoadPair, highArgs, lowArgs
<1> HIDE DEF first, second
<1>9. /\ [first EXCEPT !.upper = TRUE] \in TextInfo
      /\ [second EXCEPT !.lower = TRUE] \in TextInfo
      /\ [first EXCEPT !.upper = TRUE].addr = first.addr
      /\ [second EXCEPT !.lower = TRUE].addr = second.addr
      /\ [first EXCEPT !.upper = TRUE].standalone = FALSE
      /\ [second EXCEPT !.lower = TRUE].standalone = FALSE
  BY <1>6, <1>7 DEF TextInfo
<1>10. /\ ti.addr + 4 * 0 = ti.addr
       /\ ti.addr + 4 * 1 = ti.addr + 4
  BY DEF TextInfo
<1> DEFINE high == [first EXCEPT !.upper = TRUE]
           low  == [second EXCEPT !.lower = TRUE]
<1>11. /\ high \in TextInfo /\ high.addr = ti.addr
       /\ high.standalone = FALSE
       /\ low \in TextInfo /\ low.addr = ti.addr + 4
       /\ low.standalone = FALSE
  BY <1>6, <1>7, <1>9, <1>10
<1>12. LoadPair(ti) = <<high, low>>
  BY <1>8
<1> HIDE DEF high, low
<1>13. LoadPair(ti)[1] = high /\ LoadPair(ti)[2] = low
  BY <1>12
<1> QED BY <1>11, <1>12, <1>13

\* expandPsuedo hands out consecutive addresses, whatever it expands.
LEMMA PseudoExpansion ==
  ASSUME NEW ti \in TextInfo, source \in Seq(Token)
  PROVE  ExpansionOf(ti, ExpandPseudo(ti))
PROOF
<1>1. /\ ti.args[1] \in Argument /\ ti.args[2] \in Argument
      /\ ti.args[3] \in Argument /\ ti.args[3].val \in Int
      /\ ti.addr + 4 * 0 = ti.addr /\ ti.addr + 4 * 1 = ti.addr + 4
  BY DEF TextInfo, Argument
<1>2. LowHalf(ti.args[3].val) \in Int
  BY <1>1 DEF LowHalf
<1>3. NoArg \in Argument /\ RegZero \in Argument
      /\ Literal(LowHalf(ti.args[3].val)) \in Argument
  BY <1>2, ArgumentTypes
<1>4. CASE ti.op = "mul"
  <2> DEFINE factors == <<ti.args[2], ti.args[3], NoArg>>
             product == <<ti.args[1], NoArg, NoArg>>
             first  == Copy(ti, "mult", 0, factors)
             second == Copy(ti, "mflo", 1, product)
  <2>0. /\ factors \in Argument \X Argument \X Argument
        /\ product \in Argument \X Argument \X Argument
    BY <1>1, <1>3
  <2> HIDE DEF factors, product
  <2>1. /\ first \in TextInfo /\ first.addr = ti.addr
        /\ first.standalone = FALSE
    BY <2>0, PseudoWords, CopyPlaces
  <2>2. /\ second \in TextInfo /\ second.addr = ti.addr + 4
        /\ second.standalone = FALSE
    BY <2>0, PseudoWords, CopyPlaces
  <2>3. ExpandPseudo(ti) = <<first, second>>
    BY <1>4 DEF ExpandPseudo, CompareOps, factors, product
  <2> HIDE DEF first, second
  <2>4. ExpansionOf(ti, <<first, second>>)
    BY <2>1, <2>2, TwoLines
  <2> QED BY <2>3, <2>4
<1>5. CASE ti.op \in CompareOps
  <2>1. ExpandPseudo(ti) = ExpandCompare(ti)
    BY <1>5 DEF ExpandPseudo, CompareOps
  <2> QED BY <2>1, CompareExpansion
<1>6. CASE ti.op = "beqz"
  <2> DEFINE args == <<ti.args[1], RegZero, ti.args[3]>>
             line == Copy(ti, "beq", 0, args)
  <2>0. args \in Argument \X Argument \X Argument
    BY <1>1, <1>3
  <2> HIDE DEF args
  <2>1. /\ line \in TextInfo /\ line.addr = ti.addr
        /\ line.standalone = FALSE
    BY <2>0, PseudoWords, CopyPlaces
  <2>2. ExpandPseudo(ti) = <<WithSymbol(WithLabel(line, ti), ti)>>
    BY <1>6 DEF ExpandPseudo, CompareOps, args
  <2> HIDE DEF line
  <2>3. /\ WithLabel(line, ti) \in TextInfo
        /\ WithLabel(line, ti).addr = ti.addr
        /\ WithLabel(line, ti).standalone = FALSE
    BY <2>1, WithType
  <2>4. /\ WithSymbol(WithLabel(line, ti), ti) \in TextInfo
        /\ WithSymbol(WithLabel(line, ti), ti).addr = ti.addr
        /\ WithSymbol(WithLabel(line, ti), ti).standalone = FALSE
    BY <2>3, WithType
  <2>5. ExpansionOf(ti, <<WithSymbol(WithLabel(line, ti), ti)>>)
    BY <2>4, OneLine
  <2> QED BY <2>2, <2>5
<1> DEFINE high == LoadPair(ti)[1]
           low  == LoadPair(ti)[2]
<1>7. /\ LoadPair(ti) = <<high, low>>
      /\ high \in TextInfo /\ high.addr = ti.addr
      /\ high.standalone = FALSE
      /\ low \in TextInfo /\ low.addr = ti.addr + 4
      /\ low.standalone = FALSE
  BY LoadPairExpansion
<1>8. CASE ti.op = "la"
  <2>1. ExpandPseudo(ti) = <<WithSymbol(high, ti), WithSymbol(low, ti)>>
    BY <1>8 DEF ExpandPseudo, CompareOps
  <2> HIDE DEF high, low
  <2>2. /\ WithSymbol(high, ti) \in TextInfo
        /\ WithSymbol(high, ti).addr = ti.addr
        /\ WithSymbol(high, ti).standalone = FALSE
    BY <1>7, WithType
  <2>3. /\ WithSymbol(low, ti) \in TextInfo
        /\ WithSymbol(low, ti).addr = ti.addr + 4
        /\ WithSymbol(low, ti).standalone = FALSE
    BY <1>7, WithType
  <2>4. ExpansionOf(ti, <<WithSymbol(high, ti), WithSymbol(low, ti)>>)
    BY <2>2, <2>3, TwoLines
  <2> QED BY <2>1, <2>4
<1>9. CASE ti.op = "li" /\ ti.args[3].val > 65535
  <2>1. ExpandPseudo(ti) = <<high, low>>
    BY <1>7, <1>9 DEF ExpandPseudo, CompareOps
  <2> HIDE DEF high, low
  <2>2. ExpansionOf(ti, <<high, low>>)
    BY <1>7, TwoLines
  <2> QED BY <2>1, <2>2
<1>10. CASE ti.op = "li" /\ ~(ti.args[3].val > 65535)
  <2> DEFINE args == <<ti.args[1], RegZero, Literal(LowHalf(ti.args[3].val))>>
             line == Copy(ti, "ori", 0, args)
  <2>0. args \in Argument \X Argument \X Argument
    BY <1>1, <1>3
  <2> HIDE DEF args
  <2>1. /\ line \in TextInfo /\ line.addr = ti.addr
        /\ line.standalone = FALSE
    BY <2>0, PseudoWords, CopyPlaces
  <2>2. ExpandPseudo(ti) = <<line>>
    BY <1>10 DEF ExpandPseudo, CompareOps, args
  <2> HIDE DEF line
  <2>3. ExpansionOf(ti, <<line>>)
    BY <2>1, OneLine
  <2> QED BY <2>2, <2>3
<1>11. CASE ti.op \notin {"mul", "beqz", "la", "li"} \cup CompareOps
  <2>1. ExpandPseudo(ti) = << >>
    BY <1>11 DEF ExpandPseudo
  <2> QED BY <2>1 DEF ExpansionOf
<1> QED BY <1>4, <1>5, <1>6, <1>8, <1>9, <1>10, <1>11
-----------------------------------------------------------------------------
\* The scan of a literal list ends, and not before it began.
LEMMA ListEndBound ==
  ASSUME source \in Seq(Token), NEW i \in Nat \ {0}
  PROVE  ListEnd(i) \in Int /\ ListEnd(i) >= i
PROOF
<1> DEFINE Stops == {k \in i..(Len(source) + i) : ListStop(k)}
<1>1. Len(source) \in Nat
  BY LenProperties
<1>2. Len(source) + i \in Stops
  <2>1. Len(source) + i \notin 1..Len(source)
    BY <1>1
  <2>2. ListStop(Len(source) + i)
    BY <2>1 DEF ListStop, Tok, EmptyToken
  <2> QED BY <1>1, <2>2
<1>3. Stops \in SUBSET Nat
  BY <1>1
<1>4. PICK k \in Stops : \A j \in Stops : k <= j
  BY <1>2, <1>3, LeastElement
<1>5. k \in i..(Len(source) + i) /\ ListStop(k)
  OBVIOUS
<1>6. ASSUME NEW j \in i..(k - 1) PROVE ~ListStop(j)
  <2>1. j \in i..(Len(source) + i) /\ ~(k <= j)
    BY <1>1, <1>5
  <2> QED BY <2>1, <1>4
<1>7. ListEnd(i) \in i..(Len(source) + i)
  BY <1>5, <1>6 DEF ListEnd
<1> QED BY <1>1, <1>7

IsReservation(dir, r) ==
  /\ r.items \in Nat /\ r.used \in Nat /\ r.space \in Nat
  /\ r.error \in BOOLEAN
  /\ dir \in {".byte", ".half"} => r.early = FALSE
  /\ dir \notin {".byte", ".half"} => r.early = TRUE \/ r.items = 0

\* What a directive reserves, field by field.
LEMMA ReserveFields ==
  ASSUME NEW dir, NEW items \in Nat, NEW used \in Nat, NEW space \in Nat,
         NEW error \in BOOLEAN, NEW early \in BOOLEAN,
         dir \in {".byte", ".half"} => early = FALSE,
         dir \notin {".byte", ".half"} => early = TRUE \/ items = 0
  PROVE  IsReservation(dir, Reserve(items, used, space, error, early))
PROOF
<1> DEFINE r == Reserve(items, used, space, error, early)
<1>1. /\ r.items = items /\ r.used = used /\ r.space = space
      /\ r.error = error /\ r.early = early
  BY Zenon DEF Reserve
<1> QED BY <1>1 DEF IsReservation

\* parseDirective counts items and bytes in naturals; only .byte and .half
\* take their address after counting.
LEMMA ReservationType ==
  ASSUME source \in Seq(Token), NEW dir, NEW i \in Nat \ {0}
  PROVE  IsReservation(dir, ParseDirective(dir, i))
PROOF
<1> DEFINE last == ListEnd(i)
           t == Tok(i)
           crossed == Tok(last).eol = "tight" \/ Tok(last - 1).eol = "loose"
<1>1. last \in Int /\ last >= i
  BY ListEndBound
<1>2. t.val \in Nat
  BY TokType
<1>3. last - i \in Nat /\ last - i + 1 \in Nat
  BY <1>1
<1>4. HalfItems(i, last) \in Nat
  BY <1>3 DEF HalfItems
<1>5. crossed \in BOOLEAN
  OBVIOUS
<1> HIDE DEF last, t, crossed
<1>6. CASE dir = ".asciiz"
  <2> DEFINE items == IF t.kind = "str" THEN t.val ELSE 0
             used  == 1
             space == 0
             error == (t.kind # "str")
  <2>1. ParseDirective(dir, i) = Reserve(items, used, space, error, TRUE)
    BY <1>6 DEF ParseDirective, t
  <2>2. items \in Nat /\ used \in Nat /\ space \in Nat /\ error \in BOOLEAN
    BY <1>2
  <2> HIDE DEF items, used, space, error
  <2> QED BY <1>6, <2>1, <2>2, ReserveFields
<1>7. CASE dir = ".byte"
  <2> DEFINE items == IF t.kind = "char" THEN 1 ELSE 0
             used  == 1
             space == 0
             error == (t.kind # "char")
  <2>1. ParseDirective(dir, i) = Reserve(items, used, space, error, FALSE)
    BY <1>7 DEF ParseDirective, t
  <2>2. items \in Nat /\ used \in Nat /\ space \in Nat /\ error \in BOOLEAN
    BY <1>2
  <2> HIDE DEF items, used, space, error
  <2> QED BY <1>7, <2>1, <2>2, ReserveFields
<1>8. CASE dir = ".half"
  <2> DEFINE items == HalfItems(i, last)
             used  == last - i + 1
             space == 0
             error == (~crossed)
  <2>1. ParseDirective(dir, i) = Reserve(items, used, space, error, FALSE)
    BY <1>8 DEF ParseDirective, last, crossed
  <2>2. items \in Nat /\ used \in Nat /\ space \in Nat /\ error \in BOOLEAN
    BY <1>3, <1>4, <1>5
  <2> HIDE DEF items, used, space, error
  <2> QED BY <1>8, <2>1, <2>2, ReserveFields
<1>9. CASE dir = ".word"
  <2> DEFINE items == IF Tok(last).kind = "lit" THEN last - i + 1 ELSE last - i
             used  == last - i + 1
             space == 0
             error == (Tok(last).kind # "lit")
  <2>1. ParseDirective(dir, i) = Reserve(items, used, space, error, TRUE)
    BY <1>9 DEF ParseDirective, last
  <2>2. items \in Nat /\ used \in Nat /\ space \in Nat /\ error \in BOOLEAN
    BY <1>3
  <2> HIDE DEF items, used, space, error
  <2> QED BY <1>9, <2>1, <2>2, ReserveFields
<1>10. CASE dir = ".space"
  <2> DEFINE items == 0
             used  == 1
             space == IF t.kind = "lit" THEN t.val ELSE 0
             error == (t.kind # "lit")
  <2>1. ParseDirective(dir, i) = Reserve(items, used, space, error, TRUE)
    BY <1>10 DEF ParseDirective, t
  <2>2. items \in Nat /\ used \in Nat /\ space \in Nat /\ error \in BOOLEAN
    BY <1>2
  <2> HIDE DEF items, used, space, error
  <2> QED BY <1>10, <2>1, <2>2, ReserveFields
<1>11. CASE dir \notin {".asciiz", ".byte", ".half", ".word", ".space"}
  <2> DEFINE r == Reserve(0, 0, 0, FALSE, FALSE)
  <2>1. ParseDirective(dir, i) = r
    BY <1>11 DEF ParseDirective
  <2>2. r.items = 0 /\ r.used = 0 /\ r.space = 0 /\ r.error = FALSE
    BY Zenon DEF Reserve
  <2>3. 0 \in Nat /\ r.error \in BOOLEAN
    BY <2>2
  <2> HIDE DEF r
  <2>4. IsReservation(dir, r)
    BY <1>11, <2>2, <2>3, Zenon DEF IsReservation
  <2> QED BY <2>1, <2>4
<1> QED BY <1>6, <1>7, <1>8, <1>9, <1>10, <1>11

\* getAddr answers an address or 0.
LEMMA GetAddrType ==
  ASSUME syms \in Seq(Symbol), NEW s
  PROVE  GetAddr(s) \in Nat
PROOF
<1>1. CASE Defs(s) = {}
  BY <1>1 DEF GetAddr
<1>2. CASE Defs(s) # {}
  <2>1. Defs(s) \in SUBSET Nat /\ Defs(s) \subseteq DOMAIN syms
    <3>1. DOMAIN syms = 1..Len(syms) /\ Len(syms) \in Nat
      BY LenProperties
    <3> QED BY <3>1 DEF Defs
  <2>2. \E i \in Defs(s) : \A j \in Defs(s) : i <= j
    BY <1>2, <2>1, LeastElement
  <2>3. FirstDef(s) \in DOMAIN syms
    BY <2>1, <2>2 DEF FirstDef
  <2>4. syms[FirstDef(s)] \in Symbol
    BY <2>3, LenProperties, ElementOfSeq
  <2> QED BY <1>2, <2>4 DEF GetAddr, Symbol
<1> QED BY <1>1, <1>2

\* resolveLabels replaces arguments and nothing else.
LEMMA ResolvedLine ==
  ASSUME NEW l \in TextInfo, syms \in Seq(Symbol), source \in Seq(Token)
  PROVE  /\ ResolveLine(l) \in TextInfo
         /\ ResolveLine(l).addr = l.addr
         /\ ResolveLine(l).standalone = l.standalone
PROOF
<1> DEFINE a == GetAddr(l.symbol)
<1>1. a \in Nat
  BY GetAddrType
<1> HIDE DEF a
<1>2. l.args[1] \in Argument /\ l.args[2] \in Argument
      /\ l.args[3] \in Argument /\ l.addr \in Nat
  BY DEF TextInfo
<1>3. /\ HighHalf(a) \in Int /\ LowHalf(a) \in Int
      /\ BranchOffset(l, a) \in Int /\ a \in Int
  BY <1>1, <1>2 DEF HighHalf, LowHalf, BranchOffset
<1>4. /\ NoArg \in Argument
      /\ Literal(HighHalf(a)) \in Argument /\ Literal(LowHalf(a)) \in Argument
      /\ Literal(BranchOffset(l, a)) \in Argument /\ Literal(a) \in Argument
  BY <1>3, ArgumentTypes
<1>5. ASSUME NEW args \in Argument \X Argument \X Argument
      PROVE  /\ [l EXCEPT !.args = args] \in TextInfo
             /\ [l EXCEPT !.args = args].addr = l.addr
             /\ [l EXCEPT !.args = args].standalone = l.standalone
  BY DEF TextInfo
<1>6. \E args \in Argument \X Argument \X Argument :
        Resolved(l, a) = [l EXCEPT !.args = args]
  <2>1. CASE l.op = "lui"
    <3> DEFINE args == <<l.args[1], NoArg,
                         Literal(IF l.upper THEN HighHalf(a) ELSE LowHalf(a))>>
    <3>1. Resolved(l, a) = [l EXCEPT !.args = args]
      BY <2>1 DEF Resolved, BranchOps, ImmOps
    <3>2. args \in Argument \X Argument \X Argument
      BY <1>2, <1>4
    <3> QED BY <3>1, <3>2
  <2>2. CASE l.op = "ori"
    <3> DEFINE args == <<l.args[1], l.args[2],
                         Literal(IF l.lower THEN LowHalf(a) ELSE HighHalf(a))>>
    <3>1. Resolved(l, a) = [l EXCEPT !.args = args]
      BY <2>2 DEF Resolved, BranchOps, ImmOps
    <3>2. args \in Argument \X Argument \X Argument
      BY <1>2, <1>4
    <3> QED BY <3>1, <3>2
  <2>3. CASE l.op \in BranchOps
    <3> DEFINE args == <<l.args[1], l.args[2], Literal(BranchOffset(l, a))>>
    <3>1. Resolved(l, a) = [l EXCEPT !.args = args]
      BY <2>3 DEF Resolved, BranchOps, ImmOps
    <3>2. args \in Argument \X Argument \X Argument
      BY <1>2, <1>4
    <3> QED BY <3>1, <3>2
  <2>4. CASE l.op \in ImmOps
    <3> DEFINE args == <<Literal(a), l.args[2], l.args[3]>>
    <3>1. Resolved(l, a) = [l EXCEPT !.args = args]
      BY <2>4 DEF Resolved, BranchOps, ImmOps
    <3>2. args \in Argument \X Argument \X Argument
      BY <1>2, <1>4
    <3> QED BY <3>1, <3>2
  <2>5. CASE l.op \notin {"lui", "ori"} \cup BranchOps \cup ImmOps
    <3> DEFINE args == <<l.args[1], l.args[2], Literal(a)>>
    <3>1. Resolved(l, a) = [l EXCEPT !.args = args]
      BY <2>5 DEF Resolved
    <3>2. args \in Argument \X Argument \X Argument
      BY <1>2, <1>4
    <3> QED BY <3>1, <3>2
  <2> QED BY <2>1, <2>2, <2>3, <2>4, <2>5
<1>7. ResolveLine(l) = l \/ ResolveLine(l) = Resolved(l, a)
  BY DEF ResolveLine, a
<1> QED BY <1>5, <1>6, <1>7
-----------------------------------------------------------------------------
\* The symbol table stays one.
LEMMA EnterLabelType ==
  ASSUME TypeOK, EnterLabel
  PROVE  syms' \in Seq(Symbol)
PROOF
<1> DEFINE new == [label |-> Tok(pos).word, section |-> mode,
                   addr |-> AddrHere, run |-> runs,
                   at |-> IF mode = "text" THEN Len(text) + 1
                                           ELSE Len(data) + 1]
<1>1. Tok(pos).word \in Words
  BY TokType DEF TypeOK
<1>2. AddrHere \in Nat /\ runs \in Nat
  BY RunsAssumption DEF TypeOK, AddrHere
<1>3. Len(text) + 1 \in Nat /\ Len(data) + 1 \in Nat
  BY LenProperties DEF TypeOK
<1>4. new \in Symbol
  BY <1>1, <1>2, <1>3 DEF TypeOK, Symbol
<1>5. syms' = Append(syms, new) \/ syms' = syms
  BY DEF EnterLabel
<1> HIDE DEF new
<1>6. syms \in Seq(Symbol)
  BY DEF TypeOK
<1>7. Append(syms, new) \in Seq(Symbol)
  BY <1>4, <1>6, AppendProperties
<1> QED BY <1>5, <1>6, <1>7

\* The records a statement adds, expanded or not.
InstrLines == IF InstrLine.op \in PseudoOps THEN ExpandPseudo(InstrLine)
                                            ELSE <<InstrLine>>

\* An instruction adds records four bytes apart from text_addr on.
LEMMA InstrLinesExpand ==
  ASSUME TypeOK
  PROVE  /\ InstrLines \in Seq(TextInfo)
         /\ \A k \in 1..Len(InstrLines) :
              /\ InstrLines[k].addr = text_addr + 4 * (k - 1)
              /\ InstrLines[k].standalone = FALSE
PROOF
<1>1. /\ source \in Seq(Token)
      /\ InstrLine \in TextInfo /\ InstrLine.addr = text_addr
      /\ InstrLine.standalone = FALSE
  BY InstrLineType DEF TypeOK
<1>2. ExpansionOf(InstrLine, ExpandPseudo(InstrLine))
  BY <1>1, PseudoExpansion
<1>3. ExpansionOf(InstrLine, <<InstrLine>>)
  BY <1>1, OneLine
<1>4. ExpansionOf(InstrLine, InstrLines)
  BY <1>2, <1>3 DEF InstrLines
<1>5. InstrLines \in Seq(TextInfo)
  BY <1>4 DEF ExpansionOf
<1>6. DOMAIN InstrLines = 1..Len(InstrLines)
  BY <1>5, LenProperties
<1> QED BY <1>1, <1>4, <1>5, <1>6 DEF ExpansionOf

\* What parseInstr does to the text, in terms of InstrLines.
LEMMA ParseInstrText ==
  ASSUME TypeOK, ParseInstr
  PROVE  /\ text' = text \o InstrLines
         /\ text_addr' = text_addr + 4 * Len(InstrLines)
PROOF BY DEF ParseInstr, Emit, InstrLines

\* A data directive adds a record at data_addr and moves it past the record.
LEMMA DataRecordType ==
  ASSUME TypeOK, ParseData
  PROVE  \E d \in DataInfo : /\ data' = Append(data, d)
                             /\ DataStartOf(d) = data_addr
                             /\ data_addr' = data_addr + d.items + d.space
PROOF
<1> DEFINE dir == StmtHead.word
           r == ParseDirective(dir, Stmt + 1)
           d == [directive |-> IF dir \in StoreDirectives THEN dir ELSE "none",
                 addr |-> IF r.early THEN data_addr ELSE data_addr + r.items,
                 items |-> r.items, space |-> r.space,
                 label |-> LabelOf("data"), error |-> r.error]
<1>1. IsReservation(dir, r)
  <2>1. Stmt + 1 \in Nat \ {0}
    BY DEF TypeOK, Stmt
  <2> HIDE DEF dir
  <2> QED BY <2>1, ReservationType DEF TypeOK
<1>2. LabelOf("data") \in Words
  BY TokType, KnownWords DEF TypeOK, LabelOf
<1>3. data' = Append(data, d) /\ data_addr' = EndOf(r)
  BY DEF ParseData
<1> HIDE DEF dir, r
<1>4. /\ r.items \in Nat /\ r.space \in Nat /\ r.error \in BOOLEAN
      /\ data_addr \in Nat
  BY <1>1 DEF IsReservation, TypeOK
<1>5. d.addr \in Nat
  BY <1>4
<1>6. (IF dir \in StoreDirectives THEN dir ELSE "none")
        \in StoreDirectives \cup {"none"}
  OBVIOUS
<1>7. d \in DataInfo
  BY <1>2, <1>4, <1>5, <1>6, Zenon DEF DataInfo
<1>8. d.directive \in {".byte", ".half"} <=> dir \in {".byte", ".half"}
  BY DEF StoreDirectives, ListDirectives
<1>9. DataStartOf(d) = data_addr
  <2>1. CASE dir \in {".byte", ".half"}
    <3>1. r.early = FALSE
      BY <1>1, <2>1 DEF IsReservation
    <3>2. d.addr = data_addr + r.items /\ d.items = r.items
      BY <3>1
    <3> QED BY <1>4, <1>8, <2>1, <3>2 DEF DataStartOf
  <2>2. CASE dir \notin {".byte", ".half"}
    <3>1. r.early = TRUE \/ r.items = 0
      BY <1>1, <2>2 DEF IsReservation
    <3>2. d.addr = data_addr
      BY <1>4, <3>1
    <3> QED BY <1>8, <2>2, <3>2 DEF DataStartOf
  <2> QED BY <2>1, <2>2
<1>10. data_addr' = data_addr + d.items + d.space
  BY <1>3 DEF EndOf
<1> QED BY <1>3, <1>7, <1>9, <1>10

\* A record for a line that is no statement uses up no address.
LEMMA StandaloneType ==
  ASSUME TypeOK
  PROVE  /\ StandaloneLine \in TextInfo
         /\ StandaloneLine.addr = text_addr
         /\ StandaloneLine.standalone = TRUE
PROOF
<1>1. LabelOf("text") \in Words
  BY TokType, KnownWords DEF TypeOK, LabelOf
<1>2. Malformed(StmtHead) \in BOOLEAN
  BY DEF Malformed
<1> QED BY <1>1, <1>2, BlankLineType
       DEF StandaloneLine, TextInfo, BlankLine, TypeOK
-----------------------------------------------------------------------------
(* Every reachable state is one the C++ types allow, whatever the sources. *)
THEOREM TypeCorrect == Spec => []TypeOK
PROOF
<1>1. Init => TypeOK
  <2>1. << >> \in Seq(Token) /\ << >> \in Seq(TextInfo)
        /\ << >> \in Seq(DataInfo) /\ << >> \in Seq(Symbol)
    OBVIOUS
  <2> QED BY <2>1, RunsAssumption DEF Init, TypeOK
<1>2. TypeOK /\ [Next]_vars => TypeOK'
  <2> SUFFICES ASSUME TypeOK, [Next]_vars PROVE TypeOK'
    OBVIOUS
  <2>1. CASE Lex
    <3>1. source' \in Seq(Token)
      BY <2>1, SourcesAssumption DEF Lex, LexOf
    <3>2. << >> \in Seq(TextInfo) /\ << >> \in Seq(DataInfo)
      OBVIOUS
    <3>3. runs' \in 0..MaxRuns
      BY <2>1, RunsAssumption DEF Lex, LexOf, TypeOK
    <3> QED BY <2>1, <3>1, <3>2, <3>3, AddrAssumption DEF Lex, LexOf, TypeOK
  <2>2. CASE ParseInstr
    <3>1. syms' \in Seq(Symbol)
      BY <2>2, EnterLabelType DEF ParseInstr
    <3>2. text' \in Seq(TextInfo)
      BY <2>2, InstrLinesExpand, ParseInstrText, ConcatProperties DEF TypeOK
    <3>3. text_addr' \in Nat
      <4>1. Len(InstrLines) \in Nat
        BY InstrLinesExpand, LenProperties
      <4> QED BY <2>2, <4>1, ParseInstrText DEF TypeOK
    <3>4. pos' \in Nat \ {0}
      <4> DEFINE used == ParseOperands(StmtHead.word, Stmt + 1).used
      <4>1. Stmt + 1 \in Nat
        BY DEF TypeOK, Stmt
      <4>2. used \in 0..3
        BY <4>1, OperandsType DEF TypeOK
      <4>3. pos' = Stmt + 1 + used
        BY <2>2 DEF ParseInstr
      <4>4. Stmt \in Nat \ {0}
        BY DEF TypeOK, Stmt
      <4> HIDE DEF used
      <4> QED BY <4>2, <4>3, <4>4
    <3> QED BY <2>2, <3>1, <3>2, <3>3, <3>4 DEF ParseInstr, TypeOK
  <2>3. CASE ParseSegment
    <3>1. syms' \in Seq(Symbol)
      BY <2>3, EnterLabelType DEF ParseSegment
    <3>2. pos' \in Nat \ {0}
      BY <2>3 DEF ParseSegment, Stmt, TypeOK
    <3> QED BY <2>3, <3>1, <3>2 DEF ParseSegment, TypeOK
  <2>4. CASE ParseData
    <3>1. syms' \in Seq(Symbol)
      BY <2>4, EnterLabelType DEF ParseData
    <3>2. PICK d \in DataInfo : /\ data' = Append(data, d)
                                /\ data_addr' = data_addr + d.items + d.space
      BY <2>4, DataRecordType
    <3>3. data' \in Seq(DataInfo)
      BY <3>2, AppendProperties DEF TypeOK
    <3>4. data_addr' \in Nat
      BY <3>2 DEF TypeOK, DataInfo
    <3>5. pos' \in Nat \ {0}
      <4> DEFINE used == ParseDirective(StmtHead.word, Stmt + 1).used
      <4>1. Stmt + 1 \in Nat \ {0}
        BY DEF TypeOK, Stmt
      <4>2. used \in Nat
        BY <4>1, ReservationType DEF TypeOK, IsReservation
      <4>3. pos' = Stmt + 1 + used
        BY <2>4 DEF ParseData
      <4>4. Stmt \in Nat \ {0}
        BY DEF TypeOK, Stmt
      <4> HIDE DEF used
      <4> QED BY <4>2, <4>3, <4>4
    <3>6. mode' \in {"text", "data"}
      BY <2>4 DEF ParseData, TypeOK
    <3> QED BY <2>4, <3>1, <3>3, <3>4, <3>5, <3>6 DEF ParseData, TypeOK
  <2>5. CASE ParseOther
    <3>1. syms' \in Seq(Symbol)
      BY <2>5, EnterLabelType DEF ParseOther
    <3>2. text' \in Seq(TextInfo)
      BY <2>5, StandaloneType, AppendProperties DEF ParseOther, TypeOK
    <3>3. pos' \in Nat \ {0}
      BY <2>5 DEF ParseOther, Stmt, TypeOK
    <3> QED BY <2>5, <3>1, <3>2, <3>3 DEF ParseOther, TypeOK
  <2>6. CASE SkipComment
    BY <2>6 DEF SkipComment, TypeOK
  <2>7. CASE ResolveLabels
    <3>1. text \in Seq(TextInfo) /\ DOMAIN text = 1..Len(text)
          /\ Len(text) \in Nat
      BY LenProperties DEF TypeOK
    <3>2. \A i \in 1..Len(text) : ResolveLine(text[i]) \in TextInfo
      BY <3>1, ElementOfSeq, ResolvedLine DEF TypeOK
    <3>3. text' = [i \in 1..Len(text) |-> ResolveLine(text[i])]
      BY <2>7, <3>1 DEF ResolveLabels
    <3>4. text' \in Seq(TextInfo)
      BY <3>1, <3>2, <3>3, SeqDef
    <3> QED BY <2>7, <3>4 DEF ResolveLabels, TypeOK
  <2>8. CASE Throw
    <3>1. syms' \in Seq(Symbol)
      BY <2>8, EnterLabelType DEF Throw
    <3>2. pos' \in Nat \ {0}
      BY <2>8 DEF Throw, Stmt, TypeOK
    <3> QED BY <2>8, <3>1, <3>2 DEF Throw, TypeOK
  <2>9. CASE UNCHANGED vars
    BY <2>9 DEF vars, TypeOK
  <2> QED BY <2>1, <2>2, <2>3, <2>4, <2>5, <2>6, <2>7, <2>8, <2>9
         DEF Next, ParseLine
<1> QED BY <1>1, <1>2, PTL DEF Spec
-----------------------------------------------------------------------------
(***************************************************************************)
(* Addresses.  What every action but Lex does to the records that exist:   *)
(* each stays where it is, and so does the end of each.                    *)
(***************************************************************************)
\* NextText of the text records t.
TextEnd(t, n) == IF n = 0 THEN TextStart ELSE t[n].addr + Width(t[n])

\* The records of the text segment and their widths.
LEMMA TextEnds ==
  ASSUME TypeOK
  PROVE  /\ Len(text) \in Nat /\ DOMAIN text = 1..Len(text)
         /\ \A i \in 1..Len(text) : /\ text[i] \in TextInfo
                                    /\ text[i].addr \in Nat
                                    /\ Width(text[i]) \in {0, 4}
                                    /\ text[i].standalone \in BOOLEAN
PROOF
<1>1. text \in Seq(TextInfo)
  BY DEF TypeOK
<1>2. \A i \in 1..Len(text) : text[i] \in TextInfo
  BY <1>1, ElementOfSeq
<1> QED BY <1>1, <1>2, LenProperties DEF TextInfo, Width

\* parseInstr appends behind the last record and moves none.
LEMMA InstrGrows ==
  ASSUME TypeOK, ParseInstr, text_addr = TextEnd(text, Len(text))
  PROVE  /\ Len(text') = Len(text) + Len(InstrLines)
         /\ Len(InstrLines) \in Nat
         /\ \A i \in 1..Len(text) : text'[i] = text[i]
         /\ \A i \in 0..Len(text) : TextEnd(text', i) = TextEnd(text, i)
         /\ \A k \in 1..Len(InstrLines) :
              /\ text'[Len(text) + k].addr = text_addr + 4 * (k - 1)
              /\ TextEnd(text', Len(text) + k) = text_addr + 4 * k
PROOF
<1> DEFINE n == Len(text)
           m == Len(InstrLines)
<1>1. /\ text \in Seq(TextInfo) /\ InstrLines \in Seq(TextInfo)
      /\ n \in Nat /\ m \in Nat /\ text_addr \in Nat
  BY InstrLinesExpand, LenProperties DEF TypeOK
<1>2. text' = text \o InstrLines
  BY ParseInstrText
<1>3. /\ Len(text') = n + m
      /\ \A i \in 1..(n + m) : text'[i] = IF i <= n THEN text[i]
                                                   ELSE InstrLines[i - n]
  BY <1>1, <1>2, ConcatProperties
<1>4. \A k \in 1..m : /\ InstrLines[k].addr = text_addr + 4 * (k - 1)
                      /\ InstrLines[k].standalone = FALSE
  BY InstrLinesExpand
<1> HIDE DEF n, m
<1>5. \A i \in 1..n : text'[i] = text[i]
  BY <1>1, <1>3
<1>6. \A i \in 0..n : TextEnd(text', i) = TextEnd(text, i)
  BY <1>1, <1>5 DEF TextEnd, Width
<1>7. ASSUME NEW k \in 1..m
      PROVE  /\ text'[n + k].addr = text_addr + 4 * (k - 1)
             /\ TextEnd(text', n + k) = text_addr + 4 * k
  <2>1. n + k \in 1..(n + m) /\ ~(n + k <= n) /\ (n + k) - n = k
        /\ n + k # 0
    BY <1>1
  <2>2. text'[n + k] = InstrLines[k]
    BY <1>3, <2>1
  <2>3. /\ text'[n + k].addr = text_addr + 4 * (k - 1)
        /\ text'[n + k].standalone = FALSE
    BY <1>4, <2>2
  <2>4. TextEnd(text', n + k) = text_addr + 4 * (k - 1) + 4
    BY <2>1, <2>3 DEF TextEnd, Width
  <2>5. text_addr + 4 * (k - 1) + 4 = text_addr + 4 * k
    BY <1>1
  <2> QED BY <2>3, <2>4, <2>5
<1> QED BY <1>1, <1>3, <1>5, <1>6, <1>7 DEF n, m

\* So does a line that is no statement, which adds no bytes.
LEMMA OtherGrows ==
  ASSUME TypeOK, ParseOther
  PROVE  /\ Len(text') = Len(text) + 1
         /\ \A i \in 1..Len(text) : text'[i] = text[i]
         /\ \A i \in 0..Len(text) : TextEnd(text', i) = TextEnd(text, i)
         /\ text'[Len(text) + 1].addr = text_addr
         /\ TextEnd(text', Len(text) + 1) = text_addr
PROOF
<1> DEFINE n == Len(text)
           line == StandaloneLine
<1>1. /\ text \in Seq(TextInfo) /\ n \in Nat /\ text_addr \in Nat
  BY LenProperties DEF TypeOK
<1>2. line \in TextInfo /\ line.addr = text_addr /\ line.standalone = TRUE
  BY StandaloneType
<1>3. text' = Append(text, line)
  BY DEF ParseOther
<1> HIDE DEF line
<1>4. /\ Len(text') = n + 1
      /\ \A i \in 1..n : text'[i] = text[i]
      /\ text'[n + 1] = line
  BY <1>1, <1>2, <1>3, AppendProperties
<1> HIDE DEF n
<1>5. \A i \in 0..n : TextEnd(text', i) = TextEnd(text, i)
  BY <1>1, <1>4 DEF TextEnd, Width
<1>6. text'[n + 1].addr = text_addr /\ TextEnd(text', n + 1) = text_addr
  BY <1>1, <1>2, <1>4 DEF TextEnd, Width
<1> QED BY <1>4, <1>5, <1>6 DEF n

\* resolveLabels moves no record.
LEMMA ResolveKeeps ==
  ASSUME TypeOK, ResolveLabels
  PROVE  /\ Len(text') = Len(text) /\ DOMAIN text' = 1..Len(text)
         /\ \A i \in 1..Len(text) : text'[i].addr = text[i].addr
         /\ \A i \in 0..Len(text) : TextEnd(text', i) = TextEnd(text, i)
PROOF
<1>1. /\ Len(text) \in Nat /\ DOMAIN text = 1..Len(text)
      /\ \A i \in 1..Len(text) : text[i] \in TextInfo
  BY TextEnds
<1>2. text' = [i \in 1..Len(text) |-> ResolveLine(text[i])]
  BY <1>1 DEF ResolveLabels
<1>3. \A i \in 1..Len(text) :
        /\ text'[i].addr = text[i].addr
        /\ text'[i].standalone = text[i].standalone
  BY <1>1, <1>2, ResolvedLine DEF TypeOK
<1>4. Len(text') = Len(text) /\ DOMAIN text' = 1..Len(text)
  BY <1>1, <1>2
<1>5. \A i \in 0..Len(text) : TextEnd(text', i) = TextEnd(text, i)
  BY <1>1, <1>3 DEF TextEnd, Width
<1> QED BY <1>3, <1>4, <1>5

\* TextLayout in terms of TextEnd.
LEMMA TextLayoutIsTextEnd ==
  ASSUME TypeOK
  PROVE  TextLayout <=>
           /\ \A i \in 1..Len(text) : text[i].addr = TextEnd(text, i - 1)
           /\ phase # "idle" => text_addr = TextEnd(text, Len(text))
PROOF BY TextEnds DEF TextLayout, NextText, TextEnd

\* TextLayout is inductive once the types are known.
LEMMA TextStep ==
  ASSUME TypeOK, TypeOK', TextLayout, [Next]_vars
  PROVE  TextLayout'
PROOF
<1> DEFINE n == Len(text)
<1>1. /\ n \in Nat /\ Len(text') \in Nat /\ DOMAIN text' = 1..Len(text')
      /\ text_addr \in Nat
  BY LenProperties DEF TypeOK
<1>2. /\ \A i \in 1..n : text[i].addr = TextEnd(text, i - 1)
      /\ phase # "idle" => text_addr = TextEnd(text, n)
  BY TextLayoutIsTextEnd
<1>3. SUFFICES /\ \A i \in 1..Len(text') : text'[i].addr = TextEnd(text', i - 1)
               /\ phase' # "idle" => text_addr' = TextEnd(text', Len(text'))
  BY <1>1 DEF TextLayout, NextText, TextEnd
<1>4. CASE Lex
  <2>1. text' = << >> /\ text_addr' = TextStart /\ Len(text') = 0
    BY <1>4 DEF Lex, LexOf
  <2> QED BY <2>1 DEF TextEnd
<1>5. CASE ParseInstr
  <2> DEFINE m == Len(InstrLines)
  <2>1. text_addr = NextText(Len(text)) /\ text_addr = TextEnd(text, n)
    BY <1>2, <1>5 DEF ParseInstr, Lexing, NextText, TextEnd
  <2>2. /\ Len(text') = n + m /\ m \in Nat
        /\ \A i \in 1..n : text'[i] = text[i]
        /\ \A i \in 0..n : TextEnd(text', i) = TextEnd(text, i)
        /\ \A k \in 1..m : /\ text'[n + k].addr = text_addr + 4 * (k - 1)
                           /\ TextEnd(text', n + k) = text_addr + 4 * k
    BY <1>5, <2>1, InstrGrows DEF NextText, TextEnd
  <2>3. text_addr' = text_addr + 4 * m
    BY <1>5, ParseInstrText
  <2> HIDE DEF n, m
  <2>4. \A k \in 0..m : TextEnd(text', n + k) = text_addr + 4 * k
    <3>1. TextEnd(text', n + 0) = text_addr + 4 * 0
      BY <1>1, <2>1, <2>2
    <3> QED BY <2>2, <3>1
  <2>5. ASSUME NEW i \in 1..(n + m)
        PROVE  text'[i].addr = TextEnd(text', i - 1)
    <3>1. CASE i <= n
      <4>1. i \in 1..n /\ i - 1 \in 0..n
        BY <1>1, <2>2, <3>1
      <4> QED BY <1>2, <2>2, <4>1 DEF n
    <3>2. CASE ~(i <= n)
      <4> DEFINE k == i - n
      <4>1. k \in 1..m /\ k - 1 \in 0..m /\ i = n + k /\ i - 1 = n + (k - 1)
        BY <1>1, <2>2, <3>2
      <4> HIDE DEF k
      <4> QED BY <2>2, <2>4, <4>1
    <3> QED BY <3>1, <3>2
  <2>6. m \in 0..m
    BY <2>2
  <2> QED BY <2>2, <2>3, <2>4, <2>5, <2>6
<1>6. CASE ParseOther
  <2>1. text_addr = TextEnd(text, n)
    BY <1>2, <1>6 DEF ParseOther, Lexing
  <2>2. /\ Len(text') = n + 1
        /\ \A i \in 1..n : text'[i] = text[i]
        /\ \A i \in 0..n : TextEnd(text', i) = TextEnd(text, i)
        /\ text'[n + 1].addr = text_addr
        /\ TextEnd(text', n + 1) = text_addr
    BY <1>6, OtherGrows
  <2>3. text_addr' = text_addr
    BY <1>6 DEF ParseOther
  <2> HIDE DEF n
  <2>4. ASSUME NEW i \in 1..(n + 1)
        PROVE  text'[i].addr = TextEnd(text', i - 1)
    <3>1. CASE i = n + 1
      <4>1. i - 1 = n /\ n \in 0..n
        BY <1>1, <3>1
      <4> QED BY <2>1, <2>2, <3>1, <4>1
    <3>2. CASE i # n + 1
      <4>1. i \in 1..n /\ i - 1 \in 0..n
        BY <1>1, <3>2
      <4> QED BY <1>2, <2>2, <4>1 DEF n
    <3> QED BY <3>1, <3>2
  <2> QED BY <2>2, <2>3, <2>4
<1>7. CASE ResolveLabels
  <2>1. /\ Len(text') = n
        /\ \A i \in 1..n : text'[i].addr = text[i].addr
        /\ \A i \in 0..n : TextEnd(text', i) = TextEnd(text, i)
    BY <1>7, ResolveKeeps
  <2>2. text_addr' = text_addr /\ phase # "idle"
    BY <1>7 DEF ResolveLabels
  <2> HIDE DEF n
  <2>3. ASSUME NEW i \in 1..n PROVE text'[i].addr = TextEnd(text', i - 1)
    <3>1. i - 1 \in 0..n
      BY <1>1
    <3> QED BY <1>2, <2>1, <3>1 DEF n
  <2>4. n \in 0..n
    BY <1>1
  <2> QED BY <1>2, <2>1, <2>2, <2>3, <2>4 DEF n
<1>8. CASE ParseSegment \/ ParseData \/ Throw \/ SkipComment \/ UNCHANGED vars
  <2>1. text' = text /\ text_addr' = text_addr
    BY <1>8 DEF ParseSegment, ParseData, Throw, SkipComment, vars
  <2>2. phase' # "idle" => phase # "idle"
    BY <1>8 DEF ParseSegment, ParseData, Throw, Lexing, SkipComment, vars
  <2> QED BY <1>2, <2>1, <2>2
<1> QED BY <1>4, <1>5, <1>6, <1>7, <1>8 DEF Next, ParseLine

(* Text addresses are those of one gapless segment from text_start_addr    *)
(* on, for every source and every number of lex() calls: what expandPsuedo *)
(* hands out and what lex() counts never drift apart.                      *)
THEOREM TextIsGapless == Spec => []TextLayout
PROOF
<1>1. Init => TextLayout
  BY DEF Init, TextLayout
<1>2. TypeOK /\ TypeOK' /\ TextLayout /\ [Next]_vars => TextLayout'
  BY TextStep
<1> QED BY <1>1, <1>2, TypeCorrect, PTL DEF Spec
-----------------------------------------------------------------------------
\* NextData of the data records t.
DataEnd(t, n) == IF n = 0 THEN DataStart
                 ELSE DataStartOf(t[n]) + t[n].items + t[n].space

\* parseDirective appends behind the last record and moves none.
LEMMA DataGrows ==
  ASSUME TypeOK, ParseData
  PROVE  /\ Len(data') = Len(data) + 1
         /\ \A i \in 1..Len(data) : data'[i] = data[i]
         /\ \A i \in 0..Len(data) : DataEnd(data', i) = DataEnd(data, i)
         /\ DataStartOf(data'[Len(data) + 1]) = data_addr
         /\ DataEnd(data', Len(data) + 1) = data_addr'
PROOF
<1> DEFINE n == Len(data)
<1>1. /\ data \in Seq(DataInfo) /\ n \in Nat /\ data_addr \in Nat
  BY LenProperties DEF TypeOK
<1>2. PICK d \in DataInfo : /\ data' = Append(data, d)
                            /\ DataStartOf(d) = data_addr
                            /\ data_addr' = data_addr + d.items + d.space
  BY DataRecordType
<1>3. /\ Len(data') = n + 1
      /\ \A i \in 1..n : data'[i] = data[i]
      /\ data'[n + 1] = d
  BY <1>1, <1>2, AppendProperties
<1> HIDE DEF n
<1>4. \A i \in 0..n : DataEnd(data', i) = DataEnd(data, i)
  BY <1>1, <1>3 DEF DataEnd
<1>5. DataEnd(data', n + 1) = data_addr'
  BY <1>1, <1>2, <1>3 DEF DataEnd
<1> QED BY <1>2, <1>3, <1>4, <1>5 DEF n

\* DataLayout in terms of DataEnd.
LEMMA DataLayoutIsDataEnd ==
  ASSUME TypeOK
  PROVE  DataLayout <=>
           /\ \A i \in 1..Len(data) :
                DataStartOf(data[i]) = DataEnd(data, i - 1)
           /\ phase # "idle" => data_addr = DataEnd(data, Len(data))
PROOF
<1>1. DOMAIN data = 1..Len(data) /\ Len(data) \in Nat
  BY LenProperties DEF TypeOK
<1> QED BY <1>1 DEF DataLayout, NextData, DataEnd

\* DataLayout is inductive once the types are known.
LEMMA DataStep ==
  ASSUME TypeOK, TypeOK', DataLayout, [Next]_vars
  PROVE  DataLayout'
PROOF
<1> DEFINE n == Len(data)
<1>1. /\ n \in Nat /\ Len(data') \in Nat /\ DOMAIN data' = 1..Len(data')
  BY LenProperties DEF TypeOK
<1>2. /\ \A i \in 1..n : DataStartOf(data[i]) = DataEnd(data, i - 1)
      /\ phase # "idle" => data_addr = DataEnd(data, n)
  BY DataLayoutIsDataEnd
<1>3. SUFFICES /\ \A i \in 1..Len(data') :
                     DataStartOf(data'[i]) = DataEnd(data', i - 1)
               /\ phase' # "idle" => data_addr' = DataEnd(data', Len(data'))
  BY <1>1 DEF DataLayout, NextData, DataEnd
<1>4. CASE Lex
  <2>1. data' = << >> /\ data_addr' = DataStart /\ Len(data') = 0
    BY <1>4 DEF Lex, LexOf
  <2> QED BY <2>1 DEF DataEnd
<1>5. CASE ParseData
  <2>1. data_addr = DataEnd(data, n)
    BY <1>2, <1>5 DEF ParseData, Lexing
  <2>2. /\ Len(data') = n + 1
        /\ \A i \in 1..n : data'[i] = data[i]
        /\ \A i \in 0..n : DataEnd(data', i) = DataEnd(data, i)
        /\ DataStartOf(data'[n + 1]) = data_addr
        /\ DataEnd(data', n + 1) = data_addr'
    BY <1>5, DataGrows
  <2> HIDE DEF n
  <2>3. ASSUME NEW i \in 1..(n + 1)
        PROVE  DataStartOf(data'[i]) = DataEnd(data', i - 1)
    <3>1. CASE i = n + 1
      <4>1. i - 1 = n /\ n \in 0..n
        BY <1>1, <3>1
      <4> QED BY <2>1, <2>2, <3>1, <4>1
    <3>2. CASE i # n + 1
      <4>1. i \in 1..n /\ i - 1 \in 0..n
        BY <1>1, <3>2
      <4> QED BY <1>2, <2>2, <4>1 DEF n
    <3> QED BY <3>1, <3>2
  <2> QED BY <2>2, <2>3
<1>6. CASE \/ ParseInstr \/ ParseSegment \/ ParseOther \/ Throw \/ SkipComment
           \/ ResolveLabels \/ UNCHANGED vars
  <2>1. data' = data /\ data_addr' = data_addr
    BY <1>6 DEF ParseInstr, ParseSegment, ParseOther, Throw, SkipComment,
                ResolveLabels, vars
  <2>2. phase' # "idle" => phase # "idle"
    BY <1>6 DEF ParseInstr, ParseSegment, ParseOther, Throw, Lexing,
                SkipComment, ResolveLabels, vars
  <2> QED BY <1>2, <2>1, <2>2
<1> QED BY <1>4, <1>5, <1>6 DEF Next, ParseLine

(* Data records occupy consecutive ranges of the data segment, whatever    *)
(* the lists, spaces and strings of the source and whichever of them fail. *)
THEOREM DataIsGapless == Spec => []DataLayout
PROOF
<1>1. Init => DataLayout
  BY DEF Init, DataLayout
<1>2. TypeOK /\ TypeOK' /\ DataLayout /\ [Next]_vars => DataLayout'
  BY DataStep
<1> QED BY <1>1, <1>2, TypeCorrect, PTL DEF Spec
-----------------------------------------------------------------------------
(***************************************************************************)
(* Labels.  LabelMarksNext speaks of records that need not exist yet; what *)
(* makes it inductive is that no label of this run marks a place beyond    *)
(* the next record, and that no run but this one is the latest.            *)
(***************************************************************************)
Records(section, t, d) == IF section = "text" THEN Len(t) ELSE Len(d)

\* Where the n-th record of a segment ends.
EndOfRecord(section, t, d, n) ==
  IF section = "text" THEN TextEnd(t, n) ELSE DataEnd(d, n)

\* No step of a lex() call removes or moves a record that exists.
LEMMA RecordsKept ==
  ASSUME TypeOK, TypeOK', TextLayout, [Next]_vars, ~Lex
  PROVE  /\ runs' = runs
         /\ \A section \in {"text", "data"} :
              /\ Records(section, text, data) \in Nat
              /\ Records(section, text', data') \in Nat
              /\ Records(section, text', data') >= Records(section, text, data)
              /\ \A i \in 0..Records(section, text, data) :
                   EndOfRecord(section, text', data', i)
                     = EndOfRecord(section, text, data, i)
PROOF
<1>1. /\ Len(text) \in Nat /\ Len(text') \in Nat
      /\ Len(data) \in Nat /\ Len(data') \in Nat
  BY LenProperties DEF TypeOK
<1>2. CASE ParseInstr
  <2>1. text_addr = NextText(Len(text))
    BY <1>2 DEF ParseInstr, Lexing, TextLayout
  <2>2. /\ Len(text') >= Len(text)
        /\ \A i \in 0..Len(text) : TextEnd(text', i) = TextEnd(text, i)
    <3>1. text_addr = TextEnd(text, Len(text))
      BY <2>1 DEF NextText, TextEnd
    <3>2. /\ Len(text') = Len(text) + Len(InstrLines)
          /\ Len(InstrLines) \in Nat
          /\ \A i \in 0..Len(text) : TextEnd(text', i) = TextEnd(text, i)
      BY <1>2, <3>1, InstrGrows
    <3> QED BY <1>1, <3>2
  <2>3. data' = data /\ runs' = runs
    BY <1>2 DEF ParseInstr
  <2> QED BY <1>1, <2>2, <2>3 DEF Records, EndOfRecord
<1>3. CASE ParseOther
  <2>1. /\ Len(text') >= Len(text)
        /\ \A i \in 0..Len(text) : TextEnd(text', i) = TextEnd(text, i)
    BY <1>1, <1>3, OtherGrows
  <2>2. data' = data /\ runs' = runs
    BY <1>3 DEF ParseOther
  <2> QED BY <1>1, <2>1, <2>2 DEF Records, EndOfRecord
<1>4. CASE ParseData
  <2>1. /\ Len(data') >= Len(data)
        /\ \A i \in 0..Len(data) : DataEnd(data', i) = DataEnd(data, i)
    BY <1>1, <1>4, DataGrows
  <2>2. text' = text /\ runs' = runs
    BY <1>4 DEF ParseData
  <2> QED BY <1>1, <2>1, <2>2 DEF Records, EndOfRecord
<1>5. CASE ResolveLabels
  <2>1. /\ Len(text') = Len(text)
        /\ \A i \in 0..Len(text) : TextEnd(text', i) = TextEnd(text, i)
    BY <1>5, ResolveKeeps
  <2>2. data' = data /\ runs' = runs
    BY <1>5 DEF ResolveLabels
  <2> QED BY <1>1, <2>1, <2>2 DEF Records, EndOfRecord
<1>6. CASE ParseSegment \/ Throw \/ SkipComment \/ UNCHANGED vars
  <2>1. text' = text /\ data' = data /\ runs' = runs
    BY <1>6 DEF ParseSegment, Throw, SkipComment, vars
  <2> QED BY <1>1, <2>1 DEF Records, EndOfRecord
<1> QED BY <1>2, <1>3, <1>4, <1>5, <1>6 DEF Next, ParseLine

\* The one symbol a step may add.
NewSymbol == [label |-> Tok(pos).word, section |-> mode, addr |-> AddrHere,
              run |-> runs,
              at |-> IF mode = "text" THEN Len(text) + 1 ELSE Len(data) + 1]

\* The symbol table only grows, one symbol at a time.
LEMMA SymbolsGrow ==
  ASSUME TypeOK, [Next]_vars
  PROVE  \/ syms' = syms
         \/ phase = "lex" /\ syms' = Append(syms, NewSymbol)
PROOF
<1>1. EnterLabel => syms' = syms \/ syms' = Append(syms, NewSymbol)
  BY DEF EnterLabel, NewSymbol
<1>2. CASE ParseInstr \/ ParseSegment \/ ParseData \/ ParseOther \/ Throw
  BY <1>1, <1>2 DEF ParseInstr, ParseSegment, ParseData, ParseOther, Throw,
                    Lexing
<1>3. CASE Lex \/ SkipComment \/ ResolveLabels \/ UNCHANGED vars
  BY <1>3 DEF Lex, LexOf, SkipComment, ResolveLabels, vars
<1> QED BY <1>2, <1>3 DEF Next, ParseLine

\* LabelMarksNext in the terms of the lemmas.
Marks(s, t, d) == s.addr = EndOfRecord(s.section, t, d, s.at - 1)

LabelInv ==
  \A i \in DOMAIN syms :
    /\ syms[i].run <= runs
    /\ syms[i].run = runs =>
         /\ syms[i].at - 1 \in 0..Records(syms[i].section, text, data)
         /\ Marks(syms[i], text, data)

\* LabelInv is inductive once both layouts are known.
LEMMA LabelStep ==
  ASSUME TypeOK, TypeOK', TextLayout, DataLayout, LabelInv, [Next]_vars
  PROVE  LabelInv'
PROOF
<1>1. /\ syms \in Seq(Symbol) /\ DOMAIN syms = 1..Len(syms)
      /\ Len(syms) \in Nat
      /\ \A i \in 1..Len(syms) : syms[i] \in Symbol
      /\ runs \in Nat
  BY LenProperties, ElementOfSeq, RunsAssumption DEF TypeOK
<1>2. CASE Lex
  <2>1. runs' = runs + 1 /\ syms' = syms
    BY <1>2 DEF Lex, LexOf
  <2>2. \A i \in DOMAIN syms : syms[i].run <= runs' /\ syms[i].run # runs'
    BY <1>1, <2>1 DEF LabelInv, Symbol
  <2> QED BY <2>1, <2>2 DEF LabelInv
<1>3. CASE ~Lex
  <2>1. /\ runs' = runs
        /\ \A section \in {"text", "data"} :
             /\ Records(section, text, data) \in Nat
             /\ Records(section, text', data') \in Nat
             /\ Records(section, text', data') >= Records(section, text, data)
             /\ \A i \in 0..Records(section, text, data) :
                  EndOfRecord(section, text', data', i)
                    = EndOfRecord(section, text, data, i)
    BY <1>3, RecordsKept
  <2>2. ASSUME NEW s \in Symbol, s.run <= runs,
               s.run = runs => /\ s.at - 1 \in 0..Records(s.section, text, data)
                               /\ Marks(s, text, data)
        PROVE  /\ s.run <= runs'
               /\ s.run = runs' =>
                    /\ s.at - 1 \in 0..Records(s.section, text', data')
                    /\ Marks(s, text', data')
    <3>1. s.section \in {"text", "data"} /\ s.at \in Nat
      BY DEF Symbol
    <3>2. ASSUME s.run = runs
          PROVE  /\ s.at - 1 \in 0..Records(s.section, text', data')
                 /\ Marks(s, text', data')
      <4>1. s.at - 1 \in 0..Records(s.section, text, data)
        BY <2>2, <3>2
      <4>2. EndOfRecord(s.section, text', data', s.at - 1)
              = EndOfRecord(s.section, text, data, s.at - 1)
        BY <2>1, <3>1, <4>1
      <4>3. s.at - 1 \in 0..Records(s.section, text', data')
        BY <2>1, <3>1, <4>1
      <4> QED BY <2>2, <3>2, <4>2, <4>3 DEF Marks
    <3> QED BY <2>1, <2>2, <3>2
  <2>3. ASSUME NEW i \in DOMAIN syms
        PROVE  /\ syms[i].run <= runs'
               /\ syms[i].run = runs' =>
                    /\ syms[i].at - 1
                         \in 0..Records(syms[i].section, text', data')
                    /\ Marks(syms[i], text', data')
    <3> DEFINE s == syms[i]
    <3>1. /\ s \in Symbol /\ s.run <= runs
          /\ s.run = runs => /\ s.at - 1 \in 0..Records(s.section, text, data)
                             /\ Marks(s, text, data)
      BY <1>1 DEF LabelInv
    <3> QED BY <2>2, <3>1
  <2>4. CASE syms' = syms
    BY <2>3, <2>4 DEF LabelInv
  <2>5. CASE phase = "lex" /\ syms' = Append(syms, NewSymbol)
    <3> DEFINE new == NewSymbol
               n == Len(syms)
    <3>1. /\ new.run = runs /\ new.section = mode
          /\ new.at - 1 = Records(mode, text, data)
          /\ Records(mode, text, data) \in Nat
      BY LenProperties DEF NewSymbol, Records, TypeOK
    <3>2. new.addr = EndOfRecord(mode, text, data, Records(mode, text, data))
      <4>1. /\ text_addr = TextEnd(text, Len(text))
            /\ data_addr = DataEnd(data, Len(data))
        BY <2>5, TextLayoutIsTextEnd, DataLayoutIsDataEnd
      <4>2. new.addr = AddrHere
        BY DEF NewSymbol
      <4> QED BY <4>1, <4>2 DEF AddrHere, EndOfRecord, Records
    <3>3. new \in Symbol
      <4>1. /\ DOMAIN syms' = 1..Len(syms') /\ Len(syms') = n + 1
            /\ syms'[n + 1] = new
        BY <1>1, <2>5
      <4>2. syms' \in Seq(Symbol) /\ n + 1 \in 1..Len(syms')
        BY <1>1, <4>1 DEF TypeOK
      <4> QED BY <4>1, <4>2, ElementOfSeq
    <3>4. /\ new.run <= runs
          /\ new.at - 1 \in 0..Records(new.section, text, data)
          /\ Marks(new, text, data)
      BY <1>1, <3>1, <3>2 DEF Marks
    <3>5. /\ new.run <= runs'
          /\ new.run = runs' =>
               /\ new.at - 1 \in 0..Records(new.section, text', data')
               /\ Marks(new, text', data')
      BY <2>2, <3>3, <3>4
    <3> HIDE DEF new
    <3>6. /\ DOMAIN syms' = 1..(n + 1)
          /\ \A i \in 1..n : syms'[i] = syms[i]
          /\ syms'[n + 1] = new
      BY <1>1, <2>5, <3>3, AppendProperties DEF new
    <3>7. ASSUME NEW i \in DOMAIN syms'
          PROVE  /\ syms'[i].run <= runs'
                 /\ syms'[i].run = runs' =>
                      /\ syms'[i].at - 1
                           \in 0..Records(syms'[i].section, text', data')
                      /\ Marks(syms'[i], text', data')
      <4>1. CASE i = n + 1
        BY <3>5, <3>6, <4>1
      <4>2. CASE i \in 1..n
        BY <1>1, <2>3, <3>6, <4>2
      <4> QED BY <1>1, <3>6, <4>1, <4>2
    <3> QED BY <3>7 DEF LabelInv
  <2> QED BY <2>4, <2>5, SymbolsGrow
<1> QED BY <1>2, <1>3

\* A symbol of this call speaks of a record that is there or comes next.
LEMMA LabelInvHolds == Spec => []LabelInv
PROOF
<1>1. Init => LabelInv
  BY DEF Init, LabelInv
<1>2. TypeOK /\ TypeOK' /\ TextLayout /\ DataLayout /\ LabelInv /\ [Next]_vars
        => LabelInv'
  BY LabelStep
<1> QED BY <1>1, <1>2, TypeCorrect, TextIsGapless, DataIsGapless, PTL DEF Spec

(* A label defined in the current source marks the next record of its      *)
(* segment, whichever statement follows it and whatever it expands to.     *)
THEOREM LabelsMarkNext == Spec => []LabelMarksNext
PROOF
<1>1. TypeOK /\ LabelInv => LabelMarksNext
  <2> SUFFICES ASSUME TypeOK, LabelInv, NEW i \in DOMAIN syms,
                      syms[i].run = runs
               PROVE  syms[i].addr = IF syms[i].section = "text"
                                     THEN NextText(syms[i].at - 1)
                                     ELSE NextData(syms[i].at - 1)
    BY DEF LabelMarksNext
  <2> QED BY DEF LabelInv, Marks, EndOfRecord, TextEnd, DataEnd, NextText,
                 NextData
<1> QED BY <1>1, TypeCorrect, LabelInvHolds, PTL
-----------------------------------------------------------------------------
(***************************************************************************)
(* What lex() does with records and names over time: it touches a record   *)
(* once, when labels are resolved (LinesStable), a name has one address    *)
(* for good (AddressesArePermanent), the halves of a pair stay together    *)
(* (PairsTogether), exactly the undefined names stay unresolved, and every *)
(* other reference leads to its label.                                     *)
(***************************************************************************)
\* What resolveLabels puts into a line.
LEMMA ResolvedArgs ==
  ASSUME NEW l \in TextInfo, NEW a
  PROVE  \E args : Resolved(l, a) = [l EXCEPT !.args = args]
<1>1. CASE l.op = "lui"
  BY <1>1 DEF Resolved, BranchOps, ImmOps
<1>2. CASE l.op = "ori"
  BY <1>2 DEF Resolved, BranchOps, ImmOps
<1>3. CASE l.op \in BranchOps
  BY <1>3 DEF Resolved, BranchOps, ImmOps
<1>4. CASE l.op \in ImmOps
  BY <1>4 DEF Resolved, BranchOps, ImmOps
<1>5. CASE l.op \notin {"lui", "ori"} \cup BranchOps \cup ImmOps
  BY <1>5 DEF Resolved
<1> QED BY <1>1, <1>2, <1>3, <1>4, <1>5

LEMMA ResolvedKeeps ==
  ASSUME NEW l \in TextInfo
  PROVE  /\ SameButArgs(l, ResolveLine(l)) /\ SameButArgs(l, l)
         /\ ResolveLine(l).op = l.op /\ ResolveLine(l).lower = l.lower
         /\ ResolveLine(l).upper = l.upper /\ ResolveLine(l).addr = l.addr
         /\ ResolveLine(l).is_symbol = l.is_symbol
         /\ ResolveLine(l).symbol = l.symbol
<1>1. ASSUME NEW args
      PROVE  LET m == [l EXCEPT !.args = args]
             IN /\ SameButArgs(l, m) /\ m.op = l.op /\ m.lower = l.lower
                /\ m.upper = l.upper /\ m.addr = l.addr
                /\ m.is_symbol = l.is_symbol /\ m.symbol = l.symbol
  BY DEF TextInfo, SameButArgs
<1>2. SameButArgs(l, l)
  BY DEF TextInfo, SameButArgs
<1>3. ResolveLine(l) = l \/ \E args : ResolveLine(l) = [l EXCEPT !.args = args]
  BY ResolvedArgs DEF ResolveLine
<1> QED BY <1>1, <1>2, <1>3

\* The records that are there before a step of lex().
LEMMA RecordsStable ==
  ASSUME TypeOK, [Next]_vars, phase = "lex"
  PROVE  /\ Len(text') >= Len(text)
         /\ \A i \in DOMAIN text : /\ SameButArgs(text[i], text'[i])
                                   /\ phase' = "lex" => text'[i] = text[i]
<1>1. /\ Len(text) \in Nat /\ DOMAIN text = 1..Len(text)
      /\ \A i \in 1..Len(text) : text[i] \in TextInfo
  BY TextEnds
<1>2. \A i \in 1..Len(text) : /\ SameButArgs(text[i], text[i])
                              /\ SameButArgs(text[i], ResolveLine(text[i]))
  BY <1>1, ResolvedKeeps
<1>3. CASE ParseInstr
  <2>1. text' = text \o InstrLines /\ InstrLines \in Seq(TextInfo)
    BY <1>3, ParseInstrText, InstrLinesExpand
  <2>2. Len(text') >= Len(text) /\ \A i \in 1..Len(text) : text'[i] = text[i]
    BY <1>1, <2>1 DEF TypeOK
  <2> QED BY <1>1, <1>2, <2>2
<1>4. CASE ParseOther
  <2>1. Len(text') >= Len(text) /\ \A i \in 1..Len(text) : text'[i] = text[i]
    BY <1>1, <1>4, OtherGrows
  <2> QED BY <1>1, <1>2, <2>1
<1>5. CASE ResolveLabels
  <2>1. /\ text' = [i \in 1..Len(text) |-> ResolveLine(text[i])]
        /\ phase' # "lex"
    BY <1>1, <1>5 DEF ResolveLabels
  <2>2. Len(text') = Len(text)
    BY <1>1, <1>5, ResolveKeeps
  <2> QED BY <1>1, <1>2, <2>1, <2>2
<1>6. CASE ParseData \/ ParseSegment \/ Throw \/ SkipComment \/ UNCHANGED vars
  <2>1. text' = text
    BY <1>6 DEF ParseData, ParseSegment, Throw, SkipComment, vars
  <2> QED BY <1>1, <1>2, <2>1
<1>7. ~Lex
  BY DEF Lex
<1> QED BY <1>3, <1>4, <1>5, <1>6, <1>7 DEF Next, ParseLine

(* LinesStable, whatever the source: parsing adds records and leaves those *)
(* there are alone, resolving changes arguments only.                      *)
THEOREM RecordsAreStable == Spec => LinesStable
<1> DEFINE Stable == phase = "lex" =>
             /\ Len(text') >= Len(text)
             /\ \A i \in DOMAIN text : /\ SameButArgs(text[i], text'[i])
                                       /\ phase' = "lex" => text'[i] = text[i]
<1>1. TypeOK /\ [Next]_vars => [Stable]_vars
  BY RecordsStable
<1> QED BY <1>1, TypeCorrect, PTL DEF Spec, LinesStable
-----------------------------------------------------------------------------
\* The least index is the one getAddr finds, and stays the least when the
\* table grows.
LEMMA FirstDefIs ==
  ASSUME syms \in Seq(Symbol), NEW s, Defs(s) # {}
  PROVE  /\ FirstDef(s) \in Defs(s) /\ Defs(s) \subseteq 1..Len(syms)
         /\ \A j \in Defs(s) : FirstDef(s) <= j
<1>1. Defs(s) \in SUBSET Nat /\ Defs(s) \subseteq 1..Len(syms)
  BY DEF Defs
<1>2. \E i \in Defs(s) : \A j \in Defs(s) : i <= j
  BY <1>1, LeastElement
<1> QED BY <1>1, <1>2 DEF FirstDef

(* AddressesArePermanent, over any number of sources.                      *)
THEOREM AddressesStay == Spec => AddressesArePermanent
<1> DEFINE Labels == {syms[i].label : i \in DOMAIN syms}
           Same == \A s \in Labels : GetAddr(s)' = GetAddr(s)
<1>1. TypeOK /\ TypeOK' /\ [Next]_vars => [Same]_vars
  <2> SUFFICES ASSUME TypeOK, TypeOK', [Next]_vars, NEW s \in Labels
               PROVE  GetAddr(s)' = GetAddr(s)
    OBVIOUS
  <2>1. /\ syms \in Seq(Symbol) /\ syms' \in Seq(Symbol)
        /\ Len(syms) \in Nat /\ DOMAIN syms = 1..Len(syms)
    BY DEF TypeOK
  <2>2. Defs(s) # {}
    BY DEF Defs
  <2>3. /\ FirstDef(s) \in Defs(s) /\ Defs(s) \subseteq 1..Len(syms)
        /\ \A j \in Defs(s) : FirstDef(s) <= j
    BY <2>1, <2>2, FirstDefIs
  <2>4. CASE syms' = syms
    BY <2>4 DEF GetAddr, FirstDef, Defs
  <2>5. CASE syms' = Append(syms, NewSymbol)
    <3>1. /\ Len(syms') = Len(syms) + 1 /\ DOMAIN syms' = 1..Len(syms')
          /\ \A i \in 1..Len(syms) : syms'[i] = syms[i]
      BY <2>1, <2>5
    <3>2. Defs(s) \subseteq Defs(s)'
      BY <2>1, <3>1 DEF Defs
    <3>3. Defs(s)' \subseteq Defs(s) \cup {Len(syms) + 1}
      BY <2>1, <3>1 DEF Defs
    <3>4. Defs(s)' # {}
      BY <2>2, <3>2
    <3>5. /\ FirstDef(s)' \in Defs(s)'
          /\ \A j \in Defs(s)' : FirstDef(s)' <= j
      <4>1. Defs(s)' \in SUBSET Nat
        BY <2>1, <2>3, <3>3
      <4>2. \E i \in Defs(s)' : \A j \in Defs(s)' : i <= j
        BY <3>4, <4>1, LeastElement
      <4> QED BY <4>2 DEF FirstDef
    <3>6. FirstDef(s)' <= FirstDef(s)
      BY <2>3, <3>2, <3>5
    <3>7. FirstDef(s)' \in Defs(s) /\ FirstDef(s)' \in 1..Len(syms)
      BY <2>1, <2>3, <3>3, <3>5, <3>6
    <3>8. FirstDef(s)' = FirstDef(s)
      BY <2>1, <2>3, <3>6, <3>7
    <3>9. syms'[FirstDef(s)'] = syms[FirstDef(s)]
      BY <3>1, <3>7, <3>8
    <3>10. GetAddr(s)' = syms'[FirstDef(s)'].addr
      BY <3>4 DEF GetAddr
    <3>11. GetAddr(s) = syms[FirstDef(s)].addr
      BY <2>2 DEF GetAddr
    <3> QED BY <3>9, <3>10, <3>11
  <2> QED BY <2>4, <2>5, SymbolsGrow
<1> QED BY <1>1, TypeCorrect, PTL DEF Spec, AddressesArePermanent
-----------------------------------------------------------------------------
(***************************************************************************)
(* What a record is like between parsing and resolving.                    *)
(***************************************************************************)
\* The argument a symbol stands in for.
RefArg(l) == IF l.op \in ImmOps THEN l.args[1] ELSE l.args[3]
Waiting(l) == l.is_symbol => RefArg(l).type = "LABEL"

\* The two halves of a load, h the high one; is_symbol and the opcode are
\* what PairsTogether needs to outlive resolveLabels.
PairOf(h, l) ==
  /\ h.op = "lui" /\ h.upper /\ l.op = "ori"
  /\ l.addr = h.addr + 4
  /\ l.args[1] = h.args[1] /\ l.args[2] = l.args[1]
  /\ l.symbol = h.symbol /\ l.is_symbol = h.is_symbol
  /\ l.args[3].type = h.args[3].type

\* The records of one statement.
Fresh(lines) ==
  \A k \in DOMAIN lines :
    /\ Waiting(lines[k])
    /\ lines[k].lower => k = 2 /\ PairOf(lines[1], lines[2])

\* The third argument or, for a jump, the first is the label that was read.
LEMMA OperandsWait ==
  ASSUME NEW op, NEW i, ParseOperands(op, i).immAt > 0,
         IsLabel(Tok(ParseOperands(op, i).immAt))
  PROVE  (IF op \in ImmOps THEN ParseOperands(op, i).args[1]
                           ELSE ParseOperands(op, i).args[3]).type = "LABEL"
<1> DEFINE ops == ParseOperands(op, i)
<1>1. \A k : IsLabel(Tok(k)) => ParseImmediate(k).type = "LABEL"
  BY DEF IsLabel, ParseImmediate
<1>2. CASE op \in ImmOps
  <2>1. ops = [args |-> <<ParseImmediate(i), NoArg, NoArg>>,
               used |-> 1, immAt |-> i, checked |-> FALSE]
    BY <1>2, SMT DEF ParseOperands, RegOps, ImmOps, RegRegOps, RegImmOps,
       OffsetOps, RegRegImmOps, ArithImmOps, BranchOps, CompareOps, RegRegRegOps
  <2> QED BY <1>1, <1>2, <2>1
<1>3. CASE op \in RegImmOps
  <2>1. ops = [args |-> <<ParseRegister(i), NoArg, ParseImmediate(i + 1)>>,
               used |-> 2, immAt |-> i + 1, checked |-> TRUE]
    BY <1>3, SMT DEF ParseOperands, RegOps, ImmOps, RegRegOps, RegImmOps,
       OffsetOps, RegRegImmOps, ArithImmOps, BranchOps, CompareOps, RegRegRegOps
  <2>2. op \notin ImmOps
    BY <1>3 DEF ImmOps, RegImmOps
  <2> QED BY <1>1, <2>1, <2>2
<1>4. CASE op \in RegRegImmOps
  <2>1. \/ ops = [args |-> <<ParseRegister(i), ParseRegister(i + 1),
                             ParseImmediate(i + 2)>>,
                  used |-> 3, immAt |-> i + 2, checked |-> TRUE]
        \/ ops.immAt = 0
    BY <1>4, SMT DEF ParseOperands, RegOps, ImmOps, RegRegOps, RegImmOps,
       OffsetOps, RegRegImmOps, ArithImmOps, BranchOps, CompareOps, RegRegRegOps
  <2>2. op \notin ImmOps
    BY <1>4 DEF ImmOps, RegRegImmOps, ArithImmOps, BranchOps, CompareOps
  <2> QED BY <1>1, <2>1, <2>2
<1>5. CASE op \notin ImmOps \cup RegImmOps \cup RegRegImmOps
  <2>1. ops.immAt = 0
    BY <1>5, SMT DEF ParseOperands, RegOps, RegRegOps, OffsetOps, RegRegRegOps
  <2> QED BY <2>1
<1> QED BY <1>2, <1>3, <1>4, <1>5

LEMMA InstrLineWaits ==
  ASSUME source \in Seq(Token)
  PROVE  Waiting(InstrLine) /\ InstrLine.lower = FALSE
<1> DEFINE op == StmtHead.word
           ops == ParseOperands(op, Stmt + 1)
           imm == Tok(ops.immAt)
           symbolic == ops.immAt > 0 /\ IsLabel(imm)
           symbol == IF symbolic THEN imm.word ELSE ""
           upper == (op = "lui")
           error == \/ op \in RejectedOps
                    \/ ops.checked /\ imm.kind # "lit" /\ ~IsLabel(imm)
                    \/ \E k \in 1..ops.used : Malformed(Tok(Stmt + k))
<1>1. InstrLine = [BlankLine EXCEPT
        !.op = op, !.addr = text_addr, !.args = ops.args,
        !.is_symbol = symbolic, !.symbol = symbol, !.label = LabelOf("text"),
        !.upper = upper, !.error = error]
  BY DEF InstrLine
<1>2. symbolic => (IF op \in ImmOps THEN ops.args[1] ELSE ops.args[3]).type
                    = "LABEL"
  BY OperandsWait
<1> HIDE DEF op, ops, symbolic, symbol, upper, error
<1>3. /\ InstrLine.op = op /\ InstrLine.args = ops.args
      /\ InstrLine.is_symbol = symbolic /\ InstrLine.lower = FALSE
  BY <1>1 DEF BlankLine
<1> QED BY <1>2, <1>3 DEF Waiting, RefArg

\* Handing on the label or the symbol changes no other field.
LEMMA WithFields ==
  ASSUME NEW ti \in TextInfo, NEW l \in TextInfo
  PROVE  /\ WithLabel(l, ti).op = l.op /\ WithLabel(l, ti).args = l.args
         /\ WithLabel(l, ti).lower = l.lower
         /\ WithLabel(l, ti).is_symbol = l.is_symbol
         /\ WithSymbol(l, ti).op = l.op /\ WithSymbol(l, ti).args = l.args
         /\ WithSymbol(l, ti).addr = l.addr
         /\ WithSymbol(l, ti).lower = l.lower
         /\ WithSymbol(l, ti).upper = l.upper
         /\ WithSymbol(l, ti).is_symbol = ti.is_symbol
         /\ WithSymbol(l, ti).symbol = ti.symbol
  BY DEF WithLabel, WithSymbol, TextInfo

\* A record without a symbol, and one that takes over the symbol and the
\* operand it stands in for.
LEMMA PlainFresh ==
  ASSUME NEW l, l.is_symbol = FALSE, l.lower = FALSE
  PROVE  Fresh(<<l>>) /\ Waiting(l)
  BY DEF Fresh, Waiting

LEMMA TwoFresh ==
  ASSUME NEW h, NEW l, Waiting(h), h.lower = FALSE, Waiting(l),
         l.lower => PairOf(h, l)
  PROVE  Fresh(<<h, l>>)
  BY DEF Fresh
\* The halves expandPsuedo makes of a load, before a symbol is handed on.
LEMMA LoadPairFields ==
  ASSUME NEW ti \in TextInfo, source \in Seq(Token)
  PROVE  LET h == LoadPair(ti)[1]
             l == LoadPair(ti)[2]
         IN /\ PairOf(h, l)
            /\ h.op = "lui" /\ l.op = "ori"
            /\ h.args[3].type = ti.args[3].type
            /\ l.args[3].type = ti.args[3].type
            /\ h.lower = FALSE /\ h.is_symbol = FALSE /\ l.is_symbol = FALSE
<1> DEFINE t == ti.args[1]
           imm == ti.args[3]
           highArgs == <<t, NoArg, Half(imm, HighHalf(imm.val))>>
           lowArgs == <<t, t, Half(imm, LowHalf(imm.val))>>
           first  == Copy(ti, "lui", 0, highArgs)
           second == Copy(ti, "ori", 1, lowArgs)
           high == [first EXCEPT !.upper = TRUE]
           low == [second EXCEPT !.lower = TRUE]
<1>1. /\ ti.addr \in Nat
      /\ ti.addr + 4 * 0 = ti.addr /\ ti.addr + 4 * 1 = ti.addr + 4
  BY DEF TextInfo
<1>2. LoadPair(ti) = <<high, low>>
  BY DEF LoadPair
<1>3. /\ highArgs[1] = t /\ highArgs[3].type = imm.type
      /\ lowArgs[1] = t /\ lowArgs[2] = t /\ lowArgs[3].type = imm.type
  BY DEF Half
<1> HIDE DEF highArgs, lowArgs, t, imm
<1>4. /\ first.op = "lui" /\ first.args = highArgs
      /\ first.addr = ti.addr + 4 * 0 /\ first.lower = FALSE
      /\ first.is_symbol = FALSE /\ first.symbol = ""
      /\ DOMAIN first = DOMAIN BlankLine
  BY DEF Copy, BlankLine
<1>5. /\ second.op = "ori" /\ second.args = lowArgs
      /\ second.addr = ti.addr + 4 * 1
      /\ second.is_symbol = FALSE /\ second.symbol = ""
      /\ DOMAIN second = DOMAIN BlankLine
  BY DEF Copy, BlankLine
<1>6. DOMAIN BlankLine = {"op", "addr", "args", "is_symbol", "symbol",
                          "label", "upper", "lower", "error", "standalone"}
  BY DEF BlankLine
<1> HIDE DEF first, second
<1>7. /\ high.op = "lui" /\ high.args = highArgs /\ high.upper
      /\ high.addr = first.addr /\ high.lower = FALSE
      /\ high.is_symbol = FALSE /\ high.symbol = ""
  BY <1>4, <1>6
<1>8. /\ low.op = "ori" /\ low.args = lowArgs /\ low.addr = second.addr
      /\ low.is_symbol = FALSE /\ low.symbol = ""
  BY <1>5, <1>6
<1>9. LoadPair(ti)[1] = high /\ LoadPair(ti)[2] = low
  BY <1>2
<1> HIDE DEF high, low
<1>10. low.addr = high.addr + 4
  BY <1>1, <1>4, <1>5, <1>7, <1>8
<1> QED BY <1>3, <1>7, <1>8, <1>9, <1>10 DEF PairOf, imm

\* Every expansion is fresh when the record it replaces waits.
LEMMA ExpansionFresh ==
  ASSUME NEW ti \in TextInfo, source \in Seq(Token), Waiting(ti)
  PROVE  Fresh(ExpandPseudo(ti))
<1>1. /\ ti.args[1] \in Argument /\ ti.args[2] \in Argument
      /\ ti.args[3] \in Argument /\ RegZero \in Argument
      /\ RegAt \in Argument /\ NoArg \in Argument
  BY ArgumentTypes DEF TextInfo
<1>2. ti.op \in CompareOps \cup {"beqz", "la"} /\ ti.is_symbol
        => ti.args[3].type = "LABEL"
  BY DEF Waiting, RefArg, CompareOps, ImmOps
<1>3. CASE ti.op = "mul"
  <2> DEFINE first  == Copy(ti, "mult", 0, <<ti.args[2], ti.args[3], NoArg>>)
             second == Copy(ti, "mflo", 1, <<ti.args[1], NoArg, NoArg>>)
  <2>1. /\ first.is_symbol = FALSE /\ first.lower = FALSE
        /\ second.is_symbol = FALSE /\ second.lower = FALSE
    BY DEF Copy, BlankLine
  <2>2. ExpandPseudo(ti) = <<first, second>>
    BY <1>3 DEF ExpandPseudo, CompareOps
  <2> HIDE DEF first, second
  <2>3. Fresh(<<first, second>>)
    BY <2>1, TwoFresh DEF Waiting
  <2> QED BY <2>2, <2>3
<1>4. CASE ti.op \in CompareOps
  <2> DEFINE s == ti.args[1]
             t == ti.args[2]
             set  == IF ti.op = "bgtu" THEN "sltu" ELSE "slt"
             jump == IF ti.op \in {"bge", "ble"} THEN "beq" ELSE "bne"
             operands == IF ti.op \in {"blt", "bge"} THEN <<RegAt, s, t>>
                                                     ELSE <<RegAt, t, s>>
             tested == <<RegAt, RegZero, ti.args[3]>>
             first  == Copy(ti, set, 0, operands)
             second == Copy(ti, jump, 1, tested)
  <2>1. ExpandPseudo(ti) = <<WithLabel(first, ti), WithSymbol(second, ti)>>
    BY <1>4 DEF ExpandPseudo, ExpandCompare, CompareOps
  <2>2. set \in Words /\ jump \in Words /\ jump \notin ImmOps
    BY PseudoWords DEF ImmOps
  <2>3. /\ operands \in Argument \X Argument \X Argument
        /\ tested \in Argument \X Argument \X Argument
        /\ tested[3] = ti.args[3]
    BY <1>1
  <2> HIDE DEF s, t, set, jump, operands, tested
  <2>4. first \in TextInfo /\ second \in TextInfo
    BY <2>2, <2>3, CopyPlaces
  <2>5. /\ first.is_symbol = FALSE /\ first.lower = FALSE
        /\ second.op = jump /\ second.args = tested /\ second.lower = FALSE
    BY DEF Copy, BlankLine
  <2> HIDE DEF first, second
  <2>6. /\ WithLabel(first, ti).is_symbol = FALSE
        /\ WithLabel(first, ti).lower = FALSE
        /\ WithSymbol(second, ti).lower = FALSE
        /\ WithSymbol(second, ti).op = jump
        /\ WithSymbol(second, ti).args = tested
        /\ WithSymbol(second, ti).is_symbol = ti.is_symbol
    BY <2>4, <2>5, WithFields
  <2>7. Waiting(WithSymbol(second, ti))
    BY <1>2, <1>4, <2>2, <2>3, <2>6 DEF Waiting, RefArg
  <2>8. Fresh(<<WithLabel(first, ti), WithSymbol(second, ti)>>)
    BY <2>6, <2>7, TwoFresh DEF Waiting
  <2> QED BY <2>1, <2>8
<1>5. CASE ti.op = "beqz"
  <2> DEFINE args == <<ti.args[1], RegZero, ti.args[3]>>
             line == Copy(ti, "beq", 0, args)
             last == WithSymbol(WithLabel(line, ti), ti)
  <2>1. ExpandPseudo(ti) = <<last>>
    BY <1>5 DEF ExpandPseudo, CompareOps
  <2>2. args \in Argument \X Argument \X Argument /\ args[3] = ti.args[3]
    BY <1>1
  <2> HIDE DEF args
  <2>3. line \in TextInfo /\ WithLabel(line, ti) \in TextInfo
    BY <2>2, PseudoWords, CopyPlaces, WithType
  <2>4. line.op = "beq" /\ line.args = args /\ line.lower = FALSE
    BY DEF Copy, BlankLine
  <2> HIDE DEF line
  <2>5. /\ last.op = "beq" /\ last.args = args /\ last.lower = FALSE
        /\ last.is_symbol = ti.is_symbol
    BY <2>3, <2>4, WithFields
  <2> HIDE DEF last
  <2>6. Waiting(last)
    BY <1>2, <1>5, <2>2, <2>5 DEF Waiting, RefArg, ImmOps
  <2> QED BY <2>1, <2>5, <2>6 DEF Fresh
<1> DEFINE high == LoadPair(ti)[1]
           low  == LoadPair(ti)[2]
<1>6. /\ LoadPair(ti) = <<high, low>>
      /\ high \in TextInfo /\ low \in TextInfo
  BY LoadPairExpansion
<1>7. /\ PairOf(high, low)
      /\ high.op = "lui" /\ low.op = "ori"
      /\ high.args[3].type = ti.args[3].type
      /\ low.args[3].type = ti.args[3].type
      /\ high.lower = FALSE /\ high.is_symbol = FALSE /\ low.is_symbol = FALSE
  BY LoadPairFields
<1>8. CASE ti.op = "la"
  <2> DEFINE h == WithSymbol(high, ti)
             l == WithSymbol(low, ti)
  <2>1. ExpandPseudo(ti) = <<h, l>>
    BY <1>8 DEF ExpandPseudo, CompareOps
  <2> HIDE DEF high, low
  <2>2. /\ h.op = high.op /\ h.args = high.args /\ h.addr = high.addr
        /\ h.lower = high.lower /\ h.upper = high.upper
        /\ h.is_symbol = ti.is_symbol /\ h.symbol = ti.symbol
    BY <1>6, WithFields
  <2>3. /\ l.op = low.op /\ l.args = low.args /\ l.addr = low.addr
        /\ l.is_symbol = ti.is_symbol /\ l.symbol = ti.symbol
    BY <1>6, WithFields
  <2> HIDE DEF h, l
  <2>4. PairOf(h, l)
    BY <1>7, <2>2, <2>3 DEF PairOf
  <2>5. Waiting(h) /\ Waiting(l)
    BY <1>2, <1>7, <1>8, <2>2, <2>3 DEF Waiting, RefArg, ImmOps
  <2>6. Fresh(<<h, l>>)
    BY <1>7, <2>2, <2>4, <2>5, TwoFresh
  <2> QED BY <2>1, <2>6
<1>9. CASE ti.op = "li" /\ ti.args[3].val > 65535
  <2>1. ExpandPseudo(ti) = <<high, low>>
    BY <1>6, <1>9 DEF ExpandPseudo, CompareOps
  <2> HIDE DEF high, low
  <2>2. Fresh(<<high, low>>)
    BY <1>7, TwoFresh DEF Waiting
  <2> QED BY <2>1, <2>2
<1>10. CASE ti.op = "li" /\ ~(ti.args[3].val > 65535)
  <2> DEFINE args == <<ti.args[1], RegZero, Literal(LowHalf(ti.args[3].val))>>
             line == Copy(ti, "ori", 0, args)
  <2>1. ExpandPseudo(ti) = <<line>>
    BY <1>10 DEF ExpandPseudo, CompareOps
  <2>2. line.lower = FALSE /\ line.is_symbol = FALSE
    BY DEF Copy, BlankLine
  <2> HIDE DEF line
  <2> QED BY <2>1, <2>2, PlainFresh
<1>11. CASE ti.op \notin {"mul", "beqz", "la", "li"} \cup CompareOps
  <2>1. ExpandPseudo(ti) = << >>
    BY <1>11 DEF ExpandPseudo
  <2> QED BY <2>1 DEF Fresh
<1> QED BY <1>3, <1>4, <1>5, <1>8, <1>9, <1>10, <1>11
\* The records a statement adds.
LEMMA StatementFresh ==
  ASSUME TypeOK
  PROVE  /\ Fresh(InstrLines)
         /\ Waiting(StandaloneLine) /\ StandaloneLine.lower = FALSE
<1>1. source \in Seq(Token) /\ InstrLine \in TextInfo
  BY InstrLineType DEF TypeOK
<1>2. Waiting(InstrLine) /\ InstrLine.lower = FALSE
  BY <1>1, InstrLineWaits
<1>3. Fresh(ExpandPseudo(InstrLine))
  BY <1>1, <1>2, ExpansionFresh
<1>4. Fresh(<<InstrLine>>)
  BY <1>2 DEF Fresh
<1>5. StandaloneLine.is_symbol = FALSE /\ StandaloneLine.lower = FALSE
  BY DEF StandaloneLine, BlankLine
<1> QED BY <1>2, <1>3, <1>4, <1>5, PlainFresh DEF InstrLines

\* resolveLabels treats both halves of a pair alike: they name one symbol.
LEMMA ResolvePair ==
  ASSUME NEW h \in TextInfo, NEW l \in TextInfo, PairOf(h, l)
  PROVE  PairOf(ResolveLine(h), ResolveLine(l))
<1>1. CASE l.is_symbol /\ GetAddr(l.symbol) > 0
  <2> DEFINE a == GetAddr(l.symbol)
             high == <<h.args[1], NoArg, Literal(HighHalf(a))>>
             low == <<l.args[1], l.args[2],
                      Literal(IF l.lower THEN LowHalf(a) ELSE HighHalf(a))>>
  <2>1. ResolveLine(h) = [h EXCEPT !.args = high]
    BY <1>1 DEF PairOf, ResolveLine, Resolved, BranchOps, ImmOps
  <2>2. ResolveLine(l) = [l EXCEPT !.args = low]
    BY <1>1 DEF PairOf, ResolveLine, Resolved, BranchOps, ImmOps
  <2>3. /\ high[1] = h.args[1] /\ low[1] = l.args[1] /\ low[2] = l.args[2]
        /\ high[3].type = "LITERAL" /\ low[3].type = "LITERAL"
    BY DEF Literal
  <2> HIDE DEF high, low
  <2>4. ResolveLine(h).args = high /\ ResolveLine(l).args = low
    BY <2>1, <2>2 DEF TextInfo
  <2> QED BY <2>3, <2>4, ResolvedKeeps DEF PairOf
<1>2. CASE ~(l.is_symbol /\ GetAddr(l.symbol) > 0)
  BY <1>2 DEF PairOf, ResolveLine
<1> QED BY <1>1, <1>2

(***************************************************************************)
(* The invariant of the records: while lex() parses, every symbol still    *)
(* has its label to stand in for; a low half follows its high half.        *)
(***************************************************************************)
WaitInv == phase = "lex" => \A i \in DOMAIN text : Waiting(text[i])
PairInv == \A i \in DOMAIN text :
             text[i].lower => i > 1 /\ PairOf(text[i - 1], text[i])
LineInv == WaitInv /\ PairInv

\* LineInv is inductive.
LEMMA LineStep ==
  ASSUME TypeOK, TypeOK', LineInv, [Next]_vars
  PROVE  LineInv'
<1> DEFINE n == Len(text)
<1>1. /\ n \in Nat /\ DOMAIN text = 1..n /\ text \in Seq(TextInfo)
      /\ \A i \in 1..n : text[i] \in TextInfo
  BY TextEnds DEF TypeOK
<1>2. Len(text') \in Nat /\ DOMAIN text' = 1..Len(text')
  BY LenProperties DEF TypeOK
<1>3. \A i \in 1..n : text[i].lower => i - 1 \in 1..n
                                        /\ PairOf(text[i - 1], text[i])
  BY <1>1 DEF LineInv, PairInv
<1>4. CASE Lex
  <2>1. DOMAIN text' = {}
    BY <1>4 DEF Lex, LexOf
  <2> QED BY <2>1 DEF LineInv, WaitInv, PairInv
<1>5. CASE ParseInstr
  <2> DEFINE m == Len(InstrLines)
  <2>1. /\ text' = text \o InstrLines /\ InstrLines \in Seq(TextInfo)
        /\ Fresh(InstrLines)
    BY <1>5, ParseInstrText, InstrLinesExpand, StatementFresh
  <2>2. m \in Nat /\ DOMAIN InstrLines = 1..m
    BY <2>1, LenProperties
  <2>3. /\ Len(text') = n + m
        /\ \A i \in 1..(n + m) : text'[i] = IF i <= n THEN text[i]
                                                     ELSE InstrLines[i - n]
    BY <1>1, <2>1, ConcatProperties
  <2>4. \A k \in 1..m : /\ Waiting(InstrLines[k])
                        /\ InstrLines[k].lower =>
                             k = 2 /\ PairOf(InstrLines[1], InstrLines[2])
    BY <2>1, <2>2 DEF Fresh
  <2>5. \A i \in 1..n : Waiting(text[i])
    BY <1>1, <1>5 DEF LineInv, WaitInv, ParseInstr, Lexing
  <2> HIDE DEF n, m
  <2>6. ASSUME NEW i \in 1..(n + m)
        PROVE  /\ Waiting(text'[i])
               /\ text'[i].lower => i > 1 /\ PairOf(text'[i - 1], text'[i])
    <3>1. CASE i \in 1..n
      <4>1. text'[i] = text[i] /\ (i - 1 \in 1..n => text'[i - 1] = text[i - 1])
        BY <1>1, <2>2, <2>3, <3>1 DEF n, m
      <4> QED BY <1>3, <2>5, <3>1, <4>1
    <3>2. CASE i = n + 1
      <4>1. text'[i] = InstrLines[1] /\ 1 \in 1..m
        BY <1>1, <2>2, <2>3, <3>2 DEF n, m
      <4> QED BY <2>4, <4>1
    <3>3. CASE i = n + 2
      <4>1. /\ text'[i] = InstrLines[2] /\ 2 \in 1..m
            /\ text'[i - 1] = InstrLines[1] /\ i > 1
        BY <1>1, <2>2, <2>3, <3>3 DEF n, m
      <4> QED BY <2>4, <4>1
    <3>4. CASE i > n + 2
      <4>1. /\ text'[i] = InstrLines[i - n] /\ i - n \in 1..m /\ i - n # 2
        BY <1>1, <2>2, <2>3, <3>4 DEF n, m
      <4> QED BY <2>4, <4>1
    <3> QED BY <1>1, <2>2, <3>1, <3>2, <3>3, <3>4 DEF n, m
  <2> QED BY <1>2, <2>3, <2>6 DEF LineInv, WaitInv, PairInv
<1>6. CASE ParseOther
  <2>1. /\ Len(text') = n + 1
        /\ \A i \in 1..n : text'[i] = text[i]
        /\ text'[n + 1] = StandaloneLine
    BY <1>1, <1>6 DEF ParseOther
  <2>2. Waiting(StandaloneLine) /\ StandaloneLine.lower = FALSE
    BY StatementFresh
  <2>3. \A i \in 1..n : Waiting(text[i])
    BY <1>1, <1>6 DEF LineInv, WaitInv, ParseOther, Lexing
  <2> HIDE DEF n
  <2>4. ASSUME NEW i \in 1..(n + 1)
        PROVE  /\ Waiting(text'[i])
               /\ text'[i].lower => i > 1 /\ PairOf(text'[i - 1], text'[i])
    <3>1. CASE i \in 1..n
      <4>1. text'[i] = text[i] /\ (i - 1 \in 1..n => text'[i - 1] = text[i - 1])
        BY <2>1, <3>1
      <4> QED BY <1>3, <2>3, <3>1, <4>1
    <3>2. CASE i = n + 1
      BY <2>1, <2>2, <3>2
    <3> QED BY <1>1, <3>1, <3>2 DEF n
  <2> QED BY <1>2, <2>1, <2>4 DEF LineInv, WaitInv, PairInv
<1>7. CASE ResolveLabels
  <2>1. /\ phase' = "done" /\ Len(text') = n
        /\ \A i \in 1..n : text'[i] = ResolveLine(text[i])
    BY <1>1, <1>7, ResolveKeeps DEF ResolveLabels
  <2>2. ASSUME NEW i \in 1..n, text'[i].lower
        PROVE  i > 1 /\ PairOf(text'[i - 1], text'[i])
    <3>1. text[i].lower
      BY <1>1, <2>1, <2>2, ResolvedKeeps
    <3>2. i - 1 \in 1..n /\ i > 1 /\ PairOf(text[i - 1], text[i])
      BY <1>1, <1>3, <3>1
    <3> HIDE DEF n
    <3> QED BY <1>1, <2>1, <3>2, ResolvePair
  <2> QED BY <1>2, <2>1, <2>2 DEF LineInv, WaitInv, PairInv
<1>8. CASE ParseData \/ ParseSegment \/ Throw \/ SkipComment \/ UNCHANGED vars
  <2>1. text' = text /\ (phase' = "lex" => phase = "lex")
    BY <1>8 DEF ParseData, ParseSegment, Throw, SkipComment, vars
  <2> QED BY <2>1 DEF LineInv, WaitInv, PairInv
<1> QED BY <1>4, <1>5, <1>6, <1>7, <1>8 DEF Next, ParseLine

LEMMA LineInvHolds == Spec => []LineInv
<1>1. Init => LineInv
  BY DEF Init, LineInv, WaitInv, PairInv
<1>2. TypeOK /\ TypeOK' /\ LineInv /\ [Next]_vars => LineInv'
  BY LineStep
<1> QED BY <1>1, <1>2, TypeCorrect, PTL DEF Spec

(* PairsTogether, for every source: expandPsuedo emits both halves at once *)
(* and with one symbol, so resolveLabels resolves both or neither.         *)
THEOREM PairsStayTogether == Spec => []PairsTogether
<1>1. LineInv => PairsTogether
  BY DEF LineInv, PairInv, PairOf, PairsTogether
<1> QED BY <1>1, LineInvHolds, PTL
-----------------------------------------------------------------------------
(***************************************************************************)
(* resolveLabels takes the address 0 for "not defined", so no label may    *)
(* have it.                                                                *)
(***************************************************************************)
AddrInv ==
  /\ phase # "idle" => text_addr > 0 /\ data_addr > 0
  /\ \A i \in DOMAIN syms : syms[i].addr > 0

LEMMA AddrStep ==
  ASSUME TypeOK, TypeOK', AddrInv, [Next]_vars
  PROVE  AddrInv'
<1>1. /\ text_addr \in Nat /\ data_addr \in Nat /\ syms \in Seq(Symbol)
      /\ DOMAIN syms = 1..Len(syms) /\ Len(syms) \in Nat
  BY LenProperties DEF TypeOK
<1>2. phase' # "idle" => text_addr' > 0 /\ data_addr' > 0
  <2>1. CASE Lex
    BY <2>1, AddrAssumption DEF Lex, LexOf
  <2>2. CASE ParseInstr
    <3>1. Len(InstrLines) \in Nat
      BY InstrLinesExpand, LenProperties
    <3>2. text_addr' = text_addr + 4 * Len(InstrLines)
      BY <2>2, ParseInstrText
    <3>3. data_addr' = data_addr /\ phase # "idle"
      BY <2>2 DEF ParseInstr, Lexing
    <3> QED BY <1>1, <3>1, <3>2, <3>3 DEF AddrInv
  <2>3. CASE ParseData
    <3>1. PICK d \in DataInfo : data_addr' = data_addr + d.items + d.space
      BY <2>3, DataRecordType
    <3>2. d.items \in Nat /\ d.space \in Nat
      BY DEF DataInfo
    <3>3. text_addr' = text_addr /\ phase # "idle"
      BY <2>3 DEF ParseData, Lexing
    <3> QED BY <1>1, <3>1, <3>2, <3>3 DEF AddrInv
  <2>4. CASE \/ ParseOther \/ ParseSegment \/ Throw \/ SkipComment
             \/ ResolveLabels \/ UNCHANGED vars
    <3>1. text_addr' = text_addr /\ data_addr' = data_addr
      BY <2>4 DEF ParseOther, ParseSegment, Throw, SkipComment, ResolveLabels,
                  vars
    <3>2. phase # "idle" \/ phase' = phase
      BY <2>4 DEF ParseOther, ParseSegment, Throw, SkipComment, ResolveLabels,
                  Lexing, vars
    <3> QED BY <3>1, <3>2 DEF AddrInv
  <2> QED BY <2>1, <2>2, <2>3, <2>4 DEF Next, ParseLine
<1>3. \A i \in DOMAIN syms' : syms'[i].addr > 0
  <2>1. CASE syms' = syms
    BY <2>1 DEF AddrInv
  <2>2. CASE phase = "lex" /\ syms' = Append(syms, NewSymbol)
    <3>1. /\ DOMAIN syms' = 1..(Len(syms) + 1)
          /\ \A i \in 1..Len(syms) : syms'[i] = syms[i]
          /\ syms'[Len(syms) + 1] = NewSymbol
      BY <1>1, <2>2
    <3>2. NewSymbol.addr > 0
      BY <2>2 DEF NewSymbol, AddrHere, AddrInv
    <3> QED BY <1>1, <3>1, <3>2 DEF AddrInv
  <2> QED BY <2>1, <2>2, SymbolsGrow
<1> QED BY <1>2, <1>3 DEF AddrInv

LEMMA AddrInvHolds == Spec => []AddrInv
<1>1. Init => AddrInv
  BY DEF Init, AddrInv
<1>2. TypeOK /\ TypeOK' /\ AddrInv /\ [Next]_vars => AddrInv'
  BY AddrStep
<1> QED BY <1>1, <1>2, TypeCorrect, PTL DEF Spec

\* getAddr answers 0 for the undefined names only.
LEMMA FoundIsDefined ==
  ASSUME TypeOK, AddrInv, NEW s
  PROVE  /\ GetAddr(s) \in Nat
         /\ GetAddr(s) > 0 <=> Defs(s) # {}
<1>1. syms \in Seq(Symbol) /\ DOMAIN syms = 1..Len(syms)
  BY LenProperties DEF TypeOK
<1>2. ASSUME Defs(s) # {} PROVE GetAddr(s) > 0
  <2>1. FirstDef(s) \in DOMAIN syms
    BY <1>1, <1>2, FirstDefIs
  <2> QED BY <1>2, <2>1 DEF GetAddr, AddrInv
<1> QED BY <1>1, <1>2, GetAddrType DEF GetAddr

(***************************************************************************)
(* A reference resolveLabels has seen, whose name has the address a.       *)
(***************************************************************************)
Settled(l, a) ==
  l.is_symbol =>
    /\ a = 0 => RefArg(l).type = "LABEL"
    /\ a > 0 => /\ RefArg(l).type = "LITERAL"
                /\ l.op \in ImmOps => RefArg(l).val = a
                /\ l.op \in BranchOps => RefArg(l).val = BranchOffset(l, a)
                /\ l.op = "lui" /\ l.upper => RefArg(l).val = HighHalf(a)
                /\ l.op = "ori" /\ l.lower => RefArg(l).val = LowHalf(a)

LEMMA ResolveSettles ==
  ASSUME NEW l \in TextInfo, syms \in Seq(Symbol), Waiting(l)
  PROVE  Settled(ResolveLine(l), GetAddr(l.symbol))
<1> DEFINE a == GetAddr(l.symbol)
           m == ResolveLine(l)
<1>1. a \in Nat
  BY GetAddrType
<1>2. /\ m.op = l.op /\ m.lower = l.lower /\ m.upper = l.upper
      /\ m.addr = l.addr /\ m.is_symbol = l.is_symbol
  BY ResolvedKeeps
<1>3. CASE ~(l.is_symbol /\ a > 0)
  BY <1>1, <1>3 DEF ResolveLine, Settled, Waiting
<1>4. CASE l.is_symbol /\ a > 0
  <2>1. m = Resolved(l, a)
    BY <1>4 DEF ResolveLine
  <2>2. ASSUME NEW args PROVE [l EXCEPT !.args = args].args = args
    BY DEF TextInfo
  <2> SUFFICES Settled(m, a)
    OBVIOUS
  <2> HIDE DEF a, m
  <2>3. CASE l.op = "lui"
    <3> DEFINE arg == Literal(IF l.upper THEN HighHalf(a) ELSE LowHalf(a))
    <3>1. m = [l EXCEPT !.args = <<l.args[1], NoArg, arg>>]
      BY <2>1, <2>3 DEF Resolved, BranchOps, ImmOps
    <3>2. m.args = <<l.args[1], NoArg, arg>>
      BY <2>2, <3>1
    <3>3. RefArg(m) = arg
      BY <1>2, <2>3, <3>2 DEF RefArg, ImmOps
    <3> QED BY <1>1, <1>2, <1>4, <2>3, <3>3
            DEF Settled, Literal, ImmOps, BranchOps
  <2>4. CASE l.op = "ori"
    <3> DEFINE arg == Literal(IF l.lower THEN LowHalf(a) ELSE HighHalf(a))
    <3>1. m = [l EXCEPT !.args = <<l.args[1], l.args[2], arg>>]
      BY <2>1, <2>4 DEF Resolved, BranchOps, ImmOps
    <3>2. m.args = <<l.args[1], l.args[2], arg>>
      BY <2>2, <3>1
    <3>3. RefArg(m) = arg
      BY <1>2, <2>4, <3>2 DEF RefArg, ImmOps
    <3> QED BY <1>1, <1>2, <1>4, <2>4, <3>3
            DEF Settled, Literal, ImmOps, BranchOps
  <2>5. CASE l.op \in BranchOps
    <3> DEFINE arg == Literal(BranchOffset(l, a))
    <3>1. m = [l EXCEPT !.args = <<l.args[1], l.args[2], arg>>]
      BY <2>1, <2>5 DEF Resolved, BranchOps, ImmOps
    <3>2. m.args = <<l.args[1], l.args[2], arg>>
      BY <2>2, <3>1
    <3>3. RefArg(m) = arg
      BY <1>2, <2>5, <3>2 DEF RefArg, ImmOps, BranchOps
    <3> QED BY <1>1, <1>2, <1>4, <2>5, <3>3
            DEF Settled, Literal, ImmOps, BranchOps, BranchOffset
  <2>6. CASE l.op \in ImmOps
    <3>1. m = [l EXCEPT !.args = <<Literal(a), l.args[2], l.args[3]>>]
      BY <2>1, <2>6 DEF Resolved, BranchOps, ImmOps
    <3>2. m.args = <<Literal(a), l.args[2], l.args[3]>>
      BY <2>2, <3>1
    <3>3. RefArg(m) = Literal(a)
      BY <1>2, <2>6, <3>2 DEF RefArg
    <3> QED BY <1>1, <1>2, <1>4, <2>6, <3>3
            DEF Settled, Literal, ImmOps, BranchOps
  <2>7. CASE l.op \notin {"lui", "ori"} \cup BranchOps \cup ImmOps
    <3>1. m = [l EXCEPT !.args = <<l.args[1], l.args[2], Literal(a)>>]
      BY <2>1, <2>7 DEF Resolved
    <3>2. m.args = <<l.args[1], l.args[2], Literal(a)>>
      BY <2>2, <3>1
    <3>3. RefArg(m) = Literal(a)
      BY <1>2, <2>7, <3>2 DEF RefArg
    <3> QED BY <1>1, <1>2, <1>4, <2>7, <3>3 DEF Settled, Literal
  <2> QED BY <2>3, <2>4, <2>5, <2>6, <2>7
<1> QED BY <1>3, <1>4

\* What lex() leaves behind, until it is called again.
DoneInv == phase = "done" =>
             \A i \in DOMAIN text : \A s :
               s = text[i].symbol => Settled(text[i], GetAddr(s))

LEMMA DoneStep ==
  ASSUME TypeOK, LineInv, DoneInv, [Next]_vars
  PROVE  DoneInv'
<1>1. CASE ResolveLabels
  <2>1. /\ Len(text) \in Nat /\ DOMAIN text = 1..Len(text)
        /\ \A i \in 1..Len(text) : text[i] \in TextInfo
    BY TextEnds
  <2>2. /\ text' = [i \in 1..Len(text) |-> ResolveLine(text[i])]
        /\ DOMAIN text' = 1..Len(text) /\ syms' = syms /\ phase = "lex"
    BY <1>1, <2>1 DEF ResolveLabels
  <2>3. \A s : GetAddr(s)' = GetAddr(s)
    BY <2>2 DEF GetAddr, FirstDef, Defs
  <2>4. ASSUME NEW i \in 1..Len(text), NEW s, s = text'[i].symbol
        PROVE  Settled(text'[i], GetAddr(s)')
    <3>1. Waiting(text[i])
      BY <2>1, <2>2 DEF LineInv, WaitInv
    <3>2. Settled(ResolveLine(text[i]), GetAddr(text[i].symbol))
      BY <2>1, <3>1, ResolveSettles DEF TypeOK
    <3>3. ResolveLine(text[i]).symbol = text[i].symbol
      BY <2>1, ResolvedKeeps
    <3>4. text'[i] = ResolveLine(text[i])
      BY <2>2
    <3> QED BY <2>3, <2>4, <3>2, <3>3, <3>4
  <2> QED BY <2>2, <2>4 DEF DoneInv
<1>2. CASE UNCHANGED vars
  BY <1>2 DEF DoneInv, vars, GetAddr, FirstDef, Defs
<1>3. CASE Lex \/ ParseLine \/ Throw \/ SkipComment
  <2>1. phase' # "done"
    BY <1>3 DEF Lex, LexOf, ParseLine, ParseInstr, ParseSegment, ParseData,
                ParseOther, Throw, Lexing, SkipComment
  <2> QED BY <2>1 DEF DoneInv
<1> QED BY <1>1, <1>2, <1>3 DEF Next

LEMMA DoneInvHolds == Spec => []DoneInv
<1>1. Init => DoneInv
  BY DEF Init, DoneInv
<1>2. TypeOK /\ LineInv /\ DoneInv /\ [Next]_vars => DoneInv'
  BY DoneStep
<1> QED BY <1>1, <1>2, TypeCorrect, LineInvHolds, PTL DEF Spec

(* UnresolvedAreUndefined, for every source and any number of them: no     *)
(* label has the address 0 that stands for "not found".                    *)
THEOREM UnresolvedHaveNoLabel == Spec => []UnresolvedAreUndefined
<1>1. TypeOK /\ AddrInv /\ DoneInv => UnresolvedAreUndefined
  <2> SUFFICES ASSUME TypeOK, AddrInv, DoneInv, phase = "done",
                      NEW i \in DOMAIN text, text[i].is_symbol
               PROVE  RefArg(text[i]).type = "LABEL"
                        <=> Defs(text[i].symbol) = {}
    BY DEF UnresolvedAreUndefined, RefArg
  <2>1. Settled(text[i], GetAddr(text[i].symbol))
    BY DEF DoneInv
  <2> QED BY <2>1, FoundIsDefined DEF Settled
<1> QED BY <1>1, TypeCorrect, AddrInvHolds, DoneInvHolds, PTL
-----------------------------------------------------------------------------
(***************************************************************************)
(* How far the text segment of a source reaches.                           *)
(***************************************************************************)
Bound == TextStart + 8 * Len(source)

BoundInv ==
  /\ phase # "idle" => /\ source \in Sources
                       /\ text_addr <= TextStart + 8 * (pos - 1)
                       /\ text_addr <= Bound
  /\ \A i \in DOMAIN syms : syms[i].run = runs /\ syms[i].section = "text"
                              => phase # "idle" /\ syms[i].addr <= Bound

\* A statement is one or two records.
LEMMA ExpansionShort == Len(InstrLines) <= 2
<1> DEFINE ti == InstrLine
<1> SUFFICES Len(ExpandPseudo(ti)) <= 2
  BY DEF InstrLines
<1> HIDE DEF ti
<1>1. Len(ExpandCompare(ti)) = 2 /\ Len(LoadPair(ti)) = 2
  BY DEF ExpandCompare, LoadPair
<1>2. CASE ti.op = "mul"
  BY <1>2 DEF ExpandPseudo, CompareOps
<1>3. CASE ti.op \in CompareOps
  BY <1>1, <1>3 DEF ExpandPseudo, CompareOps
<1>4. CASE ti.op \in {"beqz", "la"}
  BY <1>4 DEF ExpandPseudo, CompareOps
<1>5. CASE ti.op = "li"
  <2>1. \/ ExpandPseudo(ti) = LoadPair(ti)
        \/ \E x : ExpandPseudo(ti) = <<x>>
    BY <1>5 DEF ExpandPseudo, CompareOps
  <2> QED BY <1>1, <2>1
<1>6. CASE ti.op \notin {"mul", "beqz", "la", "li"} \cup CompareOps
  BY <1>6 DEF ExpandPseudo
<1> QED BY <1>2, <1>3, <1>4, <1>5, <1>6

LEMMA BoundStep ==
  ASSUME TypeOK, TypeOK', LabelInv, BoundInv, [Next]_vars
  PROVE  BoundInv'
<1>1. /\ text_addr \in Nat /\ pos \in Nat \ {0} /\ syms \in Seq(Symbol)
      /\ DOMAIN syms = 1..Len(syms) /\ Len(syms) \in Nat
      /\ source \in Seq(Token) /\ Len(source) \in Nat /\ TextStart \in Nat
      /\ \A i \in 1..Len(syms) : syms[i] \in Symbol
      /\ runs \in Nat
  BY LenProperties, ElementOfSeq, AddrAssumption, RunsAssumption DEF TypeOK
<1>2. CASE Lex
  <2>1. /\ phase' = "lex" /\ source' \in Sources /\ pos' = 1
        /\ text_addr' = TextStart /\ runs' = runs + 1 /\ syms' = syms
    BY <1>2, SourcesAssumption DEF Lex, LexOf
  <2>2. source' \in Seq(Token)
    BY DEF TypeOK
  <2>3. Len(source') \in Nat
    BY <2>2, LenProperties
  <2>4. \A i \in DOMAIN syms : syms[i].run # runs'
    BY <1>1, <2>1 DEF LabelInv, Symbol
  <2> QED BY <1>1, <2>1, <2>3, <2>4 DEF BoundInv, Bound
<1>3. CASE ~Lex
  <2>1. source' = source /\ runs' = runs /\ (phase' # "idle" => phase # "idle")
    BY <1>3 DEF Next, ParseLine, ParseInstr, ParseSegment, ParseData,
       ParseOther, Throw, SkipComment, ResolveLabels, Lexing, vars
  <2>2. phase # "idle" => phase' # "idle"
    BY <1>3 DEF Next, ParseLine, ParseInstr, ParseSegment, ParseData,
       ParseOther, Throw, SkipComment, ResolveLabels, Lexing, vars
  <2>3. phase' # "idle" => /\ text_addr' <= TextStart + 8 * (pos' - 1)
                           /\ text_addr' <= Bound
    <3>1. CASE ParseInstr
      <4> DEFINE m == Len(InstrLines)
                 used == ParseOperands(StmtHead.word, Stmt + 1).used
      <4>1. m \in Nat /\ m <= 2
        BY InstrLinesExpand, LenProperties, ExpansionShort
      <4>2. Stmt \in {pos, pos + 1} /\ Stmt + 1 \in Nat
        BY <1>1 DEF Stmt
      <4>3. used \in 0..3
        BY <1>1, <4>2, OperandsType
      <4>4. text_addr' = text_addr + 4 * m /\ pos' = Stmt + 1 + used
        BY <3>1, ParseInstrText DEF ParseInstr
      <4>5. pos <= Len(source) /\ text_addr <= TextStart + 8 * (pos - 1)
        BY <3>1 DEF ParseInstr, Lexing, BoundInv
      <4> HIDE DEF m, used
      <4>6. text_addr' <= TextStart + 8 * pos /\ pos <= pos' - 1
        BY <1>1, <4>1, <4>2, <4>3, <4>4, <4>5
      <4>7. pos' \in Nat
        BY DEF TypeOK
      <4> QED BY <1>1, <4>1, <4>4, <4>5, <4>6, <4>7 DEF Bound
    <3>2. CASE ParseData \/ ParseOther \/ ParseSegment \/ Throw \/ SkipComment
      <4>1. text_addr' = text_addr /\ phase # "idle"
        BY <3>2 DEF ParseData, ParseOther, ParseSegment, Throw, SkipComment,
                    Lexing
      <4>2. pos' \in Nat /\ pos' >= pos
        <5>1. CASE ParseData
          <6> DEFINE r == ParseDirective(StmtHead.word, Stmt + 1)
          <6>1. Stmt \in {pos, pos + 1} /\ Stmt + 1 \in Nat \ {0}
            BY <1>1 DEF Stmt
          <6>2. r.used \in Nat
            BY <1>1, <6>1, ReservationType DEF IsReservation
          <6>3. pos' = Stmt + 1 + r.used
            BY <5>1 DEF ParseData
          <6> HIDE DEF r
          <6> QED BY <1>1, <6>1, <6>2, <6>3
        <5>2. CASE ParseOther \/ ParseSegment \/ Throw
          <6>1. Stmt \in {pos, pos + 1} /\ pos' \in {Stmt + 1, Stmt + 2}
            BY <1>1, <5>2 DEF Stmt, ParseOther, ParseSegment, Throw
          <6> QED BY <1>1, <6>1
        <5>3. CASE SkipComment
          BY <1>1, <5>3 DEF SkipComment
        <5> QED BY <3>2, <5>1, <5>2, <5>3
      <4>3. text_addr <= TextStart + 8 * (pos - 1) /\ text_addr <= Bound
        BY <4>1 DEF BoundInv
      <4>4. text_addr <= TextStart + 8 * (pos' - 1)
        <5>1. ASSUME NEW t \in Nat, NEW b \in Nat, NEW p \in Nat,
                     NEW q \in Nat, t <= b + 8 * (p - 1), q >= p
              PROVE  t <= b + 8 * (q - 1)
          BY <5>1
        <5> QED BY <1>1, <4>2, <4>3, <5>1
      <4> QED BY <4>1, <4>3, <4>4
    <3>3. CASE ResolveLabels \/ UNCHANGED vars
      <4>1. /\ text_addr' = text_addr /\ pos' = pos
            /\ (phase' # "idle" => phase # "idle")
        BY <3>3 DEF ResolveLabels, vars
      <4> QED BY <4>1 DEF BoundInv
    <3> QED BY <1>3, <3>1, <3>2, <3>3 DEF Next, ParseLine
  <2>4. \A i \in DOMAIN syms' :
          syms'[i].run = runs /\ syms'[i].section = "text"
            => phase # "idle" /\ syms'[i].addr <= Bound
    <3>1. CASE syms' = syms
      BY <3>1 DEF BoundInv
    <3>2. CASE phase = "lex" /\ syms' = Append(syms, NewSymbol)
      <4>1. /\ DOMAIN syms' = 1..(Len(syms) + 1)
            /\ \A i \in 1..Len(syms) : syms'[i] = syms[i]
            /\ syms'[Len(syms) + 1] = NewSymbol
        BY <1>1, <3>2
      <4>2. NewSymbol.section = "text" => NewSymbol.addr <= Bound
        BY <3>2 DEF NewSymbol, AddrHere, BoundInv
      <4> QED BY <1>1, <3>2, <4>1, <4>2 DEF BoundInv
    <3> QED BY <3>1, <3>2, SymbolsGrow
  <2> QED BY <2>1, <2>2, <2>3, <2>4 DEF BoundInv, Bound
<1> QED BY <1>2, <1>3

LEMMA BoundInvHolds == Spec => []BoundInv
<1>1. Init => BoundInv
  BY DEF Init, BoundInv
<1>2. TypeOK /\ TypeOK' /\ LabelInv /\ BoundInv /\ [Next]_vars => BoundInv'
  BY BoundStep
<1> QED BY <1>1, <1>2, TypeCorrect, LabelInvHolds, PTL DEF Spec

\* Two halves of 16 bits make an address, a 16-bit distance leads to it.
LEMMA HalvesMeet ==
  ASSUME NEW a \in Nat, a \div 65536 < 65536
  PROVE  HighHalf(a) * 65536 + LowHalf(a) = a
<1>1. a \div 65536 \in Nat /\ a = 65536 * (a \div 65536) + (a % 65536)
  BY SMT
<1>2. (a \div 65536) % 65536 = a \div 65536
  BY <1>1, SMT
<1> QED BY <1>1, <1>2, SMT DEF HighHalf, LowHalf

LEMMA DistanceLeads ==
  ASSUME NEW a \in Nat, NEW l \in TextInfo
  PROVE  (l.addr + BranchOffset(l, a)) % 65536 = a % 65536
<1> DEFINE b == l.addr
<1>1. b \in Nat
  BY DEF TextInfo
<1>2. BranchOffset(l, a) = (a - b) % 65536
  BY DEF BranchOffset
<1> HIDE DEF b
<1>3. (b + ((a - b) % 65536)) % 65536 = a % 65536
  BY <1>1, SMT
<1>4. (b + BranchOffset(l, a)) % 65536 = a % 65536
  BY <1>2, <1>3
<1> QED BY <1>4 DEF b

(* ReferencesReachLabels, for every source that fits into the segment: a   *)
(* label marks the record after it, resolveLabels fills in the first       *)
(* label's address, and the halves of a load are found side by side.       *)
THEOREM ReferencesArrive == Spec => []ReferencesReachLabels
<1>1. /\ TypeOK /\ AddrInv /\ BoundInv /\ LabelMarksNext /\ LineInv /\ DoneInv
      => ReferencesReachLabels
  <2> SUFFICES ASSUME TypeOK, AddrInv, BoundInv, LabelMarksNext, LineInv,
                      DoneInv, phase = "done", NEW i \in DOMAIN text,
                      text[i].is_symbol, DefinedInText(text[i].symbol)
               PROVE  LET l == text[i]
                          target == TargetOf(l.symbol)
                      IN /\ l.op \in ImmOps => l.args[1].val = target
                         /\ l.op \in BranchOps =>
                              (l.addr + l.args[3].val) % 65536
                                = target % 65536
                         /\ l.lower =>
                              text[i - 1].args[3].val * 65536 + l.args[3].val
                                = target
    BY DEF ReferencesReachLabels
  <2> DEFINE l == text[i]
             a == GetAddr(l.symbol)
             d == FirstDef(l.symbol)
  <2>1. /\ DOMAIN text = 1..Len(text) /\ l \in TextInfo /\ syms \in Seq(Symbol)
        /\ DOMAIN syms = 1..Len(syms) /\ Len(text) \in Nat
    BY TextEnds, LenProperties DEF TypeOK
  <2>2. /\ d \in DOMAIN syms /\ a = syms[d].addr /\ a \in Nat /\ a > 0
        /\ syms[d].run = runs /\ syms[d].section = "text"
    BY <2>1, FirstDefIs, FoundIsDefined DEF DefinedInText, GetAddr
  <2>3. a = TargetOf(l.symbol)
    BY <2>2 DEF LabelMarksNext, TargetOf
  <2>4. a \div 65536 < 65536
    <3>1. a <= Bound /\ source \in Sources
      BY <2>2 DEF BoundInv
    <3>2. Bound \in Nat /\ Bound \div 65536 < 65536
      BY <3>1, FitAssumption, AddrAssumption, LenProperties DEF Bound, TypeOK
    <3> HIDE DEF a
    <3> QED BY <2>2, <3>1, <3>2, SMT
  <2>5. Settled(l, a)
    BY DEF DoneInv
  <2>6. ASSUME l.lower
        PROVE  text[i - 1].args[3].val * 65536 + l.args[3].val = a
    <3> DEFINE h == text[i - 1]
    <3>1. PairOf(h, l) /\ i - 1 \in DOMAIN text
      BY <2>1, <2>6 DEF LineInv, PairInv
    <3>2. h.symbol = l.symbol
      BY <3>1 DEF PairOf
    <3>3. Settled(h, a)
      BY <3>1, <3>2 DEF DoneInv
    <3> HIDE DEF h, l, a
    <3>4. h.args[3].val = HighHalf(a) /\ l.args[3].val = LowHalf(a)
      BY <2>2, <2>5, <2>6, <3>1, <3>3 DEF Settled, PairOf, RefArg, ImmOps, l
    <3> QED BY <2>2, <2>4, <3>4, HalvesMeet DEF h, l
  <2>7. ASSUME l.op \in BranchOps
        PROVE  (l.addr + l.args[3].val) % 65536 = a % 65536
    <3>1. l.args[3].val = BranchOffset(l, a)
      BY <2>2, <2>5, <2>7 DEF Settled, RefArg, BranchOps, ImmOps
    <3> QED BY <2>1, <2>2, <3>1, DistanceLeads
  <2>8. ASSUME l.op \in ImmOps PROVE l.args[1].val = a
    BY <2>2, <2>5, <2>8 DEF Settled, RefArg
  <2> QED BY <2>3, <2>6, <2>7, <2>8
<1> QED BY <1>1, TypeCorrect, AddrInvHolds, BoundInvHolds, LabelsMarkNext,
        LineInvHolds, DoneInvHolds, PTL
=============================================================================
