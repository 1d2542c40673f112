------------------------------ MODULE Toolchain ------------------------------
(***************************************************************************)
(* The way of a source through the whole program: main() of assem.cpp      *)
(* lexes it, looks for errors and assembles it.  Then either               *)
(* Program::toVec makes bytes of the words, State::writeMem puts them at   *)
(* address 0 and tick() runs them, or disassem lists them and the listing  *)
(* is given to assem again.  Each part is right by its own tests; here     *)
(* they have to agree.                                                     *)
(*                                                                         *)
(* The source is kept as the statements a programmer writes, whose meaning *)
(* is defined below without looking at how they are lexed, expanded,       *)
(* encoded or decoded.                                                     *)
(***************************************************************************)
EXTENDS Codes, Integers, SequencesExt

CONSTANTS
  Words,      (* The words sources are written in, mnemonics among them.   *)
  Listings,   (* The sources: sequences of statements.                     *)
  TextStart,  (* text_start_addr, 0x00400000 in the program.               *)
  DataStart,  (* data_start_addr, 0x10000000 in the program.               *)
  MemSize,    (* Size of the memory, SMIPS_MEM_SIZE in the program.        *)
  MaxTicks    (* How many instructions are run.  Bounds the model.         *)

\* The word that is not there: no label, no reference, a token without a name.
NoWord == ""

(***************************************************************************)
(* A statement: an optional label, an operation, its registers, and an     *)
(* immediate (-1 if none) or the name of a label.  bad: its last operand   *)
(* is not one, a register misspelled for instance.                         *)
(***************************************************************************)
Statement == [label : Words, op : Words, regs : Seq(0..31), imm : Int,
              ref : Words, bad : BOOLEAN]

\* The registers an operation is written with, and whether an immediate or
\* the name of a label follows them.
RegCount(op) == CASE op \in RegOps \cup RegImmOps -> 1
                  [] op \in RegRegOps \cup OffsetOps \cup RegRegImmOps -> 2
                  [] op \in RegRegRegOps -> 3
                  [] OTHER -> 0
TakesValue(op) ==
  op \in ImmOps \cup RegImmOps \cup RegRegImmOps \cup StoreDirectives

(***************************************************************************)
(* The statements of a source: a mnemonic or directive of the tables with  *)
(* the operands it takes, and no mnemonic for a label.  What stands behind *)
(* a mnemonic that the parser has no case for is open.                     *)
(***************************************************************************)
Complete(s) ==
  /\ s.op \in InstrCodes \cup StoreDirectives
  /\ s.label \notin InstrCodes /\ s.ref \notin InstrCodes
  /\ s.bad => s.regs # << >> \/ s.imm >= 0 \/ s.ref # NoWord
  /\ s.op \notin RejectedOps =>
       /\ Len(s.regs) = RegCount(s.op)
       /\ s.ref = NoWord \/ s.imm < 0
       /\ s.ref # NoWord => TakesValue(s.op)
       /\ s.imm >= 0 => TakesValue(s.op) \/ s.op \in OffsetOps
       /\ TakesValue(s.op) => s.ref # NoWord \/ s.imm >= 0

ASSUME ListingsAssumption ==
  Listings \subseteq Seq(Statement) /\ \A p \in Listings : \A k \in DOMAIN p : Complete(p[k])
ASSUME SizesAssumption == MemSize \in Nat /\ MaxTicks \in Nat

VARIABLES
  listing,    (* The statements of the source given to assem.              *)
  tool,       (* "lex", "assembled", "cpu", or "refused": exit(-1).        *)
  code,       (* The words of the Assembler's program.                     *)
  listed,     (* The words disassem listed, none in the first round.       *)
  source, pos, phase, mode, text_addr, data_addr, text, data, syms, runs,
              (* The Lexer.                                                *)
  stage, pc, instr, field, hi, lo, alu, mem_addr, mem_data, reg, mem, ticks,
  last        (* The processor.                                            *)

lexerVars == <<source, pos, phase, mode, text_addr, data_addr, text, data,
               syms, runs>>
cpuVars == <<stage, pc, instr, field, hi, lo, alu, mem_addr, mem_data, reg,
             mem, ticks, last>>
vars == <<listing, tool, code, listed, lexerVars, cpuVars>>
-----------------------------------------------------------------------------
(***************************************************************************)
(* A statement as the tokens of one line.                                  *)
(***************************************************************************)
Tk(kind, word, val) ==
  [kind |-> kind, word |-> word, val |-> val, off |-> -1, eol |-> "no"]
\* A line of tokens, and what stands before the newline.
Closed(ts, eol) == [ts EXCEPT ![Len(ts)].eol = eol]

Tokens(s) ==
  LET label == IF s.label = NoWord THEN << >> ELSE <<Tk("word", s.label, 0)>>
      op    == <<Tk(IF s.op \in StoreDirectives THEN "dir" ELSE "word",
                    s.op, 0)>>
      regs  == [i \in DOMAIN s.regs |-> Tk("reg", NoWord, s.regs[i])]
      imm   == IF s.imm < 0 THEN << >> ELSE <<Tk("lit", NoWord, s.imm)>>
      ref   == IF s.ref = NoWord THEN << >> ELSE <<Tk("word", s.ref, 0)>>
      body  == IF s.op \in OffsetOps
               THEN label \o op \o [regs EXCEPT ![2].off = s.imm]
               ELSE label \o op \o regs \o imm \o ref
      broken == [body EXCEPT ![Len(body)].kind = "bad"]
  IN Closed(IF s.bad THEN broken ELSE body, "tight")

SourceOf(p) == FlattenSeq([k \in DOMAIN p |-> Tokens(p[k])])

L == INSTANCE Lexer WITH Sources <- {}, Reused <- {}, MaxRuns <- 2
A == INSTANCE Codec
C == INSTANCE State WITH Images <- {}, Pokes <- {}, Junk <- {0}
D == INSTANCE Datapath
-----------------------------------------------------------------------------
(***************************************************************************)
(* assem: lex(), then the errors of the text records, those of the data    *)
(* records are not looked at, then the Assembler.                          *)
(***************************************************************************)
LoadSource ==
  /\ tool = "lex" /\ phase = "idle"
  /\ L!LexOf(SourceOf(listing))
  /\ UNCHANGED <<listing, tool, code, listed, mode, syms, cpuVars>>

\* lex() does not throw here: neither a statement nor a listed word has a
\* mnemonic in capitals or a character constant.
LexStep ==
  /\ tool = "lex"
  /\ L!ParseLine \/ L!SkipComment \/ L!ResolveLabels
  /\ UNCHANGED <<listing, tool, code, listed, cpuVars>>

\* Seeded fault: only the record of the last line is looked at.
HasError_Last == text # << >> /\ text[Len(text)].error
HasError == \E i \in DOMAIN text : text[i].error

Refuse ==
  /\ tool = "lex" /\ phase = "done" /\ HasError
  /\ tool' = "refused"
  /\ UNCHANGED <<listing, code, listed, lexerVars, cpuVars>>

Assemble ==
  /\ tool = "lex" /\ phase = "done" /\ ~HasError
  /\ code' = [i \in DOMAIN text |-> A!AssembleText(text[i])]
  /\ tool' = "assembled"
  /\ UNCHANGED <<listing, listed, lexerVars, cpuVars>>

(***************************************************************************)
(* Program::toVec, the most significant byte of a word first, and          *)
(* State::writeMem, which drops a program that does not fit.               *)
(***************************************************************************)
\* Seeded fault: the two bytes of the low half are swapped.
BytesOf_Swapped(w) == <<w.op * 4 + w.rs \div 8, (w.rs % 8) * 32 + w.rt,
                        w.low % 256, w.low \div 256>>
BytesOf(w) == <<w.op * 4 + w.rs \div 8, (w.rs % 8) * 32 + w.rt,
                w.low \div 256, w.low % 256>>

WriteMem ==
  /\ tool = "assembled" /\ listed = << >>
  /\ mem' = IF 4 * Len(code) > MemSize THEN mem
            ELSE [a \in DOMAIN mem |->
                    IF a < 4 * Len(code)
                    THEN BytesOf(code[(a \div 4) + 1])[(a % 4) + 1] ELSE mem[a]]
  /\ last' = [last EXCEPT !.mem = mem']
  /\ tool' = "cpu"
  /\ UNCHANGED <<listing, code, listed, lexerVars, stage, pc, instr, field, hi, lo,
                 alu, mem_addr, mem_data, reg, ticks>>

Run ==
  /\ tool = "cpu"
  /\ C!Fetch \/ C!Decode \/ C!Execute \/ C!Memory \/ C!WriteBack
  /\ UNCHANGED <<listing, tool, code, listed, lexerVars>>

(***************************************************************************)
(* disassem prints TextInfo::toInstrString of each word, and a new process *)
(* of assem reads it.  The second comma of mfhi and the like, which have   *)
(* one operand, stands alone and is scanned as a label without a name; a   *)
(* literal is printed for I-instructions only, after the registers even    *)
(* where it is an offset.  The target printed for a jump is args[2], while *)
(* dis_instr() put it into args[0].                                        *)
(***************************************************************************)
Immediate == A!IOps \cup {"lui", "slti", "sltiu"}

Printed(l, i) ==
  CASE l.args[i].type = "REGISTER" -> <<Tk("reg", NoWord, l.args[i].val)>>
    [] l.args[i].type = "LITERAL" /\ l.op \in Immediate ->
         <<Tk("lit", NoWord, l.args[i].val)>>
    [] OTHER -> IF i = 2 THEN <<Tk("word", NoWord, 0)>> ELSE << >>

ToInstrString(l) ==
  CASE l.op = "null" -> <<Tk("caps", "NOOP", 0)>>
    [] l.op \in A!JOps -> <<Tk("word", l.op, 0), Tk("lit", NoWord, l.args[3].val)>>
    [] OTHER -> <<Tk("word", l.op, 0)>>
                \o Printed(l, 1) \o Printed(l, 2) \o Printed(l, 3)

ListingOf(words) ==
  FlattenSeq([i \in DOMAIN words |->
                Closed(ToInstrString(A!DisInstr(words[i])), "loose")])

Relist ==
  /\ tool = "assembled" /\ listed = << >> /\ code # << >>
  /\ listed' = code /\ code' = << >> /\ tool' = "lex"
  /\ L!LexOf(ListingOf(code)) /\ mode' = "text" /\ syms' = << >>
  /\ UNCHANGED <<listing, cpuVars>>

Init ==
  /\ listing \in Listings /\ tool = "lex" /\ code = << >> /\ listed = << >>
  /\ L!Init
  /\ stage = "fetch"
  /\ pc = 0 /\ instr = <<0, 0, 0, 0>> /\ field = C!ZeroField
  /\ hi = 0 /\ lo = 0 /\ alu = 0 /\ mem_addr = 0 /\ mem_data = 0
  /\ reg = C!ZeroReg
  /\ mem = [a \in C!Address |-> 0]
  /\ ticks = 0
  /\ last = C!Boundary(reg)

Next == \/ LoadSource \/ LexStep \/ Refuse \/ Assemble
        \/ WriteMem \/ Run
        \/ Relist

Spec == Init /\ [][Next]_vars
-----------------------------------------------------------------------------
(***************************************************************************)
(* What the statements mean to a programmer: registers, HI and LO after    *)
(* the first k statements, and when a branch is taken.                     *)
(***************************************************************************)
Conditions == {"beq", "bne", "beqz", "bgt", "blt", "bge", "ble", "bgtu"}
Jumps      == {"j", "jal", "jr"}
Branching(s) == s.op \in Conditions \cup Jumps

\* The operations with a result, by what they compute of x and y.
Result(op, x, y) ==
  CASE op \in {"add", "addi", "addiu"} -> D!Add32(x, y)
    [] op \in {"and", "andi"} -> D!And32(x, y)
    [] op \in {"or", "ori"}   -> D!Or32(x, y)
    [] op \in {"xor", "xori"} -> D!Xor32(x, y)
    [] op = "slt"  -> IF x < y THEN 1 ELSE 0
    [] op = "sltu" -> IF D!LessU(x, y) THEN 1 ELSE 0
    [] op = "sll"  -> D!ShiftLeft(x, y)
HiLoFunc == [mthi |-> 17, mtlo |-> 19, mult |-> 24, div |-> 26, mul |-> 24]

\* How many words a statement takes.
Width(s) == CASE s.op \in StoreDirectives -> 0
              [] s.op \in CompareOps \cup {"la", "mul"} -> 2
              [] s.op = "li" -> IF s.imm > 65535 THEN 2 ELSE 1
              [] OTHER -> 1
End[k \in 0..Len(listing)] ==
  IF k = 0 THEN 0 ELSE End[k - 1] + Width(listing[k])

\* Where a label stands, in bytes from the first instruction on.
Offset(name) ==
  4 * End[(CHOOSE k \in DOMAIN listing : listing[k].label = name) - 1]

Effect(s, m) ==
  LET r(i) == m.reg[s.regs[i]]
      y == IF s.imm < 0 THEN r(3) ELSE s.imm
      sets(v) == [m EXCEPT !.reg[s.regs[1]] = v]
      hilo(x, z) == D!HiLo(HiLoFunc[s.op], x, z, m.hi, m.lo)
  IN CASE s.op = "li"   -> sets(s.imm)
       [] s.op = "la"   -> sets(TextStart + Offset(s.ref))
       [] s.op = "lui"  -> sets(D!ShiftLeft(s.imm, 16))
       [] s.op = "mfhi" -> sets(m.hi)
       [] s.op = "mflo" -> sets(m.lo)
       [] s.op \in {"mthi", "mtlo"} ->
            [reg |-> m.reg, hi |-> hilo(r(1), 0).hi, lo |-> hilo(r(1), 0).lo]
       [] s.op \in {"mult", "div"} ->
            [reg |-> m.reg, hi |-> hilo(r(1), r(2)).hi, lo |-> hilo(r(1), r(2)).lo]
       [] s.op = "mul" ->
            [reg |-> sets(hilo(r(2), r(3)).lo).reg,
             hi |-> hilo(r(2), r(3)).hi, lo |-> hilo(r(2), r(3)).lo]
       [] Branching(s) \/ Width(s) = 0 \/ s.op \in OffsetOps -> m
       [] OTHER -> sets(Result(s.op, r(2), y))
After[k \in 0..Len(listing)] ==
  IF k = 0 THEN [reg |-> C!ZeroReg, hi |-> 0, lo |-> 0]
  ELSE Effect(listing[k], After[k - 1])

Holds(s, m) ==
  LET x == m.reg[s.regs[1]]
      y == m.reg[s.regs[2]]
  IN CASE s.op = "beq"  -> x = y
       [] s.op = "bne"  -> x # y
       [] s.op = "beqz" -> x = 0
       [] s.op = "bgt"  -> x > y
       [] s.op = "blt"  -> x < y
       [] s.op = "bge"  -> x >= y
       [] s.op = "ble"  -> x <= y
       [] s.op = "bgtu" -> D!LessU(y, x)

(***************************************************************************)
(* The statements that leave something else than 0 in $zero: rd is 0 in    *)
(* the words they become, and write_back() writes it all the same.  The    *)
(* comparisons are among them: $at is odd, so slt writes $zero instead.    *)
(***************************************************************************)
Dirties(s) == s.op \in CompareOps \cup DOMAIN HiLoFunc

\* The processor has just run statement k, and before it neither control nor
\* $zero was touched.
Reached(k) ==
  /\ tool = "cpu" /\ stage = "fetch" /\ ticks > 0 /\ ticks = End[k]
  /\ \A j \in 1..(k - 1) : ~Branching(listing[j]) /\ ~Dirties(listing[j])
  /\ \A j \in 1..k : ~listing[j].bad /\ listing[j].op \notin OffsetOps
-----------------------------------------------------------------------------
(* Straight-line code does what the source says: after each statement all  *)
(* registers but $zero, HI and LO have their values, and control is at the *)
(* next statement.  Mnemonics, operand orders, pseudo expansion, address   *)
(* halves, field masks and byte order of five components agree.            *)
ResultsAsWritten ==
  \A k \in DOMAIN listing :
    Reached(k) /\ ~Branching(listing[k]) =>
      /\ pc = 4 * ticks
      /\ \A r \in 1..31 : reg[r] = After[k].reg[r]
      /\ hi = After[k].hi /\ lo = After[k].lo

(* A conditional branch, real or pseudo, leaves the straight line exactly  *)
(* if its condition holds: the comparison it expands to and the branch on  *)
(* it have the right operands and sense, though the flag is in $zero       *)
(* instead of $at.  No other register changes than these two and the first *)
(* operand of a real branch, which gets whatever the ALU register holds.   *)
BranchesAsWritten ==
  \A k \in DOMAIN listing :
    Reached(k) /\ listing[k].op \in Conditions =>
      /\ pc # 4 * ticks <=> Holds(listing[k], After[k - 1])
      /\ \A r \in 2..31 \ (IF Dirties(listing[k]) THEN {}
                           ELSE {listing[k].regs[1]}) : reg[r] = After[k].reg[r]

(* assem refuses a source exactly if a real instruction has an operand     *)
(* that is none or a mnemonic the parser has no case for.  A pseudo        *)
(* instruction loses its error when it is expanded, and a data directive   *)
(* has its own, which nobody asks for.                                     *)
Wrong(s) == \/ s.bad /\ s.op \notin PseudoOps \cup StoreDirectives
            \/ s.op \in RejectedOps
RefusedIfWrong ==
  /\ tool = "refused" /\ listed = << >> =>
       \E k \in DOMAIN listing : Wrong(listing[k])
  /\ tool \in {"assembled", "cpu"} =>
       \A k \in DOMAIN listing : ~Wrong(listing[k])

(***************************************************************************)
(* What a listing brings back of the words listed.  A word without a name  *)
(* is listed as "NOOP", which is no mnemonic, and behind the register of   *)
(* mfhi and the like stands a name without letters.  The lexer takes such  *)
(* a name for the label of what follows.  Name(k): after line k one is     *)
(* left over.                                                              *)
(***************************************************************************)
OpListed(k) == A!DisInstr(listed[k]).op
IsShift(k)  == k > 0 /\ OpListed(k) \in A!ShiftOps
Name[k \in 0..Len(listed)] ==
  /\ k > 0
  /\ \/ OpListed(k) = "null" /\ ~IsShift(k - 1) /\ ~Name[k - 1]
     \/ OpListed(k) \in A!RdOps \cup A!RsOps

\* A shift without its amount: the listing does not have it.
NoAmount(w) == IF w.op = 0 /\ A!Func(w) = 0 THEN [w EXCEPT !.low = @ - 64 * A!Shamt(w)]
                                           ELSE w

(* A jump comes back without its target, against what dis_j_instr says of  *)
(* itself (see JumpsComeBack), a branch with its operands swapped, a load  *)
(* or store without its offset and with a noop behind it, a jr with two of *)
(* them, for the registers it does not have.  Of two names in a row the    *)
(* second one becomes a noop.                                              *)
Back(k) ==
  LET w == listed[k]
  IN CASE OpListed(k) \in A!JOps -> << [A!Noop EXCEPT !.op = w.op] >>
       [] OpListed(k) \in BranchOps -> << [w EXCEPT !.rs = w.rt, !.rt = w.rs] >>
       [] OpListed(k) \in OffsetOps -> << [w EXCEPT !.low = 0], A!Noop >>
       [] OpListed(k) = "jr" -> << w, A!Noop, A!Noop >>
       [] OpListed(k) = "null" -> IF Name[k - 1] THEN << A!Noop >> ELSE << >>
       [] OTHER -> << NoAmount(w) >>

\* A lui misses its literal, and a shift its amount unless a name or the end
\* of the listing follows, which are taken for a label.
Unreadable == \E k \in DOMAIN listed :
                \/ OpListed(k) = "lui"
                \/ IsShift(k) /\ k < Len(listed) /\ OpListed(k + 1) # "null"

(* A listing given to assem again is refused exactly if it is unreadable.  *)
(* All other words come back as Back says, neither more nor less, wherever *)
(* they stand: no other operand, label or comma of one line is taken for a *)
(* part of another.  A name at the end is a noop; the amounts of shifts    *)
(* are left open.                                                          *)
ListingsComeBack ==
  listed # << >> =>
    /\ tool = "refused" => Unreadable
    /\ tool = "assembled" =>
         /\ ~Unreadable
         /\ [i \in DOMAIN code |-> NoAmount(code[i])]
              = FlattenSeq([k \in DOMAIN listed |-> Back(k)])
                  \o IF Name[Len(listed)] THEN << A!Noop >> ELSE << >>
-----------------------------------------------------------------------------
(* What documents of the repository say and the components together do not *)
(* do.  Each claim is refuted by a run of its own.                         *)

(* asm/for_loop.asm:14, "j      top   # go to top of loop".                *)
JumpsReachLabels ==
  \A k \in DOMAIN listing :
    Reached(k) /\ listing[k].op = "j" => pc = Offset(listing[k].ref)

(* README.md:52, "The assembler and disassembler support the following     *)
(* instructions": one of them is assembled to a word that is disassembled  *)
(* to it.                                                                  *)
SupportedByBoth ==
  tool = "assembled" =>
    \A k \in DOMAIN code : A!DisInstr(code[k]).op = listing[k].op

(* Disassembler.cpp:225 on the target of a jump, "this ensures the output  *)
(* is such that if we put it back in the lexer we'd be able to assemble    *)
(* the same program again": a program of jumps is.                         *)
JumpsComeBack ==
  listed # << >> /\ tool \in {"assembled", "refused"} =>
    ((\A k \in DOMAIN listed : OpListed(k) \in A!JOps)
       => tool = "assembled" /\ code = listed)
=============================================================================
