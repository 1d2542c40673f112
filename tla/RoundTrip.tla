------------------------------ MODULE RoundTrip ------------------------------
(***************************************************************************)
(* One instruction going back and forth between assembleText and           *)
(* dis_instr: what the test suites do once, for chosen instructions.  A    *)
(* start is a line of the lexer's or, for "disassem -l", any word.         *)
(***************************************************************************)
EXTENDS Codec

CONSTANTS Lines,  (* Lines the lexer may deliver.                          *)
          Starts  (* Words given to the disassembler.                      *)

ASSUME LinesAssumption == Lines \subseteq [op : Mnemonics, args : Args]
ASSUME StartsAssumption == Starts \subseteq Word

VARIABLES line, word,
          side  (* Which of the two is the newer one: "line" or "word".    *)

vars == <<line, word, side>>

Assemble == /\ side = "line"
            /\ word' = AssembleText(line)
            /\ side' = "word"
            /\ UNCHANGED line

Disassemble == /\ side = "word"
               /\ line' = DisInstr(word)
               /\ side' = "line"
               /\ UNCHANGED word

Init == \/ line \in Lines /\ word = Noop /\ side = "line"
        \/ line = BlankLine /\ word \in Starts /\ side = "word"

Next == Assemble \/ Disassemble

Spec == Init /\ [][Next]_vars
-----------------------------------------------------------------------------
\* Every variable holds the values its C++ type and its use allow.
RoundTripTypeOK ==
  /\ side \in {"line", "word"}
  /\ word \in Word
  /\ line \in [op : Mnemonics, args : Args]

\* The operands the lexer gives an instruction that both tools know, where
\* they fit the fields of the word.
MaxTarget == 268435455
IsReg(arg) == arg.type = "REGISTER" /\ arg.val \in 0..31
IsLit(arg, top) == arg.type = "LITERAL" /\ arg.val \in 0..top
Fits(l) ==
  LET a == l.args[1]
      b == l.args[2]
      c == l.args[3]
  IN \/ /\ l.op \in ThreeRegOps \ {"xor", "jr"}
        /\ IsReg(a) /\ IsReg(b) /\ IsReg(c)
     \/ l.op \in ShiftOps /\ IsReg(a) /\ IsReg(b) /\ IsLit(c, 31)
     \/ l.op \in RsRtOps /\ IsReg(a) /\ IsReg(b) /\ c = None
     \/ l.op \in RdOps \cup RsOps \cup {"jr"} /\ IsReg(a) /\ b = None /\ c = None
     \/ l.op \in IOps /\ IsReg(a) /\ IsReg(b) /\ IsLit(c, MaxHalf)
     \/ l.op = "lui" /\ IsReg(a) /\ b = None /\ IsLit(c, MaxHalf)
     \/ /\ l.op \in JOps /\ IsLit(a, MaxTarget) /\ a.val % 4 = 0
        /\ b = None /\ c = None

\* What such a line comes back as.  The two tools disagree on which operand
\* of a branch is rs, the disassembler prints $zero where lui and jr have no
\* operand and drops bit 26 of a target, and srl is assembled as sll.
WithoutBit26(n) == n - 67108864 * ((n \div 67108864) % 2)
Returned(l) ==
  LET a == l.args[1]
      b == l.args[2]
      c == l.args[3]
  IN CASE l.op \in {"beq", "bne"} -> Line(l.op, b, a, c)
       [] l.op = "jr"             -> Line("jr", a, Reg(0), Reg(0))
       [] l.op = "lui"            -> Line("lui", a, Reg(0), c)
       [] l.op = "srl"            -> Line("sll", a, b, c)
       [] l.op \in JOps           -> Line(l.op, Lit(WithoutBit26(a.val)), b, c)
       [] OTHER                   -> l

(* What an assembled line is disassembled to is that line again, but for   *)
(* the five differences above: tables, shifts and masks on both sides      *)
(* agree.  Left out are lines that assemble to a noop, which is not listed *)
(* as an instruction, xor, which has no listing, and operands that do not  *)
(* fit their fields.                                                       *)
LinesComeBack ==
  side = "line" /\ Fits(line) /\ AssembleText(line) # Noop =>
    DisInstr(AssembleText(line)) = Returned(line)

(* From whatever word it starts, one round through listing and assembly    *)
(* gives a word that later rounds do not change any more, except that a    *)
(* branch has its operands swapped each time.                              *)
Again(w) == AssembleText(DisInstr(w))
Swapped(w) == IF w.op \in {4, 5} THEN [w EXCEPT !.rs = w.rt, !.rt = w.rs] ELSE w
WordsSettle ==
  side = "word" => Again(Again(word)) = Swapped(Again(word))

(* A word the assembler made from a line is not disassembled to another    *)
(* instruction, except srl, which it assembles as sll.                     *)
NoOtherInstruction ==
  [][Disassemble => line'.op \in {line.op, "null"}
                    \/ line = BlankLine \/ line.op = "srl"]_vars
=============================================================================
