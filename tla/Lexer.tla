-------------------------------- MODULE Lexer --------------------------------
(***************************************************************************)
(* The lexer of the assembler (src/src/tools/Lexer.cpp, Source.cpp) at the *)
(* level of tokens: one pass that turns statements into text and data      *)
(* records while it hands out addresses and collects labels, expanding     *)
(* pseudo instructions on the way, and a second pass that replaces labels  *)
(* by addresses.  One Lexer object lexes several sources one after the     *)
(* other, as the test suites and a tool that keeps its Lexer do.           *)
(*                                                                         *)
(* What a token is, is decided by characters, below this module.           *)
(***************************************************************************)
EXTENDS Integers, Sequences, Codes

CONSTANTS
  Words,      (* The words sources are written in, mnemonics among them.   *)
  Sources,    (* The sources a user may load: sequences of tokens.         *)
  Reused,     (* Those of them that a Lexer which lexes several is given.  *)
              (* Bounds the model.                                         *)
  TextStart,  (* text_start_addr, 0x00400000 in the program.               *)
  DataStart,  (* data_start_addr, 0x10000000 in the program.               *)
  MaxRuns     (* How often lex() is called.  Bounds the model.             *)

(***************************************************************************)
(* A token as nextToken delivers it.  "caps" is a word not written in      *)
(* lower case, "bad" a register name that is not one, "char" a character   *)
(* constant without its closing quote, val being its digit and more than 9 *)
(* if it is none, "str" a string of val characters, "empty" the empty      *)
(* token a comment leaves behind.  eol says what follows on the line: more *)
(* ("no"), the newline itself ("tight"), or blanks and then the newline    *)
(* ("loose").                                                              *)
(***************************************************************************)
Token == [kind : {"word", "caps", "dir", "reg", "lit", "str", "char", "bad",
                  "empty"},
          word : Words, val : Nat, off : Int, eol : {"no", "tight", "loose"}]

ASSUME WordsAssumption ==
  {"", "null"} \cup InstrCodes \subseteq Words
ASSUME SourcesAssumption == Sources \subseteq Seq(Token) /\ Reused \subseteq Sources
ASSUME AddrAssumption == TextStart \in Nat \ {0} /\ DataStart \in Nat \ {0}
ASSUME RunsAssumption == MaxRuns \in Nat
\* Addresses are 32 bits wide: no source fills the segment.  A statement is
\* at least one token and at most two instructions long.
ASSUME FitAssumption ==
  \A s \in Sources : (TextStart + 8 * Len(s)) \div 65536 < 65536

VARIABLES
  source,     (* The tokens of source_text.                                *)
  pos,        (* Index of the next token to scan (cur_pos).                *)
  phase,      (* "idle": nothing lexed yet; "lex": in lex(); "done"; or    *)
              (* "thrown": lex() was left by an exception nobody catches.  *)
  mode,       (* cur_mode: "text" or "data".                               *)
  text_addr,  (* Address of the next instruction.                          *)
  data_addr,  (* Address of the next data byte.                            *)
  text,       (* source_info's TextInfo records.                           *)
  data,       (* source_info's DataInfo records.                           *)
  syms,       (* The symbol table, in order of definition.                 *)
  runs        (* Number of lex() calls so far.                             *)

vars == <<source, pos, phase, mode, text_addr, data_addr, text, data, syms,
          runs>>

Argument == [type : {"NONE", "REGISTER", "LITERAL", "LABEL"}, val : Int,
             offset : Int]
TextInfo == [op : Words, addr : Nat, args : Argument \X Argument \X Argument,
             is_symbol : BOOLEAN, symbol : Words, label : Words,
             upper : BOOLEAN, lower : BOOLEAN, error : BOOLEAN,
             standalone : BOOLEAN]
(* items is the length of the record's byte vector, one byte for each item *)
(* of a list, whatever its directive.                                      *)
DataInfo == [directive : StoreDirectives \cup {"none"}, addr : Nat, items : Nat,
             space : Nat, label : Words, error : BOOLEAN]
(* run and at are not in the program: the lex() call that added the symbol *)
(* and the index of the text or data record that follows the definition.   *)
Symbol == [label : Words, addr : Nat, section : {"text", "data"},
           run : Nat, at : Nat]
-----------------------------------------------------------------------------
(***************************************************************************)
(* Tokens and operands.                                                    *)
(***************************************************************************)
EmptyToken == [kind |-> "empty", word |-> "", val |-> 0, off |-> -1,
               eol |-> "no"]

\* The i-th token of the source; past the end only empty tokens are scanned.
Tok(i) == IF i \in 1..Len(source) THEN source[i] ELSE EmptyToken

IsInstr(t) == t.kind \in {"word", "caps"} /\ t.word \in InstrCodes
IsLabel(t) == \/ t.kind \in {"word", "caps"} /\ t.word \notin InstrCodes
              \/ t.kind = "empty"
Malformed(t) == t.kind \in {"bad", "char"}

NoArg == [type |-> "NONE", val |-> 0, offset |-> -1]
Literal(n) == [type |-> "LITERAL", val |-> n, offset |-> -1]
Register(n) == [type |-> "REGISTER", val |-> n, offset |-> -1]
RegZero == Register(0)
RegAt   == Register(1)

ParseRegister(i) ==
  IF Tok(i).kind = "reg"
  THEN [type |-> "REGISTER", val |-> Tok(i).val, offset |-> Tok(i).off]
  ELSE NoArg

ParseImmediate(i) ==
  CASE Tok(i).kind = "lit" -> Literal(Tok(i).val)
    [] IsLabel(Tok(i))     -> [type |-> "LABEL", val |-> 0, offset |-> -1]
    [] OTHER               -> NoArg

(***************************************************************************)
(* The operands of op, scanned from token i on: the arguments, the number  *)
(* of tokens they take, the token that may name a symbol (0 if none) and   *)
(* whether a missing immediate is reported.                                *)
(***************************************************************************)
ParseOperands(op, i) ==
  LET a == ParseRegister(i)
      b == ParseRegister(i + 1)
      plain(args, used) ==
        [args |-> args, used |-> used, immAt |-> 0, checked |-> FALSE]
  IN CASE op \in RegOps       -> plain(<<a, NoArg, NoArg>>, 1)
       [] op \in ImmOps       -> [args |-> <<ParseImmediate(i), NoArg, NoArg>>,
                                  used |-> 1, immAt |-> i, checked |-> FALSE]
       [] op \in RegRegOps    -> plain(<<a, b, IF b.offset > 0
                                              THEN Literal(b.offset)
                                              ELSE NoArg>>, 2)
       [] op \in RegImmOps    -> [args |-> <<a, NoArg, ParseImmediate(i + 1)>>,
                                  used |-> 2, immAt |-> i + 1, checked |-> TRUE]
       [] op \in OffsetOps    -> plain(<<a, b, Literal(IF b.offset > -1
                                                       THEN b.offset
                                                       ELSE 0)>>, 2)
       [] op \in RegRegImmOps ->
            IF b.offset > -1
            THEN plain(<<a, b, Literal(b.offset)>>, 2)
            ELSE [args |-> <<a, b, ParseImmediate(i + 2)>>,
                  used |-> 3, immAt |-> i + 2, checked |-> TRUE]
       [] op \in RegRegRegOps -> plain(<<a, b, ParseRegister(i + 2)>>, 3)
       [] OTHER               -> plain(<<NoArg, NoArg, NoArg>>, 0)

BlankLine == [op |-> "null", addr |-> 0, args |-> <<NoArg, NoArg, NoArg>>,
              is_symbol |-> FALSE, symbol |-> "", label |-> "",
              upper |-> FALSE, lower |-> FALSE, error |-> FALSE,
              standalone |-> FALSE]
-----------------------------------------------------------------------------
(***************************************************************************)
(* expandPsuedo: the records a pseudo instruction becomes.  Each starts    *)
(* from a blank record and copies what the code copies; in particular      *)
(* nothing copies the error flag.                                          *)
(***************************************************************************)
HighHalf(n) == (n \div 65536) % 65536
LowHalf(n)  == n % 65536

\* Seeded fault: the second record repeats the first one's address.
Copy_SameAddr(ti, op, k, args) ==
  [BlankLine EXCEPT !.op = op, !.addr = ti.addr, !.args = args]
Copy(ti, op, k, args) ==
  [BlankLine EXCEPT !.op = op, !.addr = ti.addr + 4 * k, !.args = args]
WithLabel(line, ti) == [line EXCEPT !.label = ti.label]
WithSymbol(line, ti) ==
  [line EXCEPT !.is_symbol = ti.is_symbol, !.symbol = ti.symbol]

\* The literal or label of args[2], cut down to the value v.
Half(arg, v) == [type |-> arg.type, val |-> v, offset |-> -1]

\* Seeded fault: the operands of ble are those of blt.
ExpandCompare_Ble(ti) ==
  LET s == ti.args[1]
      t == ti.args[2]
      set  == IF ti.op = "bgtu" THEN "sltu" ELSE "slt"
      jump == IF ti.op \in {"bge", "ble"} THEN "beq" ELSE "bne"
      operands == IF ti.op \in {"blt", "bge", "ble"} THEN <<RegAt, s, t>>
                                                     ELSE <<RegAt, t, s>>
  IN << WithLabel(Copy(ti, set, 0, operands), ti),
        WithSymbol(Copy(ti, jump, 1, <<RegAt, RegZero, ti.args[3]>>), ti) >>
ExpandCompare(ti) ==
  LET s == ti.args[1]
      t == ti.args[2]
      set  == IF ti.op = "bgtu" THEN "sltu" ELSE "slt"
      jump == IF ti.op \in {"bge", "ble"} THEN "beq" ELSE "bne"
      operands == IF ti.op \in {"blt", "bge"} THEN <<RegAt, s, t>>
                                              ELSE <<RegAt, t, s>>
  IN << WithLabel(Copy(ti, set, 0, operands), ti),
        WithSymbol(Copy(ti, jump, 1, <<RegAt, RegZero, ti.args[3]>>), ti) >>

LoadPair(ti) ==
  LET t == ti.args[1]
      imm == ti.args[3]
  IN << [Copy(ti, "lui", 0, <<t, NoArg, Half(imm, HighHalf(imm.val))>>)
           EXCEPT !.upper = TRUE],
        [Copy(ti, "ori", 1, <<t, t, Half(imm, LowHalf(imm.val))>>)
           EXCEPT !.lower = TRUE] >>

ExpandPseudo(ti) ==
  CASE ti.op = "mul" ->
         << Copy(ti, "mult", 0, <<ti.args[2], ti.args[3], NoArg>>),
            Copy(ti, "mflo", 1, <<ti.args[1], NoArg, NoArg>>) >>
    [] ti.op \in CompareOps -> ExpandCompare(ti)
    [] ti.op = "beqz" ->
         << WithSymbol(WithLabel(Copy(ti, "beq", 0,
                         <<ti.args[1], RegZero, ti.args[3]>>), ti), ti) >>
    [] ti.op = "la" -> << WithSymbol(LoadPair(ti)[1], ti),
                          WithSymbol(LoadPair(ti)[2], ti) >>
    [] ti.op = "li" ->
         IF ti.args[3].val > 65535
         THEN LoadPair(ti)
         ELSE << Copy(ti, "ori", 0, <<ti.args[1], RegZero,
                                      Literal(LowHalf(ti.args[3].val))>>) >>
    [] OTHER -> << >>
-----------------------------------------------------------------------------
(***************************************************************************)
(* parseLine.  An optional label, then a directive, an instruction or      *)
(* anything else; the label is entered before the statement is looked at.  *)
(***************************************************************************)
Lexing   == phase = "lex" /\ pos <= Len(source) /\ Tok(pos).kind # "empty"
Labelled == IsLabel(Tok(pos))
Stmt     == IF Labelled THEN pos + 1 ELSE pos
StmtHead     == Tok(Stmt)

LabelOf(m) == IF Labelled /\ mode = m THEN Tok(pos).word ELSE ""

\* Seeded fault: data labels are given the text segment's address too.
AddrHere_TextOnly == text_addr
AddrHere == IF mode = "text" THEN text_addr ELSE data_addr

EnterLabel ==
  syms' = IF Labelled
          THEN Append(syms, [label |-> Tok(pos).word, section |-> mode,
                             addr |-> AddrHere,
                             run |-> runs,
                             at |-> IF mode = "text" THEN Len(text) + 1
                                                     ELSE Len(data) + 1])
          ELSE syms

(* What throws out of parseLine().  nextToken() looks a mnemonic up in      *)
(* lower case and parseInstr as it is spelled: one in capitals is that of  *)
(* LEX_NULL, for which add_noop() makes a string of a null pointer.  And   *)
(* parseByte converts a character constant with stoi, digit or not.        *)
CapsThrow == IsInstr(StmtHead) /\ StmtHead.kind = "caps"
ByteThrow == /\ StmtHead.kind = "dir" /\ StmtHead.word = ".byte"
             /\ Tok(Stmt + 1).kind = "char" /\ Tok(Stmt + 1).val > 9

\* The label is in the table by then, and the segment switched.
Throw ==
  /\ Lexing /\ (CapsThrow \/ ByteThrow)
  /\ EnterLabel
  /\ mode' = IF ByteThrow THEN "data" ELSE "text"
  /\ phase' = "thrown"
  /\ pos' = IF ByteThrow THEN Stmt + 2 ELSE Stmt + 1
  /\ UNCHANGED <<source, text_addr, data_addr, text, data, runs>>

\* The TextInfo parseInstr fills in for the statement.
InstrLine ==
  LET op  == StmtHead.word
      ops == ParseOperands(op, Stmt + 1)
      imm == Tok(ops.immAt)
      symbolic == ops.immAt > 0 /\ IsLabel(imm)
  IN [BlankLine EXCEPT
        !.op = op, !.addr = text_addr, !.args = ops.args,
        !.is_symbol = symbolic,
        !.symbol = IF symbolic THEN imm.word ELSE "",
        !.label = LabelOf("text"), !.upper = (op = "lui"),
        !.error = \/ op \in RejectedOps
                  \/ ops.checked /\ imm.kind # "lit" /\ ~IsLabel(imm)
                  \/ \E k \in 1..ops.used : Malformed(Tok(Stmt + k))]

\* Seeded fault: text_addr moves once a statement, not once a record.
Emit_Once(lines) == /\ text' = text \o lines
                    /\ text_addr' = text_addr + 4
Emit(lines) == /\ text' = text \o lines
               /\ text_addr' = text_addr + 4 * Len(lines)

ParseInstr ==
  /\ Lexing /\ IsInstr(StmtHead) /\ ~CapsThrow
  /\ EnterLabel
  /\ mode' = "text"
  /\ \E line \in {InstrLine} :
       Emit(IF line.op \in PseudoOps THEN ExpandPseudo(line) ELSE <<line>>)
  /\ pos' = Stmt + 1 + ParseOperands(StmtHead.word, Stmt + 1).used
  /\ UNCHANGED <<source, phase, data_addr, data, runs>>

\* .data and .text only switch the segment.
ParseSegment ==
  /\ Lexing /\ StmtHead.kind = "dir" /\ StmtHead.word \in SegDirectives
  /\ EnterLabel
  /\ mode' = IF StmtHead.word = ".data" THEN "data" ELSE "text"
  /\ pos' = Stmt + 1
  /\ UNCHANGED <<source, phase, text_addr, data_addr, text, data, runs>>

(***************************************************************************)
(* What a data directive reads and reserves.  parseWord and parseHalf      *)
(* read literals until the line counter has moved on, which it does when a *)
(* token touches the newline or when scanning crosses one; the last token  *)
(* read is ListEnd.  parseHalf drops that token, parseWord stores it.      *)
(***************************************************************************)
ListStop(k) == \/ Tok(k).kind # "lit"
               \/ Tok(k).eol = "tight"
               \/ Tok(k - 1).eol = "loose"
ListEnd(i) == CHOOSE k \in i..(Len(source) + i) :
                ListStop(k) /\ \A j \in i..(k - 1) : ~ListStop(j)

\* items stored, tokens read, space reserved, error, and whether data_info
\* takes its address before (TRUE) or after the items were counted.
Reserve(items, used, space, error, early) ==
  [items |-> items, used |-> used, space |-> space, error |-> error,
   early |-> early]

\* Seeded fault: the item count starts one too low.
HalfItems_OffByOne(i, last) == last - i - 1
HalfItems(i, last) == last - i

ParseDirective(dir, i) ==
  LET t == Tok(i)
      last == ListEnd(i)
      crossed == Tok(last).eol = "tight" \/ Tok(last - 1).eol = "loose"
  IN CASE dir = ".asciiz" -> Reserve(IF t.kind = "str" THEN t.val ELSE 0, 1, 0,
                                     t.kind # "str", TRUE)
       [] dir = ".byte"   -> Reserve(IF t.kind = "char" THEN 1 ELSE 0, 1, 0,
                                     t.kind # "char", FALSE)
       [] dir = ".half"   -> Reserve(HalfItems(i, last), last - i + 1, 0,
                                     ~crossed, FALSE)
       [] dir = ".word"   -> Reserve(IF Tok(last).kind = "lit"
                                     THEN last - i + 1 ELSE last - i,
                                     last - i + 1, 0, Tok(last).kind # "lit",
                                     TRUE)
       [] dir = ".space"  -> Reserve(0, 1, IF t.kind = "lit" THEN t.val ELSE 0,
                                     t.kind # "lit", TRUE)
       [] OTHER           -> Reserve(0, 0, 0, FALSE, FALSE)

\* Seeded fault: .space records its size but does not move data_addr.
EndOf_NoSpace(r) == data_addr + r.items
EndOf(r) == data_addr + r.items + r.space

ParseData ==
  /\ Lexing /\ StmtHead.kind = "dir" /\ StmtHead.word \notin SegDirectives
  /\ ~ByteThrow
  /\ EnterLabel
  /\ LET r == ParseDirective(StmtHead.word, Stmt + 1)
     IN /\ mode' = IF StmtHead.word \in RefusedDirectives THEN mode ELSE "data"
        /\ data_addr' = EndOf(r)
        /\ data' = Append(data,
             [directive |-> IF StmtHead.word \in StoreDirectives THEN StmtHead.word
                                                             ELSE "none",
              addr |-> IF r.early THEN data_addr ELSE data_addr + r.items,
              items |-> r.items, space |-> r.space, label |-> LabelOf("data"),
              error |-> r.error])
        /\ pos' = Stmt + 1 + r.used
  /\ UNCHANGED <<source, phase, text_addr, text, runs>>

(***************************************************************************)
(* Anything else adds a record of its own and no address: a label that     *)
(* stands alone, but also a stray operand or an unknown mnemonic, which is *)
(* scanned as a label.                                                     *)
(***************************************************************************)
StandaloneLine == [BlankLine EXCEPT !.addr = text_addr,
                                    !.label = LabelOf("text"),
                                    !.error = Malformed(StmtHead),
                                    !.standalone = TRUE]
ParseOther ==
  /\ Lexing /\ ~IsInstr(StmtHead) /\ StmtHead.kind # "dir"
  /\ EnterLabel
  /\ text' = Append(text, StandaloneLine)
  /\ pos' = Stmt + 1
  /\ UNCHANGED <<source, phase, mode, text_addr, data_addr, data, runs>>

\* Between statements lex() eats comments without looking at them.
\* Seeded fault: skipComment leaves the position where it is.
SkipComment_Stuck ==
  /\ phase = "lex" /\ pos <= Len(source) /\ Tok(pos).kind = "empty"
  /\ UNCHANGED vars
SkipComment ==
  /\ phase = "lex" /\ pos <= Len(source) /\ Tok(pos).kind = "empty"
  /\ pos' = pos + 1
  /\ UNCHANGED <<source, phase, mode, text_addr, data_addr, text, data, syms,
                 runs>>
-----------------------------------------------------------------------------
(***************************************************************************)
(* resolveLabels.  getAddr answers the first entry of that name, 0 if      *)
(* there is none, and 0 leaves the line as it is.                          *)
(***************************************************************************)
Defs(s) == {i \in DOMAIN syms : syms[i].label = s}
\* Seeded fault: the table is searched from its end.
FirstDef_Last(s) == CHOOSE i \in Defs(s) : \A j \in Defs(s) : i >= j
FirstDef(s) == CHOOSE i \in Defs(s) : \A j \in Defs(s) : i <= j
GetAddr(s) == IF Defs(s) = {} THEN 0 ELSE syms[FirstDef(s)].addr

\* Seeded fault: distances count from the next instruction.
BranchOffset_FromNext(l, a) == (a - (l.addr + 4)) % 65536
BranchOffset(l, a) == (a - l.addr) % 65536

Resolved(l, a) ==
  CASE l.op = "lui" ->
         [l EXCEPT !.args = <<l.args[1], NoArg,
                              Literal(IF l.upper THEN HighHalf(a)
                                                 ELSE LowHalf(a))>>]
    [] l.op = "ori" ->
         [l EXCEPT !.args = <<l.args[1], l.args[2],
                              Literal(IF l.lower THEN LowHalf(a)
                                                 ELSE HighHalf(a))>>]
    [] l.op \in BranchOps ->
         [l EXCEPT !.args = <<l.args[1], l.args[2],
                              Literal(BranchOffset(l, a))>>]
    [] l.op \in ImmOps ->
         [l EXCEPT !.args = <<Literal(a), l.args[2], l.args[3]>>]
    [] OTHER ->
         [l EXCEPT !.args = <<l.args[1], l.args[2], Literal(a)>>]

\* Seeded faults: the label is blanked on update; the first address of the
\* segment counts as "not found".
ResolveLine_Blanked(l) == IF l.is_symbol /\ GetAddr(l.symbol) > 0
  THEN [Resolved(l, GetAddr(l.symbol)) EXCEPT !.label = ""] ELSE l
ResolveLine_SkipsFirst(l) == IF l.is_symbol /\ GetAddr(l.symbol) > TextStart
  THEN Resolved(l, GetAddr(l.symbol)) ELSE l
ResolveLine(l) == IF l.is_symbol /\ GetAddr(l.symbol) > 0
                  THEN Resolved(l, GetAddr(l.symbol)) ELSE l

ResolveLabels ==
  /\ phase = "lex" /\ pos > Len(source)
  /\ text' = [i \in DOMAIN text |-> ResolveLine(text[i])]
  /\ phase' = "done"
  /\ UNCHANGED <<source, pos, mode, text_addr, data_addr, data, syms, runs>>

(***************************************************************************)
(* loadSource followed by the head of lex(): everything but the symbol     *)
(* table and the segment mode is reset.                                    *)
(***************************************************************************)
LexOf(s) ==
  /\ source' = s
  /\ pos' = 1 /\ phase' = "lex"
  /\ text_addr' = TextStart /\ data_addr' = DataStart
  /\ text' = << >> /\ data' = << >>
  /\ runs' = runs + 1

Lex ==
  /\ phase \in {"idle", "done"} /\ runs < MaxRuns
  /\ runs > 0 => source \in Reused
  /\ \E s \in IF runs = 0 THEN Sources ELSE Reused : LexOf(s)
  /\ UNCHANGED <<mode, syms>>

Init ==
  /\ source = << >> /\ pos = 1 /\ phase = "idle" /\ mode = "text"
  /\ text_addr = 0 /\ data_addr = 0
  /\ text = << >> /\ data = << >> /\ syms = << >> /\ runs = 0

ParseLine == ParseInstr \/ ParseSegment \/ ParseData \/ ParseOther
Next == \/ Lex
        \/ ParseLine
        \/ Throw
        \/ SkipComment
        \/ ResolveLabels

Spec == Init /\ [][Next]_vars

(* lex() is one call on one thread: once it is in it, it goes on.          *)
FairSpec == Spec /\ WF_vars(ParseLine) /\ WF_vars(Throw)
                 /\ WF_vars(SkipComment) /\ WF_vars(ResolveLabels)
-----------------------------------------------------------------------------
(***************************************************************************)
(* Properties.                                                             *)
(***************************************************************************)

\* Every variable holds the values its C++ type and its use allow.
TypeOK ==
  /\ source \in Seq(Token)
  /\ pos \in Nat \ {0}
  /\ phase \in {"idle", "lex", "done", "thrown"}
  /\ mode \in {"text", "data"}
  /\ text_addr \in Nat /\ data_addr \in Nat
  /\ text \in Seq(TextInfo) /\ data \in Seq(DataInfo) /\ syms \in Seq(Symbol)
  /\ runs \in 0..MaxRuns

\* Bytes of the text segment a record stands for: a standalone record takes
\* an address without using it up.
Width(l) == IF l.standalone THEN 0 ELSE 4

NextText(n) == IF n = 0 THEN TextStart ELSE text[n].addr + Width(text[n])

(* The addresses in the text records are those of a gapless segment from   *)
(* text_start_addr on: each record sits where the one before it ends, and  *)
(* text_addr where the last one ends, although expandPsuedo computes the   *)
(* addresses it hands out and counts text_addr up separately.              *)
TextLayout ==
  /\ \A i \in DOMAIN text : text[i].addr = NextText(i - 1)
  /\ phase # "idle" => text_addr = NextText(Len(text))

\* Where a data record's storage starts: parseByte and parseHalf leave the
\* address to parseDirective, which takes it when the items are counted.
DataStartOf(d) == IF d.directive \in {".byte", ".half"} THEN d.addr - d.items
                                                      ELSE d.addr
NextData(n) == IF n = 0 THEN DataStart
               ELSE DataStartOf(data[n]) + data[n].items + data[n].space

(* The data records occupy consecutive, disjoint ranges from               *)
(* data_start_addr on, and data_addr is the end of the last one: no        *)
(* directive, failed or not, reserves more or less than it records.        *)
DataLayout ==
  /\ \A i \in DOMAIN data : DataStartOf(data[i]) = NextData(i - 1)
  /\ phase # "idle" => data_addr = NextData(Len(data))

(* A label is entered before its statement is parsed; its address is still *)
(* the address of the next record of the segment it was entered for,       *)
(* whatever that statement is and whichever segment it switches to.        *)
LabelMarksNext ==
  \A i \in DOMAIN syms :
    syms[i].run = runs =>
      syms[i].addr = IF syms[i].section = "text"
                     THEN NextText(syms[i].at - 1)
                     ELSE NextData(syms[i].at - 1)

\* The line a text label of this run stands before, and its address.
TargetOf(s) == NextText(syms[FirstDef(s)].at - 1)
DefinedInText(s) == /\ Defs(s) # {}
                    /\ syms[FirstDef(s)].run = runs
                    /\ syms[FirstDef(s)].section = "text"

(* After lex() every reference to a text label of this source leads to the *)
(* record the label stands before: a jump by its address, a branch by the  *)
(* 16-bit distance from its own address, a load by its two halves.  This   *)
(* relates addresses handed out before and after the reference was parsed. *)
ReferencesReachLabels ==
  phase = "done" =>
    \A i \in DOMAIN text :
      LET l == text[i]
          target == TargetOf(l.symbol)
      IN l.is_symbol /\ DefinedInText(l.symbol) =>
         /\ l.op \in ImmOps => l.args[1].val = target
         /\ l.op \in BranchOps =>
              (l.addr + l.args[3].val) % 65536 = target % 65536
         /\ l.lower =>
              text[i - 1].args[3].val * 65536 + l.args[3].val = target

(* The two halves la and li expand to stay together: an "ori" that loads a *)
(* low half follows the "lui" of the same register and symbol, four bytes  *)
(* on, and either both have been resolved or neither.                      *)
PairsTogether ==
  \A i \in DOMAIN text :
    text[i].lower =>
      /\ i > 1 /\ text[i - 1].op = "lui" /\ text[i - 1].upper
      /\ text[i].addr = text[i - 1].addr + 4
      /\ text[i].args[1] = text[i - 1].args[1]
      /\ text[i].args[2] = text[i].args[1]
      /\ text[i].symbol = text[i - 1].symbol
      /\ text[i].args[3].type = text[i - 1].args[3].type

(* When lex() returns, exactly the references to names no source has ever  *)
(* defined are left unresolved; nothing reports them.                      *)
UnresolvedAreUndefined ==
  phase = "done" =>
    \A i \in DOMAIN text :
      LET l == text[i]
          arg == IF l.op \in ImmOps THEN l.args[1] ELSE l.args[3]
      IN l.is_symbol => (arg.type = "LABEL" <=> Defs(l.symbol) = {})

(* Within one lex() a record, once added, keeps its place, address, opcode *)
(* and error flag; only resolveLabels touches it, and only its arguments.  *)
SameButArgs(l, m) == [l EXCEPT !.args = m.args] = m
LinesStable ==
  [][phase = "lex" =>
       /\ Len(text') >= Len(text)
       /\ \A i \in DOMAIN text : /\ SameButArgs(text[i], text'[i])
                                 /\ phase' = "lex" => text'[i] = text[i]]_vars

(* The address of a name never changes once it has one: a second           *)
(* definition, in the same source or in a later one, is without effect.    *)
AddressesArePermanent ==
  [][\A s \in {syms[i].label : i \in DOMAIN syms} :
       GetAddr(s)' = GetAddr(s)]_vars

(* lex() comes to an end: every statement consumes input, whatever it is.  *)
(* It returns from a source without words in capitals and character        *)
(* constants that are no digits; these alone can make it throw.            *)
MayThrow(t) == t.kind = "caps" \/ (t.kind = "char" /\ t.val > 9)
Terminates ==
  /\ (phase = "lex") ~> (phase \in {"done", "thrown"})
  /\ (phase = "lex" /\ \A i \in DOMAIN source : ~MayThrow(source[i]))
       ~> (phase = "done")
=============================================================================
