------------------------------- MODULE Program -------------------------------
(***************************************************************************)
(* From a lexed source to a binary on disk and back: an Assembler          *)
(* (Assembler.cpp), a caller's Program and the file it is saved to and     *)
(* loaded from (Program.cpp), and dis_program (Disassembler.cpp), whose    *)
(* result can be given to the Assembler again.                             *)
(*                                                                         *)
(* save() looks at no stream state and load() at none either, so a file    *)
(* that is missing or cut short is loaded all the same: what cannot be     *)
(* read keeps the value its variable had, which for the header is none.    *)
(***************************************************************************)
EXTENDS Codec

CONSTANTS
  Sources,  (* Sources the lexer may deliver: text and data records.       *)
  Garbage,  (* Values an uninitialized variable may hold.                  *)
  Cuts      (* Sizes in bytes a file may be left at, any in the program.   *)
            (* Bounds the model.                                           *)

TextRecord == [op : Mnemonics, args : Args, addr : Nat]
DataRecord == [directive : STRING, addr : Nat, items : Nat, space : Nat]
SourceInfo == [text : Seq(TextRecord), data : Seq(DataRecord)]

ASSUME SourcesAssumption == Sources \subseteq SourceInfo
ASSUME GarbageAssumption == Garbage \subseteq Nat /\ Garbage # {}
ASSUME CutsAssumption == Cuts \subseteq Nat

VARIABLES
  source,     (* Assembler::source.                                        *)
  assembled,  (* Assembler::program.                                       *)
  prog,       (* A Program of the caller's.                                *)
  file,       (* The binary on disk, four bytes each: the count, the first *)
              (* address, the words.  have says how many of these bytes    *)
              (* reached the disk, 0 also if there is no file.             *)
  origin      (* Not in the program: the Program the file was saved from.  *)

vars == <<source, assembled, prog, file, origin>>

Instr   == [adr : Nat, ins : Word]
DataSeg == [adr : Nat, size : Nat]
ProgramType == [instructions : Seq(Instr), data_segments : Seq(DataSeg)]

EmptySource  == [text |-> << >>, data |-> << >>]
EmptyProgram == [instructions |-> << >>, data_segments |-> << >>]
NoFile == [have |-> 0, count |-> 0, adr |-> 0, words |-> << >>]
-----------------------------------------------------------------------------
(***************************************************************************)
(* Assembler.                                                              *)
(***************************************************************************)
\* The storage of .half is dropped, and so is its address.
AssembleData(d) ==
  CASE d.directive \in {".asciiz", ".byte", ".word"} ->
         [adr |-> d.addr, size |-> d.items + d.space]
    [] d.directive = ".space" -> [adr |-> d.addr, size |-> d.space]
    [] OTHER -> [adr |-> 0, size |-> 0]

Translated(s) ==
  [instructions |-> [i \in DOMAIN s.text |->
      [adr |-> s.text[i].addr,
       ins |-> AssembleText([op |-> s.text[i].op, args |-> s.text[i].args])]],
   data_segments |-> [i \in DOMAIN s.data |-> AssembleData(s.data[i])]]

LoadSource ==
  /\ \E s \in Sources : source' = s
  /\ UNCHANGED <<assembled, prog, file, origin>>

\* A source without text leaves the previous program in place.
Assemble ==
  /\ assembled' = IF source.text = << >> THEN assembled ELSE Translated(source)
  /\ UNCHANGED <<source, prog, file, origin>>

GetProgram ==
  /\ prog' = assembled
  /\ UNCHANGED <<source, assembled, file, origin>>
-----------------------------------------------------------------------------
(***************************************************************************)
(* Program::save and load.                                                 *)
(***************************************************************************)
Words(p) == [i \in DOMAIN p.instructions |-> p.instructions[i].ins]

\* save() writes one number of four bytes after the other; a full disk or a
\* crash leaves the first bytes of them.
Left(size) == {size} \cup {k \in Cuts : k < size}

Save ==
  /\ prog.instructions # << >>
  /\ \E k \in Left(8 + 4 * Len(prog.instructions)) :
       file' = [have |-> k, count |-> Len(prog.instructions),
                adr |-> prog.instructions[1].adr, words |-> Words(prog)]
  /\ origin' = prog
  /\ UNCHANGED <<source, assembled, prog>>

\* Without instructions there is no first address: some other memory is
\* written in its place, if it can be read at all.
SaveEmpty ==
  /\ prog.instructions = << >>
  /\ \E g \in Garbage, k \in Left(8) :
       file' = [have |-> k, count |-> 0, adr |-> g, words |-> << >>]
  /\ origin' = prog
  /\ UNCHANGED <<source, assembled, prog>>

(***************************************************************************)
(* read() stores the bytes there are, the low ones first, and leaves the   *)
(* others of its variable as they were; once it met the end of the file it *)
(* stores none at all.                                                     *)
(***************************************************************************)
\* A word as the bytes in memory, and back.
Bytes(w) == <<w.low % 256, w.low \div 256, (w.rs % 8) * 32 + w.rt,
              w.op * 4 + w.rs \div 8>>
WordOf(b) == [op |-> b[4] \div 4, rs |-> (b[4] % 4) * 8 + b[3] \div 32,
              rt |-> b[3] % 32, low |-> b[2] * 256 + b[1]]

\* The variable that held old after its first r bytes were read.
Overwritten(old, new, r) ==
  WordOf([j \in 1..4 |-> IF j <= r THEN Bytes(new)[j] ELSE Bytes(old)[j]])
NumberRead(old, new, r) ==
  LET low == IF r \in 1..3 THEN <<256, 65536, 16777216>>[r] ELSE 1
  IN IF r >= 4 THEN new ELSE (old \div low) * low + (new % low)

\* How many words are in the file as a whole, and how many bytes of the next.
Whole == IF file.have >= 8 THEN (file.have - 8) \div 4 ELSE 0
Rest  == IF file.have >= 8 THEN file.have % 4 ELSE 0

\* The i-th word read: what was last stored stays in instr.ins, which load()
\* declares once.
\* Seeded fault: a record that cannot be read is a noop.
WordRead_Cleared(i) == IF i <= Whole THEN file.words[i] ELSE Noop
WordRead(i) ==
  LET last == IF Whole = 0 THEN Noop ELSE file.words[Whole]
  IN CASE i <= Whole -> file.words[i]
       [] i > Whole /\ Rest = 0 -> last
       [] OTHER -> Overwritten(last, file.words[Whole + 1], Rest)

\* Seeded fault: the address is advanced before it is used.
AddressRead_Late(first, i) == first + 4 * i
AddressRead(first, i) == first + 4 * (i - 1)

Records(n, first) ==
  [i \in 1..n |-> [adr |-> AddressRead(first, i), ins |-> WordRead(i)]]

Load ==
  /\ \E g \in Garbage, h \in Garbage :
       prog' = [prog EXCEPT !.instructions =
                  Records(NumberRead(g, file.count, file.have),
                          NumberRead(h, file.adr, file.have - 4))]
  /\ UNCHANGED <<source, assembled, file, origin>>
-----------------------------------------------------------------------------
\* dis_program, and its listing loaded into the Assembler.
Disassemble ==
  /\ source' = [text |-> [i \in DOMAIN prog.instructions |->
                  LET l == DisInstr(prog.instructions[i].ins)
                  IN [op |-> l.op, args |-> l.args,
                      addr |-> prog.instructions[i].adr]],
                data |-> << >>]
  /\ UNCHANGED <<assembled, prog, file, origin>>

Init ==
  /\ source = EmptySource
  /\ assembled = EmptyProgram /\ prog = EmptyProgram /\ origin = EmptyProgram
  /\ file = NoFile

Next == \/ LoadSource
        \/ Assemble
        \/ GetProgram
        \/ Save
        \/ SaveEmpty
        \/ Load
        \/ Disassemble

Spec == Init /\ [][Next]_vars
-----------------------------------------------------------------------------
(***************************************************************************)
(* Properties.                                                             *)
(***************************************************************************)

\* Every variable holds the values its C++ type and its use allow.
ProgramTypeOK ==
  /\ source \in SourceInfo
  /\ assembled \in ProgramType /\ prog \in ProgramType /\ origin \in ProgramType
  /\ file \in [have : Nat, count : Nat, adr : Nat, words : Seq(Word)]

Consecutive(p) ==
  \A i \in DOMAIN p.instructions :
    p.instructions[i].adr = p.instructions[1].adr + 4 * (i - 1)

(* Loading a file that was written in full gives back the instructions it  *)
(* was saved from, addresses included, exactly if these were consecutive   *)
(* words; the words themselves come back in any case.                      *)
LoadRestores ==
  [][Load /\ file.have = 8 + 4 * Len(origin.instructions) =>
       /\ Words(prog') = Words(origin)
       /\ prog'.instructions = origin.instructions <=> Consecutive(origin)]_vars

(* A file cut short after its header still gives a program of the length   *)
(* it announces: first the words that are there as a whole, then one and   *)
(* the same word again and again.  This one need not have been saved: each *)
(* of its bytes is that byte of the word the cut is in, as far as the file *)
(* goes, and behind the cut that of the word before, or 0.                 *)
CutFilesRepeat ==
  [][Load /\ file.have >= 8 =>
       LET saved == origin.instructions
           whole == (file.have - 8) \div 4
           before == IF whole = 0 THEN Noop ELSE saved[whole].ins
       IN /\ Len(prog'.instructions) = Len(saved)
          /\ \A i \in DOMAIN prog'.instructions :
               LET ins == prog'.instructions[i].ins
               IN IF i <= whole THEN ins = saved[i].ins
                  ELSE \A j \in 1..4 :
                         Bytes(ins)[j] =
                           Bytes(IF 8 + 4 * whole + j <= file.have
                                 THEN saved[whole + 1].ins ELSE before)[j]]_vars
=============================================================================
