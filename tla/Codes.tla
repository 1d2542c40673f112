-------------------------------- MODULE Codes --------------------------------
(***************************************************************************)
(* The mnemonic and directive tables of src/src/tools/Codes.hpp, grouped   *)
(* the way Lexer::parseInstr groups its cases: by the operands a mnemonic  *)
(* is parsed with.  "null" stands for LEX_NULL, the opcode both of an      *)
(* unused TextInfo and of a mnemonic the table does not find.              *)
(***************************************************************************)

RegOps      == {"jr", "jalr", "mfhi", "mthi", "mflo", "mtlo"}
ImmOps      == {"j", "jal"}
RegImmOps   == {"lui", "bgtz", "blez", "beqz", "la", "li"}
RegRegOps   == {"div", "divu", "mult", "multu"}
OffsetOps   == {"lw", "sw"}
CompareOps  == {"bgt", "blt", "bge", "ble", "bgtu"}
BranchOps   == {"beq", "bne"}
ArithImmOps == {"addi", "addiu", "andi", "ori", "xori", "slti", "sltiu", "sll"}
RegRegImmOps == ArithImmOps \cup BranchOps \cup CompareOps
RegRegRegOps == {"add", "and", "nor", "or", "slt", "sltu", "xor", "mul"}
BareOps     == {"syscall", "null"}

\* In the mnemonic table, but without a case of their own in parseInstr.
RejectedOps == {"addu", "sllv", "srl", "srv", "lb", "lbu", "lh", "lhu", "sh"}

PseudoOps == {"mul", "beqz", "la", "li"} \cup CompareOps

\* lex_instr_codes: every spelling nextToken classifies as an instruction.
InstrCodes == (RegOps \cup ImmOps \cup RegImmOps \cup RegRegOps \cup OffsetOps
                 \cup RegRegImmOps \cup RegRegRegOps \cup BareOps
                 \cup RejectedOps) \ {"null"}

\* Directives with a case in parseDirective that stores data; an unknown
\* spelling is looked up as opcode 0, which is LEX_ALIGN's code.
ListDirectives  == {".word", ".half"}
StoreDirectives == {".asciiz", ".byte", ".space"} \cup ListDirectives
SegDirectives   == {".data", ".text"}
\* Directives of the table that only parseDirective's default case takes.
RefusedDirectives == {".double", ".end_macro", ".float", ".global",
                      ".include", ".macro"}
=============================================================================
