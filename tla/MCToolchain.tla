----------------------------- MODULE MCToolchain -----------------------------
(***************************************************************************)
(* Instances of Toolchain.  The first sources load two registers and go on *)
(* with up to two statements, one of each kind the assembler and the       *)
(* processor both know.  Destinations are even and shifts below 16, see    *)
(* Datapath.                                                               *)
(***************************************************************************)
EXTENDS Toolchain

AnyWord == STRING

S(op, regs, imm, ref) ==
  [label |-> "", op |-> op, regs |-> regs, imm |-> imm, ref |-> ref,
   bad |-> FALSE]
Named(name, s) == [s EXCEPT !.label = name]
Broken(s) == [s EXCEPT !.bad = TRUE]

Prologue(m, n) == <<S("li", <<8>>, m, ""), Named("start", S("li", <<10>>, n, ""))>>

Plain ==
  {S(op, <<12, 8, 10>>, -1, "") :
     op \in {"add", "and", "or", "xor", "slt", "sltu", "mul"}}
  \cup {S(op, <<12, 8>>, 40000, "") :
          op \in {"addi", "addiu", "andi", "ori", "xori"}}
  \cup {S("sll", <<10, 8>>, 13, ""), S("lui", <<8>>, 65535, ""),
        S("li", <<12>>, 5, ""), S("la", <<12>>, -1, "start"),
        S("la", <<8>>, -1, "fin"), S("mult", <<8, 10>>, -1, ""),
        S("div", <<8, 10>>, -1, ""), S("mtlo", <<8>>, -1, ""),
        S("mfhi", <<12>>, -1, ""), S("mflo", <<10>>, -1, ""),
        S("mthi", <<10>>, -1, "")}
Branch ==
  {S(op, <<8, 10>>, -1, ref) :
     op \in Conditions \ {"beqz"}, ref \in {"start", "fin"}}
  \cup {S("beqz", <<12>>, -1, "fin"), S("beqz", <<8>>, -1, "start")}
Refusable ==
  {Broken(S("add", <<12, 8, 10>>, -1, "")), Broken(S("mul", <<12, 8, 10>>, -1, "")),
   Broken(S("lui", <<8>>, 1, "")), Broken(S("li", <<8>>, 1, "")),
   S("srl", <<12, 8>>, 3, "")}
Others == {S("lw", <<12, 8>>, 36, ""), S("sw", <<10, 8>>, 36, ""),
           S("j", << >>, -1, "start"), S("jal", << >>, -1, "fin")}
BadData == Broken(S(".byte", << >>, 1, ""))

Fin == Named("fin", S("ori", <<12, 8>>, 1, ""))

\* Sums carry, comparisons go either way or end equal.
Prologues == {Prologue(70000, 3), Prologue(3, 258), Prologue(3, 3)}

\* Every sequence of up to three statements that are listed in different ways.
ListedKinds ==
  {S("add", <<12, 8, 10>>, -1, ""), S("xor", <<12, 8, 10>>, -1, ""),
   S("mult", <<8, 10>>, -1, ""), S("mfhi", <<12>>, -1, ""),
   S("jr", <<8>>, -1, ""), S("sll", <<10, 8>>, 13, ""),
   S("lui", <<8>>, 3, ""), S("lw", <<12, 8>>, 36, ""),
   S("beq", <<8, 10>>, 5, ""), S("jal", << >>, 8, "")}
Relistings == UNION {[1..n -> ListedKinds] : n \in 1..3}

AllListings ==
  Relistings
  \cup {p \o <<s, Fin>> :
     p \in Prologues, s \in Plain \cup Branch \cup Refusable \cup Others}
  \cup {Prologue(70000, 3) \o <<s, t, Fin>> :
          s \in Plain, t \in Plain \cup Branch \cup Refusable \cup Others}
  \cup {p \o <<BadData, S("add", <<12, 8, 10>>, -1, "")>> : p \in Prologues}

(***************************************************************************)
(* One source, or a few, for each claim.                                   *)
(***************************************************************************)
LoopListing == {<<Named("top", S("addi", <<8, 8>>, 4, "")),
                  S("j", << >>, -1, "top")>>}

JumpListings == {<<S(op, << >>, 4096, "")>> : op \in {"j", "jal"}}

\* A few of the instructions the README lists.
Readme == {S("add", <<12, 8, 10>>, -1, ""), S("xor", <<12, 8, 10>>, -1, ""),
           S("slt", <<12, 8, 10>>, -1, ""), S("sltiu", <<12, 8>>, 4, ""),
           S("bgtz", <<8>>, -1, "top")}
ReadmeListings == {<<Named("top", s)>> : s \in Readme}
=============================================================================
