------------------------------ MODULE MCProgram ------------------------------
(***************************************************************************)
(* Instances of Program.  The sources are lexer output: a label that       *)
(* stands alone shares its address with the instruction behind it.         *)
(***************************************************************************)
EXTENDS Program

Text(op, a, b, c, addr) == [op |-> op, args |-> <<a, b, c>>, addr |-> addr]
Data(dir, addr, items, space) ==
  [directive |-> dir, addr |-> addr, items |-> items, space |-> space]

Start == 4194304
AddLine(at)   == Text("add", Reg(8), Reg(9), Reg(10), at)
JumpLine(at)  == Text("j", Lit(Start), None, None, at)
FarLine(at)   == Text("j", Lit(268435456), None, None, at)
LabelLine(at) == Text("null", None, None, None, at)

Straight == [text |-> <<AddLine(Start), FarLine(Start + 4)>>,
             data |-> <<Data(".word", 268435456, 2, 0)>>]
Labelled == [text |-> <<LabelLine(Start), JumpLine(Start)>>, data |-> << >>]
OnlyData == [text |-> << >>, data |-> <<Data(".space", 268435456, 0, 3)>>]

SomeSources == {Straight, Labelled, OnlyData}
SomeGarbage == {1}
\* Within the count, the first address and each word, and between them.
SomeCuts == {2, 7, 8, 9, 12, 14, 15}
=============================================================================
