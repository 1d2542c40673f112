------------------------------- MODULE MCState -------------------------------
(***************************************************************************)
(* Instances of State: every program of two instructions from a list that  *)
(* has one of each kind, followed by an empty slot and eight bytes of data.*)
(***************************************************************************)
EXTENDS StateClaims

RInstr(rs, rt, rd, shamt, func) ==
  <<rs \div 8, (rs % 8) * 32 + rt, rd * 8 + shamt \div 4, (shamt % 4) * 64 + func>>
IInstr(op, rs, rt, imm) ==
  <<op * 4 + rs \div 8, (rs % 8) * 32 + rt, imm \div 256, imm % 256>>
JInstr(op, target) == <<op * 4, 0, target \div 256, target % 256>>
Nop == <<0, 0, 0, 0>>

\* Results go to register 8; 10 and 12 are written by the host only.
Results == { RInstr(10, 12, 8, 0, f) : f \in {6, 32, 34, 36, 39, 42, 43} }
           \cup { RInstr(0, 10, 8, 3, f) : f \in {0, 2} }
           \cup { RInstr(0, 0, 8, 0, f) : f \in {16, 18} }
           \cup { IInstr(o, 10, 8, 32769) : o \in {8, 10, 11, 13, 14, 15} }
NoResults == { RInstr(10, 12, 8, 0, f) : f \in {12, 17, 24, 25, 26, 27, 63} }
             \cup { IInstr(37, 10, 8, 0) }
Control == { RInstr(12, 0, 8, 0, 8), RInstr(12, 0, 8, 0, 9), JInstr(2, 0),
             JInstr(3, 1) }
           \cup { IInstr(o, 10, 12, 0) : o \in {4, 5, 6, 7} }
Transfer == { IInstr(o, 0, 8, 13) : o \in Loads }
            \cup { IInstr(o, 0, 10, 13) : o \in Stores }
            \cup { IInstr(43, 12, 10, 4), IInstr(35, 12, 8, 0) }

Code == Results \cup NoResults \cup Control \cup Transfer

Image(i, j) ==
  LET bytes == i \o j \o Nop \o <<0, 1, 2, 255, 128, 3, 4, 5>>
  IN [a \in 0..19 |-> bytes[a + 1]]

AllPairs == {Image(i, j) : i \in Code, j \in Code}
SomePokes == {<<10, 258>>, <<10, -2>>, <<12, 4>>}
SomeJunk == {77}

(***************************************************************************)
(* A program for the claim.                                                *)
(***************************************************************************)
LoadImm(r, n) == IInstr(13, 0, r, n)    \* ori $r, $zero, n
OddRd    == {Image(LoadImm(10, 5), RInstr(10, 10, 9, 0, 32))}
NoPokes == {}
=============================================================================
