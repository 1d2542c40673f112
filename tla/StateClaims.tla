----------------------------- MODULE StateClaims -----------------------------
(***************************************************************************)
(* What a comment in State.cpp says of an instruction and the emulated     *)
(* processor does not do.  A run of its own refutes it.                    *)
(***************************************************************************)
EXTENDS State

Ran(o, f) == /\ stage = "fetch" /\ ticks > 0
             /\ OpBits(instr) = o /\ (o = 0 => Func(instr) = f)

\* The five bits from R_INSTR_RD_OFFSET on.
RdField == instr[3] \div 8

(* State.cpp:233, add is "R[$rd] <- R[$rs] + R[$rt]": the sum arrives in   *)
(* the register the instruction names.                                     *)
AddReachesRd == Ran(0, 32) => reg[RdField] = alu
=============================================================================
