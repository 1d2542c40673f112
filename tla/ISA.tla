--------------------------------- MODULE ISA ---------------------------------
(***************************************************************************)
(* What a tick() of the emulator promises a programmer: one instruction,   *)
(* executed at once on the architectural state, as a function of that      *)
(* state.  Where the emulator has no result to write but writes a register *)
(* all the same, the promise is only that no other register changes.       *)
(***************************************************************************)
EXTENDS Integers, Sequences

CONSTANTS
  MemSize,  (* Size of the memory in bytes.                                *)
  Pokes,    (* Register writes a host makes between two ticks.             *)
  (* The fields of an instruction word and what is computed of them, see   *)
  (* Datapath.                                                             *)
  OpBits(_), Rs(_), Rt(_), Rd(_), Shamt(_), Func(_), Imm16(_), Imm26(_),
  JumpOpBits, AluOpBits, Loads, Stores, Syscall, AluFuncs,
  Traps(_, _, _), RAlu(_, _, _, _, _, _, _), HiLo(_, _, _, _, _),
  IAlu(_, _, _), Add32(_, _), Taken(_, _, _), BranchTarget(_, _),
  JumpTarget(_, _), StoreBytes(_, _), LoadSize(_), LoadValue(_, _)

VARIABLES pc, reg, hi, lo, mem

vars == <<pc, reg, hi, lo, mem>>

Address == 0..(MemSize - 1)

\* n bytes from address a on.
BytesAt(a, n) == [k \in 1..n |-> mem[a + k - 1]]
Stored(a, b) == [x \in DOMAIN mem |-> IF x \in a..(a + Len(b) - 1)
                                      THEN b[x - a + 1] ELSE mem[x]]

w    == BytesAt(pc, 4)
op   == OpBits(w)
s    == reg[Rs(w)]
t    == reg[Rt(w)]
next == pc + 4
data == Add32(s, Imm16(w))

Sets(r, v) == reg' = [reg EXCEPT ![r] = v]
Clobbers(r) == Sets(r, reg'[r])

StepR ==
  /\ op = 0 /\ ~Traps(Func(w), s, t)
  /\ pc' = IF Func(w) \in {8, 9} THEN s ELSE next
  /\ \/ Func(w) = Syscall /\ UNCHANGED reg
     \/ Func(w) \in AluFuncs
        /\ Sets(Rd(w), RAlu(Func(w), s, t, Shamt(w), hi, lo, next))
     \/ Func(w) \notin AluFuncs \cup {Syscall} /\ Clobbers(Rd(w))
  /\ hi' = HiLo(Func(w), s, t, hi, lo).hi
  /\ lo' = HiLo(Func(w), s, t, hi, lo).lo
  /\ UNCHANGED mem

StepJ ==
  /\ op \in JumpOpBits
  /\ pc' = JumpTarget(next, Imm26(w))
  /\ IF op = 3 THEN Sets(31, next) ELSE UNCHANGED reg
  /\ UNCHANGED <<hi, lo, mem>>

StepI ==
  /\ op \notin JumpOpBits \cup {0}
  /\ pc' = IF Taken(op, s, t) THEN BranchTarget(next, Imm16(w)) ELSE next
  /\ \/ op \in AluOpBits /\ Sets(Rt(w), IAlu(op, s, Imm16(w))) /\ UNCHANGED mem
     \/ op \in Loads /\ Sets(Rt(w), LoadValue(op, BytesAt(data, LoadSize(op))))
                     /\ UNCHANGED mem
     \/ op \in Stores /\ mem' = Stored(data, StoreBytes(op, t)) /\ UNCHANGED reg
     \/ op \notin AluOpBits \cup Loads \cup Stores
        /\ Clobbers(Rt(w)) /\ UNCHANGED mem
  /\ UNCHANGED <<hi, lo>>

Tick == pc \in Address /\ (StepR \/ StepJ \/ StepI)

Reset == /\ pc' = 0 /\ hi' = 0 /\ lo' = 0
         /\ reg' = [r \in 0..31 |-> 0]
         /\ UNCHANGED mem

Poke == /\ \E p \in Pokes : Sets(p[1], p[2])
        /\ UNCHANGED <<pc, hi, lo, mem>>

Init == /\ pc = 0 /\ hi = 0 /\ lo = 0
        /\ reg = [r \in 0..31 |-> 0]
        /\ mem \in [Address -> 0..255]

Next == Tick \/ Reset \/ Poke

Spec == Init /\ [][Next]_vars
=============================================================================
