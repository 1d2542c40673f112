-------------------------------- MODULE State --------------------------------
(***************************************************************************)
(* The emulated processor (src/src/cpu/State.cpp), one action per pipeline *)
(* stage.  The stages hand their results on in latches that nobody clears: *)
(* decode() writes only the fields of the format at hand, execute() leaves *)
(* the ALU register alone when an instruction has no result, and           *)
(* write_back() copies it to a register all the same.                      *)
(***************************************************************************)
EXTENDS Datapath

CONSTANTS
  MemSize,  (* Size of the memory, SMIPS_MEM_SIZE in the program.          *)
  Images,   (* Memory contents: programs with their data.                  *)
  Pokes,    (* Pairs of a register and a value a host writes into it.      *)
  Junk,     (* What the ALU register holds before it is first written.     *)
  MaxTicks  (* How many instructions are run.  Bounds the model.           *)

Address == 0..(MemSize - 1)

ASSUME ImagesAssumption == MemSize \in Nat /\ Images \subseteq [Address -> Byte]
ASSUME PokesAssumption == Pokes \subseteq (0..31) \X Int
ASSUME JunkAssumption == Junk \subseteq Int
ASSUME TicksAssumption == MaxTicks \in Nat

VARIABLES
  stage,    (* The stage to run next, or "trapped".                        *)
  pc,
  instr,    (* The instruction register, as the four bytes fetched.        *)
  field,    (* decode()'s latches: op_bits, rs, rt, rd, shamt, func, imm.  *)
  hi, lo,
  alu,
  mem_addr, mem_data,
  reg, mem,
  ticks,    (* Instructions run so far.                                    *)
  last      (* Not in the program: pc, reg, hi, lo and mem at the last     *)
            (* boundary between two ticks.                                 *)

vars == <<stage, pc, instr, field, hi, lo, alu, mem_addr, mem_data, reg, mem,
          ticks, last>>
-----------------------------------------------------------------------------
Fetch ==
  /\ stage = "fetch" /\ ticks < MaxTicks /\ {pc, pc + 3} \subseteq Address
  /\ instr' = [k \in 1..4 |-> mem[pc + k - 1]]
  /\ pc' = pc + 4
  /\ stage' = "decode"
  /\ UNCHANGED <<field, hi, lo, alu, mem_addr, mem_data, reg, mem, ticks, last>>

DecodeR == [field EXCEPT !.op_bits = OpBits(instr), !.rs = Rs(instr),
                         !.rt = Rt(instr), !.rd = Rd(instr),
                         !.shamt = Shamt(instr), !.func = Func(instr)]
\* Seeded fault: a jump does not latch its immediate.
DecodeJ_NoImm == [field EXCEPT !.op_bits = OpBits(instr)]
DecodeJ == [field EXCEPT !.op_bits = OpBits(instr), !.imm = Imm26(instr)]
DecodeI == [field EXCEPT !.op_bits = OpBits(instr), !.rs = Rs(instr),
                         !.rt = Rt(instr), !.imm = Imm16(instr)]

Decode ==
  /\ stage = "decode"
  /\ \/ OpBits(instr) = 0 /\ field' = DecodeR
     \/ OpBits(instr) \in JumpOpBits /\ field' = DecodeJ
     \/ OpBits(instr) \notin JumpOpBits \cup {0} /\ field' = DecodeI
  /\ stage' = "execute"
  /\ UNCHANGED <<pc, instr, hi, lo, alu, mem_addr, mem_data, reg, mem, ticks, last>>

RegRs == reg[field.rs]
RegRt == reg[field.rt]

\* A division by zero ends the process.
Trap ==
  /\ stage = "execute" /\ field.op_bits = 0 /\ Traps(field.func, RegRs, RegRt)
  /\ stage' = "trapped"
  /\ UNCHANGED <<pc, instr, field, hi, lo, alu, mem_addr, mem_data, reg, mem,
                 ticks, last>>

ExecuteR ==
  /\ stage = "execute" /\ field.op_bits = 0 /\ ~Traps(field.func, RegRs, RegRt)
  /\ pc' = IF field.func \in {8, 9} THEN RegRs ELSE pc
  /\ alu' = IF field.func \in AluFuncs
            THEN RAlu(field.func, RegRs, RegRt, field.shamt, hi, lo, pc)
            ELSE alu
  /\ hi' = HiLo(field.func, RegRs, RegRt, hi, lo).hi
  /\ lo' = HiLo(field.func, RegRs, RegRt, hi, lo).lo
  /\ stage' = "memory"
  /\ UNCHANGED <<instr, field, mem_addr, mem_data, reg, mem, ticks, last>>

ExecuteJ ==
  /\ stage = "execute" /\ field.op_bits \in JumpOpBits
  /\ reg' = IF field.op_bits = 3 THEN [reg EXCEPT ![31] = pc] ELSE reg
  /\ pc' = JumpTarget(pc, field.imm)
  /\ stage' = "memory"
  /\ UNCHANGED <<instr, field, hi, lo, alu, mem_addr, mem_data, mem, ticks,
                 last>>

ExecuteI ==
  /\ stage = "execute" /\ field.op_bits \notin JumpOpBits \cup {0}
  /\ pc' = IF Taken(field.op_bits, RegRs, RegRt)
           THEN BranchTarget(pc, field.imm) ELSE pc
  /\ alu' = IF field.op_bits \in AluOpBits
            THEN IAlu(field.op_bits, RegRs, field.imm) ELSE alu
  /\ mem_addr' = IF field.op_bits \in Loads \cup Stores
                 THEN Add32(RegRs, field.imm) ELSE mem_addr
  /\ stage' = "memory"
  /\ UNCHANGED <<instr, field, hi, lo, mem_data, reg, mem, ticks, last>>

\* A store or load of n bytes is in memory; the code does not look.
InMemory(n) == {mem_addr, mem_addr + n - 1} \subseteq Address

Memory ==
  /\ stage = "memory"
  /\ \/ /\ field.op_bits \in Stores
        /\ LET b == StoreBytes(field.op_bits, RegRt)
           IN /\ InMemory(Len(b))
              /\ mem' = [a \in Address |->
                           IF a \in mem_addr..(mem_addr + Len(b) - 1)
                           THEN b[a - mem_addr + 1] ELSE mem[a]]
        /\ UNCHANGED mem_data
     \/ /\ field.op_bits \in Loads /\ InMemory(LoadSize(field.op_bits))
        /\ mem_data' = LoadValue(field.op_bits,
                                 [k \in 1..LoadSize(field.op_bits) |->
                                    mem[mem_addr + k - 1]])
        /\ UNCHANGED mem
     \/ /\ field.op_bits \notin Stores \cup Loads
        /\ UNCHANGED <<mem, mem_data>>
  /\ stage' = "write_back"
  /\ UNCHANGED <<pc, instr, field, hi, lo, alu, mem_addr, reg, ticks,
                 last>>

\* The register write_back() writes, and the latch it copies there.
\* Seeded fault: loads write back the ALU register as everything else does.
Written_AluOnly ==
  IF field.op_bits = 0
  THEN IF field.func = Syscall THEN reg ELSE [reg EXCEPT ![field.rd] = alu]
  ELSE IF field.op_bits \in JumpOpBits \cup Stores THEN reg
  ELSE [reg EXCEPT ![field.rt] = alu]
Written ==
  IF field.op_bits = 0
  THEN IF field.func = Syscall THEN reg ELSE [reg EXCEPT ![field.rd] = alu]
  ELSE IF field.op_bits \in JumpOpBits \cup Stores THEN reg
  ELSE IF field.op_bits \in Loads THEN [reg EXCEPT ![field.rt] = mem_data]
  ELSE [reg EXCEPT ![field.rt] = alu]

Boundary(r) == [pc |-> pc, reg |-> r, hi |-> hi, lo |-> lo, mem |-> mem]

WriteBack ==
  /\ stage = "write_back"
  /\ reg' = Written
  /\ last' = Boundary(Written)
  /\ stage' = "fetch"
  /\ ticks' = ticks + 1
  /\ UNCHANGED <<pc, instr, field, hi, lo, alu, mem_addr, mem_data, mem>>
-----------------------------------------------------------------------------
(***************************************************************************)
(* What a host does between ticks: reset(), and writing a register as the  *)
(* tests do.  reset() leaves the ALU register and the memory as they are.  *)
(***************************************************************************)
ZeroField == [op_bits |-> 0, rs |-> 0, rt |-> 0, rd |-> 0, shamt |-> 0,
              func |-> 0, imm |-> 0]
ZeroReg == [r \in 0..31 |-> 0]

Reset ==
  /\ stage = "fetch"
  /\ pc' = 0 /\ instr' = <<0, 0, 0, 0>> /\ field' = ZeroField
  /\ hi' = 0 /\ lo' = 0 /\ mem_addr' = 0 /\ mem_data' = 0
  /\ reg' = ZeroReg
  /\ last' = [pc |-> 0, reg |-> ZeroReg, hi |-> 0, lo |-> 0, mem |-> mem]
  /\ UNCHANGED <<stage, alu, mem, ticks>>

Poke ==
  /\ stage = "fetch"
  /\ \E p \in Pokes : /\ reg' = [reg EXCEPT ![p[1]] = p[2]]
                      /\ last' = Boundary([reg EXCEPT ![p[1]] = p[2]])
  /\ UNCHANGED <<stage, pc, instr, field, hi, lo, alu, mem_addr, mem_data, mem,
                 ticks>>

Init ==
  /\ stage = "fetch"
  /\ pc = 0 /\ instr = <<0, 0, 0, 0>> /\ field = ZeroField
  /\ hi = 0 /\ lo = 0 /\ mem_addr = 0 /\ mem_data = 0
  /\ alu \in Junk
  /\ reg = ZeroReg
  /\ mem \in Images
  /\ ticks = 0
  /\ last = [pc |-> 0, reg |-> ZeroReg, hi |-> 0, lo |-> 0, mem |-> mem]

Execute == Trap \/ ExecuteR \/ ExecuteJ \/ ExecuteI
Next == Fetch \/ Decode \/ Execute \/ Memory \/ WriteBack \/ Reset \/ Poke

Spec == Init /\ [][Next]_vars
-----------------------------------------------------------------------------
Latch == [op_bits : 0..63, rs : 0..31, rt : 0..31, rd : 0..31, shamt : 0..31,
          func : 0..63, imm : Nat]

\* Every variable holds the values its C++ type and its use allow.
StateTypeOK ==
  /\ stage \in {"fetch", "decode", "execute", "memory", "write_back", "trapped"}
  /\ pc \in Int /\ hi \in Int /\ lo \in Int /\ alu \in Int
  /\ mem_addr \in Int /\ mem_data \in Int
  /\ instr \in [1..4 -> Byte]
  /\ field \in Latch
  /\ ticks \in 0..MaxTicks
  /\ reg \in [0..31 -> Int]
  /\ mem \in [Address -> Byte]
  /\ last \in [pc : Int, reg : [0..31 -> Int], hi : Int, lo : Int,
               mem : [Address -> Byte]]

(* From decode() to write_back() the latches the stages read agree with    *)
(* the instruction register: what an instruction of another format left in *)
(* them is never taken for an operand.                                     *)
FieldsCurrent ==
  stage \in {"execute", "memory", "write_back"} =>
    /\ field.op_bits = OpBits(instr)
    /\ field.op_bits \notin JumpOpBits =>
         field.rs = Rs(instr) /\ field.rt = Rt(instr)
    /\ field.op_bits = 0 => /\ field.rd = Rd(instr)
                            /\ field.shamt = Shamt(instr)
                            /\ field.func = Func(instr)
    /\ field.op_bits \in JumpOpBits => field.imm = Imm26(instr)
    /\ field.op_bits \notin JumpOpBits \cup {0} => field.imm = Imm16(instr)

(* The five stages together are one step of the instruction set: whatever  *)
(* earlier instructions left in the latches, a tick's effect on PC,        *)
(* registers, HI, LO and memory depends on these alone, except for the     *)
(* registers ISA calls clobbered.                                          *)
Arch == INSTANCE ISA WITH pc <- last.pc, reg <- last.reg, hi <- last.hi,
                          lo <- last.lo, mem <- last.mem
ImplementsISA == Arch!Spec
=============================================================================
