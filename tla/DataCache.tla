----------------------------- MODULE DataCache -----------------------------
(***************************************************************************)
(* The memory of the emulator as C++ objects: DataCache, which owns a      *)
(* block of the heap, and State, which has a DataCache.  A DataCache has a *)
(* constructor that copies its block, but the assignment the compiler      *)
(* gives it copies the pointer; the copy constructor of State uses that    *)
(* assignment.  Sizes are checked by writeMem alone, and against the size  *)
(* memories have by default.                                               *)
(*                                                                         *)
(* A freed block accessed or freed again, and an access outside a block,   *)
(* are undefined in C++: the model records which it was and goes no        *)
(* further.                                                                *)
(***************************************************************************)
EXTENDS Integers, Sequences

CONSTANTS
  Names,     (* The objects a process may have at a time.                  *)
  Full,      (* SMIPS_MEM_SIZE.                                            *)
  Sizes,     (* Sizes given to the constructors.                           *)
  Junk,      (* A byte nobody has written.                                 *)
  Bytes,     (* Bytes callers write.                                       *)
  Data,      (* What they give writeMem().                                 *)
  Indices,   (* Indices callers read and write at.                         *)
  MaxBlocks  (* Bound: blocks allocated in a behaviour.                    *)

ASSUME MemoryAssumption ==
  /\ Full \in Nat \ {0} /\ Sizes \subseteq Nat /\ Indices \subseteq Nat
  /\ 0 \in Bytes /\ Data \subseteq Seq(Bytes) /\ MaxBlocks \in Nat

VARIABLES
  heap,    (* The blocks, in the order of their allocation.                *)
  object,  (* What each name stands for.                                   *)
  fault,   (* The undefined behaviour met, if any.                         *)
  aliased  (* Not in the program: has a memory been assigned to another?   *)

vars == <<heap, object, fault, aliased>>

NoObject == [class |-> "none", mem |-> 0, size |-> 0]
NoFault  == [kind |-> "none", op |-> "none", size |-> 0]

Alive(n)  == object[n].class # "none"
States    == {n \in Names : object[n].class = "State"}
Caches    == {n \in Names : object[n].class = "DataCache"}
Defined   == fault = NoFault
-----------------------------------------------------------------------------
(***************************************************************************)
(* Construction and destruction.                                           *)
(***************************************************************************)
Block(bytes) == [bytes |-> bytes, live |-> TRUE]
\* Seeded fault: every block has the default size.
Fresh_Default(s) == Block([i \in 0..(Full - 1) |-> Junk])
Fresh(s)     == Block([i \in 0..(s - 1) |-> Junk])
Contents(n)  == heap[object[n].mem].bytes

\* DataCache(), DataCache(size), State() and State(mem_size).
Construct(n, class, s) ==
  /\ ~Alive(n) /\ Len(heap) < MaxBlocks
  /\ heap' = Append(heap, Fresh(s))
  /\ object' = [object EXCEPT ![n] =
                  [class |-> class, mem |-> Len(heap) + 1, size |-> s]]
  /\ UNCHANGED <<fault, aliased>>

\* What is wrong with code that uses the memory of n and reaches this far.
Misuse(n, reach) == IF ~heap[object[n].mem].live THEN "freed"
                    ELSE IF reach > object[n].size THEN "bounds" ELSE "none"

Fails(n, op, reach) ==
  /\ Misuse(n, reach) # "none"
  /\ fault' = [kind |-> Misuse(n, reach), op |-> op, size |-> object[n].size]
  /\ UNCHANGED <<heap, object, aliased>>

\* DataCache(const DataCache&): a block of its own with the same bytes.
\* Seeded fault: the copy takes over the pointer.
CopyCache_Shallow(n, m) ==
  /\ ~Alive(n) /\ m \in Caches
  /\ object' = [object EXCEPT ![n] = object[m]]
  /\ UNCHANGED <<heap, fault, aliased>>
CopyCache(n, m) ==
  /\ ~Alive(n) /\ m \in Caches /\ Len(heap) < MaxBlocks
  /\ \/ /\ Misuse(m, 0) = "none"
        /\ heap' = Append(heap, Block(Contents(m)))
        /\ object' = [object EXCEPT ![n] =
                        [object[m] EXCEPT !.mem = Len(heap) + 1]]
        /\ UNCHANGED <<fault, aliased>>
     \/ Fails(m, "copy", 0)

\* State(const State&): the memory the default constructor got is lost when
\* that of the other State is assigned.
CopyState(n, m) ==
  /\ ~Alive(n) /\ m \in States /\ Len(heap) < MaxBlocks
  /\ heap' = Append(heap, Fresh(Full))
  /\ object' = [object EXCEPT ![n] = object[m]]
  /\ aliased' = TRUE
  /\ UNCHANGED fault

\* The assignments of both classes, which the compiler writes.
Assign(n, m) ==
  /\ n # m /\ Alive(n) /\ Alive(m) /\ object[n].class = object[m].class
  /\ object' = [object EXCEPT ![n] = object[m]]
  /\ aliased' = TRUE
  /\ UNCHANGED <<heap, fault>>

\* Seeded fault: the destructor forgets to free.
Destroy_Leak(n) ==
  /\ Alive(n)
  /\ object' = [object EXCEPT ![n] = NoObject]
  /\ UNCHANGED <<heap, fault, aliased>>

Destroy(n) ==
  /\ Alive(n)
  /\ \/ /\ Misuse(n, 0) = "none"
        /\ heap' = [heap EXCEPT ![object[n].mem].live = FALSE]
        /\ object' = [object EXCEPT ![n] = NoObject]
        /\ UNCHANGED <<fault, aliased>>
     \/ Fails(n, "delete", 0)
-----------------------------------------------------------------------------
(***************************************************************************)
(* Access.                                                                 *)
(***************************************************************************)
\* The bytes of data go to i and the indices after it.
Store(n, op, i, data) ==
  \/ /\ Misuse(n, i + Len(data)) = "none"
     /\ heap' = [heap EXCEPT ![object[n].mem] = Block(
                   [k \in DOMAIN Contents(n) |->
                      IF k \in i..(i + Len(data) - 1)
                      THEN data[k - i + 1] ELSE Contents(n)[k]])]
     /\ UNCHANGED <<object, fault, aliased>>
  \/ Fails(n, op, i + Len(data))

Times(count, v) == [k \in 1..count |-> v]

\* operator[], which readMem() of a State hands through.
WriteByte(n, i, v) == Alive(n) /\ Store(n, "[]", i, <<v>>)

\* operator[], readHalf() and readWord(): nothing changes unless they fail.
ReadBytes(n, i, width) == Alive(n) /\ Fails(n, "[]", i + width)

\* DataCache::clear() writes the bytes there are, State::clearMem() those
\* there are by default.
Clear(n) == Alive(n) /\ Store(n, "clear", 0, Times(object[n].size, 0))

ClearMem(n) == n \in States /\ Store(n, "clearMem", 0, Times(Full, 0))

\* writeMem() ignores what does not fit a default memory.
\* Seeded fault: it looks at the offset alone.
WriteMem_Start(n, i, data) ==
  n \in States /\ i <= Full /\ Store(n, "writeMem", i, data)
WriteMem(n, i, data) ==
  n \in States /\ i + Len(data) <= Full /\ Store(n, "writeMem", i, data)
-----------------------------------------------------------------------------
Init == /\ heap = << >>
        /\ object = [n \in Names |-> NoObject]
        /\ fault = NoFault
        /\ aliased = FALSE

Lifetime(n) ==
  \/ \E class \in {"DataCache", "State"} : \E s \in Sizes : Construct(n, class, s)
  \/ \E m \in Names : CopyCache(n, m) \/ CopyState(n, m) \/ Assign(n, m)
  \/ Destroy(n)

Access(n) ==
  \/ \E i \in Indices : \/ \E v \in Bytes : WriteByte(n, i, v)
                        \/ \E w \in {1, 2, 4} : ReadBytes(n, i, w)
                        \/ \E data \in Data : WriteMem(n, i, data)
  \/ Clear(n) \/ ClearMem(n)

Next == Defined /\ \E n \in Names : Lifetime(n) \/ Access(n)

Spec == Init /\ [][Next]_vars
-----------------------------------------------------------------------------
(***************************************************************************)
(* Properties.                                                             *)
(***************************************************************************)
Byte == Bytes \cup {Junk}

\* Blocks hold bytes, and an object knows the size of its block.
MemoryTypeOK ==
  /\ heap \in Seq([bytes : UNION {[0..(s - 1) -> Byte] : s \in Sizes \cup {Full}},
                   live : BOOLEAN])
  /\ \A n \in Names : Alive(n) =>
       /\ object[n].class \in {"DataCache", "State"}
       /\ object[n].mem \in DOMAIN heap
       /\ DOMAIN Contents(n) = 0..(object[n].size - 1)
  /\ aliased \in BOOLEAN

\* Until a memory is assigned, by a program or by the copy constructor of
\* State, every block in use belongs to one object and every object has its
\* block: nothing is lost and nothing is shared.
OneOwner ==
  ~aliased =>
    /\ \A n \in Names : Alive(n) => heap[object[n].mem].live
    /\ \A n, m \in Names :
         Alive(n) /\ Alive(m) /\ object[n].mem = object[m].mem => n = m
    /\ \A b \in DOMAIN heap : heap[b].live =>
         \E n \in Names : Alive(n) /\ object[n].mem = b

\* Memory is used after it was freed, or freed twice, only in programs that
\* assigned one; and clear(), clearMem() and writeMem() leave a memory only
\* if it is smaller than the default, whatever they are given.
FaultsHaveCauses ==
  /\ fault.kind = "freed" => aliased
  /\ fault.kind = "bounds" /\ fault.op # "[]" =>
       fault.op # "clear" /\ fault.size < Full

\* A step changes the bytes of one object at most, unless memories were
\* assigned: a copy of a DataCache is a memory of its own.
Kept(n) == Alive(n) /\ object'[n] = object[n]
OneAtATime ==
  [][ ~aliased => \A n, m \in Names :
        /\ Kept(n) /\ Contents(n)' # Contents(n)
        /\ Kept(m) /\ Contents(m)' # Contents(m)
        => n = m ]_vars
=============================================================================
