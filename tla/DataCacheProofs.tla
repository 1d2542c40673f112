-------------------------- MODULE DataCacheProofs --------------------------
(***************************************************************************)
(* Proofs about memories and their owners, for any number of objects, any  *)
(* sizes and any data.  The inductive invariant is MemoryInv; each action  *)
(* is shown to keep it and to change the bytes of one object at most       *)
(* (Alone).  FailStep does so for all that end in undefined behaviour,     *)
(* StoreStep for all that write.                                           *)
(***************************************************************************)
EXTENDS DataCache, TLAPS
-----------------------------------------------------------------------------
Arrays == UNION {[0..(s - 1) -> Byte] : s \in Sizes \cup {Full}}
Cell   == [bytes : Arrays, live : BOOLEAN]
Object == [class : {"none", "DataCache", "State"}, mem : Nat, size : Nat]

TypeInv ==
  /\ heap \in Seq(Cell)
  /\ object \in [Names -> Object]
  /\ \A n \in Names : Alive(n) => /\ object[n].mem \in DOMAIN heap
                                  /\ DOMAIN Contents(n) = 0..(object[n].size - 1)
  /\ aliased \in BOOLEAN

MemoryInv == TypeInv /\ OneOwner /\ FaultsHaveCauses

\* The action of OneAtATime.
Alone == ~aliased => \A n, m \in Names :
           /\ Kept(n) /\ Contents(n)' # Contents(n)
           /\ Kept(m) /\ Contents(m)' # Contents(m)
           => n = m

\* What an operation touches, as far as its fault depends on it.
Reaches(n, op, reach) ==
  /\ reach \in Nat
  /\ op = "clear" => reach <= object[n].size
  /\ op \notin {"[]", "clear"} => reach <= Full
-----------------------------------------------------------------------------
LEMMA FreshType == ASSUME NEW s \in Sizes \cup {Full}
                   PROVE  /\ Fresh(s) \in Cell /\ Fresh(s).live
                          /\ DOMAIN Fresh(s).bytes = 0..(s - 1)
<1>1. [i \in 0..(s - 1) |-> Junk] \in [0..(s - 1) -> Byte]
  BY DEF Byte
<1>2. [i \in 0..(s - 1) |-> Junk] \in Arrays
  BY <1>1 DEF Arrays
<1> QED BY <1>2 DEF Fresh, Block, Cell

\* A new block leaves the others as they are.
LEMMA Appended ==
  ASSUME NEW h \in Seq(Cell), NEW c \in Cell
  PROVE  /\ Append(h, c) \in Seq(Cell) /\ Len(h) + 1 \in DOMAIN Append(h, c)
         /\ Append(h, c)[Len(h) + 1] = c /\ Len(h) + 1 \notin DOMAIN h
         /\ Len(h) \in Nat
         /\ DOMAIN Append(h, c) = DOMAIN h \cup {Len(h) + 1}
         /\ \A b \in DOMAIN h : Append(h, c)[b] = h[b]
  OBVIOUS

\* A block written over leaves the others as they are.
LEMMA Replaced ==
  ASSUME NEW h \in Seq(Cell), NEW k \in DOMAIN h, NEW c \in Cell
  PROVE  /\ [h EXCEPT ![k] = c] \in Seq(Cell)
         /\ DOMAIN [h EXCEPT ![k] = c] = DOMAIN h
         /\ [h EXCEPT ![k] = c][k] = c
         /\ \A b \in DOMAIN h : b # k => [h EXCEPT ![k] = c][b] = h[b]
  OBVIOUS

LEMMA CellsOfHeap ==
  ASSUME TypeInv, NEW b \in DOMAIN heap
  PROVE  heap[b].bytes \in Arrays /\ heap[b].live \in BOOLEAN /\ heap[b] \in Cell
<1>1. heap[b] \in Cell
  BY DEF TypeInv
<1> QED BY <1>1 DEF Cell

LEMMA FailStep ==
  ASSUME MemoryInv, Defined, NEW n \in Names, Alive(n), NEW op, NEW reach,
         Reaches(n, op, reach), Fails(n, op, reach)
  PROVE  MemoryInv' /\ Alone
<1>1. UNCHANGED <<heap, object, aliased>>
  BY DEF Fails
<1>2. TypeInv' /\ OneOwner' /\ Alone
  BY <1>1 DEF MemoryInv, TypeInv, OneOwner, Alone, Alive, Contents
<1>3. object[n].size \in Nat /\ Full \in Nat
  BY MemoryAssumption DEF MemoryInv, TypeInv, Object
<1>4. fault' = [kind |-> Misuse(n, reach), op |-> op, size |-> object[n].size]
  BY DEF Fails
<1>5. FaultsHaveCauses'
  <2>1. CASE ~heap[object[n].mem].live
    <3>1. aliased' /\ fault'.kind = "freed"
      BY <1>1, <1>4, <2>1 DEF Misuse, MemoryInv, OneOwner
    <3> QED BY <3>1 DEF FaultsHaveCauses
  <2>2. CASE heap[object[n].mem].live
    <3>1. /\ fault'.kind # "freed" /\ fault'.op = op
          /\ fault'.size = object[n].size
          /\ fault'.kind = "bounds" => reach > object[n].size
      BY <1>4, <2>2 DEF Misuse
    <3> QED BY <1>3, <3>1 DEF FaultsHaveCauses, Reaches
  <2> QED BY <2>1, <2>2
<1> QED BY <1>2, <1>5 DEF MemoryInv

LEMMA StoreStep ==
  ASSUME MemoryInv, Defined, NEW n \in Names, Alive(n), NEW op, NEW i \in Nat,
         NEW data \in Seq(Byte), Reaches(n, op, i + Len(data)),
         Store(n, op, i, data)
  PROVE  MemoryInv' /\ Alone
<1> DEFINE k == object[n].mem
           new == [j \in DOMAIN Contents(n) |->
                     IF j \in i..(i + Len(data) - 1)
                     THEN data[j - i + 1] ELSE Contents(n)[j]]
<1>1. CASE Fails(n, op, i + Len(data))
  BY <1>1, FailStep
<1>2. CASE ~Fails(n, op, i + Len(data))
  <2>1. /\ Misuse(n, i + Len(data)) = "none"
        /\ heap' = [heap EXCEPT ![k] = Block(new)]
        /\ UNCHANGED <<object, fault, aliased>>
    BY <1>2 DEF Store
  <2>2. k \in DOMAIN heap /\ heap \in Seq(Cell)
    BY DEF MemoryInv, TypeInv
  <2>3. new \in Arrays
    <3>1. PICK s \in Sizes \cup {Full} : Contents(n) \in [0..(s - 1) -> Byte]
      BY <2>2, CellsOfHeap DEF MemoryInv, Arrays, Contents
    <3>2. ASSUME NEW j \in 0..(s - 1)
          PROVE  (IF j \in i..(i + Len(data) - 1)
                  THEN data[j - i + 1] ELSE Contents(n)[j]) \in Byte
      <4>1. Len(data) \in Nat /\ j \in Int
        BY MemoryAssumption
      <4>2. j \in i..(i + Len(data) - 1) => j - i + 1 \in 1..Len(data)
        BY <4>1
      <4>3. j \in i..(i + Len(data) - 1) => data[j - i + 1] \in Byte
        BY <4>2
      <4> QED BY <3>1, <4>3
    <3>3. new \in [0..(s - 1) -> Byte]
      BY <3>1, <3>2
    <3> QED BY <3>3 DEF Arrays
  <2>4. Block(new) \in Cell /\ Block(new).live /\ Block(new).bytes = new
    BY <2>3 DEF Block, Cell
  <2>5. DOMAIN new = DOMAIN Contents(n)
    OBVIOUS
  <2> HIDE DEF new
  <2>6. /\ heap' \in Seq(Cell) /\ DOMAIN heap' = DOMAIN heap
        /\ heap'[k].bytes = new /\ heap'[k].live
        /\ \A b \in DOMAIN heap : b # k => heap'[b] = heap[b]
    BY <2>1, <2>2, <2>4, Replaced
  <2>7. heap[k].live
    BY <2>1 DEF Misuse
  <2>8. \A b \in DOMAIN heap : heap'[b].live <=> heap[b].live
    BY <2>6, <2>7
  <2>9. \A b \in DOMAIN heap : DOMAIN heap'[b].bytes = DOMAIN heap[b].bytes
    BY <2>5, <2>6 DEF Contents
  <2>10. TypeInv'
    BY <2>1, <2>6, <2>9 DEF MemoryInv, TypeInv, Alive, Contents
  <2>11. OneOwner'
    BY <2>1, <2>6, <2>8 DEF MemoryInv, TypeInv, OneOwner, Alive
  <2>12. FaultsHaveCauses'
    BY <2>1 DEF MemoryInv, FaultsHaveCauses
  <2>13. Alone
    BY <2>6 DEF MemoryInv, TypeInv, OneOwner, Alone, Kept, Alive, Contents
  <2> QED BY <2>10, <2>11, <2>12, <2>13 DEF MemoryInv
<1> QED BY <1>1, <1>2
-----------------------------------------------------------------------------
\* An object constructed on a block of its own.
LEMMA NewBlock ==
  ASSUME MemoryInv, NEW n \in Names, ~Alive(n), NEW c \in Cell, c.live,
         NEW class \in {"DataCache", "State"}, NEW s \in Nat,
         DOMAIN c.bytes = 0..(s - 1), heap' = Append(heap, c),
         object' = [object EXCEPT ![n] =
                      [class |-> class, mem |-> Len(heap) + 1, size |-> s]],
         UNCHANGED <<fault, aliased>>
  PROVE  MemoryInv' /\ Alone
<1> DEFINE k == Len(heap) + 1
<1>1. /\ heap' \in Seq(Cell) /\ k \in DOMAIN heap' /\ heap'[k] = c
      /\ k \notin DOMAIN heap /\ DOMAIN heap' = DOMAIN heap \cup {k}
      /\ \A b \in DOMAIN heap : heap'[b] = heap[b]
      /\ k \in Nat
  BY Appended DEF MemoryInv, TypeInv
<1> HIDE DEF k
<1>2. /\ object'[n] = [class |-> class, mem |-> k, size |-> s]
      /\ \A m \in Names : m # n => object'[m] = object[m]
      /\ object' \in [Names -> Object]
  BY <1>1 DEF MemoryInv, TypeInv, Object, k
<1>3. \A m \in Names : m # n => (Alive(m)' <=> Alive(m))
  BY <1>2 DEF Alive
<1>4. \A m \in Names : Alive(m) => m # n /\ object[m].mem \in DOMAIN heap
                                   /\ object[m].mem # k
  BY <1>1 DEF MemoryInv, TypeInv
<1>5. TypeInv'
  <2>1. ASSUME NEW m \in Names, Alive(m)'
        PROVE  /\ object'[m].mem \in DOMAIN heap'
               /\ DOMAIN heap'[object'[m].mem].bytes = 0..(object'[m].size - 1)
    <3>1. CASE m = n
      BY <1>1, <1>2, <3>1
    <3>2. CASE m # n
      BY <1>1, <1>2, <1>3, <2>1, <3>2 DEF MemoryInv, TypeInv, Contents
    <3> QED BY <3>1, <3>2
  <2> QED BY <1>1, <1>2, <2>1 DEF MemoryInv, TypeInv, Contents
<1>6. OneOwner'
  <2>1. SUFFICES ASSUME ~aliased PROVE OneOwner'
    BY DEF OneOwner
  <2>2. \A m \in Names : Alive(m)' => heap'[object'[m].mem].live
    BY <1>1, <1>2, <1>3, <1>4, <2>1 DEF MemoryInv, OneOwner
  <2>3. \A l, m \in Names :
          Alive(l)' /\ Alive(m)' /\ object'[l].mem = object'[m].mem => l = m
    BY <1>2, <1>3, <1>4, <2>1 DEF MemoryInv, OneOwner
  <2>4. \A b \in DOMAIN heap' : heap'[b].live =>
          \E m \in Names : Alive(m)' /\ object'[m].mem = b
    <3>1. SUFFICES ASSUME NEW b \in DOMAIN heap', heap'[b].live
                   PROVE  \E m \in Names : Alive(m)' /\ object'[m].mem = b
      OBVIOUS
    <3>2. CASE b = k
      <4>1. Alive(n)' /\ object'[n].mem = b
        BY <1>2, <3>2 DEF Alive
      <4> QED BY <4>1
    <3>3. CASE b # k
      <4>1. b \in DOMAIN heap /\ heap[b].live
        BY <1>1, <3>1, <3>3
      <4>2. PICK m \in Names : Alive(m) /\ object[m].mem = b
        BY <2>1, <4>1 DEF MemoryInv, OneOwner
      <4> QED BY <1>2, <1>3, <1>4, <4>2
    <3> QED BY <3>2, <3>3
  <2> QED BY <2>2, <2>3, <2>4 DEF OneOwner
<1>7. FaultsHaveCauses'
  BY DEF MemoryInv, FaultsHaveCauses
<1>8. Alone
  BY <1>1, <1>2, <1>4 DEF Alone, Kept, Alive, Contents
<1> QED BY <1>5, <1>6, <1>7, <1>8 DEF MemoryInv

LEMMA ConstructStep ==
  ASSUME MemoryInv, NEW n \in Names, NEW class \in {"DataCache", "State"},
         NEW s \in Sizes, Construct(n, class, s)
  PROVE  MemoryInv' /\ Alone
<1>1. /\ heap' = Append(heap, Fresh(s)) /\ ~Alive(n)
      /\ object' = [object EXCEPT ![n] =
                      [class |-> class, mem |-> Len(heap) + 1, size |-> s]]
      /\ UNCHANGED <<fault, aliased>>
  BY DEF Construct
<1>2. Fresh(s) \in Cell /\ Fresh(s).live /\ DOMAIN Fresh(s).bytes = 0..(s - 1)
  BY FreshType
<1> QED BY <1>1, <1>2, NewBlock, MemoryAssumption

LEMMA CopyCacheStep ==
  ASSUME MemoryInv, Defined, NEW n \in Names, NEW m \in Names, CopyCache(n, m)
  PROVE  MemoryInv' /\ Alone
<1>1. Alive(m) /\ ~Alive(n)
  BY DEF CopyCache, Caches, Alive
<1>2. CASE Fails(m, "copy", 0)
  <2>1. Reaches(m, "copy", 0)
    BY MemoryAssumption DEF Reaches
  <2> QED BY <1>1, <1>2, <2>1, FailStep
<1>3. CASE ~Fails(m, "copy", 0)
  <2> DEFINE c == Block(Contents(m))
             x == [object[m] EXCEPT !.mem = Len(heap) + 1]
  <2>1. /\ heap' = Append(heap, c) /\ object' = [object EXCEPT ![n] = x]
        /\ UNCHANGED <<fault, aliased>>
    BY <1>3 DEF CopyCache
  <2>2. object[m].mem \in DOMAIN heap /\ object[m] \in Object
        /\ DOMAIN Contents(m) = 0..(object[m].size - 1)
    BY <1>1 DEF MemoryInv, TypeInv
  <2>3. Contents(m) \in Arrays
    BY <2>2, CellsOfHeap DEF Contents, MemoryInv
  <2>4. c \in Cell /\ c.live /\ DOMAIN c.bytes = 0..(object[m].size - 1)
    BY <2>2, <2>3 DEF Block, Cell
  <2>5. /\ object[m].class \in {"DataCache", "State"} /\ object[m].size \in Nat
        /\ x = [class |-> object[m].class, mem |-> Len(heap) + 1,
                size |-> object[m].size]
    BY <1>1, <2>2 DEF Object, Alive
  <2> HIDE DEF c, x
  <2> QED BY <1>1, <2>1, <2>4, <2>5, NewBlock
<1> QED BY <1>2, <1>3

\* Copying a State and assigning: the memory of m gets a second owner.
LEMMA AliasStep ==
  ASSUME MemoryInv, Defined, NEW n \in Names, NEW m \in Names, n # m,
         CopyState(n, m) \/ Assign(n, m)
  PROVE  MemoryInv' /\ Alone
<1>1. Alive(m) /\ object' = [object EXCEPT ![n] = object[m]]
      /\ aliased' = TRUE /\ UNCHANGED fault
  BY DEF CopyState, Assign, States, Alive
<1>2. /\ heap' \in Seq(Cell) /\ DOMAIN heap \subseteq DOMAIN heap'
      /\ \A b \in DOMAIN heap : heap'[b] = heap[b]
  <2>1. CASE CopyState(n, m)
    <3>1. heap' = Append(heap, Fresh(Full)) /\ heap \in Seq(Cell)
      BY <2>1 DEF CopyState, MemoryInv, TypeInv
    <3> QED BY <3>1, FreshType, Appended
  <2>2. CASE Assign(n, m)
    BY <2>2 DEF Assign, MemoryInv, TypeInv
  <2> QED BY <2>1, <2>2
<1>3. object' \in [Names -> Object]
  BY <1>1 DEF MemoryInv, TypeInv
<1>4. ASSUME NEW k \in Names, Alive(k)'
      PROVE  /\ object'[k].mem \in DOMAIN heap'
             /\ DOMAIN heap'[object'[k].mem].bytes = 0..(object'[k].size - 1)
  <2>1. PICK l \in Names : Alive(l) /\ object'[k] = object[l]
    BY <1>1, <1>4 DEF MemoryInv, TypeInv, Alive
  <2> QED BY <1>2, <2>1 DEF MemoryInv, TypeInv, Contents
<1>5. TypeInv'
  BY <1>1, <1>2, <1>3, <1>4 DEF TypeInv, Contents
<1>6. OneOwner'
  BY <1>1 DEF OneOwner
<1>7. FaultsHaveCauses'
  BY <1>1 DEF MemoryInv, FaultsHaveCauses, Defined, NoFault
<1>8. Alone
  BY <1>2 DEF Alone, Kept, Contents, MemoryInv, TypeInv
<1> QED BY <1>5, <1>6, <1>7, <1>8 DEF MemoryInv

LEMMA DestroyStep ==
  ASSUME MemoryInv, Defined, NEW n \in Names, Destroy(n)
  PROVE  MemoryInv' /\ Alone
<1>1. Alive(n)
  BY DEF Destroy
<1>2. CASE Fails(n, "delete", 0)
  <2>1. Reaches(n, "delete", 0)
    BY MemoryAssumption DEF Reaches
  <2> QED BY <1>1, <1>2, <2>1, FailStep
<1>3. CASE ~Fails(n, "delete", 0)
  <2> DEFINE k == object[n].mem
             c == [heap[k] EXCEPT !.live = FALSE]
  <2>1. /\ heap' = [heap EXCEPT ![k] = c]
        /\ object' = [object EXCEPT ![n] = NoObject]
        /\ UNCHANGED <<fault, aliased>>
    BY <1>3 DEF Destroy
  <2>2. k \in DOMAIN heap /\ heap \in Seq(Cell)
    BY <1>1 DEF MemoryInv, TypeInv
  <2>3. c \in Cell /\ ~c.live /\ c.bytes = heap[k].bytes
    BY <2>2, CellsOfHeap DEF MemoryInv, Cell
  <2> HIDE DEF c
  <2>4. /\ heap' \in Seq(Cell) /\ DOMAIN heap' = DOMAIN heap
        /\ heap'[k] = c
        /\ \A b \in DOMAIN heap : b # k => heap'[b] = heap[b]
    BY <2>1, <2>2, <2>3, Replaced
  <2>5. \A b \in DOMAIN heap : heap'[b].bytes = heap[b].bytes
    BY <2>3, <2>4
  <2>6. /\ \A m \in Names : m # n => object'[m] = object[m]
        /\ object'[n] = NoObject /\ object' \in [Names -> Object]
    BY <2>1 DEF MemoryInv, TypeInv, NoObject, Object
  <2>7. \A m \in Names : Alive(m)' => m # n /\ Alive(m)
    BY <2>6 DEF Alive, NoObject
  <2>8. TypeInv'
    BY <2>1, <2>4, <2>5, <2>6, <2>7 DEF MemoryInv, TypeInv, Contents
  <2>9. OneOwner'
    <3>1. SUFFICES ASSUME ~aliased PROVE OneOwner'
      BY <2>1 DEF OneOwner
    <3>2. \A m \in Names : Alive(m) /\ m # n => object[m].mem # k
      BY <1>1, <3>1 DEF MemoryInv, OneOwner
    <3>3. \A m \in Names : Alive(m)' => heap'[object'[m].mem].live
      BY <2>4, <2>6, <2>7, <3>1, <3>2 DEF MemoryInv, TypeInv, OneOwner
    <3>4. \A l, m \in Names :
            Alive(l)' /\ Alive(m)' /\ object'[l].mem = object'[m].mem => l = m
      BY <2>6, <2>7, <3>1 DEF MemoryInv, OneOwner
    <3>5. \A b \in DOMAIN heap' : heap'[b].live =>
            \E m \in Names : Alive(m)' /\ object'[m].mem = b
      <4>1. SUFFICES ASSUME NEW b \in DOMAIN heap', heap'[b].live
                     PROVE  \E m \in Names : Alive(m)' /\ object'[m].mem = b
        OBVIOUS
      <4>2. b # k /\ heap[b].live /\ b \in DOMAIN heap
        BY <2>3, <2>4, <4>1
      <4>3. PICK m \in Names : Alive(m) /\ object[m].mem = b
        BY <3>1, <4>2 DEF MemoryInv, OneOwner
      <4>4. m # n
        BY <4>2, <4>3
      <4> QED BY <2>6, <4>3, <4>4 DEF Alive
    <3> QED BY <3>3, <3>4, <3>5 DEF OneOwner
  <2>10. FaultsHaveCauses'
    BY <2>1 DEF MemoryInv, FaultsHaveCauses
  <2>11. Alone
    BY <2>5 DEF Alone, Kept, Contents, MemoryInv, TypeInv
  <2> QED BY <2>8, <2>9, <2>10, <2>11 DEF MemoryInv
<1> QED BY <1>2, <1>3

LEMMA TimesType ==
  ASSUME NEW count \in Nat
  PROVE  Times(count, 0) \in Seq(Byte) /\ Len(Times(count, 0)) = count
<1>1. 0 \in Byte
  BY MemoryAssumption DEF Byte
<1> QED BY <1>1 DEF Times

LEMMA AccessStep ==
  ASSUME MemoryInv, Defined, NEW n \in Names, Access(n)
  PROVE  MemoryInv' /\ Alone
<1>1. CASE \E i \in Indices, v \in Bytes : WriteByte(n, i, v)
  <2>1. PICK i \in Indices, v \in Bytes : WriteByte(n, i, v)
    BY <1>1
  <2>2. i \in Nat /\ <<v>> \in Seq(Byte) /\ Len(<<v>>) = 1
    BY MemoryAssumption DEF Byte
  <2>3. Reaches(n, "[]", i + Len(<<v>>))
    BY <2>2 DEF Reaches
  <2> QED BY <2>1, <2>2, <2>3, StoreStep DEF WriteByte
<1>2. CASE \E i \in Indices, w \in {1, 2, 4} : ReadBytes(n, i, w)
  <2>1. PICK i \in Indices, w \in {1, 2, 4} : ReadBytes(n, i, w)
    BY <1>2
  <2>2. Reaches(n, "[]", i + w)
    BY MemoryAssumption DEF Reaches
  <2> QED BY <2>1, <2>2, FailStep DEF ReadBytes
<1>3. CASE \E i \in Indices, data \in Data : WriteMem(n, i, data)
  <2>1. PICK i \in Indices, data \in Data : WriteMem(n, i, data)
    BY <1>3
  <2>2. i \in Nat /\ data \in Seq(Bytes)
    BY MemoryAssumption
  <2>3. data \in Seq(Byte) /\ Len(data) \in Nat
    BY <2>2 DEF Byte
  <2>4. Alive(n) /\ Reaches(n, "writeMem", i + Len(data))
    BY <2>1, <2>2, <2>3 DEF WriteMem, States, Alive, Reaches
  <2> QED BY <2>1, <2>2, <2>3, <2>4, StoreStep DEF WriteMem
<1>4. CASE Clear(n)
  <2>1. object[n].size \in Nat
    BY DEF MemoryInv, TypeInv, Object
  <2>2. Times(object[n].size, 0) \in Seq(Byte)
        /\ Len(Times(object[n].size, 0)) = object[n].size
    BY <2>1, TimesType
  <2>3. Reaches(n, "clear", 0 + Len(Times(object[n].size, 0)))
    BY <2>1, <2>2 DEF Reaches
  <2> QED BY <1>4, <2>2, <2>3, StoreStep DEF Clear
<1>5. CASE ClearMem(n)
  <2>1. Times(Full, 0) \in Seq(Byte) /\ Len(Times(Full, 0)) = Full /\ Full \in Nat
    BY MemoryAssumption, TimesType
  <2>2. Alive(n) /\ Reaches(n, "clearMem", 0 + Len(Times(Full, 0)))
    BY <1>5, <2>1 DEF ClearMem, States, Alive, Reaches
  <2> QED BY <1>5, <2>1, <2>2, StoreStep DEF ClearMem
<1> QED BY <1>1, <1>2, <1>3, <1>4, <1>5 DEF Access

LEMMA LifetimeStep ==
  ASSUME MemoryInv, Defined, NEW n \in Names, Lifetime(n)
  PROVE  MemoryInv' /\ Alone
<1>1. CASE \E class \in {"DataCache", "State"} :
             \E s \in Sizes : Construct(n, class, s)
  BY <1>1, ConstructStep
<1>2. ASSUME NEW m \in Names, CopyCache(n, m) \/ CopyState(n, m) \/ Assign(n, m)
      PROVE  MemoryInv' /\ Alone
  <2>1. CopyState(n, m) \/ Assign(n, m) => n # m
    BY DEF CopyState, Assign, States, Alive
  <2> QED BY <1>2, <2>1, CopyCacheStep, AliasStep
<1>3. CASE Destroy(n)
  BY <1>3, DestroyStep
<1> QED BY <1>1, <1>2, <1>3 DEF Lifetime

LEMMA MemoryInit == Init => MemoryInv
<1> SUFFICES ASSUME Init PROVE MemoryInv
  OBVIOUS
<1>1. /\ heap = << >> /\ object = [n \in Names |-> NoObject]
      /\ fault.kind = "none" /\ aliased = FALSE
  BY DEF Init, NoFault
<1>2. \A n \in Names : ~Alive(n)
  BY <1>1 DEF Alive, NoObject
<1>3. heap \in Seq(Cell) /\ DOMAIN heap = {}
  BY <1>1
<1>4. object \in [Names -> Object]
  BY <1>1 DEF NoObject, Object
<1>5. TypeInv
  BY <1>1, <1>2, <1>3, <1>4 DEF TypeInv
<1>6. OneOwner
  BY <1>2, <1>3 DEF OneOwner
<1>7. FaultsHaveCauses
  BY <1>1 DEF FaultsHaveCauses
<1> QED BY <1>5, <1>6, <1>7 DEF MemoryInv

LEMMA MemoryStep == MemoryInv /\ [Next]_vars => MemoryInv' /\ [Alone]_vars
<1>1. MemoryInv /\ Next => MemoryInv' /\ Alone
  BY LifetimeStep, AccessStep DEF Next
<1>2. MemoryInv /\ UNCHANGED vars => MemoryInv'
  BY DEF vars, MemoryInv, TypeInv, OneOwner, FaultsHaveCauses, Alive, Contents
<1> QED BY <1>1, <1>2

LEMMA MemoryIsInvariant == Spec => []MemoryInv
BY MemoryInit, MemoryStep, PTL DEF Spec
-----------------------------------------------------------------------------
(* Every object knows its block and the size of it, also after copies,     *)
(* assignments and whatever was written: what misuse there is, the model   *)
(* sees it.                                                                *)
THEOREM TypeCorrect == Spec => []MemoryTypeOK
<1>1. MemoryInv => MemoryTypeOK
  <2> SUFFICES ASSUME MemoryInv PROVE MemoryTypeOK
    OBVIOUS
  <2>1. heap \in Seq([bytes : UNION {[0..(s - 1) -> Byte] : s \in Sizes \cup {Full}},
                      live : BOOLEAN])
    BY DEF MemoryInv, TypeInv, Cell, Arrays
  <2>2. \A n \in Names : Alive(n) => object[n].class \in {"DataCache", "State"}
    BY DEF MemoryInv, TypeInv, Object, Alive
  <2> QED BY <2>1, <2>2 DEF MemoryInv, TypeInv, MemoryTypeOK
<1> QED BY <1>1, MemoryIsInvariant, PTL

(* As long as no memory is assigned and no State copied, every block of    *)
(* the heap in use has exactly one owner.                                  *)
THEOREM NothingSharedOrLost == Spec => []OneOwner
<1>1. MemoryInv => OneOwner
  BY DEF MemoryInv
<1> QED BY <1>1, MemoryIsInvariant, PTL

(* Use after free and double free need an assignment; the operations that  *)
(* choose their own bounds leave a memory only if it is smaller than the   *)
(* default one.                                                            *)
THEOREM OnlyTheseCauses == Spec => []FaultsHaveCauses
<1>1. MemoryInv => FaultsHaveCauses
  BY DEF MemoryInv
<1> QED BY <1>1, MemoryIsInvariant, PTL

(* Without assignments a step changes the bytes of one object at most: a   *)
(* copy of a DataCache never follows its original.                         *)
THEOREM CopiesAreIndependent == Spec => OneAtATime
<1>1. [Alone]_vars => [~aliased => \A n, m \in Names :
                          /\ Kept(n) /\ Contents(n)' # Contents(n)
                          /\ Kept(m) /\ Contents(m)' # Contents(m)
                          => n = m]_vars
  BY DEF Alone
<1> QED BY <1>1, MemoryStep, MemoryIsInvariant, PTL DEF Spec, OneAtATime
=============================================================================
