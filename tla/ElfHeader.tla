----------------------------- MODULE ElfHeader -----------------------------
(***************************************************************************)
(* The headers of an ELF file (ELF.cpp): three classes, each an array of   *)
(* bytes with a getter and a setter per field, written out by hand for     *)
(* each of them.  Nothing but the offsets in those functions keeps one     *)
(* field out of the bytes of another.                                      *)
(***************************************************************************)
EXTENDS Integers

CONSTANTS
  FileHeaders, ProgramHeaders, SectionHeaders,  (* Objects of each class.  *)
  Samples(_),   (* Values given to a setter that writes so many bytes.     *)
  MaxSets       (* Bound: calls that change a header, in a behaviour.      *)

Headers == FileHeaders \cup ProgramHeaders \cup SectionHeaders

\* A number of w bytes: w is 1, 2 or 4.
Power256 == <<1, 256, 65536, 16777216>>
Number(w) == {v \in Nat : v \div Power256[w] < 256}

ASSUME ClassesAssumption ==
  /\ FileHeaders \cap ProgramHeaders = {}
  /\ FileHeaders \cap SectionHeaders = {}
  /\ ProgramHeaders \cap SectionHeaders = {}
ASSUME SamplesAssumption == \A w \in {2, 4} : Samples(w) \subseteq Number(w)
-----------------------------------------------------------------------------
(***************************************************************************)
(* The first byte and the number of bytes of each field.                   *)
(***************************************************************************)
Bytes(at, width) == [at |-> at, width |-> width]

FileFields ==
  [e_type      |-> Bytes(16, 1), e_version   |-> Bytes(20, 4),
   e_entry     |-> Bytes(24, 4), e_phoff     |-> Bytes(28, 4),
   e_shoff     |-> Bytes(32, 4), e_flags     |-> Bytes(36, 4),
   e_ehsize    |-> Bytes(40, 2), e_phentsize |-> Bytes(42, 2),
   e_phnum     |-> Bytes(44, 2), e_shentsize |-> Bytes(46, 2),
   e_shnum     |-> Bytes(48, 2), e_shstrndx  |-> Bytes(50, 2)]

\* Seeded fault: p_memsz is written where p_filesz is.
ProgramFields_Overlap ==
  [p_type   |-> Bytes(0, 4),  p_offset |-> Bytes(4, 4),
   p_vaddr  |-> Bytes(8, 4),  p_paddr  |-> Bytes(12, 4),
   p_filesz |-> Bytes(16, 4), p_memsz  |-> Bytes(16, 4),
   p_flags  |-> Bytes(24, 4), p_align  |-> Bytes(28, 4)]
ProgramFields ==
  [p_type   |-> Bytes(0, 4),  p_offset |-> Bytes(4, 4),
   p_vaddr  |-> Bytes(8, 4),  p_paddr  |-> Bytes(12, 4),
   p_filesz |-> Bytes(16, 4), p_memsz  |-> Bytes(20, 4),
   p_flags  |-> Bytes(24, 4), p_align  |-> Bytes(28, 4)]

SectionFields ==
  [sh_name   |-> Bytes(0, 4),  sh_type      |-> Bytes(4, 4),
   sh_flags  |-> Bytes(8, 4),  sh_addr      |-> Bytes(12, 4),
   sh_offset |-> Bytes(16, 4), sh_size      |-> Bytes(20, 4),
   sh_link   |-> Bytes(24, 4), sh_info      |-> Bytes(28, 4),
   sh_addralign |-> Bytes(32, 4), sh_entsize |-> Bytes(36, 4)]

\* What belongs to the class of a header.
ByClass(h, file, program, section) ==
  IF h \in FileHeaders THEN file
  ELSE IF h \in ProgramHeaders THEN program ELSE section

Layout(h) == ByClass(h, FileFields, ProgramFields, SectionFields)
Size(h)   == ByClass(h, 52, 32, 40)
Kin(h)    == ByClass(h, FileHeaders, ProgramHeaders, SectionHeaders)

Fields(h) == DOMAIN Layout(h)

\* The file header has no setter for its type and version.
Settable(h) == Fields(h) \ {"e_type", "e_version"}

\* What callers give the setter of a field.
Given(h, f) == Samples(Layout(h)[f].width)
-----------------------------------------------------------------------------
VARIABLES
  header,  (* The bytes of each header.                                    *)
  sets     (* Calls so far: the bound, not in the program.                 *)

vars == <<header, sets>>

\* 7F E L F, 32 bits, big-endian, version 1, System V; the machine is MIPS.
Ident == <<127, 69, 76, 70, 1, 2, 1, 0>>

FileBytes == [i \in 0..51 |-> IF i < 8 THEN Ident[i + 1]
                             ELSE IF i = 18 THEN 8 ELSE 0]
BlankHeader(h) == IF h \in FileHeaders THEN FileBytes
                  ELSE [i \in 0..(Size(h) - 1) |-> 0]

\* The byte of weight 256^k of a value.
\* Seeded fault: the mask is left out.
Digit_Unmasked(v, k) == v \div Power256[k + 1]
Digit(v, k) == (v \div Power256[k + 1]) % 256

Within(f) == f.at..(f.at + f.width - 1)

\* Seeded fault: the bytes are stored one too early.
Stored_Early(b, f, v) ==
  [i \in DOMAIN b |->
     IF i + 1 \in Within(f) THEN Digit(v, i + 1 - f.at) ELSE b[i]]
Stored(b, f, v) ==
  [i \in DOMAIN b |-> IF i \in Within(f) THEN Digit(v, i - f.at) ELSE b[i]]

Read(b, f) ==
  IF f.width = 1 THEN b[f.at]
  ELSE IF f.width = 2 THEN b[f.at] + 256 * b[f.at + 1]
  ELSE b[f.at] + 256 * b[f.at + 1] + 65536 * b[f.at + 2]
         + 16777216 * b[f.at + 3]

Get(h, f) == Read(header[h], Layout(h)[f])

Init == /\ header = [h \in Headers |-> BlankHeader(h)]
        /\ sets = 0

Set(h, f, v) ==
  /\ sets < MaxSets
  /\ header' = [header EXCEPT ![h] = Stored(header[h], Layout(h)[f], v)]
  /\ sets' = sets + 1

\* The assignment the compiler gives every class copies the array.
Assign(h, g) ==
  /\ sets < MaxSets
  /\ header' = [header EXCEPT ![h] = header[g]]
  /\ sets' = sets + 1

Next == \E h \in Headers :
          \/ \E f \in Settable(h) : \E v \in Given(h, f) : Set(h, f, v)
          \/ \E g \in Kin(h) : Assign(h, g)

Spec == Init /\ [][Next]_vars
-----------------------------------------------------------------------------
(***************************************************************************)
(* Properties.                                                             *)
(***************************************************************************)
Byte == 0..255

\* Every header keeps its size and holds bytes.
ElfTypeOK ==
  /\ \A h \in Headers : header[h] \in [0..(Size(h) - 1) -> Byte]
  /\ DOMAIN header = Headers
  /\ sets \in Nat

\* What no setter is meant to reach keeps what the constructor put there:
\* the identification and the machine of a file header, and the gaps.
Reached(h) == UNION {Within(Layout(h)[f]) : f \in Settable(h)}
IdentStays ==
  \A h \in Headers : \A i \in 0..(Size(h) - 1) :
    i \notin Reached(h) => header[h][i] = BlankHeader(h)[i]

\* The arrays of bytes implement records of independent fields: what the
\* getters return is what ElfFields says, after any calls of the setters.
Promised == INSTANCE ElfFields WITH
  record <- [h \in Headers |-> [f \in Fields(h) |-> Get(h, f)]],
  Values <- Given
IndependentFields == Promised!Spec
=============================================================================
