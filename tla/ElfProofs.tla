----------------------------- MODULE ElfProofs -----------------------------
(***************************************************************************)
(* Proofs about ElfHeader for any headers, any values and any number of    *)
(* calls.  The fields of a class do not overlap and lie inside its array   *)
(* (FieldsFit, FieldsApart), the digits of a number give it back           *)
(* (ReadStored), so a setter is seen by its own getter alone               *)
(* (ReadOther) and the arrays implement records of fields (Implements).    *)
(***************************************************************************)
EXTENDS ElfHeader, TLAPS

USE DEF Bytes

LEMMA FieldsFit ==
  ASSUME NEW h \in Headers, NEW f \in Fields(h)
  PROVE  /\ Layout(h)[f].at \in Nat
         /\ Layout(h)[f].width \in {1, 2, 4}
         /\ Layout(h)[f].at + Layout(h)[f].width <= Size(h)
         /\ f \in Settable(h) => Layout(h)[f].width \in {2, 4}
PROOF
<1>1. CASE h \in FileHeaders
  BY <1>1, ClassesAssumption DEF ByClass, Layout, Fields, Size, FileFields, Settable
<1>2. CASE h \in ProgramHeaders
  BY <1>2, ClassesAssumption DEF ByClass, Layout, Fields, Size, ProgramFields, Settable
<1>3. CASE h \in SectionHeaders
  BY <1>3, ClassesAssumption DEF ByClass, Layout, Fields, Size, SectionFields, Settable
<1> QED BY <1>1, <1>2, <1>3 DEF Headers

LEMMA FieldsApart ==
  ASSUME NEW h \in Headers, NEW f \in Fields(h), NEW g \in Fields(h), f # g
  PROVE  \/ Layout(h)[f].at + Layout(h)[f].width <= Layout(h)[g].at
         \/ Layout(h)[g].at + Layout(h)[g].width <= Layout(h)[f].at
PROOF
<1>1. CASE h \in FileHeaders
  BY <1>1, ClassesAssumption DEF ByClass, Layout, Fields, FileFields
<1>2. CASE h \in ProgramHeaders
  BY <1>2, ClassesAssumption DEF ByClass, Layout, Fields, ProgramFields
<1>3. CASE h \in SectionHeaders
  BY <1>3, ClassesAssumption DEF ByClass, Layout, Fields, SectionFields
<1> QED BY <1>1, <1>2, <1>3 DEF Headers
-----------------------------------------------------------------------------
\* The bytes of a header.
Array(h) == [0..(Size(h) - 1) -> Byte]

LEMMA PowerType == Power256 \in [1..4 -> Nat \ {0}]
PROOF BY DEF Power256

LEMMA DigitType ==
  ASSUME NEW v \in Nat, NEW k \in 0..3
  PROVE  Digit(v, k) \in Byte
PROOF
<1>1. CASE k = 0
  BY <1>1 DEF Digit, Power256, Byte
<1>2. CASE k = 1
  BY <1>2 DEF Digit, Power256, Byte
<1>3. CASE k = 2
  BY <1>3 DEF Digit, Power256, Byte
<1>4. CASE k = 3
  BY <1>4 DEF Digit, Power256, Byte
<1> QED BY <1>1, <1>2, <1>3, <1>4

\* A number is the sum of its digits by their weights.
LEMMA Digits2 ==
  ASSUME NEW v \in Number(2)
  PROVE  v = Digit(v, 0) + 256 * Digit(v, 1)
PROOF
<1>1. v \in Nat /\ v \div 256 < 256
  BY DEF Number, Power256
<1> QED BY <1>1 DEF Digit, Power256

LEMMA Digits4 ==
  ASSUME NEW v \in Number(4)
  PROVE  v = Digit(v, 0) + 256 * Digit(v, 1) + 65536 * Digit(v, 2)
               + 16777216 * Digit(v, 3)
PROOF
<1>1. v \in Nat /\ v \div 16777216 < 256
  BY DEF Number, Power256
<1> QED BY <1>1 DEF Digit, Power256

\* A setter leaves an array of the same size.
LEMMA StoredType ==
  ASSUME NEW h \in Headers, NEW f \in Fields(h), NEW v \in Nat,
         NEW b \in Array(h)
  PROVE  Stored(b, Layout(h)[f], v) \in Array(h)
PROOF
<1>1. \A i \in Within(Layout(h)[f]) : i - Layout(h)[f].at \in 0..3
  BY FieldsFit DEF Within
<1>2. \A i \in Within(Layout(h)[f]) : Digit(v, i - Layout(h)[f].at) \in Byte
  BY <1>1, DigitType
<1> QED BY <1>2 DEF Stored, Array

\* The getter of a field returns what its setter stored.
LEMMA ReadStored ==
  ASSUME NEW h \in Headers, NEW f \in Settable(h), NEW v \in Given(h, f),
         NEW b \in Array(h)
  PROVE  Read(Stored(b, Layout(h)[f], v), Layout(h)[f]) = v
PROOF
<1> DEFINE L == Layout(h)[f]
           c == Stored(b, L, v)
<1>1. /\ L.at \in Nat /\ L.width \in {2, 4} /\ L.at + L.width <= Size(h)
      /\ Size(h) \in Nat
  BY FieldsFit DEF Settable, Size, ByClass
<1> HIDE DEF L, c
<1>2. v \in Number(L.width)
  BY <1>1, SamplesAssumption DEF Given, L
<1>3. v \in Nat
  BY <1>2 DEF Number
<1>4. \A k \in 0..(L.width - 1) : c[L.at + k] = Digit(v, k)
  <2> SUFFICES ASSUME NEW k \in 0..(L.width - 1)
               PROVE  c[L.at + k] = Digit(v, k)
    OBVIOUS
  <2>1. L.at + k \in DOMAIN b /\ L.at + k \in Within(L)
    BY <1>1 DEF Array, Within
  <2>2. (L.at + k) - L.at = k
    BY <1>1
  <2> QED BY <2>1, <2>2 DEF Stored, c
<1>5. CASE L.width = 2
  <2>1. Read(c, L) = Digit(v, 0) + 256 * Digit(v, 1)
    BY <1>1, <1>4, <1>5 DEF Read
  <2> QED BY <2>1, <1>2, <1>5, Digits2 DEF L, c
<1>6. CASE L.width = 4
  <2>1. Read(c, L) = Digit(v, 0) + 256 * Digit(v, 1) + 65536 * Digit(v, 2)
                       + 16777216 * Digit(v, 3)
    BY <1>1, <1>4, <1>6 DEF Read
  <2> QED BY <2>1, <1>2, <1>6, Digits4 DEF L, c
<1> QED BY <1>1, <1>5, <1>6

\* The getter of any other field returns what it did.
LEMMA ReadOther ==
  ASSUME NEW h \in Headers, NEW f \in Settable(h), NEW g \in Fields(h), f # g,
         NEW v \in Given(h, f), NEW b \in Array(h)
  PROVE  Read(Stored(b, Layout(h)[f], v), Layout(h)[g]) = Read(b, Layout(h)[g])
PROOF
<1> DEFINE L == Layout(h)[f]
           M == Layout(h)[g]
           c == Stored(b, L, v)
<1>1. /\ L.at \in Nat /\ L.width \in {2, 4}
      /\ M.at \in Nat /\ M.width \in {1, 2, 4} /\ M.at + M.width <= Size(h)
      /\ L.at + L.width <= M.at \/ M.at + M.width <= L.at
      /\ Size(h) \in Nat
  BY FieldsFit, FieldsApart DEF Settable, Size, ByClass
<1> HIDE DEF L, M, c
<1>2. \A k \in 0..(M.width - 1) : c[M.at + k] = b[M.at + k]
  <2> SUFFICES ASSUME NEW k \in 0..(M.width - 1)
               PROVE  c[M.at + k] = b[M.at + k]
    OBVIOUS
  <2>1. k \in Int /\ 0 <= k /\ k < M.width
    BY <1>1
  <2>2. M.at + k \in DOMAIN b
    BY <1>1, <2>1 DEF Array
  <2>3. M.at + k \notin Within(L)
    BY <1>1, <2>1 DEF Within
  <2> QED BY <2>2, <2>3 DEF Stored, c
<1>3. Read(c, M) = Read(b, M)
  BY <1>1, <1>2 DEF Read
<1> QED BY <1>3 DEF L, M, c
-----------------------------------------------------------------------------
LEMMA SizeType == \A h \in Headers : Size(h) \in {32, 40, 52}
PROOF BY DEF Size, ByClass

LEMMA BlankType == \A h \in Headers : BlankHeader(h) \in Array(h)
PROOF
<1>1. FileBytes \in [0..51 -> Byte]
  BY DEF FileBytes, Ident, Byte
<1>2. \A h \in Headers : [i \in 0..(Size(h) - 1) |-> 0] \in Array(h)
  BY DEF Array, Byte
<1> QED BY <1>1, <1>2 DEF BlankHeader, Array, Size, ByClass

\* The arrays a step leaves behind, by the call that was made.
LEMMA KinAreAlike ==
  ASSUME NEW h \in Headers, NEW g \in Kin(h)
  PROVE  /\ g \in Headers /\ Size(g) = Size(h) /\ Layout(g) = Layout(h)
         /\ BlankHeader(g) = BlankHeader(h)
PROOF
  BY ClassesAssumption
     DEF Kin, Headers, Size, Layout, ByClass, BlankHeader

\* Every header keeps its size and holds bytes, whatever it is set to.
THEOREM TypeCorrect == Spec => []ElfTypeOK
PROOF
<1>1. Init => ElfTypeOK
  BY BlankType DEF Init, ElfTypeOK, Array
<1>2. ElfTypeOK /\ [Next]_vars => ElfTypeOK'
  <2> SUFFICES ASSUME ElfTypeOK, [Next]_vars PROVE ElfTypeOK'
    OBVIOUS
  <2>1. ASSUME NEW h \in Headers, NEW f \in Settable(h), NEW v \in Given(h, f),
               Set(h, f, v)
        PROVE  ElfTypeOK'
    <3>1. v \in Nat
      BY FieldsFit, SamplesAssumption DEF Given, Settable, Number
    <3>2. Stored(header[h], Layout(h)[f], v) \in Array(h)
      BY <3>1, StoredType DEF Settable, ElfTypeOK, Array
    <3> QED BY <2>1, <3>2 DEF Set, ElfTypeOK, Array
  <2>2. ASSUME NEW h \in Headers, NEW g \in Kin(h), Assign(h, g)
        PROVE  ElfTypeOK'
    <3>1. header[g] \in Array(h)
      BY KinAreAlike DEF ElfTypeOK, Array
    <3> QED BY <2>2, <3>1 DEF Assign, ElfTypeOK, Array
  <2>3. CASE UNCHANGED vars
    BY <2>3 DEF ElfTypeOK, vars
  <2> QED BY <2>1, <2>2, <2>3 DEF Next
<1> QED BY <1>1, <1>2, PTL DEF Spec

\* What no setter is meant to reach is never written: the identification of a
\* file header is the constructor's for as long as the header lives.
THEOREM IdentIsConstant == Spec => []IdentStays
PROOF
<1>1. Init => IdentStays
  BY DEF Init, IdentStays
<1>2. ElfTypeOK /\ IdentStays /\ [Next]_vars => IdentStays'
  <2> SUFFICES ASSUME ElfTypeOK, IdentStays, [Next]_vars PROVE IdentStays'
    OBVIOUS
  <2>1. ASSUME NEW h \in Headers, NEW f \in Settable(h), NEW v \in Given(h, f),
               Set(h, f, v)
        PROVE  IdentStays'
    <3>1. \A i \in 0..(Size(h) - 1) : i \notin Reached(h) =>
            Stored(header[h], Layout(h)[f], v)[i] = header[h][i]
      BY DEF Stored, Reached, ElfTypeOK
    <3> QED BY <2>1, <3>1 DEF Set, IdentStays, ElfTypeOK
  <2>2. ASSUME NEW h \in Headers, NEW g \in Kin(h), Assign(h, g)
        PROVE  IdentStays'
    <3>1. \A i \in 0..(Size(h) - 1) : i \notin Reached(h) =>
            header[g][i] = BlankHeader(h)[i]
      BY KinAreAlike DEF IdentStays, Reached, Settable, Fields
    <3> QED BY <2>2, <3>1 DEF Assign, IdentStays, ElfTypeOK
  <2>3. CASE UNCHANGED vars
    BY <2>3 DEF IdentStays, vars
  <2> QED BY <2>1, <2>2, <2>3 DEF Next
<1> QED BY <1>1, <1>2, TypeCorrect, PTL DEF Spec

\* The arrays implement records of independent fields: each call of a setter
\* or assignment is the step of ElfFields of the same name.
THEOREM Implements == Spec => IndependentFields
PROOF
<1> DEFINE R == [h \in Headers |-> [f \in Fields(h) |-> Get(h, f)]]
<1>1. Init => Promised!Init
  <2> SUFFICES ASSUME Init PROVE Promised!Init
    OBVIOUS
  <2>1. ASSUME NEW h \in Headers, NEW f \in Fields(h) PROVE Get(h, f) = 0
    <3>1. header[h] = BlankHeader(h)
      BY DEF Init
    <3>2. CASE h \in FileHeaders
      BY <3>1, <3>2, <2>1 DEF BlankHeader, FileBytes, Get, Read, Fields,
         Layout, ByClass, FileFields
    <3>3. CASE h \notin FileHeaders
      <4>1. \A i \in 0..(Size(h) - 1) : header[h][i] = 0
        BY <3>1, <3>3 DEF BlankHeader
      <4> QED BY <4>1, FieldsFit, SizeType DEF Get, Read
    <3> QED BY <3>2, <3>3
  <2> QED BY <2>1 DEF Promised!Init
<1>2. ElfTypeOK /\ [Next]_vars => [Promised!Next]_R
  <2> SUFFICES ASSUME ElfTypeOK, [Next]_vars PROVE [Promised!Next]_R
    OBVIOUS
  <2>1. ASSUME NEW h \in Headers, NEW f \in Settable(h), NEW v \in Given(h, f),
               Set(h, f, v)
        PROVE  Promised!Set(h, f, v)
    <3>1. header' = [header EXCEPT ![h] = Stored(header[h], Layout(h)[f], v)]
      BY <2>1 DEF Set
    <3>2. header[h] \in Array(h) /\ h \in DOMAIN header
      BY DEF ElfTypeOK, Array
    <3>3. f \in Fields(h)
      BY DEF Settable
    <3>4. Get(h, f)' = v
      BY <3>1, <3>2, ReadStored DEF Get
    <3>5. \A g \in Fields(h) : g # f => Get(h, g)' = Get(h, g)
      BY <3>1, <3>2, ReadOther DEF Get
    <3>6. \A k \in Headers : k # h => \A g \in Fields(k) :
            Get(k, g)' = Get(k, g)
      BY <3>1, <3>2 DEF Get, ElfTypeOK
    <3> QED BY <3>3, <3>4, <3>5, <3>6 DEF Promised!Set
  <2>2. ASSUME NEW h \in Headers, NEW g \in Kin(h), Assign(h, g)
        PROVE  Promised!Assign(h, g)
    <3>1. header' = [header EXCEPT ![h] = header[g]]
      BY <2>2 DEF Assign
    <3>2. /\ g \in Headers /\ Layout(g) = Layout(h) /\ Fields(g) = Fields(h)
          /\ DOMAIN header = Headers
      BY KinAreAlike DEF Fields, ElfTypeOK
    <3>3. \A f \in Fields(h) : Get(h, f)' = Get(g, f)
      BY <3>1, <3>2 DEF Get
    <3>4. \A k \in Headers : k # h => \A f \in Fields(k) :
            Get(k, f)' = Get(k, f)
      BY <3>1, <3>2 DEF Get
    <3> QED BY <3>2, <3>3, <3>4 DEF Promised!Assign
  <2>3. CASE UNCHANGED vars
    BY <2>3 DEF vars, Get
  <2> QED BY <2>1, <2>2, <2>3 DEF Next, Promised!Next
<1> QED BY <1>1, <1>2, TypeCorrect, PTL DEF Spec, IndependentFields,
        Promised!Spec
=============================================================================
