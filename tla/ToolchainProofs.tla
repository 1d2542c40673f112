-------------------------- MODULE ToolchainProofs --------------------------
(***************************************************************************)
(* Proofs about the way of a source through the program, for all listings  *)
(* of complete statements: assem refuses one exactly if a statement of it  *)
(* is wrong.                                                               *)
(***************************************************************************)
EXTENDS Toolchain, SequenceTheorems, FiniteSetTheorems, TLAPS

(***************************************************************************)
(* Concatenation.  FlattenSeq is defined by recursion on the index; that   *)
(* the recursion defines something is shown first.                         *)
(***************************************************************************)
\* What holds of 0 and is handed on from each index to the next holds of all.
LEMMA Upwards ==
  ASSUME NEW n \in Nat, NEW T, 0 \in T,
         \A k \in 1..n : k - 1 \in T => k \in T
  PROVE  \A k \in 0..n : k \in T
<1> DEFINE Below(k) == 0..(k - 1)
           Missed == {Below(k) : k \in {m \in 0..n : m \notin T}}
           R == StrictSubsetOrdering(Nat)
<1> SUFFICES ASSUME Missed # {} PROVE FALSE
  OBVIOUS
<1>1. Missed \subseteq FiniteSubsetsOf(Nat)
  <2> SUFFICES ASSUME NEW k \in 0..n PROVE Below(k) \in FiniteSubsetsOf(Nat)
    OBVIOUS
  <2> QED BY FS_Interval DEF FiniteSubsetsOf
<1>2. PICK x \in Missed : \A y \in Missed : ~(<<y, x>> \in R)
  <2>1. IsWellFoundedOn(R, FiniteSubsetsOf(Nat))
    BY FS_StrictSubsetOrderingWellFounded
  <2> HIDE DEF R, Missed
  <2> QED BY <1>1, <2>1, WFMin
<1>3. PICK k \in 0..n : k \notin T /\ x = Below(k)
  OBVIOUS
<1>4. k \in 1..n /\ k - 1 \in 0..n /\ k - 1 \notin T
  BY <1>3
<1>5. Below(k - 1) \in Missed
  BY <1>4
<1>6. /\ Below(k - 1) \in SUBSET Nat /\ Below(k) \in SUBSET Nat
      /\ Below(k - 1) \subseteq Below(k)
      /\ k - 1 \in Below(k) /\ k - 1 \notin Below(k - 1)
  BY <1>4
<1>7. <<Below(k - 1), Below(k)>> \in R
  BY <1>6 DEF StrictSubsetOrdering
<1> QED BY <1>2, <1>3, <1>5, <1>7

\* f is the recursive function by which FlattenSeq concatenates the first k
\* of the sequences ss.
Concatenates(f, ss, k) ==
  f = [i \in 1..k |-> IF i = 1 THEN ss[i] ELSE f[i-1] \o ss[i]]

\* The recursion by which FlattenSeq concatenates has a function satisfying
\* it, whatever the number of parts.
LEMMA ConcatenationExists ==
  ASSUME NEW ss, NEW n \in Nat
  PROVE  \E f : Concatenates(f, ss, n)
<1> DEFINE T == {k \in 0..n : \E f : Concatenates(f, ss, k)}
<1>1. 0 \in T
  <2> DEFINE f == [i \in {} |-> i]
  <2>1. Concatenates(f, ss, 0)
    BY 1..0 = {} DEF Concatenates
  <2> QED BY <2>1
<1>2. ASSUME NEW k \in 1..n, k - 1 \in T PROVE k \in T
  <2>1. PICK f : Concatenates(f, ss, k - 1)
    BY <1>2
  <2> DEFINE newest == IF k = 1 THEN ss[k] ELSE f[k-1] \o ss[k]
             g == [i \in 1..k |-> IF i = k THEN newest ELSE f[i]]
  <2>2. ASSUME NEW i \in 1..k
        PROVE  g[i] = IF i = 1 THEN ss[i] ELSE g[i-1] \o ss[i]
    <3>1. i # 1 => g[i-1] = f[i-1]
      OBVIOUS
    <3>2. i # k => f[i] = IF i = 1 THEN ss[i] ELSE f[i-1] \o ss[i]
      <4>1. i # k => i \in 1..(k - 1)
        OBVIOUS
      <4> QED BY <2>1, <4>1 DEF Concatenates
    <3>3. g[i] = IF i = k THEN newest ELSE f[i]
      OBVIOUS
    <3> HIDE DEF g
    <3> QED BY <3>1, <3>2, <3>3
  <2>3. Concatenates(g, ss, k)
    <3>1. g = [i \in 1..k |-> g[i]]
      OBVIOUS
    <3> HIDE DEF g
    <3> QED BY <2>2, <3>1, Zenon DEF Concatenates
  <2> QED BY <2>3
<1> HIDE DEF T
<1>3. n \in T
  BY <1>1, <1>2, Upwards
<1> QED BY <1>3 DEF T

\* FlattenSeq is the last value of that function.
LEMMA FlattenIs ==
  ASSUME NEW ss, Len(ss) \in Nat \ {0}
  PROVE  \E f : Concatenates(f, ss, Len(ss)) /\ FlattenSeq(ss) = f[Len(ss)]
<1> DEFINE flatten[i \in 1..Len(ss)] ==
      IF i = 1 THEN ss[i] ELSE flatten[i-1] \o ss[i]
<1>1. \E f : f = [i \in 1..Len(ss) |->
                    IF i = 1 THEN ss[i] ELSE f[i-1] \o ss[i]]
  BY ConcatenationExists DEF Concatenates
<1>2. flatten = CHOOSE f : f = [i \in 1..Len(ss) |->
                    IF i = 1 THEN ss[i] ELSE f[i-1] \o ss[i]]
  BY DEF flatten
<1>3. Concatenates(flatten, ss, Len(ss))
  <2> HIDE DEF flatten
  <2> QED BY <1>1, <1>2 DEF Concatenates
<1>4. FlattenSeq(ss) = flatten[Len(ss)]
  BY DEF FlattenSeq
<1> HIDE DEF flatten
<1> QED BY <1>3, <1>4


\* u stands in t behind the first m elements, and at the start of t.
Behind(t, m, u) == \A j \in 1..Len(u) : t[m + j] = u[j]
StartsWith(t, u) == Len(u) <= Len(t) /\ \A i \in 1..Len(u) : t[i] = u[i]

\* e[k] is the length of the first k of the sequences ss, and t has the k-th
\* of them behind these.
Ends(ss, t, e) ==
  /\ e \in [0..Len(ss) -> Nat]
  /\ e[0] = 0 /\ e[Len(ss)] = Len(t)
  /\ \A k \in 1..Len(ss) : /\ e[k] = e[k-1] + Len(ss[k])
                           /\ Behind(t, e[k-1], ss[k])

\* Two sequences joined: the length, and where the elements of each stand.
LEMMA JoinedParts ==
  ASSUME NEW S, NEW a \in Seq(S), NEW b \in Seq(S)
  PROVE  /\ a \o b \in Seq(S)
         /\ Len(a) \in Nat /\ Len(b) \in Nat /\ Len(a \o b) = Len(a) + Len(b)
         /\ StartsWith(a \o b, a) /\ Behind(a \o b, Len(a), b)
<1>1. Len(a) \in Nat /\ Len(b) \in Nat
  OBVIOUS
<1>2. a \o b \in Seq(S) /\ Len(a \o b) = Len(a) + Len(b)
  BY ConcatProperties
<1>3. \A i \in 1..(Len(a) + Len(b)) :
        (a \o b)[i] = IF i <= Len(a) THEN a[i] ELSE b[i - Len(a)]
  BY ConcatProperties
<1>4. ASSUME NEW i \in 1..Len(a) PROVE (a \o b)[i] = a[i]
  <2>1. i \in 1..(Len(a) + Len(b)) /\ i <= Len(a)
    BY <1>1
  <2> QED BY <1>3, <2>1
<1>5. ASSUME NEW j \in 1..Len(b) PROVE (a \o b)[Len(a) + j] = b[j]
  <2> DEFINE i == Len(a) + j
  <2>1. i \in 1..(Len(a) + Len(b)) /\ ~(i <= Len(a)) /\ i - Len(a) = j
    BY <1>1
  <2> HIDE DEF i
  <2>2. (a \o b)[i] = b[i - Len(a)]
    BY <1>3, <2>1
  <2> QED BY <2>1, <2>2 DEF i
<1>6. Len(a) <= Len(a) + Len(b)
  BY <1>1
<1> QED BY <1>1, <1>2, <1>4, <1>5, <1>6 DEF StartsWith, Behind

\* What a sequence starts with it starts with when it is extended.
LEMMA StartKept ==
  ASSUME NEW S, NEW a \in Seq(S), NEW b \in Seq(S),
         NEW c \in Seq(S), StartsWith(a, c)
  PROVE  StartsWith(a \o b, c)
<1>1. /\ Len(a) \in Nat /\ Len(c) \in Nat /\ Len(c) <= Len(a)
      /\ Len(a) <= Len(a \o b) /\ Len(a \o b) \in Nat
  BY JoinedParts DEF StartsWith
<1>2. ASSUME NEW i \in 1..Len(c) PROVE (a \o b)[i] = c[i]
  <2>1. i \in 1..Len(a)
    BY <1>1
  <2> QED BY <2>1, JoinedParts DEF StartsWith
<1>3. Len(c) <= Len(a \o b)
  BY <1>1
<1> QED BY <1>2, <1>3 DEF StartsWith

\* A sequence has behind m what another one has there that it starts with.
LEMMA BehindKept ==
  ASSUME NEW S, NEW t, NEW c, NEW u \in Seq(S), NEW m \in Nat,
         Len(c) = m + Len(u), StartsWith(t, c), Behind(c, m, u)
  PROVE  Behind(t, m, u)
<1> SUFFICES ASSUME NEW j \in 1..Len(u) PROVE t[m + j] = u[j]
  BY DEF Behind
<1> DEFINE i == m + j
<1>1. i \in 1..Len(c)
  BY Len(u) \in Nat
<1>2. c[i] = u[j]
  BY DEF Behind
<1> HIDE DEF i
<1>3. t[i] = u[j]
  BY <1>1, <1>2 DEF StartsWith
<1> QED BY <1>3 DEF i

\* A concatenation has its parts one behind the other, in order: there are
\* places e at which they end.
LEMMA FlattenEnds ==
  ASSUME NEW S, NEW ss, NEW n \in Nat, n = Len(ss),
         \A k \in 1..n : ss[k] \in Seq(S)
  PROVE  \E e : Ends(ss, FlattenSeq(ss), e)
<1>1. CASE n = 0
  <2> DEFINE e == [k \in 0..0 |-> 0]
  <2>1. FlattenSeq(ss) = ss
    BY <1>1 DEF FlattenSeq
  <2>2. e \in [0..n -> Nat] /\ e[0] = 0 /\ e[n] = 0
    BY <1>1
  <2> HIDE DEF e
  <2>3. Ends(ss, FlattenSeq(ss), e)
    BY <1>1, <2>1, <2>2 DEF Ends
  <2> QED BY <2>3
<1>2. CASE n # 0
  <2>1. PICK f : Concatenates(f, ss, n) /\ FlattenSeq(ss) = f[n]
    BY <1>2, FlattenIs
  <2>2. \A k \in 1..n : f[k] = IF k = 1 THEN ss[k] ELSE f[k-1] \o ss[k]
    BY <2>1 DEF Concatenates
  <2>3. \A k \in 1..n : f[k] \in Seq(S)
    <3> DEFINE T == {k \in 0..n : k = 0 \/ f[k] \in Seq(S)}
    <3>1. ASSUME NEW k \in 1..n, k - 1 \in T PROVE k \in T
      <4>1. CASE k = 1
        <5>1. f[k] \in Seq(S)
          BY <2>2, <4>1
        <5> QED BY <5>1
      <4>2. CASE k # 1
        <5>1. f[k-1] \in Seq(S)
          BY <3>1, <4>2
        <5>2. f[k-1] \o ss[k] \in Seq(S)
          BY <5>1, JoinedParts
        <5>3. f[k] \in Seq(S)
          BY <2>2, <4>2, <5>2
        <5> QED BY <5>3
      <4> QED BY <4>1, <4>2
    <3>2. 0 \in T
      OBVIOUS
    <3> HIDE DEF T
    <3>3. \A k \in 0..n : k \in T
      BY <3>1, <3>2, Upwards
    <3> QED BY <3>3 DEF T
  <2> DEFINE e == [k \in 0..n |-> IF k = 0 THEN 0 ELSE Len(f[k])]
  <2>4. e \in [0..n -> Nat] /\ e[0] = 0 /\ e[n] = Len(f[n])
        /\ \A k \in 1..n : e[k] = Len(f[k])
    BY <1>2, <2>3
  <2> HIDE DEF e
  <2>5. ASSUME NEW k \in 1..n
        PROVE  e[k] = e[k-1] + Len(ss[k]) /\ Behind(f[k], e[k-1], ss[k])
    <3>1. CASE k = 1
      <4>1. ss[1] \in Seq(S) /\ f[1] = ss[1] /\ e[0] = 0 /\ e[1] = Len(ss[1])
        BY <2>2, <2>4, <3>1
      <4>2. Behind(ss[1], 0, ss[1])
        BY DEF Behind
      <4>3. Len(ss[1]) = 0 + Len(ss[1])
        BY <4>1
      <4> QED BY <3>1, <4>1, <4>2, <4>3
    <3>2. CASE k # 1
      <4>1. k - 1 \in 1..n
        BY <3>2
      <4>2. f[k-1] \in Seq(S) /\ f[k] = f[k-1] \o ss[k]
            /\ e[k-1] = Len(f[k-1]) /\ e[k] = Len(f[k])
        BY <2>2, <2>3, <2>4, <3>2, <4>1
      <4>3. /\ Len(f[k-1] \o ss[k]) = Len(f[k-1]) + Len(ss[k])
            /\ Behind(f[k-1] \o ss[k], Len(f[k-1]), ss[k])
        BY <4>2, JoinedParts
      <4> QED BY <4>2, <4>3
    <3> QED BY <3>1, <3>2
  <2>6. ASSUME NEW k \in 1..n PROVE StartsWith(f[n], f[k])
    <3> DEFINE T == {m \in 0..n : k <= m => StartsWith(f[m], f[k])}
    <3>1. ASSUME NEW m \in 1..n, m - 1 \in T PROVE m \in T
      <4>1. CASE m < k
        BY <4>1
      <4>2. CASE m = k
        <5>1. StartsWith(f[k], f[k])
          <6>1. Len(f[k]) \in Nat
            BY <2>3
          <6> QED BY <6>1 DEF StartsWith
        <5> QED BY <4>2, <5>1
      <4>3. CASE k < m
        <5>1. m # 1 /\ m - 1 \in 1..n /\ k <= m - 1
          BY <4>3
        <5>2. /\ f[m-1] \in Seq(S) /\ f[k] \in Seq(S) /\ ss[m] \in Seq(S)
              /\ f[m] = f[m-1] \o ss[m] /\ StartsWith(f[m-1], f[k])
          BY <2>2, <2>3, <3>1, <5>1
        <5>3. StartsWith(f[m-1] \o ss[m], f[k])
          BY <5>2, StartKept
        <5>4. StartsWith(f[m], f[k])
          BY <5>2, <5>3
        <5> QED BY <5>4
      <4> QED BY <4>1, <4>2, <4>3
    <3>2. 0 \in T
      OBVIOUS
    <3> HIDE DEF T
    <3>3. \A m \in 0..n : m \in T
      BY <3>1, <3>2, Upwards
    <3>4. n \in T
      BY <3>3
    <3> QED BY <3>4 DEF T
  <2>7. ASSUME NEW k \in 1..n PROVE Behind(f[n], e[k-1], ss[k])
    <3>1. k - 1 \in 0..n
      OBVIOUS
    <3>2. e[k-1] \in Nat /\ ss[k] \in Seq(S) /\ Len(f[k]) = e[k-1] + Len(ss[k])
      BY <2>4, <2>5, <3>1
    <3>3. StartsWith(f[n], f[k]) /\ Behind(f[k], e[k-1], ss[k])
      BY <2>5, <2>6
    <3> QED BY <3>2, <3>3, BehindKept
  <2>8. Ends(ss, f[n], e)
    BY <2>4, <2>5, <2>7 DEF Ends
  <2> QED BY <2>1, <2>8
<1> QED BY <1>1, <1>2
-----------------------------------------------------------------------------
(***************************************************************************)
(* A statement as tokens: an optional label, the operation, its operands.  *)
(***************************************************************************)
TokenType == [kind : {"word", "dir", "reg", "lit", "bad"},
              word : Words \cup {NoWord}, val : Int, off : Int,
              eol : {"no", "tight", "loose"}]

\* Where the operation stands, and how many operands follow it.
OpAt(s) == IF s.label = NoWord THEN 1 ELSE 2
OperandCount(s) ==
  RegCount(s.op) + (IF TakesValue(s.op) THEN 1 ELSE 0)

\* The fields of a token Tk makes.
LEMMA TkFields ==
  ASSUME NEW kind \in {"word", "dir", "reg", "lit"},
         NEW word \in Words \cup {NoWord}, NEW val \in Int
  PROVE  /\ Tk(kind, word, val) \in TokenType
         /\ Tk(kind, word, val).kind = kind /\ Tk(kind, word, val).word = word
         /\ Tk(kind, word, val).off = -1
  BY DEF Tk, TokenType

\* A function on 1..n is a sequence of its values.
LEMMA IsSequence ==
  ASSUME NEW S, NEW n \in Nat, NEW f, f = [i \in 1..n |-> f[i]],
         \A i \in 1..n : f[i] \in S
  PROVE  f \in Seq(S) /\ Len(f) = n
  OBVIOUS

\* The tokens b of a statement as a line of the source.
LineOf(b, bad) ==
  Closed(IF bad THEN [b EXCEPT ![Len(b)].kind = "bad"] ELSE b, "tight")

\* t is the line b, its last token no operand if bad.
Marks(t, b, bad) ==
  /\ t \in Seq(TokenType) /\ Len(t) = Len(b)
  /\ \A i \in 1..Len(b) :
       /\ t[i].kind = IF bad /\ i = Len(b) THEN "bad" ELSE b[i].kind
       /\ t[i].word = b[i].word /\ t[i].off = b[i].off
  /\ t[Len(b)].eol = "tight"

\* Only the kind and the end of line of the last token are touched.
LEMMA MarkedTokens ==
  ASSUME NEW b \in Seq(TokenType), b # << >>, NEW bad \in BOOLEAN, NEW t,
         t = LineOf(b, bad)
  PROVE  Marks(t, b, bad)
<1> DEFINE n == Len(b)
           c == IF bad THEN [b EXCEPT ![n].kind = "bad"] ELSE b
<1>1. n \in Nat \ {0} /\ b = [i \in 1..n |-> b[i]]
      /\ \A i \in 1..n : b[i] \in TokenType
  OBVIOUS
<1> HIDE DEF n
<1>2. c = [i \in 1..n |-> IF i = n /\ bad THEN [b[i] EXCEPT !.kind = "bad"]
                                          ELSE b[i]]
  BY <1>1
<1>3. Len(c) = n
  BY <1>1, <1>2
<1>4. t = [c EXCEPT ![n].eol = "tight"]
  BY <1>3, Zenon DEF LineOf, Closed, n
<1> HIDE DEF c
<1>5. t = [i \in 1..n |-> IF i = n THEN [c[i] EXCEPT !.eol = "tight"] ELSE c[i]]
  BY <1>2, <1>4
<1>6. ASSUME NEW i \in 1..n
      PROVE  /\ t[i] \in TokenType
             /\ t[i].kind = IF bad /\ i = n THEN "bad" ELSE b[i].kind
             /\ t[i].word = b[i].word /\ t[i].off = b[i].off
             /\ i = n => t[i].eol = "tight"
  <2>1. b[i] \in TokenType
    BY <1>1
  <2>2. c[i] = IF i = n /\ bad THEN [b[i] EXCEPT !.kind = "bad"] ELSE b[i]
    BY <1>2
  <2>3. c[i] \in TokenType /\ c[i].word = b[i].word /\ c[i].off = b[i].off
        /\ c[i].kind = IF bad /\ i = n THEN "bad" ELSE b[i].kind
    BY <2>1, <2>2 DEF TokenType
  <2>4. t[i] = IF i = n THEN [c[i] EXCEPT !.eol = "tight"] ELSE c[i]
    BY <1>5
  <2> QED BY <2>1, <2>3, <2>4 DEF TokenType
<1>7. t \in Seq(TokenType) /\ Len(t) = n
  <2>1. t = [i \in 1..n |-> t[i]]
    BY <1>5
  <2>2. \A i \in 1..n : t[i] \in TokenType
    BY <1>6
  <2>3. n \in Nat
    BY <1>1
  <2> QED BY ONLY <2>1, <2>2, <2>3, IsSequence
<1>8. t[n].eol = "tight"
  <2>1. n \in 1..n
    BY <1>1
  <2> QED BY <1>6, <2>1
<1>9. \A i \in 1..n :
        /\ t[i].kind = IF bad /\ i = n THEN "bad" ELSE b[i].kind
        /\ t[i].word = b[i].word /\ t[i].off = b[i].off
  BY <1>6
<1> QED BY ONLY <1>7, <1>8, <1>9 DEF n, Marks

\* The parts of a statement, as Tokens puts them together.
LabelPart(s) == IF s.label = NoWord THEN << >> ELSE <<Tk("word", s.label, 0)>>
OpPart(s) ==
  <<Tk(IF s.op \in StoreDirectives THEN "dir" ELSE "word", s.op, 0)>>
RegPart(s) == [i \in DOMAIN s.regs |-> Tk("reg", NoWord, s.regs[i])]
ImmPart(s) == IF s.imm < 0 THEN << >> ELSE <<Tk("lit", NoWord, s.imm)>>
RefPart(s) == IF s.ref = NoWord THEN << >> ELSE <<Tk("word", s.ref, 0)>>
Operands(s) == IF s.op \in OffsetOps THEN [RegPart(s) EXCEPT ![2].off = s.imm]
                                     ELSE (RegPart(s) \o ImmPart(s)) \o RefPart(s)

\* In front of the operands stand a label or none, and the mnemonic.
LEMMA FrontParts ==
  ASSUME NEW s \in Statement
  PROVE  /\ LabelPart(s) \in Seq(TokenType)
         /\ s.label = NoWord => Len(LabelPart(s)) = 0
         /\ s.label # NoWord => /\ Len(LabelPart(s)) = 1
                                /\ LabelPart(s)[1].kind = "word"
                                /\ LabelPart(s)[1].word = s.label
         /\ OpPart(s) \in Seq(TokenType) /\ Len(OpPart(s)) = 1
         /\ OpPart(s)[1].kind = IF s.op \in StoreDirectives THEN "dir" ELSE "word"
         /\ OpPart(s)[1].word = s.op
<1>1. s.label \in Words \cup {NoWord} /\ s.op \in Words \cup {NoWord} /\ 0 \in Int
  BY DEF Statement
<1> DEFINE l == Tk("word", s.label, 0)
           o == Tk(IF s.op \in StoreDirectives THEN "dir" ELSE "word", s.op, 0)
<1>2. l \in TokenType /\ l.kind = "word" /\ l.word = s.label
  BY <1>1, TkFields
<1>3. o \in TokenType /\ o.word = s.op
      /\ o.kind = IF s.op \in StoreDirectives THEN "dir" ELSE "word"
  BY <1>1, TkFields
<1>4. LabelPart(s) = (IF s.label = NoWord THEN << >> ELSE <<l>>) /\ OpPart(s) = <<o>>
  BY DEF LabelPart, OpPart
<1> HIDE DEF l, o
<1> QED BY <1>2, <1>3, <1>4

\* The operands a statement may have: its registers, a literal, a word.
LEMMA OperandParts ==
  ASSUME NEW s \in Statement
  PROVE  /\ RegPart(s) \in Seq(TokenType) /\ Len(RegPart(s)) = Len(s.regs)
         /\ Len(s.regs) \in Nat
         /\ \A i \in 1..Len(s.regs) : RegPart(s)[i].kind = "reg" /\ RegPart(s)[i].off = -1
         /\ ImmPart(s) \in Seq(TokenType)
         /\ s.imm < 0 => Len(ImmPart(s)) = 0
         /\ ~(s.imm < 0) => /\ Len(ImmPart(s)) = 1
                            /\ ImmPart(s)[1].kind = "lit" /\ ImmPart(s)[1].off = -1
         /\ RefPart(s) \in Seq(TokenType)
         /\ s.ref = NoWord => Len(RefPart(s)) = 0
         /\ s.ref # NoWord => /\ Len(RefPart(s)) = 1
                              /\ RefPart(s)[1].kind = "word" /\ RefPart(s)[1].off = -1
                              /\ RefPart(s)[1].word = s.ref
<1>1. /\ s.ref \in Words \cup {NoWord} /\ NoWord \in Words \cup {NoWord}
      /\ 0 \in Int /\ s.imm \in Int
  BY DEF Statement
<1>2. Len(s.regs) \in Nat /\ DOMAIN s.regs = 1..Len(s.regs)
      /\ \A i \in 1..Len(s.regs) : s.regs[i] \in Int
  <2> DEFINE Numbers == 0..31
  <2>1. s.regs \in Seq(Numbers) /\ \A x \in Numbers : x \in Int
    BY DEF Statement
  <2> HIDE DEF Numbers
  <2>2. \A i \in 1..Len(s.regs) : s.regs[i] \in Numbers
    BY <2>1, ElementOfSeq
  <2> QED BY ONLY <2>1, <2>2, LenProperties
<1> DEFINE r(i) == Tk("reg", NoWord, s.regs[i])
           m == Tk("lit", NoWord, s.imm)
           w == Tk("word", s.ref, 0)
<1>3. \A i \in 1..Len(s.regs) : r(i) \in TokenType /\ r(i).kind = "reg" /\ r(i).off = -1
  BY ONLY <1>1, <1>2 DEF Tk, TokenType
<1>4. m \in TokenType /\ m.kind = "lit" /\ m.off = -1
  BY ONLY <1>1 DEF Tk, TokenType
<1>5. w \in TokenType /\ w.kind = "word" /\ w.off = -1 /\ w.word = s.ref
  BY ONLY <1>1, TkFields
<1>6. /\ RegPart(s) = [i \in 1..Len(s.regs) |-> r(i)]
      /\ ImmPart(s) = (IF s.imm < 0 THEN << >> ELSE <<m>>)
      /\ RefPart(s) = (IF s.ref = NoWord THEN << >> ELSE <<w>>)
  BY <1>2 DEF RegPart, ImmPart, RefPart
<1> HIDE DEF r, m, w
<1>7. RegPart(s) \in Seq(TokenType) /\ Len(RegPart(s)) = Len(s.regs)
  BY <1>2, <1>3, <1>6, IsSequence
<1>8. \A i \in 1..Len(s.regs) : RegPart(s)[i].kind = "reg" /\ RegPart(s)[i].off = -1
  BY <1>3, <1>6
<1>9. /\ ImmPart(s) \in Seq(TokenType)
      /\ s.imm < 0 => Len(ImmPart(s)) = 0
      /\ ~(s.imm < 0) => /\ Len(ImmPart(s)) = 1
                         /\ ImmPart(s)[1].kind = "lit" /\ ImmPart(s)[1].off = -1
  BY ONLY <1>4, <1>6
<1>10. /\ RefPart(s) \in Seq(TokenType)
       /\ s.ref = NoWord => Len(RefPart(s)) = 0
       /\ s.ref # NoWord => /\ Len(RefPart(s)) = 1
                            /\ RefPart(s)[1].kind = "word" /\ RefPart(s)[1].off = -1
                            /\ RefPart(s)[1].word = s.ref
  BY ONLY <1>5, <1>6
<1> QED BY ONLY <1>2, <1>7, <1>8, <1>9, <1>10

\* The operand at j of a complete statement that the parser has a case for:
\* registers first, then a literal or a label.
OperandFits(s, j, x) ==
  /\ j <= RegCount(s.op) => x.kind = "reg" /\ (s.op \notin OffsetOps => x.off = -1)
  /\ ~(j <= RegCount(s.op)) =>
       x.kind = "lit" \/ (x.kind = "word" /\ x.word \notin InstrCodes)

\* A mnemonic is in one group, and none of them is a directive.
LEMMA GroupsApart ==
  /\ RegOps \cap (RegRegOps \cup OffsetOps \cup RegRegImmOps \cup RegRegRegOps) = {}
  /\ RegImmOps \cap (RegRegOps \cup OffsetOps \cup RegRegImmOps \cup RegRegRegOps) = {}
  /\ RegOps \cap RegImmOps = {}
  /\ ImmOps \cap (RegOps \cup RegImmOps \cup RegRegOps) = {}
  /\ ImmOps \cap (OffsetOps \cup RegRegImmOps \cup RegRegRegOps) = {}
  /\ RegRegOps \cap (OffsetOps \cup RegRegImmOps \cup RegRegRegOps) = {}
  /\ OffsetOps \cap (RegRegImmOps \cup RegRegRegOps) = {}
  /\ RegRegImmOps \cap RegRegRegOps = {}
<1> USE DEF RegOps, ImmOps, RegImmOps, RegRegOps, OffsetOps, RegRegImmOps,
            ArithImmOps, BranchOps, CompareOps, RegRegRegOps
<1>1. RegOps \cap (RegRegOps \cup OffsetOps \cup RegRegImmOps \cup RegRegRegOps) = {}
  OBVIOUS
<1>2. RegImmOps \cap (RegRegOps \cup OffsetOps \cup RegRegImmOps \cup RegRegRegOps) = {}
  OBVIOUS
<1>3. RegOps \cap RegImmOps = {} /\ ImmOps \cap (RegOps \cup RegImmOps \cup RegRegOps) = {}
  OBVIOUS
<1>4. ImmOps \cap (OffsetOps \cup RegRegImmOps \cup RegRegRegOps) = {}
  OBVIOUS
<1>5. RegRegOps \cap (OffsetOps \cup RegRegImmOps \cup RegRegRegOps) = {}
  OBVIOUS
<1>6. OffsetOps \cap (RegRegImmOps \cup RegRegRegOps) = {}
  OBVIOUS
<1>7. RegRegImmOps \cap RegRegRegOps = {}
  OBVIOUS
<1> QED BY ONLY <1>1, <1>2, <1>3, <1>4, <1>5, <1>6, <1>7

\* A directive that stores data is neither a mnemonic nor a section.
LEMMA DirectivesApart ==
  StoreDirectives \cap (InstrCodes \cup SegDirectives) = {}
  BY DEF StoreDirectives, ListDirectives, SegDirectives, InstrCodes, RegOps,
         ImmOps, RegImmOps, RegRegOps, OffsetOps, RegRegImmOps, ArithImmOps,
         BranchOps, CompareOps, RegRegRegOps, BareOps, RejectedOps

\* Mnemonics without a case in parseInstr are in no other group.
LEMMA RejectedApart ==
  RejectedOps \cap (RegOps \cup ImmOps \cup RegImmOps \cup RegRegOps \cup OffsetOps
                    \cup RegRegImmOps \cup RegRegRegOps \cup PseudoOps) = {}
  BY DEF RegOps, ImmOps, RegImmOps, RegRegOps, OffsetOps, RegRegImmOps,
         ArithImmOps, BranchOps, CompareOps, RegRegRegOps, RejectedOps, PseudoOps

\* Mnemonics without a case in parseInstr have no pseudo expansion.
LEMMA InstrGroups ==
  ASSUME NEW op \in InstrCodes
  PROVE  \/ op \in RegOps \cup ImmOps \cup RegImmOps \cup RegRegOps
         \/ op \in OffsetOps \cup RegRegImmOps \cup RegRegRegOps
         \/ op = "syscall"
         \/ op \in RejectedOps
  BY DEF InstrCodes, BareOps

\* How many registers each group takes, from the cases of parseInstr.
LEMMA Counts ==
  ASSUME NEW op
  PROVE  /\ RegCount(op) \in 0..3
         /\ op \in RegOps => RegCount(op) = 1
         /\ op \in RegImmOps => RegCount(op) = 1
         /\ op \in RegRegOps => RegCount(op) = 2
         /\ op \in OffsetOps => RegCount(op) = 2
         /\ op \in RegRegImmOps => RegCount(op) = 2
         /\ op \in RegRegRegOps => RegCount(op) = 3
         /\ op \in ImmOps => RegCount(op) = 0
         /\ op = "syscall" => RegCount(op) = 0
         /\ op \in StoreDirectives => RegCount(op) = 0
<1>1. \/ op = "syscall" \/ op \in StoreDirectives \/ op \in ImmOps
      => op \notin RegOps \cup RegImmOps \cup RegRegOps \cup OffsetOps
                   \cup RegRegImmOps \cup RegRegRegOps
  BY GroupsApart
     DEF StoreDirectives, ListDirectives, RegOps,
         ImmOps, RegImmOps, RegRegOps, OffsetOps, RegRegImmOps, ArithImmOps,
         BranchOps, CompareOps, RegRegRegOps
<1> QED BY <1>1, GroupsApart DEF RegCount

\* Which groups take a literal or a label behind the registers.
LEMMA Values ==
  ASSUME NEW op
  PROVE  /\ op \in RegOps \cup RegRegOps \cup OffsetOps \cup RegRegRegOps
              => ~TakesValue(op)
         /\ op = "syscall" => ~TakesValue(op)
<1>1. (RegOps \cup RegRegOps \cup OffsetOps \cup RegRegRegOps \cup {"syscall"})
        \cap StoreDirectives = {}
  BY DEF StoreDirectives, ListDirectives, RegOps, RegRegOps, OffsetOps,
         RegRegRegOps
<1>2. "syscall" \notin ImmOps \cup RegImmOps \cup RegRegImmOps
  BY DEF ImmOps, RegImmOps, RegRegImmOps, ArithImmOps, BranchOps, CompareOps
<1> QED BY <1>1, <1>2, GroupsApart DEF TakesValue

\* A load or a store: the offset is part of the second register's token.
LEMMA OffsetOperands ==
  ASSUME NEW s \in Statement, Complete(s), s.op \in OffsetOps
  PROVE  /\ Operands(s) \in Seq(TokenType) /\ Len(Operands(s)) = OperandCount(s)
         /\ \A j \in 1..OperandCount(s) : OperandFits(s, j, Operands(s)[j])
<1>1. RegCount(s.op) = 2 /\ ~TakesValue(s.op) /\ s.op \notin RejectedOps
  BY Counts, Values, RejectedApart
<1>2. Len(s.regs) = 2
  BY <1>1 DEF Complete
<1>3. OperandCount(s) = 2
  BY <1>1 DEF OperandCount
<1> DEFINE r == RegPart(s)
           q == [r EXCEPT ![2].off = s.imm]
<1>4. r \in Seq(TokenType) /\ Len(r) = 2 /\ \A i \in 1..2 : r[i].kind = "reg"
  BY <1>2, OperandParts
<1>5. Operands(s) = q
  BY DEF Operands
<1> HIDE DEF r
<1>6. s.imm \in Int
  BY DEF Statement
<1>7. r = [i \in 1..2 |-> r[i]] /\ \A i \in 1..2 : r[i] \in TokenType
  <2>1. \A x \in Seq(TokenType) : x = [i \in 1..Len(x) |-> x[i]]
                               /\ \A i \in 1..Len(x) : x[i] \in TokenType
    OBVIOUS
  <2>2. r = [i \in 1..Len(r) |-> r[i]] /\ \A i \in 1..Len(r) : r[i] \in TokenType
    BY <1>4, <2>1
  <2> QED BY ONLY <1>4, <2>2
<1>8. q = [i \in 1..2 |-> IF i = 2 THEN [r[i] EXCEPT !.off = s.imm] ELSE r[i]]
  BY <1>7
<1>9. ASSUME NEW i \in 1..2 PROVE q[i] \in TokenType /\ q[i].kind = "reg"
  <2>1. q[i] = IF i = 2 THEN [r[i] EXCEPT !.off = s.imm] ELSE r[i]
    BY <1>8
  <2>2. r[i] \in TokenType /\ r[i].kind = "reg"
    BY <1>4, <1>7
  <2> QED BY <1>6, <2>1, <2>2 DEF TokenType
<1>10. q = [i \in 1..2 |-> q[i]]
  BY <1>8
<1> HIDE DEF q
<1>11. q \in Seq(TokenType) /\ Len(q) = 2
  <2>1. \A i \in 1..2 : q[i] \in TokenType
    BY <1>9
  <2> QED BY ONLY <1>10, <2>1, IsSequence, 2 \in Nat
<1>12. \A j \in 1..2 : OperandFits(s, j, q[j])
  BY <1>1, <1>9 DEF OperandFits
<1> QED BY <1>3, <1>5, <1>11, <1>12

\* The operands of the others stand one behind the other.
LEMMA PlainOperands ==
  ASSUME NEW s \in Statement, s.op \notin OffsetOps
  PROVE  /\ Operands(s) \in Seq(TokenType)
         /\ Len(Operands(s)) = Len(s.regs) + Len(ImmPart(s)) + Len(RefPart(s))
         /\ StartsWith(Operands(s), RegPart(s))
         /\ Len(RefPart(s)) = 0 => Behind(Operands(s), Len(s.regs), ImmPart(s))
         /\ Len(ImmPart(s)) = 0 => Behind(Operands(s), Len(s.regs), RefPart(s))
<1> DEFINE r == RegPart(s)
           m == ImmPart(s)
           w == RefPart(s)
<1>1. r \in Seq(TokenType) /\ m \in Seq(TokenType) /\ w \in Seq(TokenType)
      /\ Len(r) = Len(s.regs)
  BY OperandParts
<1>2. Operands(s) = (r \o m) \o w
  BY DEF Operands
<1> HIDE DEF r, m, w
<1>3. /\ r \o m \in Seq(TokenType) /\ Len(r \o m) = Len(r) + Len(m)
      /\ Len(r) \in Nat /\ Len(m) \in Nat
      /\ StartsWith(r \o m, r) /\ Behind(r \o m, Len(r), m)
  BY <1>1, JoinedParts
<1>4. /\ (r \o m) \o w \in Seq(TokenType) /\ Len((r \o m) \o w) = Len(r \o m) + Len(w)
      /\ Len(w) \in Nat
      /\ StartsWith((r \o m) \o w, r \o m) /\ Behind((r \o m) \o w, Len(r \o m), w)
  BY <1>1, <1>3, JoinedParts
<1>5. StartsWith((r \o m) \o w, r)
  BY <1>1, <1>3, StartKept
<1>6. Behind((r \o m) \o w, Len(r), m)
  BY <1>1, <1>3, <1>4, BehindKept
<1>7. Len(m) = 0 => Behind((r \o m) \o w, Len(r), w)
  <2>1. Len(m) = 0 => Len(r \o m) = Len(r)
    BY <1>3
  <2> QED BY <1>4, <2>1
<1>8. Len((r \o m) \o w) = Len(r) + Len(m) + Len(w)
  BY <1>3, <1>4
<1> QED BY <1>1, <1>2, <1>4, <1>5, <1>6, <1>7, <1>8 DEF m, w, r

\* Behind its registers stands at most one value.
LEMMA OperandsAre ==
  ASSUME NEW s \in Statement, Complete(s), s.op \notin RejectedOps
  PROVE  /\ Operands(s) \in Seq(TokenType) /\ Len(Operands(s)) = OperandCount(s)
         /\ \A j \in 1..OperandCount(s) : OperandFits(s, j, Operands(s)[j])
<1> DEFINE o == Operands(s)
           r == RegCount(s.op)
<1>1. CASE s.op \in OffsetOps
  BY <1>1, OffsetOperands
<1>2. CASE s.op \notin OffsetOps
  <2>1. /\ Len(s.regs) = r /\ r \in Nat /\ s.imm \in Int
        /\ s.ref = NoWord \/ s.imm < 0
        /\ s.ref # NoWord => TakesValue(s.op)
        /\ s.imm >= 0 => TakesValue(s.op)
        /\ TakesValue(s.op) => s.ref # NoWord \/ s.imm >= 0
        /\ s.ref \notin InstrCodes
    <3>1. r \in Nat
      BY Counts
    <3>2. s.imm \in Int
      BY DEF Statement
    <3> QED BY ONLY <1>2, <3>1, <3>2, Complete(s), s.op \notin RejectedOps DEF Complete
  <2>2. /\ o \in Seq(TokenType)
        /\ Len(o) = r + Len(ImmPart(s)) + Len(RefPart(s))
        /\ StartsWith(o, RegPart(s))
        /\ Len(RefPart(s)) = 0 => Behind(o, r, ImmPart(s))
        /\ Len(ImmPart(s)) = 0 => Behind(o, r, RefPart(s))
    BY ONLY s \in Statement, <1>2, <2>1, PlainOperands
  <2>3. ASSUME NEW j \in 1..r PROVE o[j].kind = "reg" /\ o[j].off = -1
    <3>1. j \in 1..Len(RegPart(s)) /\ j \in 1..Len(s.regs)
      BY ONLY <2>1, OperandParts, s \in Statement
    <3>2. o[j] = RegPart(s)[j]
      BY ONLY <2>2, <3>1 DEF StartsWith
    <3>3. RegPart(s)[j].kind = "reg" /\ RegPart(s)[j].off = -1
      BY ONLY <3>1, OperandParts, s \in Statement
    <3> QED BY ONLY <3>2, <3>3
  <2>4. CASE ~TakesValue(s.op)
    <3>1. OperandCount(s) = r
      BY <2>1, <2>4 DEF OperandCount
    <3>2. s.ref = NoWord /\ s.imm < 0
      BY ONLY <2>1, <2>4
    <3>3. Len(ImmPart(s)) = 0 /\ Len(RefPart(s)) = 0
      BY ONLY <3>2, OperandParts, s \in Statement
    <3>4. Len(o) = r
      BY ONLY <2>1, <2>2, <3>3
    <3>5. ASSUME NEW j \in 1..r PROVE OperandFits(s, j, o[j])
      BY <2>3 DEF OperandFits
    <3> QED BY ONLY <2>2, <3>1, <3>4, <3>5
  <2>5. CASE TakesValue(s.op)
    <3>1. OperandCount(s) = r + 1
      BY <2>1, <2>5 DEF OperandCount
    <3>2. /\ Len(o) = r + 1
          /\ \/ o[r + 1].kind = "lit"
             \/ o[r + 1].kind = "word" /\ o[r + 1].word \notin InstrCodes
      <4>1. CASE s.ref = NoWord
        <5>1. /\ Len(RefPart(s)) = 0 /\ Len(ImmPart(s)) = 1
              /\ ImmPart(s)[1].kind = "lit"
          <6>1. ~(s.imm < 0)
            BY ONLY <2>1, <2>5, <4>1
          <6> QED BY ONLY <4>1, <6>1, OperandParts, s \in Statement
        <5>2. o[r + 1] = ImmPart(s)[1]
          BY ONLY <2>1, <2>2, <5>1 DEF Behind
        <5>3. Len(o) = r + 1
          BY ONLY <2>1, <2>2, <5>1
        <5> QED BY ONLY <5>1, <5>2, <5>3
      <4>2. CASE s.ref # NoWord
        <5>1. /\ Len(ImmPart(s)) = 0 /\ Len(RefPart(s)) = 1
              /\ RefPart(s)[1].kind = "word" /\ RefPart(s)[1].word = s.ref
          <6>1. s.imm < 0
            BY ONLY <2>1, <4>2
          <6> QED BY ONLY <4>2, <6>1, OperandParts, s \in Statement
        <5>2. o[r + 1] = RefPart(s)[1]
          BY ONLY <2>1, <2>2, <5>1 DEF Behind
        <5>3. Len(o) = r + 1
          BY ONLY <2>1, <2>2, <5>1
        <5> QED BY ONLY <2>1, <5>1, <5>2, <5>3
      <4> QED BY ONLY <4>1, <4>2
    <3>3. ASSUME NEW j \in 1..(r + 1) PROVE OperandFits(s, j, o[j])
      <4>1. CASE j \in 1..r
        BY <2>3, <4>1 DEF OperandFits
      <4>2. CASE j = r + 1
        <5>1. ~(j <= r)
          BY ONLY <2>1, <4>2
        <5> QED BY <3>2, <4>2, <5>1 DEF OperandFits
      <4> QED BY ONLY <2>1, <4>1, <4>2
    <3> QED BY ONLY <2>2, <3>1, <3>2, <3>3
  <2> QED BY ONLY <2>4, <2>5
<1> QED BY ONLY <1>1, <1>2

\* What the parser sees of the tokens t of a statement.
ReadsAs(s, t) ==
  LET n == OpAt(s)
      o == Operands(s)
  IN /\ Len(t) = n + Len(o)
     /\ n = 2 => t[1].kind = "word" /\ t[1].word = s.label
     /\ t[n].kind = IF s.op \in StoreDirectives THEN "dir" ELSE "word"
     /\ t[n].word = s.op
     /\ \A j \in 1..Len(o) :
          /\ t[n + j].kind = IF s.bad /\ j = Len(o) THEN "bad" ELSE o[j].kind
          /\ t[n + j].word = o[j].word /\ t[n + j].off = o[j].off
     /\ t[Len(t)].eol = "tight"

\* The operands of a complete statement are tokens, and a wrong statement
\* has an operand to be wrong.
LEMMA OperandsType ==
  ASSUME NEW s \in Statement, Complete(s)
  PROVE  /\ Operands(s) \in Seq(TokenType)
         /\ s.bad => Len(Operands(s)) # 0
<1>1. CASE s.op \in OffsetOps
  <2>1. Operands(s) \in Seq(TokenType) /\ Len(Operands(s)) = OperandCount(s)
    BY <1>1, OffsetOperands
  <2>2. OperandCount(s) = 2
    BY <1>1, Counts, Values DEF OperandCount
  <2> QED BY <2>1, <2>2
<1>2. CASE s.op \notin OffsetOps
  <2>1. /\ Operands(s) \in Seq(TokenType)
        /\ Len(Operands(s)) = Len(s.regs) + Len(ImmPart(s)) + Len(RefPart(s))
    BY <1>2, PlainOperands
  <2>2. /\ Len(s.regs) \in Nat /\ Len(ImmPart(s)) \in Nat /\ Len(RefPart(s)) \in Nat
        /\ ~(s.imm < 0) => Len(ImmPart(s)) = 1
        /\ s.ref # NoWord => Len(RefPart(s)) = 1
    <3>1. \A q \in Seq(TokenType) : Len(q) \in Nat
      OBVIOUS
    <3> QED BY ONLY <3>1, OperandParts, s \in Statement
  <2>3. s.bad => s.regs # << >> \/ s.imm >= 0 \/ s.ref # NoWord
    BY Zenon DEF Complete
  <2>4. s.regs # << >> => Len(s.regs) # 0
    <3> DEFINE Numbers == 0..31
    <3>1. s.regs \in Seq(Numbers)
      BY DEF Statement
    <3> HIDE DEF Numbers
    <3> QED BY ONLY <3>1, EmptySeq
  <2>5. s.imm \in Int
    BY DEF Statement
  <2>6. s.bad => Len(s.regs) # 0 \/ Len(ImmPart(s)) = 1 \/ Len(RefPart(s)) = 1
    BY ONLY <2>2, <2>3, <2>4, <2>5
  <2>7. Len(Operands(s)) = Len(s.regs) + Len(ImmPart(s)) + Len(RefPart(s))
    BY ONLY <2>1
  <2>8. Len(s.regs) \in Nat /\ Len(ImmPart(s)) \in Nat /\ Len(RefPart(s)) \in Nat
    BY ONLY <2>2
  <2>9. \A l, a, b, c \in Nat : l = a + b + c /\ (a # 0 \/ b = 1 \/ c = 1) => l # 0
    OBVIOUS
  <2>10. s.bad => Len(Operands(s)) # 0
    <3>1. Len(Operands(s)) \in Nat
      BY ONLY <2>1, <2>7, <2>8
    <3> QED BY ONLY <2>6, <2>7, <2>8, <2>9, <3>1, Zenon
  <2> QED BY ONLY <2>1, <2>10
<1> QED BY ONLY <1>1, <1>2

Join(a, b) == a \o b

\* Tokens, in terms of the parts named above.
LEMMA TokensAre ==
  ASSUME NEW s
  PROVE  LET front == Join(LabelPart(s), OpPart(s))
         IN Tokens(s) = LineOf(
              IF s.op \in OffsetOps
              THEN Join(front, [RegPart(s) EXCEPT ![2].off = s.imm])
              ELSE Join(Join(Join(front, RegPart(s)), ImmPart(s)), RefPart(s)),
              s.bad)
  BY Zenon DEF Tokens, LineOf, LabelPart, OpPart, RegPart, ImmPart, RefPart, Join

\* The parts joined from the left are the front and the operands joined.
LEMMA Regroup ==
  ASSUME NEW S, NEW a \in Seq(S), NEW r \in Seq(S), NEW m \in Seq(S), NEW w \in Seq(S)
  PROVE  Join(Join(Join(a, r), m), w) = Join(a, Join(Join(r, m), w))
<1>1. PICK p : p = r \o m
  OBVIOUS
<1>2. p \in Seq(S)
  BY <1>1, ConcatProperties
<1>3. (a \o p) \o w = a \o (p \o w)
  BY ONLY a \in Seq(S), w \in Seq(S), <1>2, ConcatAssociative
<1>4. (a \o r) \o m = a \o (r \o m)
  BY ONLY a \in Seq(S), r \in Seq(S), m \in Seq(S), ConcatAssociative
<1> QED BY ONLY <1>1, <1>3, <1>4 DEF Join

\* t is the line of the tokens a and the operands o.
Lines(t, a, o, bad) ==
  /\ t \in Seq(TokenType) /\ Len(t) = Len(a) + Len(o)
  /\ \A i \in 1..Len(a) : t[i].kind = a[i].kind /\ t[i].word = a[i].word
  /\ \A j \in 1..Len(o) :
       /\ t[Len(a) + j].kind = IF bad /\ j = Len(o) THEN "bad" ELSE o[j].kind
       /\ t[Len(a) + j].word = o[j].word /\ t[Len(a) + j].off = o[j].off
  /\ t[Len(t)].eol = "tight"

\* What stands in front of the operands is not touched.
LEMMA LineTokens ==
  ASSUME NEW a \in Seq(TokenType), NEW o \in Seq(TokenType), NEW n \in {1, 2},
         n = Len(a), NEW bad \in BOOLEAN, bad => Len(o) # 0, NEW t, NEW b,
         b = Join(a, o),
         t = LineOf(b, bad)
  PROVE  Lines(t, a, o, bad)
<1>1. b \in Seq(TokenType) /\ Len(b) = n + Len(o) /\ StartsWith(b, a) /\ Behind(b, n, o)
      /\ Len(o) \in Nat
  BY JoinedParts DEF Join
<1>2. b # << >> /\ Len(b) \in Nat \ {0}
  <2>1. b = << >> => Len(b) = 0
    BY ONLY EmptySeq
  <2>2. Len(b) \in Nat \ {0}
    BY <1>1
  <2> QED BY ONLY <2>1, <2>2
<1>3. /\ t \in Seq(TokenType) /\ Len(t) = Len(b)
      /\ \A i \in 1..Len(b) :
           /\ t[i].kind = IF bad /\ i = Len(b) THEN "bad" ELSE b[i].kind
           /\ t[i].word = b[i].word /\ t[i].off = b[i].off
      /\ t[Len(b)].eol = "tight"
  <2>1. Marks(t, b, bad)
    BY <1>1, <1>2, MarkedTokens
  <2> QED BY ONLY <2>1 DEF Marks
<1>4. ASSUME NEW i \in 1..n
      PROVE t[i].kind = a[i].kind /\ t[i].word = a[i].word
  <2>1. i \in 1..Len(b) /\ b[i] = a[i] /\ ~(bad /\ i = Len(b))
    BY <1>1 DEF StartsWith
  <2> QED BY ONLY <1>3, <2>1
<1>5. ASSUME NEW j \in 1..Len(o)
      PROVE  /\ t[n + j].kind = IF bad /\ j = Len(o) THEN "bad" ELSE o[j].kind
             /\ t[n + j].word = o[j].word /\ t[n + j].off = o[j].off
  <2> DEFINE i == n + j
  <2>1. b[i] = o[j]
    BY <1>1 DEF Behind
  <2>2. i \in 1..Len(b) /\ (i = Len(b) <=> j = Len(o))
    BY ONLY <1>1, n \in {1, 2}, j \in 1..Len(o)
  <2> HIDE DEF i
  <2>3. /\ t[i].kind = IF bad /\ j = Len(o) THEN "bad" ELSE o[j].kind
        /\ t[i].word = o[j].word /\ t[i].off = o[j].off
    BY ONLY <1>3, <2>1, <2>2
  <2> QED BY ONLY <2>3 DEF i
<1> QED BY ONLY n = Len(a), <1>1, <1>3, <1>4, <1>5 DEF Lines

\* The mnemonic is the token in front of the operands.
LEMMA FrontTokens ==
  ASSUME NEW s \in Statement, NEW a, a = Join(LabelPart(s), OpPart(s))
  PROVE  /\ a \in Seq(TokenType) /\ Len(a) = OpAt(s) /\ OpAt(s) \in {1, 2}
         /\ OpAt(s) = 2 => a[1].kind = "word" /\ a[1].word = s.label
         /\ a[OpAt(s)].kind = IF s.op \in StoreDirectives THEN "dir" ELSE "word"
         /\ a[OpAt(s)].word = s.op
<1>1. PICK u : u = LabelPart(s)
  OBVIOUS
<1>2. PICK v : v = OpPart(s)
  OBVIOUS
<1>3. /\ u \in Seq(TokenType) /\ v \in Seq(TokenType) /\ Len(v) = 1 /\ a = Join(u, v)
      /\ \/ Len(u) = 0 /\ OpAt(s) = 1
         \/ /\ Len(u) = 1 /\ OpAt(s) = 2
            /\ u[1].kind = "word" /\ u[1].word = s.label
      /\ v[1].kind = IF s.op \in StoreDirectives THEN "dir" ELSE "word"
      /\ v[1].word = s.op
  BY <1>1, <1>2, FrontParts DEF OpAt
<1>4. a \in Seq(TokenType) /\ Len(a) = Len(u) + Len(v)
      /\ StartsWith(a, u) /\ Behind(a, Len(u), v)
  BY <1>3, JoinedParts DEF Join
<1>5. Len(u) = 1 => a[1] = u[1]
  BY <1>4 DEF StartsWith
<1>6. a[Len(u) + 1] = v[1]
  BY <1>3, <1>4 DEF Behind
<1>7. Len(u) \in {0, 1} /\ Len(a) = OpAt(s) /\ OpAt(s) = Len(u) + 1
  <2>1. /\ \/ Len(u) = 0 /\ OpAt(s) = 1
           \/ Len(u) = 1 /\ OpAt(s) = 2
        /\ Len(v) = 1 /\ Len(a) = Len(u) + Len(v)
    BY ONLY <1>3, <1>4
  <2>2. \A l, m, k, n : /\ \/ l = 0 /\ n = 1
                           \/ l = 1 /\ n = 2
                        /\ m = 1 /\ k = l + m
                        => l \in {0, 1} /\ k = n /\ n = l + 1
    OBVIOUS
  <2> QED BY ONLY <2>1, <2>2, Zenon
<1>8. OpAt(s) = 2 => Len(u) = 1 /\ a[1].kind = "word" /\ a[1].word = s.label
  BY ONLY <1>3, <1>5
<1>9. a[OpAt(s)] = v[1]
  BY ONLY <1>6, <1>7
<1> QED BY <1>3, <1>4, <1>7, <1>8, <1>9

\* The tokens of a statement are read as what the statement says.
LEMMA StatementTokens ==
  ASSUME NEW s \in Statement, Complete(s)
  PROVE  Tokens(s) \in Seq(TokenType) /\ ReadsAs(s, Tokens(s))
<1>1. PICK a : a = Join(LabelPart(s), OpPart(s))
  OBVIOUS
<1>2. PICK o : o = Operands(s)
  OBVIOUS
<1>3. PICK b : b = Join(a, o)
  OBVIOUS
<1>4. PICK t : t = Tokens(s)
  OBVIOUS
<1>5. PICK n : n = OpAt(s)
  OBVIOUS
<1>6. /\ a \in Seq(TokenType) /\ Len(a) = n /\ n \in {1, 2}
      /\ n = 2 => a[1].kind = "word" /\ a[1].word = s.label
      /\ a[n].kind = IF s.op \in StoreDirectives THEN "dir" ELSE "word"
      /\ a[n].word = s.op
  BY <1>1, <1>5, FrontTokens
<1>7. o \in Seq(TokenType) /\ (s.bad => Len(o) # 0) /\ s.bad \in BOOLEAN
  BY <1>2, OperandsType DEF Statement
<1>8. t = LineOf(b, s.bad)
  <2>1. CASE s.op \in OffsetOps
    <3>1. o = [RegPart(s) EXCEPT ![2].off = s.imm]
      BY <1>2, <2>1 DEF Operands
    <3>2. b = Join(Join(LabelPart(s), OpPart(s)), [RegPart(s) EXCEPT ![2].off = s.imm])
      BY <1>1, <1>3, <3>1, Zenon
    <3> QED BY <1>4, <2>1, <3>2, TokensAre, Zenon
  <2>2. CASE s.op \notin OffsetOps
    <3>1. PICK r : r = RegPart(s)
      OBVIOUS
    <3>2. PICK m : m = ImmPart(s)
      OBVIOUS
    <3>3. PICK w : w = RefPart(s)
      OBVIOUS
    <3>4. o = Join(Join(r, m), w)
      BY <1>2, <2>2, <3>1, <3>2, <3>3 DEF Operands, Join
    <3>5. r \in Seq(TokenType) /\ m \in Seq(TokenType) /\ w \in Seq(TokenType)
      BY <3>1, <3>2, <3>3, OperandParts
    <3>6. Join(Join(Join(a, r), m), w) = Join(a, Join(Join(r, m), w))
      BY ONLY <1>6, <3>5, Regroup
    <3>7. b = Join(Join(Join(Join(LabelPart(s), OpPart(s)), RegPart(s)), ImmPart(s)), RefPart(s))
      BY ONLY <1>1, <1>3, <3>1, <3>2, <3>3, <3>4, <3>6
    <3> QED BY <1>4, <2>2, <3>7, TokensAre, Zenon
  <2> QED BY <2>1, <2>2
<1>9. /\ t \in Seq(TokenType) /\ Len(t) = n + Len(o)
      /\ \A i \in 1..n : t[i].kind = a[i].kind /\ t[i].word = a[i].word
      /\ \A j \in 1..Len(o) :
           /\ t[n + j].kind = IF s.bad /\ j = Len(o) THEN "bad" ELSE o[j].kind
           /\ t[n + j].word = o[j].word /\ t[n + j].off = o[j].off
      /\ t[Len(t)].eol = "tight"
  <2>1. Lines(t, a, o, s.bad)
    BY <1>3, <1>6, <1>7, <1>8, LineTokens
  <2> QED BY ONLY <1>6, <2>1 DEF Lines
<1>10. n \in 1..n /\ (n = 2 => 1 \in 1..n)
  BY ONLY <1>6
<1>11. /\ n = 2 => t[1].kind = "word" /\ t[1].word = s.label
       /\ t[n].kind = IF s.op \in StoreDirectives THEN "dir" ELSE "word"
       /\ t[n].word = s.op
  BY ONLY <1>6, <1>9, <1>10
<1>12. ReadsAs(s, t)
  BY ONLY <1>2, <1>5, <1>9, <1>11 DEF ReadsAs
<1> QED BY <1>4, <1>9, <1>12

(***************************************************************************)
(* The text records.  Only their error flags matter here.                  *)
(***************************************************************************)
Flagged(S) == \A l \in S : "error" \in DOMAIN l
IsText(t) == \E S : t \in Seq(S) /\ Flagged(S)
Errors(t) == \E i \in DOMAIN t : t[i].error
Blank(l) == "error" \in DOMAIN l /\ l.error = FALSE

\* Records joined have an error exactly if one of the two lists has one.
LEMMA TextGrows ==
  ASSUME NEW t, NEW u, IsText(t), IsText(u)
  PROVE  /\ IsText(t \o u)
         /\ Errors(t) \/ Errors(u) <=> Errors(t \o u)
<1>1. PICK S : t \in Seq(S) /\ Flagged(S)
  BY DEF IsText
<1>2. PICK T : u \in Seq(T) /\ Flagged(T)
  BY DEF IsText
<1> DEFINE U == S \cup T
<1>3. Flagged(U)
  BY <1>1, <1>2 DEF Flagged
<1>4. t \in Seq(U) /\ u \in Seq(U)
  BY <1>1, <1>2
<1> HIDE DEF U
<1>5. /\ t \o u \in Seq(U) /\ Len(t) \in Nat /\ Len(u) \in Nat
      /\ Len(t \o u) = Len(t) + Len(u)
      /\ StartsWith(t \o u, t) /\ Behind(t \o u, Len(t), u)
  BY <1>4, JoinedParts
<1>6. IsText(t \o u)
  BY <1>3, <1>5 DEF IsText
<1> DEFINE v == t \o u
<1>7. DOMAIN t = 1..Len(t) /\ DOMAIN u = 1..Len(u) /\ DOMAIN v = 1..Len(v)
  BY <1>4, <1>5
<1> HIDE DEF v
<1>8. ASSUME NEW i \in 1..Len(t) PROVE i \in 1..Len(v) /\ v[i] = t[i]
  BY <1>5 DEF StartsWith, v
<1>9. ASSUME NEW j \in 1..Len(u) PROVE Len(t) + j \in 1..Len(v) /\ v[Len(t) + j] = u[j]
  BY <1>5 DEF Behind, v
<1>10. ASSUME NEW i \in 1..Len(v), i \notin 1..Len(t)
       PROVE  i - Len(t) \in 1..Len(u) /\ v[i] = u[i - Len(t)]
  <2> DEFINE j == i - Len(t)
  <2>1. j \in 1..Len(u) /\ Len(t) + j = i
    BY <1>5, <1>10 DEF v
  <2> HIDE DEF j
  <2>2. v[Len(t) + j] = u[j]
    BY <1>9, <2>1
  <2> QED BY <2>1, <2>2 DEF j
<1>11. Errors(t) => Errors(v)
  BY <1>7, <1>8 DEF Errors
<1>12. Errors(u) => Errors(v)
  BY <1>7, <1>9 DEF Errors
<1>13. ASSUME NEW i \in 1..Len(v), v[i].error PROVE Errors(t) \/ Errors(u)
  <2>1. CASE i \in 1..Len(t)
    BY <1>7, <1>8, <1>13, <2>1 DEF Errors
  <2>2. CASE i \notin 1..Len(t)
    BY <1>7, <1>10, <1>13, <2>2 DEF Errors
  <2> QED BY <2>1, <2>2
<1>14. Errors(v) => Errors(t) \/ Errors(u)
  BY <1>7, <1>13 DEF Errors
<1> QED BY <1>6, <1>11, <1>12, <1>14 DEF v

\* One record, or two.
LEMMA OneRecord ==
  ASSUME NEW l, "error" \in DOMAIN l
  PROVE  IsText(<<l>>) /\ (Errors(<<l>>) <=> l.error)
<1>1. <<l>> \in Seq({l}) /\ Flagged({l})
  BY DEF Flagged
<1>2. DOMAIN <<l>> = {1} /\ <<l>>[1] = l
  OBVIOUS
<1> QED BY <1>1, <1>2 DEF IsText, Errors

\* Appending a record is joining a list of one.
LEMMA AppendedRecord ==
  ASSUME NEW t, NEW l, IsText(t)
  PROVE  Append(t, l) = t \o <<l>>
<1>1. PICK S : t \in Seq(S)
  BY DEF IsText
<1>2. t \in Seq(S \cup {l}) /\ l \in S \cup {l}
  BY <1>1
<1> QED BY <1>2, AppendIsConcat

\* Lists of one and of two records without an error.
LEMMA BlankRecords ==
  ASSUME NEW l, NEW m, Blank(l), Blank(m)
  PROVE  /\ IsText(<<l>>) /\ ~Errors(<<l>>)
         /\ IsText(<<l, m>>) /\ ~Errors(<<l, m>>)
<1>1. <<l>> \in Seq({l}) /\ Flagged({l}) /\ <<l, m>> \in Seq({l, m}) /\ Flagged({l, m})
  BY DEF Flagged, Blank
<1>2. /\ DOMAIN <<l>> = {1} /\ <<l>>[1] = l
      /\ DOMAIN <<l, m>> = {1, 2} /\ <<l, m>>[1] = l /\ <<l, m>>[2] = m
  OBVIOUS
<1> QED BY <1>1, <1>2 DEF IsText, Errors, Blank

\* No record, no error.
LEMMA Emptied == IsText(<< >>) /\ ~Errors(<< >>)
<1>1. << >> \in Seq({}) /\ Flagged({}) /\ DOMAIN << >> = {}
  BY DEF Flagged
<1> QED BY <1>1 DEF IsText, Errors

(***************************************************************************)
(* expandPsuedo builds its records from blank ones.                        *)
(***************************************************************************)
\* A record copied from another one starts without an error.
LEMMA Copied ==
  ASSUME NEW ti, NEW op, NEW k, NEW args
  PROVE  Blank(L!Copy(ti, op, k, args))
BY DEF L!Copy, L!BlankLine, Blank

\* A label or a symbol given to a record does not touch its error flag.
LEMMA With ==
  ASSUME NEW ti, NEW l, Blank(l)
  PROVE  Blank(L!WithLabel(l, ti)) /\ Blank(L!WithSymbol(l, ti))
BY DEF L!WithLabel, L!WithSymbol, Blank

\* The tables of mnemonics are those of the Lexer.
LEMMA SameTables ==
  /\ L!InstrCodes = InstrCodes /\ L!PseudoOps = PseudoOps
  /\ L!RejectedOps = RejectedOps /\ L!StoreDirectives = StoreDirectives
  /\ L!SegDirectives = SegDirectives
  /\ L!RegOps = RegOps /\ L!ImmOps = ImmOps /\ L!RegImmOps = RegImmOps
  /\ L!RegRegOps = RegRegOps /\ L!OffsetOps = OffsetOps
  /\ L!RegRegImmOps = RegRegImmOps /\ L!RegRegRegOps = RegRegRegOps
  /\ L!CompareOps = CompareOps
<1>1. /\ L!RegOps = RegOps /\ L!ImmOps = ImmOps /\ L!RegImmOps = RegImmOps
      /\ L!RegRegOps = RegRegOps /\ L!OffsetOps = OffsetOps
      /\ L!RegRegRegOps = RegRegRegOps /\ L!CompareOps = CompareOps
      /\ L!BranchOps = BranchOps /\ L!ArithImmOps = ArithImmOps
      /\ L!RejectedOps = RejectedOps /\ L!BareOps = BareOps
      /\ L!SegDirectives = SegDirectives /\ L!ListDirectives = ListDirectives
  BY DEF L!RegOps, RegOps, L!ImmOps, ImmOps, L!RegImmOps, RegImmOps,
         L!RegRegOps, RegRegOps, L!OffsetOps, OffsetOps,
         L!RegRegRegOps, RegRegRegOps, L!CompareOps, CompareOps,
         L!BranchOps, BranchOps, L!ArithImmOps, ArithImmOps,
         L!RejectedOps, RejectedOps, L!BareOps, BareOps,
         L!SegDirectives, SegDirectives, L!ListDirectives, ListDirectives
<1>2. L!RegRegImmOps = RegRegImmOps
  BY <1>1 DEF L!RegRegImmOps, RegRegImmOps
<1>3. L!InstrCodes = InstrCodes
  BY <1>1, <1>2 DEF L!InstrCodes, InstrCodes
<1>4. L!PseudoOps = PseudoOps /\ L!StoreDirectives = StoreDirectives
  BY <1>1 DEF L!PseudoOps, PseudoOps, L!StoreDirectives, StoreDirectives
<1> QED BY <1>1, <1>2, <1>3, <1>4

\* No record expandPsuedo makes has an error: that of the line is lost.
LEMMA ExpandedBlank ==
  ASSUME NEW ti
  PROVE  IsText(L!ExpandPseudo(ti)) /\ ~Errors(L!ExpandPseudo(ti))
<1> DEFINE high == L!LoadPair(ti)[1]
           low == L!LoadPair(ti)[2]
<1>1. Blank(high) /\ Blank(low) /\ L!LoadPair(ti) = <<high, low>>
  <2> DEFINE imm == ti.args[3]
             first == L!Copy(ti, "lui", 0, <<ti.args[1], L!NoArg, L!Half(imm, L!HighHalf(imm.val))>>)
             second == L!Copy(ti, "ori", 1, <<ti.args[1], ti.args[1], L!Half(imm, L!LowHalf(imm.val))>>)
  <2>1. L!LoadPair(ti) = <<[first EXCEPT !.upper = TRUE], [second EXCEPT !.lower = TRUE]>>
    BY DEF L!LoadPair
  <2>2. Blank(first) /\ Blank(second)
    BY Copied
  <2> HIDE DEF first, second
  <2>3. Blank([first EXCEPT !.upper = TRUE]) /\ Blank([second EXCEPT !.lower = TRUE])
    BY <2>2 DEF Blank
  <2> QED BY <2>1, <2>3
<1> HIDE DEF high, low
<1>2. CASE ti.op = "mul"
  <2> DEFINE first == L!Copy(ti, "mult", 0, <<ti.args[2], ti.args[3], L!NoArg>>)
             second == L!Copy(ti, "mflo", 1, <<ti.args[1], L!NoArg, L!NoArg>>)
  <2>1. L!ExpandPseudo(ti) = <<first, second>>
    BY <1>2 DEF L!ExpandPseudo, L!CompareOps
  <2>2. Blank(first) /\ Blank(second)
    BY Copied
  <2> HIDE DEF first, second
  <2> QED BY <2>1, <2>2, BlankRecords
<1>3. CASE ti.op \in L!CompareOps
  <2> DEFINE s == ti.args[1]
             t == ti.args[2]
             set  == IF ti.op = "bgtu" THEN "sltu" ELSE "slt"
             jump == IF ti.op \in {"bge", "ble"} THEN "beq" ELSE "bne"
             operands == IF ti.op \in {"blt", "bge"} THEN <<L!RegAt, s, t>>
                                                     ELSE <<L!RegAt, t, s>>
             first == L!WithLabel(L!Copy(ti, set, 0, operands), ti)
             second == L!WithSymbol(
               L!Copy(ti, jump, 1, <<L!RegAt, L!RegZero, ti.args[3]>>), ti)
  <2>1. L!ExpandPseudo(ti) = <<first, second>>
    BY <1>3 DEF L!ExpandPseudo, L!ExpandCompare, L!CompareOps
  <2>2. Blank(first) /\ Blank(second)
    BY Copied, With
  <2> HIDE DEF first, second
  <2> QED BY <2>1, <2>2, BlankRecords
<1>4. CASE ti.op = "beqz"
  <2> DEFINE line == L!WithSymbol(L!WithLabel(L!Copy(ti, "beq", 0,
                       <<ti.args[1], L!RegZero, ti.args[3]>>), ti), ti)
  <2>1. L!ExpandPseudo(ti) = <<line>>
    BY <1>4 DEF L!ExpandPseudo, L!CompareOps
  <2>2. Blank(line)
    BY Copied, With
  <2> HIDE DEF line
  <2> QED BY <2>1, <2>2, BlankRecords
<1>5. CASE ti.op = "la"
  <2>1. L!ExpandPseudo(ti) = <<L!WithSymbol(high, ti), L!WithSymbol(low, ti)>>
    BY <1>5 DEF L!ExpandPseudo, L!CompareOps, high, low
  <2> QED BY <1>1, <2>1, With, BlankRecords
<1>6. CASE ti.op = "li"
  <2> DEFINE line == L!Copy(ti, "ori", 0, <<ti.args[1], L!RegZero,
                       L!Literal(L!LowHalf(ti.args[3].val))>>)
  <2>1. L!ExpandPseudo(ti) = IF ti.args[3].val > 65535 THEN L!LoadPair(ti) ELSE <<line>>
    BY <1>6 DEF L!ExpandPseudo, L!CompareOps
  <2>2. Blank(line)
    BY Copied
  <2> HIDE DEF line
  <2>3. L!ExpandPseudo(ti) \in {<<high, low>>, <<line>>}
    BY ONLY <1>1, <2>1
  <2> QED BY ONLY <1>1, <2>2, <2>3, BlankRecords
<1>7. CASE ti.op \notin {"mul", "beqz", "la", "li"} \cup L!CompareOps
  <2>1. L!ExpandPseudo(ti) = << >>
    BY <1>7 DEF L!ExpandPseudo
  <2> QED BY <2>1, Emptied
<1> QED BY <1>2, <1>3, <1>4, <1>5, <1>6, <1>7
-----------------------------------------------------------------------------
(***************************************************************************)
(* What the parser reads of a statement.                                   *)
(***************************************************************************)
OperandTok(j) == L!Tok(L!Stmt + j)
Reading(s) ==
  LET o == Operands(s)
  IN /\ L!StmtHead.kind = IF s.op \in StoreDirectives THEN "dir" ELSE "word"
     /\ L!StmtHead.word = s.op /\ L!Stmt \in Nat
     /\ \A j \in 1..Len(o) :
          /\ OperandTok(j).kind = IF s.bad /\ j = Len(o) THEN "bad" ELSE o[j].kind
          /\ OperandTok(j).word = o[j].word /\ OperandTok(j).off = o[j].off
     /\ Len(o) # 0 => OperandTok(Len(o)).eol = "tight"

\* How many tokens an operation takes, and where the operand is that has to
\* be a literal or a label.
LEMMA TokensUsed ==
  ASSUME NEW op \in InstrCodes, op \notin RejectedOps, NEW i \in Nat,
         op \in RegRegImmOps => L!ParseRegister(i + 1).offset = -1
  PROVE  LET ops == L!ParseOperands(op, i)
         IN /\ ops.used = RegCount(op) + (IF TakesValue(op) THEN 1 ELSE 0)
            /\ ops.checked => /\ TakesValue(op)
                              /\ ops.immAt = i + RegCount(op)
<1> DEFINE ops == L!ParseOperands(op, i)
           a == L!ParseRegister(i)
           b == L!ParseRegister(i + 1)
           c == L!ParseRegister(i + 2)
           d == L!ParseImmediate(i)
           e == L!ParseImmediate(i + 1)
           g == L!ParseImmediate(i + 2)
           none == L!NoArg
           x == IF b.offset > 0 THEN L!Literal(b.offset) ELSE none
           y == L!Literal(IF b.offset > -1 THEN b.offset ELSE 0)
           z == L!Literal(b.offset)
           plain(args, used) ==
             [args |-> args, used |-> used, immAt |-> 0, checked |-> FALSE]
<1>1. ops = CASE op \in RegOps       -> plain(<<a, none, none>>, 1)
              [] op \in ImmOps       -> [args |-> <<d, none, none>>,
                                         used |-> 1, immAt |-> i, checked |-> FALSE]
              [] op \in RegRegOps    -> plain(<<a, b, x>>, 2)
              [] op \in RegImmOps    -> [args |-> <<a, none, e>>,
                                  used |-> 2, immAt |-> i + 1, checked |-> TRUE]
              [] op \in OffsetOps    -> plain(<<a, b, y>>, 2)
              [] op \in RegRegImmOps ->
                   IF b.offset > -1
                   THEN plain(<<a, b, z>>, 2)
                   ELSE [args |-> <<a, b, g>>,
                         used |-> 3, immAt |-> i + 2, checked |-> TRUE]
              [] op \in RegRegRegOps -> plain(<<a, b, c>>, 3)
              [] OTHER               -> plain(<<none, none, none>>, 0)
  BY SameTables DEF L!ParseOperands
<1>2. op \in RegRegImmOps => ~(b.offset > -1)
  OBVIOUS
<1> HIDE DEF ops, a, b, c, d, e, g, none, x, y, z
<1>3. CASE op \in RegOps
  <2>1. ops = plain(<<a, none, none>>, 1)
    BY <1>1, <1>3, GroupsApart
  <2> QED BY <1>3, <2>1, Counts, Values DEF ops
<1>4. CASE op \in ImmOps
  <2>1. ops.used = 1 /\ ops.checked = FALSE
    BY <1>1, <1>4, GroupsApart
  <2>2. RegCount(op) = 0 /\ TakesValue(op)
    BY <1>4, Counts DEF TakesValue
  <2> QED BY <2>1, <2>2 DEF ops
<1>5. CASE op \in RegRegOps
  <2>1. ops = plain(<<a, b, x>>, 2)
    BY <1>1, <1>5, GroupsApart
  <2> QED BY <1>5, <2>1, Counts, Values DEF ops
<1>6. CASE op \in RegImmOps
  <2>1. ops.used = 2 /\ ops.immAt = i + 1
    BY <1>1, <1>6, GroupsApart
  <2>2. RegCount(op) = 1 /\ TakesValue(op)
    BY <1>6, Counts DEF TakesValue
  <2> QED BY <2>1, <2>2 DEF ops
<1>7. CASE op \in OffsetOps
  <2>1. ops = plain(<<a, b, y>>, 2)
    BY <1>1, <1>7, GroupsApart
  <2> QED BY <1>7, <2>1, Counts, Values DEF ops
<1>8. CASE op \in RegRegImmOps
  <2>1. ops.used = 3 /\ ops.immAt = i + 2
    BY <1>1, <1>2, <1>8, GroupsApart
  <2>2. RegCount(op) = 2 /\ TakesValue(op)
    BY <1>8, Counts DEF TakesValue
  <2> QED BY <2>1, <2>2 DEF ops
<1>9. CASE op \in RegRegRegOps
  <2>1. ops = plain(<<a, b, c>>, 3)
    BY <1>1, <1>9, GroupsApart
  <2> QED BY <1>9, <2>1, Counts, Values DEF ops
<1>10. CASE op = "syscall"
  <2>1. op \notin RegOps \cup ImmOps \cup RegImmOps \cup RegRegOps \cup OffsetOps
                  \cup RegRegImmOps \cup RegRegRegOps
    BY <1>10 DEF RegOps, ImmOps, RegImmOps, RegRegOps, OffsetOps, RegRegImmOps,
            ArithImmOps, BranchOps, CompareOps, RegRegRegOps
  <2>2. ops = plain(<<none, none, none>>, 0)
    BY <1>1, <2>1
  <2> QED BY <1>10, <2>2, Counts, Values DEF ops
<1> QED BY <1>3, <1>4, <1>5, <1>6, <1>7, <1>8, <1>9, <1>10, InstrGroups

\* The operands the parser takes from a complete statement it has a case for.
LEMMA OperandsTaken ==
  ASSUME NEW s \in Statement, Complete(s), s.op \in InstrCodes \ RejectedOps, Reading(s)
  PROVE  LET ops == L!ParseOperands(s.op, L!Stmt + 1)
         IN /\ ops.used = OperandCount(s)
            /\ ops.checked => TakesValue(s.op) /\ ops.immAt = L!Stmt + OperandCount(s)
<1> DEFINE r == RegCount(s.op)
           i == L!Stmt + 1
<1>1. L!Stmt \in Nat /\ i \in Nat /\ r \in 0..3
  BY Counts DEF Reading
<1>2. /\ Len(Operands(s)) = OperandCount(s)
      /\ \A j \in 1..OperandCount(s) : OperandFits(s, j, Operands(s)[j])
  BY OperandsAre
<1>3. s.op \in RegRegImmOps => L!ParseRegister(i + 1).offset = -1
  <2> SUFFICES ASSUME s.op \in RegRegImmOps PROVE L!ParseRegister(i + 1).offset = -1
    OBVIOUS
  <2>1. r = 2 /\ TakesValue(s.op) /\ s.op \notin OffsetOps
    BY Counts, GroupsApart DEF TakesValue
  <2>2. OperandCount(s) = 3
    BY <2>1 DEF OperandCount
  <2>3. 2 \in 1..OperandCount(s) /\ 2 <= RegCount(s.op)
    BY <2>1, <2>2
  <2>4. Operands(s)[2].off = -1
    BY <1>2, <2>1, <2>3 DEF OperandFits
  <2>5. OperandTok(2).off = -1
    BY <1>2, <2>3, <2>4 DEF Reading
  <2>6. i + 1 = L!Stmt + 2
    BY <1>1
  <2>7. L!Tok(i + 1).off = -1
    BY <2>5, <2>6 DEF OperandTok
  <2> QED BY ONLY <2>7 DEF L!ParseRegister, L!NoArg
<1>4. LET ops == L!ParseOperands(s.op, i)
      IN /\ ops.used = OperandCount(s)
         /\ ops.checked => /\ TakesValue(s.op)
                           /\ ops.immAt = i + r
  BY <1>1, <1>3, TokensUsed DEF OperandCount
<1>5. TakesValue(s.op) => i + r = L!Stmt + OperandCount(s)
  BY <1>1 DEF OperandCount
<1> QED BY <1>4, <1>5

\* The record of an instruction has an error exactly if an operand is none or
\* there is no case for the mnemonic.
LEMMA InstrLineError ==
  ASSUME NEW s \in Statement, Complete(s), s.op \in InstrCodes, Reading(s)
  PROVE  /\ L!InstrLine.op = s.op /\ "error" \in DOMAIN L!InstrLine
         /\ L!InstrLine.error <=> s.bad \/ s.op \in RejectedOps
<1> DEFINE op == L!StmtHead.word
           ops == L!ParseOperands(op, L!Stmt + 1)
           imm == L!Tok(ops.immAt)
           symbolic == ops.immAt > 0 /\ L!IsLabel(imm)
           symbol == IF symbolic THEN imm.word ELSE NoWord
           upper == (op = "lui")
           error == \/ op \in L!RejectedOps
                    \/ ops.checked /\ imm.kind # "lit" /\ ~L!IsLabel(imm)
                    \/ \E k \in 1..ops.used : L!Malformed(L!Tok(L!Stmt + k))
<1>1. L!InstrLine = [L!BlankLine EXCEPT
        !.op = op, !.addr = text_addr, !.args = ops.args,
        !.is_symbol = symbolic, !.symbol = symbol, !.label = L!LabelOf("text"),
        !.upper = upper, !.error = error]
  BY Zenon DEF L!InstrLine, NoWord
<1>2. op = s.op
  <2>1. s.op \notin StoreDirectives
    BY DirectivesApart
  <2> QED BY <2>1 DEF Reading
<1> HIDE DEF op, ops, symbolic, symbol, upper, error
<1>3. /\ L!InstrLine.op = op /\ L!InstrLine.error = error
      /\ "error" \in DOMAIN L!InstrLine
  BY <1>1 DEF L!BlankLine
<1>4. CASE s.op \in RejectedOps
  BY <1>2, <1>3, <1>4, SameTables DEF error
<1>5. CASE s.op \notin RejectedOps
  <2> DEFINE n == OperandCount(s)
             o == Operands(s)
  <2>1. ops.used = n /\ (ops.checked => TakesValue(s.op) /\ ops.immAt = L!Stmt + n)
    BY <1>2, <1>5, OperandsTaken DEF ops
  <2>2. /\ Len(o) = n /\ n \in Nat
        /\ \A j \in 1..n : OperandFits(s, j, o[j])
    BY <1>5, OperandsAre, Counts DEF OperandCount
  <2>3. s.bad => n # 0
    BY <2>2, OperandsType
  <2>4. \A j \in 1..n :
          /\ OperandTok(j).kind = IF s.bad /\ j = n THEN "bad" ELSE o[j].kind
          /\ OperandTok(j).word = o[j].word
    BY <2>2 DEF Reading
  <2> HIDE DEF n, o
  <2>5. ASSUME NEW j \in 1..n
        PROVE  L!Malformed(OperandTok(j)) <=> s.bad /\ j = n
    <3>1. o[j].kind \in {"reg", "lit", "word"}
      BY <2>2 DEF OperandFits
    <3> QED BY ONLY <2>4, <3>1, j \in 1..n DEF L!Malformed
  <2>6. s.bad => n \in 1..n
    BY <2>2, <2>3
  <2>7. (\E k \in 1..ops.used : L!Malformed(L!Tok(L!Stmt + k))) <=> s.bad
    BY ONLY <2>1, <2>5, <2>6 DEF OperandTok
  <2>8. ASSUME ops.checked, ~s.bad PROVE imm.kind = "lit" \/ L!IsLabel(imm)
    <3>1. n \in 1..n /\ ~(n <= RegCount(s.op)) /\ imm = OperandTok(n)
      <4>1. n = RegCount(s.op) + 1 /\ RegCount(s.op) \in Nat
        BY <2>1, <2>8, Counts DEF n, OperandCount
      <4>2. imm = OperandTok(n)
        BY <2>1, <2>8 DEF OperandTok
      <4> QED BY ONLY <4>1, <4>2
    <3>2. \/ o[n].kind = "lit"
          \/ o[n].kind = "word" /\ o[n].word \notin InstrCodes
      BY <2>2, <3>1 DEF OperandFits
    <3>3. imm.kind = o[n].kind /\ imm.word = o[n].word
      BY <2>4, <2>8, <3>1
    <3> QED BY <3>2, <3>3, SameTables DEF L!IsLabel
  <2>9. error <=> s.bad
    BY <1>2, <1>5, <2>7, <2>8, SameTables DEF error
  <2> QED BY <1>2, <1>3, <1>5, <2>9
<1> QED BY <1>4, <1>5

\* The tokens of the statement s stand in the source behind q.
Placed(s, q) ==
  /\ q \in Nat /\ Len(source) \in Nat /\ q + Len(Tokens(s)) <= Len(source)
  /\ Behind(source, q, Tokens(s))

\* The token the parser looks at is that of the statement.
LEMMA PlacedTokens ==
  ASSUME NEW s, NEW q, Placed(s, q), Len(Tokens(s)) \in Nat,
         NEW j \in 1..Len(Tokens(s))
  PROVE  L!Tok(q + j) = Tokens(s)[j] /\ q + j \in 1..Len(source)
<1> DEFINE i == q + j
           n == Len(Tokens(s))
<1>1. i \in 1..Len(source)
  <2>1. q \in Nat /\ Len(source) \in Nat /\ q + n <= Len(source)
    BY DEF Placed
  <2>2. n \in Nat /\ j \in 1..n
    OBVIOUS
  <2> HIDE DEF n
  <2> QED BY ONLY <2>1, <2>2
<1>2. source[i] = Tokens(s)[j]
  BY DEF Placed, Behind
<1> HIDE DEF i
<1>3. L!Tok(i) = Tokens(s)[j]
  BY ONLY <1>1, <1>2 DEF L!Tok
<1> QED BY <1>1, <1>3 DEF i

\* At the start of a statement the parser reads that statement.
LEMMA StatementRead ==
  ASSUME NEW s \in Statement, Complete(s), NEW q, Placed(s, q), pos = q + 1
  PROVE  /\ pos <= Len(source) /\ L!Tok(pos).kind # "empty"
         /\ L!Stmt = q + OpAt(s) /\ Reading(s)
         /\ Len(Tokens(s)) = OpAt(s) + Len(Operands(s))
<1> DEFINE n == OpAt(s)
           m == Len(Operands(s))
           t == Tokens(s)
<1>1. ReadsAs(s, t) /\ t \in Seq(TokenType) /\ Operands(s) \in Seq(TokenType)
  BY StatementTokens, OperandsType
<1>2. m \in Nat /\ n \in {1, 2} /\ Len(t) = n + m /\ q \in Nat
  <2>1. m \in Nat
    BY <1>1
  <2>2. n \in {1, 2}
    BY DEF OpAt
  <2> QED BY ONLY <1>1, <2>1, <2>2, Placed(s, q) DEF ReadsAs, Placed
<1>3. \A j \in 1..Len(t) : L!Tok(q + j) = t[j] /\ q + j \in 1..Len(source)
  <2>1. Len(t) \in Nat
    BY ONLY <1>2
  <2> QED BY <2>1, PlacedTokens
<1>4. /\ n = 2 => t[1].kind = "word" /\ t[1].word = s.label
      /\ t[n].kind = IF s.op \in StoreDirectives THEN "dir" ELSE "word"
      /\ t[n].word = s.op
      /\ \A j \in 1..m :
           /\ t[n + j].kind = IF s.bad /\ j = m THEN "bad" ELSE Operands(s)[j].kind
           /\ t[n + j].word = Operands(s)[j].word /\ t[n + j].off = Operands(s)[j].off
      /\ t[Len(t)].eol = "tight"
  BY ONLY <1>1 DEF ReadsAs
<1>5. /\ s.op \in InstrCodes \cup StoreDirectives
      /\ s.label \notin InstrCodes
  BY DEF Complete
<1> HIDE DEF n, m, t
<1>6. L!Tok(pos) = t[1] /\ pos \in 1..Len(source)
  <2>1. 1 \in 1..Len(t)
    BY ONLY <1>2
  <2> QED BY <1>3, <2>1
<1>7. /\ L!Labelled <=> n = 2
      /\ L!Tok(pos).kind \in {"word", "dir"}
  <2>1. CASE n = 2
    BY <1>4, <1>5, <1>6, <2>1, SameTables DEF L!Labelled, L!IsLabel
  <2>2. CASE n = 1
    <3>1. /\ t[1].kind = IF s.op \in StoreDirectives THEN "dir" ELSE "word"
          /\ t[1].word = s.op
      BY ONLY <1>4, <2>2
    <3>2. t[1].kind = "word" => t[1].word \in InstrCodes
      BY ONLY <1>5, <3>1
    <3> QED BY ONLY <1>6, <2>2, <3>1, <3>2, SameTables DEF L!Labelled, L!IsLabel
  <2> QED BY ONLY <1>2, <2>1, <2>2
<1>8. L!Stmt = q + n /\ L!Stmt \in Nat
  BY ONLY <1>2, <1>7, pos = q + 1 DEF L!Stmt
<1>9. L!StmtHead = t[n]
  <2>1. n \in 1..Len(t)
    BY ONLY <1>2
  <2> QED BY ONLY <1>3, <1>8, <2>1 DEF L!StmtHead
<1>10. ASSUME NEW j \in 1..m PROVE OperandTok(j) = t[n + j]
  <2>1. n + j \in 1..Len(t) /\ q + (n + j) = (q + n) + j
    BY ONLY <1>2, j \in 1..m
  <2> QED BY ONLY <1>3, <1>8, <2>1 DEF OperandTok
<1>11. m # 0 => OperandTok(m).eol = "tight"
  <2>1. m # 0 => m \in 1..m
    BY ONLY <1>2
  <2> QED BY ONLY <1>2, <1>4, <1>10, <2>1
<1>12. Reading(s)
  BY ONLY <1>4, <1>8, <1>9, <1>10, <1>11 DEF Reading, m
<1>13. pos <= Len(source)
  BY ONLY <1>6
<1> QED BY <1>2, <1>7, <1>8, <1>12, <1>13 DEF n, m, t

InstrLines == IF L!InstrLine.op \in L!PseudoOps THEN L!ExpandPseudo(L!InstrLine)
                                                ELSE <<L!InstrLine>>

\* Every record the parser makes has an error flag.
LEMMA RecordsFlagged ==
  /\ IsText(InstrLines) /\ "error" \in DOMAIN L!InstrLine
  /\ "error" \in DOMAIN L!StandaloneLine
<1> DEFINE op == L!StmtHead.word
           ops == L!ParseOperands(op, L!Stmt + 1)
           imm == L!Tok(ops.immAt)
           symbolic == ops.immAt > 0 /\ L!IsLabel(imm)
           symbol == IF symbolic THEN imm.word ELSE NoWord
           upper == (op = "lui")
           error == \/ op \in L!RejectedOps
                    \/ ops.checked /\ imm.kind # "lit" /\ ~L!IsLabel(imm)
                    \/ \E k \in 1..ops.used : L!Malformed(L!Tok(L!Stmt + k))
<1>1. L!InstrLine = [L!BlankLine EXCEPT
        !.op = op, !.addr = text_addr, !.args = ops.args,
        !.is_symbol = symbolic, !.symbol = symbol, !.label = L!LabelOf("text"),
        !.upper = upper, !.error = error]
  BY Zenon DEF L!InstrLine, NoWord
<1> HIDE DEF op, ops, symbolic, symbol, upper, error
<1>2. "error" \in DOMAIN L!InstrLine
  BY <1>1 DEF L!BlankLine
<1>3. "error" \in DOMAIN L!StandaloneLine
  BY DEF L!StandaloneLine, L!BlankLine
<1>4. IsText(InstrLines)
  BY <1>2, ExpandedBlank, OneRecord DEF InstrLines
<1> QED BY <1>2, <1>3, <1>4

\* Whatever is parsed, records are only added.
LEMMA RecordsAdded ==
  ASSUME IsText(text), L!ParseLine \/ L!SkipComment
  PROVE  /\ IsText(text') /\ (Errors(text) => Errors(text'))
         /\ phase' = phase /\ source' = source /\ phase = "lex"
<1>1. CASE L!ParseInstr
  <2>1. text' = text \o InstrLines /\ phase' = phase /\ source' = source /\ phase = "lex"
    BY <1>1 DEF L!ParseInstr, L!Emit, InstrLines, L!Lexing
  <2> QED BY <2>1, RecordsFlagged, TextGrows
<1>2. CASE L!ParseSegment
  BY <1>2 DEF L!ParseSegment, L!Lexing
<1>3. CASE L!ParseData
  BY <1>3 DEF L!ParseData, L!Lexing
<1>4. CASE L!ParseOther
  <2>1. text' = Append(text, L!StandaloneLine) /\ phase' = phase /\ source' = source
        /\ phase = "lex"
    BY <1>4 DEF L!ParseOther, L!Lexing
  <2>2. text' = text \o <<L!StandaloneLine>>
    BY <2>1, AppendedRecord
  <2>3. IsText(<<L!StandaloneLine>>)
    BY RecordsFlagged, OneRecord
  <2> QED BY <2>1, <2>2, <2>3, TextGrows
<1>5. CASE L!SkipComment
  BY <1>5 DEF L!SkipComment
<1> QED BY <1>1, <1>2, <1>3, <1>4, <1>5 DEF L!ParseLine

\* resolveLabels keeps the error flags.
LEMMA ErrorsKept ==
  ASSUME IsText(text), L!ResolveLabels
  PROVE  /\ Errors(text') <=> Errors(text)
         /\ phase = "lex" /\ phase' = "done" /\ pos > Len(source)
<1>1. /\ text' = [i \in DOMAIN text |-> L!ResolveLine(text[i])]
      /\ phase = "lex" /\ phase' = "done" /\ pos > Len(source)
  BY DEF L!ResolveLabels
<1>2. \A i \in DOMAIN text : "error" \in DOMAIN text[i]
  <2>1. PICK S : text \in Seq(S) /\ Flagged(S)
    BY DEF IsText
  <2> QED BY <2>1 DEF Flagged
<1>3. ASSUME NEW l, "error" \in DOMAIN l PROVE L!ResolveLine(l).error = l.error
  <2>1. ASSUME NEW a PROVE L!Resolved(l, a).error = l.error
    BY <1>3 DEF L!Resolved
  <2> QED BY <2>1 DEF L!ResolveLine
<1>4. DOMAIN text' = DOMAIN text
      /\ \A i \in DOMAIN text : text'[i].error = text[i].error
  BY <1>1, <1>2, <1>3
<1>5. Errors(text') <=> Errors(text)
  BY ONLY <1>4 DEF Errors
<1> QED BY <1>1, <1>5

\* A data directive takes its one operand: the list ends with the line.
LEMMA DataTaken ==
  ASSUME NEW s \in Statement, Complete(s), s.op \in StoreDirectives, Reading(s),
         Len(source) \in Nat
  PROVE  /\ OperandCount(s) = 1
         /\ L!ParseDirective(s.op, L!Stmt + 1).used = 1
<1>1. OperandCount(s) = 1
  <2>1. TakesValue(s.op)
    BY DEF TakesValue
  <2> QED BY <2>1, Counts DEF OperandCount
<1>2. s.op \notin RejectedOps
  <2>1. "null" \notin RejectedOps
    BY DEF RejectedOps
  <2> QED BY <2>1, DirectivesApart DEF InstrCodes
<1>3. Len(Operands(s)) = 1
  BY <1>1, <1>2, OperandsAre
<1> DEFINE i == L!Stmt + 1
<1>4. i \in Nat /\ L!Stmt \in Nat
  BY DEF Reading
<1>5. L!Tok(i).eol = "tight"
  BY <1>3 DEF Reading, OperandTok
<1> HIDE DEF i
<1>6. L!ListStop(i)
  BY <1>5 DEF L!ListStop
<1>7. L!ListEnd(i) = i
  <2> DEFINE E(k) == L!ListStop(k) /\ \A j \in i..(k - 1) : ~L!ListStop(j)
             K == i..(Len(source) + i)
  <2>1. \A k \in K : E(k) => k = i
    <3> SUFFICES ASSUME NEW k \in K, E(k), k # i PROVE FALSE
      OBVIOUS
    <3>1. i \in i..(k - 1)
      BY <1>4
    <3> QED BY <1>6, <3>1
  <2>2. i \in K /\ E(i)
    BY <1>4, <1>6
  <2> QED BY <2>1, <2>2 DEF L!ListEnd
<1>8. s.op \in {".asciiz", ".byte", ".half", ".word", ".space"}
  BY DEF StoreDirectives, ListDirectives
<1>9. i - i + 1 = 1
  BY <1>4
<1>10. L!ParseDirective(s.op, i).used = 1
  BY <1>7, <1>8, <1>9 DEF L!ParseDirective, L!Reserve
<1> QED BY <1>1, <1>10 DEF i

\* The records of a statement have an error exactly if it is wrong, and if
\* it is not, the parser stands behind it.
LEMMA StatementStep ==
  ASSUME NEW s \in Statement, Complete(s), NEW q, Placed(s, q), pos = q + 1,
         IsText(text), L!ParseLine
  PROVE  /\ Wrong(s) => Errors(text')
         /\ ~Wrong(s) => /\ Errors(text') <=> Errors(text)
                         /\ pos' = q + Len(Tokens(s)) + 1
<1>1. /\ L!Stmt = q + OpAt(s) /\ Reading(s)
      /\ Len(Tokens(s)) = OpAt(s) + Len(Operands(s))
      /\ q \in Nat /\ Len(source) \in Nat /\ OpAt(s) \in {1, 2}
  BY StatementRead DEF Placed, OpAt
<1>2. s.op \in InstrCodes \cup StoreDirectives /\ s.bad \in BOOLEAN
  BY DEF Complete, Statement
<1>3. /\ L!StmtHead.word = s.op
      /\ L!StmtHead.kind = IF s.op \in StoreDirectives THEN "dir" ELSE "word"
  BY <1>1 DEF Reading
<1>4. CASE L!ParseInstr
  <2>1. s.op \in InstrCodes /\ s.op \notin StoreDirectives
    <3>1. L!IsInstr(L!StmtHead)
      BY <1>4 DEF L!ParseInstr
    <3> QED BY <1>3, <3>1, SameTables, DirectivesApart DEF L!IsInstr
  <2>2. /\ L!InstrLine.op = s.op /\ "error" \in DOMAIN L!InstrLine
        /\ L!InstrLine.error <=> s.bad \/ s.op \in RejectedOps
    BY <1>1, <2>1, InstrLineError
  <2>3. text' = text \o InstrLines
    BY <1>4 DEF L!ParseInstr, L!Emit, InstrLines
  <2>4. Errors(InstrLines) <=> Wrong(s)
    <3>1. CASE s.op \in PseudoOps
      <4>1. s.op \notin RejectedOps
        BY <3>1, RejectedApart
      <4> QED BY <2>2, <3>1, <4>1, SameTables, ExpandedBlank DEF InstrLines, Wrong
    <3>2. CASE s.op \notin PseudoOps
      <4>1. InstrLines = <<L!InstrLine>>
        BY <2>2, <3>2, SameTables DEF InstrLines
      <4>2. Errors(<<L!InstrLine>>) <=> L!InstrLine.error
        BY <2>2, OneRecord
      <4> QED BY <2>1, <2>2, <3>2, <4>1, <4>2 DEF Wrong
    <3> QED BY <3>1, <3>2
  <2>5. Errors(text') <=> Errors(text) \/ Wrong(s)
    BY <2>3, <2>4, RecordsFlagged, TextGrows
  <2>6. ~Wrong(s) => pos' = q + Len(Tokens(s)) + 1
    <3> SUFFICES ASSUME ~Wrong(s) PROVE pos' = q + Len(Tokens(s)) + 1
      OBVIOUS
    <3>1. s.op \in InstrCodes \ RejectedOps
      BY <2>1 DEF Wrong
    <3>2. L!StmtHead.word = s.op
      BY <1>3
    <3>3. L!ParseOperands(s.op, L!Stmt + 1).used = OperandCount(s)
      BY <1>1, <3>1, OperandsTaken
    <3>4. pos' = L!Stmt + 1 + OperandCount(s)
      BY <1>4, <3>2, <3>3 DEF L!ParseInstr
    <3>5. Len(Operands(s)) = OperandCount(s) /\ OperandCount(s) \in Nat
      BY <3>1, OperandsAre, Counts DEF OperandCount
    <3> QED BY ONLY <1>1, <3>4, <3>5
  <2> QED BY <2>5, <2>6
<1>5. CASE L!ParseData
  <2>1. L!StmtHead.kind = "dir" /\ text' = text
        /\ pos' = L!Stmt + 1 + L!ParseDirective(L!StmtHead.word, L!Stmt + 1).used
    BY <1>5 DEF L!ParseData
  <2>2. s.op \in StoreDirectives
    BY <1>3, <2>1
  <2>3. s.op \notin RejectedOps
    <3>1. "null" \notin RejectedOps
      BY DEF RejectedOps
    <3> QED BY <2>2, <3>1, DirectivesApart DEF InstrCodes
  <2>4. ~Wrong(s)
    BY <2>2, <2>3 DEF Wrong
  <2>5. OperandCount(s) = 1 /\ L!ParseDirective(s.op, L!Stmt + 1).used = 1
    BY <1>1, <2>2, DataTaken
  <2>6. Len(Operands(s)) = 1
    BY <2>3, <2>5, OperandsAre
  <2>7. pos' = L!Stmt + 1 + 1
    BY ONLY <1>3, <2>1, <2>5
  <2>8. pos' = q + Len(Tokens(s)) + 1
    BY ONLY <1>1, <2>6, <2>7
  <2> QED BY <2>1, <2>4, <2>8
<1>6. ~L!ParseSegment
  <2>1. L!ParseSegment => L!StmtHead.kind = "dir" /\ L!StmtHead.word \in L!SegDirectives
    BY DEF L!ParseSegment
  <2> QED BY <1>3, <2>1, SameTables, DirectivesApart
<1>7. ~L!ParseOther
  <2>1. L!ParseOther => ~L!IsInstr(L!StmtHead) /\ L!StmtHead.kind # "dir"
    BY DEF L!ParseOther
  <2> QED BY <1>2, <1>3, <2>1, SameTables DEF L!IsInstr
<1> QED BY <1>4, <1>5, <1>6, <1>7 DEF L!ParseLine

(***************************************************************************)
(* A source is the tokens of its statements, one after the other.          *)
(***************************************************************************)
Parts(p) == [k \in DOMAIN p |-> Tokens(p[k])]
\* PlaceOf(p)[k]: how many tokens the first k statements of p are.
PlaceOf(p) == CHOOSE e : Ends(Parts(p), SourceOf(p), e)

\* A listing is a sequence of complete statements.
LEMMA ListingType ==
  ASSUME NEW p \in Listings
  PROVE  /\ Len(p) \in Nat /\ DOMAIN p = 1..Len(p)
         /\ \A k \in 1..Len(p) : p[k] \in Statement /\ Complete(p[k])
<1>1. p \in Seq(Statement) /\ \A k \in DOMAIN p : Complete(p[k])
  BY ListingsAssumption
<1>2. Len(p) \in Nat /\ DOMAIN p = 1..Len(p) /\ \A k \in 1..Len(p) : p[k] \in Statement
  BY ONLY <1>1, LenProperties, ElementOfSeq
<1> QED BY ONLY <1>1, <1>2

\* The places of a listing's statements in its source.
LEMMA PlacesFit ==
  ASSUME NEW p \in Listings, NEW e, e = PlaceOf(p)
  PROVE  /\ e \in [0..Len(p) -> Nat] /\ e[0] = 0 /\ e[Len(p)] = Len(SourceOf(p))
         /\ \A k \in 1..Len(p) : /\ e[k] = e[k-1] + Len(Tokens(p[k]))
                                 /\ Behind(SourceOf(p), e[k-1], Tokens(p[k]))
                                 /\ Len(Tokens(p[k])) \in Nat
<1> DEFINE n == Len(p)
           ss == Parts(p)
<1>1. /\ n \in Nat /\ DOMAIN p = 1..n
      /\ \A k \in 1..n : p[k] \in Statement /\ Complete(p[k])
  BY ListingType
<1>2. \A k \in 1..n : Tokens(p[k]) \in Seq(TokenType)
  BY <1>1, StatementTokens
<1>3. ss = [k \in 1..n |-> Tokens(p[k])]
  BY ONLY <1>1 DEF Parts
<1>4. Len(ss) = n /\ \A k \in 1..n : ss[k] = Tokens(p[k])
  BY ONLY <1>1, <1>3
<1> HIDE DEF ss, n
<1>5. Ends(ss, SourceOf(p), e)
  <2>1. \A k \in 1..n : ss[k] \in Seq(TokenType)
    BY <1>2, <1>4
  <2>2. \E f : Ends(ss, FlattenSeq(ss), f)
    BY ONLY <1>1, <1>4, <2>1, FlattenEnds
  <2>3. SourceOf(p) = FlattenSeq(ss)
    BY DEF SourceOf, ss, Parts
  <2>4. \E f : Ends(Parts(p), SourceOf(p), f)
    BY ONLY <2>2, <2>3 DEF ss
  <2>5. Ends(Parts(p), SourceOf(p), PlaceOf(p))
    BY ONLY <2>4, Zenon DEF PlaceOf
  <2> QED BY ONLY <2>5, e = PlaceOf(p) DEF ss
<1>6. /\ e \in [0..n -> Nat] /\ e[0] = 0 /\ e[n] = Len(SourceOf(p))
      /\ \A k \in 1..n : /\ e[k] = e[k-1] + Len(Tokens(p[k]))
                         /\ Behind(SourceOf(p), e[k-1], Tokens(p[k]))
  BY ONLY <1>4, <1>5 DEF Ends
<1>7. \A k \in 1..n : Len(Tokens(p[k])) \in Nat
  <2>1. \A t \in Seq(TokenType) : Len(t) \in Nat
    OBVIOUS
  <2> QED BY ONLY <1>2, <2>1
<1> QED BY ONLY <1>6, <1>7 DEF n

\* Each statement of a listing stands in its source at its place.
LEMMA Places ==
  ASSUME NEW p \in Listings, NEW e, e = PlaceOf(p), source = SourceOf(p)
  PROVE  /\ e \in [0..Len(p) -> Nat] /\ e[0] = 0
         /\ e[Len(p)] = Len(source) /\ Len(source) \in Nat
         /\ \A k \in 1..Len(p) : /\ Placed(p[k], e[k-1])
                                 /\ e[k] = e[k-1] + Len(Tokens(p[k]))
                                 /\ Len(Tokens(p[k])) \in Nat
<1> DEFINE n == Len(p)
<1>1. n \in Nat
  BY ListingType
<1>6. /\ e \in [0..n -> Nat] /\ e[0] = 0 /\ e[n] = Len(source)
      /\ \A k \in 1..n : /\ e[k] = e[k-1] + Len(Tokens(p[k]))
                         /\ Behind(source, e[k-1], Tokens(p[k]))
  BY PlacesFit
<1>7. Len(source) \in Nat
  BY ONLY <1>1, <1>6
<1>8. \A k \in 1..n : Len(Tokens(p[k])) \in Nat
  BY PlacesFit
<1> HIDE DEF n
<1>9. ASSUME NEW k \in 1..n PROVE e[k] <= e[n]
  <2> DEFINE T == {m \in 0..n : k <= m => e[k] <= e[m]}
  <2>1. ASSUME NEW m \in 1..n, m - 1 \in T PROVE m \in T
    <3>1. m - 1 \in 0..n /\ m \in 0..n /\ k \in 0..n
      BY ONLY <1>1, k \in 1..n, m \in 1..n
    <3>2. e[m - 1] \in Nat /\ e[m] \in Nat /\ e[k] \in Nat
      BY ONLY <1>6, <3>1
    <3>3. e[m] = e[m - 1] + Len(Tokens(p[m])) /\ Len(Tokens(p[m])) \in Nat
      BY ONLY <1>6, <1>8, m \in 1..n
    <3>4. e[m - 1] <= e[m]
      BY ONLY <3>2, <3>3
    <3>5. CASE k = m
      BY <3>1, <3>2, <3>5
    <3>6. CASE k # m
      <4>1. k <= m => k <= m - 1
        BY <3>6
      <4>2. k <= m => e[k] <= e[m - 1]
        BY <2>1, <4>1
      <4>3. k <= m => e[k] <= e[m]
        BY ONLY <3>2, <3>4, <4>2
      <4> QED BY <3>1, <4>3
    <3> QED BY <3>5, <3>6
  <2>2. 0 \in T
    BY <1>1
  <2> HIDE DEF T
  <2>3. \A m \in 0..n : m \in T
    BY ONLY <1>1, <2>1, <2>2, Upwards
  <2>4. n \in 0..n /\ k <= n
    BY <1>1
  <2> QED BY <2>3, <2>4 DEF T
<1>10. ASSUME NEW k \in 1..n PROVE Placed(p[k], e[k-1])
  <2>1. e[k-1] \in Nat
    <3>1. k - 1 \in 0..n
      BY ONLY <1>1, k \in 1..n
    <3> QED BY ONLY <1>6, <3>1
  <2>2. e[k-1] + Len(Tokens(p[k])) <= Len(source)
    BY ONLY <1>6, <1>9, k \in 1..n
  <2>3. Behind(source, e[k-1], Tokens(p[k]))
    BY ONLY <1>6, k \in 1..n
  <2> QED BY ONLY <1>7, <2>1, <2>2, <2>3 DEF Placed
<1> QED BY ONLY <1>6, <1>7, <1>8, <1>10 DEF n
-----------------------------------------------------------------------------
(***************************************************************************)
(* The inductive invariant.  While a source is lexed either a wrong        *)
(* statement has been read and left an error, or the parser stands behind  *)
(* the k-th statement and nothing so far was wrong.                        *)
(***************************************************************************)
SomeWrong == \E k \in DOMAIN listing : Wrong(listing[k])
AllRight(k) == \A j \in 1..k : ~Wrong(listing[j])
BehindRight == \E k \in 0..Len(listing) : /\ pos = PlaceOf(listing)[k] + 1
                                          /\ AllRight(k)
Underway == /\ source = SourceOf(listing) /\ IsText(text)
            /\ \/ Errors(text) /\ SomeWrong
               \/ ~Errors(text) /\ BehindRight

FirstRound == tool = "lex" /\ listed = << >>
RefuseInv ==
  /\ listing \in Listings
  /\ FirstRound => \/ phase = "idle"
                   \/ phase = "lex" /\ Underway
                   \/ phase = "done" /\ (Errors(text) <=> SomeWrong)
  /\ tool = "refused" /\ listed = << >> => SomeWrong
  /\ tool \in {"assembled", "cpu"} \/ listed # << >> => ~SomeWrong

\* Init starts with an idle lexer.
LEMMA RefuseInit == Init => RefuseInv
  BY DEF Init, L!Init, RefuseInv, FirstRound

\* A source is loaded: nothing is read of it yet.
LEMMA LoadStep ==
  ASSUME RefuseInv, LoadSource
  PROVE  RefuseInv'
<1>1. /\ source' = SourceOf(listing) /\ pos' = 1 /\ phase' = "lex" /\ text' = << >>
      /\ listing' = listing /\ tool' = tool /\ listed' = listed /\ tool = "lex"
  BY DEF LoadSource, L!LexOf
<1>2. listing \in Listings
  BY DEF RefuseInv
<1>3. Len(listing) \in Nat
  BY <1>2, ListingType
<1>4. PlaceOf(listing)[0] = 0
  BY <1>2, PlacesFit
<1>5. IsText(text') /\ ~Errors(text')
  BY <1>1, Emptied
<1>6. 0 \in 0..Len(listing) /\ pos' = PlaceOf(listing)[0] + 1 /\ AllRight(0)
  BY <1>1, <1>3, <1>4 DEF AllRight
<1>7. (BehindRight)'
  <2>1. \E k \in 0..Len(listing) : pos' = PlaceOf(listing)[k] + 1 /\ AllRight(k)
    BY <1>6
  <2> QED BY <1>1, <2>1 DEF BehindRight, AllRight
<1>8. Underway'
  BY <1>1, <1>5, <1>7 DEF Underway, SourceOf, Errors, IsText
<1> QED BY <1>1, <1>8 DEF RefuseInv, FirstRound, SomeWrong

\* Behind the last statement there is nothing to parse.
LEMMA EndReached ==
  ASSUME pos = Len(source) + 1, Len(source) \in Nat
  PROVE  ~L!ParseLine /\ ~L!SkipComment
<1>1. ~(pos <= Len(source))
  OBVIOUS
<1>2. ~L!Lexing
  BY <1>1 DEF L!Lexing
<1>3. ~L!ParseInstr /\ ~L!ParseSegment /\ ~L!ParseData /\ ~L!ParseOther
  BY <1>2 DEF L!ParseInstr, L!ParseSegment, L!ParseData, L!ParseOther
<1> QED BY <1>1, <1>3 DEF L!ParseLine, L!SkipComment

\* A step of the lexer on a source that nothing was wrong with so far.
LEMMA RightStep ==
  ASSUME listing \in Listings, Underway, ~Errors(text),
         L!ParseLine \/ L!SkipComment \/ L!ResolveLabels, listing' = listing
  PROVE  \/ phase' = "lex" /\ Underway'
         \/ phase' = "done" /\ (Errors(text') <=> SomeWrong)
<1> DEFINE e == PlaceOf(listing)
           n == Len(listing)
<1>1. source = SourceOf(listing) /\ IsText(text) /\ BehindRight
  BY DEF Underway
<1>2. PICK k \in 0..n : pos = e[k] + 1 /\ AllRight(k)
  BY <1>1 DEF BehindRight
<1>3. /\ n \in Nat /\ DOMAIN listing = 1..n
      /\ \A j \in 1..n : listing[j] \in Statement /\ Complete(listing[j])
  BY ListingType
<1>4. /\ e \in [0..n -> Nat] /\ e[n] = Len(source) /\ Len(source) \in Nat
      /\ \A j \in 1..n : /\ Placed(listing[j], e[j-1])
                         /\ e[j] = e[j-1] + Len(Tokens(listing[j]))
                         /\ Len(Tokens(listing[j])) \in Nat
  BY <1>1, Places
<1> HIDE DEF e, n
<1>5. CASE k = n
  <2>1. L!ResolveLabels
    BY <1>2, <1>4, <1>5, EndReached
  <2>2. phase' = "done" /\ ~Errors(text')
    BY <1>1, <2>1, ErrorsKept
  <2>3. ~SomeWrong
    BY <1>2, <1>3, <1>5 DEF SomeWrong, AllRight
  <2> QED BY <2>2, <2>3
<1>6. CASE k # n
  <2> DEFINE m == k + 1
             s == listing[m]
  <2>1. m \in 1..n /\ m - 1 = k /\ m \in 0..n
    BY ONLY <1>3, <1>6, k \in 0..n
  <2> HIDE DEF m
  <2>2. /\ s \in Statement /\ Complete(s) /\ Placed(s, e[k])
        /\ e[m] = e[k] + Len(Tokens(s))
    BY ONLY <1>3, <1>4, <2>1
  <2> HIDE DEF s
  <2>3. pos <= Len(source) /\ L!Tok(pos).kind # "empty"
    BY <1>2, <2>2, StatementRead
  <2>4. pos \in Nat
    <3>1. e[k] \in Nat
      BY ONLY <1>4, k \in 0..n
    <3> QED BY <1>2, <3>1
  <2>5. L!ParseLine
    <3>1. ~L!SkipComment
      BY <2>3 DEF L!SkipComment
    <3>2. ~L!ResolveLabels
      <4>1. ~(pos > Len(source))
        BY ONLY <1>4, <2>3, <2>4
      <4> QED BY <4>1 DEF L!ResolveLabels
    <3> QED BY <3>1, <3>2
  <2>6. IsText(text') /\ phase' = "lex" /\ source' = source
    BY <1>1, <2>5, RecordsAdded
  <2>7. /\ Wrong(s) => Errors(text')
        /\ ~Wrong(s) => /\ Errors(text') <=> Errors(text)
                        /\ pos' = e[k] + Len(Tokens(s)) + 1
    BY <1>1, <1>2, <2>2, <2>5, StatementStep
  <2>8. CASE Wrong(s)
    <3>1. SomeWrong
      BY <1>3, <2>1, <2>8 DEF SomeWrong, s
    <3>2. Errors(text')
      BY <2>7, <2>8
    <3>3. Underway'
      BY <1>1, <2>6, <3>1, <3>2 DEF Underway, SourceOf, IsText, Errors, SomeWrong
    <3> QED BY <2>6, <3>3
  <2>9. CASE ~Wrong(s)
    <3>1. AllRight(m)
      <4>1. \A j \in 1..m : j \in 1..k \/ j = m
        BY ONLY <2>1, k \in 0..n, <1>3
      <4> QED BY <1>2, <2>9, <4>1 DEF AllRight, s
    <3>2. pos' = e[m] + 1
      BY ONLY <2>2, <2>7, <2>9
    <3>3. BehindRight'
      <4>1. \E i \in 0..n : pos' = e[i] + 1 /\ AllRight(i)
        BY <2>1, <3>1, <3>2
      <4> QED BY <4>1 DEF BehindRight, AllRight, e, n
    <3>4. ~Errors(text')
      BY <2>7, <2>9
    <3>5. Underway'
      BY <1>1, <2>6, <3>3, <3>4 DEF Underway, SourceOf, IsText, Errors
    <3> QED BY <2>6, <3>5
  <2> QED BY ONLY <2>8, <2>9
<1> QED BY ONLY <1>5, <1>6

\* Once an error is recorded it stays.
LEMMA WrongStep ==
  ASSUME Underway, Errors(text),
         L!ParseLine \/ L!SkipComment \/ L!ResolveLabels, listing' = listing
  PROVE  \/ phase' = "lex" /\ Underway'
         \/ phase' = "done" /\ (Errors(text') <=> SomeWrong)
<1>1. source = SourceOf(listing) /\ IsText(text) /\ SomeWrong
  BY DEF Underway
<1>2. CASE L!ParseLine \/ L!SkipComment
  <2>1. IsText(text') /\ Errors(text') /\ phase' = "lex" /\ source' = source
    BY <1>1, <1>2, RecordsAdded
  <2>2. Underway'
    BY <1>1, <2>1 DEF Underway, SourceOf, IsText, Errors, SomeWrong
  <2> QED BY <2>1, <2>2
<1>3. CASE L!ResolveLabels
  <2>1. phase' = "done" /\ Errors(text')
    BY <1>1, <1>3, ErrorsKept
  <2> QED BY <1>1, <2>1
<1> QED BY <1>2, <1>3

\* A step of the lexer, in the first round or a later one.
LEMMA LexerStep ==
  ASSUME RefuseInv, LexStep
  PROVE  RefuseInv'
<1>1. /\ listing' = listing /\ tool' = tool /\ listed' = listed /\ tool = "lex"
      /\ L!ParseLine \/ L!SkipComment \/ L!ResolveLabels
  BY DEF LexStep
<1>2. phase = "lex"
  <2>1. L!ParseLine => phase = "lex"
    BY DEF L!ParseLine, L!ParseInstr, L!ParseSegment, L!ParseData, L!ParseOther, L!Lexing
  <2>2. L!SkipComment \/ L!ResolveLabels => phase = "lex"
    BY DEF L!SkipComment, L!ResolveLabels
  <2> QED BY <1>1, <2>1, <2>2
<1>3. FirstRound => \/ phase' = "lex" /\ Underway'
                    \/ phase' = "done" /\ (Errors(text') <=> SomeWrong)
  <2> SUFFICES ASSUME FirstRound
               PROVE  \/ phase' = "lex" /\ Underway'
                      \/ phase' = "done" /\ (Errors(text') <=> SomeWrong)
    OBVIOUS
  <2>1. Underway /\ listing \in Listings
    BY <1>2 DEF RefuseInv
  <2> QED BY <1>1, <2>1, RightStep, WrongStep
<1>4. FirstRound' <=> FirstRound
  BY <1>1 DEF FirstRound
<1>5. SomeWrong' <=> SomeWrong
  BY <1>1 DEF SomeWrong
<1>6. (Errors(text))' <=> Errors(text')
  BY DEF Errors
<1> QED BY <1>1, <1>3, <1>4, <1>5, <1>6 DEF RefuseInv

\* A step that leaves the listing, the round and the lexer alone.
LEMMA ToolStep ==
  ASSUME RefuseInv, NEW t, listing' = listing, listed' = listed, tool' = t,
         t # "lex", t = "refused" /\ listed = << >> => SomeWrong,
         t \in {"assembled", "cpu"} => ~SomeWrong
  PROVE  RefuseInv'
  BY DEF RefuseInv, FirstRound, SomeWrong

\* Each action of the program keeps the invariant.
LEMMA RefuseStep ==
  ASSUME RefuseInv, [Next]_vars
  PROVE  RefuseInv'
<1>1. CASE LoadSource
  BY <1>1, LoadStep
<1>2. CASE LexStep
  BY <1>2, LexerStep
<1>3. CASE Refuse
  <2>1. /\ tool = "lex" /\ phase = "done" /\ Errors(text) /\ tool' = "refused"
        /\ listing' = listing /\ listed' = listed
    BY <1>3 DEF Refuse, HasError, Errors
  <2>2. listed = << >> => SomeWrong
    BY <2>1 DEF RefuseInv, FirstRound
  <2> QED BY <2>1, <2>2, ToolStep
<1>4. CASE Assemble
  <2>1. /\ tool = "lex" /\ phase = "done" /\ ~Errors(text) /\ tool' = "assembled"
        /\ listing' = listing /\ listed' = listed
    BY <1>4 DEF Assemble, HasError, Errors
  <2>2. ~SomeWrong
    BY <2>1 DEF RefuseInv, FirstRound
  <2> QED BY <2>1, <2>2, ToolStep
<1>5. CASE WriteMem
  <2>1. /\ tool = "assembled" /\ tool' = "cpu"
        /\ listing' = listing /\ listed' = listed
    BY <1>5 DEF WriteMem
  <2>2. ~SomeWrong
    BY <2>1 DEF RefuseInv
  <2> QED BY <2>1, <2>2, ToolStep
<1>6. CASE Run
  <2>1. tool = "cpu" /\ tool' = tool /\ listing' = listing /\ listed' = listed
    BY <1>6 DEF Run
  <2>2. ~SomeWrong
    BY <2>1 DEF RefuseInv
  <2> QED BY <2>1, <2>2, ToolStep
<1>7. CASE Relist
  <2>1. /\ tool = "assembled" /\ tool' = "lex" /\ listing' = listing
        /\ listed' # << >>
    BY <1>7 DEF Relist
  <2>2. ~SomeWrong /\ listing \in Listings
    BY <2>1 DEF RefuseInv
  <2> QED BY <2>1, <2>2 DEF RefuseInv, FirstRound, SomeWrong
<1>8. CASE UNCHANGED vars
  BY <1>8 DEF vars, lexerVars, RefuseInv, FirstRound, SomeWrong, Underway,
     BehindRight, AllRight, Errors, IsText, SourceOf
<1> QED BY <1>1, <1>2, <1>3, <1>4, <1>5, <1>6, <1>7, <1>8 DEF Next

(***************************************************************************)
(* main() of assem.cpp, after lex(), looks for an error in the text        *)
(* records and exits with -1 if there is one.  For every set of listings   *)
(* of complete statements: a program source is refused only if one of its  *)
(* statements is wrong, and none with a wrong statement gets to the        *)
(* Assembler, the processor or disassem.                                   *)
(***************************************************************************)
THEOREM RefusesWrongSources == Spec => []RefusedIfWrong
<1>1. Init => RefuseInv
  BY RefuseInit
<1>2. RefuseInv /\ [Next]_vars => RefuseInv'
  BY RefuseStep
<1>3. RefuseInv => RefusedIfWrong
  BY DEF RefuseInv, RefusedIfWrong, SomeWrong
<1> QED BY <1>1, <1>2, <1>3, PTL DEF Spec
=============================================================================
