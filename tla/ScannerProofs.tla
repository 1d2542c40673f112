---------------------------- MODULE ScannerProofs ----------------------------
(***************************************************************************)
(* Proofs about Scanner for any texts, tables, buffer and number of tokens *)
(* a statement asks for.  The argument: where the cursor goes is the first *)
(* place of its kind (SkipIs, FindIs, CopyEndIs), so a step either eats    *)
(* one blank or comment, or takes one token, or does not move (NextIs);    *)
(* what lies between the last token and the cursor is then accounted for   *)
(* (GapInv), and the cursor never is in a comment (CleanInv).              *)
(***************************************************************************)
EXTENDS Scanner, FiniteSetTheorems, SequenceTheorems, TLAPS

(* A set of naturals that is not empty has a least element: the first      *)
(* place where a loop of the scanner stops.                                *)
LEMMA LeastElement ==
  ASSUME NEW T \in SUBSET Nat, T # {}
  PROVE  \E x \in T : \A y \in T : x <= y
PROOF
<1> DEFINE Seg(k) == 0..(k - 1)
           U == {Seg(k) : k \in T}
           R == StrictSubsetOrdering(Nat)
<1>1. IsWellFoundedOn(R, FiniteSubsetsOf(Nat))
  BY FS_StrictSubsetOrderingWellFounded
<1>2. U \subseteq FiniteSubsetsOf(Nat)
  <2> SUFFICES ASSUME NEW k \in T PROVE Seg(k) \in FiniteSubsetsOf(Nat)
    OBVIOUS
  <2>1. IsFiniteSet(0..(k - 1))
    BY FS_Interval
  <2> QED BY <2>1 DEF FiniteSubsetsOf
<1>3. U # {}
  OBVIOUS
<1> HIDE DEF R, U
<1>4. PICK x \in U : \A y \in U : ~(<<y, x>> \in R)
  BY <1>1, <1>2, <1>3, WFMin
<1>5. PICK k \in T : x = Seg(k)
  BY DEF U
<1>6. ASSUME NEW m \in T, m < k PROVE FALSE
  <2>1. Seg(m) \in U
    BY DEF U
  <2>2. Seg(m) \in SUBSET Nat /\ Seg(k) \in SUBSET Nat
    OBVIOUS
  <2>3. Seg(m) \subseteq Seg(k) /\ m \in Seg(k) /\ m \notin Seg(m)
    BY <1>6
  <2>4. <<Seg(m), Seg(k)>> \in R
    BY <2>2, <2>3 DEF R, StrictSubsetOrdering
  <2> QED BY <2>1, <2>4, <1>4, <1>5
<1> QED BY <1>6
-----------------------------------------------------------------------------
(***************************************************************************)
(* The cursor.                                                             *)
(***************************************************************************)
Place == Nat \ {0}

\* A text is a sequence of characters, with '\0' behind it.
LEMMA AtIs ==
  ASSUME text \in Texts
  PROVE  /\ text \in Seq(STRING) /\ Len(text) \in Nat
         /\ \A p \in Place : p > Len(text) => At(p) = "NUL"
         /\ \A p \in 1..Len(text) : At(p) = text[p]
         /\ \A p \in 1..(Len(text) - 1) : At(p) # "NUL"
         /\ \A p, q \in Place : At(p) = "NUL" /\ p <= q => At(q) = "NUL"
<1>1. text \in Seq(STRING) /\ \A i \in 1..(Len(text) - 1) : text[i] # "NUL"
  BY TextsAssumption
<1>2. Len(text) \in Nat /\ DOMAIN text = 1..Len(text)
  BY <1>1
<1> QED BY <1>1, <1>2 DEF At, Place

\* The first place from p on whose character is not in S.
LEMMA SkipIs ==
  ASSUME text \in Texts, NEW p \in Place, NEW S, "NUL" \notin S
  PROVE  /\ Skip(p, S) \in Place /\ p <= Skip(p, S)
         /\ At(Skip(p, S)) \notin S
         /\ \A r \in p..(Skip(p, S) - 1) : At(r) \in S
<1> DEFINE E == Len(text) + p + 1
           T == {q \in p..E : At(q) \notin S}
<1>1. Len(text) \in Nat /\ E \in Place /\ E \in p..E /\ At(E) = "NUL"
  BY AtIs DEF Place
<1>2. T \in SUBSET Nat /\ E \in T
  BY <1>1 DEF Place
<1>3. PICK q \in T : \A y \in T : q <= y
  BY <1>2, LeastElement
<1>4. q \in p..E /\ At(q) \notin S /\ \A r \in p..(q - 1) : At(r) \in S
  BY <1>1, <1>3 DEF Place
<1>5. /\ Skip(p, S) \in p..E /\ At(Skip(p, S)) \notin S
      /\ \A r \in p..(Skip(p, S) - 1) : At(r) \in S
  BY <1>4 DEF Skip
<1> QED BY <1>1, <1>5 DEF Place

\* The first place from p on whose character is in S or '\0'.
LEMMA FindIs ==
  ASSUME text \in Texts, NEW p \in Place, NEW S
  PROVE  /\ Find(p, S) \in Place /\ p <= Find(p, S)
         /\ At(Find(p, S)) \in S \cup {"NUL"}
         /\ \A r \in p..(Find(p, S) - 1) : At(r) \notin S \cup {"NUL"}
<1> DEFINE E == Len(text) + p + 1
           T == {q \in p..E : At(q) \in S \cup {"NUL"}}
<1>1. Len(text) \in Nat /\ E \in Place /\ E \in p..E /\ At(E) = "NUL"
  BY AtIs DEF Place
<1>2. T \in SUBSET Nat /\ E \in T
  BY <1>1 DEF Place
<1>3. PICK q \in T : \A y \in T : q <= y
  BY <1>2, LeastElement
<1>4. /\ q \in p..E /\ At(q) \in S \cup {"NUL"}
      /\ \A r \in p..(q - 1) : At(r) \notin S \cup {"NUL"}
  BY <1>1, <1>3 DEF Place
<1>5. /\ Find(p, S) \in p..E /\ At(Find(p, S)) \in S \cup {"NUL"}
      /\ \A r \in p..(Find(p, S) - 1) : At(r) \notin S \cup {"NUL"}
  BY <1>4 DEF Find
<1> QED BY <1>1, <1>5 DEF Place

\* A comment that ends, ends at a newline, the first from p on.
LEMMA CommentEndIs ==
  ASSUME text \in Texts, NEW p \in Place, ~CommentOpen(p)
  PROVE  /\ CommentEnd(p) \in Place /\ p <= CommentEnd(p)
         /\ At(CommentEnd(p)) = "\n"
         /\ \A r \in p..(CommentEnd(p) - 1) : At(r) # "\n"
BY FindIs DEF CommentEnd, CommentOpen, Exhausted

\* The place behind the text, or that of its '\0'.
LEMMA TextEndIs ==
  ASSUME text \in Texts
  PROVE  /\ TextEnd \in Place /\ TextEnd <= Len(text) + 1
         /\ \A r \in Place : r < TextEnd => At(r) # "NUL"
         /\ \A r \in Place : r >= TextEnd => At(r) = "NUL"
<1>1. Len(text) \in Nat /\ Len(text) + 1 \in Place /\ 1 \in Place
      /\ At(Len(text) + 1) = "NUL"
  BY AtIs DEF Place
<1>2. /\ TextEnd \in Place /\ At(TextEnd) = "NUL"
      /\ \A r \in 1..(TextEnd - 1) : At(r) # "NUL"
  BY <1>1, FindIs DEF TextEnd
<1>3. TextEnd <= Len(text) + 1
  BY <1>1, <1>2 DEF Place
<1>4. \A r \in Place : r >= TextEnd => At(r) = "NUL"
  BY <1>2, AtIs DEF Place
<1> QED BY <1>2, <1>3, <1>4 DEF Place
-----------------------------------------------------------------------------
(***************************************************************************)
(* A token.                                                                *)
(***************************************************************************)
Comma(p) == At(p) = ","

LEMMA MarksAre ==
  /\ "#" \notin Blank \cup Separators /\ "#" \in Stops /\ "\n" \in Blank
  /\ "NUL" \notin Blank /\ "NUL" \notin Separators
  /\ \A x \in Stops : x = "#" \/ x \in Blank \cup Separators
  /\ \A p : Comma(p) => At(p) \in Separators
BY DEF Blank, Separators, Stops, Comma

\* scanToken() stops at the first stop, or when the buffer is full.
LEMMA CopyEndIs ==
  ASSUME text \in Texts, NEW q \in Place
  PROVE  /\ CopyEnd(q) \in q..(q + TokenMax)
         /\ CopyEnd(q) = q + TokenMax \/ At(CopyEnd(q)) \in Stops
         /\ \A k \in q..(CopyEnd(q) - 1) : At(k) \notin Stops
<1> DEFINE E == q + TokenMax
           T == {r \in q..E : r = E \/ At(r) \in Stops}
<1>1. E \in Place /\ E \in q..E
  BY ScannerAssumption DEF Place
<1>2. T \in SUBSET Nat /\ E \in T
  BY <1>1 DEF Place
<1>3. PICK r \in T : \A y \in T : r <= y
  BY <1>2, LeastElement
<1>4. /\ r \in q..E /\ (r = E \/ At(r) \in Stops)
      /\ \A k \in q..(r - 1) : At(k) \notin Stops
  BY <1>1, <1>3 DEF Place
<1> QED BY <1>4 DEF CopyEnd

\* What scanToken() leaves when it began at p.
IsCut(c, p) ==
  /\ c.from \in Place /\ p <= c.from
  /\ \A r \in p..(c.from - 1) : At(r) \in Blank \cup Separators
  /\ c.end \in c.from..(c.from + TokenMax)
  /\ \A r \in c.from..(c.end - 1) : At(r) \notin Stops
  /\ c.end = c.from + TokenMax \/ At(c.end) \in Stops
  /\ c.chars \in Seq(STRING) /\ Len(c.chars) \in Nat
  /\ c.from + Len(c.chars) <= c.end
  /\ c.chars = SubSeq(text, c.from, c.from + Len(c.chars) - 1)
  /\ c.from + Len(c.chars) <= Len(text) + 1 \/ Len(c.chars) = 0
  /\ \A r \in (c.from + Len(c.chars))..(c.end - 1) : At(r) = "NUL"
  /\ \/ Len(c.chars) = TokenMax \/ At(c.end) = "NUL"
     \/ c.end # c.from + TokenMax
IsScan(c, p) == IsCut(c, p) /\ (c.full <=> c.end = c.from + TokenMax)

LEMMA ScanIs ==
  ASSUME text \in Texts, NEW p \in Place
  PROVE  IsScan(Scan(p), p)
<1> DEFINE w == Skip(p, Blank)
           q == TokenStart(p)
           r == CopyEnd(q)
           e == IF r > TextEnd THEN TextEnd - 1 ELSE r - 1
           s == SubSeq(text, q, e)
<1>1. w \in Place /\ p <= w /\ \A k \in p..(w - 1) : At(k) \in Blank
  BY SkipIs DEF Blank
<1>2. q = Skip(w, Separators)
  BY DEF TokenStart
<1> HIDE DEF w, q
<1>3. q \in Place /\ w <= q /\ \A k \in w..(q - 1) : At(k) \in Separators
  BY <1>1, <1>2, SkipIs DEF Separators
<1>4. p <= q /\ \A k \in p..(q - 1) : At(k) \in Blank \cup Separators
  BY <1>1, <1>3 DEF Place
<1>5. /\ r \in q..(q + TokenMax)
      /\ r = q + TokenMax \/ At(r) \in Stops
      /\ \A k \in q..(r - 1) : At(k) \notin Stops
  BY <1>3, CopyEndIs
<1> HIDE DEF r
<1>6. /\ TextEnd \in Place /\ TextEnd <= Len(text) + 1 /\ Len(text) \in Nat
      /\ text \in Seq(STRING) /\ \A k \in Place : k >= TextEnd => At(k) = "NUL"
  BY TextEndIs, AtIs
<1> DEFINE c == Scan(p)
<1>7. c.chars = s /\ c.from = q /\ c.end = r /\ (c.full <=> r = q + TokenMax)
  BY DEF Scan, Copy, q, r
<1> HIDE DEF c
<1>8. e \in Int /\ e <= r - 1 /\ e <= Len(text) /\ (e # r - 1 => e = TextEnd - 1)
      /\ r \in Place
  BY <1>3, <1>5, <1>6, ScannerAssumption DEF Place
<1> HIDE DEF e
<1>9. ASSUME q <= e PROVE IsCut(c, p)
  <2>1. s \in Seq(STRING) /\ Len(s) = e - q + 1
    BY <1>3, <1>6, <1>8, <1>9 DEF Place
  <2>2. q + Len(s) = e + 1
    BY <2>1, <1>3, <1>8 DEF Place
  <2>3. \A k \in (q + Len(s))..(r - 1) : At(k) = "NUL"
    BY <2>2, <1>3, <1>6, <1>8, <1>9 DEF Place
  <2>4. Len(s) = TokenMax \/ At(r) = "NUL" \/ r # q + TokenMax
    BY <2>1, <1>3, <1>6, <1>8, <1>9, ScannerAssumption DEF Place
  <2> QED BY <1>3, <1>4, <1>5, <1>6, <1>7, <1>8, <1>9, <2>1, <2>2, <2>3, <2>4
          DEF IsCut, Place
<1>10. ASSUME q > e PROVE IsCut(c, p)
  <2>1. s = << >> /\ Len(s) = 0
    BY <1>3, <1>6, <1>8, <1>10 DEF Place
  <2>2. SubSeq(text, q, q + Len(s) - 1) = << >>
    BY <2>1, <1>3, <1>6 DEF Place
  <2>3. \A k \in (q + Len(s))..(r - 1) : At(k) = "NUL"
    BY <2>1, <1>3, <1>6, <1>8, <1>10 DEF Place
  <2>4. At(r) = "NUL" \/ r # q + TokenMax
    BY <1>3, <1>6, <1>8, <1>10, ScannerAssumption DEF Place
  <2>5. << >> \in Seq(STRING)
    OBVIOUS
  <2> QED BY <1>3, <1>4, <1>5, <1>6, <1>7, <1>8, <2>1, <2>2, <2>3, <2>4, <2>5
          DEF IsCut, Place
<1>11. IsCut(c, p)
  BY <1>3, <1>8, <1>9, <1>10 DEF Place
<1>12. c.full <=> c.end = c.from + TokenMax
  BY <1>7
<1> QED BY <1>11, <1>12 DEF IsScan, c

\* Where the cursor goes behind a token.
LEMMA AfterIs ==
  ASSUME text \in Texts, NEW p \in Place, NEW c, IsScan(c, p), ~RunsOut(c)
  PROVE  /\ After(c) \in Place /\ c.end <= After(c) /\ p <= After(c)
         /\ \/ /\ At(c.end) = "#" /\ At(After(c)) = "\n"
               /\ \A r \in c.end..(After(c) - 1) : At(r) # "\n"
            \/ Comma(c.end) /\ After(c) = c.end + 1
            \/ ~AtComment(c) /\ After(c) = c.end
<1>1. c.end \in Place /\ p <= c.end
  BY ScannerAssumption DEF IsScan, IsCut, Place
<1>2. CASE AtComment(c)
  <2>1. At(c.end) = "#" /\ ~CommentOpen(c.end) /\ After(c) = CommentEnd(c.end)
    BY <1>2 DEF AtComment, RunsOut, After
  <2> QED BY <1>1, <2>1, CommentEndIs DEF Place
<1>3. CASE ~AtComment(c) /\ Comma(c.end)
  <2>1. After(c) = c.end + 1
    BY <1>3, Zenon DEF After, Comma
  <2>2. After(c) \in Place /\ c.end <= After(c) /\ p <= After(c)
    BY <1>1, <2>1 DEF Place
  <2> QED BY <1>3, <2>1, <2>2
<1>4. CASE ~AtComment(c) /\ ~Comma(c.end)
  <2>1. After(c) = c.end
    BY <1>4, Zenon DEF After, Comma
  <2>2. After(c) \in Place /\ c.end <= After(c) /\ p <= After(c)
    BY <1>1, <2>1 DEF Place
  <2> QED BY <1>4, <2>1, <2>2
<1> QED BY <1>2, <1>3, <1>4
-----------------------------------------------------------------------------
(***************************************************************************)
(* The steps.                                                              *)
(***************************************************************************)
Kinds == {"char", "string", "directive", "literal", "register", "none",
          "instr", "label"}
Token == [kind : Kinds, value : {Value(s) : s \in Seq(STRING)},
          offset : {Offset(s) : s \in Seq(STRING)} \cup {<< >>},
          from : Place, to : Place, next : Place, head : BOOLEAN]

TypeInv ==
  /\ text \in Texts /\ tokens \in Seq(Token)
  /\ ScannerTypeOK
  /\ mode = "line" => asked < MaxTokens
  /\ mode = "label" => asked = 1

Marks == {";", "#"}

\* The cursor has passed a blank or a comment.
Ate ==
  /\ mode = "loop" /\ mode' = "loop" /\ tokens' = tokens
  /\ cur_line' = Arrived(pos, pos')
  /\ \/ At(pos) \in Blank /\ pos' = pos + 1
     \/ /\ At(pos) \in Marks /\ ~CommentOpen(pos)
        /\ pos' = CommentEnd(pos)

\* A token looked for from p on has been delivered.
Took(p) ==
  /\ ~RunsOut(Scan(p))
  /\ tokens' = Append(tokens, Delivered(Scan(p)))
  /\ pos' = After(Scan(p))
  /\ cur_line' = Arrived(pos, After(Scan(p)))

\* Nothing but the mode changes.
Rested == UNCHANGED <<pos, cur_line, tokens>>

TookHere ==
  /\ Took(pos) /\ mode \in {"loop", "line"}
  /\ \/ mode' \in {"loop", "line"}
     \/ mode' = "label" /\ mode = "loop" /\ Kind(Scan(pos).chars) = "label"
TookBehindLabel ==
  Took(pos + 1) /\ mode = "label" /\ mode' \in {"loop", "line"}
Stopped ==
  /\ Rested
  /\ \/ mode' = mode
     \/ mode' \in {"lost", "undefined"}
     \/ mode' = "done" /\ Exhausted(pos)

LEMMA NextIs ==
  ASSUME [Next]_vars
  PROVE  text' = text /\ (Stopped \/ Ate \/ TookHere \/ TookBehindLabel)
<1> USE DEF Stopped, Rested
<1>1. CASE EatSpace
  BY <1>1 DEF EatSpace, Ate
<1>2. CASE EatComment
  BY <1>2 DEF EatComment, Ate, Fails, Marks
<1>3. CASE LineStart
  BY <1>3 DEF LineStart, NextToken, Goes, Fails, Parsing, TookHere, Took
<1>4. CASE AfterLabel
  BY <1>4 DEF AfterLabel, NextToken, Goes, Fails, Parsing, TookBehindLabel, Took
<1>5. CASE More
  BY <1>5 DEF More, NextToken, Goes, Fails, Parsing, TookHere, Took
<1>6. CASE Finish
  BY <1>6 DEF Finish
<1>7. CASE UNCHANGED vars
  BY <1>7 DEF vars
<1> QED BY <1>1, <1>2, <1>3, <1>4, <1>5, <1>6, <1>7 DEF Next

LEMMA TokenFields ==
  \A t \in Token : /\ t.from \in Place /\ t.to \in Place /\ t.next \in Place
                  /\ t.kind \in Kinds
BY DEF Token

LEMMA KindType == ASSUME NEW s PROVE Kind(s) \in Kinds
BY DEF Kind, Kinds

\* What is known of a token t that was looked for from p on, and of the place
\* q the cursor is left at.
Reading(t, p, q) ==
  /\ p <= t.from /\ t.from <= t.to /\ t.to <= t.next /\ t.next = q
  /\ \A r \in p..(t.from - 1) : At(r) \in Blank \cup Separators
  /\ \A r \in t.from..(t.to - 1) : r \in DOMAIN text /\ text[r] \notin Stops
  /\ \A r \in t.to..(q - 1) : At(r) \in Separators \cup {"NUL"}
                              \/ CommentedBy(r, {"#"}) \/ r \notin DOMAIN text
  /\ \A r \in p..(q - 1) : At(r) # "#" \/ At(q) = "\n"
  /\ \/ At(q) \in Blank \cup Separators \cup {"NUL"}
     \/ Comma(t.next - 1) \/ t.to - t.from = TokenMax

\* What a token says is what its characters say.
Says(t, s) ==
  /\ t.kind = Kind(s) /\ t.value = Value(s)
  /\ t.offset = IF InParens(s) THEN Offset(s) ELSE << >>

LEMMA ReadingIs ==
  ASSUME text \in Texts, NEW p \in Place, NEW c, IsScan(c, p), ~RunsOut(c),
         NEW q \in Place, q = After(c),
         NEW t, t.from = c.from, t.to = c.from + Len(c.chars), t.next = q
  PROVE  Reading(t, p, q)
<1> DEFINE m == Len(c.chars)
<1>1. t.from = c.from /\ t.to = c.from + m /\ t.next = q
  OBVIOUS
<1>2. c.end <= q /\ p <= q
  BY AfterIs
<1>3. \/ /\ At(c.end) = "#" /\ At(q) = "\n"
         /\ \A r \in c.end..(q - 1) : At(r) # "\n"
      \/ Comma(c.end) /\ q = c.end + 1
      \/ ~AtComment(c) /\ q = c.end
  BY AfterIs
<1>4. Len(text) \in Nat /\ DOMAIN text = 1..Len(text)
  BY AtIs
<1>5. \A r \in 1..Len(text) : At(r) = text[r]
  BY AtIs
<1>6. AtComment(c) <=> At(c.end) = "#" /\ c.end # c.from + TokenMax
  BY DEF AtComment, IsScan
<1>7. \A r \in p..(c.from - 1) : At(r) \in Blank \cup Separators
  BY DEF IsScan, IsCut
<1>8. \A r \in c.from..(c.end - 1) : At(r) \notin Stops
  BY DEF IsScan, IsCut
<1>9. c.end = c.from + TokenMax \/ At(c.end) \in Stops
  BY DEF IsScan, IsCut
<1>10. \A r \in (c.from + m)..(c.end - 1) : At(r) = "NUL"
  BY DEF IsScan, IsCut
<1>11. m = TokenMax \/ At(c.end) = "NUL" \/ c.end # c.from + TokenMax
  BY DEF IsScan, IsCut
<1>12. /\ c.from \in Place /\ m \in Nat /\ c.end \in Place /\ c.from + m <= c.end
       /\ c.from + m \in Place /\ c.from <= c.from + m /\ p <= c.from
       /\ c.from + m <= Len(text) + 1 \/ m = 0
  BY DEF IsScan, IsCut, Place
<1> HIDE DEF m
<1>13. p <= t.from /\ t.from <= t.to /\ t.to <= t.next /\ t.next = q
  BY <1>1, <1>2, <1>12 DEF Place
<1>14. \A r \in p..(t.from - 1) : At(r) \in Blank \cup Separators
  BY <1>1, <1>7
<1>15. ASSUME NEW r \in t.from..(t.to - 1)
       PROVE  r \in DOMAIN text /\ text[r] \notin Stops
  <2>1. r \in c.from..(c.end - 1) /\ r \in 1..Len(text)
    BY <1>1, <1>4, <1>12, <1>15 DEF Place
  <2> QED BY <1>4, <1>5, <1>8, <2>1
<1>16. ASSUME NEW r \in t.to..(q - 1), r \in DOMAIN text
       PROVE  At(r) \in Separators \cup {"NUL"} \/ CommentedBy(r, {"#"})
  <2>1. r \in Place /\ t.to = c.from + m /\ t.to <= r /\ r < q
    BY <1>1, <1>12, <1>16 DEF Place
  <2>2. CASE r < c.end
    <3>1. r \in (c.from + m)..(c.end - 1)
      BY <1>12, <2>1, <2>2 DEF Place
    <3> QED BY <1>10, <3>1
  <2>3. CASE r >= c.end /\ At(c.end) = "#"
             /\ \A k \in c.end..(q - 1) : At(k) # "\n"
    <3>1. c.end \in 1..r /\ c.end \in 1..Len(text) /\ r \in 1..Len(text)
      BY <1>4, <1>12, <1>16, <2>1, <2>3 DEF Place
    <3>2. text[c.end] = "#"
      BY <1>5, <2>3, <3>1
    <3>3. ASSUME NEW k \in c.end..r PROVE text[k] # "\n"
      <4>1. c.end \in Nat /\ 1 <= c.end /\ r \in Nat /\ r <= Len(text)
            /\ r < q /\ q \in Nat /\ Len(text) \in Nat
        BY <1>4, <1>12, <2>1, <3>1 DEF Place
      <4>2. k \in Nat /\ c.end <= k /\ k <= r
        BY <3>3, <4>1
      <4>3. k \in c.end..(q - 1)
        BY <4>1, <4>2
      <4>4. k \in 1..Len(text)
        BY <4>1, <4>2
      <4> QED BY <1>5, <2>3, <4>3, <4>4
    <3> QED BY <3>1, <3>2, <3>3 DEF CommentedBy
  <2>4. CASE r >= c.end /\ Comma(c.end) /\ q = c.end + 1
    <3>1. r = c.end
      BY <1>12, <2>1, <2>4 DEF Place
    <3> QED BY <2>4, <3>1, MarksAre
  <2>5. r < c.end \/ r >= c.end
    BY <1>12, <2>1 DEF Place
  <2>6. r >= c.end => q # c.end
    BY <1>12, <2>1 DEF Place
  <2> QED BY <1>3, <2>2, <2>3, <2>4, <2>5, <2>6
<1>17. ASSUME NEW r \in p..(q - 1), At(q) # "\n" PROVE At(r) # "#"
  <2>1. r \in Place /\ p <= r /\ r < q
    BY <1>17 DEF Place
  <2>2. r \in p..(c.from - 1) \/ r \in c.from..(c.end - 1) \/ r >= c.end
    BY <1>12, <2>1 DEF Place
  <2>3. CASE r >= c.end
    <3>1. q = c.end \/ (Comma(c.end) /\ q = c.end + 1)
      BY <1>3, <1>17
    <3>2. r = c.end /\ Comma(c.end)
      BY <1>12, <2>1, <2>3, <3>1 DEF Place
    <3> QED BY <3>2, MarksAre
  <2> QED BY <1>7, <1>8, <2>2, <2>3, MarksAre
<1>18. \/ At(q) \in Blank \cup Separators \cup {"NUL"}
       \/ Comma(t.next - 1) \/ t.to - t.from = TokenMax
  <2>1. CASE At(q) = "\n"
    BY <2>1, MarksAre
  <2>2. CASE Comma(c.end) /\ q = c.end + 1
    <3>1. t.next - 1 = c.end
      BY <1>1, <1>12, <2>2 DEF Place
    <3> QED BY <2>2, <3>1
  <2>3. CASE ~AtComment(c) /\ q = c.end
    <3>1. CASE m = TokenMax
      BY <1>1, <1>12, <3>1, ScannerAssumption DEF Place
    <3>2. CASE c.end # c.from + TokenMax
      BY <1>6, <1>9, <2>3, <3>2, MarksAre
    <3> QED BY <1>11, <2>3, <3>1, <3>2
  <2> QED BY <1>3, <2>1, <2>2, <2>3
<1> QED BY <1>13, <1>14, <1>15, <1>16, <1>17, <1>18 DEF Reading

LEMMA TookIs ==
  ASSUME text \in Texts, pos \in Place, NEW p \in Place, pos <= p, Took(p),
         NEW t, t = Delivered(Scan(p))
  PROVE  /\ t \in Token
         /\ pos' \in Place /\ p <= pos' /\ Reading(t, p, pos')
         /\ Says(t, SubSeq(text, t.from, t.to - 1))
         /\ t.head <=> mode = "loop"
         /\ t.kind = Kind(Scan(p).chars)
<1> DEFINE c == Scan(p)
           m == Len(c.chars)
           q == pos'
<1>1. IsScan(c, p) /\ IsCut(c, p)
  BY ScanIs DEF IsScan
<1>2. /\ t.kind = Kind(c.chars) /\ t.value = Value(c.chars)
      /\ t.offset = IF InParens(c.chars) THEN Offset(c.chars) ELSE << >>
  BY DEF Delivered
<1>3. t.from = c.from /\ t.to = c.from + m /\ t.next = q
  BY DEF Delivered, Took
<1>4. t.head <=> mode = "loop"
  BY DEF Delivered
<1>5. ~RunsOut(c)
  BY DEF Took
<1>6. q \in Place /\ c.end <= q /\ p <= q /\ q = After(c)
  BY <1>1, <1>5, AfterIs DEF Took
<1>7. t \in Token
  <2>1. c.chars \in Seq(STRING)
    BY <1>1 DEF IsCut
  <2>2. t = [kind |-> t.kind, value |-> t.value, offset |-> t.offset,
             from |-> t.from, to |-> t.to, next |-> t.next, head |-> t.head]
        /\ t.head \in BOOLEAN
    BY DEF Delivered
  <2>3. t.kind \in Kinds
    BY <1>2, KindType
  <2>4. t.from \in Place /\ t.to \in Place /\ t.next \in Place
    BY <1>1, <1>6, <1>3 DEF IsCut, Place
  <2>5. t.value \in {Value(s) : s \in Seq(STRING)}
    BY <1>2, <2>1
  <2>6. t.offset \in {Offset(s) : s \in Seq(STRING)} \cup {<< >>}
    BY <1>2, <2>1
  <2> QED BY <2>2, <2>3, <2>4, <2>5, <2>6 DEF Token
<1>8. Says(t, SubSeq(text, t.from, t.to - 1))
  <2>1. SubSeq(text, t.from, t.to - 1) = c.chars
    <3>1. c.chars = SubSeq(text, c.from, c.from + m - 1)
      BY <1>1 DEF IsCut
    <3>2. c.from \in Nat /\ m \in Nat
      BY <1>1 DEF IsCut, Place
    <3> HIDE DEF c, m
    <3>3. t.to - 1 = c.from + m - 1
      BY <1>3, <3>2
    <3> QED BY <1>3, <3>1, <3>3
  <2> QED BY <1>2, <2>1 DEF Says
<1>9. Reading(t, p, q)
  BY <1>1, <1>5, <1>6, <1>3, ReadingIs DEF Took
<1> HIDE DEF q
<1> QED BY <1>2, <1>4, <1>6, <1>7, <1>8, <1>9 DEF c, q
-----------------------------------------------------------------------------
(***************************************************************************)
(* Types and lines.                                                        *)
(***************************************************************************)
LinesTo(p) == {i \in 2..p : At(i) = "\n"}

\* The newlines up to q are those up to p and those behind it.
LEMMA LinesAdd ==
  ASSUME NEW p \in Place, NEW q \in Place, p <= q
  PROVE  /\ NewLines(p + 1, q) \in Nat
         /\ Cardinality(LinesTo(q)) = Cardinality(LinesTo(p)) + NewLines(p + 1, q)
<1> DEFINE B == {r \in (p + 1)..q : At(r) = "\n"}
<1>1. IsFiniteSet(2..p) /\ IsFiniteSet((p + 1)..q)
  BY FS_Interval DEF Place
<1>2. LinesTo(p) \in SUBSET (2..p) /\ B \in SUBSET ((p + 1)..q)
  BY DEF LinesTo
<1>3. IsFiniteSet(LinesTo(p)) /\ IsFiniteSet(B)
  BY <1>1, <1>2, FS_Subset
<1>4. LinesTo(q) = LinesTo(p) \cup B
  BY DEF LinesTo, Place
<1>5. LinesTo(p) \cap B = {}
  BY DEF LinesTo, Place
<1>6. /\ Cardinality(LinesTo(p)) \in Nat /\ Cardinality(B) \in Nat
      /\ Cardinality(LinesTo(p) \cap B) = 0
  BY <1>3, <1>5, FS_CardinalityType, FS_EmptySet
<1> HIDE DEF B
<1>7. Cardinality(LinesTo(q)) = Cardinality(LinesTo(p)) + Cardinality(B)
  <2>1. Cardinality(LinesTo(p) \cup B)
          = Cardinality(LinesTo(p)) + Cardinality(B) - 0
    BY <1>3, <1>6, FS_Union
  <2> QED BY <1>4, <1>6, <2>1
<1> QED BY <1>6, <1>7 DEF NewLines, B

\* Where a step takes the cursor and the line counter.
LEMMA MovesIs ==
  ASSUME text \in Texts, pos \in Place, cur_line \in Place,
         Stopped \/ Ate \/ TookHere \/ TookBehindLabel
  PROVE  /\ pos' \in Place /\ pos <= pos'
         /\ \/ cur_line' = cur_line /\ pos' = pos
            \/ cur_line' = Arrived(pos, pos')
<1>1. CASE Stopped
  BY <1>1 DEF Stopped, Rested, Place
<1>2. CASE Ate
  <2>1. CASE pos' = pos + 1
    BY <1>2, <2>1 DEF Ate, Place
  <2>2. CASE pos' # pos + 1
    <3>1. ~CommentOpen(pos) /\ pos' = CommentEnd(pos)
      BY <1>2, <2>2 DEF Ate
    <3> QED BY <1>2, <3>1, CommentEndIs DEF Ate
  <2> QED BY <2>1, <2>2
<1>3. ASSUME NEW p \in {pos, pos + 1}, Took(p)
      PROVE  pos' \in Place /\ pos <= pos' /\ cur_line' = Arrived(pos, pos')
  <2>1. p \in Place /\ pos <= p
    BY DEF Place
  <2>2. pos' \in Place /\ p <= pos'
    BY <1>3, <2>1, TookIs
  <2>3. cur_line' = Arrived(pos, pos')
    BY <1>3 DEF Took
  <2> QED BY <2>1, <2>2, <2>3 DEF Place
<1> QED BY <1>1, <1>2, <1>3 DEF TookHere, TookBehindLabel

\* What a token adds to those delivered.
LEMMA TokensAre ==
  ASSUME text \in Texts, pos \in Place, tokens \in Seq(Token),
         Stopped \/ Ate \/ TookHere \/ TookBehindLabel
  PROVE  \/ tokens' = tokens
         \/ \E t \in Token : /\ tokens' = Append(tokens, t)
                            /\ t.from <= t.to /\ t.to <= t.next
<1>1. ASSUME NEW p \in {pos, pos + 1}, Took(p)
      PROVE  \E t \in Token : /\ tokens' = Append(tokens, t)
                             /\ t.from <= t.to /\ t.to <= t.next
  <2>1. p \in Place /\ pos <= p
    BY DEF Place
  <2>2. Delivered(Scan(p)) \in Token /\ Reading(Delivered(Scan(p)), p, pos')
    BY <1>1, <2>1, TookIs
  <2>3. /\ Delivered(Scan(p)).from <= Delivered(Scan(p)).to
        /\ Delivered(Scan(p)).to <= Delivered(Scan(p)).next
    BY <2>2 DEF Reading
  <2> QED BY <1>1, <2>2, <2>3 DEF Took
<1> QED BY <1>1 DEF Stopped, Rested, Ate, TookHere, TookBehindLabel

\* How many tokens have been asked for.
LEMMA AskedIs ==
  ASSUME TypeInv, [Next]_vars
  PROVE  /\ asked' \in 0..MaxTokens
         /\ mode' \in {"loop", "label", "line", "done", "lost", "undefined"}
         /\ mode' = "line" => asked' < MaxTokens
         /\ mode' = "label" => asked' = 1
<1> USE ScannerAssumption DEF TypeInv, ScannerTypeOK
<1>1. CASE EatSpace
  BY <1>1 DEF EatSpace
<1>2. CASE EatComment
  BY <1>2 DEF EatComment, Fails
<1>3. CASE LineStart
  <2>1. /\ mode = "loop" /\ asked' = 1
        /\ \E c \in {Scan(pos)} :
             NextToken(c, IF Kind(c.chars) = "label" THEN {"label"} ELSE Parsing(1))
    BY <1>3, Zenon DEF LineStart
  <2> QED BY <2>1 DEF NextToken, Goes, Fails, Parsing
<1>4. CASE AfterLabel
  BY <1>4 DEF AfterLabel, NextToken, Goes, Fails, Parsing
<1>5. CASE More
  BY <1>5 DEF More, NextToken, Goes, Fails, Parsing
<1>6. CASE Finish
  BY <1>6 DEF Finish
<1>7. CASE UNCHANGED vars
  BY <1>7 DEF vars
<1> QED BY <1>1, <1>2, <1>3, <1>4, <1>5, <1>6, <1>7 DEF Next

LEMMA TypeStep ==
  ASSUME TypeInv, [Next]_vars
  PROVE  TypeInv'
<1>1. text' = text /\ (Stopped \/ Ate \/ TookHere \/ TookBehindLabel)
  BY NextIs
<1>2. text \in Texts /\ pos \in Place /\ cur_line \in Place /\ tokens \in Seq(Token)
  BY DEF TypeInv, ScannerTypeOK, Place
<1>3. text' \in Texts
  BY <1>1, <1>2
<1>4. /\ pos' \in Place /\ pos <= pos'
      /\ cur_line' = cur_line \/ cur_line' = Arrived(pos, pos')
  BY <1>1, <1>2, MovesIs
<1>5. cur_line' \in Place
  <2>1. NewLines(pos + 1, pos') \in Nat
    BY <1>2, <1>4, LinesAdd
  <2> QED BY <1>2, <1>4, <2>1 DEF Arrived, Place
<1>6. /\ tokens' \in Seq(Token)
      /\ \A k \in DOMAIN tokens' : tokens'[k].from <= tokens'[k].to
                                  /\ tokens'[k].to <= tokens'[k].next
  <2>1. \A k \in DOMAIN tokens : tokens[k].from <= tokens[k].to
                                /\ tokens[k].to <= tokens[k].next
    BY DEF TypeInv, ScannerTypeOK
  <2>2. ASSUME NEW t \in Token, tokens' = Append(tokens, t),
               t.from <= t.to, t.to <= t.next
        PROVE  <1>6!1 /\ <1>6!2
    BY <1>2, <2>1, <2>2
  <2> QED BY <1>1, <1>2, <2>1, <2>2, TokensAre
<1>7. \A k \in DOMAIN tokens' : tokens'[k].kind \in Kinds
  BY <1>6, TokenFields
<1> QED BY <1>3, <1>4, <1>5, <1>6, <1>7, AskedIs
        DEF TypeInv, ScannerTypeOK, Kinds, Place

(* Every variable keeps its type, and a token ends where it begins or      *)
(* later, before the cursor: nextToken() never puts a character back.      *)
THEOREM TypeCorrect == Spec => []ScannerTypeOK
<1>1. Init => TypeInv
  <2> SUFFICES ASSUME Init PROVE TypeInv
    OBVIOUS
  <2> QED BY ScannerAssumption DEF Init, TypeInv, ScannerTypeOK
<1>2. TypeInv /\ [Next]_vars => TypeInv'
  BY TypeStep
<1>3. TypeInv => ScannerTypeOK
  BY DEF TypeInv
<1> QED BY <1>1, <1>2, <1>3, PTL DEF Spec

LEMMA Typed == Spec => []TypeInv
<1>1. Init => TypeInv
  <2> SUFFICES ASSUME Init PROVE TypeInv
    OBVIOUS
  <2> QED BY ScannerAssumption DEF Init, TypeInv, ScannerTypeOK
<1>2. TypeInv /\ [Next]_vars => TypeInv'
  BY TypeStep
<1> QED BY <1>1, <1>2, PTL DEF Spec

(* The line counter is the number of newlines up to the cursor, however    *)
(* blanks, comments, separators and the character after a label are passed *)
(* (advance() counts on arrival, so no caller may skip or repeat one).     *)
THEOREM LinesAreCounted == Spec => []LinesCounted
<1>1. Init => LinesCounted
  <2> SUFFICES ASSUME Init PROVE LinesCounted
    OBVIOUS
  <2>1. {i \in 2..pos : At(i) = "\n"} = {}
    BY DEF Init
  <2> QED BY <2>1, FS_EmptySet DEF Init, LinesCounted
<1>2. TypeInv /\ LinesCounted /\ [Next]_vars => LinesCounted'
  <2> SUFFICES ASSUME TypeInv, LinesCounted, [Next]_vars PROVE LinesCounted'
    OBVIOUS
  <2>1. text' = text /\ (Stopped \/ Ate \/ TookHere \/ TookBehindLabel)
    BY NextIs
  <2>2. text \in Texts /\ pos \in Place /\ cur_line \in Place
    BY DEF TypeInv, ScannerTypeOK, Place
  <2>3. /\ pos' \in Place /\ pos <= pos'
        /\ \/ cur_line' = cur_line /\ pos' = pos
           \/ cur_line' = Arrived(pos, pos')
    BY <2>1, <2>2, MovesIs
  <2>4. {i \in 2..pos' : At(i)' = "\n"} = LinesTo(pos')
    BY <2>1 DEF LinesTo, At
  <2>5. cur_line = 1 + Cardinality(LinesTo(pos))
    BY DEF LinesCounted, LinesTo
  <2>6. Cardinality(LinesTo(pos')) \in Nat /\ Cardinality(LinesTo(pos)) \in Nat
    <3>1. \A p \in Place : IsFiniteSet(2..p) /\ LinesTo(p) \in SUBSET (2..p)
      BY FS_Interval DEF LinesTo, Place
    <3> QED BY <2>2, <2>3, <3>1, FS_Subset, FS_CardinalityType
  <2>7. cur_line' = 1 + Cardinality(LinesTo(pos'))
    <3>1. CASE cur_line' = cur_line /\ pos' = pos
      BY <2>5, <3>1
    <3>2. CASE cur_line' = Arrived(pos, pos')
      <4>1. cur_line' = cur_line + NewLines(pos + 1, pos')
        BY <3>2 DEF Arrived
      <4>2. /\ NewLines(pos + 1, pos') \in Nat
            /\ Cardinality(LinesTo(pos'))
                 = Cardinality(LinesTo(pos)) + NewLines(pos + 1, pos')
        BY <2>2, <2>3, LinesAdd
      <4> QED BY <2>5, <2>6, <4>1, <4>2
    <3> QED BY <2>3, <3>1, <3>2
  <2> QED BY <2>4, <2>7 DEF LinesCounted
<1> QED BY <1>1, <1>2, Typed, PTL DEF Spec
-----------------------------------------------------------------------------
(***************************************************************************)
(* What lies between the tokens.                                           *)
(***************************************************************************)
\* Character i, behind token k and before the next, may be left out.
Fine(i, k) ==
  \/ text[i] \in Blank \cup Separators \cup {"NUL"}
  \/ CommentedBy(i, {"#", ";"})
  \/ k > 0 /\ i = tokens[k].next /\ Eaten(tokens[k])
Gap(k, q) == \A i \in Ended(k)..(q - 1) : i \in DOMAIN text => Fine(i, k)

\* The cursor is behind a label, at a character that may be lost.
AtLabelEnd(t) ==
  /\ t.next = pos /\ t.head /\ t.kind = "label"
  /\ \/ At(pos) \in Blank \cup Separators \cup {"NUL"}
     \/ Comma(t.next - 1) \/ t.to - t.from = TokenMax

GapInv ==
  /\ \A k \in 0..(Len(tokens) - 1) : Gap(k, tokens[k + 1].from)
  /\ Gap(Len(tokens), pos)
  /\ \A k \in 1..(Len(tokens) - 1) : tokens[k].next <= tokens[k + 1].from
  /\ tokens # << >> => tokens[Len(tokens)].next <= pos
  /\ mode = "label" => tokens # << >> /\ AtLabelEnd(tokens[Len(tokens)])
  /\ mode = "done" => Exhausted(pos)

\* Nothing changes for the gaps behind tokens that are there already.
LEMMA GapKept ==
  ASSUME text' = text, tokens \in Seq(Token),
         tokens' = tokens \/ \E t \in Token : tokens' = Append(tokens, t),
         NEW k \in 0..Len(tokens)
  PROVE  /\ Ended(k)' = Ended(k)
         /\ \A i : Fine(i, k) => Fine(i, k)'
         /\ \A q : Gap(k, q) => Gap(k, q)'
<1>1. k # 0 => tokens'[k] = tokens[k]
  OBVIOUS
<1>2. Ended(k)' = Ended(k)
  BY <1>1 DEF Ended
<1>3. ASSUME NEW i, Fine(i, k) PROVE Fine(i, k)'
  <2>1. CASE k = 0
    <3>1. ~(k > 0)
      BY <2>1
    <3> QED BY <1>3, <3>1, Zenon DEF Fine, CommentedBy
  <2>2. CASE k # 0
    <3>1. tokens'[k] = tokens[k]
      BY <1>1, <2>2
    <3> QED BY <1>3, <3>1, Zenon DEF Fine, CommentedBy, Eaten, At
  <2> QED BY <2>1, <2>2
<1>4. ASSUME NEW q, Gap(k, q) PROVE Gap(k, q)'
  <2> SUFFICES ASSUME NEW i \in Ended(k)'..(q - 1), i \in DOMAIN text'
               PROVE  Fine(i, k)'
    BY DEF Gap
  <2>1. Fine(i, k)
    BY <1>2, <1>4 DEF Gap
  <2> QED BY <1>3, <2>1
<1> QED BY <1>2, <1>3, <1>4

\* A step that delivers nothing passes blanks and comments.
LEMMA GapEaten ==
  ASSUME TypeInv, GapInv, text' = text, Stopped \/ Ate
  PROVE  GapInv'
<1>1. text \in Texts /\ pos \in Place /\ tokens \in Seq(Token) /\ tokens' = tokens
  BY DEF TypeInv, ScannerTypeOK, Place, Stopped, Rested, Ate
<1>2. Len(tokens) \in Nat
  BY <1>1
<1>3. \A k \in 0..Len(tokens) : \A q : Gap(k, q) => Gap(k, q)'
  BY <1>1, GapKept
<1>4. ASSUME NEW k \in 0..(Len(tokens) - 1)
      PROVE  Gap(k, tokens[k + 1].from)'
  <2>1. k \in 0..Len(tokens) /\ Gap(k, tokens[k + 1].from)
    BY <1>2, <1>4 DEF GapInv
  <2> QED BY <1>1, <1>3, <2>1
<1>5. Ended(Len(tokens))' = Ended(Len(tokens))
      /\ \A i : Fine(i, Len(tokens)) => Fine(i, Len(tokens))'
  BY <1>1, <1>2, GapKept
<1>6. pos' \in Place /\ pos <= pos'
  BY <1>1, MovesIs DEF TypeInv, ScannerTypeOK, Place
<1>7. ASSUME NEW i \in pos..(pos' - 1), i \in DOMAIN text
      PROVE  Fine(i, Len(tokens))
  <2>1. Ate
    BY <1>1, <1>7 DEF Stopped, Rested, Place
  <2>2. /\ Len(text) \in Nat /\ DOMAIN text = 1..Len(text)
        /\ \A r \in 1..Len(text) : At(r) = text[r]
    BY <1>1, AtIs
  <2>3. CASE At(pos) \in Blank /\ pos' = pos + 1
    <3>1. i = pos
      BY <1>1, <1>7, <2>3 DEF Place
    <3>2. text[i] \in Blank
      BY <1>7, <2>2, <2>3, <3>1
    <3> QED BY <3>2 DEF Fine
  <2>4. CASE At(pos) \in Marks /\ ~CommentOpen(pos) /\ pos' = CommentEnd(pos)
    <3>1. \A r \in Place : pos <= r /\ r < pos' => At(r) # "\n"
      BY <1>1, <1>6, <2>4, CommentEndIs DEF Place
    <3>2. /\ pos \in 1..i /\ pos \in 1..Len(text) /\ i \in 1..Len(text)
          /\ i < pos' /\ pos' \in Int
      BY <1>1, <1>7, <1>6, <2>2 DEF Place
    <3>3. text[pos] \in Marks
      BY <2>2, <2>4, <3>2
    <3>4. ASSUME NEW k \in pos..i PROVE text[k] # "\n"
      <4>1. pos \in Int /\ 1 <= pos /\ i \in Int /\ i <= Len(text)
            /\ Len(text) \in Nat
        BY <2>2, <3>2
      <4>2. k \in Int /\ pos <= k /\ k <= i
        BY <3>4, <4>1
      <4>3. k \in Place /\ k < pos' /\ k \in 1..Len(text)
        BY <3>2, <4>1, <4>2 DEF Place
      <4> QED BY <2>2, <3>1, <4>2, <4>3
    <3>5. CommentedBy(i, {"#", ";"})
      BY <3>2, <3>3, <3>4, Zenon DEF CommentedBy, Marks
    <3> QED BY <3>5 DEF Fine
  <2> QED BY <2>1, <2>3, <2>4 DEF Ate
<1>8. Gap(Len(tokens), pos)'
  <2> SUFFICES ASSUME NEW i \in Ended(Len(tokens))..(pos' - 1), i \in DOMAIN text
               PROVE  Fine(i, Len(tokens))
    BY <1>1, <1>5 DEF Gap
  <2>1. \A j \in Ended(Len(tokens))..(pos - 1) :
          j \in DOMAIN text => Fine(j, Len(tokens))
    BY DEF GapInv, Gap
  <2>2. i \in Int /\ i <= pos' - 1 /\ Ended(Len(tokens)) <= i
    OBVIOUS
  <2> QED BY <1>1, <1>7, <2>1, <2>2 DEF Place
<1>9. tokens # << >> => tokens[Len(tokens)].next \in Int
                        /\ tokens[Len(tokens)].next <= pos
  <2>1. tokens # << >> => tokens[Len(tokens)] \in Token
    BY <1>1
  <2> QED BY <2>1, TokenFields DEF GapInv, Place
<1>10. tokens # << >> => tokens[Len(tokens)].next <= pos'
  BY <1>1, <1>6, <1>9 DEF Place
<1>11. mode' = "label" => tokens # << >> /\ AtLabelEnd(tokens[Len(tokens)])'
  BY <1>1 DEF GapInv, AtLabelEnd, Stopped, Rested, Ate, Comma, At
<1>12. mode' = "done" => Exhausted(pos)'
  BY DEF GapInv, Stopped, Rested, Ate, Exhausted, At
<1> QED BY <1>1, <1>4, <1>8, <1>10, <1>11, <1>12 DEF GapInv

\* A step that delivers a token leaves nothing out on the way to it.
LEMMA GapTaken ==
  ASSUME TypeInv, GapInv, text' = text, NEW p, Took(p),
         \/ TookHere /\ p = pos
         \/ TookBehindLabel /\ p = pos + 1
  PROVE  GapInv'
<1>0. PICK t, n : t = Delivered(Scan(p)) /\ n = Len(tokens)
  OBVIOUS
<1>1. /\ text \in Texts /\ pos \in Place /\ tokens \in Seq(Token)
      /\ p \in Place /\ pos <= p /\ p <= pos + 1
  BY DEF TypeInv, ScannerTypeOK, Place
<1>2. /\ t \in Token /\ pos' \in Place /\ p <= pos' /\ Reading(t, p, pos')
      /\ t.head <=> mode = "loop"
      /\ t.kind = Kind(Scan(p).chars)
  BY <1>0, <1>1, TookIs
<1>3. tokens' = Append(tokens, t)
  BY <1>0 DEF Took
<1>4. /\ n \in Nat /\ Len(text) \in Nat /\ DOMAIN text = 1..Len(text)
      /\ \A r \in 1..Len(text) : At(r) = text[r]
  BY <1>0, <1>1, AtIs
<1>5. mode' = "label" => t.head /\ t.kind = "label"
  BY <1>2 DEF TookHere, TookBehindLabel
<1>6. /\ Len(tokens') = n + 1 /\ tokens'[n + 1] = t /\ tokens' # << >>
      /\ \A k \in 1..n : tokens'[k] = tokens[k]
  BY <1>0, <1>1, <1>2, <1>3
<1>7. \A k \in 0..n : /\ Ended(k)' = Ended(k)
                      /\ \A i : Fine(i, k) => Fine(i, k)'
                      /\ \A q : Gap(k, q) => Gap(k, q)'
  BY <1>0, <1>1, <1>2, <1>3, GapKept
<1>8. ASSUME NEW i \in Ended(n)..(t.from - 1), i \in DOMAIN text
      PROVE  Fine(i, n)
  <2>1. i \in Place /\ t.from \in Place /\ i < t.from
    BY <1>2, <1>4, <1>8, TokenFields DEF Place
  <2>2. CASE i < pos
    <3>1. i \in Ended(n)..(pos - 1)
      BY <1>1, <1>8, <2>1, <2>2 DEF Place
    <3> QED BY <1>0, <1>8, <3>1 DEF GapInv, Gap
  <2>3. CASE p <= i
    <3>1. i \in p..(t.from - 1)
      BY <1>1, <2>1, <2>3 DEF Place
    <3>2. text[i] \in Blank \cup Separators
      BY <1>2, <1>4, <1>8, <3>1 DEF Reading
    <3> QED BY <3>2 DEF Fine
  <2>4. CASE i = pos /\ i # p
    <3>1. mode = "label"
      BY <2>4 DEF TookBehindLabel
    <3>2. tokens # << >> /\ AtLabelEnd(tokens[n])
      BY <1>0, <3>1 DEF GapInv
    <3>3. n > 0
      BY <1>0, <1>1, <3>2
    <3>4. CASE At(pos) \in Blank \cup Separators \cup {"NUL"}
      BY <1>4, <1>8, <2>4, <3>4 DEF Fine
    <3>5. CASE Comma(tokens[n].next - 1) \/ tokens[n].to - tokens[n].from = TokenMax
      <4>1. Eaten(tokens[n])
        BY <3>2, <3>5, Zenon DEF AtLabelEnd, Eaten, Comma
      <4> QED BY <2>4, <3>2, <3>3, <4>1 DEF Fine, AtLabelEnd
    <3> QED BY <3>2, <3>4, <3>5 DEF AtLabelEnd
  <2>5. i < pos \/ p <= i \/ (i = pos /\ i # p)
    BY <1>1, <2>1 DEF Place
  <2> QED BY <2>2, <2>3, <2>4, <2>5
<1>9. Gap(n, t.from)
  BY <1>8 DEF Gap
<1>10. ASSUME NEW k \in 0..n PROVE Gap(k, tokens[k + 1].from)'
  <2>1. CASE k = n
    BY <1>4, <1>6, <1>7, <1>9, <2>1
  <2>2. CASE k # n
    <3>1. k \in 0..(n - 1) /\ tokens'[k + 1] = tokens[k + 1]
      BY <1>4, <1>6, <1>10, <2>2
    <3>2. Gap(k, tokens[k + 1].from)
      BY <1>0, <3>1 DEF GapInv
    <3> QED BY <1>7, <1>10, <3>1, <3>2
  <2> QED BY <2>1, <2>2
<1>11. ASSUME NEW i \in t.to..(pos' - 1), i \in DOMAIN text'
       PROVE  Fine(i, n + 1)'
  <2>1. At(i) \in Separators \cup {"NUL"} \/ CommentedBy(i, {"#"})
    BY <1>2, <1>11 DEF Reading
  <2>2. CASE At(i) \in Separators \cup {"NUL"}
    <3>1. text'[i] \in Separators \cup {"NUL"}
      BY <1>4, <1>11, <2>2
    <3> QED BY <3>1 DEF Fine
  <2>3. CASE CommentedBy(i, {"#"})
    <3>1. CommentedBy(i, {"#", ";"})'
      BY <2>3, Zenon DEF CommentedBy
    <3> QED BY <3>1 DEF Fine
  <2> QED BY <2>1, <2>2, <2>3
<1>12. Ended(n + 1)' = t.to
  BY <1>4, <1>6 DEF Ended
<1>13. Gap(n + 1, pos)'
  BY <1>11, <1>12 DEF Gap
<1>14. ASSUME NEW k \in 1..n PROVE tokens'[k].next <= tokens'[k + 1].from
  <2>1. CASE k = n
    <3>1. tokens[n] \in Token /\ tokens # << >>
      BY <1>0, <1>1, <1>14, <2>1
    <3>2. tokens[n].next \in Place /\ tokens[n].next <= pos
      BY <1>0, <3>1, TokenFields DEF GapInv
    <3>3. pos <= t.from
      BY <1>1, <1>2, TokenFields DEF Reading, Place
    <3>4. t.from \in Place /\ tokens[n].next <= t.from
      BY <1>1, <1>2, <3>2, <3>3, TokenFields DEF Place
    <3> QED BY <1>6, <1>14, <2>1, <3>4
  <2>2. CASE k # n
    <3>1. k \in 1..(n - 1) /\ tokens'[k] = tokens[k] /\ tokens'[k + 1] = tokens[k + 1]
      BY <1>4, <1>6, <1>14, <2>2
    <3> QED BY <1>0, <3>1 DEF GapInv
  <2> QED BY <2>1, <2>2
<1>15. tokens'[n + 1].next <= pos'
  BY <1>2, <1>6 DEF Reading, Place
<1>16. mode' = "label" => AtLabelEnd(tokens[n + 1])'
  <2> SUFFICES ASSUME mode' = "label" PROVE AtLabelEnd(tokens[n + 1])'
    OBVIOUS
  <2>1. t.next = pos'
    BY <1>2 DEF Reading
  <2>2. \/ At(pos') \in Blank \cup Separators \cup {"NUL"}
        \/ Comma(t.next - 1) \/ t.to - t.from = TokenMax
    BY <1>2 DEF Reading
  <2>3. tokens'[n + 1] = t
    BY <1>6
  <2> QED BY <1>5, <2>1, <2>2, <2>3, Zenon DEF AtLabelEnd, Comma, At
<1>17. mode' # "done"
  BY DEF TookHere, TookBehindLabel
<1>18. \A k \in 0..(Len(tokens') - 1) : k \in 0..n
  BY <1>4, <1>6
<1>19. \A k \in 1..(Len(tokens') - 1) : k \in 1..n
  BY <1>4, <1>6
<1> QED BY <1>6, <1>10, <1>13, <1>14, <1>15, <1>16, <1>17, <1>18, <1>19
        DEF GapInv

LEMMA GapStep ==
  ASSUME TypeInv, GapInv, [Next]_vars
  PROVE  GapInv'
<1>1. text' = text /\ (Stopped \/ Ate \/ TookHere \/ TookBehindLabel)
  BY NextIs
<1>2. CASE Stopped \/ Ate
  BY <1>1, <1>2, GapEaten
<1>3. CASE TookHere
  BY <1>1, <1>3, GapTaken DEF TookHere
<1>4. CASE TookBehindLabel
  BY <1>1, <1>4, GapTaken DEF TookBehindLabel
<1> QED BY <1>1, <1>2, <1>3, <1>4

(* Every character that is no blank, separator or comment is in one token, *)
(* tokens being in the order of the text, whatever the parser asks for; at *)
(* most the character behind a label that ',' or the buffer ended is lost. *)
THEOREM NothingIsLost == Spec => []NothingLost
<1>1. Init => GapInv
  BY DEF Init, GapInv, Gap, Ended
<1>2. TypeInv /\ GapInv /\ [Next]_vars => GapInv'
  BY GapStep
<1>3. TypeInv /\ GapInv => NothingLost
  <2> SUFFICES ASSUME TypeInv, GapInv PROVE NothingLost
    OBVIOUS
  <2>1. text \in Texts /\ pos \in Place /\ tokens \in Seq(Token)
    BY DEF TypeInv, ScannerTypeOK, Place
  <2>2. /\ Len(tokens) \in Nat /\ DOMAIN tokens = 1..Len(tokens)
        /\ Len(text) \in Nat /\ DOMAIN text = 1..Len(text)
    BY <2>1, AtIs
  <2>3. ASSUME NEW k \in 0..Len(tokens), k < Len(tokens) \/ mode = "done",
               NEW i \in Ended(k)..(Begins(k + 1) - 1), i \in DOMAIN text
        PROVE  Fine(i, k)
    <3>1. CASE k < Len(tokens)
      <4>1. k \in 0..(Len(tokens) - 1) /\ k + 1 \in DOMAIN tokens
        BY <2>2, <3>1
      <4>2. Begins(k + 1) = tokens[k + 1].from
        BY <4>1 DEF Begins
      <4> QED BY <2>3, <4>1, <4>2 DEF GapInv, Gap
    <3>2. CASE k = Len(tokens) /\ i < pos
      <4>1. i \in Ended(Len(tokens))..(pos - 1)
        BY <2>1, <2>3, <3>2 DEF Place
      <4> QED BY <2>3, <3>2, <4>1 DEF GapInv, Gap
    <3>3. CASE k = Len(tokens) /\ i >= pos
      <4>1. Exhausted(pos)
        BY <2>3, <2>2, <3>3 DEF GapInv
      <4>2. i \in 1..Len(text) /\ i \in Place
        BY <2>2, <2>3 DEF Place
      <4>3. At(i) = "NUL" /\ At(i) = text[i]
        BY <2>1, <3>3, <4>1, <4>2, AtIs DEF Exhausted
      <4> QED BY <4>3 DEF Fine
    <3>4. k < Len(tokens) \/ k = Len(tokens)
      <4>1. k \in 0..Len(tokens) /\ Len(tokens) \in Nat
        BY <2>2
      <4> QED BY <4>1
    <3>5. i \in Int /\ pos \in Int
      BY <2>1, <2>2, <2>3 DEF Place
    <3>6. i < pos \/ i >= pos
      BY <3>5
    <3> QED BY <3>1, <3>2, <3>3, <3>4, <3>6
  <2>4. \A k \in 1..(Len(tokens) - 1) : tokens[k].next <= tokens[k + 1].from
    BY DEF GapInv
  <2> QED BY <2>3, <2>4, Zenon DEF NothingLost, Fine
<1> QED BY <1>1, <1>2, <1>3, Typed, PTL DEF Spec
-----------------------------------------------------------------------------
(***************************************************************************)
(* Comments.                                                               *)
(***************************************************************************)
\* The comments that begin before p have ended there, but for those whose
\* '#' was taken for a ':'.
LineEnds(j, p) == \E e \in Place : j <= e /\ e <= p /\ At(e) = "\n"
Clean(p) == \A j \in Place : j < p /\ At(j) = "#" =>
                              LineEnds(j, p) \/ TakenForColon(j, Len(tokens))
\* Token t is in no comment, but for those of the first n tokens.
Uncommented(t, n) ==
  \A i \in t.from..(t.to - 1) : \A j \in 1..i :
    text[j] = "#" => (\E e \in j..i : text[e] = "\n") \/ TakenForColon(j, n)

CleanInv == Clean(pos) /\ \A k \in DOMAIN tokens : Uncommented(tokens[k], k - 1)

\* A place further on is in no comment if none begins on the way to it, or it
\* is where a line ends.
LEMMA CleanMoves ==
  ASSUME NEW p \in Place, NEW q \in Place, p <= q, Clean(p),
         \/ At(q) = "\n"
         \/ \A j \in Place : p <= j /\ j < q /\ At(j) = "#" =>
                               TakenForColon(j, Len(tokens))
  PROVE  Clean(q)
<1> SUFFICES ASSUME NEW j \in Place, j < q, At(j) = "#",
                    ~TakenForColon(j, Len(tokens))
             PROVE  LineEnds(j, q)
  BY DEF Clean
<1>1. CASE At(q) = "\n"
  BY <1>1 DEF Place, LineEnds
<1>2. CASE At(q) # "\n"
  <2>1. j < p
    BY <1>2 DEF Place
  <2>2. PICK k \in Place : j <= k /\ k <= p /\ At(k) = "\n"
    BY <2>1 DEF Clean, LineEnds
  <2>3. k <= q
    BY <2>2 DEF Place
  <2> QED BY <2>2, <2>3 DEF LineEnds
<1> QED BY <1>1, <1>2

\* A token taken from a place that is in no comment is in none, and the place
\* behind it is in none.
LEMMA CleanTaken ==
  ASSUME text \in Texts, NEW p \in Place, NEW q \in Place, p <= q, Clean(p),
         NEW t \in Token, Reading(t, p, q)
  PROVE  Clean(q) /\ Uncommented(t, Len(tokens))
<1>1. ASSUME NEW j \in Place, p <= j, j < q, At(q) # "\n"
      PROVE  At(j) # "#"
  <2>1. j \in p..(q - 1)
    BY <1>1 DEF Place
  <2> QED BY <1>1, <2>1 DEF Reading
<1>2. Clean(q)
  BY <1>1, CleanMoves
<1>3. ASSUME NEW i \in t.from..(t.to - 1), NEW j \in 1..i, text[j] = "#",
             ~TakenForColon(j, Len(tokens)),
             \A k \in j..i : text[k] # "\n"
      PROVE  FALSE
  <2>1. /\ t.from \in Place /\ t.to \in Place /\ p <= t.from /\ i < t.to
        /\ i \in Place /\ t.from <= i /\ j \in Place /\ j <= i
    BY <1>3, TokenFields DEF Reading, Place
  <2>2. /\ Len(text) \in Nat /\ DOMAIN text = 1..Len(text)
        /\ \A r \in 1..Len(text) : At(r) = text[r]
    BY AtIs
  <2>3. i \in DOMAIN text
    BY <1>3 DEF Reading
  <2>4. i \in 1..Len(text) /\ j \in 1..Len(text)
    BY <2>1, <2>2, <2>3 DEF Place
  <2>5. At(j) = "#"
    BY <1>3, <2>2, <2>4
  <2>6. CASE j < p
    <3>1. PICK k \in Place : j <= k /\ k <= p /\ At(k) = "\n"
      BY <1>3, <2>1, <2>5, <2>6 DEF Clean, LineEnds
    <3>2. k \in j..i /\ k \in 1..Len(text)
      BY <2>1, <2>2, <2>4, <3>1 DEF Place
    <3> QED BY <1>3, <2>2, <3>1, <3>2
  <2>7. CASE p <= j /\ j < t.from
    <3>1. j \in p..(t.from - 1)
      BY <2>1, <2>7 DEF Place
    <3>2. At(j) \in Blank \cup Separators
      BY <3>1 DEF Reading
    <3> QED BY <2>5, <3>2, MarksAre
  <2>8. CASE t.from <= j
    <3>1. j \in t.from..(t.to - 1)
      BY <2>1, <2>8 DEF Place
    <3>2. text[j] \notin Stops
      BY <3>1 DEF Reading
    <3> QED BY <1>3, <3>2, MarksAre
  <2>9. j < p \/ (p <= j /\ j < t.from) \/ t.from <= j
    BY <2>1 DEF Place
  <2> QED BY <2>6, <2>7, <2>8, <2>9
<1>4. Uncommented(t, Len(tokens))
  BY <1>3, Zenon DEF Uncommented
<1> QED BY <1>2, <1>4

\* The text being the same, so are its comments and what was taken for ':'.
LEMMA CleanKept ==
  ASSUME text' = text, tokens \in Seq(Token),
         tokens' = tokens \/ \E t \in Token : tokens' = Append(tokens, t)
  PROVE  /\ \A p : Clean(p) => Clean(p)'
         /\ \A t : \A n \in 0..Len(tokens) :
              Uncommented(t, n) => Uncommented(t, n)'
         /\ \A j : \A n \in 0..Len(tokens) :
              TakenForColon(j, n)' <=> TakenForColon(j, n)
<1>1. \A p : At(p)' = At(p)
  BY DEF At
<1>2. \A t : Eaten(t)' <=> Eaten(t)
  BY <1>1, Zenon DEF Eaten
<1>3. /\ Len(tokens) \in Nat /\ Len(tokens') \in Nat /\ Len(tokens) <= Len(tokens')
      /\ \A m \in 1..Len(tokens) : tokens'[m] = tokens[m]
  OBVIOUS
<1>4. ASSUME NEW j, NEW n \in 0..Len(tokens)
      PROVE  TakenForColon(j, n)' <=> TakenForColon(j, n)
  <2>1. \A m \in 1..n : m \in 1..Len(tokens)
    BY <1>3
  <2>2. \A m \in 1..n : tokens'[m] = tokens[m]
    BY <1>3, <2>1
  <2> QED BY <1>2, <2>2 DEF TakenForColon
<1>5. ASSUME NEW j, TakenForColon(j, Len(tokens))
      PROVE  TakenForColon(j, Len(tokens))'
  <2>1. PICK m \in 1..Len(tokens) : tokens[m].next = j /\ Eaten(tokens[m])
    BY <1>5 DEF TakenForColon
  <2>2. m \in 1..Len(tokens') /\ tokens'[m] = tokens[m]
    BY <1>3
  <2> QED BY <1>2, <2>1, <2>2 DEF TakenForColon
<1>6. \A p : Clean(p) => Clean(p)'
  BY <1>1, <1>5 DEF Clean, LineEnds
<1>7. \A t : \A n \in 0..Len(tokens) : Uncommented(t, n) => Uncommented(t, n)'
  BY <1>4 DEF Uncommented
<1> QED BY <1>4, <1>6, <1>7

\* A step that delivers nothing.
LEMMA CleanEaten ==
  ASSUME TypeInv, CleanInv, text' = text, Stopped \/ Ate
  PROVE  CleanInv'
<1>1. tokens' = tokens
  BY DEF Stopped, Rested, Ate
<1>2. /\ text \in Texts /\ pos \in Place /\ pos' \in Place /\ pos <= pos'
      /\ tokens \in Seq(Token)
  BY MovesIs DEF TypeInv, ScannerTypeOK, Place
<1>3. Clean(pos')
  <2>0. Clean(pos)
    BY DEF CleanInv
  <2>1. CASE Stopped
    BY <2>0, <2>1 DEF Stopped, Rested
  <2>2. CASE Ate /\ At(pos) \in Blank /\ pos' = pos + 1
    <3>1. \A j \in Place : pos <= j /\ j < pos' => j = pos
      BY <1>2, <2>2 DEF Place
    <3>2. At(pos) # "#"
      BY <2>2, MarksAre
    <3>3. \A j \in Place : pos <= j /\ j < pos' => At(j) # "#"
      BY <3>1, <3>2
    <3> QED BY <1>2, <2>0, <3>3, CleanMoves
  <2>3. CASE Ate /\ ~CommentOpen(pos) /\ pos' = CommentEnd(pos)
    <3>1. At(pos') = "\n"
      BY <1>2, <2>3, CommentEndIs
    <3> QED BY <1>2, <2>0, <3>1, CleanMoves
  <2> QED BY <2>1, <2>2, <2>3 DEF Ate
<1>4. Clean(pos)'
  BY <1>1, <1>2, <1>3, CleanKept
<1>5. ASSUME NEW k \in DOMAIN tokens PROVE Uncommented(tokens[k], k - 1)'
  <2>1. k - 1 \in 0..Len(tokens)
    BY <1>2
  <2>2. Uncommented(tokens[k], k - 1)
    BY DEF CleanInv
  <2>3. PICK t, n : t = tokens[k] /\ n = k - 1 /\ n \in 0..Len(tokens)
    BY <2>1
  <2>4. Uncommented(t, n)'
    BY <1>1, <1>2, <2>2, <2>3, CleanKept
  <2> QED BY <1>1, <2>3, <2>4 DEF Uncommented, TakenForColon
<1> QED BY <1>1, <1>4, <1>5 DEF CleanInv

\* A step that delivers a token.
LEMMA CleanGrows ==
  ASSUME TypeInv, GapInv, CleanInv, text' = text, NEW p, Took(p),
         \/ TookHere /\ p = pos
         \/ TookBehindLabel /\ p = pos + 1
  PROVE  CleanInv'
<1>0. PICK t, n, q : t = Delivered(Scan(p)) /\ n = Len(tokens) /\ q = pos'
  OBVIOUS
<1>1. /\ text \in Texts /\ pos \in Place /\ tokens \in Seq(Token)
      /\ p \in Place /\ pos <= p
  BY DEF TypeInv, ScannerTypeOK, Place
<1>2. t \in Token /\ q \in Place /\ p <= q /\ Reading(t, p, q)
  BY <1>0, <1>1, TookIs
<1>3. n \in Nat /\ DOMAIN tokens = 1..n /\ tokens' = Append(tokens, t)
  BY <1>0, <1>1 DEF Took
<1>4. /\ DOMAIN tokens' = 1..(n + 1) /\ tokens'[n + 1] = t
      /\ \A k \in 1..n : tokens'[k] = tokens[k] /\ k \in DOMAIN tokens'
      /\ \A k \in 1..(n + 1) : k \in 1..n \/ k = n + 1
  BY <1>0, <1>1, <1>2, <1>3
<1>5. Clean(pos) /\ \A k \in DOMAIN tokens : Uncommented(tokens[k], k - 1)
  BY DEF CleanInv
<1>6. ASSUME TookBehindLabel, At(pos) = "#"
      PROVE  TakenForColon(pos, Len(tokens))
  <2>1. tokens # << >> /\ AtLabelEnd(tokens[n])
    BY <1>0, <1>6 DEF TookBehindLabel, GapInv
  <2>2. n \in 1..Len(tokens)
    BY <1>0, <1>1, <1>3, <2>1
  <2>3. At(pos) \notin Blank \cup Separators \cup {"NUL"}
    BY <1>6, MarksAre
  <2>4. tokens[n].next = pos /\ Eaten(tokens[n])
    BY <2>1, <2>3, Zenon DEF AtLabelEnd, Eaten, Comma
  <2> QED BY <2>2, <2>4 DEF TakenForColon
<1>7. Clean(p)
  <2>1. CASE p = pos
    BY <1>5, <2>1
  <2>2. CASE p = pos + 1 /\ TookBehindLabel
    <3>1. \A j \in Place : pos <= j /\ j < p => j = pos
      BY <1>1, <2>2 DEF Place
    <3>2. \A j \in Place : pos <= j /\ j < p /\ At(j) = "#" =>
                             TakenForColon(j, Len(tokens))
      BY <1>6, <2>2, <3>1
    <3> QED BY <1>1, <1>5, <3>2, CleanMoves
  <2> QED BY <2>1, <2>2
<1>8. Clean(q) /\ Uncommented(t, n)
  BY <1>0, <1>1, <1>2, <1>7, CleanTaken
<1>9. /\ \A r : Clean(r) => Clean(r)'
      /\ \A u : \A m \in 0..n : Uncommented(u, m) => Uncommented(u, m)'
  BY <1>0, <1>1, <1>2, <1>3, CleanKept
<1>10. Clean(pos)'
  BY <1>0, <1>8, <1>9
<1>11. ASSUME NEW k \in 1..(n + 1)
       PROVE  Uncommented(tokens[k], k - 1)'
  <2>1. PICK u, m : u = tokens'[k] /\ m = k - 1
    OBVIOUS
  <2>2. m \in 0..n /\ Uncommented(u, m)
    BY <1>3, <1>4, <1>5, <1>8, <2>1
  <2>3. Uncommented(u, m)'
    BY <1>9, <2>2
  <2> QED BY <2>1, <2>3
<1> QED BY <1>4, <1>10, <1>11 DEF CleanInv

(* What follows '#' on a line is never in a token, whatever the parser asks *)
(* for and wherever nextToken() meets the '#'; the one '#' this is not true *)
(* of stands where ',' or the buffer ended a label and is passed as a ':'.  *)
THEOREM HashIsAlwaysComment == Spec => []HashIsComment
<1>1. Init => GapInv /\ CleanInv
  BY DEF Init, GapInv, Gap, Ended, CleanInv, Clean, LineEnds, Place
<1>2. TypeInv /\ GapInv /\ CleanInv /\ [Next]_vars => CleanInv'
  <2> SUFFICES ASSUME TypeInv, GapInv, CleanInv, [Next]_vars PROVE CleanInv'
    OBVIOUS
  <2>1. text' = text /\ (Stopped \/ Ate \/ TookHere \/ TookBehindLabel)
    BY NextIs
  <2>2. CASE Stopped \/ Ate
    BY <2>1, <2>2, CleanEaten
  <2>3. CASE TookHere
    BY <2>1, <2>3, CleanGrows DEF TookHere
  <2>4. CASE TookBehindLabel
    BY <2>1, <2>4, CleanGrows DEF TookBehindLabel
  <2> QED BY <2>1, <2>2, <2>3, <2>4
<1>3. TypeInv /\ GapInv /\ [Next]_vars => GapInv'
  BY GapStep
<1>4. CleanInv => HashIsComment
  BY DEF CleanInv, Uncommented, HashIsComment
<1> QED BY <1>1, <1>2, <1>3, <1>4, Typed, PTL DEF Spec
-----------------------------------------------------------------------------
(***************************************************************************)
(* Operands.                                                               *)
(***************************************************************************)
LEMMA RegisterIs ==
  ASSUME NEW r \in Registers
  PROVE  /\ r \in Seq(STRING) /\ Len(r) \in Nat \ {0} /\ r[1] = "$"
         /\ \A i \in 1..Len(r) : r[i] # ")"
<1>1. /\ r \in Seq(STRING) /\ Len(r) > 0 /\ r[1] = "$"
      /\ \A i \in 2..Len(r) : r[i] \notin {"$", ")"}
  BY RegistersAssumption
<1>2. Len(r) \in Nat /\ \A i \in 1..Len(r) : i = 1 \/ i \in 2..Len(r)
  BY <1>1
<1> QED BY <1>1, <1>2

LEMMA DigitIs ==
  ASSUME NEW x \in Digits
  PROVE  x \notin {"NUL", "$", "(", ")", "'", "."}
BY DigitsAssumption, Zenon

\* A row of one character.
RowOf(x, n) == [k \in 1..n |-> x]

LEMMA Row ==
  ASSUME NEW S, NEW x \in S, NEW n \in Nat
  PROVE  /\ [k \in 1..n |-> x] \in Seq(S)
         /\ Len([k \in 1..n |-> x]) = n
         /\ \A i \in 1..n : [k \in 1..n |-> x][i] = x
<1> DEFINE a == [k \in 1..n |-> x]
<1>1. DOMAIN a = 1..n /\ a \in [1..n -> S] /\ \A i \in 1..n : a[i] = x
  OBVIOUS
<1> HIDE DEF a
<1>2. a \in Seq(S)
  BY <1>1
<1>3. Len(a) = n
  BY <1>1, <1>2
<1> QED BY <1>1, <1>2, <1>3 DEF a

\* Three sequences in a row.
LEMMA ThreeInRow ==
  ASSUME NEW S, NEW a \in Seq(S), NEW u \in Seq(S), NEW b \in Seq(S)
  PROVE  /\ a \o u \o b \in Seq(S)
         /\ Len(a \o u \o b) = Len(a) + Len(u) + Len(b)
         /\ \A i \in 1..Len(a) : (a \o u \o b)[i] = a[i]
         /\ \A i \in 1..Len(u) : (a \o u \o b)[Len(a) + i] = u[i]
         /\ \A i \in 1..Len(b) : (a \o u \o b)[Len(a) + Len(u) + i] = b[i]
<1>1. PICK v \in Seq(S) : v = a \o u
  BY ConcatProperties
<1>2. PICK w \in Seq(S) : w = v \o b
  BY ConcatProperties
<1>3. Len(a) \in Nat /\ Len(u) \in Nat /\ Len(b) \in Nat
  OBVIOUS
<1>4. /\ Len(v) = Len(a) + Len(u)
      /\ \A i \in 1..(Len(a) + Len(u)) : v[i] = IF i <= Len(a) THEN a[i] ELSE u[i - Len(a)]
  BY <1>1, ConcatProperties
<1>5. /\ Len(w) = Len(v) + Len(b)
      /\ \A i \in 1..(Len(v) + Len(b)) : w[i] = IF i <= Len(v) THEN v[i] ELSE b[i - Len(v)]
  BY <1>2, ConcatProperties
<1>6. \A i \in 1..Len(a) : w[i] = a[i]
  BY <1>3, <1>4, <1>5
<1>7. ASSUME NEW i \in 1..Len(u) PROVE w[Len(a) + i] = u[i]
  <2>1. Len(a) + i \in 1..(Len(a) + Len(u)) /\ ~(Len(a) + i <= Len(a))
       /\ Len(a) + i - Len(a) = i /\ Len(a) + i <= Len(v) /\ Len(a) + i \in 1..(Len(v) + Len(b))
    BY <1>3, <1>4
  <2> QED BY <1>4, <1>5, <2>1
<1>8. ASSUME NEW i \in 1..Len(b) PROVE w[Len(a) + Len(u) + i] = b[i]
  <2>1. PICK j : j = Len(a) + Len(u) + i
    OBVIOUS
  <2>2. /\ j \in 1..(Len(v) + Len(b)) /\ ~(j <= Len(v))
        /\ j - Len(v) = i
    BY <1>3, <1>4, <2>1
  <2> QED BY <1>5, <2>1, <2>2
<1> QED BY <1>1, <1>2, <1>3, <1>4, <1>5, <1>6, <1>7, <1>8

LEMMA InRow ==
  ASSUME NEW S, NEW a \in Seq(S), NEW u \in Seq(S), NEW b \in Seq(S),
         NEW s, s = a \o u \o b
  PROVE  /\ s \in Seq(S) /\ Len(s) = Len(a) + Len(u) + Len(b)
         /\ \A i \in 1..Len(a) : s[i] = a[i]
         /\ \A i \in 1..Len(u) : s[Len(a) + i] = u[i]
         /\ \A i \in 1..Len(b) : s[Len(a) + Len(u) + i] = b[i]
BY ThreeInRow

\* A sequence between a row of one character and a row of another.
Between(s, x, u, y, n, S) ==
  /\ s \in Seq(S) /\ Len(u) \in Nat /\ Len(s) = n + Len(u) + n
  /\ \A i \in 1..n : s[i] = x
  /\ \A i \in (n + 1)..(n + Len(u)) : s[i] = u[i - n]
  /\ \A i \in (n + Len(u) + 1)..Len(s) : s[i] = y

LEMMA BetweenIs ==
  ASSUME NEW S, NEW x \in S, NEW y \in S, NEW u \in Seq(S), NEW n \in Nat,
         NEW s, s = RowOf(x, n) \o u \o RowOf(y, n)
  PROVE  Between(s, x, u, y, n, S)
<1>1. PICK a, b : a = RowOf(x, n) /\ b = RowOf(y, n)
  OBVIOUS
<1>2. /\ a \in Seq(S) /\ Len(a) = n /\ \A i \in 1..n : a[i] = x
      /\ b \in Seq(S) /\ Len(b) = n /\ \A i \in 1..n : b[i] = y
  BY <1>1, Row DEF RowOf
<1>3. s = a \o u \o b
  BY <1>1
<1>4. a \in Seq(S) /\ b \in Seq(S) /\ u \in Seq(S)
  BY <1>2
<1>5. /\ s \in Seq(S) /\ Len(s) = Len(a) + Len(u) + Len(b)
      /\ \A i \in 1..Len(a) : s[i] = a[i]
      /\ \A i \in 1..Len(u) : s[Len(a) + i] = u[i]
      /\ \A i \in 1..Len(b) : s[Len(a) + Len(u) + i] = b[i]
  BY ONLY <1>3, <1>4, InRow
<1>6. PICK l : l = Len(u) /\ l \in Nat
  OBVIOUS
<1>7. ASSUME NEW i \in (n + 1)..(n + l) PROVE s[i] = u[i - n]
  <2>1. i - n \in 1..l /\ n + (i - n) = i
    BY <1>6
  <2> QED BY ONLY <1>2, <1>5, <1>6, <2>1
<1>8. ASSUME NEW i \in (n + l + 1)..Len(s) PROVE s[i] = y
  <2>1. i - n - l \in 1..n /\ n + l + (i - n - l) = i
    BY <1>2, <1>5, <1>6
  <2>2. s[i] = b[i - n - l]
    BY ONLY <1>2, <1>5, <1>6, <2>1
  <2> QED BY <1>2, <2>1, <2>2
<1> QED BY <1>2, <1>5, <1>6, <1>7, <1>8 DEF Between

Chars == STRING \cup {"(", ")"}

LEMMA CharsAre == \A u \in Seq(STRING) : u \in Seq(Chars)
<1>1. PICK S, T : S = STRING /\ T = Chars
  OBVIOUS
<1>2. S \subseteq T
  BY <1>1 DEF Chars
<1> QED BY <1>1, <1>2, SeqMonotonic

LEMMA EnclosedIs ==
  ASSUME NEW u \in Seq(Chars), NEW n \in Nat, NEW s, s = Enclosed(u, n)
  PROVE  /\ s \in Seq(Chars) /\ Len(u) \in Nat /\ Len(s) = n + Len(u) + n
         /\ \A i \in 1..n : s[i] = "("
         /\ \A i \in (n + 1)..(n + Len(u)) : s[i] = u[i - n]
         /\ \A i \in (n + Len(u) + 1)..Len(s) : s[i] = ")"
<1>1. PICK x, y, S : x = "(" /\ y = ")" /\ S = Chars
  OBVIOUS
<1>2. x \in S /\ y \in S /\ u \in Seq(S) /\ n \in Nat
  BY <1>1 DEF Chars
<1>3. s = RowOf(x, n) \o u \o RowOf(y, n)
  BY <1>1 DEF Enclosed, RowOf
<1>4. Between(s, x, u, y, n, S)
  BY <1>2, <1>3, BetweenIs
<1> QED BY ONLY <1>1, <1>4 DEF Between

\* s is register r, its '$' at place p, behind n parentheses, an offset of d
\* digits and the parentheses between that and the register.
Spelled(s, r, p, n, d) ==
  /\ s \in Seq(STRING) /\ Len(s) \in Nat
  /\ p \in Place /\ n \in Nat /\ d \in Nat /\ n + d < p
  /\ p + Len(r) - 1 <= Len(s)
  /\ \A i \in 1..n : s[i] = "("
  /\ \A i \in (n + 1)..(n + d) : s[i] \in Digits
  /\ \A i \in (n + d + 1)..(p - 1) : s[i] = "("
  /\ \A i \in p..(p + Len(r) - 1) : s[i] = r[i - p + 1]
  /\ \A i \in (p + Len(r))..Len(s) : s[i] = ")"
  /\ p = 1 <=> p + Len(r) - 1 = Len(s)
  /\ d > 0 => n + d + 1 < p

LEMMA SpelledIs ==
  ASSUME NEW r \in Registers, NEW s, NEW n \in 0..Len(s),
         NEW d \in 0..(Len(s) - n), s \in Seq(STRING),
         IsOffset(SubSeq(s, n + 1, n + d)),
         \/ s = Enclosed(SubSeq(s, n + 1, n + d) \o Enclosed(r, 1), n)
         \/ d = 0 /\ s = Enclosed(r, n)
  PROVE  \E p \in Place : Spelled(s, r, p, n, d)
<1>1. /\ Len(s) \in Nat /\ n \in Nat /\ d \in Nat
      /\ r \in Seq(Chars) /\ Len(r) \in Nat \ {0}
  BY RegisterIs, CharsAre
<1>2. PICK o : o = SubSeq(s, n + 1, n + d)
  OBVIOUS
<1>3. o \in Seq(Chars) /\ Len(o) = d /\ \A i \in 1..d : o[i] \in Digits
  <2>1. \A i \in (n + 1)..(n + d) : i \in 1..Len(s)
    BY <1>1
  <2>2. o \in Seq(STRING) /\ Len(o) = IF n + 1 <= n + d THEN n + d - (n + 1) + 1 ELSE 0
    BY <1>1, <1>2, <2>1, SubSeqProperties
  <2>3. Len(o) = d
    BY <1>1, <2>2
  <2>4. DOMAIN o = 1..d
    BY <2>2, <2>3
  <2> QED BY <1>2, <2>2, <2>3, <2>4, CharsAre DEF IsOffset
<1>4. CASE s = Enclosed(o \o Enclosed(r, 1), n)
  <2>1. PICK e, u, l : e = Enclosed(r, 1) /\ u = o \o e /\ l = Len(r)
    OBVIOUS
  <2>2. /\ e \in Seq(Chars) /\ Len(e) = 1 + l + 1
        /\ \A i \in 1..1 : e[i] = "("
        /\ \A i \in 2..(1 + l) : e[i] = r[i - 1]
        /\ \A i \in (1 + l + 1)..Len(e) : e[i] = ")"
    <3>1. r \in Seq(Chars) /\ 1 \in Nat /\ e = Enclosed(r, 1)
      BY <1>1, <2>1
    <3>2. /\ e \in Seq(Chars) /\ Len(e) = 1 + Len(r) + 1
          /\ \A i \in 1..1 : e[i] = "("
          /\ \A i \in (1 + 1)..(1 + Len(r)) : e[i] = r[i - 1]
          /\ \A i \in (1 + Len(r) + 1)..Len(e) : e[i] = ")"
      BY ONLY <3>1, EnclosedIs
    <3> QED BY ONLY <2>1, <3>2
  <2>3. /\ u \in Seq(Chars) /\ Len(u) = d + Len(e)
        /\ \A i \in 1..(d + Len(e)) : u[i] = IF i <= d THEN o[i] ELSE e[i - d]
    <3>1. o \in Seq(Chars) /\ e \in Seq(Chars) /\ u = o \o e
      BY <1>3, <2>1, <2>2
    <3>2. /\ u \in Seq(Chars) /\ Len(u) = Len(o) + Len(e)
          /\ \A i \in 1..(Len(o) + Len(e)) :
               u[i] = IF i <= Len(o) THEN o[i] ELSE e[i - Len(o)]
      BY ONLY <3>1, ConcatProperties
    <3> QED BY ONLY <1>3, <3>2
  <2>4. /\ Len(s) = n + Len(u) + n
        /\ \A i \in 1..n : s[i] = "("
        /\ \A i \in (n + 1)..(n + Len(u)) : s[i] = u[i - n]
        /\ \A i \in (n + Len(u) + 1)..Len(s) : s[i] = ")"
    <3>1. u \in Seq(Chars) /\ n \in Nat /\ s = Enclosed(u, n)
      BY <1>1, <1>4, <2>1, <2>3
    <3> QED BY ONLY <3>1, EnclosedIs
  <2>5. l \in Nat \ {0} /\ Len(u) = d + l + 2 /\ Len(s) = n + d + l + 2 + n
    <3>1. /\ Len(e) = 1 + l + 1 /\ Len(u) = d + Len(e)
          /\ Len(s) = n + Len(u) + n /\ l \in Nat \ {0}
          /\ n \in Nat /\ d \in Nat
      BY ONLY <1>1, <2>1, <2>2, <2>3, <2>4
    <3> QED BY ONLY <3>1
  <2>6. ASSUME NEW i \in (n + 1)..(n + d + l + 2)
        PROVE  s[i] = IF i <= n + d THEN o[i - n] ELSE e[i - n - d]
    <3>1. i \in (n + 1)..(n + Len(u)) /\ i - n \in 1..(d + Len(e))
          /\ (i - n <= d <=> i <= n + d)
      BY <1>1, <2>2, <2>5
    <3>2. s[i] = u[i - n]
      BY <2>4, <3>1
    <3> QED BY <2>3, <3>1, <3>2
  <2>7. ASSUME NEW i \in (n + 1)..(n + d) PROVE s[i] \in Digits
    <3>1. i - n \in 1..d /\ i \in (n + 1)..(n + d + l + 2) /\ i <= n + d
      BY <1>1, <2>5
    <3> QED BY <1>3, <2>6, <3>1
  <2>8. s[n + d + 1] = "("
    <3>1. PICK i : i = n + d + 1
      OBVIOUS
    <3>2. i \in (n + 1)..(n + d + l + 2) /\ ~(i <= n + d) /\ i - n - d \in 1..1
      BY <1>1, <2>5, <3>1
    <3>3. s[i] = e[i - n - d] /\ e[i - n - d] = "("
      BY <2>2, <2>6, <3>2
    <3> QED BY <3>1, <3>3
  <2>9. ASSUME NEW i \in (n + d + 2)..(n + d + 2 + l - 1)
        PROVE  s[i] = r[i - (n + d + 2) + 1]
    <3>1. /\ i \in (n + 1)..(n + d + l + 2) /\ ~(i <= n + d)
          /\ i - n - d \in 2..(1 + l)
          /\ i - n - d - 1 = i - (n + d + 2) + 1
      BY <1>1, <2>5
    <3>2. s[i] = e[i - n - d] /\ e[i - n - d] = r[i - n - d - 1]
      BY <2>2, <2>6, <3>1
    <3> QED BY <3>1, <3>2
  <2>10. ASSUME NEW i \in (n + d + 2 + l)..Len(s) PROVE s[i] = ")"
    <3>1. CASE i = n + d + 2 + l
      <4>1. /\ i \in (n + 1)..(n + d + l + 2) /\ ~(i <= n + d)
            /\ i - n - d \in (1 + l + 1)..Len(e)
        BY <1>1, <2>2, <2>5, <3>1
      <4> QED BY <2>2, <2>6, <4>1
    <3>2. CASE i # n + d + 2 + l
      <4>1. i \in (n + Len(u) + 1)..Len(s)
        BY <1>1, <2>5, <3>2
      <4> QED BY <2>4, <4>1
    <3> QED BY <3>1, <3>2
  <2>11. PICK p : p = n + d + 2
    OBVIOUS
  <2>12. /\ p \in Place /\ n + d + 1 < p /\ n + d < p /\ p # 1
         /\ p + l - 1 < Len(s)
         /\ \A i \in (n + d + 1)..(p - 1) : i = n + d + 1
    BY <1>1, <2>5, <2>11 DEF Place
  <2>13. Spelled(s, r, p, n, d)
    BY <1>1, <2>1, <2>4, <2>5, <2>7, <2>8, <2>9, <2>10, <2>11, <2>12 DEF Spelled
  <2> QED BY <2>12, <2>13
<1>5. CASE d = 0 /\ s = Enclosed(r, n)
  <2>1. PICK l, p : l = Len(r) /\ p = n + 1
    OBVIOUS
  <2>2. /\ l \in Nat \ {0} /\ Len(s) = n + l + n
        /\ \A i \in 1..n : s[i] = "("
        /\ \A i \in (n + 1)..(n + l) : s[i] = r[i - n]
        /\ \A i \in (n + l + 1)..Len(s) : s[i] = ")"
    <3>1. r \in Seq(Chars) /\ n \in Nat /\ s = Enclosed(r, n)
          /\ Len(r) \in Nat \ {0}
      BY <1>1, <1>5
    <3>2. /\ Len(s) = n + Len(r) + n
          /\ \A i \in 1..n : s[i] = "("
          /\ \A i \in (n + 1)..(n + Len(r)) : s[i] = r[i - n]
          /\ \A i \in (n + Len(r) + 1)..Len(s) : s[i] = ")"
      BY ONLY <3>1, EnclosedIs
    <3> QED BY ONLY <2>1, <3>1, <3>2
  <2>3. ASSUME NEW i \in p..(p + l - 1) PROVE s[i] = r[i - p + 1]
    <3>1. i \in (n + 1)..(n + l) /\ i - p + 1 = i - n
      BY <1>1, <2>1, <2>2
    <3> QED BY <2>2, <3>1
  <2>4. ASSUME NEW i \in (p + l)..Len(s) PROVE s[i] = ")"
    <3>1. i \in (n + l + 1)..Len(s)
      BY <1>1, <2>1, <2>2
    <3> QED BY <2>2, <3>1
  <2>5. /\ p \in Place /\ n + d < p /\ p + l - 1 <= Len(s)
        /\ p = 1 <=> p + l - 1 = Len(s)
    BY <1>1, <1>5, <2>1, <2>2 DEF Place
  <2>6. \A i \in (n + 1)..(n + d) : FALSE
    BY <1>1, <1>5
  <2>7. \A i \in (n + d + 1)..(p - 1) : FALSE
    BY <1>1, <1>5, <2>1
  <2>8. Spelled(s, r, p, n, d)
    BY <1>1, <1>5, <2>1, <2>2, <2>3, <2>4, <2>5, <2>6, <2>7 DEF Spelled
  <2> QED BY <2>5, <2>8
<1> QED BY <1>2, <1>4, <1>5

\* extractReg() finds the register.
LEMMA NameIs ==
  ASSUME NEW r \in Registers, NEW s, NEW p, NEW n, NEW d, Spelled(s, r, p, n, d)
  PROVE  Dollar(s) = p /\ RegisterName(s) = r
<1>1. /\ r \in Seq(STRING) /\ Len(r) \in Nat \ {0} /\ r[1] = "$"
      /\ \A i \in 1..Len(r) : r[i] # ")"
  BY RegisterIs
<1>2. /\ s \in Seq(STRING) /\ Len(s) \in Nat /\ p \in Place /\ n \in Nat
      /\ d \in Nat /\ n + d < p /\ p + Len(r) - 1 <= Len(s)
  BY DEF Spelled
<1>3. s[p] = "$"
  BY <1>1, <1>2 DEF Spelled, Place
<1>4. ASSUME NEW i \in 1..(p - 1) PROVE s[i] # "$" /\ s[i] # ")"
  <2>1. i \in 1..n \/ i \in (n + 1)..(n + d) \/ i \in (n + d + 1)..(p - 1)
    BY <1>2 DEF Place
  <2>2. s[i] = "(" \/ s[i] \in Digits
    BY <2>1 DEF Spelled
  <2> QED BY <2>2, DigitIs
<1>5. Dollar(s) = p
  <2>1. p \in 1..(Len(s) + 1)
    BY <1>1, <1>2 DEF Place
  <2>2. ASSUME NEW x \in 1..(Len(s) + 1), x = Len(s) + 1 \/ s[x] = "$",
               \A k \in 1..(x - 1) : s[k] # "$"
        PROVE  x = p
    <3>1. p <= Len(s) /\ p \in Int /\ 1 <= p
      BY <1>1, <1>2 DEF Place
    <3>2. CASE x < p
      <4>1. x \in 1..(p - 1) /\ x # Len(s) + 1
        BY <1>2, <2>2, <3>1, <3>2
      <4> QED BY <1>4, <2>2, <4>1
    <3>3. CASE p < x
      <4>1. p \in 1..(x - 1)
        BY <1>2, <2>2, <3>1, <3>3
      <4> QED BY <1>3, <2>2, <4>1
    <3> QED BY <3>1, <3>2, <3>3
  <2> QED BY <1>3, <1>4, <2>1, <2>2 DEF Dollar
<1>6. Count(s, p - 1, ")") = 0
  <2>1. {k \in 1..(p - 1) : s[k] = ")"} = {}
    BY <1>4
  <2> QED BY <2>1, FS_EmptySet DEF Count
<1>7. NameEnd(s) = p + Len(r) - 1
  <2>1. CASE p = 1
    <3>1. {k \in 1..(p - 1) : s[k] = "("} = {}
      BY <2>1
    <3>2. Count(s, p - 1, "(") = 0
      BY <3>1, FS_EmptySet DEF Count
    <3>3. Depth(s) = 0
      BY <1>5, <1>6, <3>2 DEF Depth
    <3> QED BY <2>1, <3>3 DEF NameEnd, Spelled
  <2>2. CASE p # 1
    <3> DEFINE T == {k \in 1..(p - 1) : s[k] = "("}
    <3>1. IsFiniteSet(T)
      <4>1. IsFiniteSet(1..(p - 1))
        BY <1>2, FS_Interval DEF Place
      <4>2. T \in SUBSET (1..(p - 1))
        OBVIOUS
      <4> QED BY <4>1, <4>2, FS_Subset
    <3>2. T # {}
      <4>1. CASE n > 0
        <5>1. 1 \in 1..n /\ 1 \in 1..(p - 1)
          BY <1>2, <4>1 DEF Place
        <5> QED BY <5>1 DEF Spelled
      <4>2. CASE n = 0
        <5>1. d + 1 \in (n + d + 1)..(p - 1) /\ d + 1 \in 1..(p - 1)
          BY <1>2, <2>2, <4>2 DEF Spelled, Place
        <5> QED BY <5>1 DEF Spelled
      <4> QED BY <1>2, <4>1, <4>2
    <3>3. Count(s, p - 1, "(") \in Nat /\ Count(s, p - 1, "(") # 0
      BY <3>1, <3>2, FS_CardinalityType, FS_EmptySet DEF Count
    <3> HIDE DEF T
    <3>4. Depth(s) # 0
      BY <1>5, <1>6, <3>3 DEF Depth
    <3>5. PICK e : e = p + Len(r) - 1
      OBVIOUS
    <3>6. e \in p..Len(s) /\ p \in Int /\ e # Len(s) /\ e + 1 = p + Len(r)
      BY <1>1, <1>2, <2>2, <3>5 DEF Spelled, Place
    <3>7. e + 1 \in (p + Len(r))..Len(s)
      BY <1>1, <1>2, <3>6
    <3>8. s[e + 1] = ")"
      BY <3>7 DEF Spelled
    <3>9. \A k \in p..e : s[k] # ")"
      <4>1. \A k \in p..e : s[k] = r[k - p + 1]
        BY <3>5 DEF Spelled
      <4>2. \A k \in p..e : k - p + 1 \in 1..Len(r)
        BY <1>1, <3>5, <3>6
      <4> QED BY <1>1, <4>1, <4>2
    <3>10. ASSUME NEW x \in (p - 1)..Len(s), x = Len(s) \/ s[x + 1] = ")",
                  \A k \in p..x : s[k] # ")"
           PROVE  x = e
      <4>1. CASE x < e
        <5>1. x + 1 \in p..e /\ x # Len(s)
          BY <1>2, <3>6, <3>10, <4>1
        <5> QED BY <3>9, <3>10, <5>1
      <4>2. CASE e < x
        <5>1. e + 1 \in p..x
          BY <1>2, <3>6, <3>10, <4>2
        <5> QED BY <3>8, <3>10, <5>1
      <4>3. x \in Int /\ e \in Int
        BY <1>2, <3>6, <3>10
      <4> QED BY <4>1, <4>2, <4>3
    <3>11. e \in (p - 1)..Len(s)
      BY <1>2, <3>6
    <3> QED BY <1>5, <3>4, <3>5, <3>8, <3>9, <3>10, <3>11 DEF NameEnd
  <2> QED BY <2>1, <2>2
<1>8. SubSeq(s, p, p + Len(r) - 1) = r
  <2>1. /\ SubSeq(s, p, p + Len(r) - 1) \in Seq(STRING)
        /\ Len(SubSeq(s, p, p + Len(r) - 1)) = Len(r)
        /\ \A k \in 1..Len(r) : SubSeq(s, p, p + Len(r) - 1)[k] = s[p + k - 1]
    BY <1>1, <1>2 DEF Place
  <2>2. \A k \in 1..Len(r) : /\ p + k - 1 \in p..(p + Len(r) - 1)
                             /\ (p + k - 1) - p + 1 = k
    BY <1>1, <1>2 DEF Place
  <2>3. \A k \in 1..Len(r) : s[p + k - 1] = r[k]
    BY <2>2 DEF Spelled
  <2> QED BY <1>1, <2>1, <2>3, SeqEqual
<1> QED BY <1>5, <1>7, <1>8 DEF RegisterName

\* The digits before it are its offset.
LEMMA OffsetIs ==
  ASSUME NEW r \in Registers, NEW s, NEW p, NEW n, NEW d, Spelled(s, r, p, n, d)
  PROVE  Offset(s) = SubSeq(s, n + 1, n + d)
<1>1. /\ s \in Seq(STRING) /\ Len(s) \in Nat /\ DOMAIN s = 1..Len(s)
      /\ p \in Place /\ n \in Nat /\ d \in Nat /\ n + d < p
      /\ Len(r) \in Nat \ {0} /\ p + Len(r) - 1 <= Len(s)
      /\ d > 0 => n + d + 1 < p
  BY RegisterIs DEF Spelled
<1>2. Dollar(s) = p
  BY NameIs
<1>3. \A i \in 1..(p - 1) : i \in 1..Len(s) /\ Char(s, i) = s[i]
  BY <1>1 DEF Char, Place
<1>4. /\ \A i \in 1..n : s[i] \notin Digits
      /\ \A i \in (n + 1)..(n + d) : s[i] \in Digits
      /\ \A i \in (n + d + 1)..(p - 1) : s[i] \notin Digits
  BY DigitIs DEF Spelled
<1>5. CASE d = 0
  <2>1. \A i \in 1..(p - 1) : i \in 1..n \/ i \in (n + d + 1)..(p - 1)
    BY <1>1, <1>5 DEF Place
  <2>2. Starts(s) = {}
    BY <1>2, <1>4, <2>1 DEF Starts
  <2>3. SubSeq(s, n + 1, n + d) = << >>
    BY <1>1, <1>5
  <2> QED BY <2>2, <2>3 DEF Offset
<1>6. CASE d > 0
  <2>1. Char(s, n) \notin Digits
    <3>1. CASE n = 0
      BY <1>1, <3>1, DigitIs DEF Char
    <3>2. CASE n > 0
      <4>1. n \in 1..n /\ n \in 1..(p - 1)
        BY <1>1, <3>2 DEF Place
      <4> QED BY <1>3, <1>4, <4>1
    <3> QED BY <1>1, <3>1, <3>2
  <2>2. n + 1 \in Starts(s)
    <3>1. PICK b : b = n + 1
      OBVIOUS
    <3>2. b \in 1..(p - 1) /\ b \in (n + 1)..(n + d) /\ b - 1 = n
      BY <1>1, <1>6, <3>1 DEF Place
    <3>3. s[b] \in Digits /\ Char(s, b - 1) \notin Digits
      BY <1>4, <2>1, <3>2
    <3>4. b \in Starts(s)
      BY <1>2, <3>2, <3>3 DEF Starts
    <3> QED BY <3>1, <3>4
  <2>3. ASSUME NEW i \in Starts(s) PROVE i = n + 1
    <3>1. i \in 1..(p - 1) /\ s[i] \in Digits /\ Char(s, i - 1) \notin Digits
      BY <1>2 DEF Starts
    <3>2. i \in (n + 1)..(n + d)
      <4>1. i \in 1..n \/ i \in (n + 1)..(n + d) \/ i \in (n + d + 1)..(p - 1)
        BY <1>1, <3>1 DEF Place
      <4> QED BY <1>4, <3>1, <4>1
    <3>3. CASE i # n + 1
      <4>1. i - 1 \in (n + 1)..(n + d) /\ i - 1 \in 1..(p - 1)
        BY <1>1, <3>1, <3>2, <3>3 DEF Place
      <4>2. Char(s, i - 1) = s[i - 1] /\ s[i - 1] \in Digits
        BY <1>3, <1>4, <4>1
      <4> QED BY <3>1, <4>2
    <3> QED BY <3>3
  <2>4. PICK b : b = n + 1
    OBVIOUS
  <2>5. Starts(s) = {b} /\ b \in Nat
    BY <1>1, <2>2, <2>3, <2>4
  <2>6. DigitsFrom(s, b) = d
    <3>1. d \in 0..Len(s)
      BY <1>1 DEF Place
    <3>2. ASSUME NEW k \in b..(b + d - 1) PROVE Char(s, k) \in Digits
      <4>1. k \in (n + 1)..(n + d) /\ k \in 1..(p - 1)
        BY <1>1, <2>4 DEF Place
      <4> QED BY <1>3, <1>4, <4>1
    <3>3. Char(s, b + d) \notin Digits
      <4>1. b + d \in (n + d + 1)..(p - 1) /\ b + d \in 1..(p - 1)
        BY <1>1, <1>6, <2>4 DEF Place
      <4> QED BY <1>3, <1>4, <4>1
    <3>4. ASSUME NEW x \in 0..Len(s), \A k \in b..(b + x - 1) : Char(s, k) \in Digits,
                 Char(s, b + x) \notin Digits
          PROVE  x = d
      <4>1. CASE x < d
        <5>1. b + x \in b..(b + d - 1)
          BY <1>1, <2>5, <3>4, <4>1
        <5> QED BY <3>2, <3>4, <5>1
      <4>2. CASE d < x
        <5>1. b + d \in b..(b + x - 1)
          BY <1>1, <2>5, <3>4, <4>2
        <5> QED BY <3>3, <3>4, <5>1
      <4>3. x \in Int /\ d \in Int
        BY <1>1, <3>4
      <4> QED BY <4>1, <4>2, <4>3
    <3> QED BY <3>1, <3>2, <3>3, <3>4 DEF DigitsFrom
  <2>7. Offset(s) = SubSeq(s, b, b + d - 1)
    <3>1. (CHOOSE i \in Starts(s) : \A j \in Starts(s) : i >= j) = b
      BY <2>5
    <3> QED BY <2>5, <2>6, <3>1 DEF Offset
  <2>8. b + d - 1 = n + d
    BY <1>1, <2>4
  <2> QED BY <2>4, <2>7, <2>8
<1> QED BY <1>1, <1>5, <1>6

LEMMA ParensAre ==
  ASSUME NEW r \in Registers, NEW s, NEW p, NEW n, NEW d, Spelled(s, r, p, n, d),
         n > 0 \/ d < 2
  PROVE  /\ InParens(s) /\ s[1] \in {"$", "("} \cup Digits
         /\ Char(s, 1) \in {"$", "("} \cup Digits
<1>1. /\ s \in Seq(STRING) /\ Len(s) \in Nat /\ DOMAIN s = 1..Len(s)
      /\ p \in Place /\ n \in Nat /\ d \in Nat /\ n + d < p
      /\ Len(r) \in Nat \ {0} /\ p + Len(r) - 1 <= Len(s)
      /\ d > 0 => n + d + 1 < p /\ r[1] = "$"
      /\ n > 0 \/ d < 2
  BY RegisterIs DEF Spelled
<1>2. 1 \in 1..Len(s) /\ Char(s, 1) = s[1]
  BY <1>1 DEF Place, Char
<1>3. CASE p = 1
  <2>1. 1 \in p..(p + Len(r) - 1) /\ 1 - p + 1 = 1
    BY <1>1, <1>3
  <2>2. s[1] = "$"
    BY <2>1, RegisterIs DEF Spelled
  <2> QED BY <1>2, <2>2 DEF InParens
<1>4. CASE n > 0
  <2>1. 1 \in 1..n
    BY <1>1, <1>4
  <2>2. s[1] = "("
    BY <2>1 DEF Spelled
  <2> QED BY <1>2, <2>2 DEF InParens
<1>5. CASE p # 1 /\ n = 0 /\ d = 0
  <2>1. 1 \in (n + d + 1)..(p - 1)
    BY <1>1, <1>5 DEF Place
  <2>2. s[1] = "("
    BY <2>1 DEF Spelled
  <2> QED BY <1>2, <2>2 DEF InParens
<1>6. CASE n = 0 /\ d = 1
  <2>1. 1 \in (n + 1)..(n + d) /\ 2 \in (n + d + 1)..(p - 1) /\ 2 \in 1..Len(s)
    BY <1>1, <1>6 DEF Place
  <2>2. s[1] \in Digits /\ s[2] = "(" /\ Char(s, 2) = s[2]
    BY <1>1, <2>1 DEF Spelled, Char
  <2> QED BY <1>2, <2>2 DEF InParens
<1> QED BY <1>1, <1>3, <1>4, <1>5, <1>6

LEMMA KindIs ==
  ASSUME NEW s, InParens(s), RegisterName(s) \in Registers,
         Char(s, 1) \in {"$", "("} \cup Digits,
         s[1] \in {"$", "("} \cup Digits
  PROVE  Kind(s) = "register" /\ Value(s) = RegisterName(s)
<1>1. s \notin Mnemonics
  BY MnemonicsAssumption
<1>2. Char(s, 1) # "'" /\ Char(s, 1) # "\"" /\ Char(s, 1) # "."
  BY DigitsAssumption, Zenon
<1>3. Kind(s) = "register"
  BY <1>1, <1>2, Zenon DEF Kind
<1> QED BY <1>3 DEF Value

\* Two digits at the beginning make a number of as many digits as follow.
LEMMA NumberIs ==
  ASSUME NEW r \in Registers, NEW s, NEW p, NEW d, Spelled(s, r, p, 0, d), d > 1
  PROVE  Kind(s) = "literal" /\ Value(s) = SubSeq(s, 1, d)
<1>1. /\ s \in Seq(STRING) /\ Len(s) \in Nat /\ DOMAIN s = 1..Len(s)
      /\ p \in Place /\ d \in Nat /\ d + 1 < p
      /\ Len(r) \in Nat \ {0} /\ p + Len(r) - 1 <= Len(s)
  BY RegisterIs DEF Spelled
<1>2. \A i \in 1..d : s[i] \in Digits /\ i \in 1..Len(s) /\ Char(s, i) = s[i]
  <2>1. \A i \in 1..d : i \in (0 + 1)..(0 + d) /\ i \in 1..Len(s)
    BY <1>1 DEF Place
  <2> QED BY <1>1, <2>1 DEF Spelled, Char
<1>3. Char(s, 1 + d) = "(" /\ 1 + d \in 1..Len(s)
  <2>1. 1 + d \in (0 + d + 1)..(p - 1) /\ 1 + d \in 1..Len(s)
    BY <1>1 DEF Place
  <2> QED BY <1>1, <2>1 DEF Spelled, Char
<1>4. Char(s, 1 + d) \notin Digits
  BY <1>3, DigitIs
<1>5. DigitsFrom(s, 1) = d
  <2>1. ASSUME NEW m \in 0..Len(s),
               \A k \in 1..(1 + m - 1) : Char(s, k) \in Digits,
               Char(s, 1 + m) \notin Digits
        PROVE  m = d
    <3>1. ~(m < d)
      BY <1>1, <1>2, <2>1
    <3>2. ~(d < m)
      BY <1>1, <1>4, <2>1
    <3> QED BY <1>1, <2>1, <3>1, <3>2
  <2>2. d \in 0..Len(s) /\ \A k \in 1..(1 + d - 1) : Char(s, k) \in Digits
    BY <1>1, <1>2 DEF Place
  <2> QED BY <1>4, <2>1, <2>2 DEF DigitsFrom
<1>6. Char(s, 1) \in Digits /\ Char(s, 2) \in Digits
  BY <1>1, <1>2
<1>7. \A x \in Digits : x \notin {"NUL", "$", "(", ")", "'", "\"", "."}
  BY DigitsAssumption, Zenon
<1>8. ~InParens(s)
  BY <1>6, <1>7 DEF InParens
<1>9. Kind(s) = "literal"
  <2>1. Char(s, 1) # "'" /\ Char(s, 1) # "\"" /\ Char(s, 1) # "."
    BY <1>6, <1>7
  <2>2. s[1] \in Digits
    BY <1>1, <1>2
  <2>3. s \notin Mnemonics
    BY <2>2, MnemonicsAssumption
  <2> QED BY <1>6, <1>8, <2>1, <2>3, Zenon DEF Kind
<1> QED BY <1>5, <1>9 DEF Value

\* What OperandsRead says of one token.
OperandRead(t, s) ==
  \A r \in Registers, n \in 0..Len(s) : \A d \in 0..(Len(s) - n) :
    LET o == SubSeq(s, n + 1, n + d)
    IN /\ IsOffset(o)
       /\ \/ s = Enclosed(o \o Enclosed(r, 1), n)
          \/ d = 0 /\ s = Enclosed(r, n)
       => \/ n = 0 /\ d > 1 /\ t.kind = "literal" /\ t.value = o
          \/ (n > 0 \/ d < 2) /\ t.kind = "register" /\ t.value = r
                              /\ t.offset = o

LEMMA OperandIs ==
  ASSUME NEW s \in Seq(STRING), NEW t, Says(t, s)
  PROVE  OperandRead(t, s)
<1> SUFFICES ASSUME NEW r \in Registers, NEW n \in 0..Len(s),
                    NEW d \in 0..(Len(s) - n),
                    IsOffset(SubSeq(s, n + 1, n + d)),
                    \/ s = Enclosed(SubSeq(s, n + 1, n + d) \o Enclosed(r, 1), n)
                    \/ d = 0 /\ s = Enclosed(r, n)
             PROVE  \/ /\ n = 0 /\ d > 1 /\ t.kind = "literal"
                       /\ t.value = SubSeq(s, n + 1, n + d)
                    \/ /\ (n > 0 \/ d < 2) /\ t.kind = "register" /\ t.value = r
                       /\ t.offset = SubSeq(s, n + 1, n + d)
  BY Zenon DEF OperandRead
<1>1. PICK p \in Place : Spelled(s, r, p, n, d)
  BY SpelledIs
<1>2. CASE n > 0 \/ d < 2
  <2>1. RegisterName(s) = r
    BY ONLY <1>1, NameIs
  <2>2. Offset(s) = SubSeq(s, n + 1, n + d)
    BY ONLY <1>1, OffsetIs
  <2>3. /\ InParens(s) /\ s[1] \in {"$", "("} \cup Digits
        /\ Char(s, 1) \in {"$", "("} \cup Digits
    BY ONLY <1>1, <1>2, ParensAre
  <2>4. Kind(s) = "register" /\ Value(s) = r
    BY <2>1, <2>3, KindIs
  <2> QED BY <1>2, <2>2, <2>3, <2>4 DEF Says
<1>3. CASE n = 0 /\ d > 1
  <2>1. Kind(s) = "literal" /\ Value(s) = SubSeq(s, 1, d)
    BY ONLY <1>1, <1>3, NumberIs
  <2>2. SubSeq(s, 1, d) = SubSeq(s, n + 1, n + d)
    BY <1>3
  <2> QED BY <1>3, <2>1, <2>2 DEF Says
<1>4. Len(s) \in Nat
  OBVIOUS
<1> QED BY <1>2, <1>3, <1>4

\* A token is what its characters say.
ReadInv ==
  \A k \in DOMAIN tokens :
    LET s == SubSeq(text, tokens[k].from, tokens[k].to - 1)
    IN s \in Seq(STRING) /\ Says(tokens[k], s)

LEMMA ReadStep ==
  ASSUME TypeInv, ReadInv, [Next]_vars
  PROVE  ReadInv'
<1>1. text' = text /\ (Stopped \/ Ate \/ TookHere \/ TookBehindLabel)
  BY NextIs
<1>2. text \in Texts /\ pos \in Place /\ tokens \in Seq(Token)
  BY DEF TypeInv, ScannerTypeOK, Place
<1>3. CASE Stopped \/ Ate
  <2>1. tokens' = tokens
    BY <1>3 DEF Stopped, Rested, Ate
  <2> QED BY <1>1, <2>1 DEF ReadInv
<1>4. ASSUME NEW p \in {pos, pos + 1}, Took(p) PROVE ReadInv'
  <2>1. PICK t : t = Delivered(Scan(p))
    OBVIOUS
  <2>2. p \in Place /\ pos <= p
    BY <1>2 DEF Place
  <2>3. t \in Token /\ Says(t, SubSeq(text, t.from, t.to - 1)) /\ Reading(t, p, pos')
    BY <1>2, <1>4, <2>1, <2>2, TookIs
  <2>4. SubSeq(text, t.from, t.to - 1) \in Seq(STRING)
    <3>1. t.from \in Int /\ t.to - 1 \in Int
      BY <2>3, TokenFields DEF Place
    <3>2. \A i \in t.from..(t.to - 1) : text[i] \in STRING
      BY <1>2, <2>3, AtIs DEF Reading
    <3> QED BY <3>1, <3>2, SubSeqProperties
  <2>5. tokens' = Append(tokens, t)
    BY <1>4, <2>1 DEF Took
  <2>6. \A k \in DOMAIN tokens' : tokens'[k] = t \/ (k \in DOMAIN tokens
                                                   /\ tokens'[k] = tokens[k])
    BY <1>2, <2>3, <2>5
  <2> QED BY <1>1, <2>3, <2>4, <2>6 DEF ReadInv
<1> QED BY <1>1, <1>3, <1>4 DEF TookHere, TookBehindLabel

(* An operand of the form offset(register), the whole enclosed in any      *)
(* number of parentheses, is delivered as that register with that offset,  *)
(* for every register map the assumptions admit: extractReg()'s stack      *)
(* finds the name between the '$' and the parenthesis that closes it.      *)
(* Without enclosing parentheses that holds for offsets of one digit; a    *)
(* longer one is delivered as a number, without the register.              *)
THEOREM OperandsAreRead == Spec => []OperandsRead
<1>1. Init => ReadInv
  BY DEF Init, ReadInv
<1>2. TypeInv /\ ReadInv /\ [Next]_vars => ReadInv'
  BY ReadStep
<1>3. ReadInv => OperandsRead
  <2> SUFFICES ASSUME ReadInv PROVE OperandsRead
    OBVIOUS
  <2>1. \A k \in DOMAIN tokens :
          OperandRead(tokens[k], SubSeq(text, tokens[k].from, tokens[k].to - 1))
    BY OperandIs DEF ReadInv
  <2> QED BY <2>1, Zenon DEF OperandsRead, OperandRead
<1> QED BY <1>1, <1>2, <1>3, Typed, PTL DEF Spec
=============================================================================
