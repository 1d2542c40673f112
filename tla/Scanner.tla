------------------------------ MODULE Scanner ------------------------------
(***************************************************************************)
(* The character level of the lexer (Lexer.cpp): the cursor over           *)
(* source_text, the loop of lex() that eats blanks and comments, and       *)
(* nextToken(), which copies a token into a buffer and says what it is.    *)
(* The parser above, which is module Lexer, decides how often nextToken()  *)
(* is called before lex() gets the cursor back; here it may do what it     *)
(* likes.                                                                  *)
(***************************************************************************)
EXTENDS Integers, Sequences, FiniteSets

CONSTANTS
  Texts,      (* The texts a user may load: sequences of characters.       *)
  Mnemonics,  (* The words of the instruction table.                       *)
  Registers,  (* The names in the register map.                            *)
  Digits,     (* The digits texts are written with.                        *)
  TokenMax,   (* token_buf_size - 1.                                       *)
  MaxTokens   (* Bound: calls of nextToken() for one statement.            *)

ASSUME ScannerAssumption == TokenMax \in Nat \ {0} /\ MaxTokens \in Nat \ {0, 1}

\* A '\0' is only where loadFile() puts one.
ASSUME TextsAssumption ==
  Texts \subseteq Seq(STRING)
  /\ \A t \in Texts : \A i \in 1..(Len(t) - 1) : t[i] # "NUL"

\* What the tables contain.
ASSUME DigitsAssumption ==
  Digits \cap {"NUL", "$", "(", ")", "'", "\"", "."} = {}
ASSUME RegistersAssumption ==
  Registers \subseteq Seq(STRING)
  /\ \A r \in Registers : Len(r) > 0 /\ r[1] = "$"
                          /\ \A i \in 2..Len(r) : r[i] \notin {"$", ")"}
ASSUME MnemonicsAssumption ==
  \A m \in Mnemonics : m[1] \notin {"$", "("} \cup Digits

VARIABLES
  text,      (* source_text.                                               *)
  pos,       (* cur_pos, the first character being 1.                      *)
  cur_line,
  mode,      (* "loop": in lex(); "label", "line": in parseLine(), behind  *)
             (* a label or not; "done"; "lost": skipComment() left the    *)
             (* text, for 2^32 steps or for ever; "undefined" by C++.      *)
  asked,     (* Calls of nextToken() for the statement.                    *)
  tokens     (* Not in the program: what nextToken() delivered.            *)

vars == <<text, pos, cur_line, mode, asked, tokens>>
-----------------------------------------------------------------------------
(***************************************************************************)
(* The cursor.  cur_char past the end is '\0'; advance() counts a newline  *)
(* when it arrives at it.                                                  *)
(***************************************************************************)
Blank      == {" ", "\n", "\t"}
Separators == {",", ":", ";"}
Stops      == {" ", "\n", ";", "#", ",", ":"}

At(p) == IF p \in DOMAIN text THEN text[p] ELSE "NUL"
Exhausted(p) == At(p) = "NUL"

\* The first position from p on whose character is not in S, or is in S.
Skip(p, S)  == CHOOSE q \in p..(Len(text) + p + 1) :
                 At(q) \notin S /\ \A r \in p..(q - 1) : At(r) \in S
Find(p, S)  == CHOOSE q \in p..(Len(text) + p + 1) :
                 At(q) \in S \cup {"NUL"}
                 /\ \A r \in p..(q - 1) : At(r) \notin S \cup {"NUL"}

NewLines(p, q) == Cardinality({r \in p..q : At(r) = "\n"})

\* Seeded fault: a newline is counted when it is left.
Arrived_Late(p, q) == cur_line + NewLines(p, q - 1)
Arrived(p, q) == cur_line + NewLines(p + 1, q)

\* skipWhitespace() and then skipSeperators(), each once.
\* Seeded fault: '#' is a separator.
TokenStart_Hash(p) ==
  LET q == Skip(p, Blank) IN Skip(q, Separators \cup {"#"})
TokenStart(p) == LET q == Skip(p, Blank) IN Skip(q, Separators)

\* skipComment() looks for the newline only.
CommentEnd(p)  == Find(p, {"\n"})
CommentOpen(p) == Exhausted(CommentEnd(p))
-----------------------------------------------------------------------------
(***************************************************************************)
(* What a token is.                                                        *)
(***************************************************************************)
Char(s, i) == IF i \in DOMAIN s THEN s[i] ELSE "NUL"
Count(s, i, c) == Cardinality({k \in 1..i : s[k] = c})

\* The number of digits that follow each other from i on.
DigitsFrom(s, i) ==
  CHOOSE n \in 0..Len(s) : /\ \A k \in i..(i + n - 1) : Char(s, k) \in Digits
                           /\ Char(s, i + n) \notin Digits

\* extractReg() reads parentheses and an offset up to the '$', a name from
\* there to the next ')' if a parenthesis is open and to the end if not.  A
\* ')' that closes nothing pops an empty stack.
Dollar(s) == CHOOSE d \in 1..(Len(s) + 1) :
               /\ d = Len(s) + 1 \/ s[d] = "$"
               /\ \A k \in 1..(d - 1) : s[k] # "$"
Unbalanced(s) == \E i \in 1..(Dollar(s) - 1) :
                   Count(s, i, ")") > Count(s, i, "(")

Depth(s) == Count(s, Dollar(s) - 1, "(") - Count(s, Dollar(s) - 1, ")")
\* Seeded fault: the name takes the ')' with it.
NameEnd_Paren(s) ==
  IF Depth(s) = 0 THEN Len(s)
  ELSE CHOOSE e \in (Dollar(s) - 1)..Len(s) :
         /\ e = Len(s) \/ s[e] = ")"
         /\ \A k \in Dollar(s)..(e - 1) : s[k] # ")"
NameEnd(s) ==
  IF Depth(s) = 0 THEN Len(s)
  ELSE CHOOSE e \in (Dollar(s) - 1)..Len(s) :
         /\ e = Len(s) \/ s[e + 1] = ")"
         /\ \A k \in Dollar(s)..e : s[k] # ")"
RegisterName(s) == SubSeq(s, Dollar(s), NameEnd(s))

\* The last number before the '$'.
Starts(s) == {i \in 1..(Dollar(s) - 1) : s[i] \in Digits
                                        /\ Char(s, i - 1) \notin Digits}
Offset(s) ==
  IF Starts(s) = {} THEN << >>
  ELSE LET i == CHOOSE i \in Starts(s) : \A j \in Starts(s) : i >= j
       IN SubSeq(s, i, i + DigitsFrom(s, i) - 1)

InParens(s) == \/ Char(s, 1) \in {"$", "("}
               \/ Char(s, 1) \in Digits /\ Char(s, 2) = "("

PopsEmpty(s) == InParens(s) /\ Unbalanced(s)

\* A number ends at the first character that is no digit; the rest of the
\* token is dropped.
Kind(s) ==
  CASE Char(s, 1) = "'" /\ Char(s, 3) # "'"    -> "char"
    [] Char(s, 1) = "\""                       -> "string"
    [] Char(s, 1) = "."                        -> "directive"
    [] Char(s, 1) \in Digits /\ ~InParens(s)   -> "literal"
    [] InParens(s) /\ RegisterName(s) \in Registers    -> "register"
    [] InParens(s) /\ RegisterName(s) \notin Registers -> "none"
    [] s \in Mnemonics                         -> "instr"
    [] OTHER                                   -> "label"

Value(s) ==
  CASE Kind(s) = "literal"  -> SubSeq(s, 1, DigitsFrom(s, 1))
    [] Kind(s) = "register" -> RegisterName(s)
    [] Kind(s) = "none"     -> << >>
    [] OTHER                -> s
-----------------------------------------------------------------------------
(***************************************************************************)
(* Scanning.                                                               *)
(***************************************************************************)
\* scanToken() with the cursor at q, blanks and separators eaten: it copies
\* up to a stop or until the buffer is full.  The end of the text is no stop;
\* the buffer is filled up with '\0'.
CopyEnd(q) ==
  CHOOSE r \in q..(q + TokenMax) :
    /\ r = q + TokenMax \/ At(r) \in Stops
    /\ \A k \in q..(r - 1) : At(k) \notin Stops

\* The '\0' loadFile() adds, or the place behind the text.
TextEnd == Find(1, {})
Copy(q, r) == [chars |-> SubSeq(text, q, IF r > TextEnd THEN TextEnd - 1
                                         ELSE r - 1),
               from |-> q, end |-> r, full |-> r = q + TokenMax]
Scan(p) == LET q == TokenStart(p) IN Copy(q, CopyEnd(q))

\* A '#' ends the token, and its comment is skipped.
AtComment(c) == At(c.end) = "#" /\ ~c.full
RunsOut(c)   == AtComment(c) /\ CommentOpen(c.end)

\* Seeded faults: what did not fit into the buffer is passed over; the stop
\* is put back.
After_Unread(c)  == IF AtComment(c) THEN CommentEnd(c.end)
                    ELSE IF At(c.end) = "," THEN c.end + 1 ELSE c.end - 1
After_Dropped(c) == IF AtComment(c) THEN CommentEnd(c.end) ELSE c.end + 1
After(c) == IF AtComment(c) THEN CommentEnd(c.end)
            ELSE IF At(c.end) = "," THEN c.end + 1 ELSE c.end

Delivered(c) ==
  [kind |-> Kind(c.chars), value |-> Value(c.chars),
   offset |-> IF InParens(c.chars) THEN Offset(c.chars) ELSE << >>,
   from |-> c.from, to |-> c.from + Len(c.chars), next |-> After(c),
   head |-> mode = "loop"]

Goes(c, modes) ==
  /\ pos' = After(c)
  /\ cur_line' = Arrived(pos, After(c))
  /\ mode' \in modes
  /\ tokens' = Append(tokens, Delivered(c))
Fails(m) == mode' = m /\ UNCHANGED <<pos, cur_line, tokens>>

\* nextToken() having scanned c, in a parser that goes on with one of the
\* modes given.
NextToken(c, modes) ==
  /\ \/ RunsOut(c) /\ Fails("lost")
     \/ ~RunsOut(c) /\ PopsEmpty(c.chars) /\ Fails("undefined")
     \/ ~RunsOut(c) /\ ~PopsEmpty(c.chars) /\ Goes(c, modes)
  /\ UNCHANGED text

\* What a parser that has asked for n tokens may do.
Parsing(n) == IF n < MaxTokens THEN {"line", "loop"} ELSE {"loop"}

\* lex() eats a blank or a comment.
EatSpace ==
  /\ mode = "loop" /\ At(pos) \in Blank
  /\ pos' = pos + 1
  /\ cur_line' = Arrived(pos, pos + 1)
  /\ UNCHANGED <<text, mode, asked, tokens>>

\* Seeded fault: a comment is left where it is.
EatComment_Stuck ==
  mode = "loop" /\ At(pos) \in {";", "#"} /\ UNCHANGED vars
EatComment ==
  /\ mode = "loop" /\ At(pos) \in {";", "#"}
  /\ \/ CommentOpen(pos) /\ Fails("lost")
     \/ /\ ~CommentOpen(pos)
        /\ pos' = CommentEnd(pos)
        /\ cur_line' = Arrived(pos, CommentEnd(pos))
        /\ UNCHANGED <<mode, tokens>>
  /\ UNCHANGED <<text, asked>>

\* parseLine() begins with a token; behind a label it moves on by one
\* character, whatever that is, and takes another.
LineStart ==
  /\ mode = "loop" /\ At(pos) \notin Blank \cup {";", "#", "NUL"}
  /\ \E c \in {Scan(pos)} :
       NextToken(c, IF Kind(c.chars) = "label" THEN {"label"} ELSE Parsing(1))
  /\ asked' = 1

AfterLabel ==
  /\ mode = "label"
  /\ \E c \in {Scan(pos + 1)} : NextToken(c, Parsing(2))
  /\ asked' = 2

\* The parser of the statement takes another token.
More ==
  /\ mode = "line"
  /\ \E c \in {Scan(pos)} : NextToken(c, Parsing(asked + 1))
  /\ asked' = asked + 1

Finish ==
  /\ mode = "loop" /\ Exhausted(pos)
  /\ mode' = "done"
  /\ UNCHANGED <<text, pos, cur_line, asked, tokens>>

Init == /\ text \in Texts
        /\ pos = 1 /\ cur_line = 1 /\ mode = "loop" /\ asked = 0
        /\ tokens = << >>

Next == EatSpace \/ EatComment \/ LineStart \/ AfterLabel \/ More \/ Finish

Spec == Init /\ [][Next]_vars

(* lex() is one call on one thread: once begun it goes on.                 *)
FairSpec == Spec /\ WF_vars(Next)
-----------------------------------------------------------------------------
(***************************************************************************)
(* Properties.                                                             *)
(***************************************************************************)
\* The cursor is where a token can be, and tokens are of a kind.
ScannerTypeOK ==
  /\ pos \in Nat \ {0} /\ cur_line \in Nat \ {0} /\ asked \in 0..MaxTokens
  /\ mode \in {"loop", "label", "line", "done", "lost", "undefined"}
  /\ \A k \in DOMAIN tokens :
       /\ tokens[k].kind \in {"char", "string", "directive", "literal",
                              "register", "none", "instr", "label"}
       /\ tokens[k].from <= tokens[k].to /\ tokens[k].to <= tokens[k].next

\* The line records are given is the one the cursor is on, the newline that
\* ends a line counting as the next: through every way a newline is passed,
\* by blanks, comments and the character after a label.  The first character
\* of a text is never arrived at.
LinesCounted ==
  cur_line = 1 + Cardinality({i \in 2..pos : At(i) = "\n"})

\* Character i belongs to a comment: '#' or ';' is before it on its line.
CommentedBy(i, marks) ==
  \E j \in 1..i : text[j] \in marks /\ \A k \in j..i : text[k] # "\n"

\* Whatever the parser does, a character that is no blank, separator or
\* comment is delivered in one token; tokens come in the order of the text.
\* Lost is at most the character after a label that ',' or the size of the
\* buffer ended: parseLine() takes it for the ':'.
Eaten(t) == /\ t.head /\ t.kind = "label"
            /\ At(t.next - 1) = "," \/ t.to - t.from = TokenMax
Begins(k) == IF k \in DOMAIN tokens THEN tokens[k].from ELSE Len(text) + 1
Ended(k)  == IF k = 0 THEN 1 ELSE tokens[k].to
NothingLost ==
  /\ \A k \in 0..Len(tokens) :
       k < Len(tokens) \/ mode = "done" =>
         \A i \in Ended(k)..(Begins(k + 1) - 1) :
           i \in DOMAIN text =>
             \/ text[i] \in Blank \cup Separators \cup {"NUL"}
             \/ CommentedBy(i, {"#", ";"})
             \/ k > 0 /\ i = tokens[k].next /\ Eaten(tokens[k])
  /\ \A k \in 1..(Len(tokens) - 1) : tokens[k].next <= tokens[k + 1].from

\* What follows '#' on a line is never read as code, however many tokens the
\* parser asks for, but for one case: a '#' directly behind a label that ','
\* or the size of the buffer ended is taken for the ':', and the line goes on
\* behind it ("l,#i" delivers i).
TakenForColon(j, n) == \E m \in 1..n : tokens[m].next = j /\ Eaten(tokens[m])
HashIsComment ==
  \A k \in DOMAIN tokens :
    \A i \in tokens[k].from..(tokens[k].to - 1) : \A j \in 1..i :
      text[j] = "#" => \/ \E e \in j..i : text[e] = "\n"
                       \/ TakenForColon(j, k - 1)

\* offset(register) is read as that register with that offset, however often
\* parentheses enclose the whole.  Without any, that is so for an offset of
\* one digit; a longer one makes the token a number, and the register is
\* dropped: 12($t0) is 12.
Enclosed(s, n) == [k \in 1..n |-> "("] \o s \o [k \in 1..n |-> ")"]
IsOffset(o) == \A i \in DOMAIN o : o[i] \in Digits
OperandsRead ==
  \A k \in DOMAIN tokens :
    LET t == tokens[k]
        s == SubSeq(text, t.from, t.to - 1)
    IN \A r \in Registers, n \in 0..Len(s) : \A d \in 0..(Len(s) - n) :
         LET o == SubSeq(s, n + 1, n + d)
         IN /\ IsOffset(o)
            /\ \/ s = Enclosed(o \o Enclosed(r, 1), n)
               \/ d = 0 /\ s = Enclosed(r, n)
            => \/ n = 0 /\ d > 1 /\ t.kind = "literal" /\ t.value = o
               \/ (n > 0 \/ d < 2) /\ t.kind = "register" /\ t.value = r
                                   /\ t.offset = o

\* lex() comes to the end of every text whose comments a newline ends, with
\* whatever the parser asks for on the way.
CommentsEnd ==
  \A i \in DOMAIN text : CommentedBy(i, {"#", ";"}) =>
                           \E j \in i..Len(text) : text[j] = "\n"
Terminates == CommentsEnd ~> mode \in {"done", "undefined"}
=============================================================================
