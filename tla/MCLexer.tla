------------------------------- MODULE MCLexer -------------------------------
(***************************************************************************)
(* Instances of Lexer.  Sources are built from statements, each a short    *)
(* sequence of tokens as they stand on one line of assembly.               *)
(***************************************************************************)
EXTENDS Lexer, SequencesExt

AnyWord == STRING

T(kind, word, val, off, eol) ==
  [kind |-> kind, word |-> word, val |-> val, off |-> off, eol |-> eol]
W(w)  == T("word", w, 0, -1, "no")       \* a word with more on its line
WE(w) == T("word", w, 0, -1, "tight")    \* the last word of a line
D(w)  == T("dir", w, 0, -1, "no")
DE(w) == T("dir", w, 0, -1, "tight")
R     == T("reg", "", 8, -1, "no")
RE    == T("reg", "", 9, -1, "tight")
OffE  == T("reg", "", 8, 4, "tight")     \* 4($t0)
L(n)  == T("lit", "", n, -1, "no")
LE(n) == T("lit", "", n, -1, "tight")
LB(n) == T("lit", "", n, -1, "loose")    \* blanks before the newline
Comment == T("empty", "", 0, -1, "tight")

\* References, forward and backward, and the labels they are to.
RefStatements ==
  { <<W("add"), R, R, RE>>,
    <<W("loop"), W("beq"), R, R, WE("fin")>>,
    <<W("fin"), W("la"), R, WE("loop")>>,
    <<W("j"), WE("fin")>>,
    <<W("loop"), W("bge"), R, R, WE("loop")>>,
    <<W("beqz"), R, WE("fin")>>,
    <<W("la"), R, WE("fin")>>,
    <<W("fin"), Comment>>,
    <<W("lui"), R, WE("fin")>>,
    <<W("ori"), R, R, WE("loop")>>,
    <<W("mul"), R, R, RE>>,
    <<W("li"), R, LE(70000)>>,
    <<DE(".data")>> }

\* One statement of every kind, well formed or not.
AllStatements ==
  RefStatements \cup
  { <<DE(".text")>>,
    <<W("fin"), D(".word"), L(1), LE(2)>>,
    <<D(".word"), L(1), LB(2)>>,
    <<W("loop"), D(".space"), LE(3)>>,
    <<D(".byte"), T("char", "", 5, -1, "tight")>>,
    <<W("fin"), D(".byte"), T("char", "", 10, -1, "tight")>>,
    <<W("loop"), D(".half"), L(1), LE(2)>>,
    <<D(".half"), L(1), L(2), Comment>>,
    <<D(".asciiz"), T("str", "", 2, -1, "tight")>>,
    <<D(".globl"), WE("fin")>>,
    <<W("fin"), D(".float"), LE(1)>>,
    <<W("loop"), T("caps", "add", 0, -1, "no"), R, R, RE>>,
    <<W("sub"), R, R, RE>>,
    <<W("lw"), R, OffE>>,
    <<W("jr"), T("bad", "", 0, -1, "tight")>>,
    <<W("addu"), R, R, RE>>,
    <<W("div"), R, RE>>,
    <<WE("syscall")>>,
    <<W("li"), R, WE("fin")>>,
    <<W("bgt"), R, R, WE("fin")>>,
    <<Comment>> }

\* Sources of one to n of the statements of S.
Programs(S, n) == {FlattenSeq(p) : p \in BoundedSeq(S, n) \ {<< >>}}

\* A label behind anything, the records and pairs of other statements and
\* what failed directives leave among them.
LabelBehind(S) == {a \o b : a \in S, b \in {c \in AllStatements : IsLabel(c[1])}}

ThreeRefs == Programs(RefStatements, 3)
AnyTwo    == Programs(AllStatements, 2)

\* For a Lexer that is used again: one statement, or one behind others that
\* leave pairs, no records, failed records or another segment before it.
Before ==
  { <<W("bge"), R, R, WE("loop")>>, <<W("la"), R, WE("fin")>>,
    <<W("fin"), Comment>>, <<D(".half"), L(1), L(2), Comment>>,
    <<D(".word"), L(1), LB(2)>>, <<DE(".data")>> }
OneOrTwo == AllStatements \cup LabelBehind(Before)

\* Any sequence of tokens, however little sense it makes.
Soup ==
  LET tokens == {W("fin"), WE("loop"), W("add"), WE("la"), DE(".word"), R,
                 LE(1), LB(2), Comment, D(".half"),
                 D(".space")}
  IN BoundedSeq(tokens, 4) \ {<< >>}

AllSources == ThreeRefs \cup AnyTwo \cup Soup \cup OneOrTwo
=============================================================================
