------------------------------- MODULE MCElf -------------------------------
EXTENDS ElfHeader

CONSTANTS f1, f2, p1, s1

TwoFiles   == {f1, f2}
OneProgram == {p1}
OneSection == {s1}

\* Every byte of a sample is set, and none of them alike; TLC's integers stop
\* at 2^31 - 1.
SampleValues(w) == CASE w = 2 -> {258, 65535}
                     [] w = 4 -> {67305985, 2147418367}
=============================================================================
