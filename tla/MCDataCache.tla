---------------------------- MODULE MCDataCache ----------------------------
EXTENDS DataCache

CONSTANTS n1, n2, n3, junk

ThreeNames == {n1, n2, n3}

\* A memory smaller than the default and one of its size; 0 is the one byte
\* written, a byte not yet written is junk.
SomeSizes   == {2, 4}
SomeBytes   == {0}
SomeData    == {<<0>>, <<0, 0, 0, 0>>}
SomeIndices == {0, 3}
=============================================================================
