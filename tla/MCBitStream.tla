---------------------------- MODULE MCBitStream ----------------------------
EXTENDS BitStream

Word(low, middle, high) == [i \in 0 .. 2 |-> CASE i = 0 -> low [] i = 1 -> middle [] i = 2 -> high]
SomeSources == {Word({0, 2}, {0, 1, 3}, {1, 2}), Word({1, 3}, {2}, {0, 3})}
SomePatterns == {{}, {0, 1, 2, 3}, {0, 2}}
SomeRanges == {[start |-> 0, end |-> 0], [start |-> 3, end |-> 7], [start |-> 1, end |-> 31]}
=============================================================================
