-------------------------------- MODULE MCLZSS --------------------------------
EXTENDS LZSSDecoder

\* Short texts of three characters, and longer ones of two that fill the window
\* more than once.
SmallTexts == BoundedSeq({1, 2, 3}, 5) \cup BoundedSeq({1, 2}, 10)

\* Any words.
AnyFiles == BoundedSeq(Word, 5)

Table == [k \in 0 .. 6 |-> 2 ^ k]
=============================================================================
