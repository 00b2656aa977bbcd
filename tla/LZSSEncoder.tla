----------------------------- MODULE LZSSEncoder -----------------------------
(***************************************************************************)
(* The compression of the OTA files, as the tool that comes with the       *)
(* library does it (extras/tools/lzss.c).  A text is cut into tokens: a    *)
(* literal character, or a match, which stands for a run of characters     *)
(* that is found in the N - F characters before it (a blank each before    *)
(* the beginning).  The tokens are written as bits, packed into words.     *)
(***************************************************************************)
EXTENDS Integers, Sequences, FiniteSetsExt, SequencesExt

CONSTANTS
  W,      \* the bits of a word (of a byte, 8)
  EI,     \* the bits of a position
  EJ,     \* the bits of a length
  IntBits,\* the bits of the decoder's bit buffer (of uint32_t)
  Pow2,   \* the powers of two up to 2^IntBits, as a table
  Blank   \* the word that the space character is

N == Pow2[EI]      \* the size of the buffer
F == Pow2[EJ] + 1  \* the length of the longest match
P == 1             \* a match is longer than this

Word == 0 .. Pow2[W] - 1

ASSUME EncoderAssumption ==
  /\ {W, EI, EJ, IntBits} \subseteq Nat \ {0}
  /\ Pow2 \in [0 .. IntBits -> Nat \ {0}]
  /\ Pow2[0] = 1 /\ Pow2[1] = 2
  /\ \A a, b \in 0 .. IntBits :
       a + b <= IntBits => Pow2[a + b] = Pow2[a] * Pow2[b]
  /\ \A n \in {W, EI, EJ} : n + W - 1 <= IntBits
  /\ W <= EI + EJ  \* what pads the last word is not a token
  /\ F < N
  /\ Blank \in Word

-----------------------------------------------------------------------------
(* Positions in the history are counted from 0, as in the buffer of the    *)
(* code, which forgets N characters at a time.                             *)

History(text) == [k \in 1 .. N - F |-> Blank] \o text

\* The characters that position r may refer to.
Window(r) == r - (N - F) .. r - 1

\* How many characters from position r on are those from position i on.
MatchLength(h, i, r) ==
  Max({j \in 0 .. Min({F, Len(h) - r}) :
         \A k \in 1 .. j : h[i + k] = h[r + k]})

LongestMatch(h, r) == Max({MatchLength(h, i, r) : i \in Window(r)})

\* The code searches backwards and keeps the first of the longest.
NearestMatch(h, r) ==
  Max({i \in Window(r) : MatchLength(h, i, r) = LongestMatch(h, r)})

Bits(x, n) == [k \in 1 .. n |-> (x \div Pow2[n - k]) % 2]

Literal(c) == [length |-> 1, bits |-> <<1>> \o Bits(c, W)]

Match(x, y) ==
  [length |-> y, bits |-> <<0>> \o Bits(x % N, EI) \o Bits(y - 2, EJ)]

Token(h, r) ==
  IF LongestMatch(h, r) <= P
  THEN Literal(h[r + 1])
  ELSE Match(NearestMatch(h, r), LongestMatch(h, r))

Tokens(text) ==
  LET h == History(text)
      From[r \in N - F .. Len(h)] ==
        IF r = Len(h)
        THEN <<>>
        ELSE LET t == Token(h, r) IN <<t>> \o From[r + t.length]
  IN  From[N - F]

\* The bits in words, the last of them filled up with 0.
FilledUp(bits, k) == IF k <= Len(bits) THEN bits[k] ELSE 0

Packed(bits) ==
  [k \in 1 .. (Len(bits) + W - 1) \div W |->
     CHOOSE word \in Word :
       Bits(word, W) = [b \in 1 .. W |-> FilledUp(bits, (k - 1) * W + b)]]

Encoded(tokens) ==
  Packed(FlattenSeq([k \in 1 .. Len(tokens) |-> tokens[k].bits]))
=============================================================================
