----------------------------- MODULE LZSSDecoder -----------------------------
(***************************************************************************)
(* LZSSDecoder: the OTA download hands over the file as it comes from the  *)
(* network, block by block.  decompress() decodes until the block is used  *)
(* up, stops wherever it is in a token, or between two bits of a word, and *)
(* goes on there with the next block.  What is kept between calls is the   *)
(* state of its machine and the bits that were read but not used.  The     *)
(* file is decoded while it is received, before it is known to be good.    *)
(***************************************************************************)
EXTENDS LZSSEncoder

CONSTANTS
  Texts,     \* the texts that are compressed and decoded
  Damaged,   \* files that are decoded although they are not good
  Junk,      \* what memory that was not initialised may hold
  MaxBlock   \* the most words in one block

ASSUME DecoderAssumption ==
  /\ Texts \subseteq Seq(Word)
  /\ Damaged \subseteq Seq(Word)
  /\ Junk \subseteq Word
  /\ MaxBlock \in Nat \ {0}

VARIABLES
  text,       \* the text that was compressed
  tokens,     \* what it was cut into
  intact,     \* the file is the one the compressor wrote
  input,      \* the words that did not arrive yet
  available,  \* the words of the block that were not read yet
  running,    \* decompress() is running
  state,      \* FSM_0 flag, FSM_1 literal, FSM_2 position, FSM_3 length;
              \* or "Copy", in the loop of FSM_3
  buf, size,  \* the bits read and not used, and their number (buf_size)
  i,          \* where the match is
  left,       \* how much of it is still to be copied
  r,          \* where the next character is stored
  window,     \* buffer: the last N characters
  out         \* the characters put out

fileVars == <<text, tokens, intact>>
blockVars == <<input, available, running>>
bitVars == <<buf, size>>
putVars == <<r, window, out>>
vars == <<fileVars, blockVars, state, bitVars, i, left, putVars>>

\* bits_required()
Required(s) ==
  CASE s = "FSM_0" -> 1
    [] s = "FSM_1" -> W
    [] s = "FSM_2" -> EI
    [] s = "FSM_3" -> EJ
    [] s = "Copy"  -> 0

\* The constructor fills all but the last F places of the window, and leaves
\* buf as it is: 1 stands for any number that is not 0.
DecoderBoot ==
  /\ available = 0 /\ running = FALSE
  /\ state = "FSM_0"
  /\ buf \in {0, 1} /\ size = 0
  /\ i = 0 /\ left = 0
  /\ r = N - F
  /\ \E junk \in [N - F .. N - 1 -> Junk] :
       window = [k \in 0 .. N - 1 |-> IF k < N - F THEN Blank ELSE junk[k]]
  /\ out = <<>>

GoodFile ==
  /\ intact = TRUE
  /\ text \in Texts
  /\ tokens = Tokens(text)
  /\ input = Encoded(tokens)

BadFile ==
  /\ intact = FALSE
  /\ text = <<>> /\ tokens = <<>>
  /\ input \in Damaged

Init == (GoodFile \/ BadFile) /\ DecoderBoot

-----------------------------------------------------------------------------
\* Mutant: the bits left over by the last block are dropped.
DecompressAfresh(n) ==
  /\ ~running /\ n <= Len(input)
  /\ running' = TRUE
  /\ available' = available + n
  /\ size' = 0 /\ buf' = 0
  /\ UNCHANGED <<fileVars, input, state, i, left, putVars>>

\* decompress() is called with the next n words.
Decompress(n) ==
  /\ ~running /\ n <= Len(input)
  /\ running' = TRUE
  /\ available' = available + n
  /\ UNCHANGED <<fileVars, input, state, bitVars, i, left, putVars>>

\* Mutant: getbit() wants one bit more than it takes.
MissingGreedy == size <= Required(state) /\ state # "Copy"

\* getbit() has too few bits, ...
Missing == size < Required(state)

\* ... reads a word, ...
GetWord ==
  /\ running /\ Missing /\ available > 0
  /\ buf' = buf * Pow2[W] + Head(input)
  /\ size' = size + W
  /\ input' = Tail(input)
  /\ available' = available - 1
  /\ UNCHANGED <<fileVars, running, state, i, left, putVars>>

\* ... or finds none, and the call returns NOT_COMPLETED.
BufferEmpty ==
  /\ running /\ Missing /\ available = 0
  /\ running' = FALSE
  /\ UNCHANGED <<fileVars, input, available, state, bitVars, i, left, putVars>>

\* getbit() has enough: the first bits are taken, the rest is kept.
TakenBits == buf \div Pow2[size - Required(state)]

TakeBits ==
  /\ running /\ ~Missing
  /\ buf' = buf % Pow2[size - Required(state)]
  /\ size' = size - Required(state)
  /\ UNCHANGED <<fileVars, blockVars>>

\* Mutant: the place after the last one of the window is used too.
WrappedLate(k) == k % (N + 1)

Wrapped(k) == k % N

Put(c) ==
  /\ out' = Append(out, c)
  /\ window' = [window EXCEPT ![r] = c]
  /\ r' = Wrapped(r + 1)

Flag ==
  /\ state = "FSM_0" /\ TakeBits
  /\ state' = IF TakenBits # 0 THEN "FSM_1" ELSE "FSM_2"
  /\ UNCHANGED <<i, left, putVars>>

PutLiteral ==
  /\ state = "FSM_1" /\ TakeBits
  /\ Put(TakenBits)
  /\ state' = "FSM_0"
  /\ UNCHANGED <<i, left>>

Position ==
  /\ state = "FSM_2" /\ TakeBits
  /\ i' = TakenBits
  /\ state' = "FSM_3"
  /\ UNCHANGED <<left, putVars>>

Length ==
  /\ state = "FSM_3" /\ TakeBits
  /\ left' = TakenBits + 2
  /\ state' = "Copy"
  /\ UNCHANGED <<i, putVars>>

\* One pass of the loop that copies a match.
Copy ==
  /\ state = "Copy" /\ running
  /\ Put(window[i])
  /\ i' = Wrapped(i + 1)
  /\ left' = left - 1
  /\ state' = IF left = 1 THEN "FSM_0" ELSE "Copy"
  /\ UNCHANGED <<fileVars, blockVars, bitVars>>

HandleState == Flag \/ PutLiteral \/ Position \/ Length \/ Copy

Next ==
  \/ \E n \in 1 .. MaxBlock : Decompress(n)
  \/ GetWord \/ BufferEmpty
  \/ HandleState

Spec == Init /\ [][Next]_vars

-----------------------------------------------------------------------------
\* Whatever is decoded, good or not, the decoder stays in its window, its bit
\* buffer is wide enough, and what it puts out are characters.  Only the first
\* flag may be read together with what buf held before.
TypeOK ==
  /\ input \in Seq(Word)
  /\ available \in 0 .. Len(input)
  /\ running \in BOOLEAN
  /\ state \in {"FSM_0", "FSM_1", "FSM_2", "FSM_3", "Copy"}
  /\ size \in 0 .. IntBits
  /\ buf \in Nat
  /\ state # "FSM_0" => buf < Pow2[size]
  /\ i \in 0 .. N - 1
  /\ left \in 0 .. F
  /\ r \in 0 .. N - 1
  /\ window \in [0 .. N - 1 -> Word]
  /\ out \in Seq(Word)

\* The flag of the first token is read as it is whatever buf held: it is a 1.
CleanStart == tokens # <<>> => tokens[1].length = 1

\* However a good file is cut into blocks, nothing but the text is put out.
DecodesText == intact /\ CleanStart => IsPrefix(out, text)

\* The sums of the first numbers of a sequence.
Sums(s) ==
  LET Sum[k \in 0 .. Len(s)] == IF k = 0 THEN 0 ELSE Sum[k - 1] + s[k]
  IN  Sum

BitsUpTo == Sums([k \in 1 .. Len(tokens) |-> Len(tokens[k].bits)])
CharsUpTo == Sums([k \in 1 .. Len(tokens) |-> tokens[k].length])

\* The characters that the first n words of the file determine: those of the
\* tokens that are in them as a whole.
Due(n) == CharsUpTo[Max({k \in 0 .. Len(tokens) : BitsUpTo[k] <= W * n})]

Received == Len(Encoded(tokens)) - Len(input)

\* Between two calls, everything that could be decoded of the words that came is
\* put out, and at the end the whole text: nothing is kept back for want of a
\* bit that is not needed, and nothing is made up from the last one.
NothingWithheld ==
  intact /\ CleanStart /\ ~running => Len(out) = Due(Received)
=============================================================================
