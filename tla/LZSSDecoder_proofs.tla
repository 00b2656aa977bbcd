-------------------------- MODULE LZSSDecoder_proofs --------------------------
(***************************************************************************)
(* For every size of words and tokens: whatever it is given, damaged files *)
(* included, the decoder stays within its window and its bit buffer; and   *)
(* of a file that the compressor wrote it puts out the text, all that the  *)
(* words that came determine and nothing else, in whatever blocks they     *)
(* come.                                                                   *)
(***************************************************************************)
EXTENDS LZSSDecoder, SequenceTheorems, WellFoundedInduction, TLAPS

-----------------------------------------------------------------------------
(* Arithmetic.                                                             *)

LEMMA ProductGrows ==
  ASSUME NEW a \in Nat, NEW b \in Nat, NEW d \in Nat, a <= b
  PROVE  a * d <= b * d
BY SMT

LEMMA DivisionIsNat ==
  ASSUME NEW a \in Nat, NEW d \in Nat \ {0}
  PROVE  /\ a \div d \in Nat
         /\ a % d \in Nat
         /\ a % d < d
         /\ a = d * (a \div d) + (a % d)
BY SMT

\* The first bits of a number of limited size.
LEMMA QuotientIsLess ==
  ASSUME NEW a \in Nat, NEW b \in Nat, NEW d \in Nat \ {0}, a < b * d
  PROVE  a \div d < b
<1> DEFINE q == a \div d
<1>1. q \in Nat /\ a = d * q + (a % d) /\ a % d \in Nat
  BY DivisionIsNat
<1>2. ASSUME b <= q PROVE FALSE
  <2>1. b * d <= q * d
    BY <1>1, <1>2, ProductGrows
  <2>2. q * d = d * q
    BY <1>1, SMT
  <2> QED
    BY <1>1, <2>1, <2>2, SMT
<1> QED
  BY <1>1, <1>2, SMT

\* A number with another word behind it.
LEMMA WordAppended ==
  ASSUME NEW a \in Nat, NEW b \in Nat, NEW c \in Nat, NEW d \in Nat,
         a < b, c < d
  PROVE  a * d + c \in Nat /\ a * d + c < b * d
<1>1. (a + 1) * d <= b * d
  BY ProductGrows, SMT
<1>2. (a + 1) * d = a * d + d
  BY SMT
<1> QED
  BY <1>1, <1>2, SMT

-----------------------------------------------------------------------------
(* The sizes.                                                              *)

LEMMA Sizes ==
  /\ W \in Nat \ {0} /\ EI \in Nat \ {0} /\ EJ \in Nat \ {0}
  /\ IntBits \in Nat
  /\ \A k \in 0 .. IntBits : Pow2[k] \in Nat \ {0}
  /\ N \in Nat \ {0} /\ F \in Nat \ {0} /\ F < N
  /\ Pow2[W] \in Nat \ {0}
<1>1. {W, EI, EJ, IntBits} \subseteq Nat \ {0}
  BY EncoderAssumption
<1>2. \A k \in 0 .. IntBits : Pow2[k] \in Nat \ {0}
  BY EncoderAssumption
<1>3. W \in 0 .. IntBits /\ EI \in 0 .. IntBits /\ EJ \in 0 .. IntBits
  <2>1. \A n \in {W, EI, EJ} : n + W - 1 <= IntBits
    BY EncoderAssumption
  <2> QED
    BY <1>1, <2>1, SMT
<1>4. Pow2[W] \in Nat \ {0} /\ Pow2[EI] \in Nat \ {0} /\ Pow2[EJ] \in Nat \ {0}
  BY <1>2, <1>3
<1>5. F < N
  BY EncoderAssumption
<1> QED
  BY <1>1, <1>2, <1>4, <1>5, SMT DEF N, F

\* getbit() asks for so few bits that a word more fits into its buffer.
LEMMA RequiredFits ==
  ASSUME NEW s \in {"FSM_0", "FSM_1", "FSM_2", "FSM_3", "Copy"}
  PROVE  Required(s) \in Nat /\ Required(s) + W - 1 <= IntBits
<1>1. \A n \in {W, EI, EJ} : n + W - 1 <= IntBits
  BY EncoderAssumption
<1>2. /\ W + W - 1 <= IntBits /\ EI + W - 1 <= IntBits
      /\ EJ + W - 1 <= IntBits
  BY <1>1
<1>3. Required(s) \in {0, 1, W, EI, EJ}
  BY DEF Required
<1> QED
  BY <1>2, <1>3, Sizes, SMT

\* The bits that are taken, and those that are kept.
LEMMA BitsTaken ==
  ASSUME NEW a \in Nat, NEW n \in 0 .. IntBits, NEW k \in 0 .. n
  PROVE  /\ a \div Pow2[n - k] \in Nat
         /\ a % Pow2[n - k] \in Nat
         /\ a % Pow2[n - k] < Pow2[n - k]
         /\ a < Pow2[n] => a \div Pow2[n - k] < Pow2[k]
<1>1. n - k \in 0 .. IntBits /\ k \in 0 .. IntBits /\ (n - k) + k = n
  BY Sizes, SMT
<1>2. Pow2[n - k] \in Nat \ {0} /\ Pow2[k] \in Nat \ {0}
  BY <1>1, Sizes
<1>3. Pow2[n] = Pow2[k] * Pow2[n - k]
  <2>1. k + (n - k) = n /\ k + (n - k) <= IntBits
    BY Sizes, SMT
  <2>2. Pow2[k + (n - k)] = Pow2[k] * Pow2[n - k]
    BY <1>1, <2>1, EncoderAssumption
  <2> QED
    BY <2>1, <2>2
<1>4. a < Pow2[n] => a \div Pow2[n - k] < Pow2[k]
  BY <1>2, <1>3, QuotientIsLess
<1> QED
  BY <1>2, <1>4, DivisionIsNat

-----------------------------------------------------------------------------
(* Induction, as a fact about sets of numbers.                             *)

Less == {p \in Nat \X Nat : p[1] < p[2]}

LEMMA LessIsWellFounded == IsWellFoundedOn(Less, Nat)
BY NatLessThanWellFounded DEF OpToRel, Less

\* A set of numbers that is not empty has a smallest, ...
LEMMA SmallestNumber ==
  ASSUME NEW S, S \subseteq Nat, S # {}
  PROVE  \E x \in S : \A y \in S : x <= y
<1>1. PICK x \in S : \A y \in S : ~(<<y, x>> \in Less)
  BY LessIsWellFounded, WFMin
<1>2. ASSUME NEW y \in S PROVE x <= y
  <2>1. x \in Nat /\ y \in Nat /\ ~(<<y, x>> \in Less)
    BY <1>1
  <2> QED
    BY <2>1, SMT DEF Less
<1> QED
  BY <1>2

\* ... and so a set with 0 and with every successor has them all.
LEMMA EveryNumber ==
  ASSUME NEW S, 0 \in S, \A n \in Nat : n \in S => n + 1 \in S
  PROVE  Nat \subseteq S
<1> SUFFICES ASSUME Nat \ S # {} PROVE FALSE
  OBVIOUS
<1>1. PICK x \in Nat \ S : \A y \in Nat \ S : x <= y
  BY SmallestNumber
<1>2. x - 1 \in Nat \ S
  <2>1. x # 0 /\ x \in Nat
    BY <1>1
  <2>2. x - 1 \in Nat /\ (x - 1) + 1 = x
    BY <2>1, SMT
  <2> QED
    BY <1>1, <2>2
<1> QED
  BY <1>1, <1>2, SMT

\* A set of numbers below a bound has a largest.
LEMMA LargestNumber ==
  ASSUME NEW S, S \subseteq Nat, S # {}, NEW n \in Nat, \A x \in S : x <= n
  PROVE  Max(S) \in S /\ \A y \in S : Max(S) >= y
<1> DEFINE B == {m \in Nat : \A x \in S : x <= m}
<1>1. PICK m \in B : \A b \in B : m <= b
  <2>1. n \in B /\ B \subseteq Nat
    OBVIOUS
  <2> HIDE DEF B
  <2> QED
    BY <2>1, SmallestNumber
<1>2. m \in S
  <2>1. SUFFICES ASSUME m \notin S PROVE FALSE
    OBVIOUS
  <2>2. PICK x \in S : TRUE
    OBVIOUS
  <2>3. \A y \in S : y <= m - 1
    BY <1>1, <2>1, SMT
  <2>4. m - 1 \in B
    BY <1>1, <2>2, <2>3, SMT
  <2> QED
    BY <1>1, <2>4, SMT
<1>3. \E x \in S : \A y \in S : x >= y
  BY <1>1, <1>2, SMT
<1> QED
  BY <1>3 DEF Max

-----------------------------------------------------------------------------
(* What is defined by recursion.                                           *)

\* The sums of a sequence of numbers.
LEMMA SumsAre ==
  ASSUME NEW s \in Seq(Nat)
  PROVE  /\ Sums(s)[0] = 0
         /\ \A k \in 1 .. Len(s) : Sums(s)[k] = Sums(s)[k - 1] + s[k]
<1> DEFINE Def(n, g) ==
             g = [k \in 0 .. n |-> IF k = 0 THEN 0 ELSE g[k - 1] + s[k]]
           Some == {n \in Nat : \E g : Def(n, g)}
<1>1. 0 \in Some
  <2>1. Def(0, [k \in 0 .. 0 |-> 0])
    BY SMT
  <2> QED
    BY <2>1
<1>2. ASSUME NEW n \in Nat, n \in Some PROVE n + 1 \in Some
  <2>1. PICK g : Def(n, g)
    BY <1>2
  <2> DEFINE e == [k \in 0 .. n + 1 |->
                     IF k = n + 1 THEN g[n] + s[n + 1] ELSE g[k]]
  <2>2. \A k \in 0 .. n : e[k] = g[k]
    BY SMT
  <2>3. \A k \in 0 .. n + 1 :
          e[k] = IF k = 0 THEN 0 ELSE e[k - 1] + s[k]
    <3> TAKE k \in 0 .. n + 1
    <3>1. CASE k = n + 1
      BY <2>2, <3>1, SMT
    <3>2. CASE k # n + 1
      <4>1. k \in 0 .. n
        BY <3>2, SMT
      <4>2. g[k] = IF k = 0 THEN 0 ELSE g[k - 1] + s[k]
        BY <2>1, <4>1
      <4>3. k # 0 => k - 1 \in 0 .. n
        BY <4>1, SMT
      <4> QED
        BY <2>2, <4>1, <4>2, <4>3
    <3> QED
      BY <3>1, <3>2
  <2>4. Def(n + 1, e)
    <3> DEFINE v == [k \in 0 .. n + 1 |-> IF k = 0 THEN 0 ELSE e[k - 1] + s[k]]
    <3>1. \A k \in 0 .. n + 1 : e[k] = v[k]
      BY <2>3
    <3>2. e = v
      BY <3>1
    <3> QED
      BY <3>2
  <2>5. \E w : Def(n + 1, w)
    <3> HIDE DEF Def, e
    <3> QED
      BY <2>4, Zenon
  <2>6. n + 1 \in Nat
    BY SMT
  <2> HIDE DEF Def
  <2> QED
    BY <2>5, <2>6
<1>3. Len(s) \in Nat /\ s \in [1 .. Len(s) -> Nat]
  BY LenProperties
<1>4. \E g : Def(Len(s), g)
  <2>1. Len(s) \in Some
    <3> HIDE DEF Some
    <3> QED
      BY <1>1, <1>2, <1>3, EveryNumber
  <2> QED
    BY <2>1
<1>5. Def(Len(s), Sums(s))
  BY <1>4 DEF Sums
<1>6. \A k \in 0 .. Len(s) :
        Sums(s)[k] = IF k = 0 THEN 0 ELSE Sums(s)[k - 1] + s[k]
  BY <1>5
<1>7. \A k \in 1 .. Len(s) : k \in 0 .. Len(s) /\ k # 0
  BY <1>3, SMT
<1>8. 0 \in 0 .. Len(s)
  BY <1>3, SMT
<1> QED
  BY <1>6, <1>7, <1>8

\* The bits of a number of tokens, one after the other.
LEMMA Flattened ==
  ASSUME NEW S, NEW s \in Seq(Seq(S)), s # <<>>
  PROVE  \E f : /\ FlattenSeq(s) = f[Len(s)]
                /\ f[1] = s[1]
                /\ \A k \in 2 .. Len(s) : f[k] = f[k - 1] \o s[k]
<1> DEFINE Def(n, g) ==
             g = [k \in 1 .. n |-> IF k = 1 THEN s[k] ELSE g[k - 1] \o s[k]]
           Some == {n \in Nat : n > 0 => \E g : Def(n, g)}
<1>1. 0 \in Some
  BY SMT
<1>2. ASSUME NEW n \in Nat, n \in Some PROVE n + 1 \in Some
  <2>1. \E w : Def(n + 1, w)
    <3>1. CASE n = 0
      <4> DEFINE e == [k \in 1 .. n + 1 |-> s[1]]
                 v == [k \in 1 .. n + 1 |->
                         IF k = 1 THEN s[k] ELSE e[k - 1] \o s[k]]
      <4>1. \A k \in 1 .. n + 1 : k = 1
        BY <3>1, SMT
      <4>2. \A k \in 1 .. n + 1 : e[k] = v[k]
        BY <4>1, Zenon
      <4>3. e = v
        BY <4>2
      <4>4. Def(n + 1, e)
        BY <4>3
      <4> HIDE DEF Def, e
      <4> QED
        BY <4>4, Zenon
    <3>2. CASE n # 0
      <4>1. \E g : Def(n, g)
        <5> HIDE DEF Def
        <5> QED
          BY <1>2, <3>2, SMT
      <4>2. PICK g : Def(n, g)
        BY <4>1
      <4> DEFINE e == [k \in 1 .. n + 1 |->
                         IF k = n + 1 THEN g[n] \o s[n + 1] ELSE g[k]]
      <4>3. \A k \in 1 .. n : e[k] = g[k]
        BY SMT
      <4>4. \A k \in 1 .. n + 1 :
              e[k] = IF k = 1 THEN s[k] ELSE e[k - 1] \o s[k]
        <5> TAKE k \in 1 .. n + 1
        <5>1. CASE k = n + 1
          <6>1. n \in 1 .. n /\ k - 1 = n /\ k # 1
            BY <3>2, <5>1, SMT
          <6>2. e[n] = g[n]
            BY <4>3, <6>1
          <6>3. e[k] = g[n] \o s[k]
            BY <5>1
          <6> QED
            BY <6>1, <6>2, <6>3
        <5>2. CASE k # n + 1
          <6>1. k \in 1 .. n
            BY <5>2, SMT
          <6>2. g[k] = IF k = 1 THEN s[k] ELSE g[k - 1] \o s[k]
            BY <4>2, <6>1
          <6>3. k # 1 => k - 1 \in 1 .. n
            BY <6>1, SMT
          <6> QED
            BY <4>3, <6>1, <6>2, <6>3
        <5> QED
          BY <5>1, <5>2
      <4>5. Def(n + 1, e)
        <5> DEFINE v == [k \in 1 .. n + 1 |->
                           IF k = 1 THEN s[k] ELSE e[k - 1] \o s[k]]
        <5>1. \A k \in 1 .. n + 1 : e[k] = v[k]
          BY <4>4
        <5>2. e = v
          BY <5>1
        <5> QED
          BY <5>2
      <4> HIDE DEF Def, e
      <4> QED
        BY <4>5, Zenon
    <3> QED
      BY <3>1, <3>2
  <2>2. n + 1 \in Nat
    BY SMT
  <2> HIDE DEF Def
  <2> QED
    BY <2>1, <2>2
<1>3. Len(s) \in Nat /\ Len(s) # 0
  BY EmptySeq, LenProperties
<1>4. \E g : Def(Len(s), g)
  <2>1. Len(s) \in Some
    <3> HIDE DEF Some
    <3> QED
      BY <1>1, <1>2, <1>3, EveryNumber
  <2> HIDE DEF Def
  <2> QED
    BY <1>3, <2>1
<1> DEFINE f == CHOOSE g : Def(Len(s), g)
<1>5. Def(Len(s), f)
  <2> HIDE DEF Def
  <2> QED
    BY <1>4
<1>6. FlattenSeq(s) = f[Len(s)]
  BY <1>3 DEF FlattenSeq
<1> HIDE DEF f
<1>7. 1 \in 1 .. Len(s) /\ \A k \in 2 .. Len(s) : k \in 1 .. Len(s) /\ k # 1
  BY <1>3, SMT
<1>8. f[1] = s[1] /\ \A k \in 2 .. Len(s) : f[k] = f[k - 1] \o s[k]
  BY <1>5, <1>7
<1> QED
  BY <1>6, <1>8

\* They are numbers, and do not decrease.
LEMMA SumsGrow ==
  ASSUME NEW s \in Seq(Nat)
  PROVE  /\ \A k \in 0 .. Len(s) : Sums(s)[k] \in Nat
         /\ \A l \in 0 .. Len(s) : \A k \in 0 .. l : Sums(s)[k] <= Sums(s)[l]
<1>1. /\ Sums(s)[0] = 0
      /\ \A k \in 1 .. Len(s) : Sums(s)[k] = Sums(s)[k - 1] + s[k]
  BY SumsAre
<1>2. Len(s) \in Nat /\ \A k \in 1 .. Len(s) : s[k] \in Nat
  BY LenProperties
<1> DEFINE c == Sums(s)
           G == {l \in Nat : l <= Len(s) =>
                   /\ c[l] \in Nat
                   /\ \A k \in 0 .. l : c[k] \in Nat /\ c[k] <= c[l]}
<1> HIDE DEF c
<1>3. 0 \in G
  BY <1>1, SMT DEF c
<1>4. ASSUME NEW n \in Nat, n \in G PROVE n + 1 \in G
  <2>1. SUFFICES ASSUME n + 1 <= Len(s)
                 PROVE  /\ c[n + 1] \in Nat
                        /\ \A k \in 0 .. n + 1 : c[k] \in Nat /\ c[k] <= c[n + 1]
    BY SMT
  <2>2. n + 1 \in 1 .. Len(s) /\ (n + 1) - 1 = n /\ n <= Len(s)
    BY <1>2, <2>1, SMT
  <2>3. c[n + 1] = c[n] + s[n + 1] /\ s[n + 1] \in Nat
    BY <1>1, <1>2, <2>2 DEF c
  <2>4. c[n] \in Nat /\ \A k \in 0 .. n : c[k] \in Nat /\ c[k] <= c[n]
    BY <1>4, <2>2
  <2>5. c[n + 1] \in Nat /\ c[n] <= c[n + 1]
    BY <2>3, <2>4, SMT
  <2>6. \A k \in 0 .. n + 1 : k = n + 1 \/ k \in 0 .. n
    BY SMT
  <2> QED
    BY <2>4, <2>5, <2>6, SMT
<1>5. Nat \subseteq G
  <2> HIDE DEF G
  <2> QED
    BY <1>3, <1>4, EveryNumber
<1>6. \A l \in 0 .. Len(s) :
        c[l] \in Nat /\ \A k \in 0 .. l : c[k] <= c[l]
  BY <1>2, <1>5, SMT
<1> QED
  BY <1>6 DEF c

\* One sequence behind another.
LEMMA Joined ==
  ASSUME NEW S, NEW s \in Seq(S), NEW t \in Seq(S), NEW u, u = s \o t
  PROVE  /\ u \in Seq(S)
         /\ Len(u) = Len(s) + Len(t)
         /\ \A k \in 1 .. Len(s) : u[k] = s[k]
         /\ \A k \in 1 .. Len(t) : u[Len(s) + k] = t[k]
<1>1. /\ u \in Seq(S)
      /\ Len(u) = Len(s) + Len(t)
      /\ \A k \in 1 .. Len(s) + Len(t) :
           u[k] = IF k <= Len(s) THEN s[k] ELSE t[k - Len(s)]
  BY ConcatProperties
<1>2. Len(s) \in Nat /\ Len(t) \in Nat
  BY LenProperties
<1>3. ASSUME NEW k \in 1 .. Len(s) PROVE u[k] = s[k]
  BY <1>1, <1>2, SMT
<1>4. ASSUME NEW k \in 1 .. Len(t) PROVE u[Len(s) + k] = t[k]
  <2>1. /\ Len(s) + k \in 1 .. Len(s) + Len(t) /\ ~(Len(s) + k <= Len(s))
        /\ (Len(s) + k) - Len(s) = k
    BY <1>2, SMT
  <2> QED
    BY <1>1, <2>1
<1> QED
  BY <1>1, <1>3, <1>4

LEMMA WithinSum ==
  ASSUME NEW a \in Nat, NEW b \in Nat, NEW d \in Nat, a + b <= d,
         NEW k \in 1 .. b
  PROVE  a + k \in 1 .. d
BY SMT

\* Where each token's bits are.
LEMMA FlattenedAt ==
  ASSUME NEW S, NEW s \in Seq(Seq(S)),
         NEW c, c = Sums([k \in 1 .. Len(s) |-> Len(s[k])])
  PROVE  /\ FlattenSeq(s) \in Seq(S)
         /\ Len(FlattenSeq(s)) = c[Len(s)]
         /\ \A k \in 1 .. Len(s) : \A j \in 1 .. Len(s[k]) :
              FlattenSeq(s)[c[k - 1] + j] = s[k][j]
<1> DEFINE lens == [k \in 1 .. Len(s) |-> Len(s[k])]
<1>1. Len(s) \in Nat /\ \A k \in 1 .. Len(s) : s[k] \in Seq(S) /\ Len(s[k]) \in Nat
  <2>1. Len(s) \in Nat /\ \A k \in 1 .. Len(s) : s[k] \in Seq(S)
    BY LenProperties
  <2> QED
    BY <2>1, LenProperties
<1>2. lens \in Seq(Nat) /\ Len(lens) = Len(s)
  BY <1>1, SMT
<1>3. /\ c[0] = 0
      /\ \A k \in 1 .. Len(s) : c[k] = c[k - 1] + Len(s[k])
      /\ \A k \in 0 .. Len(s) : c[k] \in Nat
      /\ \A l \in 0 .. Len(s) : \A k \in 0 .. l : c[k] <= c[l]
  <2>1. \A k \in 1 .. Len(s) : lens[k] = Len(s[k])
    OBVIOUS
  <2> HIDE DEF lens
  <2>2. c = Sums(lens)
    BY DEF lens
  <2>3. /\ c[0] = 0
        /\ \A k \in 1 .. Len(s) : c[k] = c[k - 1] + lens[k]
    BY <1>2, <2>2, SumsAre
  <2> QED
    BY <1>2, <2>1, <2>2, <2>3, SumsGrow
<1> HIDE DEF lens
<1>4. CASE s = <<>>
  <2>1. FlattenSeq(s) = <<>> /\ Len(s) = 0
    BY <1>4 DEF FlattenSeq
  <2> QED
    BY <1>3, <2>1, SMT
<1>5. CASE s # <<>>
  <2>1. PICK f : /\ FlattenSeq(s) = f[Len(s)]
                 /\ f[1] = s[1]
                 /\ \A k \in 2 .. Len(s) : f[k] = f[k - 1] \o s[k]
    BY <1>5, Flattened
  <2>2. Len(s) # 0
    BY <1>5, EmptySeq
  <2> DEFINE Done(n) == /\ f[n] \in Seq(S) /\ Len(f[n]) = c[n]
                        /\ \A k \in 1 .. n : \A j \in 1 .. Len(s[k]) :
                             f[n][c[k - 1] + j] = s[k][j]
             G == {n \in Nat : n \in 1 .. Len(s) => Done(n)}
  <2>3. 0 \in G
    BY SMT
  <2>4. ASSUME NEW n \in Nat, n \in G PROVE n + 1 \in G
    <3> SUFFICES ASSUME n + 1 \in 1 .. Len(s) PROVE Done(n + 1)
      <4>1. n + 1 \in Nat
        BY SMT
      <4> HIDE DEF Done
      <4> QED
        BY <4>1
    <3>1. CASE n = 0
      <4>1. n + 1 = 1 /\ (n + 1) - 1 = 0 /\ 1 \in 1 .. Len(s)
            /\ \A k \in 1 .. 1 : k = 1 /\ k - 1 = 0
        BY <3>1, SMT
      <4>2. f[1] \in Seq(S) /\ Len(f[1]) = c[1]
        BY <1>1, <1>3, <2>1, <4>1, SMT
      <4>3. \A k \in 1 .. 1 : \A j \in 1 .. Len(s[k]) : f[1][c[k - 1] + j] = s[k][j]
        BY <1>1, <1>3, <2>1, <4>1, SMT
      <4> QED
        BY <4>1, <4>2, <4>3
    <3>2. CASE n # 0
      <4>1. n \in 1 .. Len(s) /\ n + 1 \in 2 .. Len(s) /\ (n + 1) - 1 = n
        BY <1>1, <3>2, SMT
      <4>2. Done(n)
        BY <2>4, <4>1
      <4>3. f[n + 1] = f[n] \o s[n + 1] /\ s[n + 1] \in Seq(S)
        BY <1>1, <2>1, <4>1
      <4>4. f[n] \in Seq(S) /\ Len(f[n]) = c[n]
        BY <4>2
      <4>5. /\ f[n + 1] \in Seq(S)
            /\ Len(f[n + 1]) = Len(f[n]) + Len(s[n + 1])
            /\ \A q \in 1 .. Len(f[n]) : f[n + 1][q] = f[n][q]
            /\ \A q \in 1 .. Len(s[n + 1]) : f[n + 1][Len(f[n]) + q] = s[n + 1][q]
        <5> DEFINE g == f[n]
                   t == s[n + 1]
                   u == f[n + 1]
        <5>1. g \in Seq(S) /\ t \in Seq(S) /\ u = g \o t
          BY <4>3, <4>4
        <5> HIDE DEF g, t, u
        <5>2. /\ u \in Seq(S) /\ Len(u) = Len(g) + Len(t)
              /\ \A q \in 1 .. Len(g) : u[q] = g[q]
              /\ \A q \in 1 .. Len(t) : u[Len(g) + q] = t[q]
          BY <5>1, Joined
        <5> QED
          BY <5>2 DEF g, t, u
      <4>6. c[n + 1] = c[n] + Len(s[n + 1])
        BY <1>3, <4>1
      <4>7. ASSUME NEW k \in 1 .. n, NEW j \in 1 .. Len(s[k])
            PROVE  f[n + 1][c[k - 1] + j] = s[k][j]
        <5>1. k \in 1 .. Len(s) /\ k - 1 \in 0 .. Len(s) /\ k \in 0 .. n
              /\ n \in 0 .. Len(s)
          BY <4>1, SMT
        <5>2. /\ c[k] = c[k - 1] + Len(s[k]) /\ c[k] <= c[n]
              /\ c[k - 1] \in Nat /\ Len(s[k]) \in Nat /\ c[n] \in Nat
          BY <1>1, <1>3, <5>1
        <5>3. c[k - 1] + j \in 1 .. c[n]
          BY ONLY <5>2, WithinSum
        <5>4. f[n][c[k - 1] + j] = s[k][j]
          BY <4>2
        <5> QED
          BY <4>4, <4>5, <5>3, <5>4
      <4>8. \A k \in 1 .. n + 1 : k \in 1 .. n \/ (k = n + 1 /\ k - 1 = n)
        BY SMT
      <4>9. \A k \in 1 .. n + 1 : \A j \in 1 .. Len(s[k]) :
              f[n + 1][c[k - 1] + j] = s[k][j]
        BY <4>1, <4>4, <4>5, <4>7, <4>8
      <4> QED
        BY <4>4, <4>5, <4>6, <4>9
    <3> QED
      BY <3>1, <3>2
  <2>5. Done(Len(s))
    <3>1. Nat \subseteq G
      <4> HIDE DEF G
      <4> QED
        BY <2>3, <2>4, EveryNumber
    <3>2. Len(s) \in 1 .. Len(s)
      BY <1>1, <2>2, SMT
    <3> QED
      BY <1>1, <3>1, <3>2
  <2> QED
    BY <2>1, <2>5
<1> QED
  BY <1>4, <1>5

-----------------------------------------------------------------------------
(* Numbers and their bits.                                                 *)

\* Quotient and remainder are told by the number they make up.
LEMMA DivisionIsUnique ==
  ASSUME NEW d \in Nat \ {0}, NEW q \in Nat, NEW y \in Nat, y < d
  PROVE  (q * d + y) \div d = q /\ (q * d + y) % d = y
<1> DEFINE a == q * d + y
           p == a \div d
           z == a % d
<1>1. a \in Nat
  BY SMT
<1>2. p \in Nat /\ z \in Nat /\ z < d /\ a = d * p + z
  <2> HIDE DEF a
  <2> QED
    BY <1>1, DivisionIsNat
<1>3. q * d + y = p * d + z
  <2>1. d * p = p * d
    BY <1>2, SMT
  <2> QED
    BY <1>2, <2>1
<1> HIDE DEF a, p, z
<1>4. ASSUME q < p PROVE FALSE
  <2>1. q + 1 \in Nat /\ q + 1 <= p
    BY <1>2, <1>4, SMT
  <2>2. (q + 1) * d <= p * d
    BY <1>2, <2>1, ProductGrows
  <2>3. (q + 1) * d = q * d + d
    BY SMT
  <2>4. q * d \in Nat /\ p * d \in Nat
    BY <1>2, SMT
  <2> QED
    BY <1>2, <1>3, <2>2, <2>3, <2>4, SMT
<1>5. ASSUME p < q PROVE FALSE
  <2>1. p + 1 \in Nat /\ p + 1 <= q
    BY <1>2, <1>5, SMT
  <2>2. (p + 1) * d <= q * d
    BY <1>2, <2>1, ProductGrows
  <2>3. (p + 1) * d = p * d + d
    BY <1>2, SMT
  <2>4. q * d \in Nat /\ p * d \in Nat
    BY <1>2, SMT
  <2> QED
    BY <1>2, <1>3, <2>2, <2>3, <2>4, SMT
<1>6. p = q
  BY <1>2, <1>4, <1>5, SMT
<1>7. z = y
  <2>1. q * d \in Nat
    BY SMT
  <2> QED
    BY <1>2, <1>3, <1>6, <2>1, SMT
<1> QED
  BY <1>6, <1>7 DEF a, p, z

\* What is in front of the digits of y does not matter for the parity.
LEMMA ParityOfSum ==
  ASSUME NEW x \in Nat, NEW y \in Nat, NEW d \in Nat \ {0}, NEW e \in Nat,
         NEW a, a = x * (2 * e * d) + y
  PROVE  (a \div d) % 2 = (y \div d) % 2
<1> DEFINE q == y \div d
           z == y % d
<1>1. q \in Nat /\ z \in Nat /\ z < d /\ y = d * q + z
  BY DivisionIsNat
<1> HIDE DEF q, z
<1> DEFINE p == 2 * (x * e) + q
<1>2. p \in Nat
  BY <1>1, SMT
<1>3. x * (2 * e * d) + y = p * d + z
  <2>1. x * (2 * e * d) = (2 * (x * e)) * d
    BY SMT
  <2>2. (2 * (x * e) + q) * d = (2 * (x * e)) * d + q * d
    BY <1>1, SMT
  <2>3. d * q = q * d
    BY <1>1, SMT
  <2>4. (2 * (x * e)) * d \in Nat /\ q * d \in Nat
    BY <1>1, SMT
  <2> QED
    BY <1>1, <2>1, <2>2, <2>3, <2>4, SMT
<1>4. (p * d + z) \div d = p
  <2> HIDE DEF p
  <2> QED
    BY <1>1, <1>2, DivisionIsUnique
<1>5. p % 2 = q % 2
  <2> DEFINE m == x * e
  <2>1. m \in Nat
    BY SMT
  <2> HIDE DEF m
  <2>2. (2 * m + q) % 2 = q % 2
    BY <1>1, <2>1, SMT
  <2> QED
    BY <2>2 DEF m
<1> QED
  BY <1>3, <1>4, <1>5 DEF q

\* The powers of two that the table holds.
LEMMA Powers ==
  ASSUME NEW a \in Nat, NEW b \in Nat, a + b <= IntBits
  PROVE  /\ Pow2[a] \in Nat \ {0} /\ Pow2[b] \in Nat \ {0}
         /\ Pow2[a + b] = Pow2[a] * Pow2[b]
<1>1. a \in 0 .. IntBits /\ b \in 0 .. IntBits
  BY Sizes, SMT
<1> QED
  BY <1>1, Sizes, EncoderAssumption

\* Each bit of a number.
LEMMA BitsAre ==
  ASSUME NEW x \in Nat, NEW n \in 0 .. IntBits
  PROVE  /\ Bits(x, n) \in [1 .. n -> {0, 1}]
         /\ \A k \in 1 .. n :
              /\ n - k \in 0 .. IntBits
              /\ Bits(x, n)[k] = (x \div Pow2[n - k]) % 2
<1>1. ASSUME NEW k \in 1 .. n
      PROVE  n - k \in 0 .. IntBits /\ (x \div Pow2[n - k]) % 2 \in {0, 1}
  <2>1. n - k \in 0 .. IntBits
    BY Sizes, SMT
  <2>2. x \div Pow2[n - k] \in Nat
    BY <2>1, Sizes, DivisionIsNat
  <2> DEFINE q == x \div Pow2[n - k]
  <2> HIDE DEF q
  <2>3. q \in Nat => q % 2 \in {0, 1}
    BY SMT
  <2> QED
    BY <2>1, <2>2, <2>3 DEF q
<1> QED
  BY <1>1 DEF Bits

\* A number with another behind it has the bits of both.
LEMMA BitsJoined ==
  ASSUME NEW x \in Nat, NEW y \in Nat, NEW k \in Nat, NEW m \in Nat,
         NEW n, n = k + m, n <= IntBits, y < Pow2[m],
         NEW a, a = x * Pow2[m] + y
  PROVE  /\ \A j \in 1 .. k : Bits(a, n)[j] = Bits(x, k)[j]
         /\ \A j \in 1 .. m : Bits(a, n)[k + j] = Bits(y, m)[j]
<1>1. Pow2[m] \in Nat \ {0}
  BY Powers
<1>2. a \in Nat
  BY <1>1, SMT
<1>3. n \in 0 .. IntBits /\ k \in 0 .. IntBits /\ m \in 0 .. IntBits
  BY Sizes, SMT
<1>4. ASSUME NEW j \in 1 .. k PROVE Bits(a, n)[j] = Bits(x, k)[j]
  <2>1. j \in 1 .. n /\ n - j = (k - j) + m /\ k - j \in Nat
        /\ (k - j) + m <= IntBits
    BY <1>3, Sizes, SMT
  <2>2. Pow2[(k - j) + m] = Pow2[k - j] * Pow2[m] /\ Pow2[k - j] \in Nat \ {0}
    BY <2>1, Powers
  <2>3. a \div Pow2[n - j] = x \div Pow2[k - j]
    <3> DEFINE d == Pow2[m]
               e == Pow2[k - j]
               b == Pow2[n - j]
               q == x \div e
               z == x % e
               v == z * d + y
    <3>1. d \in Nat \ {0} /\ e \in Nat \ {0} /\ y < d /\ x \in Nat /\ y \in Nat
      BY <1>1, <2>2
    <3>2. a = x * d + y /\ b = e * d
      BY <2>1, <2>2
    <3> HIDE DEF d, e, b
    <3>3. q \in Nat /\ z \in Nat /\ z < e /\ x = e * q + z
      BY <3>1, DivisionIsNat
    <3> HIDE DEF q, z
    <3>4. v \in Nat /\ v < b
      BY <3>1, <3>2, <3>3, WordAppended
    <3>5. a = q * b + v
      <4>1. x * d = (e * q) * d + z * d
        BY <3>1, <3>3, SMT
      <4>2. (e * q) * d = q * (e * d)
        BY <3>1, <3>3, SMT
      <4>3. x * d \in Nat /\ z * d \in Nat /\ q * (e * d) \in Nat
        BY <3>1, <3>3, SMT
      <4> QED
        BY ONLY <3>1, <3>2, <4>1, <4>2, <4>3, SMT DEF v
    <3>6. b \in Nat \ {0}
      BY <3>1, <3>2, SMT
    <3> HIDE DEF v
    <3>7. (q * b + v) \div b = q
      BY ONLY <3>3, <3>4, <3>6, DivisionIsUnique
    <3> QED
      BY <3>5, <3>7 DEF q, e, b
  <2>4. Bits(a, n)[j] = (a \div Pow2[n - j]) % 2
    BY <1>2, <1>3, <2>1, BitsAre
  <2>5. Bits(x, k)[j] = (x \div Pow2[k - j]) % 2
    BY <1>3, BitsAre
  <2> QED
    BY <2>2, <2>3, <2>4, <2>5
<1>5. ASSUME NEW j \in 1 .. m PROVE Bits(a, n)[k + j] = Bits(y, m)[j]
  <2>1. /\ k + j \in 1 .. n /\ n - (k + j) = m - j
        /\ m - j \in Nat /\ j - 1 \in Nat /\ (m - j) + 1 \in Nat
        /\ (j - 1) + ((m - j) + 1) = m /\ (m - j) + 1 <= IntBits /\ m <= IntBits
        /\ 1 + (m - j) = (m - j) + 1
    BY <1>3, Sizes, SMT
  <2>2. Pow2[1 + (m - j)] = Pow2[1] * Pow2[m - j] /\ Pow2[m - j] \in Nat \ {0}
    BY <2>1, Powers
  <2>3. Pow2[(j - 1) + ((m - j) + 1)] = Pow2[j - 1] * Pow2[(m - j) + 1]
        /\ Pow2[j - 1] \in Nat
    BY <2>1, Powers
  <2>4. Pow2[1] = 2
    BY EncoderAssumption
  <2>5. Pow2[m] = 2 * Pow2[j - 1] * Pow2[m - j]
    <3> DEFINE p == Pow2[j - 1]
               q == Pow2[m - j]
    <3>1. Pow2[m] = p * (2 * q) /\ p \in Nat /\ q \in Nat
      BY <2>1, <2>2, <2>3, <2>4
    <3> HIDE DEF p, q
    <3>2. p * (2 * q) = 2 * p * q
      BY <3>1, SMT
    <3> QED
      BY <3>1, <3>2 DEF p, q
  <2>6. (a \div Pow2[m - j]) % 2 = (y \div Pow2[m - j]) % 2
    <3> DEFINE d == Pow2[m - j]
               e == Pow2[j - 1]
    <3>1. d \in Nat \ {0} /\ e \in Nat
      BY <2>2, <2>3
    <3>2. a = x * (2 * e * d) + y
      BY <2>5
    <3> HIDE DEF d, e
    <3>3. (a \div d) % 2 = (y \div d) % 2
      BY <3>1, <3>2, ParityOfSum
    <3> QED
      BY <3>3 DEF d
  <2>7. Bits(a, n)[k + j] = (a \div Pow2[n - (k + j)]) % 2
    BY <1>2, <1>3, <2>1, BitsAre
  <2>8. Bits(y, m)[j] = (y \div Pow2[m - j]) % 2
    BY <1>3, BitsAre
  <2> QED
    BY <2>1, <2>6, <2>7, <2>8
<1> QED
  BY <1>4, <1>5

\* The bits of the first and of the rest.
LEMMA BitsSplit ==
  ASSUME NEW a \in Nat, NEW k \in Nat, NEW m \in Nat,
         NEW n, n = k + m, n <= IntBits,
         NEW x, x = a \div Pow2[m], NEW y, y = a % Pow2[m]
  PROVE  /\ \A j \in 1 .. k : Bits(x, k)[j] = Bits(a, n)[j]
         /\ \A j \in 1 .. m : Bits(y, m)[j] = Bits(a, n)[k + j]
<1>1. Pow2[m] \in Nat \ {0}
  BY Powers
<1>2. x \in Nat /\ y \in Nat /\ y < Pow2[m] /\ a = Pow2[m] * x + y
  BY <1>1, DivisionIsNat
<1>3. Pow2[m] * x = x * Pow2[m]
  BY <1>1, <1>2, SMT
<1>4. a = x * Pow2[m] + y
  BY <1>2, <1>3
<1>5. k \in Nat /\ m \in Nat /\ n = k + m /\ n <= IntBits
  OBVIOUS
<1> QED
  BY ONLY <1>2, <1>4, <1>5, BitsJoined, SMTT(20)

\* A number of n bits is told by them, ...
LEMMA SameBits ==
  ASSUME NEW n \in 0 .. IntBits, NEW x \in Nat, NEW y \in Nat,
         x < Pow2[n], y < Pow2[n],
         \A k \in 1 .. n : Bits(x, n)[k] = Bits(y, n)[k]
  PROVE  x = y
<1> DEFINE G == {m \in Nat : m <= IntBits =>
                   \A a, b \in Nat :
                     /\ a < Pow2[m] /\ b < Pow2[m]
                     /\ \A k \in 1 .. m : Bits(a, m)[k] = Bits(b, m)[k]
                     => a = b}
<1>1. 0 \in G
  <2>1. Pow2[0] = 1
    BY EncoderAssumption
  <2>2. \A a \in Nat : a < Pow2[0] => a = 0
    BY <2>1, SMT
  <2> QED
    BY <2>2
<1>2. ASSUME NEW m \in Nat, m \in G PROVE m + 1 \in G
  <2>1. SUFFICES ASSUME m + 1 <= IntBits, NEW a \in Nat, NEW b \in Nat,
                        a < Pow2[m + 1], b < Pow2[m + 1],
                        \A k \in 1 .. m + 1 : Bits(a, m + 1)[k] = Bits(b, m + 1)[k]
                 PROVE  a = b
    BY SMT
  <2>2. 1 + m <= IntBits /\ 1 + m = m + 1 /\ m <= IntBits /\ 1 \in Nat
        /\ 1 \in 0 .. IntBits /\ m \in 0 .. IntBits
    BY <2>1, Sizes, SMT
  <2>3. Pow2[m] \in Nat \ {0} /\ Pow2[1 + m] = Pow2[1] * Pow2[m] /\ Pow2[1] = 2
        /\ Pow2[0] = 1
    BY <2>2, Powers, EncoderAssumption
  <2>4. ASSUME NEW c \in Nat, c < Pow2[m + 1]
        PROVE  /\ c \div Pow2[m] \in {0, 1}
               /\ c % Pow2[m] \in Nat /\ c % Pow2[m] < Pow2[m]
               /\ c = Pow2[m] * (c \div Pow2[m]) + (c % Pow2[m])
               /\ c \div Pow2[m] = Bits(c, m + 1)[1]
               /\ \A k \in 1 .. m : Bits(c % Pow2[m], m)[k] = Bits(c, m + 1)[1 + k]
    <3>1. c < 2 * Pow2[m]
      BY <2>2, <2>3, <2>4
    <3>2. c \div Pow2[m] < 2 /\ c \div Pow2[m] \in Nat
          /\ c % Pow2[m] \in Nat /\ c % Pow2[m] < Pow2[m]
          /\ c = Pow2[m] * (c \div Pow2[m]) + (c % Pow2[m])
      <4> DEFINE d == Pow2[m]
      <4>1. d \in Nat \ {0}
        BY <2>3
      <4>2. c < 2 * d
        BY <2>3, <3>1
      <4> HIDE DEF d
      <4>3. c \div d < 2
        BY <4>1, <4>2, QuotientIsLess
      <4>4. c \div d \in Nat /\ c % d \in Nat /\ c % d < d
            /\ c = d * (c \div d) + (c % d)
        BY ONLY <4>1, c \in Nat, DivisionIsNat
      <4> QED
        BY <4>3, <4>4 DEF d
    <3> DEFINE q == c \div Pow2[m]
    <3>3. q \in {0, 1}
      <4>1. q \in Nat /\ q < 2
        BY <3>2
      <4> HIDE DEF q
      <4> QED
        BY <4>1, SMT
    <3>4. /\ \A j \in 1 .. 1 : Bits(q, 1)[j] = Bits(c, 1 + m)[j]
          /\ \A j \in 1 .. m : Bits(c % Pow2[m], m)[j] = Bits(c, 1 + m)[1 + j]
      BY <2>2, BitsSplit
    <3>5. Bits(q, 1)[1] = q
      <4> HIDE DEF q
      <4>1. 1 \in 1 .. 1 /\ 1 - 1 = 0 /\ q \in Nat
        BY <3>3, SMT
      <4>2. Bits(q, 1)[1] = (q \div Pow2[1 - 1]) % 2
        BY <2>2, <4>1, BitsAre
      <4>3. (q \div 1) % 2 = q
        BY <3>3, SMT
      <4> QED
        BY <2>3, <4>1, <4>2, <4>3
    <3>6. 1 \in 1 .. 1
      BY SMT
    <3> QED
      BY <2>2, <3>2, <3>3, <3>4, <3>5, <3>6
  <2>5. 1 \in 1 .. m + 1 /\ \A k \in 1 .. m : 1 + k \in 1 .. m + 1
    BY SMT
  <2>6. a \div Pow2[m] = b \div Pow2[m]
    BY <2>1, <2>4, <2>5
  <2>7. a % Pow2[m] = b % Pow2[m]
    <3> DEFINE c == a % Pow2[m]
               d == b % Pow2[m]
    <3>1. /\ c \in Nat /\ d \in Nat /\ c < Pow2[m] /\ d < Pow2[m]
          /\ \A k \in 1 .. m : Bits(c, m)[k] = Bits(d, m)[k]
      BY <2>1, <2>4, <2>5
    <3> HIDE DEF c, d
    <3>2. c = d
      BY <1>2, <2>2, <3>1
    <3> QED
      BY <3>2 DEF c, d
  <2>8. a = Pow2[m] * (a \div Pow2[m]) + (a % Pow2[m])
        /\ b = Pow2[m] * (b \div Pow2[m]) + (b % Pow2[m])
    BY <2>1, <2>4
  <2> DEFINE d == Pow2[m]
             qa == a \div d
             qb == b \div d
             za == a % d
             zb == b % d
  <2>9. qa = qb /\ za = zb /\ a = d * qa + za /\ b = d * qb + zb
    BY <2>6, <2>7, <2>8
  <2> HIDE DEF d, qa, qb, za, zb
  <2> QED
    BY ONLY <2>9, Zenon
<1>3. n \in G
  <2> HIDE DEF G
  <2>1. n \in Nat
    BY Sizes, SMT
  <2> QED
    BY <1>1, <1>2, <2>1, EveryNumber
<1>4. n <= IntBits
  BY Sizes, SMT
<1> QED
  BY <1>3, <1>4

\* ... and every choice of n bits is that of a number.
LEMMA AnyBits ==
  ASSUME NEW n \in 0 .. IntBits, NEW f \in [1 .. n -> {0, 1}]
  PROVE  \E x \in 0 .. Pow2[n] - 1 : Bits(x, n) = f
<1> DEFINE G == {m \in Nat : m <= IntBits =>
                   \A g \in [1 .. m -> {0, 1}] :
                     \E x \in Nat : x < Pow2[m] /\ Bits(x, m) = g}
<1>1. 0 \in G
  <2> SUFFICES ASSUME NEW g \in [1 .. 0 -> {0, 1}]
               PROVE  \E x \in Nat : x < Pow2[0] /\ Bits(x, 0) = g
    BY SMT
  <2>1. Pow2[0] = 1
    BY EncoderAssumption
  <2>2. 0 \in 0 .. IntBits
    BY Sizes, SMT
  <2>3. Bits(0, 0) \in [1 .. 0 -> {0, 1}]
    BY <2>2, BitsAre
  <2>4. \A k \in 1 .. 0 : FALSE
    BY SMT
  <2>5. Bits(0, 0) = g
    BY <2>3, <2>4
  <2> QED
    BY <2>1, <2>5
<1>2. ASSUME NEW m \in Nat, m \in G PROVE m + 1 \in G
  <2>1. SUFFICES ASSUME m + 1 <= IntBits, NEW g \in [1 .. m + 1 -> {0, 1}]
                 PROVE  \E x \in Nat : x < Pow2[m + 1] /\ Bits(x, m + 1) = g
    BY SMT
  <2>2. /\ 1 + m = m + 1 /\ m + 1 \in Nat /\ m <= IntBits /\ 1 \in Nat
        /\ 1 \in 0 .. IntBits /\ m \in 0 .. IntBits /\ m + 1 \in 0 .. IntBits
        /\ 1 \in 1 .. m + 1 /\ 1 \in 1 .. 1 /\ 1 - 1 = 0
    BY <2>1, Sizes, SMT
  <2>3. Pow2[m] \in Nat \ {0} /\ Pow2[1 + m] = Pow2[1] * Pow2[m] /\ Pow2[1] = 2
        /\ Pow2[0] = 1
    BY <2>1, <2>2, Powers, EncoderAssumption
  <2> DEFINE h == [k \in 1 .. m |-> g[1 + k]]
  <2>4. h \in [1 .. m -> {0, 1}]
    <3>1. \A k \in 1 .. m : 1 + k \in 1 .. m + 1
      BY SMT
    <3> QED
      BY <3>1
  <2>5. PICK y \in Nat : y < Pow2[m] /\ Bits(y, m) = h
    BY <1>2, <2>2, <2>4
  <2> DEFINE t == g[1]
             x == t * Pow2[m] + y
  <2>6. t \in {0, 1} /\ t \in Nat /\ t < 2
    BY <2>2, SMT
  <2> HIDE DEF t
  <2>7. x \in Nat /\ x < Pow2[m + 1]
    BY <2>2, <2>3, <2>5, <2>6, WordAppended
  <2>8. /\ \A j \in 1 .. 1 : Bits(x, m + 1)[j] = Bits(t, 1)[j]
        /\ \A j \in 1 .. m : Bits(x, m + 1)[1 + j] = Bits(y, m)[j]
    <3> DEFINE z == x
               l == m + 1
    <3>1. /\ z = t * Pow2[m] + y /\ l = 1 + m /\ l <= IntBits
          /\ t \in Nat /\ y \in Nat /\ m \in Nat /\ 1 \in Nat /\ y < Pow2[m]
      BY <2>1, <2>2, <2>5, <2>6
    <3> HIDE DEF z, l
    <3>2. /\ \A j \in 1 .. 1 : Bits(z, l)[j] = Bits(t, 1)[j]
          /\ \A j \in 1 .. m : Bits(z, l)[1 + j] = Bits(y, m)[j]
      BY ONLY <3>1, BitsJoined
    <3> QED
      BY <3>2 DEF z, l
  <2> HIDE DEF x
  <2>9. Bits(t, 1)[1] = t
    <3>1. Bits(t, 1)[1] = (t \div Pow2[1 - 1]) % 2
      BY <2>2, <2>6, BitsAre
    <3>2. (t \div 1) % 2 = t
      BY <2>6, SMT
    <3> QED
      BY <2>2, <2>3, <3>1, <3>2
  <2>10. Bits(x, m + 1) = g
    <3>1. Bits(x, m + 1) \in [1 .. m + 1 -> {0, 1}]
      BY <2>2, <2>7, BitsAre
    <3>2. ASSUME NEW k \in 1 .. m + 1 PROVE Bits(x, m + 1)[k] = g[k]
      <4>1. CASE k = 1
        BY <2>2, <2>8, <2>9, <4>1 DEF t
      <4>2. CASE k # 1
        <5>1. k - 1 \in 1 .. m /\ 1 + (k - 1) = k
          BY <4>2, SMT
        <5>2. Bits(x, m + 1)[k] = Bits(y, m)[k - 1]
          BY <2>8, <5>1
        <5>3. h[k - 1] = g[k]
          BY <5>1
        <5> QED
          BY <2>5, <5>2, <5>3
      <4> QED
        BY <4>1, <4>2
    <3> QED
      BY <3>1, <3>2
  <2> QED
    BY <2>7, <2>10
<1>3. n \in G
  <2> HIDE DEF G
  <2>1. n \in Nat
    BY Sizes, SMT
  <2> QED
    BY <1>1, <1>2, <2>1, EveryNumber
<1>4. n <= IntBits /\ n \in Nat
  BY Sizes, SMT
<1>5. PICK x \in Nat : x < Pow2[n] /\ Bits(x, n) = f
  BY <1>3, <1>4
<1>6. x \in 0 .. Pow2[n] - 1
  <2>1. Pow2[n] \in Nat
    BY Sizes
  <2> QED
    BY <1>5, <2>1, SMT
<1> QED
  BY <1>5, <1>6

\* The words of a sequence of bits, and the bits of the words.
LEMMA PackedBits ==
  ASSUME NEW b \in Seq({0, 1})
  PROVE  /\ Packed(b) \in Seq(Word)
         /\ Len(Packed(b)) = (Len(b) + W - 1) \div W
         /\ \A k \in 1 .. Len(Packed(b)) :
              Bits(Packed(b)[k], W) = [j \in 1 .. W |-> FilledUp(b, (k - 1) * W + j)]
<1> DEFINE n == (Len(b) + W - 1) \div W
           Of(k) == [j \in 1 .. W |-> FilledUp(b, (k - 1) * W + j)]
<1>1. Len(b) \in Nat /\ \A k \in 1 .. Len(b) : b[k] \in {0, 1}
  BY LenProperties
<1>2. W \in Nat \ {0} /\ W \in 0 .. IntBits
  <2>1. W + W - 1 <= IntBits
    BY EncoderAssumption
  <2> QED
    BY <2>1, Sizes, SMT
<1>3. n \in Nat
  <2>1. Len(b) + W - 1 \in Nat
    BY <1>1, <1>2, SMT
  <2> QED
    BY <1>2, <2>1, DivisionIsNat
<1> HIDE DEF n
<1>4. ASSUME NEW k \in 1 .. n
      PROVE  \E word \in Word : Bits(word, W) = Of(k)
  <2>1. ASSUME NEW j \in 1 .. W PROVE FilledUp(b, (k - 1) * W + j) \in {0, 1}
    <3> DEFINE p == (k - 1) * W + j
    <3>1. p \in Nat \ {0}
      <4>1. k - 1 \in Nat
        BY <1>3, SMT
      <4>2. (k - 1) * W \in Nat
        BY <1>2, <4>1, SMT
      <4> QED
        BY <1>2, <4>2, SMT
    <3> HIDE DEF p
    <3>2. p <= Len(b) => p \in 1 .. Len(b)
      BY <1>1, <3>1, SMT
    <3>3. FilledUp(b, p) \in {0, 1}
      BY <1>1, <3>2 DEF FilledUp
    <3> QED
      BY <3>3 DEF p
  <2>2. Of(k) \in [1 .. W -> {0, 1}]
    BY <2>1
  <2> HIDE DEF Of
  <2>3. \E word \in 0 .. Pow2[W] - 1 : Bits(word, W) = Of(k)
    BY <1>2, <2>2, AnyBits
  <2> QED
    BY <2>3 DEF Word
<1>5. Packed(b) = [k \in 1 .. n |-> CHOOSE word \in Word : Bits(word, W) = Of(k)]
  BY DEF Packed, n
<1>6. ASSUME NEW k \in 1 .. n
      PROVE  Packed(b)[k] \in Word /\ Bits(Packed(b)[k], W) = Of(k)
  <2> HIDE DEF Of
  <2>1. Packed(b)[k] = CHOOSE word \in Word : Bits(word, W) = Of(k)
    BY <1>5
  <2> QED
    BY <1>4, <2>1
<1>7. Packed(b) \in [1 .. n -> Word]
  <2>1. DOMAIN Packed(b) = 1 .. n /\ Packed(b) = [k \in 1 .. n |-> Packed(b)[k]]
    BY <1>5, Zenon
  <2> QED
    BY <1>6, <2>1
<1>8. Packed(b) \in Seq(Word) /\ Len(Packed(b)) = n
  BY <1>3, <1>7
<1> QED
  BY <1>6, <1>8 DEF n

-----------------------------------------------------------------------------
(* What a text is cut into.                                                *)

\* The blanks before the text, and the text.
LEMMA HistoryIs ==
  ASSUME NEW t \in Seq(Word)
  PROVE  /\ History(t) \in Seq(Word)
         /\ Len(History(t)) = N - F + Len(t)
         /\ \A k \in 1 .. N - F : History(t)[k] = Blank
         /\ \A k \in 1 .. Len(t) : History(t)[N - F + k] = t[k]
<1> DEFINE b == [k \in 1 .. N - F |-> Blank]
<1>1. N - F \in Nat
  BY Sizes, SMT
<1>2. Blank \in Word
  BY EncoderAssumption
<1>3. b \in Seq(Word) /\ Len(b) = N - F /\ \A k \in 1 .. N - F : b[k] = Blank
  BY <1>1, <1>2
<1>4. History(t) = b \o t
  BY DEF History
<1> HIDE DEF b
<1> DEFINE h == History(t)
<1>5. h = b \o t /\ b \in Seq(Word) /\ t \in Seq(Word)
  BY <1>3, <1>4
<1> HIDE DEF h
<1>6. /\ h \in Seq(Word) /\ Len(h) = Len(b) + Len(t)
      /\ \A k \in 1 .. Len(b) : h[k] = b[k]
      /\ \A k \in 1 .. Len(t) : h[Len(b) + k] = t[k]
  BY ONLY <1>5, Joined
<1> QED
  BY <1>3, <1>6 DEF h

\* A match has the characters that come next, ...
LEMMA MatchLengthIs ==
  ASSUME NEW h \in Seq(Word), NEW p \in N - F .. Len(h) - 1, NEW q \in Window(p)
  PROVE  /\ MatchLength(h, q, p) \in 0 .. F
         /\ p + MatchLength(h, q, p) <= Len(h)
         /\ \A k \in 1 .. MatchLength(h, q, p) : h[q + k] = h[p + k]
<1> DEFINE m == Min({F, Len(h) - p})
           S == {j \in 0 .. m : \A k \in 1 .. j : h[q + k] = h[p + k]}
<1>1. Len(h) \in Nat /\ N - F \in Nat /\ F \in Nat
  BY LenProperties, Sizes, SMT
<1>2. Len(h) - p \in Nat
  BY <1>1, SMT
<1>3. m \in Nat /\ m <= F /\ m <= Len(h) - p
  <2>1. \E x \in {F, Len(h) - p} : \A y \in {F, Len(h) - p} : x <= y
    BY <1>1, <1>2, SMT
  <2>2. m \in {F, Len(h) - p} /\ \A y \in {F, Len(h) - p} : m <= y
    BY <2>1 DEF Min
  <2> QED
    BY <1>1, <1>2, <2>2
<1> HIDE DEF m
<1>4. S \subseteq Nat /\ 0 \in S /\ \A x \in S : x <= m
  BY <1>3, SMT
<1> HIDE DEF S
<1>5. Max(S) \in S
  BY <1>3, <1>4, LargestNumber
<1>6. MatchLength(h, q, p) = Max(S)
  BY DEF MatchLength, S, m
<1>7. Max(S) \in 0 .. m /\ \A k \in 1 .. Max(S) : h[q + k] = h[p + k]
  BY <1>5 DEF S
<1> QED
  BY <1>1, <1>3, <1>6, <1>7, SMT

\* ... and so has the one that is chosen.
LEMMA NearestMatchIs ==
  ASSUME NEW h \in Seq(Word), NEW p \in N - F .. Len(h) - 1
  PROVE  /\ NearestMatch(h, p) \in Window(p)
         /\ LongestMatch(h, p) \in 0 .. F
         /\ p + LongestMatch(h, p) <= Len(h)
         /\ \A k \in 1 .. LongestMatch(h, p) :
              h[NearestMatch(h, p) + k] = h[p + k]
<1> DEFINE S == {MatchLength(h, q, p) : q \in Window(p)}
<1>1. N - F \in Nat \ {0} /\ F \in Nat /\ p \in Nat /\ p >= N - F
  BY Sizes, LenProperties, SMT
<1>2. Window(p) \subseteq Nat /\ p - 1 \in Window(p)
      /\ \A q \in Window(p) : q <= p
  BY <1>1, SMT DEF Window
<1>3. S \subseteq Nat /\ S # {} /\ \A x \in S : x <= F
  <2>1. \A q \in Window(p) : MatchLength(h, q, p) \in 0 .. F
    BY MatchLengthIs
  <2>2. \A x \in 0 .. F : x \in Nat /\ x <= F
    BY <1>1, SMT
  <2> QED
    BY <1>2, <2>1, <2>2
<1> HIDE DEF S
<1>4. Max(S) \in S
  BY <1>1, <1>3, LargestNumber
<1>5. LongestMatch(h, p) = Max(S)
  BY DEF LongestMatch, S
<1> DEFINE T == {q \in Window(p) : MatchLength(h, q, p) = LongestMatch(h, p)}
<1>6. T \subseteq Nat /\ T # {} /\ \A x \in T : x <= p
  <2>1. PICK q \in Window(p) : MatchLength(h, q, p) = LongestMatch(h, p)
    BY <1>4, <1>5 DEF S
  <2> QED
    BY <1>2, <2>1
<1>7. NearestMatch(h, p) = Max(T)
  BY DEF NearestMatch
<1> HIDE DEF T
<1>8. Max(T) \in T
  BY <1>1, <1>6, LargestNumber
<1>9. NearestMatch(h, p) \in Window(p)
      /\ MatchLength(h, NearestMatch(h, p), p) = LongestMatch(h, p)
  BY <1>7, <1>8 DEF T
<1> QED
  BY <1>9, MatchLengthIs

\* The bits of a word, a position or a length.
LEMMA BitsInSequence ==
  ASSUME NEW x \in Nat, NEW n \in {W, EI, EJ}
  PROVE  Bits(x, n) \in Seq({0, 1}) /\ Len(Bits(x, n)) = n
<1>1. n \in 0 .. IntBits /\ n \in Nat
  <2>1. n + W - 1 <= IntBits
    BY EncoderAssumption
  <2> QED
    BY <2>1, Sizes, SMT
<1>2. Bits(x, n) \in [1 .. n -> {0, 1}]
  BY <1>1, BitsAre
<1> QED
  BY <1>1, <1>2

\* Literals and matches.
LEMMA LiteralIs ==
  ASSUME NEW c \in Word
  PROVE  /\ Literal(c).length = 1
         /\ Literal(c).bits \in Seq({0, 1})
         /\ Len(Literal(c).bits) = 1 + W
         /\ Literal(c).bits[1] = 1
         /\ \A j \in 1 .. W : Literal(c).bits[1 + j] = Bits(c, W)[j]
<1> DEFINE f == <<1>>
           b == Bits(c, W)
           u == Literal(c).bits
<1>1. c \in Nat
  BY Sizes, SMT DEF Word
<1>2. b \in Seq({0, 1}) /\ Len(b) = W
  BY <1>1, BitsInSequence
<1>3. f \in Seq({0, 1}) /\ Len(f) = 1 /\ f[1] = 1
  BY SMT
<1>4. u = f \o b /\ Literal(c).length = 1
  BY DEF Literal
<1> DEFINE S == {0, 1}
<1>5. u = f \o b /\ f \in Seq(S) /\ b \in Seq(S)
  BY <1>2, <1>3, <1>4
<1> HIDE DEF f, b, u, S
<1>6. /\ u \in Seq(S) /\ Len(u) = Len(f) + Len(b)
      /\ \A k \in 1 .. Len(f) : u[k] = f[k]
      /\ \A k \in 1 .. Len(b) : u[Len(f) + k] = b[k]
  BY ONLY <1>5, Joined
<1>7. 1 \in 1 .. 1
  BY SMT
<1> QED
  BY <1>2, <1>3, <1>4, <1>6, <1>7 DEF b, u, S

LEMMA MatchIs ==
  ASSUME NEW x \in Nat, NEW y \in 2 .. F
  PROVE  /\ Match(x, y).length = y
         /\ Match(x, y).bits \in Seq({0, 1})
         /\ Len(Match(x, y).bits) = 1 + EI + EJ
         /\ Match(x, y).bits[1] = 0
         /\ \A j \in 1 .. EI : Match(x, y).bits[1 + j] = Bits(x % N, EI)[j]
         /\ \A j \in 1 .. EJ :
              Match(x, y).bits[1 + EI + j] = Bits(y - 2, EJ)[j]
<1> DEFINE f == <<0>>
           a == Bits(x % N, EI)
           b == Bits(y - 2, EJ)
           v == f \o a
           u == Match(x, y).bits
<1>1. x % N \in Nat /\ y - 2 \in Nat
  BY Sizes, DivisionIsNat, SMT
<1>2. /\ a \in Seq({0, 1}) /\ Len(a) = EI
      /\ b \in Seq({0, 1}) /\ Len(b) = EJ
  BY <1>1, BitsInSequence
<1>3. f \in Seq({0, 1}) /\ Len(f) = 1 /\ f[1] = 0
  BY SMT
<1>4. u = v \o b /\ v = f \o a /\ Match(x, y).length = y
  <2>1. u = <<0>> \o Bits(x % N, EI) \o Bits(y - 2, EJ) /\ Match(x, y).length = y
    BY DEF Match
  <2> QED
    BY <2>1, Zenon
<1> DEFINE S == {0, 1}
<1>5. u = Match(x, y).bits /\ a = Bits(x % N, EI) /\ b = Bits(y - 2, EJ)
  OBVIOUS
<1>6. v = f \o a /\ f \in Seq(S) /\ a \in Seq(S)
  BY <1>2, <1>3, <1>4
<1>7. b \in Seq(S)
  BY <1>2
<1> HIDE DEF f, a, b, u, v, S
<1>8. /\ v \in Seq(S) /\ Len(v) = Len(f) + Len(a)
      /\ \A k \in 1 .. Len(f) : v[k] = f[k]
      /\ \A k \in 1 .. Len(a) : v[Len(f) + k] = a[k]
  BY ONLY <1>6, Joined
<1>9. u = v \o b /\ v \in Seq(S) /\ b \in Seq(S)
  BY ONLY <1>4, <1>8, <1>7
<1>10. /\ u \in Seq(S) /\ Len(u) = Len(v) + Len(b)
       /\ \A k \in 1 .. Len(v) : u[k] = v[k]
       /\ \A k \in 1 .. Len(b) : u[Len(v) + k] = b[k]
  BY ONLY <1>9, Joined
<1>11. /\ 1 \in 1 .. 1 /\ 1 \in 1 .. 1 + EI
       /\ \A j \in 1 .. EI : 1 + j \in 1 .. 1 + EI
  BY Sizes, SMT
<1>12. /\ Len(u) = 1 + EI + EJ /\ u[1] = 0
       /\ \A j \in 1 .. EI : u[1 + j] = a[j]
       /\ \A j \in 1 .. EJ : u[1 + EI + j] = b[j]
  BY <1>2, <1>3, <1>8, <1>10, <1>11
<1>13. Match(x, y).length = y
  BY <1>4
<1>14. u \in Seq({0, 1})
  BY <1>10 DEF S
<1> QED
  BY <1>12, <1>13, <1>14, <1>5

TokenType == [length : 1 .. F, bits : Seq({0, 1})]

\* A token is a literal or a match of what comes next.
LEMMA TokenIs ==
  ASSUME NEW h \in Seq(Word), NEW p \in N - F .. Len(h) - 1,
         NEW t, t = Token(h, p)
  PROVE  /\ t \in TokenType
         /\ p + t.length <= Len(h)
         /\ t.length = 1 => t = Literal(h[p + 1])
         /\ t.length > 1 =>
              /\ t = Match(NearestMatch(h, p), t.length)
              /\ NearestMatch(h, p) \in Window(p)
              /\ \A k \in 1 .. t.length : h[NearestMatch(h, p) + k] = h[p + k]
<1> DEFINE x == NearestMatch(h, p)
           y == LongestMatch(h, p)
<1>1. /\ N - F \in Nat /\ F \in Nat /\ F > 1 /\ Len(h) \in Nat
      /\ p \in Nat /\ p + 1 \in 1 .. Len(h) /\ p + 1 <= Len(h)
  <2>1. Pow2[EJ] \in Nat \ {0}
    <3>1. EJ + W - 1 <= IntBits
      BY EncoderAssumption
    <3>2. EJ \in 0 .. IntBits
      BY <3>1, Sizes, SMT
    <3> QED
      BY <3>2, Sizes
  <2> QED
    BY <2>1, LenProperties, Sizes, SMT DEF F
<1>2. /\ x \in Window(p) /\ y \in 0 .. F /\ p + y <= Len(h)
      /\ \A k \in 1 .. y : h[x + k] = h[p + k]
  BY NearestMatchIs
<1>3. h[p + 1] \in Word
  BY <1>1, ElementOfSeq
<1>4. x \in Nat
  BY <1>1, <1>2, SMT DEF Window
<1> HIDE DEF x, y
<1>5. CASE y <= 1
  <2>1. t = Literal(h[p + 1])
    BY <1>5 DEF Token, P, y
  <2>2. t.length = 1 /\ t.bits \in Seq({0, 1})
    BY <1>3, <2>1, LiteralIs
  <2>3. t = [length |-> t.length, bits |-> t.bits]
    BY <2>1 DEF Literal
  <2>4. t.length \in 1 .. F
    BY <1>1, <2>2, SMT
  <2>5. t \in TokenType
    BY ONLY <2>2, <2>3, <2>4 DEF TokenType
  <2> QED
    BY <1>1, <2>1, <2>2, <2>5, SMT
<1>6. CASE ~(y <= 1)
  <2>1. t = Match(x, y)
    BY <1>6 DEF Token, P, y, x
  <2>2. y \in 2 .. F
    BY <1>1, <1>2, <1>6, SMT
  <2>3. t.length = y /\ t.bits \in Seq({0, 1})
    BY <1>4, <2>1, <2>2, MatchIs
  <2>4. t = [length |-> t.length, bits |-> t.bits]
    BY <2>1 DEF Match
  <2>5. t.length \in 1 .. F /\ t.length # 1
    BY <1>1, <2>2, <2>3, SMT
  <2>6. t \in TokenType
    BY ONLY <2>3, <2>4, <2>5 DEF TokenType
  <2> QED
    BY <1>2, <2>1, <2>3, <2>5, <2>6 DEF x
<1> QED
  BY <1>5, <1>6

\* The tokens from each position on.
LEMMA TokensFrom ==
  ASSUME NEW text0 \in Seq(Word), NEW h, h = History(text0)
  PROVE  \E f : /\ Tokens(text0) = f[N - F]
                /\ f[Len(h)] = <<>>
                /\ \A p \in N - F .. Len(h) - 1 :
                     f[p] = <<Token(h, p)>> \o f[p + Token(h, p).length]
<1> DEFINE L == Len(h)
           b == N - F
<1>1. h \in Seq(Word) /\ b \in Nat /\ L \in Nat /\ b <= L
  <2>1. h \in Seq(Word) /\ L = b + Len(text0)
    BY HistoryIs
  <2>2. Len(text0) \in Nat
    BY LenProperties
  <2>3. b \in Nat
    BY Sizes, SMT
  <2> HIDE DEF L, b
  <2> QED
    BY <2>1, <2>2, <2>3, SMT
<1> HIDE DEF L, b
<1>2. ASSUME NEW p \in b .. L - 1
      PROVE  /\ Token(h, p).length \in Nat \ {0}
             /\ p + Token(h, p).length <= L
  <2>1. Token(h, p).length \in 1 .. F /\ p + Token(h, p).length <= L
    BY <1>1, TokenIs DEF TokenType, b, L
  <2> QED
    BY <2>1, Sizes, SMT
<1> DEFINE Def(n, g) ==
             g = [p \in L - n .. L |->
                    IF p = L THEN <<>>
                    ELSE <<Token(h, p)>> \o g[p + Token(h, p).length]]
           Some == {n \in Nat : n <= L - b => \E g : Def(n, g)}
<1>3. 0 \in Some
  <2> DEFINE e == [p \in L - 0 .. L |-> <<>>]
             v == [p \in L - 0 .. L |->
                     IF p = L THEN <<>>
                     ELSE <<Token(h, p)>> \o e[p + Token(h, p).length]]
  <2>1. \A p \in L - 0 .. L : p = L
    BY <1>1, SMT
  <2>2. \A p \in L - 0 .. L : e[p] = v[p]
    BY <2>1, Zenon
  <2>3. e = v
    BY <2>2
  <2>4. Def(0, e)
    BY <2>3
  <2>5. \E g : Def(0, g)
    <3> HIDE DEF Def, e
    <3> QED
      BY <2>4, Zenon
  <2> HIDE DEF Def
  <2> QED
    BY <2>5
<1>4. ASSUME NEW n \in Nat, n \in Some PROVE n + 1 \in Some
  <2>1. n + 1 \in Nat
    BY SMT
  <2>2. ASSUME n + 1 <= L - b PROVE \E w : Def(n + 1, w)
    <3>1. \E g : Def(n, g)
      <4>1. n <= L - b
        BY <1>1, <2>2, SMT
      <4> HIDE DEF Def
      <4> QED
        BY <1>4, <4>1
    <3>2. PICK g : Def(n, g)
      BY <3>1
    <3> DEFINE m == L - (n + 1)
    <3>3. m \in b .. L - 1 /\ m + 1 = L - n /\ m \in Nat
      BY <1>1, <2>2, SMT
    <3> DEFINE To(p) == p + Token(h, p).length
               e == [p \in m .. L |->
                       IF p = m THEN <<Token(h, p)>> \o g[To(p)] ELSE g[p]]
               v == [p \in m .. L |->
                       IF p = L THEN <<>> ELSE <<Token(h, p)>> \o e[To(p)]]
    <3> HIDE DEF m
    <3>4. \A p \in L - n .. L : p \in m .. L /\ p # m /\ e[p] = g[p]
      <4>1. \A p \in L - n .. L : p \in m .. L /\ p # m
        BY <1>1, <3>3, SMT
      <4> QED
        BY <4>1
    <3>5. \A p \in m .. L - 1 : To(p) \in L - n .. L
      <4> TAKE p \in m .. L - 1
      <4>1. p \in b .. L - 1
        BY <1>1, <3>3, SMT
      <4>2. Token(h, p).length \in Nat \ {0} /\ p + Token(h, p).length <= L
        BY <1>2, <4>1
      <4> QED
        BY <1>1, <3>3, <4>1, <4>2, SMT
    <3>6. ASSUME NEW p \in m .. L PROVE e[p] = v[p]
      <4>1. CASE p = m
        <5>1. p # L /\ p \in m .. L - 1
          BY <1>1, <3>3, <4>1, SMT
        <5>2. e[p] = <<Token(h, p)>> \o g[To(p)]
          BY <4>1
        <5>3. v[p] = <<Token(h, p)>> \o e[To(p)]
          BY <5>1
        <5>4. e[To(p)] = g[To(p)]
          BY <3>4, <3>5, <5>1
        <5> HIDE DEF e, v, To
        <5> QED
          BY <5>2, <5>3, <5>4
      <4>2. CASE p # m
        <5>1. p \in L - n .. L
          BY <1>1, <3>3, <4>2, SMT
        <5>2. e[p] = g[p]
          BY <4>2
        <5>3. g[p] = IF p = L THEN <<>> ELSE <<Token(h, p)>> \o g[To(p)]
          BY <3>2, <5>1
        <5>4. v[p] = IF p = L THEN <<>> ELSE <<Token(h, p)>> \o e[To(p)]
          OBVIOUS
        <5>5. p # L => e[To(p)] = g[To(p)]
          <6>1. p # L => p \in m .. L - 1
            BY <1>1, <3>3, SMT
          <6> QED
            BY <3>4, <3>5, <6>1
        <5> HIDE DEF e, v, To
        <5> QED
          BY <5>2, <5>3, <5>4, <5>5
      <4> QED
        BY <4>1, <4>2
    <3>7. e = v
      BY <3>6
    <3>8. Def(n + 1, e)
      BY <3>7 DEF m
    <3> HIDE DEF Def, e
    <3> QED
      BY <3>8, Zenon
  <2> HIDE DEF Def
  <2> QED
    BY <2>1, <2>2
<1>5. L - b \in Nat /\ L - (L - b) = b
  BY <1>1, SMT
<1>6. \E g : Def(L - b, g)
  <2>1. L - b \in Some
    <3> HIDE DEF Some
    <3> QED
      BY <1>3, <1>4, <1>5, EveryNumber
  <2>2. L - b <= L - b
    BY <1>5, SMT
  <2> HIDE DEF Def
  <2> QED
    BY <2>1, <2>2
<1> DEFINE D2(g) == g = [p \in b .. L |->
                    IF p = L THEN <<>>
                    ELSE <<Token(h, p)>> \o g[p + Token(h, p).length]]
           f == CHOOSE g : D2(g)
<1>7. \E g : D2(g)
  BY <1>5, <1>6
<1>8. D2(f)
  <2> HIDE DEF D2
  <2> QED
    BY <1>7, Zenon
<1>9. Tokens(text0) = f[b]
  BY DEF Tokens, L, b
<1> HIDE DEF f
<1>10. L \in b .. L /\ \A p \in b .. L - 1 : p \in b .. L /\ p # L
  BY <1>1, SMT
<1>11. /\ f[L] = <<>>
       /\ \A p \in b .. L - 1 : f[p] = <<Token(h, p)>> \o f[p + Token(h, p).length]
  BY <1>8, <1>10
<1> QED
  BY <1>9, <1>11 DEF L, b

\* Tokens ts with their places: each begins where the one before ends.
CutUp(h, ts, p, at) ==
  /\ ts \in Seq(TokenType)
  /\ at \in [0 .. Len(ts) -> p .. Len(h)]
  /\ at[0] = p /\ at[Len(ts)] = Len(h)
  /\ \A k \in 1 .. Len(ts) :
       /\ at[k - 1] < Len(h)
       /\ ts[k] = Token(h, at[k - 1])
       /\ at[k] = at[k - 1] + ts[k].length

\* One token more in front.
LEMMA CutUpLonger ==
  ASSUME NEW h \in Seq(Word), NEW p \in N - F .. Len(h) - 1,
         NEW ts, NEW at, CutUp(h, ts, p + Token(h, p).length, at),
         NEW us, us = <<Token(h, p)>> \o ts
  PROVE  \E bt : CutUp(h, us, p, bt)
<1> DEFINE t == Token(h, p)
           q == p + t.length
           bt == [k \in 0 .. Len(us) |-> IF k = 0 THEN p ELSE at[k - 1]]
           L == Len(h)
<1>1. /\ t \in TokenType /\ t.length \in Nat \ {0} /\ q <= L
      /\ p \in Nat /\ L \in Nat /\ q \in Nat /\ p < q /\ p < L
  <2>1. t \in TokenType /\ t.length \in 1 .. F /\ q <= L
    BY TokenIs DEF TokenType
  <2>2. /\ p \in Nat /\ L \in Nat /\ p < L
    BY LenProperties, Sizes, SMT
  <2> QED
    BY <2>1, <2>2, Sizes, SMT
<1>2. /\ ts \in Seq(TokenType)
      /\ at \in [0 .. Len(ts) -> q .. L]
      /\ at[0] = q /\ at[Len(ts)] = L
      /\ \A k \in 1 .. Len(ts) :
           /\ at[k - 1] < L
           /\ ts[k] = Token(h, at[k - 1])
           /\ at[k] = at[k - 1] + ts[k].length
  BY DEF CutUp
<1> HIDE DEF L
<1>3. Len(ts) \in Nat
  BY <1>2, LenProperties
<1>4. /\ us \in Seq(TokenType) /\ Len(us) = Len(ts) + 1 /\ us[1] = t
      /\ \A k \in 2 .. Len(us) : us[k] = ts[k - 1]
  <2> DEFINE s == <<t>>
  <2>1. s \in Seq(TokenType) /\ Len(s) = 1 /\ s[1] = t
    BY <1>1
  <2>2. us = s \o ts /\ s \in Seq(TokenType) /\ ts \in Seq(TokenType)
    BY <1>2, <2>1
  <2> HIDE DEF s, t
  <2>3. /\ us \in Seq(TokenType) /\ Len(us) = Len(s) + Len(ts)
        /\ \A k \in 1 .. Len(s) : us[k] = s[k]
        /\ \A k \in 1 .. Len(ts) : us[Len(s) + k] = ts[k]
    BY ONLY <2>2, Joined
  <2>4. Len(us) = Len(ts) + 1 /\ us[1] = t
    BY <1>3, <2>1, <2>3, SMT
  <2>5. ASSUME NEW k \in 2 .. Len(us) PROVE us[k] = ts[k - 1]
    <3>1. k - 1 \in 1 .. Len(ts) /\ 1 + (k - 1) = k
      BY <1>3, <2>4, SMT
    <3> QED
      BY <2>1, <2>3, <3>1
  <2> QED
    BY <2>3, <2>4, <2>5
<1>5. bt \in [0 .. Len(us) -> p .. L]
  <2>1. ASSUME NEW k \in 0 .. Len(us), k # 0 PROVE at[k - 1] \in p .. L
    <3>1. k - 1 \in 0 .. Len(ts)
      BY <1>3, <1>4, <2>1, SMT
    <3>2. at[k - 1] \in q .. L
      BY <1>2, <3>1
    <3> HIDE DEF q
    <3> QED
      BY <1>1, <3>2, SMT
  <2>2. p \in p .. L
    BY <1>1, SMT
  <2> QED
    BY <2>1, <2>2
<1>6. bt[0] = p /\ bt[1] = q /\ bt[Len(us)] = L
      /\ \A k \in 1 .. Len(us) : bt[k] = at[k - 1]
  <2>1. /\ 0 \in 0 .. Len(us) /\ 1 \in 0 .. Len(us) /\ Len(us) \in 0 .. Len(us)
        /\ Len(us) # 0 /\ Len(us) - 1 = Len(ts) /\ 1 - 1 = 0
        /\ \A k \in 1 .. Len(us) : k \in 0 .. Len(us) /\ k # 0
    BY <1>3, <1>4, SMT
  <2>2. \A k \in 0 .. Len(us) : bt[k] = IF k = 0 THEN p ELSE at[k - 1]
    OBVIOUS
  <2> HIDE DEF bt, q
  <2>3. bt[0] = p /\ bt[1] = at[1 - 1] /\ bt[Len(us)] = at[Len(us) - 1]
    BY <2>1, <2>2
  <2>4. \A k \in 1 .. Len(us) : bt[k] = at[k - 1]
    BY <2>1, <2>2
  <2> QED
    BY <1>2, <2>1, <2>3, <2>4
<1>7. ASSUME NEW k \in 1 .. Len(us)
      PROVE  /\ bt[k - 1] < L
             /\ us[k] = Token(h, bt[k - 1])
             /\ bt[k] = bt[k - 1] + us[k].length
  <2> HIDE DEF bt
  <2>1. CASE k = 1
    <3>1. bt[k - 1] = p /\ bt[k] = q /\ us[k] = t
      BY <1>4, <1>6, <2>1
    <3> QED
      BY <1>1, <3>1
  <2>2. CASE k # 1
    <3>1. k \in 2 .. Len(us) /\ k - 1 \in 1 .. Len(us) /\ k - 1 \in 1 .. Len(ts)
      BY <1>3, <1>4, <2>2, SMT
    <3>2. us[k] = ts[k - 1] /\ bt[k] = at[k - 1] /\ bt[k - 1] = at[(k - 1) - 1]
      BY <1>4, <1>6, <3>1
    <3> QED
      BY <1>2, <3>1, <3>2
  <2> QED
    BY <2>1, <2>2
<1>8. CutUp(h, us, p, bt)
  BY <1>4, <1>5, <1>6, <1>7 DEF CutUp, L
<1> HIDE DEF bt
<1> QED
  BY <1>8, Zenon

\* The tokens of a text are matches and literals from its beginning to its end.
LEMMA TokensCutUp ==
  ASSUME NEW text0 \in Seq(Word), NEW h, h = History(text0)
  PROVE  \E at : CutUp(h, Tokens(text0), N - F, at)
<1> DEFINE L == Len(h)
           b == N - F
<1>1. h \in Seq(Word) /\ b \in Nat /\ L \in Nat /\ b <= L
  <2>1. h \in Seq(Word) /\ L = b + Len(text0)
    BY HistoryIs
  <2>2. Len(text0) \in Nat
    BY LenProperties
  <2>3. b \in Nat
    BY Sizes, SMT
  <2> HIDE DEF L, b
  <2> QED
    BY <2>1, <2>2, <2>3, SMT
<1>2. PICK f : /\ Tokens(text0) = f[N - F]
               /\ f[Len(h)] = <<>>
               /\ \A p \in N - F .. Len(h) - 1 :
                     f[p] = <<Token(h, p)>> \o f[p + Token(h, p).length]
  BY TokensFrom
<1> DEFINE Cut(p) == \E at : CutUp(h, f[p], p, at)
           G == {n \in Nat : \A p \in b .. L : L - n <= p => Cut(p)}
<1> HIDE DEF L, b
<1>3. 0 \in G
  <2>1. \A p \in b .. L : L - 0 <= p => p = L
    BY <1>1, SMT
  <2>2. Cut(L)
    <3> DEFINE at == [k \in 0 .. 0 |-> L]
    <3>1. f[L] = <<>> /\ Len(f[L]) = 0 /\ f[L] \in Seq(TokenType)
      BY <1>2 DEF L
    <3>2. L \in L .. L /\ 0 \in 0 .. 0 /\ \A k \in 1 .. 0 : FALSE
      BY <1>1, SMT
    <3>3. at \in [0 .. 0 -> L .. L] /\ at[0] = L
      BY <3>2
    <3> HIDE DEF at
    <3>4. CutUp(h, f[L], L, at)
      BY <3>1, <3>2, <3>3 DEF CutUp, L
    <3> QED
      BY <3>4, Zenon
  <2> HIDE DEF Cut
  <2> QED
    BY <2>1, <2>2
<1>4. ASSUME NEW n \in Nat, n \in G PROVE n + 1 \in G
  <2>1. ASSUME NEW p \in b .. L, L - (n + 1) <= p PROVE Cut(p)
    <3>1. CASE L - n <= p
      BY <1>4, <3>1
    <3>2. CASE ~(L - n <= p)
      <4>1. p \in b .. L - 1
        BY <1>1, <3>2, SMT
      <4> DEFINE t == Token(h, p)
                 q == p + t.length
      <4>2. q \in b .. L /\ L - n <= q
        <5>1. t.length \in 1 .. F /\ q <= L
          BY <1>1, <4>1, TokenIs DEF TokenType, b, L
        <5> HIDE DEF t
        <5> QED
          BY <1>1, <2>1, <4>1, <5>1, Sizes, SMT
      <4>3. Cut(q)
        <5> HIDE DEF Cut, q
        <5> QED
          BY <1>4, <4>2
      <4>4. PICK at : CutUp(h, f[q], q, at)
        BY <4>3
      <4>5. f[p] = <<t>> \o f[q]
        BY <1>2, <4>1 DEF b, L
      <4>6. p \in N - F .. Len(h) - 1
        BY <4>1 DEF b, L
      <4>7. \E bt : CutUp(h, f[p], p, bt)
        BY <1>1, <4>4, <4>5, <4>6, CutUpLonger
      <4> QED
        BY <4>7
    <3> QED
      BY <3>1, <3>2
  <2>2. n + 1 \in Nat
    BY SMT
  <2> HIDE DEF Cut
  <2> QED
    BY <2>1, <2>2
<1>5. L - b \in Nat /\ b \in b .. L /\ L - (L - b) <= b
  BY <1>1, SMT
<1>6. L - b \in G
  <2> HIDE DEF G
  <2> QED
    BY <1>3, <1>4, <1>5, EveryNumber
<1>7. Cut(b)
  <2> HIDE DEF Cut
  <2> QED
    BY <1>5, <1>6
<1> QED
  BY <1>2, <1>7 DEF b

-----------------------------------------------------------------------------
(* A file that the compressor wrote.                                       *)

Compressed == text \in Seq(Word) /\ tokens = Tokens(text)

FileBits == FlattenSeq([k \in 1 .. Len(tokens) |-> tokens[k].bits])

\* Where in the history the token after the first k begins.
Place(k) == N - F + CharsUpTo[k]

\* The fields of a token of a sequence.
LEMMA TokenFields ==
  ASSUME NEW ts \in Seq(TokenType), NEW k \in 1 .. Len(ts)
  PROVE  ts[k].length \in 1 .. F /\ ts[k].bits \in Seq({0, 1})
<1>1. ts[k] \in TokenType
  BY ElementOfSeq
<1>2. \A t \in TokenType : t.length \in 1 .. F /\ t.bits \in Seq({0, 1})
  BY DEF TokenType
<1> QED
  BY <1>1, <1>2

\* Each token stands for the characters from its place on.
LEMMA TokensInPlace ==
  ASSUME Compressed
  PROVE  /\ tokens \in Seq(TokenType) /\ Len(tokens) \in Nat
         /\ CharsUpTo[0] = 0 /\ CharsUpTo[Len(tokens)] = Len(text)
         /\ \A k \in 0 .. Len(tokens) : CharsUpTo[k] \in 0 .. Len(text)
         /\ \A l \in 0 .. Len(tokens) :
              \A k \in 0 .. l : CharsUpTo[k] <= CharsUpTo[l]
         /\ \A k \in 0 .. Len(tokens) - 1 :
              /\ Place(k) \in N - F .. Len(History(text)) - 1
              /\ tokens[k + 1] = Token(History(text), Place(k))
              /\ CharsUpTo[k + 1] = CharsUpTo[k] + tokens[k + 1].length
<1> DEFINE h == History(text)
           b == N - F
           c == CharsUpTo
           lens == [k \in 1 .. Len(tokens) |-> tokens[k].length]
<1>1. PICK at : CutUp(h, tokens, b, at)
  BY TokensCutUp DEF Compressed
<1>2. /\ tokens \in Seq(TokenType)
      /\ at \in [0 .. Len(tokens) -> b .. Len(h)]
      /\ at[0] = b /\ at[Len(tokens)] = Len(h)
      /\ \A k \in 1 .. Len(tokens) :
           /\ at[k - 1] < Len(h)
           /\ tokens[k] = Token(h, at[k - 1])
           /\ at[k] = at[k - 1] + tokens[k].length
  BY <1>1 DEF CutUp
<1>3. Len(h) = b + Len(text)
  BY HistoryIs DEF Compressed
<1>4. b \in Nat /\ Len(text) \in Nat
  BY LenProperties, Sizes, SMT DEF Compressed
<1> HIDE DEF h, b
<1>5. Len(tokens) \in Nat /\ \A k \in 1 .. Len(tokens) : tokens[k].length \in 1 .. F
  BY <1>2, LenProperties, TokenFields
<1>6. lens \in Seq(Nat) /\ Len(lens) = Len(tokens)
      /\ \A k \in 1 .. Len(tokens) : lens[k] = tokens[k].length
  <2>1. \A k \in 1 .. Len(tokens) : tokens[k].length \in Nat
    BY <1>5, Sizes, SMT
  <2> QED
    BY <1>5, <2>1
<1>7. c = Sums(lens)
  BY DEF CharsUpTo
<1> HIDE DEF c, lens
<1>8. /\ c[0] = 0
      /\ \A k \in 1 .. Len(tokens) : c[k] = c[k - 1] + tokens[k].length
      /\ \A k \in 0 .. Len(tokens) : c[k] \in Nat
      /\ \A l \in 0 .. Len(tokens) : \A k \in 0 .. l : c[k] <= c[l]
  <2>1. lens \in Seq(Nat) /\ c = Sums(lens)
    BY <1>6, <1>7
  <2>2. /\ c[0] = 0
        /\ \A k \in 1 .. Len(lens) : c[k] = c[k - 1] + lens[k]
    BY ONLY <2>1, SumsAre
  <2>3. /\ \A k \in 0 .. Len(lens) : c[k] \in Nat
        /\ \A l \in 0 .. Len(lens) : \A k \in 0 .. l : c[k] <= c[l]
    BY ONLY <2>1, SumsGrow
  <2> QED
    BY <1>6, <2>2, <2>3
<1> DEFINE G == {n \in Nat : n <= Len(tokens) => at[n] = b + c[n]}
<1>9. 0 \in G
  BY <1>2, <1>4, <1>8, SMT
<1>10. ASSUME NEW n \in Nat, n \in G PROVE n + 1 \in G
  <2>1. ASSUME n + 1 <= Len(tokens) PROVE at[n + 1] = b + c[n + 1]
    <3>1. /\ n + 1 \in 1 .. Len(tokens) /\ (n + 1) - 1 = n /\ n <= Len(tokens)
          /\ n \in 0 .. Len(tokens)
      BY <1>5, <2>1, SMT
    <3>2. at[n + 1] = at[n] + tokens[n + 1].length
          /\ c[n + 1] = c[n] + tokens[n + 1].length
          /\ tokens[n + 1].length \in Nat
      BY <1>2, <1>5, <1>8, <3>1, Sizes, SMT
    <3>3. at[n] = b + c[n] /\ c[n] \in Nat
      BY <1>8, <1>10, <3>1
    <3> QED
      BY <1>4, <3>2, <3>3, SMT
  <2>2. n + 1 \in Nat
    BY SMT
  <2> QED
    BY <2>1, <2>2
<1>11. \A k \in 0 .. Len(tokens) : at[k] = b + c[k]
  <2>1. Nat \subseteq G
    <3> HIDE DEF G
    <3> QED
      BY <1>9, <1>10, EveryNumber
  <2>2. \A k \in 0 .. Len(tokens) : k \in Nat /\ k <= Len(tokens)
    BY <1>5, SMT
  <2> QED
    BY <2>1, <2>2
<1>12. Len(tokens) \in 0 .. Len(tokens)
  BY <1>5, SMT
<1>13. c[Len(tokens)] = Len(text)
  <2>1. b + c[Len(tokens)] = b + Len(text) /\ c[Len(tokens)] \in Nat
    BY <1>2, <1>3, <1>8, <1>11, <1>12
  <2> QED
    BY <1>4, <2>1, SMT
<1>14. ASSUME NEW k \in 0 .. Len(tokens) PROVE c[k] \in 0 .. Len(text)
  <2>1. c[k] <= c[Len(tokens)] /\ c[k] \in Nat
    BY <1>8, <1>12
  <2> QED
    BY <1>4, <1>13, <2>1, SMT
<1>15. ASSUME NEW k \in 0 .. Len(tokens) - 1
       PROVE  /\ b + c[k] \in b .. Len(h) - 1
              /\ tokens[k + 1] = Token(h, b + c[k])
              /\ c[k + 1] = c[k] + tokens[k + 1].length
  <2>1. k + 1 \in 1 .. Len(tokens) /\ (k + 1) - 1 = k /\ k \in 0 .. Len(tokens)
    BY <1>5, SMT
  <2>2. at[k] < Len(h) /\ tokens[k + 1] = Token(h, at[k])
        /\ c[k + 1] = c[k] + tokens[k + 1].length
    BY <1>2, <1>8, <2>1
  <2>3. at[k] = b + c[k] /\ c[k] \in Nat
    BY <1>8, <1>11, <2>1
  <2>4. b + c[k] \in b .. Len(h) - 1
    BY <1>3, <1>4, <2>2, <2>3, SMT
  <2> QED
    BY <2>2, <2>3, <2>4
<1> QED
  BY <1>2, <1>5, <1>8, <1>13, <1>14, <1>15 DEF c, h, b, Place

\* Each token has its bits in the file.
LEMMA BitsInPlace ==
  ASSUME Compressed
  PROVE  /\ FileBits \in Seq({0, 1}) /\ Len(FileBits) \in Nat
         /\ BitsUpTo[0] = 0 /\ BitsUpTo[Len(tokens)] = Len(FileBits)
         /\ \A k \in 0 .. Len(tokens) : BitsUpTo[k] \in Nat
         /\ \A l \in 0 .. Len(tokens) :
              \A k \in 0 .. l : BitsUpTo[k] <= BitsUpTo[l]
         /\ \A k \in 0 .. Len(tokens) - 1 :
              /\ BitsUpTo[k + 1] = BitsUpTo[k] + Len(tokens[k + 1].bits)
              /\ \A j \in 1 .. Len(tokens[k + 1].bits) :
                   /\ BitsUpTo[k] + j <= Len(FileBits)
                   /\ FileBits[BitsUpTo[k] + j] = tokens[k + 1].bits[j]
<1> DEFINE c == BitsUpTo
           s == [k \in 1 .. Len(tokens) |-> tokens[k].bits]
           lens == [k \in 1 .. Len(tokens) |-> Len(tokens[k].bits)]
           B == {0, 1}
<1>1. /\ Len(tokens) \in Nat
      /\ \A k \in 1 .. Len(tokens) : tokens[k].bits \in Seq(B)
  BY TokensInPlace, TokenFields
<1> HIDE DEF B
<1>2. \A k \in 1 .. Len(tokens) : Len(tokens[k].bits) \in Nat
  BY <1>1, LenProperties
<1>3. /\ s \in Seq(Seq(B)) /\ Len(s) = Len(tokens)
      /\ \A k \in 1 .. Len(tokens) : s[k] = tokens[k].bits
  BY <1>1
<1>4. /\ lens \in Seq(Nat) /\ Len(lens) = Len(tokens)
      /\ \A k \in 1 .. Len(tokens) : lens[k] = Len(tokens[k].bits)
  BY <1>1, <1>2
<1>5. c = Sums(lens)
  BY DEF BitsUpTo
<1>6. lens = [k \in 1 .. Len(s) |-> Len(s[k])]
  BY <1>3, <1>4
<1> HIDE DEF c, s, lens
<1>7. /\ c[0] = 0
      /\ \A k \in 1 .. Len(tokens) : c[k] = c[k - 1] + Len(tokens[k].bits)
      /\ \A k \in 0 .. Len(tokens) : c[k] \in Nat
      /\ \A l \in 0 .. Len(tokens) : \A k \in 0 .. l : c[k] <= c[l]
  <2>1. lens \in Seq(Nat) /\ c = Sums(lens)
    BY <1>4, <1>5
  <2>2. /\ c[0] = 0
        /\ \A k \in 1 .. Len(lens) : c[k] = c[k - 1] + lens[k]
    BY ONLY <2>1, SumsAre
  <2>3. /\ \A k \in 0 .. Len(lens) : c[k] \in Nat
        /\ \A l \in 0 .. Len(lens) : \A k \in 0 .. l : c[k] <= c[l]
    BY ONLY <2>1, SumsGrow
  <2> QED
    BY <1>4, <2>2, <2>3
<1>8. /\ FlattenSeq(s) \in Seq(B)
      /\ Len(FlattenSeq(s)) = c[Len(s)]
      /\ \A k \in 1 .. Len(s) : \A j \in 1 .. Len(s[k]) :
           FlattenSeq(s)[c[k - 1] + j] = s[k][j]
  <2>1. c = Sums([k \in 1 .. Len(s) |-> Len(s[k])])
    BY <1>5, <1>6
  <2> QED
    BY ONLY <1>3, <2>1, FlattenedAt
<1>9. FileBits = FlattenSeq(s)
  BY DEF FileBits, s
<1>10. /\ FileBits \in Seq(B) /\ Len(FileBits) = c[Len(tokens)]
       /\ \A k \in 1 .. Len(tokens) : \A j \in 1 .. Len(tokens[k].bits) :
            FileBits[c[k - 1] + j] = tokens[k].bits[j]
  <2>1. ASSUME NEW k \in 1 .. Len(tokens), NEW j \in 1 .. Len(tokens[k].bits)
        PROVE  FlattenSeq(s)[c[k - 1] + j] = tokens[k].bits[j]
    <3>1. s[k] = tokens[k].bits /\ k \in 1 .. Len(s)
      BY <1>3
    <3> QED
      BY <1>8, <3>1
  <2> QED
    BY <1>3, <1>8, <1>9, <2>1
<1>11. ASSUME NEW k \in 0 .. Len(tokens) - 1
       PROVE  /\ c[k + 1] = c[k] + Len(tokens[k + 1].bits)
              /\ \A j \in 1 .. Len(tokens[k + 1].bits) :
                   /\ c[k] + j <= Len(FileBits)
                   /\ FileBits[c[k] + j] = tokens[k + 1].bits[j]
  <2>1. /\ k + 1 \in 1 .. Len(tokens) /\ (k + 1) - 1 = k
        /\ k + 1 \in 0 .. Len(tokens) /\ k \in 0 .. Len(tokens)
        /\ Len(tokens) \in 0 .. Len(tokens) /\ k + 1 \in 0 .. Len(tokens)
    BY <1>1, SMT
  <2>2. /\ c[k + 1] = c[k] + Len(tokens[k + 1].bits)
        /\ c[k + 1] <= c[Len(tokens)] /\ c[k] \in Nat /\ c[Len(tokens)] \in Nat
        /\ Len(tokens[k + 1].bits) \in Nat
    BY <1>2, <1>7, <2>1
  <2>3. ASSUME NEW j \in 1 .. Len(tokens[k + 1].bits)
        PROVE  c[k] + j \in 1 .. c[Len(tokens)]
    <3>1. c[k] + Len(tokens[k + 1].bits) <= c[Len(tokens)]
      BY <2>2
    <3> QED
      BY ONLY <2>2, <3>1, WithinSum
  <2>4. \A j \in 1 .. Len(tokens[k + 1].bits) :
          FileBits[c[k] + j] = tokens[k + 1].bits[j]
    BY <1>10, <2>1
  <2>5. \A x \in 1 .. c[Len(tokens)] : x <= Len(FileBits)
    BY <1>10, <2>2, SMT
  <2> QED
    BY <2>2, <2>3, <2>4, <2>5
<1>12. Len(FileBits) \in Nat
  BY <1>10, LenProperties
<1> QED
  BY <1>7, <1>10, <1>11, <1>12 DEF c, B

\* The words of the file hold its bits, and fewer than W others.
LEMMA WordsInPlace ==
  ASSUME Compressed
  PROVE  /\ Encoded(tokens) \in Seq(Word) /\ Len(Encoded(tokens)) \in Nat
         /\ Len(FileBits) <= W * Len(Encoded(tokens))
         /\ W * Len(Encoded(tokens)) < Len(FileBits) + W
         /\ \A k \in 1 .. Len(Encoded(tokens)) : \A j \in 1 .. W :
              Bits(Encoded(tokens)[k], W)[j] = FilledUp(FileBits, (k - 1) * W + j)
<1> DEFINE e == Encoded(tokens)
           n == Len(FileBits)
<1>1. FileBits \in Seq({0, 1}) /\ n \in Nat
  BY BitsInPlace
<1>2. e = Packed(FileBits)
  BY DEF Encoded, FileBits
<1> HIDE DEF e
<1>3. /\ e \in Seq(Word) /\ Len(e) = (n + W - 1) \div W
      /\ \A k \in 1 .. Len(e) :
           Bits(e[k], W) = [j \in 1 .. W |-> FilledUp(FileBits, (k - 1) * W + j)]
  BY <1>1, <1>2, PackedBits
<1> HIDE DEF n
<1>4. n <= W * Len(e) /\ W * Len(e) < n + W
  <2> DEFINE a == n + W - 1
             q == a \div W
             z == a % W
  <2>1. a \in Nat /\ W \in Nat \ {0}
    BY <1>1, Sizes, SMT
  <2>2. a = n + W - 1
    OBVIOUS
  <2> HIDE DEF a
  <2>3. q \in Nat /\ z \in Nat /\ z < W /\ a = W * q + z
    BY <2>1, DivisionIsNat
  <2>4. Len(e) = q
    BY <1>3 DEF a
  <2> HIDE DEF q, z
  <2> DEFINE m == W * q
  <2>5. m \in Nat /\ a = m + z
    BY <2>1, <2>3, SMT
  <2> HIDE DEF m
  <2>6. n <= m /\ m < n + W
    BY <1>1, <2>1, <2>2, <2>3, <2>5, SMT
  <2> QED
    BY <2>4, <2>6 DEF m
<1>5. \A k \in 1 .. Len(e) : \A j \in 1 .. W :
        Bits(e[k], W)[j] = FilledUp(FileBits, (k - 1) * W + j)
  <2> TAKE k \in 1 .. Len(e)
  <2> TAKE j \in 1 .. W
  <2> DEFINE V(i0) == FilledUp(FileBits, (k - 1) * W + i0)
  <2>1. Bits(e[k], W) = [i0 \in 1 .. W |-> V(i0)]
    BY <1>3
  <2> HIDE DEF V
  <2>2. Bits(e[k], W)[j] = V(j)
    BY <2>1
  <2> QED
    BY <2>2 DEF V
<1>6. Len(e) \in Nat
  BY <1>3, LenProperties
<1> QED
  BY <1>3, <1>4, <1>5, <1>6 DEF e, n

-----------------------------------------------------------------------------
(* The first invariant, of any file: types, a match that is copied has     *)
(* characters left, and a call returns only when its block is used up, so  *)
(* that the count of the next block is not added to words that are gone.   *)

Copying == state = "Copy" => left > 0

BlockUsed == ~running => available = 0

Inv == TypeOK /\ Copying /\ BlockUsed

LEMMA InitInv == Init => Inv
<1> SUFFICES ASSUME Init PROVE Inv
  OBVIOUS
<1> USE Sizes
<1>1. input \in Seq(Word) /\ Len(input) \in Nat
  <2>1. CASE GoodFile
    <3>1. Compressed
      BY <2>1, DecoderAssumption DEF GoodFile, Compressed
    <3> QED
      BY <2>1, <3>1, WordsInPlace DEF GoodFile
  <2>2. CASE BadFile
    BY <2>2, DecoderAssumption, LenProperties DEF BadFile
  <2> QED
    BY <2>1, <2>2 DEF Init
<1>2. window \in [0 .. N - 1 -> Word]
  <2>1. PICK junk \in [N - F .. N - 1 -> Junk] :
          window = [k \in 0 .. N - 1 |-> IF k < N - F THEN Blank ELSE junk[k]]
    BY DEF Init, DecoderBoot
  <2>2. \A k \in 0 .. N - 1 : ~(k < N - F) => k \in N - F .. N - 1
    BY SMT
  <2>3. Blank \in Word /\ Junk \subseteq Word
    BY EncoderAssumption, DecoderAssumption
  <2> QED
    BY <2>1, <2>2, <2>3
<1>3. N - F \in 0 .. N - 1
  BY SMT
<1>4. /\ available = 0 /\ running = FALSE /\ state = "FSM_0"
      /\ buf \in {0, 1} /\ size = 0 /\ i = 0 /\ left = 0 /\ r = N - F
      /\ out = <<>>
  BY DEF Init, DecoderBoot
<1>5. out \in Seq(Word)
  BY <1>4
<1>6. Copying /\ BlockUsed
  BY <1>4 DEF Copying, BlockUsed
<1>7. /\ available \in 0 .. Len(input)
      /\ size \in 0 .. IntBits /\ buf \in Nat
      /\ i \in 0 .. N - 1 /\ left \in 0 .. F
  BY <1>1, <1>4, SMT
<1> QED
  BY <1>1, <1>2, <1>3, <1>4, <1>5, <1>6, <1>7 DEF Inv, TypeOK

-----------------------------------------------------------------------------
(* Each action keeps the invariant.                                        *)

LEMMA DecompressInv ==
  ASSUME Inv, NEW n \in 1 .. MaxBlock, Decompress(n)
  PROVE  Inv'
<1>1. available' \in 0 .. Len(input')
  <2>1. /\ n <= Len(input) /\ available = 0
        /\ available' = available + n /\ input' = input
    BY DEF Decompress, Inv, BlockUsed
  <2>2. Len(input) \in Nat
    BY LenProperties DEF Inv, TypeOK
  <2> QED
    BY <2>1, <2>2, SMT
<1> QED
  BY <1>1 DEF Decompress, Inv, TypeOK, Copying, BlockUsed, fileVars, bitVars,
              putVars

LEMMA GetWordInv ==
  ASSUME Inv, GetWord
  PROVE  /\ Inv'
         /\ size' = size + W /\ size' \in 0 .. IntBits
         /\ Head(input) \in Nat /\ Head(input) < Pow2[W]
         /\ buf < Pow2[size] => buf' < Pow2[size']
<1> USE Sizes
<1>1. /\ input \in Seq(Word) /\ available \in 0 .. Len(input)
      /\ available > 0 /\ size \in 0 .. IntBits /\ buf \in Nat
      /\ size < Required(state)
  BY DEF Inv, TypeOK, GetWord, Missing
<1>2. input # <<>> /\ Len(input) \in Nat \ {0}
  BY <1>1, LenProperties, EmptySeq, SMT
<1>3. /\ Head(input) \in Word /\ Tail(input) \in Seq(Word)
      /\ Len(Tail(input)) = Len(input) - 1
  BY <1>1, <1>2, HeadTailProperties
<1>4. /\ size' = size + W /\ size' \in 0 .. IntBits
  <2>1. Required(state) \in Nat /\ Required(state) + W - 1 <= IntBits
    BY RequiredFits DEF Inv, TypeOK
  <2> QED
    BY <1>1, <2>1, SMT DEF GetWord
<1>5. Head(input) \in Nat /\ Head(input) < Pow2[W]
  BY <1>3, SMT DEF Word
<1>6. buf' \in Nat /\ (buf < Pow2[size] => buf' < Pow2[size'])
  <2>1. buf' = buf * Pow2[W] + Head(input)
    BY DEF GetWord
  <2>2. Pow2[size] \in Nat
    BY <1>1
  <2>3. Pow2[size'] = Pow2[size] * Pow2[W]
    <3>1. size + W <= IntBits /\ W \in 0 .. IntBits
      BY <1>1, <1>4, SMT
    <3> QED
      BY <1>1, <1>4, <3>1, EncoderAssumption
  <2>4. buf' \in Nat
    BY <1>1, <1>5, <2>1, SMT
  <2>5. ASSUME buf < Pow2[size] PROVE buf' < Pow2[size']
    <3>1. Pow2[W] \in Nat
      OBVIOUS
    <3>2. buf * Pow2[W] + Head(input) < Pow2[size] * Pow2[W]
      BY ONLY <1>1, <1>5, <2>2, <2>5, <3>1, WordAppended
    <3> QED
      BY ONLY <2>1, <2>3, <3>2
  <2> QED
    BY <2>4, <2>5
<1>7. available' \in 0 .. Len(input')
  BY <1>1, <1>2, <1>3, SMT DEF GetWord
<1> QED
  BY <1>3, <1>4, <1>5, <1>6, <1>7
     DEF GetWord, Inv, TypeOK, Copying, BlockUsed, fileVars, putVars

LEMMA BufferEmptyInv ==
  ASSUME Inv, BufferEmpty
  PROVE  Inv'
BY DEF BufferEmpty, Inv, TypeOK, Copying, BlockUsed, fileVars, bitVars, putVars

\* What the handlers of a state have in common.
LEMMA TakeBitsInv ==
  ASSUME Inv, TakeBits
  PROVE  /\ UNCHANGED blockVars
         /\ size' \in 0 .. IntBits /\ buf' \in Nat /\ buf' < Pow2[size']
         /\ TakenBits \in Nat
         /\ state # "FSM_0" => TakenBits < Pow2[Required(state)]
<1>1. size \in 0 .. IntBits /\ buf \in Nat
  BY DEF Inv, TypeOK
<1>2. Required(state) \in Nat
  BY RequiredFits DEF Inv, TypeOK
<1>3. Required(state) \in 0 .. size
  BY <1>1, <1>2, SMT DEF TakeBits, Missing
<1>4. /\ TakenBits \in Nat
      /\ buf' \in Nat /\ buf' < Pow2[size - Required(state)]
      /\ buf < Pow2[size] => TakenBits < Pow2[Required(state)]
  BY <1>1, <1>3, BitsTaken DEF TakeBits, TakenBits
<1>5. size' = size - Required(state) /\ size' \in 0 .. IntBits
  BY <1>1, <1>3, Sizes, SMT DEF TakeBits
<1>6. state # "FSM_0" => buf < Pow2[size]
  BY DEF Inv, TypeOK
<1>7. UNCHANGED blockVars
  BY DEF TakeBits
<1> QED
  BY <1>4, <1>5, <1>6, <1>7

LEMMA WrappedInWindow ==
  ASSUME NEW k \in 0 .. N - 1
  PROVE  Wrapped(k + 1) \in 0 .. N - 1
<1>1. (k + 1) % N \in 0 .. N - 1
  BY Sizes, DivisionIsNat, SMT
<1> QED
  BY <1>1 DEF Wrapped

\* Putting out a character.
LEMMA PutKeeps ==
  ASSUME Inv, NEW c \in Word, Put(c)
  PROVE  /\ out' \in Seq(Word)
         /\ window' \in [0 .. N - 1 -> Word]
         /\ r' \in 0 .. N - 1
<1> USE Sizes
<1>1. /\ out \in Seq(Word) /\ window \in [0 .. N - 1 -> Word]
      /\ r \in 0 .. N - 1
  BY DEF Inv, TypeOK
<1>2. out' \in Seq(Word)
  BY <1>1, AppendProperties DEF Put
<1>3. window' \in [0 .. N - 1 -> Word]
  BY <1>1 DEF Put
<1>4. r' \in 0 .. N - 1
  BY <1>1, WrappedInWindow DEF Put
<1> QED
  BY <1>2, <1>3, <1>4

LEMMA FlagInv ==
  ASSUME Inv, Flag
  PROVE  Inv'
<1>1. /\ TakeBits /\ UNCHANGED <<i, left, putVars>>
      /\ state' \in {"FSM_1", "FSM_2"}
  BY DEF Flag
<1> QED
  BY <1>1, TakeBitsInv DEF Inv, TypeOK, Copying, BlockUsed, blockVars, putVars

LEMMA PutLiteralInv ==
  ASSUME Inv, PutLiteral
  PROVE  Inv'
<1>1. /\ TakeBits /\ Put(TakenBits) /\ UNCHANGED <<i, left>>
      /\ state = "FSM_1" /\ state' = "FSM_0"
  BY DEF PutLiteral
<1>2. TakenBits \in Word
  <2>1. TakenBits \in Nat /\ TakenBits < Pow2[W]
    BY <1>1, TakeBitsInv DEF Required
  <2> QED
    BY <2>1, Sizes, SMT DEF Word
<1> QED
  BY <1>1, <1>2, TakeBitsInv, PutKeeps
     DEF Inv, TypeOK, Copying, BlockUsed, blockVars

LEMMA PositionInv ==
  ASSUME Inv, Position
  PROVE  Inv'
<1>1. /\ TakeBits /\ UNCHANGED <<left, putVars>>
      /\ state = "FSM_2" /\ state' = "FSM_3" /\ i' = TakenBits
  BY DEF Position
<1>2. i' \in 0 .. N - 1
  <2>1. TakenBits \in Nat /\ TakenBits < N
    BY <1>1, TakeBitsInv DEF Required, N
  <2> QED
    BY <1>1, <2>1, Sizes, SMT
<1> QED
  BY <1>1, <1>2, TakeBitsInv
     DEF Inv, TypeOK, Copying, BlockUsed, blockVars, putVars

LEMMA LengthInv ==
  ASSUME Inv, Length
  PROVE  Inv'
<1>1. /\ TakeBits /\ UNCHANGED <<i, putVars>>
      /\ state = "FSM_3" /\ state' = "Copy" /\ left' = TakenBits + 2
  BY DEF Length
<1>2. left' \in 0 .. F /\ left' > 0
  <2>1. TakenBits \in Nat /\ TakenBits < Pow2[EJ]
    BY <1>1, TakeBitsInv DEF Required
  <2>2. EJ \in 0 .. IntBits
    <3>1. EJ + W - 1 <= IntBits
      BY EncoderAssumption
    <3> QED
      BY <3>1, Sizes, SMT
  <2>3. Pow2[EJ] \in Nat
    BY <2>2, Sizes
  <2> QED
    BY <1>1, <2>1, <2>3, SMT DEF F
<1> QED
  BY <1>1, <1>2, TakeBitsInv
     DEF Inv, TypeOK, Copying, BlockUsed, blockVars, putVars

LEMMA CopyInv ==
  ASSUME Inv, Copy
  PROVE  Inv'
<1> USE Sizes
<1>1. /\ Put(window[i]) /\ state = "Copy"
      /\ i' = Wrapped(i + 1) /\ left' = left - 1
      /\ state' = IF left = 1 THEN "FSM_0" ELSE "Copy"
      /\ UNCHANGED <<fileVars, blockVars, bitVars>>
  BY DEF Copy
<1>2. /\ i \in 0 .. N - 1 /\ left \in 0 .. F /\ left > 0
      /\ window \in [0 .. N - 1 -> Word]
  BY <1>1 DEF Inv, TypeOK, Copying, BlockUsed
<1>3. /\ out' \in Seq(Word) /\ window' \in [0 .. N - 1 -> Word]
      /\ r' \in 0 .. N - 1
  BY <1>1, <1>2, PutKeeps
<1>4. i' \in 0 .. N - 1
  BY <1>1, <1>2, WrappedInWindow
<1>5. /\ left' \in 0 .. F /\ state' \in {"FSM_0", "Copy"}
      /\ state' = "Copy" => left' > 0
  BY <1>1, <1>2, SMT
<1> QED
  BY <1>1, <1>3, <1>4, <1>5
     DEF Inv, TypeOK, Copying, BlockUsed, blockVars, bitVars

-----------------------------------------------------------------------------
\* Every step keeps the invariant, and so does a step that changes nothing.
LEMMA NextInv == Inv /\ [Next]_vars => Inv'
<1> SUFFICES ASSUME Inv, [Next]_vars PROVE Inv'
  OBVIOUS
<1>1. ASSUME NEW n \in 1 .. MaxBlock, Decompress(n) PROVE Inv'
  BY <1>1, DecompressInv
<1>2. CASE GetWord
  BY <1>2, GetWordInv
<1>3. CASE BufferEmpty
  BY <1>3, BufferEmptyInv
<1>4. CASE Flag
  BY <1>4, FlagInv
<1>5. CASE PutLiteral
  BY <1>5, PutLiteralInv
<1>6. CASE Position
  BY <1>6, PositionInv
<1>7. CASE Length
  BY <1>7, LengthInv
<1>8. CASE Copy
  BY <1>8, CopyInv
<1>9. CASE UNCHANGED vars
  BY <1>9 DEF vars, blockVars, bitVars, putVars, Inv, TypeOK, Copying, BlockUsed
<1> QED
  BY <1>1, <1>2, <1>3, <1>4, <1>5, <1>6, <1>7, <1>8, <1>9
     DEF Next, HandleState

(***************************************************************************)
(* For words, positions and lengths of any size, for any text and for any  *)
(* sequence of words that arrives instead of a good file, in whatever      *)
(* blocks: the decoder reads and writes inside its window, its bit buffer  *)
(* is wide enough, and it puts out characters only.                        *)
(***************************************************************************)
THEOREM TypeOKHolds == Spec => []TypeOK
<1>1. Inv => TypeOK
  BY DEF Inv
<1> QED
  BY <1>1, InitInv, NextInv, PTL DEF Spec

-----------------------------------------------------------------------------
(* The window is a ring: places in it are positions modulo N.              *)

\* A place further is a position further.
LEMMA NextInRing ==
  ASSUME NEW a \in Nat
  PROVE  Wrapped((a % N) + 1) = (a + 1) % N
<1> DEFINE q == a \div N
           z == a % N
<1>1. N \in Nat \ {0}
  BY Sizes
<1>2. q \in Nat /\ z \in Nat /\ z < N /\ a = N * q + z
  BY <1>1, DivisionIsNat
<1>3. N * q = q * N
  BY <1>1, <1>2, SMT
<1> HIDE DEF q, z
<1>4. CASE z + 1 < N
  <2> DEFINE y == z + 1
  <2>1. y \in Nat /\ y < N /\ a + 1 = q * N + y
    <3> DEFINE m == q * N
    <3>1. m \in Nat /\ a = m + z
      BY <1>1, <1>2, <1>3, SMT
    <3> HIDE DEF m
    <3>2. y \in Nat /\ y < N /\ a + 1 = m + y
      BY <1>1, <1>2, <1>4, <3>1, SMT
    <3> QED
      BY <3>2 DEF m
  <2>2. z + 1 = y
    OBVIOUS
  <2> HIDE DEF y
  <2>3. (q * N + y) % N = y
    BY <1>1, <1>2, <2>1, DivisionIsUnique
  <2>4. (0 * N + y) % N = y
    BY <1>1, <2>1, DivisionIsUnique
  <2>5. 0 * N + y = y
    BY <1>1, <2>1, SMT
  <2> QED
    BY <2>1, <2>2, <2>3, <2>4, <2>5 DEF Wrapped, z
<1>5. CASE ~(z + 1 < N)
  <2> DEFINE p == q + 1
  <2>1. z + 1 = N
    BY <1>1, <1>2, <1>5, SMT
  <2>2. p \in Nat /\ a + 1 = p * N + 0
    <3>1. (q + 1) * N = q * N + N
      BY <1>1, <1>2, SMT
    <3>2. q * N \in Nat
      BY <1>1, <1>2, SMT
    <3> QED
      BY <1>1, <1>2, <1>3, <2>1, <3>1, <3>2, SMT
  <2> HIDE DEF p
  <2> DEFINE y == 0
  <2>3. y \in Nat /\ y < N /\ y = 0
    BY <1>1, SMT
  <2>4. 1 \in Nat
    OBVIOUS
  <2> HIDE DEF y
  <2>5. (p * N + 0) % N = 0
    <3>1. (p * N + y) % N = y
      BY ONLY <1>1, <2>2, <2>3, DivisionIsUnique
    <3> QED
      BY <2>3, <3>1
  <2>6. (1 * N + 0) % N = 0
    <3>1. (1 * N + y) % N = y
      BY ONLY <1>1, <2>4, <2>3, DivisionIsUnique
    <3> QED
      BY <2>3, <3>1
  <2>7. 1 * N + 0 = N
    BY <1>1, SMT
  <2> QED
    BY <2>1, <2>2, <2>5, <2>6, <2>7 DEF Wrapped, z
<1> QED
  BY <1>4, <1>5

\* Positions that are less than N apart have places of their own.
LEMMA OtherPlace ==
  ASSUME NEW a \in Nat, NEW b \in Nat, a < b, b - a < N
  PROVE  a % N # b % N
<1> DEFINE p == a \div N
           q == b \div N
           z == a % N
           y == b % N
<1>1. N \in Nat \ {0}
  BY Sizes
<1>2. /\ p \in Nat /\ z \in Nat /\ z < N /\ a = N * p + z
      /\ q \in Nat /\ y \in Nat /\ y < N /\ b = N * q + y
  BY <1>1, DivisionIsNat
<1>3. SUFFICES ASSUME z = y PROVE FALSE
  OBVIOUS
<1> HIDE DEF p, q, z, y
<1>4. N * p = p * N /\ N * q = q * N /\ p * N \in Nat /\ q * N \in Nat
  BY <1>1, <1>2, SMT
<1>5. CASE q <= p
  <2>1. q * N <= p * N
    BY <1>1, <1>2, <1>5, ProductGrows
  <2> QED
    BY <1>2, <1>3, <1>4, <2>1, SMT
<1>6. CASE ~(q <= p)
  <2>1. p + 1 \in Nat /\ p + 1 <= q
    BY <1>2, <1>6, SMT
  <2>2. (p + 1) * N <= q * N
    BY <1>1, <1>2, <2>1, ProductGrows
  <2>3. (p + 1) * N = p * N + N
    BY <1>1, <1>2, SMT
  <2> QED
    BY <1>1, <1>2, <1>3, <1>4, <2>2, <2>3, SMT
<1> QED
  BY <1>5, <1>6

LEMMA InRing ==
  ASSUME NEW a \in Nat
  PROVE  a % N \in 0 .. N - 1
<1>1. N \in Nat \ {0}
  BY Sizes
<1>2. a % N \in Nat /\ a % N < N
  BY <1>1, DivisionIsNat
<1> QED
  BY <1>1, <1>2, SMT

-----------------------------------------------------------------------------
(* The invariant.                                                          *)

\* The bits of the next token that were taken.
Spent ==
  CASE state = "FSM_0" -> 0
    [] state \in {"FSM_1", "FSM_2"} -> 1
    [] state = "FSM_3" -> 1 + EI
    [] state = "Copy" -> 1 + EI + EJ

\* All the bits that were taken.
Used == W * Received - size

\* What was not read yet is the rest of the file, ...
InputLeft ==
  /\ Len(input) <= Len(Encoded(tokens))
  /\ \A k \in 1 .. Len(input) : input[k] = Encoded(tokens)[Received + k]

\* ... and what was not taken yet are the bits before it.
BufferLeft == \A j \in 1 .. size : Bits(buf, size)[j] = FilledUp(FileBits, Used + j)

\* Where the match that token k + 1 stands for is found, and how much of it was
\* put out.
Source(k) == NearestMatch(History(text), Place(k))
Copied(k) == IF state = "Copy" THEN tokens[k + 1].length - left ELSE 0

\* The first k tokens were put out.  After the last of them comes what fills up
\* the last word, which looks like the beginning of a match.
AtToken(k) ==
  /\ Used = BitsUpTo[k] + Spent
  /\ Len(out) = CharsUpTo[k] + Copied(k)
  /\ k = Len(tokens) => state \in {"FSM_0", "FSM_2", "FSM_3"}
  /\ k < Len(tokens) =>
       /\ state = "FSM_1" => tokens[k + 1].length = 1
       /\ state \in {"FSM_2", "FSM_3", "Copy"} => tokens[k + 1].length > 1
       /\ state = "FSM_3" => i = Source(k) % N
       /\ state = "Copy" => /\ left <= tokens[k + 1].length
                            /\ i = (Source(k) + Copied(k)) % N

Decoded == \E k \in 0 .. Len(tokens) : AtToken(k)

OutIsText ==
  /\ Len(out) <= Len(text)
  /\ \A k \in 1 .. Len(out) : out[k] = text[k]

\* The window holds what a match may refer to.
Here == N - F + Len(out)

WindowIsText ==
  /\ r = Here % N
  /\ \A q \in Window(Here) : window[q % N] = History(text)[q + 1]

\* What buf held at first is gone with the first flag.
NoJunk == out # <<>> => buf < Pow2[size]

\* A call returns for want of bits only.
Starved == ~running => Missing

InStep ==
  /\ InputLeft
  /\ BufferLeft
  /\ Decoded
  /\ OutIsText
  /\ WindowIsText
  /\ NoJunk
  /\ Starved

DecodingInv ==
  /\ Inv
  /\ intact => Compressed
  /\ intact /\ CleanStart => InStep

-----------------------------------------------------------------------------
(* What the token at hand looks like in the file, and in the text.         *)

LEMMA BitOfFile ==
  ASSUME NEW n \in Nat, n <= Len(FileBits)
  PROVE  FilledUp(FileBits, n) = FileBits[n]
BY DEF FilledUp

\* The bits of a token are where its turn comes, and it means what comes next.
LEMMA TokenInFile ==
  ASSUME Compressed, NEW k \in 0 .. Len(tokens) - 1,
         NEW t, t = tokens[k + 1], NEW h, h = History(text),
         NEW b, b = BitsUpTo[k]
  PROVE  /\ b \in Nat
         /\ t.length \in 1 .. F
         /\ t.length = 1 =>
              /\ BitsUpTo[k + 1] = b + 1 + W
              /\ h[Place(k) + 1] \in Word
              /\ FilledUp(FileBits, b + 1) = 1
              /\ \A j \in 1 .. W :
                   FilledUp(FileBits, b + 1 + j) = Bits(h[Place(k) + 1], W)[j]
         /\ t.length > 1 =>
              /\ BitsUpTo[k + 1] = b + 1 + EI + EJ
              /\ Source(k) \in Nat /\ Source(k) \in Window(Place(k))
              /\ \A m \in 1 .. t.length : h[Source(k) + m] = h[Place(k) + m]
              /\ FilledUp(FileBits, b + 1) = 0
              /\ \A j \in 1 .. EI :
                   FilledUp(FileBits, b + 1 + j) = Bits(Source(k) % N, EI)[j]
              /\ \A j \in 1 .. EJ :
                   FilledUp(FileBits, b + 1 + EI + j) = Bits(t.length - 2, EJ)[j]
<1> DEFINE p == Place(k)
           q == Source(k)
<1>1. /\ Len(tokens) \in Nat /\ Len(h) = N - F + Len(text) /\ h \in Seq(Word)
  BY TokensInPlace, HistoryIs DEF Compressed
<1>2. p \in N - F .. Len(h) - 1 /\ t = Token(h, p)
  BY TokensInPlace
<1>3. q = NearestMatch(h, p)
  BY DEF Source
<1> HIDE DEF p, q
<1>4. /\ t \in TokenType
      /\ t.length = 1 => t = Literal(h[p + 1])
      /\ t.length > 1 =>
           /\ t = Match(q, t.length) /\ q \in Window(p)
           /\ \A m \in 1 .. t.length : h[q + m] = h[p + m]
  <2>1. /\ h \in Seq(Word) /\ p \in N - F .. Len(h) - 1
        /\ t = Token(h, p) /\ q = NearestMatch(h, p)
    BY <1>1, <1>2, <1>3
  <2> QED
    BY ONLY <2>1, TokenIs
<1>5. t.length \in 1 .. F
  BY <1>4 DEF TokenType
<1>6. /\ b \in Nat
      /\ BitsUpTo[k + 1] = b + Len(t.bits)
      /\ \A j \in 1 .. Len(t.bits) :
           b + j <= Len(FileBits) /\ FileBits[b + j] = t.bits[j]
  <2>1. k \in 0 .. Len(tokens)
    BY <1>1, SMT
  <2> QED
    BY <2>1, BitsInPlace
<1>7. ASSUME NEW j \in 1 .. Len(t.bits), Len(t.bits) \in Nat
      PROVE  FilledUp(FileBits, b + j) = t.bits[j]
  <2>1. b + j \in Nat
    BY <1>6, <1>7, SMT
  <2> QED
    BY <1>6, <2>1, BitOfFile
<1>8. ASSUME t.length = 1
      PROVE  /\ BitsUpTo[k + 1] = b + 1 + W
             /\ h[p + 1] \in Word
             /\ FilledUp(FileBits, b + 1) = 1
             /\ \A j \in 1 .. W :
                  FilledUp(FileBits, b + 1 + j) = Bits(h[p + 1], W)[j]
  <2>1. h[p + 1] \in Word
    <3>1. p + 1 \in 1 .. Len(h)
      BY <1>1, <1>2, Sizes, LenProperties, SMT
    <3> QED
      BY <1>1, <3>1, ElementOfSeq
  <2>2. /\ Len(t.bits) = 1 + W /\ t.bits[1] = 1
        /\ \A j \in 1 .. W : t.bits[1 + j] = Bits(h[p + 1], W)[j]
    BY <1>4, <1>8, <2>1, LiteralIs
  <2>3. b \in Nat /\ W \in Nat /\ Len(t.bits) = 1 + W
    BY <1>6, <2>2, Sizes
  <2>4. /\ Len(t.bits) \in Nat /\ 1 \in 1 .. Len(t.bits)
        /\ b + Len(t.bits) = b + 1 + W
    BY <2>3, SMT
  <2>5. \A j \in 1 .. W : 1 + j \in 1 .. Len(t.bits) /\ b + (1 + j) = b + 1 + j
    BY <2>3, SMT
  <2>6. FilledUp(FileBits, b + 1) = 1
    BY <1>7, <2>2, <2>4
  <2>7. ASSUME NEW j \in 1 .. W
        PROVE  FilledUp(FileBits, b + 1 + j) = Bits(h[p + 1], W)[j]
    <3>1. FilledUp(FileBits, b + (1 + j)) = t.bits[1 + j]
      BY <1>7, <2>4, <2>5
    <3> QED
      BY <2>2, <2>5, <3>1
  <2> QED
    BY <1>6, <2>1, <2>4, <2>6, <2>7
<1>9. ASSUME t.length > 1
      PROVE  /\ BitsUpTo[k + 1] = b + 1 + EI + EJ
             /\ q \in Nat /\ q \in Window(p)
             /\ \A m \in 1 .. t.length : h[q + m] = h[p + m]
             /\ FilledUp(FileBits, b + 1) = 0
             /\ \A j \in 1 .. EI :
                  FilledUp(FileBits, b + 1 + j) = Bits(q % N, EI)[j]
             /\ \A j \in 1 .. EJ :
                  FilledUp(FileBits, b + 1 + EI + j) = Bits(t.length - 2, EJ)[j]
  <2>1. q \in Nat
    BY <1>2, <1>4, <1>9, Sizes, SMT DEF Window
  <2>2. t.length \in 2 .. F
    BY <1>5, <1>9, Sizes, SMT
  <2>3. /\ Len(t.bits) = 1 + EI + EJ /\ t.bits[1] = 0
        /\ \A j \in 1 .. EI : t.bits[1 + j] = Bits(q % N, EI)[j]
        /\ \A j \in 1 .. EJ : t.bits[1 + EI + j] = Bits(t.length - 2, EJ)[j]
    <3> DEFINE l == t.length
    <3>1. t = Match(q, l) /\ l \in 2 .. F
      BY <1>4, <1>9, <2>2
    <3> HIDE DEF l
    <3>2. /\ Len(t.bits) = 1 + EI + EJ /\ t.bits[1] = 0
          /\ \A j \in 1 .. EI : t.bits[1 + j] = Bits(q % N, EI)[j]
          /\ \A j \in 1 .. EJ : t.bits[1 + EI + j] = Bits(l - 2, EJ)[j]
      BY ONLY <2>1, <3>1, MatchIs
    <3> QED
      BY <3>2 DEF l
  <2>4. /\ b \in Nat /\ EI \in Nat /\ EJ \in Nat
        /\ Len(t.bits) = 1 + EI + EJ
    BY <1>6, <2>3, Sizes
  <2>5. /\ Len(t.bits) \in Nat /\ 1 \in 1 .. Len(t.bits)
        /\ b + Len(t.bits) = b + 1 + EI + EJ
    BY <2>4, SMT
  <2> DEFINE n == Len(t.bits)
  <2>6. n = 1 + EI + EJ
    BY <2>4
  <2>7. b \in Nat /\ EI \in Nat /\ EJ \in Nat
    BY <2>4
  <2> HIDE DEF n
  <2>8. \A j \in 1 .. EI : 1 + j \in 1 .. n /\ b + (1 + j) = b + 1 + j
    BY <2>6, <2>7, SMT
  <2>9. \A j \in 1 .. EJ : /\ 1 + EI + j \in 1 .. n
                           /\ b + (1 + EI + j) = b + 1 + EI + j
    BY <2>6, <2>7, SMT
  <2> USE DEF n
  <2>10. FilledUp(FileBits, b + 1) = 0
    BY <1>7, <2>3, <2>5
  <2>11. ASSUME NEW j \in 1 .. EI
         PROVE  FilledUp(FileBits, b + 1 + j) = Bits(q % N, EI)[j]
    <3>1. FilledUp(FileBits, b + (1 + j)) = t.bits[1 + j]
      BY <1>7, <2>5, <2>8
    <3> QED
      BY <2>3, <2>8, <3>1
  <2>12. ASSUME NEW j \in 1 .. EJ
         PROVE  FilledUp(FileBits, b + 1 + EI + j) = Bits(t.length - 2, EJ)[j]
    <3>1. FilledUp(FileBits, b + (1 + EI + j)) = t.bits[1 + EI + j]
      BY <1>7, <2>5, <2>9
    <3> QED
      BY <2>3, <2>9, <3>1
  <2> QED
    BY <1>4, <1>6, <1>9, <2>1, <2>5, <2>10, <2>11, <2>12
<1> QED
  BY <1>5, <1>6, <1>8, <1>9 DEF p, q

-----------------------------------------------------------------------------
(* What a step changes of the parts of the invariant.                      *)

\* No step changes the text, the tokens or the file.
LEMMA FileStays ==
  ASSUME UNCHANGED fileVars
  PROVE  /\ Compressed' <=> Compressed
         /\ CleanStart' <=> CleanStart
         /\ Encoded(tokens)' = Encoded(tokens) /\ History(text)' = History(text)
         /\ FileBits' = FileBits
         /\ BitsUpTo' = BitsUpTo /\ CharsUpTo' = CharsUpTo
         /\ tokens' = tokens /\ text' = text /\ intact' = intact
<1>1. text' = text /\ tokens' = tokens /\ intact' = intact
  BY DEF fileVars
<1>2. Compressed' <=> Compressed
  BY <1>1 DEF Compressed
<1>3. CleanStart' <=> CleanStart
  BY <1>1 DEF CleanStart
<1>4. Encoded(tokens)' = Encoded(tokens) /\ History(text)' = History(text)
  BY <1>1
<1>5. FileBits' = FileBits
  BY <1>1 DEF FileBits
<1>6. BitsUpTo' = BitsUpTo /\ CharsUpTo' = CharsUpTo
  BY <1>1 DEF BitsUpTo, CharsUpTo
<1> QED
  BY <1>1, <1>2, <1>3, <1>4, <1>5, <1>6

\* What was read is what was taken and what is in the buffer.
LEMMA Counts ==
  ASSUME Inv, Compressed, InputLeft
  PROVE  /\ Received \in Nat /\ size \in Nat /\ size <= IntBits
         /\ Len(input) \in Nat /\ Received + Len(input) = Len(Encoded(tokens))
         /\ Used \in Int /\ Used + size = W * Received
         /\ W * Received <= W * Len(Encoded(tokens))
         /\ W * Received < Len(FileBits) + W
         /\ Len(FileBits) \in Nat
<1> DEFINE e == Len(Encoded(tokens))
           n == Len(FileBits)
<1>1. e \in Nat /\ n \in Nat /\ W * e < n + W
  BY WordsInPlace, BitsInPlace
<1>2. Len(input) \in Nat /\ size \in Nat /\ size <= IntBits /\ Len(input) <= e
  <2>1. size \in 0 .. IntBits /\ Len(input) \in Nat
    BY LenProperties DEF Inv, TypeOK
  <2> QED
    BY <2>1, Sizes, SMT DEF InputLeft
<1>3. Received = e - Len(input)
  BY DEF Received
<1> HIDE DEF e, n
<1>4. W \in Nat
  BY Sizes
<1>5. Received \in Nat /\ Received <= e /\ Received + Len(input) = e
  BY <1>1, <1>2, <1>3, SMT
<1>6. W * Received \in Nat /\ W * e \in Nat /\ W * Received <= W * e
  <2>1. Received * W <= e * W
    BY <1>1, <1>4, <1>5, ProductGrows
  <2>2. Received * W = W * Received /\ e * W = W * e
    BY <1>1, <1>4, <1>5, SMT
  <2>3. W * Received \in Nat /\ W * e \in Nat
    BY <1>1, <1>4, <1>5, SMT
  <2> QED
    BY <2>1, <2>2, <2>3
<1>7. Used \in Int /\ Used + size = W * Received
  <2> DEFINE m == W * Received
  <2>1. m \in Nat /\ Used = m - size
    BY <1>6 DEF Used
  <2> HIDE DEF m
  <2>2. Used \in Int /\ Used + size = m
    BY <1>2, <2>1, SMT
  <2> QED
    BY <2>2 DEF m
<1>8. W * Received < n + W
  <2> DEFINE m == W * Received
             l == W * e
  <2>1. m \in Nat /\ l \in Nat /\ m <= l /\ l < n + W
    BY <1>1, <1>6
  <2> HIDE DEF m, l
  <2>2. m < n + W
    BY <1>1, <1>4, <2>1, SMT
  <2> QED
    BY <2>2 DEF m
<1> QED
  BY <1>1, <1>2, <1>5, <1>6, <1>7, <1>8 DEF e, n

\* getbit() takes the next bits of the file.
LEMMA TakesBits ==
  ASSUME Inv, Compressed, InputLeft, BufferLeft, TakeBits
  PROVE  /\ Required(state) \in Nat /\ Required(state) <= size
         /\ Used' = Used + Required(state)
         /\ InputLeft' /\ BufferLeft' /\ Starved'
         /\ buf' < Pow2[size']
         /\ \A j \in 1 .. Required(state) :
              Bits(TakenBits, Required(state))[j] = FilledUp(FileBits, Used + j)
<1> DEFINE n == Required(state)
           m == size - n
<1>1. /\ UNCHANGED fileVars /\ UNCHANGED blockVars
      /\ size' = m /\ buf' = buf % Pow2[m] /\ running
      /\ TakenBits = buf \div Pow2[m]
  BY DEF TakeBits, TakenBits
<1>2. /\ buf' \in Nat /\ buf \in Nat /\ buf' < Pow2[size']
      /\ TakenBits \in Nat
  BY TakeBitsInv DEF Inv, TypeOK
<1>3. n \in Nat /\ n <= size
  <2>1. n \in Nat
    BY RequiredFits DEF Inv, TypeOK
  <2> QED
    BY <2>1, Counts, SMT DEF TakeBits, Missing
<1>4. /\ input' = input /\ Encoded(tokens)' = Encoded(tokens)
      /\ FileBits' = FileBits /\ running' = running
  BY <1>1, FileStays DEF blockVars
<1>5. Received' = Received
  BY <1>4 DEF Received
<1> HIDE DEF n
<1>6. m \in Nat /\ size = n + m /\ size \in Nat /\ size <= IntBits
  BY <1>3, Counts, SMT
<1>7. Used' = Used + n /\ Used \in Int
  <2> DEFINE l == W * Received
  <2>1. l \in Nat /\ Used = l - size
    <3>1. Received \in Nat /\ W \in Nat
      BY Counts, Sizes
    <3> QED
      BY <3>1, SMT DEF Used
  <2>2. Used' = l - m
    BY <1>1, <1>5 DEF Used
  <2> HIDE DEF l, m
  <2> QED
    BY <1>3, <1>6, <2>1, <2>2, SMT
<1> HIDE DEF m
<1>8. InputLeft'
  BY <1>4, <1>5 DEF InputLeft
<1>9. /\ \A j \in 1 .. n : Bits(TakenBits, n)[j] = Bits(buf, size)[j]
      /\ \A j \in 1 .. m : Bits(buf', m)[j] = Bits(buf, size)[n + j]
  BY <1>1, <1>2, <1>3, <1>6, BitsSplit
<1>10. \A j \in 1 .. size : Bits(buf, size)[j] = FilledUp(FileBits, Used + j)
  BY DEF BufferLeft
<1>11. \A j \in 1 .. n : Bits(TakenBits, n)[j] = FilledUp(FileBits, Used + j)
  <2>1. \A j \in 1 .. n : j \in 1 .. size
    BY <1>3, <1>6, SMT
  <2> QED
    BY <1>9, <1>10, <2>1
<1>12. BufferLeft'
  <2>1. \A j \in 1 .. m : Bits(buf', m)[j] = FilledUp(FileBits, Used' + j)
    <3> TAKE j \in 1 .. m
    <3>1. n + j \in 1 .. size /\ Used + (n + j) = Used' + j
      BY <1>3, <1>6, <1>7, SMT
    <3> QED
      BY <1>9, <1>10, <3>1
  <2> QED
    BY <1>1, <1>4, <2>1 DEF BufferLeft
<1>13. Starved'
  BY <1>1, <1>4 DEF Starved
<1> QED
  BY <1>2, <1>3, <1>7, <1>8, <1>11, <1>12, <1>13 DEF n

\* A character more of the text.
LEMMA PutsText ==
  ASSUME Inv, Compressed, OutIsText, WindowIsText, UNCHANGED fileVars,
         Len(out) < Len(text), NEW c, c = History(text)[Here + 1], Put(c)
  PROVE  OutIsText' /\ WindowIsText' /\ Len(out') = Len(out) + 1
<1> DEFINE h == History(text)
           n == Len(out)
           b == N - F
<1>1. /\ out \in Seq(Word) /\ n \in Nat
      /\ window \in [0 .. N - 1 -> Word] /\ Len(text) \in Nat
  BY LenProperties DEF Inv, TypeOK, Compressed
<1>2. b \in Nat /\ N \in Nat /\ b < N
  BY Sizes, SMT
<1>3. text' = text /\ History(text)' = History(text)
  BY FileStays
<1>4. out' = Append(out, c) /\ window' = [window EXCEPT ![r] = c]
      /\ r' = Wrapped(r + 1)
  BY DEF Put
<1>5. Here = b + n
  BY DEF Here
<1> HIDE DEF n, b
<1>6. Here \in Nat /\ Here = b + n
  BY <1>1, <1>2, <1>5, SMT
<1>7. c = text[n + 1] /\ n + 1 \in 1 .. Len(text)
  <2>1. n + 1 \in 1 .. Len(text) /\ Here + 1 = N - F + (n + 1)
    BY <1>1, <1>2, <1>6, Sizes, SMT DEF n, b
  <2> QED
    BY <2>1, HistoryIs DEF Compressed
<1>8. c \in Word
  BY <1>7, ElementOfSeq DEF Compressed
<1>9. /\ Len(out') = n + 1
      /\ \A k \in 1 .. n : out'[k] = out[k]
      /\ out'[n + 1] = c
  BY <1>1, <1>4, <1>8, AppendProperties DEF n
<1>10. OutIsText'
  <2>1. ASSUME NEW k \in 1 .. n + 1 PROVE out'[k] = text[k]
    <3>1. CASE k = n + 1
      BY <1>7, <1>9, <3>1
    <3>2. CASE k # n + 1
      <4>1. k \in 1 .. n
        BY <1>1, <3>2, SMT
      <4> QED
        BY <1>9, <4>1 DEF OutIsText, n
    <3> QED
      BY <3>1, <3>2
  <2>2. n + 1 <= Len(text')
    BY <1>3, <1>7, SMT
  <2> QED
    BY <1>3, <1>9, <2>1, <2>2 DEF OutIsText
<1>11. Here' = Here + 1
  <2>1. Here' = b + (n + 1)
    BY <1>9 DEF Here, b
  <2> QED
    BY <1>1, <1>2, <1>6, <2>1, SMT
<1>12. r = Here % N
  BY DEF WindowIsText
<1>13. r' = (Here + 1) % N
  BY <1>4, <1>6, <1>12, NextInRing
<1>14. ASSUME NEW q \in Window(Here + 1)
       PROVE  window'[q % N] = h[q + 1]
  <2>1. q \in Nat /\ q <= Here /\ (q # Here => q < Here /\ Here - q < N)
        /\ (q # Here => q \in Window(Here))
    <3>1. Window(Here + 1) = (Here + 1) - b .. (Here + 1) - 1
      BY DEF Window, b
    <3>2. q \in (Here + 1) - b .. (Here + 1) - 1
      BY <3>1
    <3>3. /\ q \in Nat /\ q <= Here
          /\ (q # Here => q < Here /\ Here - q < N)
          /\ (q # Here => q \in Here - b .. Here - 1)
      BY <1>1, <1>2, <1>6, <3>2, SMT
    <3> QED
      BY <3>3 DEF Window, b
  <2>2. q % N \in 0 .. N - 1 /\ r \in 0 .. N - 1
    BY <1>6, <1>12, <2>1, InRing
  <2>3. CASE q = Here
    BY <1>1, <1>4, <1>12, <2>2, <2>3
  <2>4. CASE q # Here
    <3>1. q % N # Here % N
      BY <1>6, <2>1, <2>4, OtherPlace
    <3>2. window[q % N] = h[q + 1]
      BY <2>1, <2>4 DEF WindowIsText
    <3> QED
      BY <1>1, <1>4, <1>12, <2>2, <3>1, <3>2
  <2> QED
    BY <2>3, <2>4
<1>15. WindowIsText'
  BY <1>3, <1>11, <1>13, <1>14 DEF WindowIsText, Window
<1> QED
  BY <1>9, <1>10, <1>15 DEF n

-----------------------------------------------------------------------------
(* Each action that takes bits or puts out a character keeps the decoder   *)
(* in step.                                                                *)

\* The types of what is counted.
LEMMA TokensType ==
  ASSUME Compressed, NEW k \in 0 .. Len(tokens)
  PROVE  /\ k \in Nat /\ Len(tokens) \in Nat
         /\ BitsUpTo[k] \in Nat /\ CharsUpTo[k] \in Nat
         /\ k < Len(tokens) => /\ k \in 0 .. Len(tokens) - 1
                               /\ k + 1 \in 1 .. Len(tokens)
                               /\ k + 1 \in 0 .. Len(tokens)
                               /\ tokens[k + 1].length \in 1 .. F
                               /\ CharsUpTo[k + 1] = CharsUpTo[k] + tokens[k + 1].length
                               /\ CharsUpTo[k + 1] <= Len(text)
                               /\ CharsUpTo[k + 1] \in Nat
         /\ Len(text) \in Nat
<1>1. k \in Nat /\ Len(tokens) \in Nat /\ Len(text) \in Nat
  BY TokensInPlace, LenProperties, SMT DEF Compressed
<1>2. /\ BitsUpTo[k] \in Nat /\ CharsUpTo[k] \in Nat
  BY <1>1, TokensInPlace, BitsInPlace, SMT
<1>3. ASSUME k < Len(tokens)
      PROVE  /\ k \in 0 .. Len(tokens) - 1
             /\ k + 1 \in 1 .. Len(tokens) /\ k + 1 \in 0 .. Len(tokens)
             /\ (k + 1) - 1 = k
  BY <1>1, <1>3, SMT
<1>4. ASSUME k < Len(tokens)
      PROVE  /\ CharsUpTo[k + 1] = CharsUpTo[k] + tokens[k + 1].length
             /\ CharsUpTo[k + 1] \in 0 .. Len(text)
             /\ tokens[k + 1].length \in 1 .. F
  BY <1>3, <1>4, TokensInPlace, TokenInFile
<1> QED
  BY <1>1, <1>2, <1>3, <1>4, SMT

\* The first k tokens were decoded, and nothing of the next one.
LEMMA AtNextToken ==
  ASSUME Compressed, UNCHANGED fileVars, NEW k \in 0 .. Len(tokens),
         state' = "FSM_0", Used' = BitsUpTo[k], Len(out') = CharsUpTo[k]
  PROVE  Decoded'
<1>1. Spent' = 0 /\ Copied(k)' = 0
  BY DEF Spent, Copied
<1>2. BitsUpTo[k] \in Nat /\ CharsUpTo[k] \in Nat
  BY TokensType
<1>3. BitsUpTo' = BitsUpTo /\ CharsUpTo' = CharsUpTo /\ tokens' = tokens
  BY FileStays
<1>4. Used' = BitsUpTo'[k] + Spent' /\ Len(out') = CharsUpTo'[k] + Copied(k)'
  BY <1>1, <1>2, <1>3, SMT
<1>5. AtToken(k)'
  BY <1>3, <1>4 DEF AtToken
<1> QED
  BY <1>3, <1>5 DEF Decoded

\* What stays when nothing is put out.
LEMMA NothingPut ==
  ASSUME UNCHANGED fileVars, UNCHANGED putVars, OutIsText, WindowIsText
  PROVE  OutIsText' /\ WindowIsText' /\ Len(out') = Len(out)
<1>1. out' = out /\ r' = r /\ window' = window /\ text' = text
  BY FileStays DEF putVars
<1> QED
  BY <1>1 DEF OutIsText, WindowIsText, Here

\* The only bit of a flag.
LEMMA OneBit ==
  ASSUME NEW x \in Nat
  PROVE  Bits(x, 1)[1] = x % 2
<1>1. 1 \in 0 .. IntBits /\ 1 \in 1 .. 1 /\ 1 - 1 = 0
  <2>1. W + W - 1 <= IntBits
    BY EncoderAssumption
  <2> QED
    BY <2>1, Sizes, SMT
<1>2. Bits(x, 1)[1] = (x \div Pow2[1 - 1]) % 2
  BY <1>1, BitsAre
<1>3. Pow2[1 - 1] = 1
  BY <1>1, EncoderAssumption
<1>4. x \div 1 = x
  BY SMT
<1> QED
  BY <1>2, <1>3, <1>4

\* Every flag but that of the first token is read after a character was put
\* out, so that nothing of what buf held at first is read with it.
LEMMA FirstFlag ==
  ASSUME Inv, Compressed, CleanStart, InputLeft, NoJunk, size > 0,
         NEW k \in 0 .. Len(tokens), Used = BitsUpTo[k], Len(out) = CharsUpTo[k],
         k = 0 => k = Len(tokens) \/ tokens[k + 1].length # 1
  PROVE  buf < Pow2[size]
<1>1. k # 0
  <2>1. SUFFICES ASSUME k = 0 PROVE FALSE
    OBVIOUS
  <2>2. Len(tokens) = 0
    <3>1. tokens \in Seq(TokenType) /\ Len(tokens) \in Nat
      BY TokensInPlace
    <3>2. tokens = <<>> => Len(tokens) = 0
      BY EmptySeq
    <3>3. tokens # <<>> => tokens[1].length = 1
      BY DEF CleanStart
    <3>4. 0 + 1 = 1
      OBVIOUS
    <3> QED
      BY <2>1, <3>2, <3>3, <3>4
  <2>3. BitsUpTo[0] = 0 /\ Len(FileBits) = 0
    BY <2>2, BitsInPlace
  <2>4. Used = 0
    BY <2>1, <2>3
  <2>5. W * Received < W /\ Received \in Nat
    <3>1. W * Received < Len(FileBits) + W /\ Received \in Nat
      BY Counts
    <3>2. W \in Nat
      BY Sizes
    <3>3. 0 + W = W
      BY <3>2, SMT
    <3> QED
      BY <2>3, <3>1, <3>3
  <2>6. Received = 0
    <3>1. SUFFICES ASSUME Received # 0 PROVE FALSE
      OBVIOUS
    <3>2. 1 <= Received /\ 1 \in Nat
      BY <2>5, <3>1, SMT
    <3>3. 1 * W <= Received * W
      BY <2>5, <3>2, Sizes, ProductGrows
    <3>4. 1 * W = W /\ Received * W = W * Received
      BY <2>5, Sizes, SMT
    <3>5. W * Received \in Nat /\ W \in Nat
      BY <2>5, Sizes, SMT
    <3> QED
      BY <2>5, <3>3, <3>4, <3>5, SMT
  <2>7. W * Received = 0
    BY <2>6, Sizes, SMT
  <2>8. Used + size = 0 /\ size \in Nat
    BY <2>7, Counts
  <2> QED
    BY <2>4, <2>8, SMT
<1>2. Len(out) # 0
  <2>1. 0 \in 0 .. Len(tokens) /\ 0 < Len(tokens) /\ 0 + 1 \in 0 .. k /\ 0 + 1 = 1
    BY <1>1, TokensType, SMT
  <2>2. CharsUpTo[0] = 0 /\ CharsUpTo[0 + 1] <= CharsUpTo[k]
    BY <2>1, TokensInPlace
  <2>3. CharsUpTo[0 + 1] = CharsUpTo[0] + tokens[0 + 1].length
        /\ tokens[0 + 1].length \in 1 .. F
    BY <2>1, TokensType
  <2>4. CharsUpTo[k] \in Nat
    BY TokensType
  <2> QED
    BY <2>2, <2>3, <2>4, Sizes, SMT
<1>3. out # <<>>
  BY <1>2, EmptySeq
<1> QED
  BY <1>3 DEF NoJunk

\* The flag of a token, or of what fills up the last word, which is a 0.
LEMMA FlagInStep ==
  ASSUME Inv, Compressed, CleanStart, InStep, Flag
  PROVE  InStep'
<1>1. /\ InputLeft /\ BufferLeft /\ Decoded /\ OutIsText /\ WindowIsText /\ NoJunk
  BY DEF InStep
<1>2. /\ TakeBits /\ state = "FSM_0" /\ UNCHANGED fileVars
      /\ i' = i /\ left' = left /\ UNCHANGED putVars
      /\ state' = IF TakenBits # 0 THEN "FSM_1" ELSE "FSM_2"
  BY DEF Flag, TakeBits
<1>3. Required(state) = 1
  BY <1>2 DEF Required
<1>4. /\ 1 <= size /\ Used' = Used + 1
      /\ InputLeft' /\ BufferLeft' /\ Starved' /\ buf' < Pow2[size']
      /\ \A j \in 1 .. 1 : Bits(TakenBits, 1)[j] = FilledUp(FileBits, Used + j)
  BY <1>1, <1>2, <1>3, TakesBits
<1>5. OutIsText' /\ WindowIsText' /\ Len(out') = Len(out)
  BY <1>1, <1>2, NothingPut
<1>6. PICK k \in 0 .. Len(tokens) : AtToken(k)
  BY <1>1 DEF Decoded
<1>7. /\ k \in Nat /\ Len(tokens) \in Nat
      /\ BitsUpTo[k] \in Nat /\ CharsUpTo[k] \in Nat
  BY TokensType
<1>8. Used = BitsUpTo[k] /\ Len(out) = CharsUpTo[k]
  <2>1. Spent = 0 /\ Copied(k) = 0
    BY <1>2 DEF Spent, Copied
  <2> QED
    BY <1>6, <1>7, <2>1, SMT DEF AtToken
<1>9. TakenBits \in Nat /\ TakenBits % 2 = FilledUp(FileBits, Used + 1)
  <2>1. TakenBits \in Nat
    BY <1>2, TakeBitsInv
  <2>2. 1 \in 1 .. 1
    BY SMT
  <2> QED
    BY <1>4, <2>1, <2>2, OneBit
<1>10. size > 0
  BY <1>4, Counts, <1>1, SMT
<1>11. ASSUME k = 0 => k = Len(tokens) \/ tokens[k + 1].length # 1,
              FilledUp(FileBits, Used + 1) = 0
       PROVE  TakenBits = 0
  <2>1. buf < Pow2[size]
    BY <1>1, <1>8, <1>10, <1>11, FirstFlag
  <2>2. TakenBits < Pow2[1]
    <3>1. 1 \in 0 .. size /\ size \in 0 .. IntBits /\ buf \in Nat
      BY <1>4, Counts, <1>1, SMT DEF Inv, TypeOK
    <3>2. buf \div Pow2[size - 1] < Pow2[1]
      BY <2>1, <3>1, BitsTaken
    <3> QED
      BY <1>3, <3>2 DEF TakenBits
  <2>3. Pow2[1] = 2
    BY EncoderAssumption
  <2> QED
    BY <1>9, <1>11, <2>2, <2>3, SMT
<1>12. ASSUME k = Len(tokens) PROVE state' = "FSM_2"
  <2>1. BitsUpTo[k] = Len(FileBits)
    BY <1>12, BitsInPlace
  <2>2. ~(Used + 1 <= Len(FileBits))
    BY <1>7, <1>8, <2>1, SMT
  <2>3. FilledUp(FileBits, Used + 1) = 0
    BY <2>2 DEF FilledUp
  <2> QED
    BY <1>2, <1>11, <1>12, <2>3
<1>13. ASSUME k < Len(tokens)
       PROVE  /\ tokens[k + 1].length \in 1 .. F
              /\ tokens[k + 1].length = 1 => state' = "FSM_1"
              /\ tokens[k + 1].length > 1 => state' = "FSM_2"
  <2>1. k \in 0 .. Len(tokens) - 1 /\ tokens[k + 1].length \in 1 .. F
        /\ k # Len(tokens)
    BY <1>7, <1>13, TokensType, SMT
  <2>2. /\ tokens[k + 1].length = 1 => FilledUp(FileBits, Used + 1) = 1
        /\ tokens[k + 1].length > 1 => FilledUp(FileBits, Used + 1) = 0
    BY <1>8, <2>1, TokenInFile
  <2>3. ASSUME tokens[k + 1].length = 1 PROVE state' = "FSM_1"
    <3>1. TakenBits # 0
      BY <1>9, <2>2, <2>3, SMT
    <3> QED
      BY <1>2, <3>1
  <2>4. ASSUME tokens[k + 1].length > 1 PROVE state' = "FSM_2"
    <3>1. tokens[k + 1].length # 1
      BY <2>1, <2>4, SMT
    <3>2. TakenBits = 0
      BY <1>11, <2>2, <2>4, <3>1
    <3> QED
      BY <1>2, <3>2
  <2> QED
    BY <2>1, <2>3, <2>4
<1>14. AtToken(k)'
  <2>1. /\ tokens' = tokens /\ BitsUpTo' = BitsUpTo /\ CharsUpTo' = CharsUpTo
    BY <1>2, FileStays
  <2>2. state' \in {"FSM_1", "FSM_2"}
    BY <1>2
  <2>3. Spent' = 1 /\ Copied(k)' = 0
    BY <2>2 DEF Spent, Copied
  <2>4. Used' = BitsUpTo[k] + 1 /\ Len(out') = CharsUpTo[k] + 0
    BY <1>4, <1>5, <1>7, <1>8, SMT
  <2>5. ASSUME k < Len(tokens)
        PROVE  /\ state' = "FSM_1" => tokens[k + 1].length = 1
               /\ state' = "FSM_2" => tokens[k + 1].length > 1
    <3>1. tokens[k + 1].length = 1 \/ tokens[k + 1].length > 1
      BY <1>13, <2>5, Sizes, SMT
    <3> QED
      BY <1>13, <2>5, <3>1
  <2> QED
    BY <1>12, <2>1, <2>2, <2>3, <2>4, <2>5 DEF AtToken
<1>15. Decoded'
  BY <1>2, <1>14, FileStays DEF Decoded
<1>16. NoJunk'
  BY <1>4 DEF NoJunk
<1> QED
  BY <1>4, <1>5, <1>15, <1>16 DEF InStep

\* The word of a literal is the character that comes next.
LEMMA PutLiteralInStep ==
  ASSUME Inv, Compressed, InStep, PutLiteral
  PROVE  InStep'
<1> DEFINE c == History(text)[Here + 1]
<1>1. /\ InputLeft /\ BufferLeft /\ Decoded /\ OutIsText /\ WindowIsText
  BY DEF InStep
<1>2. /\ TakeBits /\ state = "FSM_1" /\ UNCHANGED fileVars
      /\ Put(TakenBits) /\ state' = "FSM_0"
  BY DEF PutLiteral, TakeBits
<1>3. Required(state) = W
  BY <1>2 DEF Required
<1>4. /\ Used' = Used + W
      /\ InputLeft' /\ BufferLeft' /\ Starved' /\ buf' < Pow2[size']
      /\ \A j \in 1 .. W : Bits(TakenBits, W)[j] = FilledUp(FileBits, Used + j)
  BY <1>1, <1>2, <1>3, TakesBits
<1>5. PICK k \in 0 .. Len(tokens) : AtToken(k)
  BY <1>1 DEF Decoded
<1>6. /\ k \in Nat /\ Len(tokens) \in Nat /\ k < Len(tokens)
      /\ tokens[k + 1].length = 1
  <2>1. k \in Nat /\ Len(tokens) \in Nat /\ k <= Len(tokens)
    BY TokensType, SMT
  <2>2. k # Len(tokens)
    BY <1>2, <1>5 DEF AtToken
  <2>3. k < Len(tokens)
    BY <2>1, <2>2, SMT
  <2> QED
    BY <1>2, <1>5, <2>1, <2>3 DEF AtToken
<1>7. /\ k \in 0 .. Len(tokens) - 1 /\ k + 1 \in 0 .. Len(tokens)
      /\ BitsUpTo[k] \in Nat /\ CharsUpTo[k] \in Nat
      /\ CharsUpTo[k + 1] = CharsUpTo[k] + 1
      /\ CharsUpTo[k + 1] <= Len(text) /\ Len(text) \in Nat
  BY <1>6, TokensType
<1>8. Used = BitsUpTo[k] + 1 /\ Len(out) = CharsUpTo[k]
  <2>1. Spent = 1 /\ Copied(k) = 0
    BY <1>2 DEF Spent, Copied
  <2> QED
    BY <1>5, <1>7, <2>1, SMT DEF AtToken
<1>9. /\ BitsUpTo[k + 1] = BitsUpTo[k] + 1 + W
      /\ c \in Word
      /\ \A j \in 1 .. W :
           FilledUp(FileBits, BitsUpTo[k] + 1 + j) = Bits(c, W)[j]
  <2> DEFINE d == History(text)[Place(k) + 1]
  <2>1. Here = Place(k)
    BY <1>8 DEF Here, Place
  <2>2. c = d
    BY <2>1
  <2>3. /\ BitsUpTo[k + 1] = BitsUpTo[k] + 1 + W
        /\ d \in Word
        /\ \A j \in 1 .. W :
             FilledUp(FileBits, BitsUpTo[k] + 1 + j) = Bits(d, W)[j]
    <3>1. Compressed /\ k \in 0 .. Len(tokens) - 1 /\ tokens[k + 1].length = 1
      BY <1>6, <1>7
    <3> QED
      BY ONLY <3>1, TokenInFile
  <2> HIDE DEF c, d
  <2> QED
    BY <2>2, <2>3
<1> HIDE DEF c
<1>10. TakenBits = c
  <2>1. TakenBits \in Nat /\ TakenBits < Pow2[W]
    BY <1>2, <1>3, TakeBitsInv
  <2>2. c \in Nat /\ c < Pow2[W]
    BY <1>9, Sizes, SMT DEF Word
  <2>3. W \in 0 .. IntBits
    <3>1. W + W - 1 <= IntBits
      BY EncoderAssumption
    <3> QED
      BY <3>1, Sizes, SMT
  <2>4. \A j \in 1 .. W : Bits(TakenBits, W)[j] = Bits(c, W)[j]
    BY <1>4, <1>8, <1>9
  <2> QED
    BY <2>1, <2>2, <2>3, <2>4, SameBits
<1>11. OutIsText' /\ WindowIsText' /\ Len(out') = Len(out) + 1
  <2>1. Len(out) < Len(text)
    BY <1>7, <1>8, SMT
  <2>2. Put(c)
    BY <1>2, <1>10
  <2> QED
    BY <1>1, <1>2, <2>1, <2>2, PutsText DEF c
<1>12. Decoded'
  <2>1. Used' = BitsUpTo[k + 1] /\ Len(out') = CharsUpTo[k + 1]
    BY <1>4, <1>7, <1>8, <1>9, <1>11
  <2> QED
    BY <1>2, <1>7, <2>1, AtNextToken
<1>13. NoJunk'
  BY <1>4 DEF NoJunk
<1> QED
  BY <1>4, <1>11, <1>12, <1>13 DEF InStep

\* The position of a match.
LEMMA PositionInStep ==
  ASSUME Inv, Compressed, InStep, Position
  PROVE  InStep'
<1>1. /\ InputLeft /\ BufferLeft /\ Decoded /\ OutIsText /\ WindowIsText
  BY DEF InStep
<1>2. /\ TakeBits /\ state = "FSM_2" /\ UNCHANGED fileVars
      /\ UNCHANGED putVars /\ i' = TakenBits /\ state' = "FSM_3"
  BY DEF Position, TakeBits
<1>3. Required(state) = EI
  BY <1>2 DEF Required
<1>4. /\ Used' = Used + EI
      /\ InputLeft' /\ BufferLeft' /\ Starved' /\ buf' < Pow2[size']
      /\ \A j \in 1 .. EI : Bits(TakenBits, EI)[j] = FilledUp(FileBits, Used + j)
  BY <1>1, <1>2, <1>3, TakesBits
<1>5. OutIsText' /\ WindowIsText' /\ Len(out') = Len(out)
  BY <1>1, <1>2, NothingPut
<1>6. PICK k \in 0 .. Len(tokens) : AtToken(k)
  BY <1>1 DEF Decoded
<1>7. BitsUpTo[k] \in Nat /\ CharsUpTo[k] \in Nat
  BY TokensType
<1>8. Used = BitsUpTo[k] + 1 /\ Len(out) = CharsUpTo[k]
  <2>1. Spent = 1 /\ Copied(k) = 0
    BY <1>2 DEF Spent, Copied
  <2> QED
    BY <1>6, <1>7, <2>1, SMT DEF AtToken
<1>9. ASSUME k < Len(tokens)
      PROVE  tokens[k + 1].length > 1 /\ TakenBits = Source(k) % N
  <2>1. k \in 0 .. Len(tokens) - 1
    BY <1>9, TokensType
  <2>2. tokens[k + 1].length > 1
    BY <1>2, <1>6, <1>9 DEF AtToken
  <2>3. /\ Source(k) \in Nat
        /\ \A j \in 1 .. EI :
             FilledUp(FileBits, BitsUpTo[k] + 1 + j) = Bits(Source(k) % N, EI)[j]
    BY <2>1, <2>2, TokenInFile
  <2>4. TakenBits \in Nat /\ TakenBits < Pow2[EI]
    BY <1>2, <1>3, TakeBitsInv
  <2>5. Source(k) % N \in Nat /\ Source(k) % N < Pow2[EI]
    <3>1. Source(k) % N \in Nat /\ Source(k) % N < N
      BY <2>3, Sizes, DivisionIsNat
    <3> QED
      BY <3>1 DEF N
  <2>6. EI \in 0 .. IntBits
    <3>1. EI + W - 1 <= IntBits
      BY EncoderAssumption
    <3> QED
      BY <3>1, Sizes, SMT
  <2>7. \A j \in 1 .. EI : Bits(TakenBits, EI)[j] = Bits(Source(k) % N, EI)[j]
    BY <1>4, <1>8, <2>3
  <2>8. TakenBits = Source(k) % N
    BY ONLY <2>4, <2>5, <2>6, <2>7, SameBits
  <2> QED
    BY <2>2, <2>8
<1>10. Decoded'
  <2>1. /\ tokens' = tokens /\ BitsUpTo' = BitsUpTo /\ CharsUpTo' = CharsUpTo
        /\ Source(k)' = Source(k)
    BY <1>2, FileStays DEF Source, Place
  <2>2. Spent' = 1 + EI /\ Copied(k)' = 0
    BY <1>2 DEF Spent, Copied
  <2>3. Used' = BitsUpTo[k] + (1 + EI) /\ Len(out') = CharsUpTo[k] + 0
    <3>1. /\ Used' = BitsUpTo[k] + 1 + EI /\ Len(out') = CharsUpTo[k]
          /\ BitsUpTo[k] \in Nat /\ CharsUpTo[k] \in Nat /\ EI \in Nat
      BY <1>4, <1>5, <1>7, <1>8, Sizes
    <3> QED
      BY <3>1, SMT
  <2>4. AtToken(k)'
    BY <1>2, <1>9, <2>1, <2>2, <2>3 DEF AtToken
  <2> QED
    BY <2>1, <2>4 DEF Decoded
<1>11. NoJunk'
  BY <1>4 DEF NoJunk
<1> QED
  BY <1>4, <1>5, <1>10, <1>11 DEF InStep

\* The length of a match: what fills up the last word has none.
LEMMA LengthInStep ==
  ASSUME Inv, Compressed, InStep, Length
  PROVE  InStep'
<1>1. /\ InputLeft /\ BufferLeft /\ Decoded /\ OutIsText /\ WindowIsText
  BY DEF InStep
<1>2. /\ TakeBits /\ state = "FSM_3" /\ UNCHANGED fileVars
      /\ UNCHANGED putVars /\ i' = i
      /\ left' = TakenBits + 2 /\ state' = "Copy"
  BY DEF Length, TakeBits
<1>3. Required(state) = EJ
  BY <1>2 DEF Required
<1>4. /\ EJ <= size /\ Used' = Used + EJ
      /\ InputLeft' /\ BufferLeft' /\ Starved' /\ buf' < Pow2[size']
      /\ \A j \in 1 .. EJ : Bits(TakenBits, EJ)[j] = FilledUp(FileBits, Used + j)
  BY <1>1, <1>2, <1>3, TakesBits
<1>5. OutIsText' /\ WindowIsText' /\ Len(out') = Len(out)
  BY <1>1, <1>2, NothingPut
<1>6. PICK k \in 0 .. Len(tokens) : AtToken(k)
  BY <1>1 DEF Decoded
<1>7. BitsUpTo[k] \in Nat /\ CharsUpTo[k] \in Nat
  BY TokensType
<1>8. Used = BitsUpTo[k] + 1 + EI /\ Len(out) = CharsUpTo[k]
  <2>1. Spent = 1 + EI /\ Copied(k) = 0
    BY <1>2 DEF Spent, Copied
  <2>2. /\ Used = BitsUpTo[k] + (1 + EI) /\ Len(out) = CharsUpTo[k] + 0
        /\ EI \in Nat
    BY <1>6, <2>1, Sizes DEF AtToken
  <2> QED
    BY <1>7, <2>2, SMT
\* What fills up the last word is too short for a match.
<1>9. k < Len(tokens)
  <2>1. k \in Nat /\ Len(tokens) \in Nat /\ k <= Len(tokens)
    BY TokensType, SMT
  <2>2. ASSUME k = Len(tokens) PROVE FALSE
    <3>1. BitsUpTo[k] = Len(FileBits)
      BY <2>2, BitsInPlace
    <3>2. Used + size < Len(FileBits) + W /\ size \in Nat
      BY <1>1, Counts
    <3>3. W <= EI + EJ
      BY EncoderAssumption
    <3> QED
      BY <1>4, <1>7, <1>8, <3>1, <3>2, <3>3, Sizes, SMT
  <2> QED
    BY <2>1, <2>2, SMT
<1> DEFINE l == tokens[k + 1].length
<1>10. k \in 0 .. Len(tokens) - 1 /\ l \in 1 .. F /\ l > 1
  BY <1>2, <1>6, <1>9, TokensType DEF AtToken
<1>11. left' = l
  <2>1. TakenBits \in Nat /\ TakenBits < Pow2[EJ]
    BY <1>2, <1>3, TakeBitsInv
  <2>2. EJ \in 0 .. IntBits
    <3>1. EJ + W - 1 <= IntBits
      BY EncoderAssumption
    <3> QED
      BY <3>1, Sizes, SMT
  <2>3. l - 2 \in Nat /\ l - 2 < Pow2[EJ]
    <3>1. Pow2[EJ] \in Nat
      BY <2>2, Sizes
    <3> HIDE DEF l
    <3> QED
      BY <1>10, <3>1, SMT DEF F
  <2>4. \A j \in 1 .. EJ :
          FilledUp(FileBits, BitsUpTo[k] + 1 + EI + j) = Bits(l - 2, EJ)[j]
    <3>1. Compressed /\ k \in 0 .. Len(tokens) - 1 /\ tokens[k + 1].length > 1
      BY <1>10
    <3> QED
      BY ONLY <3>1, TokenInFile
  <2>5. \A j \in 1 .. EJ : Bits(TakenBits, EJ)[j] = Bits(l - 2, EJ)[j]
    BY <1>4, <1>8, <2>4
  <2>6. TakenBits = l - 2
    <3> DEFINE y == l - 2
    <3>1. /\ y \in Nat /\ y < Pow2[EJ]
          /\ \A j \in 1 .. EJ : Bits(TakenBits, EJ)[j] = Bits(y, EJ)[j]
      BY <2>3, <2>5
    <3> HIDE DEF y
    <3>2. TakenBits = y
      BY ONLY <2>1, <2>2, <3>1, SameBits
    <3> QED
      BY <3>2 DEF y
  <2> HIDE DEF l
  <2> QED
    BY <1>2, <1>10, <2>6, Sizes, SMT
<1>12. Decoded'
  <2>1. /\ tokens' = tokens /\ BitsUpTo' = BitsUpTo /\ CharsUpTo' = CharsUpTo
        /\ Source(k)' = Source(k)
    BY <1>2, FileStays DEF Source, Place
  <2>2. Spent' = 1 + EI + EJ /\ Copied(k)' = 0 /\ left' <= l
    <3>1. l \in Nat
      BY <1>10, Sizes, SMT
    <3>2. l - l = 0 /\ l <= l
      BY <3>1, SMT
    <3> QED
      BY <1>2, <1>11, <2>1, <3>2 DEF Spent, Copied
  <2>3. Used' = BitsUpTo[k] + (1 + EI + EJ) /\ Len(out') = CharsUpTo[k] + 0
    <3>1. /\ Used' = BitsUpTo[k] + 1 + EI + EJ /\ Len(out') = CharsUpTo[k]
          /\ BitsUpTo[k] \in Nat /\ CharsUpTo[k] \in Nat
          /\ EI \in Nat /\ EJ \in Nat
      BY <1>4, <1>5, <1>7, <1>8, Sizes
    <3> QED
      BY <3>1, SMT
  <2>4. i' = (Source(k) + 0) % N
    <3>1. i = Source(k) % N
      BY <1>2, <1>6, <1>9 DEF AtToken
    <3>2. Source(k) \in Nat
      BY <1>10, TokenInFile
    <3>3. Source(k) + 0 = Source(k)
      BY <3>2, SMT
    <3> QED
      BY <1>2, <3>1, <3>3
  <2>5. k # Len(tokens)
    BY <1>9, <1>10, TokensInPlace, SMT
  <2>6. AtToken(k)'
    BY <1>2, <1>10, <2>1, <2>2, <2>3, <2>4, <2>5 DEF AtToken
  <2> QED
    BY <2>1, <2>6 DEF Decoded
<1>13. NoJunk'
  BY <1>4 DEF NoJunk
<1> QED
  BY <1>4, <1>5, <1>12, <1>13 DEF InStep

\* Copying a match puts out what comes next, even where it overlaps itself.
LEMMA CopyInStep ==
  ASSUME Inv, Compressed, InStep, Copy
  PROVE  InStep'
<1>1. /\ InputLeft /\ BufferLeft /\ Decoded /\ OutIsText /\ WindowIsText /\ NoJunk
  BY DEF InStep
<1>2. /\ state = "Copy" /\ running /\ Put(window[i])
      /\ i' = Wrapped(i + 1) /\ left' = left - 1
      /\ state' = IF left = 1 THEN "FSM_0" ELSE "Copy"
      /\ UNCHANGED fileVars /\ UNCHANGED blockVars /\ UNCHANGED bitVars
  BY DEF Copy
<1>3. PICK k \in 0 .. Len(tokens) : AtToken(k)
  BY <1>1 DEF Decoded
<1> DEFINE t == tokens[k + 1]
           l == t.length
           q == Source(k) + (l - left)
           h == History(text)
<1>4. /\ k < Len(tokens) /\ l > 1 /\ left <= l
      /\ Used = BitsUpTo[k] + (1 + EI + EJ)
      /\ Len(out) = CharsUpTo[k] + (l - left)
      /\ i = q % N
  <2>1. k \in Nat /\ Len(tokens) \in Nat /\ k <= Len(tokens)
    BY TokensType, SMT
  <2>2. k # Len(tokens)
    BY <1>2, <1>3 DEF AtToken
  <2>3. k < Len(tokens)
    BY <2>1, <2>2, SMT
  <2>4. Spent = 1 + EI + EJ /\ Copied(k) = l - left
    BY <1>2 DEF Spent, Copied
  <2> QED
    BY <1>2, <1>3, <2>3, <2>4 DEF AtToken
<1>5. /\ k \in 0 .. Len(tokens) - 1 /\ k + 1 \in 0 .. Len(tokens)
      /\ k # Len(tokens)
      /\ BitsUpTo[k] \in Nat /\ CharsUpTo[k] \in Nat
      /\ l \in 1 .. F /\ l \in Nat
      /\ CharsUpTo[k + 1] = CharsUpTo[k] + l
      /\ CharsUpTo[k + 1] <= Len(text) /\ Len(text) \in Nat
  <2>1. k \in Nat /\ Len(tokens) \in Nat
    BY TokensType
  <2>2. l \in 1 .. F
    BY <1>4, TokensType
  <2> HIDE DEF l
  <2>3. l \in Nat /\ k # Len(tokens)
    BY <1>4, <2>1, <2>2, Sizes, SMT
  <2> QED
    BY <1>4, <2>2, <2>3, TokensType DEF l
<1>6. /\ BitsUpTo[k + 1] = BitsUpTo[k] + 1 + EI + EJ
      /\ Source(k) \in Nat /\ Source(k) \in Window(Place(k))
      /\ \A m \in 1 .. l : h[Source(k) + m] = h[Place(k) + m]
  <2>1. Compressed /\ k \in 0 .. Len(tokens) - 1 /\ tokens[k + 1].length > 1
    BY <1>4, <1>5
  <2> QED
    BY ONLY <2>1, TokenInFile
<1>7. left \in Nat /\ left > 0
  BY <1>2, Sizes, SMT DEF Inv, TypeOK, Copying
<1> HIDE DEF t, l, h
<1>8. l - left \in Nat /\ (l - left) + 1 \in 1 .. l /\ (l - left) + left = l
  BY <1>4, <1>5, <1>7, SMT
<1> DEFINE m == l - left
<1>9. m \in Nat /\ m + 1 \in 1 .. l /\ m + left = l /\ q = Source(k) + m
      /\ m = l - left
  BY <1>8
<1>10. Len(out) = CharsUpTo[k] + m
  BY <1>4
<1> HIDE DEF m, q
<1>11. q \in Nat /\ q \in Window(Here)
  <2> DEFINE b == N - F
             c == CharsUpTo[k]
             x == Source(k)
             p == Place(k)
             y == Here
  <2>1. p = b + c /\ y = b + (c + m)
    BY <1>10 DEF Place, Here
  <2>2. x \in p - b .. p - 1
    BY <1>6 DEF Window
  <2>3. Window(Here) = y - b .. y - 1
    BY DEF Window
  <2>4. b \in Nat /\ c \in Nat /\ x \in Nat /\ m \in Nat /\ q = x + m
    <3>1. b \in Nat
      BY Sizes, SMT
    <3> QED
      BY <1>5, <1>6, <1>9, <3>1
  <2> HIDE DEF b, c, x, p, y
  <2>5. q \in Nat /\ q \in y - b .. y - 1
    BY <2>1, <2>2, <2>4, SMT
  <2> QED
    BY <2>3, <2>5
<1>12. window[i] = h[Here + 1]
  <2>1. window[i] = h[q + 1]
    BY <1>1, <1>4, <1>11 DEF WindowIsText, h
  <2>2. q + 1 = Source(k) + (m + 1) /\ Place(k) + (m + 1) = Here + 1
    <3> DEFINE b == N - F
               c == CharsUpTo[k]
               x == Source(k)
               p == Place(k)
               y == Here
    <3>1. p = b + c /\ y = b + (c + m)
      BY <1>10 DEF Place, Here
    <3>2. b \in Nat
      BY Sizes, SMT
    <3>3. c \in Nat /\ x \in Nat /\ m \in Nat /\ q = x + m
      BY <1>5, <1>6, <1>9
    <3> HIDE DEF b, c, x, p, y
    <3>4. q + 1 = x + (m + 1) /\ p + (m + 1) = y + 1
      BY <3>1, <3>2, <3>3, SMT
    <3> QED
      BY <3>4 DEF x, p, y
  <2> QED
    BY <1>6, <1>9, <2>1, <2>2
<1>13. OutIsText' /\ WindowIsText' /\ Len(out') = Len(out) + 1
  <2>1. Len(out) < Len(text)
    BY <1>5, <1>7, <1>9, <1>10, SMT
  <2> QED
    BY <1>1, <1>2, <1>12, <2>1, PutsText DEF h
<1>14. /\ input' = input /\ size' = size /\ buf' = buf /\ running' = running
       /\ tokens' = tokens /\ text' = text
       /\ Encoded(tokens)' = Encoded(tokens) /\ FileBits' = FileBits
       /\ BitsUpTo' = BitsUpTo /\ CharsUpTo' = CharsUpTo
  BY <1>2, FileStays DEF blockVars, bitVars
<1>15. Used' = Used /\ Received' = Received
  BY <1>14 DEF Used, Received
<1>16. InputLeft' /\ BufferLeft' /\ Starved'
  BY <1>1, <1>2, <1>14, <1>15 DEF InputLeft, BufferLeft, Starved
<1>17. NoJunk'
  <2>1. buf < Pow2[size]
    BY <1>2 DEF Inv, TypeOK
  <2> QED
    BY <1>14, <2>1 DEF NoJunk
<1>18. ASSUME left = 1 PROVE Decoded'
  <2>1. state' = "FSM_0"
    BY <1>2, <1>18
  <2>2. Used' = BitsUpTo[k + 1] /\ Len(out') = CharsUpTo[k + 1]
    <3>1. BitsUpTo[k] + (1 + EI + EJ) = BitsUpTo[k] + 1 + EI + EJ
      BY <1>5, Sizes, SMT
    <3>2. CharsUpTo[k] + m + 1 = CharsUpTo[k] + l
      BY <1>5, <1>9, <1>18, SMT
    <3> QED
      BY <1>4, <1>5, <1>6, <1>10, <1>13, <1>15, <3>1, <3>2
  <2>3. k + 1 \in 0 .. Len(tokens) /\ UNCHANGED fileVars
    BY <1>2, <1>5
  <2> QED
    BY <2>1, <2>2, <2>3, AtNextToken
<1>19. ASSUME left # 1 PROVE Decoded'
  <2>1. state' = "Copy"
    BY <1>2, <1>19
  <2>2. left' <= l /\ l - left' = m + 1
    <3>1. /\ left \in Nat /\ l \in Nat /\ m \in Nat
          /\ left' = left - 1 /\ left <= l /\ m + left = l
      BY <1>2, <1>4, <1>5, <1>7, <1>9
    <3> QED
      BY <3>1, SMT
  <2>3. Copied(k)' = m + 1 /\ Spent' = 1 + EI + EJ /\ Source(k)' = Source(k)
    <3>1. Copied(k)' = m + 1
      BY <1>14, <2>1, <2>2 DEF Copied, l, t
    <3>2. Spent' = 1 + EI + EJ
      BY <2>1 DEF Spent
    <3>3. Source(k)' = Source(k)
      BY <1>14 DEF Source, Place
    <3> QED
      BY <3>1, <3>2, <3>3
  <2>4. Len(out') = CharsUpTo[k] + (m + 1)
    <3>1. /\ CharsUpTo[k] \in Nat /\ m \in Nat
          /\ Len(out') = (CharsUpTo[k] + m) + 1
      BY <1>5, <1>9, <1>10, <1>13
    <3> QED
      BY <3>1, SMT
  <2>5. i' = (Source(k) + (m + 1)) % N
    <3>1. i' = (q + 1) % N
      BY <1>2, <1>4, <1>11, NextInRing
    <3>2. q + 1 = Source(k) + (m + 1)
      BY <1>6, <1>9, SMT
    <3> QED
      BY <3>1, <3>2
  <2>6. AtToken(k)'
    BY <1>4, <1>5, <1>14, <1>15, <2>1, <2>2, <2>3, <2>4, <2>5 DEF AtToken, l, t
  <2>7. tokens' = tokens
    BY <1>14
  <2> QED
    BY <2>6, <2>7 DEF Decoded
<1> QED
  BY <1>13, <1>16, <1>17, <1>18, <1>19 DEF InStep

\* Reading a word takes nothing.
LEMMA GetWordInStep ==
  ASSUME Inv, Compressed, InStep, GetWord
  PROVE  InStep'
<1> DEFINE e == Encoded(tokens)
           c == Head(input)
           s == size + W
<1>1. /\ InputLeft /\ BufferLeft /\ Decoded /\ OutIsText /\ WindowIsText /\ NoJunk
  BY DEF InStep
<1>2. /\ running /\ running' = running /\ UNCHANGED fileVars
      /\ UNCHANGED putVars /\ state' = state /\ i' = i /\ left' = left
      /\ buf' = buf * Pow2[W] + c /\ input' = Tail(input) /\ size' = s
  BY DEF GetWord
<1>3. /\ s \in 0 .. IntBits /\ c \in Nat /\ c < Pow2[W]
      /\ buf < Pow2[size] => buf' < Pow2[size']
  BY <1>2, GetWordInv
<1>4. /\ Received \in Nat /\ size \in Nat /\ Len(input) \in Nat
      /\ Received + Len(input) = Len(e)
      /\ Used \in Int /\ Used + size = W * Received
  BY <1>1, Counts
<1>5. /\ tokens' = tokens /\ text' = text /\ e' = e /\ FileBits' = FileBits
      /\ BitsUpTo' = BitsUpTo /\ CharsUpTo' = CharsUpTo
  BY <1>2, FileStays
<1>6. /\ input \in Seq(Word) /\ input # <<>>
  <2>1. input \in Seq(Word) /\ available \in 0 .. Len(input) /\ available > 0
    BY DEF Inv, TypeOK, GetWord
  <2>2. Len(input) # 0
    BY <1>4, <2>1, SMT
  <2>3. input # <<>>
    BY <2>2, EmptySeq
  <2> QED
    BY <2>1, <2>3
<1>7. /\ Len(input') = Len(input) - 1
      /\ Len(input) > 0 /\ 1 \in 1 .. Len(input)
      /\ \A k \in 1 .. Len(input') : input'[k] = input[k + 1]
      /\ c = input[1]
  <2>1. /\ Len(Tail(input)) = Len(input) - 1
        /\ \A k \in 1 .. Len(Tail(input)) : Tail(input)[k] = input[k + 1]
    BY <1>6, HeadTailProperties
  <2>2. Len(input) # 0
    BY <1>6, EmptySeq
  <2>3. Len(input) > 0 /\ 1 \in 1 .. Len(input)
    BY <1>4, <2>2, SMT
  <2>4. c = input[1]
    BY <1>6
  <2> QED
    BY <1>2, <2>1, <2>3, <2>4
<1> HIDE DEF e, c, s
<1>8. Received' = Received + 1
  <2>1. Received' = Len(e) - Len(input') /\ Received = Len(e) - Len(input)
    BY <1>5 DEF Received, e
  <2>2. Len(e) \in Nat
    BY <1>4, SMT
  <2> QED
    BY <1>4, <1>7, <2>1, <2>2, SMT
<1>9. Used' = Used
  <2> DEFINE m == W * Received
  <2>1. W * (Received + 1) = m + W /\ m \in Nat /\ W \in Nat
    BY <1>4, Sizes, SMT
  <2>2. Used' = W * (Received + 1) - s /\ Used = m - size
    BY <1>2, <1>8 DEF Used
  <2> HIDE DEF m
  <2> QED
    BY <1>4, <2>1, <2>2, SMT DEF s
<1>10. InputLeft'
  <2>1. Len(input) <= Len(e) /\ \A k \in 1 .. Len(input) : input[k] = e[Received + k]
    BY <1>1 DEF InputLeft, e
  <2>2. Len(input') <= Len(e)
    BY <1>4, <1>7, <2>1, SMT
  <2>3. ASSUME NEW k \in 1 .. Len(input')
        PROVE  input'[k] = e[Received' + k]
    <3>1. k + 1 \in 1 .. Len(input) /\ Received + (k + 1) = Received' + k
      BY <1>4, <1>7, <1>8, SMT
    <3> QED
      BY <1>7, <2>1, <3>1
  <2> QED
    BY <1>5, <2>2, <2>3 DEF InputLeft, e
<1>11. c = e[Received + 1] /\ Received + 1 \in 1 .. Len(e)
  <2>1. Received + 1 \in 1 .. Len(e)
    BY <1>4, <1>7, SMT
  <2> QED
    BY <1>1, <1>7, <2>1 DEF InputLeft, e
<1>12. \A j \in 1 .. W : Bits(c, W)[j] = FilledUp(FileBits, Used + size + j)
  <2>1. (Received + 1) - 1 = Received /\ Received * W = W * Received
    BY <1>4, Sizes, SMT
  <2>2. \A j \in 1 .. W :
          Bits(e[Received + 1], W)[j] = FilledUp(FileBits, ((Received + 1) - 1) * W + j)
    BY <1>11, WordsInPlace DEF e
  <2>3. ((Received + 1) - 1) * W = Used + size
    BY <1>4, <2>1
  <2> QED
    BY <1>11, <2>2, <2>3
<1>13. \A j \in 1 .. s : Bits(buf', s)[j] = FilledUp(FileBits, Used + j)
  <2>1. /\ \A j \in 1 .. size : Bits(buf', s)[j] = Bits(buf, size)[j]
        /\ \A j \in 1 .. W : Bits(buf', s)[size + j] = Bits(c, W)[j]
    <3>1. buf \in Nat /\ W \in Nat /\ s = size + W /\ s <= IntBits
      BY <1>3, Sizes, SMT DEF Inv, TypeOK, s
    <3>2. buf' = buf * Pow2[W] + c
      BY <1>2
    <3> QED
      BY ONLY <1>3, <1>4, <3>1, <3>2, BitsJoined, SMTT(20)
  <2> TAKE j \in 1 .. s
  <2>2. CASE j \in 1 .. size
    BY <1>1, <2>1, <2>2 DEF BufferLeft
  <2>3. CASE ~(j \in 1 .. size)
    <3> DEFINE g == j - size
    <3>1. g \in 1 .. W /\ j = size + g /\ Used + size + g = Used + j
      BY <1>4, <2>3, Sizes, SMT DEF s
    <3> HIDE DEF g
    <3> QED
      BY <1>12, <2>1, <3>1
  <2> QED
    BY <2>2, <2>3
<1>14. BufferLeft'
  BY <1>2, <1>5, <1>9, <1>13 DEF BufferLeft
<1>15. Decoded'
  <2>1. PICK k \in 0 .. Len(tokens) : AtToken(k)
    BY <1>1 DEF Decoded
  <2>2. out' = out
    BY <1>2 DEF putVars
  <2>3. Spent' = Spent /\ Copied(k)' = Copied(k) /\ Source(k)' = Source(k)
    BY <1>2, <1>5, FileStays DEF Spent, Copied, Source, Place
  <2>4. AtToken(k)'
    BY <1>2, <1>5, <1>9, <2>1, <2>2, <2>3 DEF AtToken
  <2>5. tokens' = tokens
    BY <1>5
  <2> QED
    BY <2>4, <2>5 DEF Decoded
<1>16. OutIsText' /\ WindowIsText'
  BY <1>1, <1>2, NothingPut
<1>17. NoJunk'
  BY <1>1, <1>2, <1>3 DEF NoJunk, putVars
<1>18. Starved'
  BY <1>2 DEF Starved
<1> QED
  BY <1>10, <1>14, <1>15, <1>16, <1>17, <1>18 DEF InStep

\* A call begins, or a step changes nothing at all.
LEMMA NothingDecoded ==
  ASSUME InStep, UNCHANGED fileVars, UNCHANGED putVars, UNCHANGED bitVars,
         input' = input, state' = state, i' = i, left' = left, Starved'
  PROVE  InStep'
<1>1. /\ InputLeft /\ BufferLeft /\ Decoded /\ OutIsText /\ WindowIsText /\ NoJunk
  BY DEF InStep
<1>2. /\ tokens' = tokens /\ text' = text /\ Encoded(tokens)' = Encoded(tokens)
      /\ FileBits' = FileBits
      /\ BitsUpTo' = BitsUpTo /\ CharsUpTo' = CharsUpTo
      /\ buf' = buf /\ size' = size /\ out' = out
  BY FileStays DEF bitVars, putVars
<1>3. Received' = Received
  BY <1>2 DEF Received
<1>4. Used' = Used
  BY <1>2, <1>3 DEF Used
<1>5. InputLeft' /\ BufferLeft' /\ NoJunk'
  BY <1>1, <1>2, <1>3, <1>4 DEF InputLeft, BufferLeft, NoJunk
<1>6. OutIsText' /\ WindowIsText'
  BY <1>1, NothingPut
<1>7. Decoded'
  <2>1. PICK k \in 0 .. Len(tokens) : AtToken(k)
    BY <1>1 DEF Decoded
  <2>2. Spent' = Spent /\ Copied(k)' = Copied(k) /\ Source(k)' = Source(k)
    BY <1>2 DEF Spent, Copied, Source, Place
  <2>3. AtToken(k)'
    BY <1>2, <1>4, <2>1, <2>2 DEF AtToken
  <2> QED
    BY <1>2, <2>3 DEF Decoded
<1> QED
  BY <1>5, <1>6, <1>7 DEF InStep

\* The first N positions are their own places.
LEMMA SmallInRing ==
  ASSUME NEW a \in Nat, a < N
  PROVE  a % N = a
<1>1. (0 * N + a) % N = a
  BY Sizes, DivisionIsUnique
<1>2. 0 * N + a = a
  BY Sizes, SMT
<1> QED
  BY <1>1, <1>2

\* The decoder begins in step, ...
LEMMA InitInStep ==
  ASSUME Init, GoodFile, Compressed
  PROVE  InStep
<1>1. /\ running = FALSE /\ state = "FSM_0" /\ size = 0 /\ left = 0
      /\ r = N - F /\ out = <<>> /\ input = Encoded(tokens)
  BY DEF Init, DecoderBoot, GoodFile
<1>2. /\ Len(Encoded(tokens)) \in Nat /\ Len(tokens) \in Nat /\ Len(text) \in Nat
      /\ BitsUpTo[0] = 0 /\ CharsUpTo[0] = 0
  BY WordsInPlace, BitsInPlace, TokensInPlace, LenProperties DEF Compressed
<1>3. Received = 0
  BY <1>1, <1>2, SMT DEF Received
<1>4. Used = 0
  BY <1>1, <1>3, Sizes, SMT DEF Used
<1>5. InputLeft
  <2>1. \A k \in 1 .. Len(input) : Received + k = k
    BY <1>1, <1>2, <1>3, SMT
  <2> QED
    BY <1>1, <1>2, <2>1, SMT DEF InputLeft
<1>6. BufferLeft
  <2>1. \A j : j \notin 1 .. size
    BY <1>1, SMT
  <2> QED
    BY <2>1 DEF BufferLeft
<1>7. Len(out) = 0
  BY <1>1, EmptySeq
<1>8. Decoded
  <2>1. Spent = 0 /\ Copied(0) = 0 /\ 0 \in 0 .. Len(tokens) /\ 0 + 0 = 0
    BY <1>1, <1>2, SMT DEF Spent, Copied
  <2>2. AtToken(0)
    BY <1>1, <1>2, <1>4, <1>7, <2>1 DEF AtToken
  <2> QED
    BY <2>1, <2>2 DEF Decoded
<1>9. OutIsText
  BY <1>2, <1>7, SMT DEF OutIsText
<1>10. WindowIsText
  <2>1. Here = N - F /\ N - F \in Nat /\ N - F < N
    BY <1>7, Sizes, SMT DEF Here
  <2>2. r = Here % N
    BY <1>1, <2>1, SmallInRing
  <2>3. ASSUME NEW q \in Window(Here)
        PROVE  window[q % N] = History(text)[q + 1]
    <3>1. Window(Here) = Here - (N - F) .. Here - 1
      BY DEF Window
    <3>2. /\ q \in Nat /\ q < N /\ q < N - F
          /\ q \in 0 .. N - 1 /\ q + 1 \in 1 .. N - F
      BY <2>1, <3>1, Sizes, SMT
    <3>3. q % N = q
      BY <3>2, SmallInRing
    <3>4. History(text)[q + 1] = Blank
      BY <3>2, HistoryIs DEF Compressed
    <3>5. window[q] = Blank
      BY <3>2 DEF Init, DecoderBoot
    <3> QED
      BY <3>3, <3>4, <3>5
  <2> QED
    BY <2>2, <2>3 DEF WindowIsText
<1>11. NoJunk
  BY <1>1 DEF NoJunk
<1>12. Starved
  BY <1>1, SMT DEF Starved, Missing, Required
<1> QED
  BY <1>5, <1>6, <1>8, <1>9, <1>10, <1>11, <1>12 DEF InStep

LEMMA InitDecoding == Init => DecodingInv
<1> SUFFICES ASSUME Init PROVE DecodingInv
  OBVIOUS
<1>1. Inv
  BY InitInv
<1>2. ASSUME intact PROVE Compressed /\ InStep
  <2>1. GoodFile
    BY <1>2 DEF Init, BadFile
  <2>2. Compressed
    BY <2>1, DecoderAssumption DEF GoodFile, Compressed
  <2> QED
    BY <2>1, <2>2, InitInStep
<1> QED
  BY <1>1, <1>2 DEF DecodingInv

\* ... and no step takes it out of it.
LEMMA NextDecoding == DecodingInv /\ [Next]_vars => DecodingInv'
<1> SUFFICES ASSUME DecodingInv, [Next]_vars PROVE DecodingInv'
  OBVIOUS
<1>1. Inv /\ Inv'
  BY NextInv DEF DecodingInv
<1>2. UNCHANGED fileVars
  BY DEF Next, Decompress, GetWord, BufferEmpty, HandleState, Flag, PutLiteral,
         Position, Length, Copy, TakeBits, vars
<1>3. /\ intact' = intact /\ (CleanStart' <=> CleanStart)
      /\ (Compressed' <=> Compressed)
  BY <1>2, FileStays
<1>4. ASSUME intact, CleanStart PROVE InStep'
  <2>1. Inv /\ Compressed /\ CleanStart /\ InStep
    BY <1>1, <1>4 DEF DecodingInv
  <2>2. ASSUME NEW n \in 1 .. MaxBlock, Decompress(n) PROVE InStep'
    <3>1. Starved'
      BY <2>2 DEF Decompress, Starved
    <3> QED
      BY <2>1, <2>2, <3>1, NothingDecoded DEF Decompress
  <2>3. CASE GetWord
    BY <2>1, <2>3, GetWordInStep
  <2>4. CASE BufferEmpty
    <3>1. Starved'
      BY <2>4 DEF BufferEmpty, Starved, Missing, bitVars
    <3> QED
      BY <2>1, <2>4, <3>1, NothingDecoded DEF BufferEmpty
  <2>5. CASE Flag
    BY <2>1, <2>5, FlagInStep
  <2>6. CASE PutLiteral
    BY <2>1, <2>6, PutLiteralInStep
  <2>7. CASE Position
    BY <2>1, <2>7, PositionInStep
  <2>8. CASE Length
    BY <2>1, <2>8, LengthInStep
  <2>9. CASE Copy
    BY <2>1, <2>9, CopyInStep
  <2>10. CASE UNCHANGED vars
    <3>1. Starved'
      BY <2>1, <2>10 DEF vars, blockVars, bitVars, InStep, Starved, Missing
    <3> QED
      BY <2>1, <2>10, <3>1, NothingDecoded DEF vars, blockVars
  <2> QED
    BY <2>2, <2>3, <2>4, <2>5, <2>6, <2>7, <2>8, <2>9, <2>10 DEF Next, HandleState
<1> QED
  BY <1>1, <1>3, <1>4 DEF DecodingInv

\* In step, the decoder put out the text so far, ...
LEMMA DecodingIsText == DecodingInv => DecodesText
<1> SUFFICES ASSUME DecodingInv, intact, CleanStart PROVE IsPrefix(out, text)
  BY DEF DecodesText
<1>1. Inv /\ Compressed /\ OutIsText
  BY DEF DecodingInv, InStep
<1>2. /\ out \in Seq(Word) /\ text \in Seq(Word)
      /\ Len(out) \in Nat /\ Len(text) \in Nat
  BY <1>1, LenProperties DEF Inv, TypeOK, Compressed
<1>3. Len(out) <= Len(text) /\ \A k \in 1 .. Len(out) : out[k] = text[k]
  BY <1>1 DEF OutIsText
<1>4. SubSeq(text, 1, Len(out)) = [k \in 1 .. Len(out) |-> text[k]]
  <2>1. /\ Len(SubSeq(text, 1, Len(out))) = Len(out)
        /\ SubSeq(text, 1, Len(out)) \in Seq(Word)
        /\ \A k \in 1 .. Len(out) : SubSeq(text, 1, Len(out))[k] = text[k]
    BY <1>2, <1>3, SMT
  <2> QED
    BY <2>1, SMT
<1>5. out = [k \in 1 .. Len(out) |-> text[k]]
  <2>1. out = [k \in 1 .. Len(out) |-> out[k]]
    BY <1>2, LenProperties
  <2> QED
    BY <1>3, <2>1
<1> QED
  BY <1>2, <1>3, <1>4, <1>5 DEF IsPrefix

\* ... and between two calls all of the tokens that came whole.
LEMMA DecodingHoldsNothing == DecodingInv => NothingWithheld
<1> SUFFICES ASSUME DecodingInv, intact, CleanStart, ~running
             PROVE  Len(out) = Due(Received)
  BY DEF NothingWithheld
<1>1. Inv /\ Compressed /\ InStep
  BY DEF DecodingInv
<1>2. PICK k \in 0 .. Len(tokens) : AtToken(k)
  BY <1>1 DEF InStep, Decoded
<1>3. /\ k \in Nat /\ Len(tokens) \in Nat
      /\ BitsUpTo[k] \in Nat /\ CharsUpTo[k] \in Nat
  BY <1>1, TokensType
<1>4. /\ state \in {"FSM_0", "FSM_1", "FSM_2", "FSM_3"}
      /\ size < Required(state)
  <2>1. size < Required(state)
    BY <1>1 DEF InStep, Starved, Missing
  <2>2. size \in Nat
    BY <1>1, Sizes, SMT DEF Inv, TypeOK
  <2>3. state = "Copy" => Required(state) = 0
    BY DEF Required
  <2>4. state # "Copy"
    BY <2>1, <2>2, <2>3, SMT
  <2> QED
    BY <1>1, <2>1, <2>4 DEF Inv, TypeOK
<1>5. /\ Used = BitsUpTo[k] + Spent /\ Len(out) = CharsUpTo[k]
  <2>1. Copied(k) = 0
    BY <1>4 DEF Copied
  <2>2. Len(out) = CharsUpTo[k] + 0
    BY <1>2, <2>1 DEF AtToken
  <2> QED
    BY <1>2, <1>3, <2>2, SMT DEF AtToken
<1>6. /\ Spent \in Nat /\ size \in Nat /\ Used + size = W * Received
      /\ W * Received \in Nat
  <2>1. Spent \in Nat
    BY <1>4, Sizes, SMT DEF Spent
  <2>2. /\ size \in Nat /\ Used + size = W * Received /\ Received \in Nat
    BY <1>1, Counts DEF InStep
  <2>3. W * Received \in Nat
    BY <2>2, Sizes, SMT
  <2> QED
    BY <2>1, <2>2, <2>3
<1> DEFINE m == W * Received
           S == {j \in 0 .. Len(tokens) : BitsUpTo[j] <= m}
<1>7. BitsUpTo[k] <= m
  BY <1>3, <1>5, <1>6, SMT
<1>8. ASSUME k < Len(tokens) PROVE m < BitsUpTo[k + 1]
  <2>1. k \in 0 .. Len(tokens) - 1 /\ tokens[k + 1].length \in 1 .. F
    BY <1>1, <1>8, TokensType
  <2>2. /\ tokens[k + 1].length = 1 => BitsUpTo[k + 1] = BitsUpTo[k] + 1 + W
        /\ tokens[k + 1].length > 1 => BitsUpTo[k + 1] = BitsUpTo[k] + 1 + EI + EJ
    BY <1>1, <2>1, TokenInFile
  <2>3. tokens[k + 1].length = 1 \/ tokens[k + 1].length > 1
    BY <2>1, Sizes, SMT
  <2>4. /\ W \in Nat \ {0} /\ EI \in Nat \ {0} /\ EJ \in Nat \ {0}
    BY Sizes
  <2>5. m = BitsUpTo[k] + Spent + size
    BY <1>3, <1>5, <1>6, SMT
  <2>6. BitsUpTo[k] \in Nat /\ Spent \in Nat /\ size \in Nat
    BY <1>3, <1>6
  <2> HIDE DEF m
  <2>7. CASE state = "FSM_0"
    <3>1. Spent = 0 /\ size < 1
      BY <1>4, <2>7 DEF Spent, Required
    <3>2. \/ BitsUpTo[k + 1] = BitsUpTo[k] + 1 + W
          \/ BitsUpTo[k + 1] = BitsUpTo[k] + 1 + EI + EJ
      BY <2>2, <2>3
    <3> QED
      BY <2>4, <2>5, <2>6, <3>1, <3>2, SMT
  <2>8. CASE state = "FSM_1"
    <3>1. Spent = 1 /\ size < W
      BY <1>4, <2>8 DEF Spent, Required
    <3>2. BitsUpTo[k + 1] = BitsUpTo[k] + 1 + W
      BY <1>2, <1>8, <2>2, <2>8 DEF AtToken
    <3> QED
      BY <2>4, <2>5, <2>6, <3>1, <3>2, SMT
  <2>9. CASE state = "FSM_2"
    <3>1. Spent = 1 /\ size < EI
      BY <1>4, <2>9 DEF Spent, Required
    <3>2. BitsUpTo[k + 1] = BitsUpTo[k] + 1 + EI + EJ
      BY <1>2, <1>8, <2>2, <2>9 DEF AtToken
    <3> QED
      BY <2>4, <2>5, <2>6, <3>1, <3>2, SMT
  <2>10. CASE state = "FSM_3"
    <3>1. Spent = 1 + EI /\ size < EJ
      BY <1>4, <2>10 DEF Spent, Required
    <3>2. BitsUpTo[k + 1] = BitsUpTo[k] + 1 + EI + EJ
      BY <1>2, <1>8, <2>2, <2>10 DEF AtToken
    <3> QED
      BY <2>4, <2>5, <2>6, <3>1, <3>2, SMT
  <2> QED
    BY <1>4, <2>7, <2>8, <2>9, <2>10
<1>9. k \in S
  BY <1>7
<1>10. ASSUME NEW j \in S PROVE j <= k
  <2>1. SUFFICES ASSUME ~(j <= k) PROVE FALSE
    OBVIOUS
  <2>2. j \in 0 .. Len(tokens) /\ BitsUpTo[j] <= m
    OBVIOUS
  <2> HIDE DEF S, m
  <2>3. k < Len(tokens) /\ k + 1 \in 0 .. j /\ k + 1 \in 0 .. Len(tokens)
    BY <1>3, <2>1, <2>2, SMT
  <2>4. BitsUpTo[k + 1] <= BitsUpTo[j]
        /\ BitsUpTo[k + 1] \in Nat /\ BitsUpTo[j] \in Nat
    BY <1>1, <2>2, <2>3, BitsInPlace
  <2>5. m < BitsUpTo[k + 1] /\ m \in Nat
    BY <1>6, <1>8, <2>3 DEF m
  <2> QED
    BY <2>2, <2>4, <2>5, SMT
<1>11. Max(S) = k
  <2>1. S \subseteq Nat
    BY <1>3, SMT
  <2> HIDE DEF S
  <2>2. Max(S) \in S /\ \A j \in S : Max(S) >= j
    BY <1>3, <1>9, <1>10, <2>1, LargestNumber
  <2>3. Max(S) <= k /\ Max(S) >= k /\ Max(S) \in Nat
    BY <1>9, <1>10, <2>1, <2>2
  <2> DEFINE x == Max(S)
  <2> HIDE DEF x
  <2>4. x = k
    <3>1. x <= k /\ x >= k /\ x \in Nat
      BY <2>3 DEF x
    <3> QED
      BY <1>3, <3>1, SMT
  <2> QED
    BY <2>4 DEF x
<1>12. Due(Received) = CharsUpTo[k]
  BY <1>11 DEF Due
<1> QED
  BY <1>5, <1>12

(***************************************************************************)
(* For words, positions and lengths of any size and for any text, in       *)
(* whatever blocks the file is handed over and wherever in a token, or in  *)
(* a word, a block ends: what decompress() puts out is the text so far.    *)
(***************************************************************************)
THEOREM DecodesTextHolds == Spec => []DecodesText
BY InitDecoding, NextDecoding, DecodingIsText, PTL DEF Spec

(***************************************************************************)
(* Likewise: whenever decompress() returns, it put out every token that is *)
(* whole in the words that came and nothing of the next, and what fills up *)
(* the last word is not taken for a token.                                 *)
(***************************************************************************)
THEOREM NothingWithheldHolds == Spec => []NothingWithheld
BY InitDecoding, NextDecoding, DecodingHoldsNothing, PTL DEF Spec
=============================================================================
