----------------------------- MODULE CobsProofs -----------------------------
(***************************************************************************)
(* What the definitions of Cobs come to, for sequences of every length:    *)
(* the recursion of Encoding can be followed block by block, a sequence    *)
(* has one set of code positions at most, and the recursion of Decoding    *)
(* can be followed byte by byte.  CobsEncodeProofs and CobsDecodeProofs    *)
(* follow them along the loops of cobs_encode and cobs_decode.  The last   *)
(* part says what the two definitions promise each other, which is what    *)
(* the framing needs of them.                                              *)
(***************************************************************************)
EXTENDS Cobs, SequenceTheorems, WellFoundedInduction, TLAPS

\* The hypothesis of most of what follows.
CodeSize == MaxCode \in Nat /\ MaxCode >= 2

(* A non-empty set of numbers has a least element, which is what the       *)
(* inductions below rest on.                                               *)
LEMMA LeastElement ==
    ASSUME NEW T \in SUBSET Nat, T # {}
    PROVE  \E n \in T : \A m \in T : n <= m
<1> DEFINE R == {ss \in Nat \X Nat : ss[1] < ss[2]}
<1>1. IsWellFoundedOn(R, Nat)
    BY NatLessThanWellFounded DEF OpToRel
<1>2. PICK n \in T : \A m \in T : ~ (<<m, n>> \in R)
  <2> HIDE DEF R
  <2> QED BY <1>1, WFMin
<1>3. ASSUME NEW m \in T PROVE n <= m
  <2>1. m \in Nat /\ n \in Nat
        OBVIOUS
  <2>2. ~ (m < n)
        <3> SUFFICES ASSUME m < n PROVE <<m, n>> \in R
            BY <1>2
        <3> QED BY <2>1
  <2> QED BY <2>1, <2>2
<1> QED BY <1>3

(* A set with 0 and with the successors of its numbers holds all numbers.  *)
LEMMA SetInduction ==
    ASSUME NEW S, 0 \in S, \A n \in Nat : n \in S => n + 1 \in S
    PROVE  \A n \in Nat : n \in S
<1> SUFFICES ASSUME NEW k \in Nat, k \notin S PROVE FALSE
    OBVIOUS
<1> DEFINE T == Nat \ S
<1>1. PICK n \in T : \A m \in T : n <= m
  <2>1. T \in SUBSET Nat /\ T # {}
        OBVIOUS
  <2> HIDE DEF T
  <2> QED BY <2>1, LeastElement
<1>2. n # 0 /\ n - 1 \in Nat
    OBVIOUS
<1>3. n - 1 \notin T
    BY <1>1, <1>2
<1> QED BY <1>2, <1>3

-----------------------------------------------------------------------------
\* What RunLength chooses.
IsRun(s, k, n) ==
    /\ k + n <= Len(s)
    /\ \A j \in 1 .. n : s[k + j] # 0
    /\ n = MaxCode - 1 \/ k + n = Len(s) \/ s[k + n + 1] = 0

(* There is a run at every position.                                       *)
LEMMA RunExists ==
    ASSUME CodeSize, NEW s, Len(s) \in Nat, NEW k \in 0 .. Len(s)
    PROVE  \E n \in 0 .. MaxCode - 1 : IsRun(s, k, n)
<1> DEFINE Stops(n) == n = MaxCode - 1 \/ k + n = Len(s) \/ s[k + n + 1] = 0
           T == {n \in Nat : Stops(n)}
<1>1. T \in SUBSET Nat /\ MaxCode - 1 \in T
    BY DEF CodeSize
<1>2. PICK n \in T : \A m \in T : n <= m
  <2> HIDE DEF T
  <2> QED BY <1>1, LeastElement
<1>3. n \in 0 .. MaxCode - 1 /\ Stops(n)
    BY <1>1, <1>2 DEF CodeSize
<1>4. \A m \in Nat : m < n => ~Stops(m)
    BY <1>2
<1>5. k + n <= Len(s)
  <2> SUFFICES ASSUME k + n > Len(s) PROVE FALSE
      BY <1>3
  <2>1. Len(s) - k \in Nat /\ Len(s) - k < n /\ k + (Len(s) - k) = Len(s)
      BY <1>3
  <2> QED BY <1>4, <2>1
<1>6. ASSUME NEW j \in 1 .. n PROVE s[k + j] # 0
  <2>1. j - 1 \in Nat /\ j - 1 < n /\ k + (j - 1) + 1 = k + j
      BY <1>3
  <2> QED BY <1>4, <2>1
<1> QED BY <1>3, <1>5, <1>6 DEF IsRun

(* And only one.                                                           *)
LEMMA RunUnique ==
    ASSUME CodeSize, NEW s, Len(s) \in Nat, NEW k \in 0 .. Len(s),
           NEW n \in 0 .. MaxCode - 1, NEW m \in 0 .. MaxCode - 1,
           IsRun(s, k, n), IsRun(s, k, m)
    PROVE  ~ (n < m)
<1> SUFFICES ASSUME n < m PROVE FALSE
    OBVIOUS
<1>1. n # MaxCode - 1 /\ k + n # Len(s) /\ n + 1 \in 1 .. m /\ k + (n + 1) = k + n + 1
    BY DEF IsRun, CodeSize
<1>2. s[k + n + 1] = 0
    BY <1>1 DEF IsRun
<1>3. s[k + (n + 1)] # 0
    BY <1>1 DEF IsRun
<1> QED BY <1>1, <1>2, <1>3

(* So a run is what RunLength gives.                                       *)
LEMMA RunIs ==
    ASSUME CodeSize, NEW s, Len(s) \in Nat, NEW k \in 0 .. Len(s)
    PROVE  /\ RunLength(s, k) \in 0 .. MaxCode - 1
           /\ IsRun(s, k, RunLength(s, k))
           /\ \A n \in 0 .. MaxCode - 1 : IsRun(s, k, n) => RunLength(s, k) = n
<1>1. /\ RunLength(s, k) \in 0 .. MaxCode - 1
      /\ IsRun(s, k, RunLength(s, k))
    BY RunExists DEF RunLength, IsRun
<1>2. ASSUME NEW n \in 0 .. MaxCode - 1, IsRun(s, k, n) PROVE RunLength(s, k) = n
  <2> PICK m \in 0 .. MaxCode - 1 : m = RunLength(s, k)
      BY <1>1
  <2>1. ~ (n < m) /\ ~ (m < n)
      BY <1>1, <1>2, RunUnique
  <2>2. n \in Nat /\ m \in Nat
      BY DEF CodeSize
  <2> QED BY <2>1, <2>2
<1> QED BY <1>1, <1>2

-----------------------------------------------------------------------------
\* The block that Encoding makes at position k, and where it goes on.
BlockAt(s, k) == <<RunLength(s, k) + 1>> \o SubSeq(s, k + 1, k + RunLength(s, k))
After(s, k) ==
    IF RunLength(s, k) = MaxCode - 1 THEN k + RunLength(s, k) ELSE k + RunLength(s, k) + 1
Rest(s, k, f) == IF k + RunLength(s, k) = Len(s) THEN <<>> ELSE f[After(s, k)]

\* A function that satisfies the recursion of Encoding.
Encodes(s, f) == f = [k \in 0 .. Len(s) |-> BlockAt(s, k) \o Rest(s, k, f)]

(* The recursion goes on further to the right.                             *)
LEMMA GoesRight ==
    ASSUME CodeSize, NEW s, Len(s) \in Nat, NEW k \in 0 .. Len(s),
           k + RunLength(s, k) # Len(s)
    PROVE  After(s, k) \in k + 1 .. Len(s)
<1> PICK n \in 0 .. MaxCode - 1 : n = RunLength(s, k) /\ k + n <= Len(s)
    BY RunIs DEF IsRun
<1> QED BY DEF After, CodeSize

(* So there is such a function.                                            *)
LEMMA EncodesExists ==
    ASSUME CodeSize, NEW s, Len(s) \in Nat
    PROVE  \E f : Encodes(s, f)
<1> PICK N \in Nat : N = Len(s)
    OBVIOUS
<1> DEFINE Good(f, m) == \A k \in 0 .. N : N - k <= m => f[k] = BlockAt(s, k) \o Rest(s, k, f)
           S == {m \in Nat : \E f : f = [k \in 0 .. N |-> f[k]] /\ Good(f, m)}
<1>1. 0 \in S
  <2> DEFINE f == [k \in 0 .. N |-> BlockAt(s, k) \o <<>>]
  <2>1. ASSUME NEW k \in 0 .. N, N - k <= 0 PROVE f[k] = BlockAt(s, k) \o Rest(s, k, f)
    <3>1. k = N
        BY <2>1
    <3>2. k + RunLength(s, k) = N
      <4> PICK n \in 0 .. MaxCode - 1 : n = RunLength(s, k) /\ k + n <= N
          BY RunIs DEF IsRun
      <4> QED BY <3>1
    <3> QED BY <3>2 DEF Rest
  <2>2. f = [k \in 0 .. N |-> f[k]]
      OBVIOUS
  <2> QED BY <2>1, <2>2
<1>2. ASSUME NEW m \in Nat, m \in S PROVE m + 1 \in S
  <2>1. PICK f : f = [k \in 0 .. N |-> f[k]] /\ Good(f, m)
      BY <1>2
  <2> DEFINE g == [k \in 0 .. N |-> IF N - k <= m THEN f[k] ELSE BlockAt(s, k) \o Rest(s, k, f)]
  <2>2. ASSUME NEW k \in 0 .. N, N - k <= m + 1 PROVE Rest(s, k, g) = Rest(s, k, f)
    <3>1. CASE k + RunLength(s, k) = N
        BY <3>1 DEF Rest
    <3>2. CASE k + RunLength(s, k) # N
      <4> PICK j \in k + 1 .. N : j = After(s, k)
          BY <3>2, GoesRight
      <4>1. j \in 0 .. N /\ N - j <= m
          BY <2>2
      <4>2. g[j] = f[j]
          BY <4>1
      <4> HIDE DEF g
      <4> QED BY <3>2, <4>2 DEF Rest
    <3> QED BY <3>1, <3>2
  <2>3. ASSUME NEW k \in 0 .. N, N - k <= m + 1 PROVE g[k] = BlockAt(s, k) \o Rest(s, k, g)
    <3>1. g[k] = BlockAt(s, k) \o Rest(s, k, f)
      <4>1. CASE N - k <= m
          BY <2>1, <4>1
      <4>2. CASE ~ (N - k <= m)
          BY <4>2
      <4> QED BY <4>1, <4>2
    <3> HIDE DEF g
    <3> QED BY <2>2, <2>3, <3>1
  <2>4. g = [k \in 0 .. N |-> g[k]]
      OBVIOUS
  <2> HIDE DEF g
  <2>5. Good(g, m + 1)
      BY <2>3
  <2> HIDE DEF Good
  <2> QED BY <2>4, <2>5
<1>3. N \in S
  <2> HIDE DEF S
  <2> QED BY <1>1, <1>2, SetInduction
<1>4. PICK f : f = [k \in 0 .. N |-> f[k]] /\ Good(f, N)
    BY <1>3
<1>5. ASSUME NEW k \in 0 .. N PROVE f[k] = BlockAt(s, k) \o Rest(s, k, f)
  <2>1. N - k <= N
      OBVIOUS
  <2> QED BY <1>4, <2>1
<1>6. f = [k \in 0 .. N |-> BlockAt(s, k) \o Rest(s, k, f)]
    BY <1>4, <1>5
<1> QED BY <1>6 DEF Encodes

(* Encoding is the first value of such a function.                         *)
LEMMA EncodingFollowed ==
    ASSUME CodeSize, NEW s, Len(s) \in Nat
    PROVE  \E f : Encodes(s, f) /\ Encoding(s) = f[0]
<1> DEFINE f == CHOOSE f : Encodes(s, f)
<1>1. Encodes(s, f)
    BY EncodesExists
<1>2. Encoding(s) = f[0]
    BY DEF Encoding, Encodes, BlockAt, Rest, After
<1> QED BY <1>1, <1>2

(* A block is its code byte and its run.                                   *)
LEMMA BlockShape ==
    ASSUME CodeSize, NEW s \in Seq(Nat), NEW k \in 0 .. Len(s),
           NEW n \in Nat, n = RunLength(s, k)
    PROVE  /\ BlockAt(s, k) \in Seq(Nat) /\ Len(BlockAt(s, k)) = n + 1
           /\ BlockAt(s, k)[1] = n + 1
           /\ \A j \in 1 .. n : BlockAt(s, k)[j + 1] = s[k + j]
<1>1. k + n <= Len(s)
    BY RunIs DEF IsRun
<1> DEFINE run == SubSeq(s, k + 1, k + n)
<1>2. /\ run \in Seq(Nat) /\ Len(run) = n
      /\ \A j \in 1 .. n : run[j] = s[k + j]
  <2>1. k + 1 \in 1 .. Len(s) + 1 /\ k + n \in k .. Len(s) /\ Len(s) \in Nat
      BY <1>1
  <2>2. run = [j \in 1 .. n |-> s[k + j]]
      BY <2>1
  <2>3. \A j \in 1 .. n : s[k + j] \in Nat
      BY <2>1
  <2>4. run \in [1 .. n -> Nat]
      BY <2>2, <2>3
  <2>5. run \in Seq(Nat) /\ Len(run) = n
    <3> HIDE DEF run
    <3>1. \A m \in Nat : [1 .. m -> Nat] \subseteq Seq(Nat)
        OBVIOUS
    <3>2. run \in Seq(Nat) /\ DOMAIN run = 1 .. n
        BY <2>4, <3>1
    <3> QED BY <3>2
  <2> QED BY <2>2, <2>5
<1> HIDE DEF run
<1>3. BlockAt(s, k) = <<n + 1>> \o run
    BY DEF BlockAt, run
<1>4. <<n + 1>> \in Seq(Nat) /\ Len(<<n + 1>>) = 1 /\ <<n + 1>>[1] = n + 1
    OBVIOUS
<1>5. BlockAt(s, k) \in Seq(Nat) /\ Len(BlockAt(s, k)) = n + 1
    BY <1>2, <1>3, <1>4
<1>6. BlockAt(s, k)[1] = n + 1
    BY <1>2, <1>3, <1>4
<1>7. ASSUME NEW j \in 1 .. n PROVE BlockAt(s, k)[j + 1] = s[k + j]
  <2>1. j + 1 \in 1 .. n + 1 /\ j + 1 > 1 /\ (j + 1) - 1 = j
      OBVIOUS
  <2> QED BY <1>2, <1>3, <1>4, <2>1
<1> QED BY <1>5, <1>6, <1>7

(* The values of that function are sequences.                              *)
LEMMA EncodesSeqs ==
    ASSUME CodeSize, NEW s \in Seq(Nat), NEW f, Encodes(s, f)
    PROVE  \A k \in 0 .. Len(s) : f[k] \in Seq(Nat)
<1> PICK N \in Nat : N = Len(s)
    OBVIOUS
<1> DEFINE S == {m \in Nat : \A k \in 0 .. N : N - k <= m => f[k] \in Seq(Nat)}
<1>0. \A k \in 0 .. N : f[k] = BlockAt(s, k) \o Rest(s, k, f)
    BY DEF Encodes
<1>1. ASSUME NEW m \in Nat, NEW k \in 0 .. N, N - k <= m,
             \A j \in 0 .. N : N - j < m => f[j] \in Seq(Nat)
      PROVE  f[k] \in Seq(Nat)
  <2> PICK n \in Nat : n = RunLength(s, k)
      BY RunIs DEF CodeSize
  <2>1. BlockAt(s, k) \in Seq(Nat)
      BY BlockShape
  <2>2. Rest(s, k, f) \in Seq(Nat)
    <3>1. CASE k + n = N
        BY <3>1 DEF Rest
    <3>2. CASE k + n # N
      <4> PICK j \in k + 1 .. N : j = After(s, k)
          BY <3>2, GoesRight
      <4>1. j \in 0 .. N /\ N - j < m
          BY <1>1
      <4> QED BY <1>1, <3>2, <4>1 DEF Rest
    <3> QED BY <3>1, <3>2
  <2>3. BlockAt(s, k) \o Rest(s, k, f) \in Seq(Nat)
      BY <2>1, <2>2
  <2>4. f[k] = BlockAt(s, k) \o Rest(s, k, f)
      BY <1>0
  <2> QED BY <2>3, <2>4
<1>2. 0 \in S
  <2>1. ASSUME NEW k \in 0 .. N, N - k <= 0 PROVE f[k] \in Seq(Nat)
    <3>1. \A j \in 0 .. N : ~ (N - j < 0)
        OBVIOUS
    <3> QED BY <1>1, <2>1, <3>1
  <2> QED BY <2>1
<1>3. ASSUME NEW m \in Nat, m \in S PROVE m + 1 \in S
  <2>1. \A j \in 0 .. N : N - j < m + 1 => f[j] \in Seq(Nat)
      BY <1>3
  <2>2. m + 1 \in Nat
      OBVIOUS
  <2>3. \A k \in 0 .. N : N - k <= m + 1 => f[k] \in Seq(Nat)
      BY <1>1, <2>1, <2>2
  <2> QED BY <2>2, <2>3
<1>4. N \in S
  <2> HIDE DEF S
  <2> QED BY <1>2, <1>3, SetInduction
<1>5. \A k \in 0 .. N : N - k <= N
    OBVIOUS
<1> QED BY <1>4, <1>5

-----------------------------------------------------------------------------
(* A sequence has one set of code positions: of two, each contains the     *)
(* other.                                                                  *)
LEMMA PositionsInside ==
    ASSUME NEW r \in Seq(Nat), NEW P \in SUBSET (1 .. Len(r)), NEW Q \in SUBSET (1 .. Len(r)),
           IsCodePosition(r, P), IsCodePosition(r, Q)
    PROVE  P \subseteq Q
<1> SUFFICES ASSUME P \ Q # {} PROVE FALSE
    OBVIOUS
<1> DEFINE T == P \ Q
<1>1. T \in SUBSET Nat /\ T # {}
    OBVIOUS
<1>2. PICK p \in T : \A m \in T : p <= m
  <2> HIDE DEF T
  <2> QED BY <1>1, LeastElement
<1>3. p \in P /\ p \notin Q /\ p # 1 /\ p \in 1 .. Len(r)
    BY DEF IsCodePosition
<1>4. PICK q \in P : q + r[q] = p
    BY <1>3 DEF IsCodePosition
<1>5. r[q] \in Nat /\ r[q] # 0 /\ q \in Nat
    BY DEF IsCodePosition
<1>6. q < p
    BY <1>3, <1>4, <1>5
<1>7. q \in Q
    BY <1>2, <1>3, <1>5, <1>6
<1>8. p \in Q \/ p = Len(r) + 1
    BY <1>4, <1>7 DEF IsCodePosition
<1> QED BY <1>3, <1>8

LEMMA PositionsUnique ==
    ASSUME NEW r \in Seq(Nat), NEW P \in SUBSET (1 .. Len(r)), NEW Q \in SUBSET (1 .. Len(r)),
           IsCodePosition(r, P), IsCodePosition(r, Q)
    PROVE  P = Q
BY PositionsInside

\* P holds the code positions of the blocks of r before position e.
Chain(r, P, e) ==
    /\ e \in Nat \ {0} /\ P \subseteq 1 .. e - 1
    /\ 1 \in P \/ e = 1
    /\ \A p \in P : r[p] \in Nat \ {0} /\ (p + r[p] \in P \/ p + r[p] = e)
    /\ \A p \in P \ {1} : \E q \in P : q + r[q] = p
    /\ e # 1 => \E q \in P : q + r[q] = e

(* There is nothing before the first block.                                *)
LEMMA ChainBegins == \A r : Chain(r, {}, 1)
BY DEF Chain

(* One more block.                                                         *)
LEMMA ChainGrows ==
    ASSUME NEW r, NEW P, NEW e, Chain(r, P, e), r[e] \in Nat \ {0}
    PROVE  /\ Chain(r, P \cup {e}, e + r[e])
           /\ \A q \in P : q < e /\ q + r[q] <= e
<1> PICK c \in Nat \ {0} : c = r[e]
    OBVIOUS
<1>1. e \in Nat \ {0} /\ P \subseteq 1 .. e - 1
    BY DEF Chain
<1>2. e + c \in Nat \ {0} /\ P \cup {e} \subseteq 1 .. (e + c) - 1
    BY <1>1
<1>3. 1 \in P \cup {e}
    BY DEF Chain
<1>4. \A p \in P : r[p] \in Nat \ {0} /\ p + r[p] \in P \cup {e}
    BY DEF Chain
<1>5. \A p \in (P \cup {e}) \ {1} : \E q \in P : q + r[q] = p
    BY DEF Chain
<1>6. \E q \in P \cup {e} : q + r[q] = e + c
    OBVIOUS
<1>7. Chain(r, P \cup {e}, e + c)
  <2>1. \A p \in P \cup {e} : r[p] \in Nat \ {0} /\ (p + r[p] \in P \cup {e} \/ p + r[p] = e + c)
      BY <1>4
  <2>2. \A p \in (P \cup {e}) \ {1} : \E q \in P \cup {e} : q + r[q] = p
      BY <1>5
  <2> QED BY <1>2, <1>3, <1>6, <2>1, <2>2 DEF Chain
<1>8. \A q \in P : q < e /\ q + r[q] <= e
    BY <1>1, <1>4
<1> QED BY <1>7, <1>8

(* A chain up to the end holds the code positions of the whole sequence.   *)
LEMMA ChainEnds ==
    ASSUME NEW r \in Seq(Nat), r # <<>>, NEW P, Chain(r, P, Len(r) + 1)
    PROVE  P \in SUBSET (1 .. Len(r)) /\ IsCodePosition(r, P)
<1>1. Len(r) \in Nat /\ Len(r) # 0 /\ (Len(r) + 1) - 1 = Len(r)
    OBVIOUS
<1>2. P \subseteq 1 .. Len(r) /\ 1 \in P
    BY <1>1 DEF Chain
<1> QED BY <1>2 DEF Chain, IsCodePosition

-----------------------------------------------------------------------------
\* What byte k of r adds to the decoding, if P holds the code positions up to k.
Piece(r, P, k) ==
    IF k \notin P THEN <<r[k]>>
    ELSE IF k - MaxCode \in P /\ r[k - MaxCode] = MaxCode THEN <<>>
    ELSE <<0>>

\* A function that satisfies the recursion of Decoding, as far as n.
Decodes(r, P, n, f) ==
    f = [k \in 1 .. n |-> IF k = 1 THEN <<>> ELSE f[k - 1] \o Piece(r, P, k)]

\* The same, byte by byte.
OnBytes(f, n) == f = [k \in 1 .. n |-> f[k]]
Steps(r, P, n, f) ==
    \A k \in Nat : 1 <= k /\ k < n => f[k + 1] = f[k] \o Piece(r, P, k + 1)

\* The first n bytes of r decode to t.
StandFor(r, P, n, t) == \E f : Decodes(r, P, n, f) /\ f[n] = t

(* The first code byte stands for nothing.                                 *)
LEMMA FirstStandsForNothing == \A r, P : StandFor(r, P, 1, <<>>)
<1> TAKE r, P
<1> DEFINE f == [k \in 1 .. 1 |-> <<>>]
<1>1. f = [k \in 1 .. 1 |-> IF k = 1 THEN <<>> ELSE f[k - 1] \o Piece(r, P, k)]
    OBVIOUS
<1>2. f[1] = <<>>
    OBVIOUS
<1> HIDE DEF f
<1> QED BY <1>1, <1>2 DEF StandFor, Decodes

(* Such a function, one argument at a time.                                *)
LEMMA DecodesSteps ==
    ASSUME NEW r, NEW P, NEW n \in Nat, NEW f, Decodes(r, P, n, f)
    PROVE  /\ OnBytes(f, n)
           /\ 1 <= n => f[1] = <<>>
           /\ Steps(r, P, n, f)
<1> DEFINE g == [k \in 1 .. n |-> IF k = 1 THEN <<>> ELSE f[k - 1] \o Piece(r, P, k)]
<1>1. f = g
    BY DEF Decodes
<1>2. OnBytes(g, n) /\ (1 <= n => g[1] = <<>>)
    BY DEF OnBytes
<1>3. ASSUME NEW k \in Nat, 1 <= k, k < n PROVE g[k + 1] = f[k] \o Piece(r, P, k + 1)
  <2>1. k + 1 \in 1 .. n /\ k + 1 # 1 /\ (k + 1) - 1 = k
      BY <1>3
  <2> QED BY <2>1
<1> HIDE DEF g
<1> QED BY <1>1, <1>2, <1>3 DEF Steps

(* And the other way round.                                                *)
LEMMA StepsDecode ==
    ASSUME NEW r, NEW P, NEW n \in Nat, NEW f,
           OnBytes(f, n), f[1] = <<>>, Steps(r, P, n, f)
    PROVE  Decodes(r, P, n, f)
<1>1. ASSUME NEW k \in 1 .. n PROVE f[k] = IF k = 1 THEN <<>> ELSE f[k - 1] \o Piece(r, P, k)
  <2>1. CASE k = 1
      BY <2>1
  <2>2. CASE k # 1
    <3>1. k - 1 \in Nat /\ 1 <= k - 1 /\ k - 1 < n /\ (k - 1) + 1 = k
        BY <2>2
    <3>2. f[(k - 1) + 1] = f[k - 1] \o Piece(r, P, (k - 1) + 1)
        BY <3>1 DEF Steps
    <3> QED BY <2>2, <3>1, <3>2
  <2> QED BY <2>1, <2>2
<1> QED BY <1>1 DEF Decodes, OnBytes

(* The next byte adds its piece.                                           *)
LEMMA OneMorePiece ==
    ASSUME NEW r, NEW P, NEW n \in Nat, 1 <= n, NEW t, StandFor(r, P, n, t)
    PROVE  StandFor(r, P, n + 1, t \o Piece(r, P, n + 1))
<1> PICK f : Decodes(r, P, n, f) /\ f[n] = t
    BY DEF StandFor
<1> PICK last : last = t \o Piece(r, P, n + 1)
    OBVIOUS
<1>1. f[1] = <<>> /\ Steps(r, P, n, f)
    BY DecodesSteps
<1> DEFINE g == [k \in 1 .. n + 1 |-> IF k <= n THEN f[k] ELSE last]
<1>2. OnBytes(g, n + 1) /\ g[1] = <<>> /\ g[n + 1] = last
    BY <1>1 DEF OnBytes
<1>3. ASSUME NEW k \in Nat, 1 <= k, k < n + 1 PROVE g[k + 1] = g[k] \o Piece(r, P, k + 1)
  <2>1. CASE k < n
    <3>1. g[k] = f[k] /\ g[k + 1] = f[k + 1]
        BY <1>3, <2>1
    <3>2. f[k + 1] = f[k] \o Piece(r, P, k + 1)
        BY <1>1, <1>3, <2>1 DEF Steps
    <3> QED BY <3>1, <3>2
  <2>2. CASE k = n
    <3>1. g[k] = t /\ g[k + 1] = last
        BY <1>3, <2>2
    <3> QED BY <2>2, <3>1
  <2>3. k < n \/ k = n
      BY <1>3
  <2> QED BY <2>1, <2>2, <2>3
<1> HIDE DEF g
<1>4. Decodes(r, P, n + 1, g)
  <2> PICK m \in Nat : m = n + 1
      OBVIOUS
  <2>1. OnBytes(g, m) /\ g[1] = <<>>
      BY <1>2
  <2>2. Steps(r, P, m, g)
      BY <1>3 DEF Steps
  <2>3. Decodes(r, P, m, g)
      BY <2>1, <2>2, StepsDecode
  <2> QED BY <2>3
<1> QED BY <1>2, <1>4 DEF StandFor

(* The decoding of the first n bytes depends on those bytes and on their   *)
(* code positions; not on the last byte, if it is a code byte.             *)
LEMMA SameStart ==
    ASSUME CodeSize, NEW n \in Nat, 1 <= n, NEW t, NEW r, NEW P, StandFor(r, P, n, t),
           NEW u, NEW Q, P \subseteq Nat \ {0}, Q \subseteq Nat \ {0},
           \A k \in 1 .. n : k \in P <=> k \in Q,
           \A k \in 1 .. n : r[k] = u[k] \/ (k = n /\ n \in P)
    PROVE  StandFor(u, Q, n, t)
<1> PICK f : Decodes(r, P, n, f) /\ f[n] = t
    BY DEF StandFor
<1>1. ASSUME NEW k \in 1 .. n PROVE Piece(r, P, k) = Piece(u, Q, k)
  <2>1. CASE k \notin P
      BY <2>1 DEF Piece
  <2>2. CASE k \in P
    <3> PICK q \in Int : q = k - MaxCode /\ q < k /\ q < n
        BY DEF CodeSize
    <3>1. q \in P => q \in 1 .. n /\ r[q] = u[q] /\ q \in Q
        OBVIOUS
    <3>2. q \in Q => q \in 1 .. n /\ r[q] = u[q] /\ q \in P
        OBVIOUS
    <3> QED BY <2>2, <3>1, <3>2 DEF Piece
  <2> QED BY <2>1, <2>2
<1>2. OnBytes(f, n) /\ f[1] = <<>>
    BY DecodesSteps
<1>5. Steps(r, P, n, f)
    BY DecodesSteps
<1>3. ASSUME NEW k \in Nat, 1 <= k, k < n PROVE f[k + 1] = f[k] \o Piece(u, Q, k + 1)
  <2>1. k + 1 \in 1 .. n
      BY <1>3
  <2>2. f[k + 1] = f[k] \o Piece(r, P, k + 1)
      BY <1>3, <1>5 DEF Steps
  <2> QED BY <1>1, <2>1, <2>2
<1>6. Steps(u, Q, n, f)
    BY <1>3 DEF Steps
<1>4. Decodes(u, Q, n, f)
    BY <1>2, <1>6, StepsDecode
<1> QED BY <1>4 DEF StandFor

(* Two such functions have the same values.                                *)
LEMMA DecodesUnique ==
    ASSUME NEW r, NEW P, NEW n \in Nat, NEW f, NEW g, Decodes(r, P, n, f), Decodes(r, P, n, g)
    PROVE  \A k \in 1 .. n : f[k] = g[k]
<1> DEFINE S == {k \in Nat : 1 <= k /\ k <= n => f[k] = g[k]}
<1>0. Steps(r, P, n, f) /\ Steps(r, P, n, g)
    BY DecodesSteps
<1>1. 0 \in S
    OBVIOUS
<1>2. ASSUME NEW k \in Nat, k \in S PROVE k + 1 \in S
  <2> SUFFICES ASSUME k + 1 <= n PROVE f[k + 1] = g[k + 1]
      OBVIOUS
  <2>1. CASE k = 0
    <3>1. k + 1 = 1 /\ 1 <= n
        BY <2>1
    <3>2. f[1] = <<>>
        BY <3>1, DecodesSteps
    <3>3. g[1] = <<>>
        BY <3>1, DecodesSteps
    <3> QED BY <3>1, <3>2, <3>3
  <2>2. CASE k # 0
    <3>1. 1 <= k /\ k < n /\ f[k] = g[k]
        BY <1>2, <2>2
    <3>2. f[k + 1] = f[k] \o Piece(r, P, k + 1)
        BY <1>0, <3>1 DEF Steps
    <3>3. g[k + 1] = g[k] \o Piece(r, P, k + 1)
        BY <1>0, <3>1 DEF Steps
    <3> QED BY <3>1, <3>2, <3>3
  <2> QED BY <2>1, <2>2
<1>3. \A k \in Nat : k \in S
  <2> HIDE DEF S
  <2> QED BY <1>1, <1>2, SetInduction
<1> QED BY <1>3

(* What all of a sequence of whole blocks stands for is its decoding.      *)
LEMMA DecodingFollowed ==
    ASSUME CodeSize, NEW r \in Seq(Nat), r # <<>>, NEW P, Chain(r, P, Len(r) + 1),
           NEW t, StandFor(r, P, Len(r), t)
    PROVE  Decodable(r) /\ Decoding(r) = t
<1>1. P \in SUBSET (1 .. Len(r)) /\ IsCodePosition(r, P)
    BY ChainEnds
<1>2. Decodable(r)
    BY <1>1 DEF Decodable, CodePositions
<1>3. P = CHOOSE Q \in SUBSET (1 .. Len(r)) : IsCodePosition(r, Q)
    BY <1>1, PositionsUnique
<1> DEFINE AfterFull(p) == \E q \in P : q + r[q] = p /\ r[q] = MaxCode
           step(f) == [k \in 1 .. Len(r) |->
                          IF k = 1 THEN <<>>
                          ELSE f[k - 1] \o (IF k \notin P THEN <<r[k]>>
                                            ELSE IF AfterFull(k) THEN <<>> ELSE <<0>>)]
<1>4. ASSUME NEW k \in 1 .. Len(r)
      PROVE  Piece(r, P, k) = IF k \notin P THEN <<r[k]>> ELSE IF AfterFull(k) THEN <<>> ELSE <<0>>
  <2>1. AfterFull(k) <=> k - MaxCode \in P /\ r[k - MaxCode] = MaxCode
    <3>1. \A q \in P : q \in Nat
        BY <1>1
    <3>2. ASSUME NEW q \in P, q + r[q] = k, r[q] = MaxCode PROVE k - MaxCode = q
        BY <3>1, <3>2 DEF CodeSize
    <3>3. ASSUME NEW q, q = k - MaxCode, q \in P, r[q] = MaxCode PROVE q + r[q] = k
        BY <3>1, <3>3 DEF CodeSize
    <3> QED BY <3>2, <3>3
  <2> HIDE DEF AfterFull
  <2> QED BY <2>1 DEF Piece
<1>5. \A f : Decodes(r, P, Len(r), f) <=> f = step(f)
  <2> TAKE f
  <2>1. step(f) = [k \in 1 .. Len(r) |-> IF k = 1 THEN <<>> ELSE f[k - 1] \o Piece(r, P, k)]
    <3> HIDE DEF AfterFull
    <3> QED BY <1>4
  <2> HIDE DEF step
  <2> QED BY <2>1 DEF Decodes
<1>6. PICK g : Decodes(r, P, Len(r), g) /\ g[Len(r)] = t
    BY DEF StandFor
<1> DEFINE f == CHOOSE f : f = step(f)
<1>7. Decodes(r, P, Len(r), f)
  <2> HIDE DEF step
  <2> QED BY <1>5, <1>6
<1>8. f[Len(r)] = t
  <2> HIDE DEF f, step
  <2> PICK n \in Nat : n = Len(r) /\ n \in 1 .. n
      OBVIOUS
  <2>1. Decodes(r, P, n, f) /\ Decodes(r, P, n, g) /\ g[n] = t
      BY <1>6, <1>7
  <2>2. \A k \in 1 .. n : f[k] = g[k]
      BY <2>1, DecodesUnique
  <2> QED BY <2>1, <2>2
<1>9. Decoding(r) = f[Len(r)]
    BY <1>3 DEF Decoding
<1> QED BY <1>2, <1>8, <1>9

-----------------------------------------------------------------------------
(* Sequences of the same bytes are the same.                               *)
LEMMA SameElements ==
    ASSUME NEW a \in Seq(Nat), NEW b \in Seq(Nat), Len(a) = Len(b),
           \A j \in 1 .. Len(a) : a[j] = b[j]
    PROVE  a = b
OBVIOUS

(* One more byte of a sequence.                                            *)
LEMMA OneMoreByte ==
    ASSUME NEW s \in Seq(Nat), NEW k \in Nat, k < Len(s)
    PROVE  SubSeq(s, 1, k) \o <<s[k + 1]>> = SubSeq(s, 1, k + 1)
<1>1. SubSeq(s, 1, k) \in Seq(Nat) /\ Len(SubSeq(s, 1, k)) = k /\ s[k + 1] \in Nat
    OBVIOUS
<1>2. SubSeq(s, 1, k + 1) \in Seq(Nat) /\ Len(SubSeq(s, 1, k + 1)) = k + 1
    OBVIOUS
<1>3. \A j \in 1 .. k : SubSeq(s, 1, k)[j] = s[j]
    OBVIOUS
<1>4. \A j \in 1 .. k + 1 : SubSeq(s, 1, k + 1)[j] = s[j]
    OBVIOUS
<1> DEFINE a == SubSeq(s, 1, k)
           b == SubSeq(s, 1, k + 1)
<1> HIDE DEF a, b
<1>5. Len(a \o <<s[k + 1]>>) = k + 1 /\ a \o <<s[k + 1]>> \in Seq(Nat)
    BY <1>1 DEF a
<1>6. \A j \in 1 .. k + 1 : (a \o <<s[k + 1]>>)[j] = s[j]
    BY <1>1, <1>3 DEF a
<1>7. a \o <<s[k + 1]>> = b
  <2> PICK d \in Seq(Nat) : d = a \o <<s[k + 1]>>
      BY <1>5
  <2>1. Len(d) = k + 1 /\ \A j \in 1 .. k + 1 : d[j] = s[j]
      BY <1>5, <1>6
  <2>2. b \in Seq(Nat) /\ Len(b) = k + 1 /\ \A j \in 1 .. k + 1 : b[j] = s[j]
      BY <1>2, <1>4 DEF b
  <2>3. d = b
      BY <2>1, <2>2, SameElements
  <2> QED BY <2>3
<1> QED BY <1>7 DEF a, b

(* The start of a sequence is one.                                         *)
LEMMA StartIsSequence ==
    ASSUME NEW s \in Seq(Nat), NEW k \in 0 .. Len(s)
    PROVE  SubSeq(s, 1, k) \in Seq(Nat)
OBVIOUS

(* The block for bytes start + 1 to start + c of s, written to r at e.     *)
Wrote(s, start, c, r, e) ==
    r[e] = c + 1 /\ \A j \in 1 .. c : r[e + j] = s[start + j]

\* The blocks of u up to the one at e stand for the first bytes of s.
ReadBack(s, start, c, u, P, e) ==
    /\ Chain(u, P \cup {e}, e + (c + 1))
    /\ \A q \in P : q < e /\ q + u[q] <= e
    /\ StandFor(u, P \cup {e}, e + c, SubSeq(s, 1, start + c))

(* Blocks that stand for the first bytes of s, and the block of the next   *)
(* bytes, stand for all these bytes.                                       *)
LEMMA BlockReadBack ==
    ASSUME CodeSize, NEW s \in Seq(Nat), NEW start \in Nat, NEW c \in Nat, start + c <= Len(s),
           NEW r, NEW P, NEW e, Chain(r, P, e), StandFor(r, P \cup {e}, e, SubSeq(s, 1, start)),
           NEW u, \A k \in 1 .. e - 1 : u[k] = r[k], Wrote(s, start, c, u, e)
    PROVE  ReadBack(s, start, c, u, P, e)
<1>1. e \in Nat \ {0} /\ P \subseteq 1 .. e - 1
    BY DEF Chain
<1>2. Chain(u, P, e)
  <2>1. \A p \in P : u[p] = r[p]
      BY <1>1
  <2> QED BY <2>1 DEF Chain
<1>3. u[e] \in Nat \ {0} /\ u[e] = c + 1
    BY DEF Wrote
<1>4. Chain(u, P \cup {e}, e + (c + 1)) /\ \A q \in P : q < e /\ q + u[q] <= e
    BY <1>2, <1>3, ChainGrows
<1> DEFINE Q == P \cup {e}
<1>5. Q \subseteq 1 .. e /\ Q \subseteq Nat \ {0} /\ e \in Q
    BY <1>1
<1>6. StandFor(r, Q, e, SubSeq(s, 1, start))
    OBVIOUS
<1> HIDE DEF Q
<1>7. StandFor(u, Q, e, SubSeq(s, 1, start))
  <2>1. e \in Nat /\ 1 <= e
      BY <1>1
  <2>2. \A k \in 1 .. e : r[k] = u[k] \/ (k = e /\ e \in Q)
      BY <1>1, <1>5
  <2> QED BY <1>5, <1>6, <2>1, <2>2, SameStart
<1> DEFINE S == {j \in Nat : j <= c => StandFor(u, Q, e + j, SubSeq(s, 1, start + j))}
<1>8. 0 \in S
    BY <1>1, <1>7
<1>9. ASSUME NEW j \in Nat, j \in S PROVE j + 1 \in S
  <2> SUFFICES ASSUME j + 1 <= c PROVE StandFor(u, Q, e + (j + 1), SubSeq(s, 1, start + (j + 1)))
      OBVIOUS
  <2> PICK n \in Nat, k \in Nat : n = e + j /\ k = start + j
      BY <1>1
  <2>1. StandFor(u, Q, n, SubSeq(s, 1, k)) /\ 1 <= n
      BY <1>1, <1>9
  <2>2. StandFor(u, Q, n + 1, SubSeq(s, 1, k) \o Piece(u, Q, n + 1))
      BY <2>1, OneMorePiece
  <2>3. n + 1 \notin Q
      BY <1>1, <1>5
  <2>4. u[n + 1] = s[k + 1]
    <3>1. j + 1 \in 1 .. c /\ n + 1 = e + (j + 1) /\ k + 1 = start + (j + 1)
        BY <1>1
    <3> QED BY <3>1 DEF Wrote
  <2>5. k < Len(s)
      OBVIOUS
  <2>6. SubSeq(s, 1, k) \o <<s[k + 1]>> = SubSeq(s, 1, k + 1)
      BY <2>5, OneMoreByte
  <2>7. StandFor(u, Q, n + 1, SubSeq(s, 1, k + 1))
      BY <2>2, <2>3, <2>4, <2>6 DEF Piece
  <2>8. n + 1 = e + (j + 1) /\ k + 1 = start + (j + 1)
      BY <1>1
  <2> QED BY <2>7, <2>8
<1>10. c \in S
  <2> HIDE DEF S
  <2> QED BY <1>8, <1>9, SetInduction
<1> QED BY <1>4, <1>10 DEF Q, ReadBack

\* What stands for t, a block of c bytes and the code byte after it.
WithNextCode(t, c) == IF c + 1 = MaxCode THEN t ELSE t \o <<0>>

(* The code byte after a block that is not full stands for a zero, after a *)
(* full one for nothing.                                                   *)
LEMMA NextBlockReadBack ==
    ASSUME CodeSize, NEW u, NEW P, NEW e \in Nat \ {0}, NEW c \in Nat, u[e] = c + 1,
           \A q \in P : q \in Nat \ {0} /\ q < e /\ q + u[q] <= e,
           \A q \in P : u[q] \in Nat,
           NEW t \in Seq(Nat), StandFor(u, P \cup {e}, e + c, t),
           NEW next, next = e + (c + 1)
    PROVE  StandFor(u, P \cup {e, next}, next, WithNextCode(t, c))
<1> PICK n \in Nat : n = e + c /\ next = n + 1 /\ 1 <= n
    OBVIOUS
<1> DEFINE Q == P \cup {e}
           R == P \cup {e, next}
<1>1. Q \subseteq Nat \ {0} /\ R \subseteq Nat \ {0}
    OBVIOUS
<1>2. \A k \in 1 .. n : k \in Q <=> k \in R
    OBVIOUS
<1>3. next \in R /\ (next - MaxCode \in R /\ u[next - MaxCode] = MaxCode <=> c + 1 = MaxCode)
  <2>1. next \in R
      OBVIOUS
  <2>2. ASSUME c + 1 = MaxCode PROVE next - MaxCode \in R /\ u[next - MaxCode] = MaxCode
    <3>1. next - MaxCode = e
        BY <2>2
    <3> QED BY <2>2, <3>1
  <2>3. ASSUME NEW q \in R, q = next - MaxCode, u[q] = MaxCode PROVE c + 1 = MaxCode
    <3>1. CASE q = next
        BY <2>3, <3>1 DEF CodeSize
    <3>2. CASE q = e
        BY <2>3, <3>2
    <3>3. CASE q \in P
        BY <2>3, <3>3 DEF CodeSize
    <3> QED BY <3>1, <3>2, <3>3
  <2> QED BY <2>1, <2>2, <2>3
<1>4. StandFor(u, R, n, t)
  <2>1. StandFor(u, Q, n, t)
      OBVIOUS
  <2> HIDE DEF Q, R
  <2> QED BY <1>1, <1>2, <2>1, SameStart
<1> HIDE DEF Q, R
<1>5. StandFor(u, R, n + 1, t \o Piece(u, R, n + 1))
    BY <1>4, OneMorePiece
<1>6. CASE c + 1 = MaxCode
  <2>1. Piece(u, R, n + 1) = <<>>
      BY <1>3, <1>6 DEF Piece
  <2>2. t \o <<>> = t
      OBVIOUS
  <2> QED BY <1>5, <1>6, <2>1, <2>2 DEF R, WithNextCode
<1>7. CASE c + 1 # MaxCode
  <2>1. Piece(u, R, n + 1) = <<0>>
      BY <1>3, <1>7 DEF Piece
  <2> QED BY <1>5, <1>7, <2>1 DEF R, WithNextCode
<1> QED BY <1>6, <1>7

-----------------------------------------------------------------------------
\* The first n cells of a buffer, as a sequence.
Prefix(d, n) == [k \in 1 .. n |-> d[k]]

(* A sequence whose cells are those of w and then those of b is both       *)
(* together.                                                               *)
LEMMA Joined ==
    ASSUME NEW w \in Seq(Nat), NEW b \in Seq(Nat), NEW v \in Seq(Nat), NEW m \in Nat, m = Len(w),
           Len(v) = m + Len(b), \A k \in 1 .. m : v[k] = w[k],
           \A i \in 1 .. Len(b) : v[m + i] = b[i]
    PROVE  v = w \o b
<1> PICK n \in Nat : n = Len(b)
    OBVIOUS
<1> PICK wb : wb = w \o b
    OBVIOUS
<1>1. wb \in Seq(Nat) /\ Len(wb) = m + n
    BY ConcatProperties
<1>2. \A i \in 1 .. m + n : wb[i] = IF i <= m THEN w[i] ELSE b[i - m]
    BY ConcatProperties
<1>3. ASSUME NEW k \in 1 .. m + n PROVE v[k] = wb[k]
  <2>1. CASE k <= m
    <3>1. k \in 1 .. m
        BY <2>1
    <3>2. v[k] = w[k]
        BY <3>1
    <3>3. wb[k] = w[k]
        BY <1>2, <2>1
    <3> QED BY <3>2, <3>3
  <2>2. CASE ~ (k <= m)
    <3>1. k - m \in 1 .. n /\ m + (k - m) = k
        BY <2>2
    <3>2. v[m + (k - m)] = b[k - m]
        BY <3>1
    <3>3. wb[k] = b[k - m]
        BY <1>2, <2>2
    <3> QED BY <3>1, <3>2, <3>3
  <2> QED BY <2>1, <2>2
<1>4. v = wb
    BY <1>1, <1>3, SameElements
<1> QED BY <1>4

\* The sequence x is what is still to be written behind w to make y.
Completes(x, w, y) == w \o x = y

\* The encoding x of the rest of s begins with block b, and goes on as f says.
BeginsWith(s, start, c, f, b) ==
    /\ Len(b) = c + 1 /\ b[1] = c + 1 /\ \A j \in 1 .. c : b[j + 1] = s[start + j]
    /\ start + c = Len(s) => f[start] = b
    /\ start + c # Len(s) =>
           /\ After(s, start) \in 0 .. Len(s)
           /\ \E g \in Seq(Nat) : g = f[After(s, start)] /\ Completes(g, b, f[start])

(* What the encoding of the rest of s begins with.                         *)
LEMMA EncodesStep ==
    ASSUME CodeSize, NEW s \in Seq(Nat), NEW f, Encodes(s, f), NEW start \in 0 .. Len(s),
           NEW c \in Nat, c = RunLength(s, start)
    PROVE  \E b \in Seq(Nat) : BeginsWith(s, start, c, f, b)
<1> PICK b \in Seq(Nat) : /\ b = BlockAt(s, start) /\ Len(b) = c + 1
                          /\ b[1] = c + 1 /\ \A j \in 1 .. c : b[j + 1] = s[start + j]
    BY BlockShape
<1>1. f[start] = b \o Rest(s, start, f)
    BY DEF Encodes
<1>2. ASSUME start + c = Len(s) PROVE f[start] = b
  <2>1. f[start] = b \o <<>>
      BY <1>1, <1>2 DEF Rest
  <2>2. b \o <<>> = b
      OBVIOUS
  <2> QED BY <2>1, <2>2
<1>3. ASSUME start + c # Len(s)
      PROVE  /\ After(s, start) \in 0 .. Len(s)
             /\ \E g \in Seq(Nat) : g = f[After(s, start)] /\ f[start] = b \o g
  <2>0. start + RunLength(s, start) # Len(s) /\ Len(s) \in Nat
      BY <1>3
  <2>1. After(s, start) \in start + 1 .. Len(s)
      BY <2>0, GoesRight
  <2> PICK next \in 0 .. Len(s) : next = After(s, start)
      BY <2>1
  <2> PICK g \in Seq(Nat) : g = f[next]
      BY EncodesSeqs
  <2>2. f[start] = b \o g
      BY <1>1, <1>3 DEF Rest
  <2> QED BY <2>2
<1> QED BY <1>2, <1>3 DEF BeginsWith, Completes

(* Concatenation is associative: what completes the completion of w by b   *)
(* completes both.                                                         *)
LEMMA CompletesBoth ==
    ASSUME NEW w \in Seq(Nat), NEW b \in Seq(Nat), NEW g \in Seq(Nat),
           NEW x, Completes(g, b, x), NEW y, Completes(x, w, y)
    PROVE  Completes(g, w \o b, y)
<1>1. (w \o b) \o g = w \o (b \o g)
    OBVIOUS
<1> QED BY <1>1 DEF Completes

\* The sequence v is w, of length m, and the block for c bytes of s after start.
Appends(s, start, c, w, m, v) ==
    /\ m = Len(w) /\ Len(v) = m + (c + 1)
    /\ \A k \in 1 .. m : v[k] = w[k]
    /\ Wrote(s, start, c, v, m + 1)

\* After that block v is the encoding f of s or goes on to be.
GoesOn(s, start, c, f, v) ==
    /\ start + c = Len(s) => v = f[0]
    /\ start + c # Len(s) => Completes(f[After(s, start)], v, f[0])

(* A block written behind the encoding so far takes the encoding on.       *)
LEMMA BlockAppended ==
    ASSUME CodeSize, NEW s \in Seq(Nat), NEW f, Encodes(s, f), NEW start \in 0 .. Len(s),
           NEW c \in Nat, c = RunLength(s, start),
           NEW w \in Seq(Nat), Completes(f[start], w, f[0]),
           NEW m \in Nat, NEW v \in Seq(Nat), Appends(s, start, c, w, m, v)
    PROVE  GoesOn(s, start, c, f, v)
<1> PICK b \in Seq(Nat) : BeginsWith(s, start, c, f, b)
    BY EncodesStep
<1>0. /\ Len(b) = c + 1 /\ b[1] = c + 1 /\ \A j \in 1 .. c : b[j + 1] = s[start + j]
      /\ m = Len(w) /\ Len(v) = m + (c + 1) /\ \A k \in 1 .. m : v[k] = w[k]
      /\ Wrote(s, start, c, v, m + 1)
    BY DEF BeginsWith, Appends
<1>1. ASSUME NEW i \in 1 .. Len(b) PROVE v[m + i] = b[i]
  <2>1. CASE i = 1
      BY <1>0, <2>1 DEF Wrote
  <2>2. CASE i # 1
    <3>1. i - 1 \in 1 .. c /\ (i - 1) + 1 = i /\ (m + 1) + (i - 1) = m + i
        BY <1>0, <2>2
    <3>2. v[(m + 1) + (i - 1)] = s[start + (i - 1)]
        BY <1>0, <3>1 DEF Wrote
    <3>3. b[(i - 1) + 1] = s[start + (i - 1)]
        BY <1>0, <3>1
    <3> QED BY <3>1, <3>2, <3>3
  <2> QED BY <2>1, <2>2
<1>2. v = w \o b
  <2>1. Len(v) = m + Len(b)
      BY <1>0
  <2> QED BY <1>0, <1>1, <2>1, Joined
<1>3. CASE start + c = Len(s)
    BY <1>2, <1>3 DEF BeginsWith, Completes, GoesOn
<1>4. CASE start + c # Len(s)
  <2> PICK g \in Seq(Nat) : g = f[After(s, start)] /\ Completes(g, b, f[start])
      BY <1>4 DEF BeginsWith
  <2>3. Completes(g, v, f[0])
      BY <1>2, CompletesBoth
  <2> QED BY <1>4, <2>3 DEF GoesOn
<1> QED BY <1>3, <1>4

\* The cells of d before e hold the blocks of the first bytes of s, up to start:
\* the encoding of s begins with them, and they stand for those bytes.
BlocksOf(s, start, d, e) ==
    /\ \A k \in 1 .. e - 1 : d[k] \in Nat
    /\ \A f : Encodes(s, f) => Completes(f[start], Prefix(d, e - 1), f[0])
    /\ \E P : Chain(d, P, e) /\ StandFor(d, P \cup {e}, e, SubSeq(s, 1, start))

\* The first n cells of d are the encoding of s, and decode to s.
EncodedIn(s, d, n) ==
    /\ Prefix(d, n) = Encoding(s)
    /\ Decodable(Prefix(d, n)) /\ Decoding(Prefix(d, n)) = s

(* The first n cells of a buffer of bytes are a sequence.                  *)
LEMMA PrefixShape ==
    ASSUME NEW d, NEW n \in Nat, \A k \in 1 .. n : d[k] \in Nat
    PROVE  /\ Prefix(d, n) \in Seq(Nat) /\ Len(Prefix(d, n)) = n
           /\ \A k \in 1 .. n : Prefix(d, n)[k] = d[k]
<1>1. Prefix(d, n) \in [1 .. n -> Nat]
    BY DEF Prefix
<1>2. \A m \in Nat : [1 .. m -> Nat] \subseteq Seq(Nat)
    OBVIOUS
<1>3. Prefix(d, n) \in Seq(Nat)
    BY <1>1, <1>2
<1>4. DOMAIN Prefix(d, n) = 1 .. n /\ \A k \in 1 .. n : Prefix(d, n)[k] = d[k]
    BY DEF Prefix
<1>5. Len(Prefix(d, n)) = n
    BY <1>3, <1>4
<1> QED BY <1>3, <1>4, <1>5

(* No blocks stand for no bytes.                                           *)
LEMMA NoBlocksYet ==
    ASSUME CodeSize, NEW s \in Seq(Nat), NEW d
    PROVE  BlocksOf(s, 0, d, 1)
<1>1. \A k \in 1 .. 1 - 1 : d[k] \in Nat
    OBVIOUS
<1>2. ASSUME NEW f, Encodes(s, f) PROVE Completes(f[0], Prefix(d, 1 - 1), f[0])
  <2>1. Prefix(d, 1 - 1) = <<>>
    <3>1. 1 - 1 = 0 /\ \A k \in 1 .. 0 : d[k] \in Nat
        OBVIOUS
    <3>2. Prefix(d, 0) \in Seq(Nat) /\ Len(Prefix(d, 0)) = 0
        BY <3>1, PrefixShape
    <3> QED BY <3>1, <3>2
  <2> PICK g \in Seq(Nat) : g = f[0]
      BY <1>2, EncodesSeqs
  <2>2. <<>> \o g = g
      OBVIOUS
  <2> QED BY <2>1, <2>2 DEF Completes
<1>3. Chain(d, {}, 1) /\ StandFor(d, {} \cup {1}, 1, <<>>)
    BY ChainBegins, FirstStandsForNothing
<1>4. SubSeq(s, 1, 0) = <<>>
    OBVIOUS
<1> QED BY <1>1, <1>2, <1>3, <1>4 DEF BlocksOf

(* The blocks before e are those of the cells before e.                    *)
LEMMA ChainSame ==
    ASSUME NEW r, NEW P, NEW e, Chain(r, P, e), NEW u, \A k \in 1 .. e - 1 : u[k] = r[k]
    PROVE  Chain(u, P, e)
<1>1. e \in Nat \ {0} /\ P \subseteq 1 .. e - 1
    BY DEF Chain
<1>2. \A p \in P : u[p] = r[p]
    BY <1>1
<1> QED BY <1>2 DEF Chain

(* The last block completes the encoding, and what decodes to the input.   *)
LEMMA LastBlockClosed ==
    ASSUME CodeSize, NEW s \in Seq(Nat), NEW n \in Nat \ {0}, NEW u,
           \A k \in 1 .. n : u[k] \in Nat,
           \A f : Encodes(s, f) => Prefix(u, n) = f[0],
           NEW P, Chain(u, P, n + 1), StandFor(u, P, n, SubSeq(s, 1, Len(s)))
    PROVE  EncodedIn(s, u, n)
<1> PICK r \in Seq(Nat) : r = Prefix(u, n)
    BY PrefixShape
<1>1. Len(r) = n /\ \A k \in 1 .. n : r[k] = u[k]
    BY PrefixShape
<1>2. r = Encoding(s)
  <2>0. Len(s) \in Nat
      OBVIOUS
  <2> PICK f : Encodes(s, f) /\ Encoding(s) = f[0]
      BY <2>0, EncodingFollowed
  <2>1. Prefix(u, n) = f[0]
      OBVIOUS
  <2> QED BY <2>1
<1>3. Chain(r, P, n + 1)
  <2>1. \A k \in 1 .. (n + 1) - 1 : r[k] = u[k]
      BY <1>1
  <2> QED BY <2>1, ChainSame
<1>4. P \subseteq Nat \ {0} /\ 1 <= n
  <2>1. P \subseteq 1 .. (n + 1) - 1
      BY DEF Chain
  <2> QED BY <2>1
<1>5. SubSeq(s, 1, Len(s)) = s
    OBVIOUS
<1>6. StandFor(r, P, n, s)
  <2>1. StandFor(u, P, n, s)
      BY <1>5
  <2> QED BY <1>1, <1>4, <2>1, SameStart
<1>7. r # <<>>
    BY <1>1
<1>8. Decodable(r) /\ Decoding(r) = s
    BY <1>1, <1>3, <1>6, <1>7, DecodingFollowed
<1> QED BY <1>2, <1>8 DEF EncodedIn

\* With the block at e the cells of u are the encoding f of s, or go on to be.
Encoded(s, start, c, f, u, e) ==
    /\ \A k \in 1 .. e + c : u[k] \in Nat
    /\ start + c <= Len(s)
    /\ start + c = Len(s) => Prefix(u, e + c) = f[0]
    /\ start + c # Len(s) => Completes(f[After(s, start)], Prefix(u, e + c), f[0])
    /\ After(s, start) = IF c = MaxCode - 1 THEN start + c ELSE start + c + 1

(* A block of the right bytes, written behind an encoding so far.          *)
LEMMA BlockEncoded ==
    ASSUME CodeSize, NEW s \in Seq(Nat), NEW start \in 0 .. Len(s),
           NEW c \in 0 .. MaxCode - 1, IsRun(s, start, c),
           NEW d, NEW e \in Nat \ {0}, \A k \in 1 .. e - 1 : d[k] \in Nat,
           NEW f, Encodes(s, f), Completes(f[start], Prefix(d, e - 1), f[0]),
           NEW u, \A k \in 1 .. e - 1 : u[k] = d[k], Wrote(s, start, c, u, e)
    PROVE  Encoded(s, start, c, f, u, e)
<1>0. c \in Nat
    BY DEF CodeSize
<1> PICK m \in Nat : m = e - 1 /\ m + 1 = e
    OBVIOUS
<1> PICK n \in Nat \ {0} : n = e + c /\ n + 1 = e + (c + 1) /\ n = m + (c + 1)
    BY <1>0
<1>9. start + c \in 0 .. Len(s)
  <2>1. start + c <= Len(s)
      BY DEF IsRun
  <2> QED BY <1>0, <2>1
<1>1. c = RunLength(s, start)
    BY RunIs
<1>2. \A k \in 1 .. m : d[k] \in Nat /\ u[k] = d[k]
    OBVIOUS
<1>3. ASSUME NEW k \in 1 .. n PROVE u[k] \in Nat
  <2>1. CASE k <= m
      BY <1>2, <2>1
  <2>2. CASE k = e
      BY <1>0, <2>2 DEF Wrote
  <2>3. CASE k > e
    <3>1. k - e \in 1 .. c /\ e + (k - e) = k
        BY <1>0, <2>3
    <3>2. start + (k - e) \in 1 .. Len(s)
        BY <1>9, <3>1
    <3>3. u[e + (k - e)] = s[start + (k - e)]
        BY <3>1 DEF Wrote
    <3> QED BY <3>1, <3>2, <3>3
  <2> QED BY <2>1, <2>2, <2>3
<1> PICK w \in Seq(Nat) : w = Prefix(d, m) /\ Len(w) = m /\ \A k \in 1 .. m : w[k] = d[k]
    BY <1>2, PrefixShape
<1> PICK v \in Seq(Nat) : v = Prefix(u, n) /\ Len(v) = n /\ \A k \in 1 .. n : v[k] = u[k]
    BY <1>3, PrefixShape
<1>4. Wrote(s, start, c, v, m + 1)
  <2>1. v[e] = u[e]
    <3>1. e \in 1 .. n
        BY <1>0
    <3> QED BY <3>1
  <2>2. ASSUME NEW j \in 1 .. c PROVE v[e + j] = u[e + j]
    <3>1. e + j \in 1 .. n
        BY <1>0
    <3> QED BY <3>1
  <2> QED BY <2>1, <2>2 DEF Wrote
<1>5. /\ start + c = Len(s) => v = f[0]
      /\ start + c # Len(s) => Completes(f[After(s, start)], v, f[0])
  <2>1. Completes(f[start], w, f[0])
      OBVIOUS
  <2>2. \A k \in 1 .. m : v[k] = w[k]
      BY <1>2
  <2>3. Len(v) = m + (c + 1)
      OBVIOUS
  <2>4. Appends(s, start, c, w, m, v)
      BY <1>4, <2>2, <2>3 DEF Appends
  <2>5. GoesOn(s, start, c, f, v)
      BY <1>0, <1>1, <2>1, <2>4, BlockAppended
  <2> QED BY <2>5 DEF GoesOn
<1>6. After(s, start) = IF c = MaxCode - 1 THEN start + c ELSE start + c + 1
    BY <1>1 DEF After
<1>7. start + c <= Len(s)
    BY <1>9
<1> QED BY <1>3, <1>5, <1>6, <1>7 DEF Encoded

(* A block that is closed completes the encoding, or is followed by one    *)
(* more.                                                                   *)
LEMMA BlockClosed ==
    ASSUME CodeSize, NEW s \in Seq(Nat), NEW start \in 0 .. Len(s),
           NEW c \in 0 .. MaxCode - 1, IsRun(s, start, c),
           NEW d, NEW e \in Nat \ {0}, BlocksOf(s, start, d, e),
           NEW u, \A k \in 1 .. e - 1 : u[k] = d[k], Wrote(s, start, c, u, e)
    PROVE  /\ start + c = Len(s) => EncodedIn(s, u, e + c)
           /\ start + c # Len(s) =>
                BlocksOf(s, IF c = MaxCode - 1 THEN start + c ELSE start + c + 1, u, e + (c + 1))
<1> PICK m \in Nat : m = e - 1 /\ m + 1 = e
    OBVIOUS
<1> PICK n \in Nat \ {0} : n = e + c /\ n + 1 = e + (c + 1) /\ n = m + (c + 1)
    BY DEF CodeSize
<1>0. c \in Nat
    BY DEF CodeSize
<1>9. start + c \in 0 .. Len(s)
  <2>1. start + c <= Len(s)
      BY DEF IsRun
  <2> QED BY <1>0, <2>1
<1> PICK k0 \in 0 .. Len(s) : k0 = start + c
    BY <1>9
<1>2. \A k \in 1 .. m : d[k] \in Nat /\ u[k] = d[k]
    BY DEF BlocksOf
<1> PICK next \in Nat : next = IF c = MaxCode - 1 THEN k0 ELSE k0 + 1
    OBVIOUS
<1>5. ASSUME NEW f, Encodes(s, f)
      PROVE  /\ k0 = Len(s) => Prefix(u, n) = f[0]
             /\ k0 # Len(s) => Completes(f[next], Prefix(u, n), f[0])
             /\ \A k \in 1 .. n : u[k] \in Nat
  <2>1. Completes(f[start], Prefix(d, e - 1), f[0])
      BY <1>5 DEF BlocksOf
  <2>2. \A k \in 1 .. e - 1 : d[k] \in Nat
      BY DEF BlocksOf
  <2>3. Encoded(s, start, c, f, u, e)
      BY <1>5, <2>1, <2>2, BlockEncoded
  <2> QED BY <2>3 DEF Encoded
<1>3. \A k \in 1 .. n : u[k] \in Nat
  <2>1. Len(s) \in Nat
      OBVIOUS
  <2> PICK f : Encodes(s, f)
      BY <2>1, EncodesExists
  <2> QED BY <1>5
<1> PICK P : Chain(d, P, e) /\ StandFor(d, P \cup {e}, e, SubSeq(s, 1, start))
    BY DEF BlocksOf
<1> DEFINE Q == P \cup {e}
<1>6. /\ Chain(u, Q, n + 1)
      /\ \A q \in P : q < e /\ q + u[q] <= e
      /\ StandFor(u, Q, n, SubSeq(s, 1, k0))
  <2>1. start \in Nat /\ start + c <= Len(s)
      OBVIOUS
  <2>2. ReadBack(s, start, c, u, P, e)
      BY <1>0, <2>1, BlockReadBack
  <2> QED BY <2>2 DEF ReadBack
<1>7. CASE k0 = Len(s)
  <2>1. \A f : Encodes(s, f) => Prefix(u, n) = f[0]
      BY <1>5, <1>7
  <2> HIDE DEF Q
  <2>2. EncodedIn(s, u, n)
      BY <1>3, <1>6, <1>7, <2>1, LastBlockClosed
  <2> QED BY <1>7, <2>2
<1>8. CASE k0 # Len(s)
  <2>2. \A f : Encodes(s, f) => Completes(f[next], Prefix(u, n), f[0])
      BY <1>5, <1>8
  <2> PICK t \in Seq(Nat) : t = SubSeq(s, 1, k0)
      BY StartIsSequence
  <2>3. StandFor(u, P \cup {e, n + 1}, n + 1, WithNextCode(t, c))
    <3>1. \A q \in P : q \in Nat \ {0} /\ q < e /\ q + u[q] <= e
        BY <1>6 DEF Chain
    <3>2. \A q \in P : u[q] \in Nat
      <4>1. P \subseteq 1 .. m
          BY <1>6, <3>1
      <4> QED BY <1>2, <4>1
    <3>3. u[e] = c + 1
        BY DEF Wrote
    <3>4. StandFor(u, P \cup {e}, e + c, t)
        BY <1>6
    <3>5. StandFor(u, P \cup {e, n + 1}, n + 1, WithNextCode(t, c))
      <4> PICK next2 \in Nat : next2 = n + 1
          OBVIOUS
      <4>1. next2 = e + (c + 1)
          OBVIOUS
      <4>2. StandFor(u, P \cup {e, next2}, next2, WithNextCode(t, c))
          BY <1>0, <3>1, <3>2, <3>3, <3>4, <4>1, NextBlockReadBack
      <4> QED BY <4>2
    <3> QED BY <3>5
  <2>4. WithNextCode(t, c) = SubSeq(s, 1, next)
    <3>1. CASE c = MaxCode - 1
        BY <3>1 DEF CodeSize, WithNextCode
    <3>2. CASE c # MaxCode - 1
      <4>1. s[k0 + 1] = 0 /\ k0 < Len(s)
          BY <1>8, <3>2 DEF IsRun
      <4>2. SubSeq(s, 1, k0) \o <<s[k0 + 1]>> = SubSeq(s, 1, k0 + 1)
        <5>1. k0 \in Nat /\ k0 < Len(s)
            BY <4>1
        <5> QED BY <5>1, OneMoreByte
      <4>3. c + 1 # MaxCode
          BY <1>0, <3>2 DEF CodeSize
      <4> QED BY <3>2, <4>1, <4>2, <4>3 DEF WithNextCode
    <3> QED BY <3>1, <3>2
  <2>5. Q \cup {n + 1} = P \cup {e, n + 1}
      OBVIOUS
  <2>6. StandFor(u, Q \cup {n + 1}, n + 1, SubSeq(s, 1, next))
      BY <2>3, <2>4, <2>5
  <2>7. \A k \in 1 .. (n + 1) - 1 : u[k] \in Nat
      BY <1>3
  <2>8. (n + 1) - 1 = n
      OBVIOUS
  <2> HIDE DEF Q
  <2>9. BlocksOf(s, next, u, n + 1)
      BY <1>6, <2>2, <2>6, <2>7, <2>8 DEF BlocksOf
  <2> QED BY <1>8, <2>9
<1> QED BY <1>7, <1>8

(* Blocks are not changed by what is written behind them.                  *)
LEMMA BlocksSame ==
    ASSUME CodeSize, NEW s, NEW start, NEW d, NEW e, BlocksOf(s, start, d, e),
           NEW u, \A k \in 1 .. e - 1 : u[k] = d[k]
    PROVE  BlocksOf(s, start, u, e)
<1> PICK P : Chain(d, P, e) /\ StandFor(d, P \cup {e}, e, SubSeq(s, 1, start))
    BY DEF BlocksOf
<1>1. e \in Nat \ {0} /\ P \subseteq 1 .. e - 1
    BY DEF Chain
<1>2. Prefix(u, e - 1) = Prefix(d, e - 1)
    BY DEF Prefix
<1>3. Chain(u, P, e)
    BY ChainSame
<1> DEFINE Q == P \cup {e}
<1>4. Q \subseteq Nat \ {0} /\ e \in Q /\ e \in Nat /\ 1 <= e
    BY <1>1
<1>5. \A k \in 1 .. e : d[k] = u[k] \/ (k = e /\ e \in Q)
    BY <1>1, <1>4
<1>6. StandFor(d, Q, e, SubSeq(s, 1, start))
    OBVIOUS
<1> HIDE DEF Q
<1>7. StandFor(u, Q, e, SubSeq(s, 1, start))
    BY <1>4, <1>5, <1>6, SameStart
<1>8. \A k \in 1 .. e - 1 : u[k] \in Nat
    BY DEF BlocksOf
<1> QED BY <1>2, <1>3, <1>7, <1>8 DEF BlocksOf, Q

-----------------------------------------------------------------------------
(* The end of a chain of blocks is a code position of the sequence, if it  *)
(* has any and is that long.                                               *)
LEMMA ChainInside ==
    ASSUME NEW r \in Seq(Nat), NEW P, NEW e, Chain(r, P, e), e <= Len(r),
           NEW Q \in SUBSET (1 .. Len(r)), IsCodePosition(r, Q)
    PROVE  e \in Q
<1>1. e \in Nat \ {0} /\ P \subseteq 1 .. e - 1
    BY DEF Chain
<1>2. P \subseteq Q
  <2> SUFFICES ASSUME P \ Q # {} PROVE FALSE
      OBVIOUS
  <2> DEFINE T == P \ Q
  <2>1. T \in SUBSET Nat /\ T # {}
      BY <1>1
  <2>2. PICK p \in T : \A m \in T : p <= m
    <3> HIDE DEF T
    <3> QED BY <2>1, LeastElement
  <2>3. p \in P /\ p \notin Q /\ p # 1 /\ p \in 1 .. e - 1
      BY <1>1 DEF IsCodePosition
  <2>4. PICK q \in P : q + r[q] = p
      BY <2>3 DEF Chain
  <2>5. q \in Nat /\ r[q] \in Nat \ {0}
      BY <1>1 DEF Chain
  <2>6. q < p /\ q \in Q
      BY <2>2, <2>3, <2>4, <2>5
  <2>7. p \in Q \/ p = Len(r) + 1
      BY <2>4, <2>6 DEF IsCodePosition
  <2> QED BY <1>1, <2>3, <2>7
<1>3. CASE e = 1
    BY <1>3 DEF IsCodePosition
<1>4. CASE e # 1
  <2> PICK q \in P : q + r[q] = e
      BY <1>4 DEF Chain
  <2>1. e \in Q \/ e = Len(r) + 1
      BY <1>2 DEF IsCodePosition
  <2> QED BY <1>1, <2>1
<1> QED BY <1>3, <1>4

(* So a sequence with a chain of blocks that cannot go on, because the     *)
(* next code byte is zero or reaches behind the end, is not decodable.     *)
LEMMA ChainBreaks ==
    ASSUME NEW r \in Seq(Nat), NEW P, NEW e, Chain(r, P, e), e <= Len(r),
           r[e] = 0 \/ e + r[e] > Len(r) + 1
    PROVE  ~ Decodable(r)
<1>1. e \in Nat \ {0} /\ Len(r) \in Nat /\ r # <<>>
    BY DEF Chain
<1>2. ASSUME NEW Q \in SUBSET (1 .. Len(r)), IsCodePosition(r, Q) PROVE FALSE
  <2>1. e \in Q
      BY <1>2, ChainInside
  <2>2. r[e] # 0 /\ (e + r[e] \in Q \/ e + r[e] = Len(r) + 1)
      BY <1>2, <2>1 DEF IsCodePosition
  <2>3. r[e] \in Nat
      BY <1>1
  <2> QED BY <1>1, <2>2, <2>3
<1> QED BY <1>1, <1>2 DEF Decodable, CodePositions

(* One more cell of a buffer.                                              *)
LEMMA PrefixGrows ==
    ASSUME NEW d, NEW n \in Nat, \A k \in 1 .. n : d[k] \in Nat,
           NEW u, \A k \in 1 .. n : u[k] = d[k], NEW b \in Nat, u[n + 1] = b
    PROVE  Prefix(u, n + 1) = Prefix(d, n) \o <<b>>
<1> PICK v \in Seq(Nat) : v = Prefix(d, n) /\ Len(v) = n /\ \A k \in 1 .. n : v[k] = d[k]
    BY PrefixShape
<1>1. \A k \in 1 .. n + 1 : u[k] \in Nat
    OBVIOUS
<1> PICK m \in Nat : m = n + 1
    OBVIOUS
<1> PICK w \in Seq(Nat) : w = Prefix(u, m) /\ Len(w) = m /\ \A k \in 1 .. m : w[k] = u[k]
    BY <1>1, PrefixShape
<1>5. <<b>> \in Seq(Nat) /\ Len(<<b>>) = 1 /\ <<b>>[1] = b
    OBVIOUS
<1> PICK x \in Seq(Nat) : x = <<b>> /\ Len(x) = 1 /\ x[1] = b
    BY <1>5
<1>2. Len(w) = n + Len(x)
    OBVIOUS
<1>6. ASSUME NEW k \in 1 .. n PROVE w[k] = v[k]
  <2>1. k \in 1 .. m
      OBVIOUS
  <2> QED BY <2>1
<1>3. \A i \in 1 .. Len(x) : w[n + i] = x[i]
    OBVIOUS
<1>4. w = v \o x
    BY <1>2, <1>3, <1>6, Joined
<1> QED BY <1>4

-----------------------------------------------------------------------------
(* No two regions of at most MaxCode bytes, none of them zero, stand for   *)
(* the same bytes.  Such a region has a block of full length only at its   *)
(* end, so the code byte after every other block stands for a zero; up to  *)
(* each of its code bytes it is what the encoding of any bytes begins with *)
(* that begin with the ones it stands for so far.                          *)
ShortRegion(r) == r \in Seq(Nat) /\ Len(r) \in 1 .. MaxCode /\ \A k \in 1 .. Len(r) : r[k] # 0

\* The sequence s begins with t.
StartsWith(s, t) == Len(t) <= Len(s) /\ \A j \in 1 .. Len(t) : s[j] = t[j]

\* The bytes of t come from r, or are zeros.
MadeOf(t, r) == \A j \in 1 .. Len(t) : t[j] = 0 \/ \E k \in 1 .. Len(r) : t[j] = r[k]

EncodedUpTo(r, e, t) ==
    \A s \in Seq(Nat) : \A f : StartsWith(s, t) /\ Encodes(s, f) =>
                                    Completes(f[Len(t)], Prefix(r, e - 1), f[0])

\* The code byte at e is reached after blocks that stand, with it, for t.
OpenAt(r, P, e, t) ==
    /\ t \in Seq(Nat) /\ MadeOf(t, r)
    /\ Chain(r, P, e) /\ StandFor(r, P \cup {e}, e, t)
    /\ EncodedUpTo(r, e, t)

(* The first code byte is reached at once.                                 *)
LEMMA FirstIsOpen == ASSUME CodeSize, NEW r PROVE OpenAt(r, {}, 1, <<>>)
<1>1. <<>> \in Seq(Nat) /\ Len(<<>>) = 0 /\ MadeOf(<<>>, r)
    BY DEF MadeOf
<1>2. ASSUME NEW s \in Seq(Nat), NEW f, Encodes(s, f)
      PROVE  Completes(f[0], Prefix(r, 1 - 1), f[0])
    BY <1>2, NoBlocksYet DEF BlocksOf
<1> QED BY <1>1, <1>2, ChainBegins, FirstStandsForNothing DEF OpenAt, EncodedUpTo

\* The block at e has c bytes, and v is t with these bytes.
CopiedTo(r, P, e, c, t, v) ==
    /\ v \in Seq(Nat) /\ MadeOf(v, r) /\ Len(v) = Len(t) + c
    /\ StartsWith(v, t) /\ Wrote(v, Len(t), c, r, e)
    /\ ReadBack(v, Len(t), c, r, P, e)

(* The next block is copied.                                               *)
LEMMA BlockCopied ==
    ASSUME CodeSize, NEW r, ShortRegion(r), NEW P, NEW e, NEW t, OpenAt(r, P, e, t),
           NEW c \in Nat, r[e] = c + 1, e + c <= Len(r)
    PROVE  \E v : CopiedTo(r, P, e, c, t, v)
<1> PICK m \in Nat : m = Len(t)
    BY DEF OpenAt
<1> DEFINE v == [j \in 1 .. m + c |-> IF j <= m THEN t[j] ELSE r[e + (j - m)]]
<1>1. e \in Nat \ {0} /\ t \in Seq(Nat) /\ r \in Seq(Nat)
    BY DEF OpenAt, Chain, ShortRegion
<1>2. ASSUME NEW j \in 1 .. m PROVE v[j] = t[j] /\ t[j] \in Nat
    BY <1>1
<1>3. ASSUME NEW j \in 1 .. c
      PROVE  m + j \in 1 .. m + c /\ v[m + j] = r[e + j] /\ e + j \in 1 .. Len(r) /\ r[e + j] \in Nat
  <2>1. m + j \in 1 .. m + c /\ ~ (m + j <= m) /\ (m + j) - m = j
      OBVIOUS
  <2>2. e + j \in 1 .. Len(r)
      BY <1>1
  <2> QED BY <1>1, <2>1, <2>2
<1>4. ASSUME NEW k \in 1 .. m + c PROVE k \in 1 .. m \/ \E j \in 1 .. c : k = m + j
  <2> SUFFICES ASSUME k > m PROVE \E j \in 1 .. c : k = m + j
      OBVIOUS
  <2>1. k - m \in 1 .. c /\ k = m + (k - m)
      OBVIOUS
  <2> QED BY <2>1
<1>5. v \in Seq(Nat) /\ Len(v) = m + c
  <2>1. \A k \in 1 .. m + c : v[k] \in Nat
    <3> SUFFICES ASSUME NEW k \in 1 .. m + c PROVE v[k] \in Nat
        OBVIOUS
    <3> HIDE DEF v
    <3>1. CASE k \in 1 .. m
        BY <1>2, <3>1
    <3>2. CASE \E j \in 1 .. c : k = m + j
        BY <1>3, <3>2
    <3> QED BY <1>4, <3>1, <3>2
  <2> PICK n \in Nat : n = m + c
      OBVIOUS
  <2>2. v \in [1 .. n -> Nat]
      BY <2>1
  <2> HIDE DEF v
  <2>3. \A i \in Nat : [1 .. i -> Nat] \subseteq Seq(Nat)
      OBVIOUS
  <2>4. v \in Seq(Nat) /\ DOMAIN v = 1 .. n
      BY <2>2, <2>3
  <2> QED BY <2>4
<1> HIDE DEF v
<1>6. MadeOf(v, r)
  <2> SUFFICES ASSUME NEW k \in 1 .. m + c PROVE v[k] = 0 \/ \E i \in 1 .. Len(r) : v[k] = r[i]
      BY <1>5 DEF MadeOf
  <2>1. CASE k \in 1 .. m
      BY <1>2, <2>1 DEF OpenAt, MadeOf
  <2>2. CASE \E j \in 1 .. c : k = m + j
      BY <1>3, <2>2
  <2> QED BY <1>4, <2>1, <2>2
<1>7. StartsWith(v, t)
    BY <1>2, <1>5 DEF StartsWith
<1>8. Wrote(v, m, c, r, e)
    BY <1>3 DEF Wrote
<1>9. SubSeq(v, 1, m) = t
  <2>1. m \in 0 .. Len(v)
      BY <1>5
  <2>2. SubSeq(v, 1, m) = [j \in 1 .. m |-> v[j]]
      BY <1>5, <2>1
  <2>3. SubSeq(v, 1, m) = [j \in 1 .. m |-> t[j]]
      BY <1>2, <2>2
  <2> QED BY <1>1, <2>3
<1>10. ReadBack(v, m, c, r, P, e)
  <2>1. Chain(r, P, e) /\ StandFor(r, P \cup {e}, e, SubSeq(v, 1, m))
      BY <1>9 DEF OpenAt
  <2>2. m + c <= Len(v)
      BY <1>5
  <2> QED BY <1>5, <1>8, <2>1, <2>2, BlockReadBack
<1> QED BY <1>5, <1>6, <1>7, <1>8, <1>10 DEF CopiedTo

(* And is a block of the encoding of everything that begins with the bytes *)
(* read so far, unless it is too short for that.                           *)
LEMMA BlockCanonical ==
    ASSUME CodeSize, NEW r, ShortRegion(r), NEW P, NEW e, NEW t, OpenAt(r, P, e, t),
           NEW c \in 0 .. MaxCode - 1, e + c <= Len(r), NEW v, CopiedTo(r, P, e, c, t, v),
           NEW s \in Seq(Nat), StartsWith(s, v),
           c = MaxCode - 1 \/ Len(s) = Len(v) \/ s[Len(v) + 1] = 0,
           NEW f, Encodes(s, f)
    PROVE  Encoded(s, Len(t), c, f, r, e)
<1>0. c \in Nat
    BY DEF CodeSize
<1> PICK m \in Nat : m = Len(t)
    BY DEF OpenAt
<1>1. e \in Nat \ {0} /\ r \in Seq(Nat) /\ \A k \in 1 .. Len(r) : r[k] # 0
    BY DEF OpenAt, Chain, ShortRegion
<1>2. Len(v) = m + c /\ Len(v) <= Len(s) /\ m \in 0 .. Len(s)
    BY <1>0 DEF CopiedTo, StartsWith
<1>3. ASSUME NEW j \in 1 .. c PROVE s[m + j] = r[e + j] /\ r[e + j] # 0
  <2>1. v[m + j] = r[e + j]
      BY DEF CopiedTo, Wrote
  <2>2. m + j \in 1 .. Len(v) /\ e + j \in 1 .. Len(r)
      BY <1>0, <1>1, <1>2
  <2> QED BY <1>1, <2>1, <2>2 DEF StartsWith
<1>4. IsRun(s, m, c)
    BY <1>2, <1>3 DEF IsRun
<1>5. Wrote(s, m, c, r, e)
    BY <1>3 DEF CopiedTo, Wrote
<1>6. StartsWith(s, t)
  <2>1. \A j \in 1 .. m : j \in 1 .. Len(v) /\ v[j] = t[j]
      BY <1>0, <1>2 DEF CopiedTo, StartsWith
  <2> QED BY <1>2, <2>1 DEF StartsWith
<1>7. Completes(f[m], Prefix(r, e - 1), f[0])
    BY <1>6 DEF OpenAt, EncodedUpTo
<1>8. \A k \in 1 .. e - 1 : r[k] \in Nat
  <2>1. \A k \in 1 .. e - 1 : k \in 1 .. Len(r)
      BY <1>0, <1>1
  <2> QED BY <1>1, <2>1
<1> QED BY <1>1, <1>2, <1>4, <1>5, <1>7, <1>8, BlockEncoded

\* A code byte b at e, with its block, is inside l bytes, which are at most M;
\* c counts the bytes of the block.
Fits(M, e, b, l) ==
    /\ M \in Nat /\ e \in Nat \ {0} /\ b \in Nat \ {0} /\ l \in Nat
    /\ l <= M /\ e + b <= l + 1
Counts(M, e, b, l, c) ==
    /\ b = c + 1 /\ c \in 0 .. M - 1 /\ e + c <= l
    /\ e + b = e + (c + 1)
    /\ e + b <= l => c + 1 # M
    /\ e + b = l + 1 => e + c = l

(* A code byte counts itself and the bytes of its block.                   *)
LEMMA CodeByteCounts ==
    ASSUME NEW M, NEW e, NEW b, NEW l, Fits(M, e, b, l)
    PROVE  \E c \in Nat : Counts(M, e, b, l, c)
<1> PICK c \in Nat : c = b - 1
    BY DEF Fits
<1> QED BY DEF Counts, Fits

\* A code byte that is reached.
Reached(r, e) == \E P, t : OpenAt(r, P, e, t)

(* The code byte after a block that does not end the region.               *)
LEMMA NextIsOpen ==
    ASSUME CodeSize, NEW r, ShortRegion(r), NEW P, NEW e, NEW t, OpenAt(r, P, e, t),
           e <= Len(r), NEW next, next = e + r[e], next <= Len(r)
    PROVE  Reached(r, next)
<1>1. /\ e \in Nat \ {0} /\ P \subseteq 1 .. e - 1 /\ Chain(r, P, e) /\ t \in Seq(Nat) /\ Len(t) \in Nat
      /\ r \in Seq(Nat) /\ Len(r) <= MaxCode /\ Len(r) \in Nat /\ MaxCode \in Nat
    BY DEF OpenAt, Chain, ShortRegion, CodeSize
<1>2. e \in 1 .. Len(r) /\ r[e] \in Nat \ {0}
    BY <1>1 DEF ShortRegion
<1> PICK c \in Nat : r[e] = c + 1 /\ next = e + (c + 1) /\ c \in 0 .. MaxCode - 1 /\ c + 1 # MaxCode
  <2>1. Fits(MaxCode, e, r[e], Len(r))
      BY <1>1, <1>2 DEF Fits
  <2> PICK c \in Nat : Counts(MaxCode, e, r[e], Len(r), c)
      BY <2>1, CodeByteCounts
  <2> QED BY DEF Counts
<1>3. e + c <= Len(r) /\ next \in Nat \ {0} /\ next - 1 = e + c
    BY <1>1
<1> PICK v : CopiedTo(r, P, e, c, t, v)
    BY <1>3, BlockCopied
<1>4. v \in Seq(Nat) /\ MadeOf(v, r) /\ Len(v) = Len(t) + c /\ ReadBack(v, Len(t), c, r, P, e)
    BY DEF CopiedTo
<1> PICK n \in Nat : n = Len(v)
    BY <1>4
<1> DEFINE w == v \o <<0>>
<1>5. w \in Seq(Nat) /\ Len(w) = n + 1 /\ w[n + 1] = 0 /\ \A j \in 1 .. n : w[j] = v[j]
    BY <1>4
<1> HIDE DEF w
<1>6. MadeOf(w, r)
  <2>1. \A j \in 1 .. n + 1 : j \in 1 .. n \/ j = n + 1
      OBVIOUS
  <2> QED BY <1>4, <1>5, <2>1 DEF MadeOf
<1>7. Chain(r, P \cup {e}, next)
    BY <1>4 DEF ReadBack
<1>8. StandFor(r, P \cup {e, next}, next, w)
  <2>1. SubSeq(v, 1, Len(t) + c) = v
      BY <1>4
  <2>2. StandFor(r, P \cup {e}, e + c, v)
      BY <1>4, <2>1 DEF ReadBack
  <2>6. \A q \in P : r[q] \in Nat \ {0}
      BY <1>1 DEF Chain
  <2>3. \A q \in P : q \in Nat \ {0} /\ r[q] \in Nat
      BY <1>1, <2>6
  <2>5. \A q \in P : q < e /\ q + r[q] <= e
      BY <1>4 DEF ReadBack
  <2>4. StandFor(r, P \cup {e, next}, next, WithNextCode(v, c))
      BY <1>1, <1>4, <2>2, <2>3, <2>5, NextBlockReadBack
  <2> QED BY <2>4 DEF WithNextCode, w
<1>9. EncodedUpTo(r, next, w)
  <2> SUFFICES ASSUME NEW s \in Seq(Nat), NEW f, StartsWith(s, w), Encodes(s, f)
               PROVE  Completes(f[n + 1], Prefix(r, e + c), f[0])
      BY <1>3, <1>5 DEF EncodedUpTo
  <2>1. Len(s) \in Nat /\ n + 1 <= Len(s) /\ s[n + 1] = 0 /\ \A j \in 1 .. n : s[j] = v[j]
    <3>1. n + 1 <= Len(s) /\ \A j \in 1 .. n + 1 : s[j] = w[j]
        BY <1>5 DEF StartsWith
    <3>2. ASSUME NEW j \in 1 .. n PROVE s[j] = v[j]
      <4>1. j \in 1 .. n + 1
          OBVIOUS
      <4> QED BY <1>5, <3>1, <4>1
    <3>3. n + 1 \in 1 .. n + 1
        OBVIOUS
    <3> QED BY <1>5, <3>1, <3>2, <3>3
  <2>2. StartsWith(s, v)
      BY <2>1 DEF StartsWith
  <2>3. Encoded(s, Len(t), c, f, r, e)
      BY <1>3, <2>1, <2>2, BlockCanonical
  <2>4. Len(t) + c # Len(s) /\ c # MaxCode - 1 /\ Len(t) + c + 1 = n + 1
      BY <1>1, <1>4, <2>1
  <2> QED BY <2>3, <2>4 DEF Encoded
<1>10. (P \cup {e}) \cup {next} = P \cup {e, next}
    OBVIOUS
<1> QED BY <1>5, <1>6, <1>7, <1>8, <1>9, <1>10 DEF OpenAt, Reached

\* The region stands for v, and is its encoding.
Canonical(r, v) ==
    v \in Seq(Nat) /\ MadeOf(v, r) /\ Decodable(r) /\ Decoding(r) = v /\ Encoding(v) = r

(* The block that ends the region.                                         *)
LEMMA LastIsCanonical ==
    ASSUME CodeSize, NEW r, ShortRegion(r), NEW P, NEW e, NEW t, OpenAt(r, P, e, t),
           e <= Len(r), e + r[e] = Len(r) + 1
    PROVE  \E v : Canonical(r, v)
<1>1. /\ e \in Nat \ {0} /\ Chain(r, P, e) /\ t \in Seq(Nat) /\ Len(t) \in Nat
      /\ r \in Seq(Nat) /\ Len(r) <= MaxCode /\ Len(r) \in Nat \ {0} /\ MaxCode \in Nat
    BY DEF OpenAt, Chain, ShortRegion, CodeSize
<1>2. e \in 1 .. Len(r) /\ r[e] \in Nat \ {0}
    BY <1>1 DEF ShortRegion
<1> PICK c \in Nat : r[e] = c + 1 /\ e + c = Len(r) /\ e + c <= Len(r) /\ c \in 0 .. MaxCode - 1
  <2>1. Fits(MaxCode, e, r[e], Len(r))
      BY <1>1, <1>2 DEF Fits
  <2> PICK c \in Nat : Counts(MaxCode, e, r[e], Len(r), c)
      BY <2>1, CodeByteCounts
  <2> QED BY DEF Counts
<1> PICK v : CopiedTo(r, P, e, c, t, v)
    BY <1>1, BlockCopied
<1>3. v \in Seq(Nat) /\ Len(v) \in Nat /\ MadeOf(v, r) /\ Len(v) = Len(t) + c /\ ReadBack(v, Len(t), c, r, P, e)
    BY DEF CopiedTo
<1>4. Chain(r, P \cup {e}, Len(r) + 1)
  <2>1. e + (c + 1) = Len(r) + 1
      BY <1>1
  <2> QED BY <1>3, <2>1 DEF ReadBack
<1>5. StandFor(r, P \cup {e}, Len(r), v)
  <2>1. SubSeq(v, 1, Len(t) + c) = v
      BY <1>3
  <2> QED BY <1>3, <2>1 DEF ReadBack
<1>6. Decodable(r) /\ Decoding(r) = v
  <2>1. r # <<>>
      BY <1>1
  <2> QED BY <1>1, <1>4, <1>5, <2>1, DecodingFollowed
<1>7. Encoding(v) = r
  <2> PICK f : Encodes(v, f) /\ Encoding(v) = f[0]
      BY <1>3, EncodingFollowed
  <2>1. StartsWith(v, v)
      BY <1>3 DEF StartsWith
  <2>5. c = MaxCode - 1 \/ Len(v) = Len(v) \/ v[Len(v) + 1] = 0
      OBVIOUS
  <2>2. Encoded(v, Len(t), c, f, r, e)
      BY <1>3, <2>1, <2>5, BlockCanonical
  <2>3. Prefix(r, Len(r)) = f[0]
      BY <1>3, <2>2 DEF Encoded
  <2>4. Prefix(r, Len(r)) = r
      BY <1>1 DEF Prefix
  <2> QED BY <2>3, <2>4
<1> QED BY <1>3, <1>6, <1>7 DEF Canonical

(* Every code byte of a decodable region is reached.                       *)
LEMMA AllAreOpen ==
    ASSUME CodeSize, NEW r, ShortRegion(r), NEW Q \in SUBSET (1 .. Len(r)), IsCodePosition(r, Q)
    PROVE  \A e \in Q : Reached(r, e)
<1> SUFFICES ASSUME NEW x \in Q, ~ Reached(r, x) PROVE FALSE
    OBVIOUS
<1> DEFINE T == {e \in Q : ~ Reached(r, e)}
<1>1. T \in SUBSET Nat /\ T # {}
  <2>1. x \in T
      OBVIOUS
  <2>2. Q \subseteq Nat
      OBVIOUS
  <2> HIDE DEF Reached
  <2> QED BY <2>1, <2>2
<1>2. PICK e \in T : \A m \in T : e <= m
  <2> HIDE DEF T
  <2> QED BY <1>1, LeastElement
<1>3. e \in Q /\ e \in 1 .. Len(r) /\ ~ Reached(r, e)
    OBVIOUS
<1>4. e # 1
    BY <1>3, FirstIsOpen DEF Reached
<1> PICK q \in Q : q + r[q] = e
    BY <1>3, <1>4 DEF IsCodePosition
<1>5. q \in 1 .. Len(r) /\ r[q] \in Nat \ {0}
    BY DEF ShortRegion
<1>6. q < e /\ q \notin T
    BY <1>2, <1>3, <1>5
<1> PICK P, t : OpenAt(r, P, q, t)
    BY <1>6 DEF Reached
<1>7. e <= Len(r)
    BY <1>3
<1> QED BY <1>3, <1>7, NextIsOpen

(* The last code byte's block ends the region.                             *)
LEMMA LastCodeByte ==
    ASSUME NEW r \in Seq(Nat \ {0}), NEW Q \in SUBSET (1 .. Len(r)), IsCodePosition(r, Q)
    PROVE  \E e \in Q : e + r[e] = Len(r) + 1
<1> DEFINE T == {Len(r) - e : e \in Q}
<1>1. T \in SUBSET Nat /\ T # {}
    BY DEF IsCodePosition
<1>2. PICK m \in T : \A k \in T : m <= k
  <2> HIDE DEF T
  <2> QED BY <1>1, LeastElement
<1>3. PICK e \in Q : m = Len(r) - e
    OBVIOUS
<1>4. e \in 1 .. Len(r) /\ r[e] \in Nat \ {0}
    OBVIOUS
<1>5. e + r[e] \notin Q
  <2> SUFFICES ASSUME NEW k \in Q, k = e + r[e] PROVE FALSE
      OBVIOUS
  <2>1. Len(r) - k \in T
      OBVIOUS
  <2>2. m <= Len(r) - k
      BY <1>2, <2>1
  <2> QED BY <1>3, <1>4, <2>2
<1> QED BY <1>5 DEF IsCodePosition

(* A decodable region is what its decoding encodes to.                     *)
THEOREM RegionsAreCanonical ==
    ASSUME CodeSize, NEW r, ShortRegion(r), Decodable(r)
    PROVE  Canonical(r, Decoding(r))
<1>1. r \in Seq(Nat) /\ Len(r) \in Nat \ {0} /\ r # <<>>
    BY DEF ShortRegion, CodeSize
<1> PICK Q \in SUBSET (1 .. Len(r)) : IsCodePosition(r, Q)
    BY <1>1 DEF Decodable, CodePositions
<1>2. r \in Seq(Nat \ {0})
    BY <1>1 DEF ShortRegion
<1> PICK e \in Q : e + r[e] = Len(r) + 1
    BY <1>2, LastCodeByte
<1> PICK P, t : OpenAt(r, P, e, t)
    BY AllAreOpen DEF Reached
<1> PICK v : Canonical(r, v)
    BY LastIsCanonical
<1> QED BY DEF Canonical

-----------------------------------------------------------------------------
\* A sequence of n bytes of S.
BytesOf(S, n, x) == x \in Seq(Nat) /\ Len(x) = n /\ \A i \in 1 .. n : x[i] \in S

\* The bytes of x are those of b, then those of g.
BothIn(b, g, x) ==
    /\ x \in Seq(Nat) /\ Len(x) = Len(b) + Len(g)
    /\ \A i \in 1 .. Len(b) : x[i] = b[i]
    /\ \A i \in 1 .. Len(g) : x[Len(b) + i] = g[i]

(* The bytes of two sequences, one behind the other.                       *)
LEMMA Concatenation ==
    ASSUME NEW b \in Seq(Nat), NEW g \in Seq(Nat), NEW x, Completes(g, b, x)
    PROVE  BothIn(b, g, x)
<1>1. x = b \o g
    BY DEF Completes
<1>2. x \in Seq(Nat) /\ Len(x) = Len(b) + Len(g)
    BY <1>1
<1>3. \A i \in 1 .. Len(b) : x[i] = b[i]
    BY <1>1
<1>4. \A i \in 1 .. Len(g) : x[Len(b) + i] = g[i]
    BY <1>1
<1> QED BY <1>2, <1>3, <1>4 DEF BothIn

(* A function on 1 .. n is a sequence.                                     *)
LEMMA FunctionIsSeq == ASSUME NEW S, NEW n \in Nat, NEW x \in [1 .. n -> S] PROVE x \in Seq(S)
OBVIOUS

\* The n bytes after the first k are the rest of l + 1.
EndsAt(k, n, l) == k + n = l + 1

(* A block and what follows it.                                            *)
LEMMA EndsWithBlock ==
    ASSUME NEW l \in Nat, NEW k \in Nat, NEW d \in Nat, NEW n \in Nat, EndsAt(k + d, n, l)
    PROVE  EndsAt(k, d + n, l)
BY DEF EndsAt

(* What is put together of bytes is made of bytes.                         *)
LEMMA JoinedBytes ==
    ASSUME NEW S, NEW m \in Nat, NEW b, BytesOf(S, m, b), NEW n \in Nat, NEW g, BytesOf(S, n, g),
           NEW x, Completes(g, b, x)
    PROVE  BytesOf(S, m + n, x)
<1>1. /\ b \in Seq(Nat) /\ Len(b) = m /\ \A i \in 1 .. m : b[i] \in S
      /\ g \in Seq(Nat) /\ Len(g) = n /\ \A i \in 1 .. n : g[i] \in S
    BY DEF BytesOf
<1>0. b \in Seq(Nat) /\ g \in Seq(Nat)
    BY <1>1
<1>2. x \in Seq(Nat) /\ Len(x) = Len(b) + Len(g)
    BY <1>0, Concatenation DEF BothIn
<1>3. \A i \in 1 .. Len(b) : x[i] = b[i]
    BY <1>0, Concatenation DEF BothIn
<1>4. \A i \in 1 .. Len(g) : x[Len(b) + i] = g[i]
    BY <1>0, Concatenation DEF BothIn
<1>5. ASSUME NEW i \in 1 .. m + n PROVE x[i] \in S
  <2>1. CASE i <= m
      BY <1>1, <1>3, <2>1
  <2>2. CASE ~ (i <= m)
    <3>1. i - m \in 1 .. n /\ m + (i - m) = i
        BY <2>2
    <3> QED BY <1>1, <1>4, <3>1
  <2> QED BY <2>1, <2>2
<1> QED BY <1>2, <1>5 DEF BytesOf

\* The bytes of s are not greater than a code byte can be.
Bytes(s) == \A k \in 1 .. Len(s) : s[k] <= MaxCode

(* A byte that is not zero can be a code byte.                             *)
LEMMA ByteOf ==
    ASSUME CodeSize, NEW s \in Seq(Nat), Bytes(s), NEW i \in 1 .. Len(s), s[i] # 0
    PROVE  s[i] \in 1 .. MaxCode
<1> PICK v \in Nat : v = s[i]
    OBVIOUS
<1> QED BY DEF Bytes, CodeSize

\* The encoding f of what follows byte k of s is one byte longer, and has no zero.
GrowsByOne(s, k, f) ==
    \E n \in Nat : BytesOf(1 .. MaxCode, n, f[k]) /\ EndsAt(k, n, Len(s))

(* One more block, whose zero is left out.                                 *)
LEMMA BlockGrowsByOne ==
    ASSUME CodeSize, NEW s \in Seq(Nat), Bytes(s), Len(s) < MaxCode, NEW f, Encodes(s, f),
           NEW k \in 0 .. Len(s), \A j \in k + 1 .. Len(s) : GrowsByOne(s, j, f)
    PROVE  GrowsByOne(s, k, f)
<1>0. MaxCode \in Nat /\ k \in Nat /\ Len(s) \in Nat
    BY DEF CodeSize
<1> PICK c \in Nat : c = RunLength(s, k) /\ IsRun(s, k, c) /\ c < MaxCode
  <2>1. RunLength(s, k) \in 0 .. MaxCode - 1 /\ IsRun(s, k, RunLength(s, k))
      BY RunIs
  <2> QED BY <1>0, <2>1
<1>1. k + c <= Len(s)
    BY DEF IsRun
<1> PICK b \in Seq(Nat) : BeginsWith(s, k, c, f, b)
    BY EncodesStep
<1> PICK d \in Nat : d = c + 1
    OBVIOUS
<1>2. ASSUME NEW i \in 1 .. d PROVE b[i] \in 1 .. MaxCode
  <2>1. CASE i = 1
    <3>1. b[i] = d /\ d <= MaxCode /\ 1 <= d
        BY <1>0, <2>1 DEF BeginsWith
    <3> QED BY <1>0, <3>1
  <2>2. CASE i # 1
    <3> PICK j \in 1 .. c : i = j + 1
      <4>1. i - 1 \in 1 .. c /\ i = (i - 1) + 1
          BY <2>2
      <4> QED BY <4>1
    <3>1. b[i] = s[k + j] /\ s[k + j] # 0
        BY DEF BeginsWith, IsRun
    <3>2. k + j \in 1 .. Len(s)
        BY <1>0, <1>1
    <3>3. s[k + j] \in 1 .. MaxCode
        BY <3>1, <3>2, ByteOf
    <3> QED BY <3>1, <3>3
  <2> QED BY <2>1, <2>2
<1>3. BytesOf(1 .. MaxCode, d, b)
    BY <1>2 DEF BytesOf, BeginsWith
<1>4. CASE k + c = Len(s)
  <2>1. f[k] = b
      BY <1>4 DEF BeginsWith
  <2>2. EndsAt(k, d, Len(s))
      BY <1>0, <1>4 DEF EndsAt
  <2> QED BY <1>3, <2>1, <2>2 DEF GrowsByOne
<1>5. CASE k + c # Len(s)
  <2>1. After(s, k) = k + d /\ k + d \in k + 1 .. Len(s)
    <3>1. After(s, k) \in k + 1 .. Len(s)
        BY <1>5, GoesRight
    <3>2. c # MaxCode - 1
        BY <1>0, <1>1, <1>5
    <3>3. After(s, k) = k + c + 1
        BY <3>2 DEF After
    <3>4. k + c + 1 = k + d
        BY <1>0
    <3> QED BY <3>1, <3>3, <3>4
  <2> PICK g : g = f[k + d] /\ Completes(g, b, f[k])
      BY <1>5, <2>1 DEF BeginsWith
  <2> PICK n \in Nat : BytesOf(1 .. MaxCode, n, g) /\ EndsAt(k + d, n, Len(s))
      BY <2>1 DEF GrowsByOne
  <2>3. BytesOf(1 .. MaxCode, d + n, f[k])
      BY <1>3, JoinedBytes
  <2>4. EndsAt(k, d + n, Len(s))
      BY <1>0, EndsWithBlock
  <2> QED BY <2>3, <2>4 DEF GrowsByOne
<1> QED BY <1>4, <1>5

(* So does every block, from the last one back to the first.               *)
LEMMA AllGrowByOne ==
    ASSUME CodeSize, NEW s \in Seq(Nat), Bytes(s), Len(s) < MaxCode, NEW f, Encodes(s, f)
    PROVE  \A k \in 0 .. Len(s) : GrowsByOne(s, k, f)
<1> PICK l \in Nat : l = Len(s)
    OBVIOUS
<1> SUFFICES ASSUME NEW x \in 0 .. l, ~ GrowsByOne(s, x, f) PROVE FALSE
    OBVIOUS
<1> DEFINE T == {m \in 0 .. l : ~ GrowsByOne(s, l - m, f)}
<1>1. T \in SUBSET Nat /\ T # {}
  <2>1. l - x \in 0 .. l /\ l - (l - x) = x
      OBVIOUS
  <2>2. l - x \in T
      BY <2>1
  <2>3. 0 .. l \subseteq Nat
      OBVIOUS
  <2> QED BY <2>2, <2>3
<1> PICK m \in T : \A i \in T : m <= i
  <2> HIDE DEF T
  <2> QED BY <1>1, LeastElement
<1> PICK k \in 0 .. l : k = l - m
    OBVIOUS
<1>2. ASSUME NEW j \in k + 1 .. l PROVE GrowsByOne(s, j, f)
  <2>1. l - j \in 0 .. l /\ l - (l - j) = j /\ l - j < m
      OBVIOUS
  <2>2. l - j \notin T
      BY <2>1
  <2> QED BY <2>1, <2>2
<1>3. ~ GrowsByOne(s, k, f)
    OBVIOUS
<1> HIDE DEF T
<1> QED BY <1>2, <1>3, BlockGrowsByOne

(* A sequence of bytes that is shorter than MaxCode becomes one byte       *)
(* longer, and has no zero.                                                *)
THEOREM ShortEncoding ==
    ASSUME CodeSize, NEW s \in Seq(Nat), Bytes(s), Len(s) < MaxCode
    PROVE  Encoding(s) \in Seq(1 .. MaxCode) /\ Len(Encoding(s)) = Len(s) + 1
<1>0. Len(s) \in Nat /\ MaxCode \in Nat
    BY DEF CodeSize
<1> PICK f : Encodes(s, f) /\ Encoding(s) = f[0]
    BY <1>0, EncodingFollowed
<1> PICK n \in Nat : BytesOf(1 .. MaxCode, n, f[0]) /\ EndsAt(0, n, Len(s))
  <2>1. 0 \in 0 .. Len(s)
      BY <1>0
  <2> QED BY <2>1, AllGrowByOne DEF GrowsByOne
<1>1. n = Len(s) + 1
    BY <1>0 DEF EndsAt
<1> PICK x \in Seq(Nat) : x = f[0]
    BY DEF BytesOf
<1>2. x \in [1 .. n -> 1 .. MaxCode] /\ Len(x) = n
    BY DEF BytesOf
<1> DEFINE S == 1 .. MaxCode
<1>3. x \in [1 .. n -> S]
    BY <1>2
<1> HIDE DEF S
<1>4. x \in Seq(S)
    BY <1>3, FunctionIsSeq
<1> QED BY <1>1, <1>2, <1>4 DEF S

-----------------------------------------------------------------------------
\* The blocks of u before some position encode the bytes of s up to start.
EncodedSoFar(s, u, start) == \E e \in Nat \ {0} : BlocksOf(s, start, u, e)

(* The encoding of s goes on with a block for the next bytes.              *)
LEMMA NextBlockWritten ==
    ASSUME CodeSize, NEW s \in Seq(Nat), NEW u \in Seq(Nat), u = Encoding(s),
           NEW start \in 0 .. Len(s), NEW e \in Nat \ {0}, BlocksOf(s, start, u, e),
           NEW c \in Nat, c = RunLength(s, start)
    PROVE  Wrote(s, start, c, u, e)
<1> PICK f : Encodes(s, f) /\ u = f[0]
    BY EncodingFollowed
<1> PICK m \in Nat : m = e - 1 /\ e = m + 1
    OBVIOUS
<1> PICK w \in Seq(Nat) : w = Prefix(u, m) /\ Len(w) = m
  <2>1. \A k \in 1 .. m : u[k] \in Nat
      BY DEF BlocksOf
  <2> QED BY <2>1, PrefixShape
<1> PICK x \in Seq(Nat) : x = f[start]
    BY EncodesSeqs
<1>1. Completes(x, w, u)
    BY DEF BlocksOf
<1>2. \A i \in 1 .. Len(x) : u[m + i] = x[i]
  <2>1. BothIn(w, x, u)
      BY <1>1, Concatenation
  <2> QED BY <2>1 DEF BothIn
<1> PICK b \in Seq(Nat) : BeginsWith(s, start, c, f, b)
    BY EncodesStep
<1>3. Len(b) = c + 1 /\ b[1] = c + 1 /\ \A j \in 1 .. c : b[j + 1] = s[start + j]
    BY DEF BeginsWith
<1>4. Len(x) >= c + 1 /\ \A i \in 1 .. c + 1 : x[i] = b[i]
  <2>1. CASE start + c = Len(s)
    <3>1. x = b
        BY <2>1 DEF BeginsWith
    <3>2. Len(x) >= c + 1
        BY <1>3, <3>1
    <3> QED BY <3>1, <3>2
  <2>2. CASE start + c # Len(s)
    <3> PICK g \in Seq(Nat) : Completes(g, b, x)
        BY <2>2 DEF BeginsWith
    <3>1. BothIn(b, g, x)
        BY Concatenation
    <3> QED BY <1>3, <3>1 DEF BothIn
  <2> QED BY <2>1, <2>2
<1>5. \A i \in 1 .. c + 1 : u[m + i] = b[i]
  <2> SUFFICES ASSUME NEW i \in 1 .. c + 1 PROVE u[m + i] = b[i]
      OBVIOUS
  <2>1. i \in 1 .. Len(x)
      BY <1>4
  <2> QED BY <1>2, <1>4, <2>1
<1>6. u[e] = c + 1
  <2>1. 1 \in 1 .. c + 1
      OBVIOUS
  <2> QED BY <1>3, <1>5, <2>1
<1>7. ASSUME NEW j \in 1 .. c PROVE u[e + j] = s[start + j]
  <2>1. j + 1 \in 1 .. c + 1 /\ m + (j + 1) = e + j
      OBVIOUS
  <2>2. u[m + (j + 1)] = b[j + 1]
      BY <1>5, <2>1
  <2> QED BY <1>3, <2>1, <2>2
<1> QED BY <1>6, <1>7 DEF Wrote

(* So it goes on to the end.                                               *)
LEMMA EncodedFurther ==
    ASSUME CodeSize, NEW s \in Seq(Nat), NEW u \in Seq(Nat), u = Encoding(s),
           NEW start \in 0 .. Len(s), EncodedSoFar(s, u, start),
           ~ \E n : EncodedIn(s, u, n)
    PROVE  \E next \in start + 1 .. Len(s) : EncodedSoFar(s, u, next)
<1> PICK e \in Nat \ {0} : BlocksOf(s, start, u, e)
    BY DEF EncodedSoFar
<1> PICK c \in Nat : c = RunLength(s, start) /\ c \in 0 .. MaxCode - 1 /\ IsRun(s, start, c)
    BY RunIs DEF CodeSize
<1>1. Wrote(s, start, c, u, e)
    BY NextBlockWritten
<1>2. start + c # Len(s)
    BY <1>1, BlockClosed
<1>3. BlocksOf(s, After(s, start), u, e + (c + 1))
    BY <1>1, <1>2, BlockClosed DEF After
<1>4. After(s, start) \in start + 1 .. Len(s)
  <2>1. start + RunLength(s, start) # Len(s)
      BY <1>2
  <2>2. Len(s) \in Nat
      OBVIOUS
  <2> QED BY <2>1, <2>2, GoesRight
<1>5. e + (c + 1) \in Nat \ {0}
    OBVIOUS
<1> QED BY <1>3, <1>4, <1>5 DEF EncodedSoFar

(* Decoding undoes encoding, for sequences of every length.                *)
THEOREM DecodingUndoesEncoding ==
    ASSUME CodeSize, NEW s \in Seq(Nat)
    PROVE  Decodable(Encoding(s)) /\ Decoding(Encoding(s)) = s
<1> PICK f : Encodes(s, f) /\ Encoding(s) = f[0]
    BY EncodingFollowed
<1> PICK u \in Seq(Nat) : u = Encoding(s)
    BY EncodesSeqs
<1> PICK l \in Nat : l = Len(s)
    OBVIOUS
<1> SUFFICES ASSUME ~ \E n : EncodedIn(s, u, n) PROVE FALSE
    BY DEF EncodedIn
<1> DEFINE T == {m \in 0 .. l : EncodedSoFar(s, u, l - m)}
<1>1. T \in SUBSET Nat /\ T # {}
  <2>1. BlocksOf(s, 0, u, 1)
      BY NoBlocksYet
  <2>2. EncodedSoFar(s, u, 0)
      BY <2>1 DEF EncodedSoFar
  <2>3. l \in 0 .. l /\ l - l = 0 /\ 0 .. l \subseteq Nat
      OBVIOUS
  <2>4. l \in T
      BY <2>2, <2>3
  <2> QED BY <2>3, <2>4
<1> PICK m \in T : \A i \in T : m <= i
  <2> HIDE DEF T
  <2> QED BY <1>1, LeastElement
<1> PICK start \in 0 .. l : start = l - m /\ EncodedSoFar(s, u, start)
    OBVIOUS
<1> PICK next \in start + 1 .. l : EncodedSoFar(s, u, next)
    BY EncodedFurther
<1>2. l - next \in 0 .. l /\ l - (l - next) = next /\ l - next < m
    OBVIOUS
<1>3. l - next \in T
    BY <1>2
<1> QED BY <1>2, <1>3

=============================================================================
