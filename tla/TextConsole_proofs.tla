--------------------------- MODULE TextConsole_proofs --------------------------
(***************************************************************************)
(* What print and scroll make of any text: lemmas about the recursive      *)
(* functions of the text console, by induction over the number of          *)
(* characters.                                                             *)
(***************************************************************************)
EXTENDS TextConsole, SequenceTheorems, FiniteSetTheorems, WellFoundedInduction, TLAPS

-----------------------------------------------------------------------------
(* Induction, with a set in the place of a predicate. *)
LEMMA Less ==
  ASSUME NEW x \in Nat, NEW y \in Nat, x < y
  PROVE  <<x, y>> \in OpToRel(<, Nat)
  BY DEF OpToRel

LEMMA Least ==
  ASSUME NEW T \in SUBSET Nat, T # {}
  PROVE  \E x \in T : \A y \in T : x <= y
<1> DEFINE R == OpToRel(<, Nat)
<1>1. IsWellFoundedOn(R, Nat)
  BY NatLessThanWellFounded
<1> HIDE DEF R
<1>2. PICK x \in T : \A y \in T : ~(<<y, x>> \in R)
  BY <1>1, WFMin
<1>3. ASSUME NEW y \in T PROVE x <= y
  <2> SUFFICES ASSUME y < x PROVE FALSE
    OBVIOUS
  <2>1. <<y, x>> \in OpToRel(<, Nat)
    BY Less
  <2> QED  BY <1>2, <2>1 DEF R
<1> QED  BY <1>3

LEMMA Induction ==
  ASSUME NEW S, 0 \in S, \A n \in Nat : n \in S => n + 1 \in S
  PROVE  Nat \subseteq S
<1> SUFFICES ASSUME Nat \ S # {} PROVE FALSE
  OBVIOUS
<1>1. PICK x \in Nat \ S : \A y \in Nat \ S : x <= y
  <2> DEFINE T == Nat \ S
  <2>1. T \in SUBSET Nat /\ T # {}
    OBVIOUS
  <2> HIDE DEF T
  <2>2. \E x \in T : \A y \in T : x <= y
    BY <2>1, Least
  <2> QED  BY <2>2 DEF T
<1>2. x - 1 \in Nat /\ x - 1 < x /\ x - 1 + 1 = x
  OBVIOUS
<1>3. x - 1 \in Nat \ S
  BY <1>2
<1> QED  BY <1>1, <1>2, <1>3

(* A recursion over an interval has a solution. *)
StepsIn(S) == [Nat \X S -> S]

Solution(f, S, base, step, L) ==
  /\ f \in [0 .. L -> S]
  /\ f[0] = base
  /\ \A n \in 1 .. L : f[n] = step[<<n, f[n - 1]>>]

LEMMA Recursion ==
  ASSUME NEW S, NEW base \in S, NEW step \in StepsIn(S), NEW L \in Nat
  PROVE  \E f : Solution(f, S, base, step, L)
<1>0. step \in [Nat \X S -> S]
  BY DEF StepsIn
<1> DEFINE Solves(f, k) == /\ f \in [0 .. k -> S]
                           /\ f[0] = base
                           /\ \A n \in 1 .. k : f[n] = step[<<n, f[n - 1]>>]
           A == {k \in Nat : \E f : Solves(f, k)}
<1>1. 0 \in A
  <2>1. Solves([n \in 0 .. 0 |-> base], 0)
    OBVIOUS
  <2> QED  BY <2>1
<1>2. ASSUME NEW k \in Nat, k \in A PROVE k + 1 \in A
  <2>1. PICK f : Solves(f, k)
    BY <1>2
  <2> DEFINE g == [n \in 0 .. k + 1 |-> IF n = k + 1 THEN step[<<k + 1, f[k]>>] ELSE f[n]]
  <2>2. f[k] \in S /\ step[<<k + 1, f[k]>>] \in S
    BY <1>0, <2>1
  <2>3. g \in [0 .. k + 1 -> S]
    BY <2>1, <2>2
  <2>4. g[0] = base
    BY <2>1
  <2>5. ASSUME NEW n \in 1 .. k + 1 PROVE g[n] = step[<<n, g[n - 1]>>]
    <3>1. CASE n = k + 1
      <4>1. g[k + 1] = step[<<k + 1, f[k]>>] /\ g[k] = f[k] /\ k + 1 - 1 = k
        OBVIOUS
      <4> HIDE DEF g
      <4> QED  BY <3>1, <4>1
    <3>2. CASE n # k + 1
      <4>1. n \in 1 .. k /\ n - 1 \in 0 .. k + 1 /\ n - 1 # k + 1 /\ n \in 0 .. k + 1
        BY <3>2
      <4>2. g[n] = f[n] /\ g[n - 1] = f[n - 1]
        BY <3>2, <4>1
      <4> QED  BY <2>1, <4>1, <4>2
    <3> QED  BY <3>1, <3>2
  <2>6. Solves(g, k + 1)
    BY <2>3, <2>4, <2>5
  <2> HIDE DEF Solves, g
  <2> QED  BY <2>6
<1> HIDE DEF A
<1>3. L \in A
  BY <1>1, <1>2, Induction
<1> QED  BY <1>3 DEF A, Solution

-----------------------------------------------------------------------------
(* Wrapping. *)
State == [text : Seq(Chars), width : 0 .. WIDTH - 1]

Piece(width, c) == Append(Broken(width, c), c)

Step(sofar, c) ==
  [text |-> sofar.text \o Piece(sofar.width, c), width |-> Grown(sofar.width, c)]

LEMMA Widths ==
  /\ WIDTH \in Nat /\ WIDTH >= 2
  /\ NewLine \in Chars /\ MAX_LINES \in Nat /\ MAX_LINES > 0
  /\ \A c \in Chars : CharWidth[c] \in Nat /\ CharWidth[c] >= 1 /\ CharWidth[c] <= WIDTH - 1
<1>1. /\ WIDTH \in Nat /\ NewLine \in Chars /\ MAX_LINES \in Nat \ {0}
      /\ CharWidth \in [Chars -> 1 .. WIDTH - 1]
  BY ConsoleAssumption
<1>2. \A c \in Chars : CharWidth[c] \in 1 .. WIDTH - 1
  BY <1>1
<1>3. CharWidth[NewLine] \in 1 .. WIDTH - 1
  BY <1>1, <1>2
<1> QED  BY <1>1, <1>2, <1>3

LEMMA PieceTyped ==
  ASSUME NEW width \in 0 .. WIDTH - 1, NEW c \in Chars
  PROVE  /\ Broken(width, c) \in Seq(Chars) /\ Piece(width, c) \in Seq(Chars)
         /\ Len(Piece(width, c)) = IF Overflows(width, c) THEN 2 ELSE 1
         /\ Piece(width, c)[Len(Piece(width, c))] = c
         /\ Overflows(width, c) => Piece(width, c)[1] = NewLine
         /\ Grown(width, c) \in 0 .. WIDTH - 1
         /\ Grown(width, c) >= CharWidth[c]
<1>1. NewLine \in Chars /\ WIDTH \in Nat /\ CharWidth[c] \in Nat /\ CharWidth[c] <= WIDTH - 1
  BY Widths
<1>2. Broken(width, c) \in Seq(Chars)
  BY <1>1 DEF Broken
<1>3. Len(Broken(width, c)) = IF Overflows(width, c) THEN 1 ELSE 0
  BY DEF Broken
<1>4. Overflows(width, c) => Broken(width, c)[1] = NewLine
  BY DEF Broken
<1>5. /\ Piece(width, c) \in Seq(Chars)
      /\ Len(Piece(width, c)) = Len(Broken(width, c)) + 1
      /\ Piece(width, c)[Len(Broken(width, c)) + 1] = c
      /\ \A i \in 1 .. Len(Broken(width, c)) : Piece(width, c)[i] = Broken(width, c)[i]
  BY <1>2, AppendProperties DEF Piece
<1>6. Grown(width, c) \in 0 .. WIDTH - 1 /\ Grown(width, c) >= CharWidth[c]
  BY <1>1 DEF Grown, Overflows
<1> QED  BY <1>2, <1>3, <1>4, <1>5, <1>6

LEMMA StepParts ==
  ASSUME NEW sofar, NEW c
  PROVE  /\ Step(sofar, c).text = sofar.text \o Piece(sofar.width, c)
         /\ Step(sofar, c).width = Grown(sofar.width, c)
  BY DEF Step

LEMMA StepTyped ==
  ASSUME NEW sofar \in State, NEW c \in Chars
  PROVE  Step(sofar, c) \in State
<1>1. sofar.text \in Seq(Chars) /\ sofar.width \in 0 .. WIDTH - 1
  BY DEF State
<1>2. Piece(sofar.width, c) \in Seq(Chars) /\ Grown(sofar.width, c) \in 0 .. WIDTH - 1
  BY <1>1, PieceTyped
<1>3. sofar.text \o Piece(sofar.width, c) \in Seq(Chars)
  BY <1>1, <1>2, ConcatProperties
<1> QED  BY <1>2, <1>3 DEF State, Step

Blank == [text |-> <<>>, width |-> 0]

Steps(s) ==
  [p \in Nat \X State |-> IF p[1] \in 1 .. Len(s) THEN Step(p[2], s[p[1]]) ELSE p[2]]

LEMMA WrappingDef ==
  ASSUME NEW s \in Seq(Chars)
  PROVE  /\ Wrapping(s)[0] = Blank
         /\ \A n \in 1 .. Len(s) : Wrapping(s)[n] = Step(Wrapping(s)[n - 1], s[n])
         /\ \A n \in 0 .. Len(s) : Wrapping(s)[n] \in State
<1> DEFINE L == Len(s)
           D(g) == [n \in 0 .. L |-> IF n = 0 THEN Blank ELSE Step(g[n - 1], s[n])]
           step == Steps(s)
<1>1. L \in Nat /\ \A n \in 1 .. L : s[n] \in Chars
  BY LenProperties
<1>2. Blank \in State
  BY Widths DEF Blank, State
<1>3. step \in StepsIn(State)
  BY <1>1, StepTyped DEF Steps, StepsIn
<1> HIDE DEF L
<1>4. PICK f : Solution(f, State, Blank, step, L)
  <2> HIDE DEF step
  <2> QED  BY <1>1, <1>2, <1>3, Recursion
<1>5. \A n \in 1 .. L : f[n] = Step(f[n - 1], s[n])
  <2> SUFFICES ASSUME NEW n \in 1 .. L PROVE f[n] = Step(f[n - 1], s[n])
    OBVIOUS
  <2>1. n \in Nat /\ n - 1 \in 0 .. L
    BY <1>1
  <2>2. <<n, f[n - 1]>> \in Nat \X State
    BY <1>4, <2>1 DEF Solution
  <2> QED  BY <1>4, <2>2 DEF Solution, Steps, L
<1>6. f = D(f)
  BY <1>1, <1>4, <1>5 DEF Solution
<1>7. Wrapping(s) = CHOOSE g : g = D(g)
  BY DEF Wrapping, Step, Piece, Blank, L
<1>8. Wrapping(s) = D(Wrapping(s))
  <2> HIDE DEF D
  <2> QED  BY <1>6, <1>7
<1>9. /\ Wrapping(s)[0] = Blank
      /\ \A n \in 1 .. L : Wrapping(s)[n] = Step(Wrapping(s)[n - 1], s[n])
  BY <1>1, <1>8
<1> DEFINE A == {n \in Nat : n <= L => Wrapping(s)[n] \in State}
<1>10. 0 \in A
  BY <1>2, <1>9
<1>11. ASSUME NEW n \in Nat, n \in A PROVE n + 1 \in A
  <2> SUFFICES ASSUME n + 1 <= L PROVE Wrapping(s)[n + 1] \in State
    OBVIOUS
  <2>1. n + 1 \in 1 .. L /\ n + 1 - 1 = n /\ Wrapping(s)[n] \in State
    BY <1>1, <1>11
  <2> QED  BY <1>1, <1>9, <2>1, StepTyped
<1>12. \A n \in 0 .. L : Wrapping(s)[n] \in State
  <2> HIDE DEF A
  <2>1. Nat \subseteq A
    BY <1>10, <1>11, Induction
  <2> QED  BY <1>1, <2>1 DEF A
<1> QED  BY <1>9, <1>12 DEF L

LEMMA EndOfConcat ==
  ASSUME NEW a \in Seq(Chars), NEW b \in Seq(Chars), Len(b) > 0
  PROVE  /\ a \o b \in Seq(Chars) /\ Len(a \o b) > 0
         /\ Last(a \o b) = Last(b)
<1>1. Len(a) \in Nat /\ Len(b) \in Nat
  BY LenProperties
<1>2. /\ a \o b \in Seq(Chars) /\ Len(a \o b) = Len(a) + Len(b)
      /\ \A i \in 1 .. Len(a) + Len(b) : (a \o b)[i] = IF i <= Len(a) THEN a[i]
                                                     ELSE b[i - Len(a)]
  BY ConcatProperties
<1>3. (a \o b)[Len(a) + Len(b)] = b[Len(b)]
  BY <1>1, <1>2
<1> QED  BY <1>1, <1>2, <1>3 DEF Last

(* What a message becomes ends its line. *)
LEMMA WrappedTyped ==
  ASSUME NEW m \in Seq(Chars)
  PROVE  /\ Append(m, NewLine) \in Seq(Chars) /\ Len(Append(m, NewLine)) = Len(m) + 1
         /\ Wrapped(m) \in Seq(Chars) /\ Len(Wrapped(m)) > 0
         /\ Last(Wrapped(m)) = NewLine
<1> DEFINE s == Append(m, NewLine)
           L == Len(m) + 1
<1>1. /\ s \in Seq(Chars) /\ Len(s) = L /\ s[L] = NewLine /\ Len(m) \in Nat
      /\ NewLine \in Chars
  BY Widths, AppendProperties, LenProperties
<1> HIDE DEF s
<1>2. L \in 1 .. Len(s) /\ L - 1 \in 0 .. Len(s)
  BY <1>1
<1>3. Wrapping(s)[L - 1] \in State /\ Wrapping(s)[L] = Step(Wrapping(s)[L - 1], NewLine)
  BY <1>1, <1>2, WrappingDef
<1> DEFINE before == Wrapping(s)[L - 1]
<1>4. before.text \in Seq(Chars) /\ before.width \in 0 .. WIDTH - 1
  BY <1>3 DEF State
<1>5. Wrapped(m) = before.text \o Piece(before.width, NewLine)
  BY <1>3, StepParts DEF Wrapped, s
<1> HIDE DEF before
<1>6. /\ Piece(before.width, NewLine) \in Seq(Chars)
      /\ Len(Piece(before.width, NewLine)) > 0
      /\ Last(Piece(before.width, NewLine)) = NewLine
  <2>1. /\ Piece(before.width, NewLine) \in Seq(Chars)
        /\ Len(Piece(before.width, NewLine)) = IF Overflows(before.width, NewLine) THEN 2 ELSE 1
        /\ Piece(before.width, NewLine)[Len(Piece(before.width, NewLine))] = NewLine
    BY <1>1, <1>4, PieceTyped
  <2> QED  BY <2>1 DEF Last
<1>7. s = Append(m, NewLine)
  BY DEF s
<1>8. /\ Wrapped(m) \in Seq(Chars) /\ Len(Wrapped(m)) > 0
      /\ Last(Wrapped(m)) = Last(Piece(before.width, NewLine))
  BY <1>4, <1>5, <1>6, EndOfConcat
<1> QED  BY <1>1, <1>6, <1>7, <1>8

LEMMA Regroup ==
  ASSUME NEW a \in Seq(Chars), NEW b \in Seq(Chars), NEW c \in Seq(Chars)
  PROVE  (a \o b) \o c = a \o (b \o c)
  BY ConcatAssociative

(* What comes after n characters is put behind what came of those. *)
LEMMA WrappingGrows ==
  ASSUME NEW s \in Seq(Chars), NEW n \in 0 .. Len(s)
  PROVE  \E b \in Seq(Chars) : Wrapping(s)[Len(s)].text = Wrapping(s)[n].text \o b
<1> DEFINE W(k) == Wrapping(s)[k].text
           A == {j \in Nat : n + j <= Len(s) => \E b \in Seq(Chars) : W(n + j) = W(n) \o b}
<1>1. Len(s) \in Nat /\ n \in Nat
  BY LenProperties
<1>2. \A k \in 0 .. Len(s) : W(k) \in Seq(Chars) /\ Wrapping(s)[k].width \in 0 .. WIDTH - 1
  BY WrappingDef DEF State
<1>3. 0 \in A
  <2>1. W(n) = W(n) \o <<>> /\ <<>> \in Seq(Chars) /\ n + 0 = n
    BY <1>1, <1>2, ConcatEmptySeq
  <2> HIDE DEF W
  <2> QED  BY <2>1
<1>4. ASSUME NEW j \in Nat, j \in A PROVE j + 1 \in A
  <2> SUFFICES ASSUME n + (j + 1) <= Len(s)
               PROVE  \E b \in Seq(Chars) : W(n + (j + 1)) = W(n) \o b
    OBVIOUS
  <2> DEFINE k == n + (j + 1)
             p == Piece(Wrapping(s)[k - 1].width, s[k])
  <2>1. k \in 1 .. Len(s) /\ k - 1 = n + j /\ k - 1 \in 0 .. Len(s) /\ n + j <= Len(s)
    BY <1>1
  <2>2. PICK b \in Seq(Chars) : W(k - 1) = W(n) \o b
    BY <1>4, <2>1
  <2>3. s[k] \in Chars
    BY <2>1, ElementOfSeq
  <2>4. p \in Seq(Chars)
    BY <1>2, <2>1, <2>3, PieceTyped
  <2>5. W(k) = W(k - 1) \o p
    BY <2>1, WrappingDef, StepParts, ZenonT(30)
  <2> HIDE DEF p, k, W
  <2>6. W(n) \in Seq(Chars)
    BY <1>2
  <2>7. W(k) = W(n) \o (b \o p)
    <3>1. (W(n) \o b) \o p = W(n) \o (b \o p)
      BY <2>2, <2>4, <2>6, Regroup
    <3> QED  BY <2>2, <2>5, <3>1
  <2>8. b \o p \in Seq(Chars)
    BY <2>4, ConcatProperties
  <2> QED  BY <2>7, <2>8 DEF k
<1> HIDE DEF A
<1>5. Len(s) - n \in A /\ Len(s) - n \in Nat /\ n + (Len(s) - n) = Len(s)
  BY <1>1, <1>3, <1>4, Induction
<1> QED  BY <1>5 DEF A

-----------------------------------------------------------------------------
(* Scrolling. *)
From(t, k) == SubSeq(t, k + 1, Len(t))

EndsAfter(t, k) == {n \in LineEnds(t) : n > k}

(* Where scroll cuts a text. *)
IsCut(t, k) ==
  /\ k \in 0 .. Len(t)
  /\ Cardinality(EndsAfter(t, k)) <= MAX_LINES
  /\ k # 0 => k \in LineEnds(t) /\ Cardinality(EndsAfter(t, k)) >= MAX_LINES

LEMMA FromShape ==
  ASSUME NEW t \in Seq(Chars), NEW k \in 0 .. Len(t)
  PROVE  /\ From(t, k) \in Seq(Chars) /\ Len(From(t, k)) = Len(t) - k
         /\ Len(t) \in Nat
         /\ \A i \in 1 .. Len(t) - k : From(t, k)[i] = t[k + i]
<1>1. Len(t) \in Nat /\ \A i \in 1 .. Len(t) : t[i] \in Chars
  BY LenProperties
<1>2. \A i \in k + 1 .. Len(t) : t[i] \in Chars
  BY <1>1
<1>3. k \in Int /\ k + 1 \in Int /\ Len(t) \in Int
  BY <1>1
<1>4. /\ SubSeq(t, k + 1, Len(t)) \in Seq(Chars)
      /\ Len(SubSeq(t, k + 1, Len(t))) = IF k + 1 <= Len(t) THEN Len(t) - (k + 1) + 1 ELSE 0
      /\ \A i \in 1 .. Len(t) - (k + 1) + 1 : SubSeq(t, k + 1, Len(t))[i] = t[k + 1 + i - 1]
  BY <1>2, <1>3, SubSeqProperties
<1>5. ASSUME NEW i \in 1 .. Len(t) - k PROVE From(t, k)[i] = t[k + i]
  <2>1. k + 1 + i - 1 = k + i /\ i \in 1 .. Len(t) - (k + 1) + 1
    BY <1>3
  <2> QED  BY <1>4, <2>1 DEF From
<1> QED  BY <1>1, <1>4, <1>5 DEF From

LEMMA LineEndsShape ==
  ASSUME NEW t \in Seq(Chars)
  PROVE  LineEnds(t) = {n \in 1 .. Len(t) : t[n] = NewLine}
  BY LenProperties DEF LineEnds

LEMMA LineEndsFinite ==
  ASSUME NEW t \in Seq(Chars), NEW k \in Int
  PROVE  /\ LineEnds(t) = {n \in 1 .. Len(t) : t[n] = NewLine}
         /\ IsFiniteSet(LineEnds(t)) /\ line_count(t) \in Nat
         /\ IsFiniteSet(EndsAfter(t, k)) /\ Cardinality(EndsAfter(t, k)) \in Nat
         /\ EndsAfter(t, 0) = LineEnds(t)
<1>1. Len(t) \in Nat /\ DOMAIN t = 1 .. Len(t)
  BY LenProperties
<1>2. LineEnds(t) = {n \in 1 .. Len(t) : t[n] = NewLine}
  BY <1>1 DEF LineEnds
<1>3. IsFiniteSet(1 .. Len(t))
  BY <1>1, FS_Interval
<1>4. IsFiniteSet(LineEnds(t)) /\ IsFiniteSet(EndsAfter(t, k))
  <2>1. LineEnds(t) \in SUBSET (1 .. Len(t)) /\ EndsAfter(t, k) \in SUBSET (1 .. Len(t))
    BY <1>2 DEF EndsAfter
  <2> QED  BY <1>3, <2>1, FS_Subset
<1>5. EndsAfter(t, 0) = LineEnds(t)
  BY <1>1, <1>2 DEF EndsAfter
<1> QED  BY <1>2, <1>4, <1>5, FS_CardinalityType DEF line_count

LEMMA Shifted ==
  ASSUME NEW S \in SUBSET Int, IsFiniteSet(S), NEW d \in Int
  PROVE  Cardinality({n - d : n \in S}) = Cardinality(S)
<1> DEFINE T == {n - d : n \in S}
           f == [n \in S |-> n - d]
<1>1. f \in Bijection(S, T)
  <2>1. f \in [S -> T]
    OBVIOUS
  <2>2. \A a, b \in S : f[a] = f[b] => a = b
    OBVIOUS
  <2>3. \A y \in T : \E x \in S : f[x] = y
    OBVIOUS
  <2> HIDE DEF f, T
  <2> QED  BY <2>1, <2>2, <2>3 DEF Bijection, Injection, Surjection, IsInjective
<1>2. ExistsBijection(S, T)
  <2> HIDE DEF f, T
  <2> QED  BY <1>1 DEF ExistsBijection
<1> QED  BY <1>2, FS_Bijection

LEMMA CountFrom ==
  ASSUME NEW t \in Seq(Chars), NEW k \in 0 .. Len(t), NEW j \in 0 .. Len(t) - k
  PROVE  /\ LineEnds(From(t, k)) = {n - k : n \in EndsAfter(t, k)}
         /\ EndsAfter(From(t, k), j) = {n - k : n \in EndsAfter(t, k + j)}
         /\ Cardinality(EndsAfter(From(t, k), j)) = Cardinality(EndsAfter(t, k + j))
         /\ line_count(From(t, k)) = Cardinality(EndsAfter(t, k))
<1>1. /\ From(t, k) \in Seq(Chars) /\ Len(From(t, k)) = Len(t) - k /\ Len(t) \in Nat
      /\ \A i \in 1 .. Len(t) - k : From(t, k)[i] = t[k + i]
  BY FromShape
<1>2. /\ LineEnds(t) = {n \in 1 .. Len(t) : t[n] = NewLine}
      /\ LineEnds(From(t, k)) = {n \in 1 .. Len(t) - k : From(t, k)[n] = NewLine}
  BY <1>1, LineEndsShape
<1>3. ASSUME NEW n \in Int
      PROVE  n \in LineEnds(From(t, k)) <=> n + k \in EndsAfter(t, k)
  BY <1>1, <1>2 DEF EndsAfter
<1>4. LineEnds(From(t, k)) \subseteq Int /\ LineEnds(t) \subseteq Int
  BY <1>2
<1>5. LineEnds(From(t, k)) = {n - k : n \in EndsAfter(t, k)}
  <2>1. ASSUME NEW n \in LineEnds(From(t, k)) PROVE n \in {i - k : i \in EndsAfter(t, k)}
    <3>1. n \in Int /\ k \in Int
      BY <1>1, <1>4
    <3>2. n + k \in EndsAfter(t, k)
      BY <1>3, <3>1
    <3> QED  BY <3>1, <3>2
  <2>2. ASSUME NEW n \in EndsAfter(t, k) PROVE n - k \in LineEnds(From(t, k))
    <3>1. n - k \in Int /\ n - k + k = n
      BY <1>4 DEF EndsAfter
    <3> QED  BY <1>3, <3>1
  <2> QED  BY <2>1, <2>2
<1>6. EndsAfter(From(t, k), j) = {n - k : n \in EndsAfter(t, k + j)}
  <2>1. ASSUME NEW n \in EndsAfter(From(t, k), j) PROVE n \in {i - k : i \in EndsAfter(t, k + j)}
    <3>1. n \in Int /\ n + k - k = n /\ n + k \in EndsAfter(t, k + j)
      BY <1>3, <1>4 DEF EndsAfter
    <3> QED  BY <3>1
  <2>2. ASSUME NEW n \in EndsAfter(t, k + j) PROVE n - k \in EndsAfter(From(t, k), j)
    <3>1. n - k \in Int /\ n - k + k = n /\ n - k > j /\ n \in EndsAfter(t, k)
      BY <1>1, <1>4 DEF EndsAfter
    <3> QED  BY <1>3, <3>1 DEF EndsAfter
  <2> QED  BY <2>1, <2>2
<1>7. ASSUME NEW i \in Int
      PROVE  Cardinality({n - k : n \in EndsAfter(t, i)}) = Cardinality(EndsAfter(t, i))
  <2>1. EndsAfter(t, i) \in SUBSET Int /\ IsFiniteSet(EndsAfter(t, i))
    BY <1>4, LineEndsFinite DEF EndsAfter
  <2>2. k \in Int
    BY <1>1
  <2> DEFINE S == EndsAfter(t, i)
  <2> HIDE DEF S
  <2>3. Cardinality({n - k : n \in S}) = Cardinality(S)
    BY <2>1, <2>2, Shifted DEF S
  <2> QED  BY <2>3 DEF S
<1>8. k \in Int /\ k + j \in Int
  BY <1>1
<1> QED  BY <1>5, <1>6, <1>7, <1>8 DEF line_count

LEMMA Greatest ==
  ASSUME NEW L \in Nat, NEW T \in SUBSET (0 .. L), T # {}
  PROVE  Max(T) \in T /\ \A y \in T : y <= Max(T)
<1> DEFINE U == {L - y : y \in T}
<1>1. U \in SUBSET Nat /\ U # {}
  <2>1. PICK y \in T : TRUE
    OBVIOUS
  <2>2. L - y \in U
    BY <2>1
  <2> QED  BY <2>2
<1>2. PICK x \in U : \A y \in U : x <= y
  <2> HIDE DEF U
  <2> QED  BY <1>1, Least
<1>3. PICK m \in T : x = L - m
  BY <1>2
<1>4. \A y \in T : L - y \in U
  OBVIOUS
<1>5. \A y \in T : m >= y
  <2> SUFFICES ASSUME NEW y \in T PROVE m >= y
    OBVIOUS
  <2>1. L - m <= L - y /\ y \in Nat /\ m \in Nat
    <3>1. x <= L - y
      <4>1. L - y \in U
        BY <1>4
      <4> HIDE DEF U
      <4> QED  BY <1>2, <4>1
    <3> QED  BY <1>3, <3>1
  <2> QED  BY <2>1
<1>6. Max(T) \in T /\ \A y \in T : Max(T) >= y
  BY <1>5 DEF Max
<1>7. T \subseteq Int
  OBVIOUS
<1> QED  BY <1>6, <1>7

(* Going from one newline to the next one takes one away. *)
LEMMA EndsFewer ==
  ASSUME NEW t \in Seq(Chars), NEW k \in Int, NEW j \in EndsAfter(t, k)
  PROVE  /\ j \in LineEnds(t) /\ j \in 1 .. Len(t) /\ j > k
         /\ Cardinality(EndsAfter(t, j)) < Cardinality(EndsAfter(t, k))
         /\ (\A n \in EndsAfter(t, k) : j <= n) =>
              Cardinality(EndsAfter(t, j)) = Cardinality(EndsAfter(t, k)) - 1
<1>1. j \in LineEnds(t) /\ j \in 1 .. Len(t) /\ j > k /\ LineEnds(t) \subseteq Int
  BY LineEndsShape DEF EndsAfter
<1>2. IsFiniteSet(EndsAfter(t, k)) /\ Cardinality(EndsAfter(t, k)) \in Nat
  BY LineEndsFinite
<1>3. /\ IsFiniteSet(EndsAfter(t, k) \ {j})
      /\ Cardinality(EndsAfter(t, k) \ {j}) = Cardinality(EndsAfter(t, k)) - 1
  BY <1>2, FS_RemoveElement
<1>4. EndsAfter(t, j) \subseteq EndsAfter(t, k) \ {j}
  BY <1>1 DEF EndsAfter
<1>5. Cardinality(EndsAfter(t, j)) <= Cardinality(EndsAfter(t, k) \ {j})
  BY <1>3, <1>4, FS_Subset
<1>6. Cardinality(EndsAfter(t, j)) \in Nat
  BY <1>1, LineEndsFinite
<1>7. ASSUME \A n \in EndsAfter(t, k) : j <= n
      PROVE  EndsAfter(t, j) = EndsAfter(t, k) \ {j}
  BY <1>1, <1>7 DEF EndsAfter
<1>8. Cardinality(EndsAfter(t, j)) < Cardinality(EndsAfter(t, k))
  BY <1>2, <1>3, <1>5, <1>6
<1>9. (\A n \in EndsAfter(t, k) : j <= n) =>
        Cardinality(EndsAfter(t, j)) = Cardinality(EndsAfter(t, k)) - 1
  BY <1>3, <1>7
<1> QED  BY <1>1, <1>8, <1>9

LEMMA ScrolledCut ==
  ASSUME NEW t \in Seq(Chars)
  PROVE  \E k : IsCut(t, k) /\ Scrolled(t) = From(t, k)
<1> DEFINE gone == {n \in LineEnds(t) : Cardinality(EndsAfter(t, n)) >= MAX_LINES}
           k == Max({0} \cup gone)
<1>1. Len(t) \in Nat /\ LineEnds(t) \subseteq 1 .. Len(t)
  BY LenProperties, LineEndsShape
<1>2. {0} \cup gone \in SUBSET (0 .. Len(t)) /\ {0} \cup gone # {}
  BY <1>1
<1>3. Scrolled(t) = From(t, k)
  BY DEF Scrolled, From, EndsAfter
<1> DEFINE T == {0} \cup gone
<1>4. k \in T /\ \A y \in T : y <= k
  <2> HIDE DEF T
  <2> QED  BY <1>1, <1>2, Greatest DEF T
<1> HIDE DEF k
<1>5. k \in 0 .. Len(t) /\ k \in Int
  BY <1>1, <1>4
<1>6. k # 0 => k \in LineEnds(t) /\ Cardinality(EndsAfter(t, k)) >= MAX_LINES
  BY <1>4
<1>7. Cardinality(EndsAfter(t, k)) <= MAX_LINES
  <2> SUFFICES ASSUME ~(Cardinality(EndsAfter(t, k)) <= MAX_LINES) PROVE FALSE
    OBVIOUS
  <2>1. Cardinality(EndsAfter(t, k)) \in Nat /\ MAX_LINES \in Nat /\ MAX_LINES > 0
    BY <1>5, LineEndsFinite, Widths
  <2>2. EndsAfter(t, k) # {} /\ EndsAfter(t, k) \in SUBSET Nat
    <3>1. Cardinality(EndsAfter(t, k)) # 0
      BY <2>1
    <3>2. EndsAfter(t, k) # {}
      BY <3>1, FS_EmptySet
    <3> QED  BY <1>1, <3>2 DEF EndsAfter
  <2>3. PICK j \in EndsAfter(t, k) : \A n \in EndsAfter(t, k) : j <= n
    BY <2>2, Least
  <2>4. /\ j \in LineEnds(t) /\ j > k
        /\ Cardinality(EndsAfter(t, j)) = Cardinality(EndsAfter(t, k)) - 1
    BY <1>5, <2>3, EndsFewer
  <2>5. j \in gone
    BY <2>1, <2>4
  <2>6. j \in Nat
    BY <2>2, <2>3
  <2> QED  BY <1>4, <1>5, <2>4, <2>5, <2>6
<1> QED  BY <1>3, <1>5, <1>6, <1>7 DEF IsCut

LEMMA OneCut ==
  ASSUME NEW t \in Seq(Chars), NEW k, IsCut(t, k)
  PROVE  Scrolled(t) = From(t, k)
<1>1. PICK j : IsCut(t, j) /\ Scrolled(t) = From(t, j)
  BY ScrolledCut
<1>2. Len(t) \in Nat /\ MAX_LINES \in Nat
  BY LenProperties, Widths
<1>3. j \in Nat /\ k \in Nat
  BY <1>1, <1>2 DEF IsCut
<1>4. ASSUME NEW a \in Nat, NEW b \in Nat, IsCut(t, a), IsCut(t, b), a < b
      PROVE  FALSE
  <2>1. b \in EndsAfter(t, a)
    BY <1>4 DEF IsCut, EndsAfter
  <2>2. /\ Cardinality(EndsAfter(t, b)) < Cardinality(EndsAfter(t, a))
        /\ Cardinality(EndsAfter(t, b)) \in Nat /\ Cardinality(EndsAfter(t, a)) \in Nat
    BY <2>1, EndsFewer, LineEndsFinite
  <2>3. Cardinality(EndsAfter(t, a)) <= MAX_LINES /\ Cardinality(EndsAfter(t, b)) >= MAX_LINES
    BY <1>4 DEF IsCut
  <2> QED  BY <1>2, <2>2, <2>3
<1>5. j = k
  BY <1>1, <1>3, <1>4
<1> QED  BY <1>1, <1>5

LEMMA ScrolledTyped ==
  ASSUME NEW t \in Seq(Chars)
  PROVE  /\ Scrolled(t) \in Seq(Chars)
         /\ line_count(Scrolled(t)) <= MAX_LINES
         /\ Len(Scrolled(t)) > 0 => Len(t) > 0 /\ Last(Scrolled(t)) = Last(t)
<1>1. PICK k : IsCut(t, k) /\ Scrolled(t) = From(t, k)
  BY ScrolledCut
<1>2. k \in 0 .. Len(t) /\ Cardinality(EndsAfter(t, k)) <= MAX_LINES
  BY <1>1 DEF IsCut
<1>3. /\ From(t, k) \in Seq(Chars) /\ Len(From(t, k)) = Len(t) - k /\ Len(t) \in Nat
      /\ \A i \in 1 .. Len(t) - k : From(t, k)[i] = t[k + i]
  BY <1>2, FromShape
<1>4. line_count(From(t, k)) = Cardinality(EndsAfter(t, k))
  <2>1. 0 \in 0 .. Len(t) - k
    BY <1>2, <1>3
  <2> QED  BY <1>2, <2>1, CountFrom
<1>5. ASSUME Len(From(t, k)) > 0
      PROVE  Len(t) > 0 /\ From(t, k)[Len(From(t, k))] = t[Len(t)]
  <2>1. Len(t) - k \in 1 .. Len(t) - k /\ k + (Len(t) - k) = Len(t) /\ Len(t) > 0
    BY <1>2, <1>3, <1>5
  <2> QED  BY <1>3, <2>1
<1> QED  BY <1>1, <1>2, <1>3, <1>4, <1>5 DEF Last

LEMMA EmptyOrLonger ==
  ASSUME NEW t \in Seq(Chars)
  PROVE  /\ Len(t) \in Nat /\ DOMAIN t = 1 .. Len(t)
         /\ t = <<>> <=> Len(t) = 0
         /\ Len(<<>>) = 0 /\ <<>> \in Seq(Chars)
  BY LenProperties, EmptySeq

(* Scrolling leaves whole lines, and no more than the panel has. *)
LEMMA ScrolledFits ==
  ASSUME NEW t \in Seq(Chars), t # <<>> => Last(t) = NewLine
  PROVE  FitsPanel(Scrolled(t))
<1>1. /\ Scrolled(t) \in Seq(Chars) /\ line_count(Scrolled(t)) <= MAX_LINES
      /\ Len(Scrolled(t)) > 0 => Len(t) > 0 /\ Last(Scrolled(t)) = Last(t)
  BY ScrolledTyped
<1>2. (Scrolled(t) # <<>> => Len(Scrolled(t)) > 0) /\ (Len(t) > 0 => t # <<>>)
  BY <1>1, EmptyOrLonger
<1> QED  BY <1>1, <1>2 DEF FitsPanel

LEMMA PrintedFits ==
  ASSUME NEW t \in Seq(Chars), NEW m \in Seq(Chars)
  PROVE  Printed(t, m) \in Seq(Chars) /\ FitsPanel(Printed(t, m))
<1>1. Wrapped(m) \in Seq(Chars) /\ Len(Wrapped(m)) > 0 /\ Last(Wrapped(m)) = NewLine
  BY WrappedTyped
<1>2. t \o Wrapped(m) \in Seq(Chars) /\ Last(t \o Wrapped(m)) = NewLine
  BY <1>1, EndOfConcat
<1> QED  BY <1>2, ScrolledTyped, ScrolledFits DEF Printed

(* Whatever print scrolls away, the last line stays. *)
LEMMA PrintedSome ==
  ASSUME NEW t \in Seq(Chars), NEW m \in Seq(Chars)
  PROVE  Printed(t, m) # <<>>
<1> DEFINE u == t \o Wrapped(m)
<1>1. Wrapped(m) \in Seq(Chars) /\ Len(Wrapped(m)) > 0
  BY WrappedTyped
<1>2. u \in Seq(Chars) /\ Len(u) \in Nat /\ Len(u) > 0
  <2>1. u \in Seq(Chars) /\ Len(u) = Len(t) + Len(Wrapped(m))
    BY <1>1, ConcatProperties
  <2> QED  BY <1>1, <2>1, LenProperties
<1>3. Printed(t, m) = Scrolled(u)
  BY DEF Printed
<1> HIDE DEF u
<1>4. PICK k : IsCut(u, k) /\ Scrolled(u) = From(u, k)
  BY <1>2, ScrolledCut
<1>5. /\ k \in 0 .. Len(u)
      /\ k # 0 => Cardinality(EndsAfter(u, k)) >= MAX_LINES
  BY <1>4 DEF IsCut
<1>6. Len(From(u, k)) = Len(u) - k
  BY <1>2, <1>5, FromShape
<1>7. k # Len(u)
  <2> SUFFICES ASSUME k = Len(u) PROVE FALSE
    OBVIOUS
  <2>1. EndsAfter(u, k) = {}
    BY <1>2, LineEndsShape DEF EndsAfter
  <2>2. Cardinality(EndsAfter(u, k)) = 0
    BY <2>1, FS_EmptySet
  <2>3. MAX_LINES \in Nat /\ MAX_LINES > 0
    BY Widths
  <2> QED  BY <1>2, <1>5, <2>2, <2>3
<1>8. Len(From(u, k)) # 0
  BY <1>2, <1>5, <1>6, <1>7
<1> QED  BY <1>3, <1>4, <1>8, EmptyOrLonger

LEMMA ScrolledShort ==
  ASSUME NEW t \in Seq(Chars), line_count(t) <= MAX_LINES
  PROVE  Scrolled(t) = t
<1>1. EndsAfter(t, 0) = LineEnds(t)
  BY LineEndsFinite
<1>2. 0 \in 0 .. Len(t)
  BY LenProperties
<1>3. IsCut(t, 0)
  BY <1>1, <1>2 DEF IsCut, line_count
<1>4. Scrolled(t) = From(t, 0)
  BY <1>3, OneCut
<1>5. /\ From(t, 0) \in Seq(Chars) /\ Len(From(t, 0)) = Len(t) - 0 /\ Len(t) \in Nat
      /\ \A i \in 1 .. Len(t) - 0 : From(t, 0)[i] = t[0 + i]
  BY <1>2, FromShape
<1>6. From(t, 0) = t
  <2>1. Len(From(t, 0)) = Len(t) /\ \A i \in 1 .. Len(t) : From(t, 0)[i] = t[i]
    BY <1>5
  <2> QED  BY <1>5, <2>1, SeqEqual
<1> QED  BY <1>4, <1>6

(* The first character of a text, and the rest. *)
LEMMA TailShape ==
  ASSUME NEW t \in Seq(Chars), t # <<>>
  PROVE  /\ 1 \in 0 .. Len(t) /\ Len(t) \in Nat /\ Len(t) > 0
         /\ Tail(t) = From(t, 1) /\ Tail(t) \in Seq(Chars) /\ Len(Tail(t)) = Len(t) - 1
         /\ Head(t) = t[1] /\ Head(t) \in Chars
         /\ Tail(t) # <<>> => Last(Tail(t)) = Last(t)
<1>1. Len(t) \in Nat /\ Len(t) > 0 /\ 1 \in 0 .. Len(t)
  BY EmptyOrLonger
<1>2. /\ From(t, 1) \in Seq(Chars) /\ Len(From(t, 1)) = Len(t) - 1
      /\ \A i \in 1 .. Len(t) - 1 : From(t, 1)[i] = t[1 + i]
  BY <1>1, FromShape
<1>3. /\ Tail(t) \in Seq(Chars) /\ Len(Tail(t)) = Len(t) - 1 /\ Head(t) = t[1] /\ Head(t) \in Chars
      /\ \A i \in 1 .. Len(t) - 1 : Tail(t)[i] = t[i + 1]
  BY <1>1, HeadTailProperties
<1>4. Tail(t) = From(t, 1)
  <2>1. \A i \in 1 .. Len(t) - 1 : Tail(t)[i] = From(t, 1)[i]
    BY <1>1, <1>2, <1>3
  <2> QED  BY <1>2, <1>3, <2>1, SeqEqual
<1>5. ASSUME Tail(t) # <<>> PROVE Last(Tail(t)) = Last(t)
  <2>1. Len(Tail(t)) \in 1 .. Len(t) - 1 /\ Len(Tail(t)) + 1 = Len(t)
    BY <1>1, <1>3, <1>5, EmptyOrLonger
  <2> QED  BY <1>3, <2>1 DEF Last
<1> QED  BY <1>1, <1>3, <1>4, <1>5

(* From the rest of a text, what scroll would have kept is still kept. *)
LEMMA FromFrom ==
  ASSUME NEW t \in Seq(Chars), NEW k \in 0 .. Len(t), NEW j \in 0 .. Len(t) - k
  PROVE  From(From(t, k), j) = From(t, k + j)
<1>1. /\ From(t, k) \in Seq(Chars) /\ Len(From(t, k)) = Len(t) - k /\ Len(t) \in Nat
      /\ \A i \in 1 .. Len(t) - k : From(t, k)[i] = t[k + i]
  BY FromShape
<1>2. k + j \in 0 .. Len(t) /\ j \in 0 .. Len(From(t, k))
  BY <1>1
<1>3. /\ From(t, k + j) \in Seq(Chars) /\ Len(From(t, k + j)) = Len(t) - (k + j)
      /\ \A i \in 1 .. Len(t) - (k + j) : From(t, k + j)[i] = t[k + j + i]
  BY <1>2, FromShape
<1>4. /\ From(From(t, k), j) \in Seq(Chars) /\ Len(From(From(t, k), j)) = Len(t) - k - j
      /\ \A i \in 1 .. Len(t) - k - j : From(From(t, k), j)[i] = From(t, k)[j + i]
  BY <1>1, <1>2, FromShape
<1>5. ASSUME NEW i \in 1 .. Len(t) - k - j
      PROVE  From(From(t, k), j)[i] = From(t, k + j)[i]
  <2>1. j + i \in 1 .. Len(t) - k /\ k + (j + i) = k + j + i /\ i \in 1 .. Len(t) - (k + j)
    BY <1>1
  <2> QED  BY <1>1, <1>3, <1>4, <2>1
<1>6. Len(From(From(t, k), j)) = Len(From(t, k + j))
  <2>1. Len(t) - k - j = Len(t) - (k + j)
    BY <1>1, <1>2
  <2> QED  BY <1>3, <1>4, <2>1
<1> HIDE DEF From
<1> QED  BY <1>3, <1>4, <1>5, <1>6, SeqEqual

LEMMA ScrolledTail ==
  ASSUME NEW t \in Seq(Chars), line_count(t) > MAX_LINES
  PROVE  t # <<>> /\ Scrolled(Tail(t)) = Scrolled(t)
<1>1. PICK k : IsCut(t, k) /\ Scrolled(t) = From(t, k)
  BY ScrolledCut
<1>2. /\ k \in 0 .. Len(t) /\ Cardinality(EndsAfter(t, k)) <= MAX_LINES
      /\ k # 0 => k \in LineEnds(t) /\ Cardinality(EndsAfter(t, k)) >= MAX_LINES
  BY <1>1 DEF IsCut
<1>3. Len(t) \in Nat /\ LineEnds(t) = {n \in 1 .. Len(t) : t[n] = NewLine}
  BY LenProperties, LineEndsShape
<1>4. k # 0
  <2> SUFFICES ASSUME k = 0 PROVE FALSE
    OBVIOUS
  <2>1. EndsAfter(t, 0) = LineEnds(t) /\ line_count(t) \in Nat /\ MAX_LINES \in Nat
    BY LineEndsFinite, Widths
  <2>2. line_count(t) <= MAX_LINES
    BY <1>2, <2>1 DEF line_count
  <2> QED  BY <2>1, <2>2
<1>5. t # <<>> /\ 1 \in 0 .. Len(t) /\ k - 1 \in 0 .. Len(t) - 1 /\ 1 + (k - 1) = k
  BY <1>2, <1>3, <1>4, EmptyOrLonger
<1>6. Tail(t) = From(t, 1) /\ Tail(t) \in Seq(Chars) /\ Len(Tail(t)) = Len(t) - 1
  BY <1>5, TailShape
<1> DEFINE j == k - 1
<1> HIDE DEF j
<1>7. /\ LineEnds(From(t, 1)) = {n - 1 : n \in EndsAfter(t, 1)}
      /\ Cardinality(EndsAfter(From(t, 1), j)) = Cardinality(EndsAfter(t, k))
      /\ From(From(t, 1), j) = From(t, k)
  <2>1. j \in 0 .. Len(t) - 1 /\ 1 + j = k
    BY <1>5 DEF j
  <2>2. Cardinality(EndsAfter(From(t, 1), j)) = Cardinality(EndsAfter(t, 1 + j))
    BY <1>5, <2>1, CountFrom
  <2>3. From(From(t, 1), j) = From(t, 1 + j)
    BY <1>5, <2>1, FromFrom
  <2>4. LineEnds(From(t, 1)) = {n - 1 : n \in EndsAfter(t, 1)}
    BY <1>5, <2>1, CountFrom
  <2> QED  BY <2>1, <2>2, <2>3, <2>4
<1>8. j # 0 => j \in LineEnds(From(t, 1))
  <2> SUFFICES ASSUME j # 0 PROVE j \in LineEnds(From(t, 1))
    OBVIOUS
  <2>1. k \in EndsAfter(t, 1)
    BY <1>2, <1>3, <1>4 DEF j, EndsAfter
  <2> QED  BY <1>7, <2>1 DEF j
<1>9. IsCut(Tail(t), j)
  <2>1. j \in 0 .. Len(Tail(t))
    BY <1>5, <1>6 DEF j
  <2>2. k # 0 /\ Cardinality(EndsAfter(t, k)) >= MAX_LINES
    BY <1>2, <1>4
  <2> QED  BY <1>2, <1>6, <1>7, <1>8, <2>1, <2>2 DEF IsCut
<1>10. Scrolled(Tail(t)) = From(Tail(t), j)
  BY <1>6, <1>9, OneCut
<1> QED  BY <1>1, <1>5, <1>6, <1>7, <1>10

(* Only a newline takes a line away. *)
LEMMA CountTail ==
  ASSUME NEW t \in Seq(Chars), t # <<>>, Head(t) # NewLine
  PROVE  line_count(Tail(t)) = line_count(t)
<1>1. 1 \in 0 .. Len(t) /\ Tail(t) = From(t, 1) /\ Head(t) = t[1] /\ Len(t) \in Nat /\ Len(t) > 0
  BY TailShape
<1>2. line_count(From(t, 1)) = Cardinality(EndsAfter(t, 1))
  <2>1. 0 \in 0 .. Len(t) - 1
    BY <1>1
  <2> QED  BY <1>1, <2>1, CountFrom
<1>3. LineEnds(t) = {n \in 1 .. Len(t) : t[n] = NewLine}
  BY LineEndsShape
<1>4. EndsAfter(t, 1) = LineEnds(t)
  BY <1>1, <1>3 DEF EndsAfter
<1> QED  BY <1>1, <1>2, <1>4 DEF line_count

LEMMA CountTyped ==
  ASSUME NEW t \in Seq(Chars)
  PROVE  IsFiniteSet(LineEnds(t)) /\ line_count(t) \in Nat
<1> DEFINE k == 0
<1>1. k \in Int
  OBVIOUS
<1> HIDE DEF k
<1> QED  BY <1>1, LineEndsFinite

LEMMA CountConcat ==
  ASSUME NEW a \in Seq(Chars), NEW b \in Seq(Chars)
  PROVE  line_count(a) <= line_count(a \o b)
<1>1. /\ a \o b \in Seq(Chars) /\ Len(a \o b) = Len(a) + Len(b)
      /\ \A i \in 1 .. Len(a) + Len(b) : (a \o b)[i] = IF i <= Len(a) THEN a[i]
                                                     ELSE b[i - Len(a)]
      /\ Len(a) \in Nat /\ Len(b) \in Nat
  BY ConcatProperties, LenProperties
<1>2. LineEnds(a) = {n \in 1 .. Len(a) : a[n] = NewLine}
  BY LineEndsShape
<1>3. LineEnds(a \o b) = {n \in 1 .. Len(a) + Len(b) : (a \o b)[n] = NewLine}
  BY <1>1, LineEndsShape
<1>4. ASSUME NEW n \in 1 .. Len(a)
      PROVE  n \in 1 .. Len(a) + Len(b) /\ (a \o b)[n] = a[n]
  BY <1>1
<1>5. LineEnds(a) \in SUBSET LineEnds(a \o b)
  BY <1>2, <1>3, <1>4
<1>6. IsFiniteSet(LineEnds(a \o b))
  BY <1>1, CountTyped
<1> QED  BY <1>5, <1>6, FS_Subset DEF line_count

LEMMA TailConcat ==
  ASSUME NEW a \in Seq(Chars), NEW b \in Seq(Chars), a # <<>>
  PROVE  a \o b # <<>> /\ Tail(a \o b) = Tail(a) \o b
<1>1. /\ a \o b \in Seq(Chars) /\ Len(a \o b) = Len(a) + Len(b)
      /\ \A i \in 1 .. Len(a) + Len(b) : (a \o b)[i] = IF i <= Len(a) THEN a[i]
                                                     ELSE b[i - Len(a)]
      /\ Len(a) \in Nat /\ Len(b) \in Nat /\ Len(a) > 0
  BY ConcatProperties, EmptyOrLonger
<1>2. a \o b # <<>>
  BY <1>1, EmptyOrLonger
<1>3. /\ Tail(a) \in Seq(Chars) /\ Len(Tail(a)) = Len(a) - 1
      /\ \A i \in 1 .. Len(Tail(a)) : Tail(a)[i] = a[i + 1]
  BY HeadTailProperties
<1>4. /\ Tail(a \o b) \in Seq(Chars) /\ Len(Tail(a \o b)) = Len(a \o b) - 1
      /\ \A i \in 1 .. Len(Tail(a \o b)) : Tail(a \o b)[i] = (a \o b)[i + 1]
  BY <1>1, <1>2, HeadTailProperties
<1> DEFINE c == Tail(a)
           d == Tail(a \o b)
<1>5. /\ c \o b \in Seq(Chars) /\ Len(c \o b) = Len(c) + Len(b)
      /\ \A i \in 1 .. Len(c) + Len(b) : (c \o b)[i] = IF i <= Len(c) THEN c[i] ELSE b[i - Len(c)]
  BY <1>3, ConcatProperties
<1>6. Len(d) = Len(c \o b) /\ Len(d) = Len(a) + Len(b) - 1
  BY <1>1, <1>3, <1>4, <1>5
<1>7. ASSUME NEW i \in 1 .. Len(d) PROVE d[i] = (c \o b)[i]
  <2>1. i \in 1 .. Len(a) + Len(b) - 1 /\ i + 1 \in 1 .. Len(a) + Len(b) /\ i \in 1 .. Len(c) + Len(b)
    BY <1>1, <1>3, <1>6
  <2>2. d[i] = (a \o b)[i + 1]
    BY <1>4
  <2>3. CASE i + 1 <= Len(a)
    <3>1. i <= Len(c) /\ i \in 1 .. Len(c)
      BY <1>1, <1>3, <2>1, <2>3
    <3>2. (c \o b)[i] = a[i + 1]
      BY <1>3, <1>5, <2>1, <3>1
    <3> QED  BY <1>1, <2>1, <2>2, <2>3, <3>2
  <2>4. CASE ~(i + 1 <= Len(a))
    <3>1. ~(i <= Len(c)) /\ i - Len(c) = i + 1 - Len(a)
      BY <1>1, <1>3, <2>1, <2>4
    <3>2. (c \o b)[i] = b[i - Len(c)]
      BY <1>5, <2>1, <3>1
    <3>3. d[i] = b[i + 1 - Len(a)]
      BY <1>1, <2>1, <2>2, <2>4
    <3> QED  BY <3>1, <3>2, <3>3
  <2> QED  BY <2>3, <2>4
<1> HIDE DEF c, d
<1>8. d \in Seq(Chars)
  BY <1>4 DEF d
<1>9. d = c \o b
  BY <1>5, <1>6, <1>7, <1>8, SeqEqual
<1> QED  BY <1>2, <1>9 DEF c, d

-----------------------------------------------------------------------------
(* todo is what print has still to take of a text, width how wide its line *)
(* is, and b what it will yet add to the buffer.                           *)
Follows(todo, width, b) ==
  \E s \in Seq(Chars) : \E n \in 0 .. Len(s) :
    /\ todo = From(s, n)
    /\ width = Wrapping(s)[n].width
    /\ Wrapping(s)[Len(s)].text = Wrapping(s)[n].text \o b

LEMMA Cancelled ==
  ASSUME NEW a \in Seq(Chars), NEW b \in Seq(Chars), NEW c \in Seq(Chars), a \o b = a \o c
  PROVE  b = c
<1>1. Len(a) \in Nat /\ Len(b) \in Nat /\ Len(c) \in Nat
  BY LenProperties
<1>2. /\ Len(a \o b) = Len(a) + Len(b)
      /\ \A i \in 1 .. Len(a) + Len(b) :
           (a \o b)[i] = IF i <= Len(a) THEN a[i] ELSE b[i - Len(a)]
  BY ConcatProperties
<1>3. /\ Len(a \o c) = Len(a) + Len(c)
      /\ \A i \in 1 .. Len(a) + Len(c) :
           (a \o c)[i] = IF i <= Len(a) THEN a[i] ELSE c[i - Len(a)]
  BY ConcatProperties
<1>4. Len(b) = Len(c)
  BY <1>1, <1>2, <1>3
<1>5. ASSUME NEW i \in 1 .. Len(b) PROVE b[i] = c[i]
  <2>1. /\ Len(a) + i \in 1 .. Len(a) + Len(b) /\ ~(Len(a) + i <= Len(a))
        /\ Len(a) + i - Len(a) = i
    BY <1>1
  <2>2. (a \o b)[Len(a) + i] = b[i] /\ (a \o c)[Len(a) + i] = c[i]
    BY <1>2, <1>3, <1>4, <2>1
  <2> QED  BY <2>2
<1> QED  BY <1>4, <1>5, SeqEqual

LEMMA FollowsStart ==
  ASSUME NEW m \in Seq(Chars)
  PROVE  Follows(Append(m, NewLine), 0, Wrapped(m))
<1> DEFINE s == Append(m, NewLine)
<1>1. s \in Seq(Chars) /\ Len(s) = Len(m) + 1 /\ Wrapped(m) \in Seq(Chars)
  BY WrappedTyped
<1>2. Wrapped(m) = Wrapping(s)[Len(m) + 1].text
  BY DEF Wrapped
<1> HIDE DEF s
<1>3. 0 \in 0 .. Len(s) /\ Len(s) \in Nat
  BY <1>1, LenProperties
<1>4. s = From(s, 0)
  <2>1. /\ From(s, 0) \in Seq(Chars) /\ Len(From(s, 0)) = Len(s) - 0
        /\ \A i \in 1 .. Len(s) - 0 : From(s, 0)[i] = s[0 + i]
    BY <1>1, <1>3, FromShape
  <2>2. Len(From(s, 0)) = Len(s) /\ \A i \in 1 .. Len(s) : From(s, 0)[i] = s[i]
    BY <1>3, <2>1
  <2> QED  BY <1>1, <2>1, <2>2, SeqEqual
<1>5. Wrapping(s)[0] = Blank
  BY <1>1, WrappingDef
<1>6. Wrapping(s)[0].text = <<>> /\ Wrapping(s)[0].width = 0
  BY <1>5 DEF Blank
<1>7. Wrapping(s)[Len(s)].text = Wrapping(s)[0].text \o Wrapped(m)
  BY <1>1, <1>2, <1>6, ConcatEmptySeq
<1>8. Follows(s, 0, Wrapped(m))
  BY <1>1, <1>3, <1>4, <1>6, <1>7 DEF Follows
<1> QED  BY <1>8 DEF s

LEMMA FollowsStep ==
  ASSUME NEW todo \in Seq(Chars), NEW width, NEW b \in Seq(Chars), todo # <<>>,
         Follows(todo, width, b)
  PROVE  \E d \in Seq(Chars) : /\ b = Piece(width, Head(todo)) \o d
                               /\ Follows(Tail(todo), Grown(width, Head(todo)), d)
<1>1. PICK s \in Seq(Chars) : \E n \in 0 .. Len(s) :
        /\ todo = From(s, n) /\ width = Wrapping(s)[n].width
        /\ Wrapping(s)[Len(s)].text = Wrapping(s)[n].text \o b
  BY DEF Follows
<1>2. PICK n \in 0 .. Len(s) :
        /\ todo = From(s, n) /\ width = Wrapping(s)[n].width
        /\ Wrapping(s)[Len(s)].text = Wrapping(s)[n].text \o b
  BY <1>1
<1>3. /\ Len(s) \in Nat /\ Len(todo) = Len(s) - n /\ \A i \in 1 .. Len(s) - n : todo[i] = s[n + i]
  BY <1>2, FromShape
<1>4. Len(todo) > 0 /\ Head(todo) = todo[1] /\ Tail(todo) = From(todo, 1) /\ 1 \in 0 .. Len(todo)
  BY TailShape
<1> DEFINE k == n + 1
<1>5. /\ k \in 1 .. Len(s) /\ k \in 0 .. Len(s) /\ k - 1 = n /\ Head(todo) = s[k]
      /\ 1 \in 0 .. Len(s) - n
  BY <1>3, <1>4
<1>6. Tail(todo) = From(s, k)
  BY <1>2, <1>4, <1>5, FromFrom
<1> HIDE DEF k
<1> DEFINE W(i) == Wrapping(s)[i].text
           p == Piece(width, s[k])
<1>7. W(n) \in Seq(Chars) /\ width \in 0 .. WIDTH - 1 /\ s[k] \in Chars /\ W(k) \in Seq(Chars)
  <2>1. Wrapping(s)[n] \in State /\ Wrapping(s)[k] \in State
    BY <1>5, WrappingDef
  <2>2. s[k] \in Chars
    BY <1>5, ElementOfSeq
  <2> QED  BY <1>2, <2>1, <2>2 DEF State
<1>8. p \in Seq(Chars)
  BY <1>7, PieceTyped
<1>9. Wrapping(s)[k] = Step(Wrapping(s)[n], s[k])
  BY <1>5, WrappingDef
<1>10. W(k) = W(n) \o p /\ Wrapping(s)[k].width = Grown(width, s[k])
  BY <1>2, <1>9, StepParts, ZenonT(30)
<1>11. PICK d \in Seq(Chars) : W(Len(s)) = W(k) \o d
  BY <1>5, WrappingGrows
<1> HIDE DEF p
<1> DEFINE before == W(n)
<1>12. before \o b = (before \o p) \o d /\ before \in Seq(Chars)
  <2>1. W(Len(s)) = W(n) \o b
    BY <1>2
  <2> QED  BY <1>7, <1>10, <1>11, <2>1
<1> HIDE DEF W, before
<1>13. p \o d \in Seq(Chars)
  BY <1>8, <1>11, ConcatProperties
<1>14. b = p \o d
  <2>1. (before \o p) \o d = before \o (p \o d)
    BY <1>8, <1>11, <1>12, Regroup
  <2>2. before \o b = before \o (p \o d)
    BY <1>12, <2>1
  <2> QED  BY <1>12, <1>13, <2>2, Cancelled
<1>15. Follows(Tail(todo), Grown(width, s[k]), d)
  BY <1>5, <1>6, <1>10, <1>11 DEF Follows, W
<1> QED  BY <1>5, <1>11, <1>14, <1>15 DEF p

LEMMA FollowsEnd ==
  ASSUME NEW width, NEW b \in Seq(Chars), Follows(<<>>, width, b)
  PROVE  b = <<>>
<1>1. PICK s \in Seq(Chars) : \E n \in 0 .. Len(s) :
        /\ <<>> = From(s, n)
        /\ Wrapping(s)[Len(s)].text = Wrapping(s)[n].text \o b
  BY DEF Follows
<1>2. PICK n \in 0 .. Len(s) :
        /\ <<>> = From(s, n)
        /\ Wrapping(s)[Len(s)].text = Wrapping(s)[n].text \o b
  BY <1>1
<1>3. Len(s) \in Nat /\ Len(From(s, n)) = Len(s) - n
  BY FromShape
<1>4. n = Len(s)
  BY <1>2, <1>3, EmptyOrLonger
<1>5. Wrapping(s)[n].text \in Seq(Chars)
  <2>1. Wrapping(s)[n] \in State
    BY WrappingDef
  <2> QED  BY <2>1 DEF State
<1>6. Wrapping(s)[n].text \o b = Wrapping(s)[n].text
  BY <1>2, <1>4
<1> QED  BY <1>5, <1>6, ConcatEqualIffEmpty

-----------------------------------------------------------------------------
(* Widths. *)
Adding(s) ==
  [p \in Nat \X Nat |-> IF p[1] \in 1 .. Len(s) THEN p[2] + CharWidth[s[p[1]]] ELSE p[2]]

LEMMA ReachDef ==
  ASSUME NEW s \in Seq(Chars)
  PROVE  /\ Reach(s)[0] = 0
         /\ \A n \in 1 .. Len(s) : Reach(s)[n] = Reach(s)[n - 1] + CharWidth[s[n]]
         /\ \A n \in 0 .. Len(s) : Reach(s)[n] \in Nat
<1> DEFINE L == Len(s)
           D(g) == [n \in 0 .. L |-> IF n = 0 THEN 0 ELSE g[n - 1] + CharWidth[s[n]]]
           step == Adding(s)
<1>1. L \in Nat /\ \A n \in 1 .. L : s[n] \in Chars /\ CharWidth[s[n]] \in Nat
  BY LenProperties, Widths
<1>2. step \in StepsIn(Nat)
  BY <1>1 DEF Adding, StepsIn
<1> HIDE DEF L
<1>3. PICK f : Solution(f, Nat, 0, step, L)
  <2>1. 0 \in Nat
    OBVIOUS
  <2> HIDE DEF step
  <2> QED  BY <1>1, <1>2, <2>1, Recursion
<1>4. \A n \in 1 .. L : f[n] = f[n - 1] + CharWidth[s[n]]
  <2> SUFFICES ASSUME NEW n \in 1 .. L PROVE f[n] = f[n - 1] + CharWidth[s[n]]
    OBVIOUS
  <2>1. n \in Nat /\ n - 1 \in 0 .. L
    BY <1>1
  <2>2. <<n, f[n - 1]>> \in Nat \X Nat
    BY <1>3, <2>1 DEF Solution
  <2> QED  BY <1>3, <2>2 DEF Solution, Adding, L
<1>5. f = D(f)
  BY <1>1, <1>3, <1>4 DEF Solution
<1>6. Reach(s) = CHOOSE g : g = D(g)
  BY DEF Reach, L
<1>7. Reach(s) = D(Reach(s))
  <2> HIDE DEF D
  <2> QED  BY <1>5, <1>6
<1>8. /\ Reach(s)[0] = 0
      /\ \A n \in 1 .. L : Reach(s)[n] = Reach(s)[n - 1] + CharWidth[s[n]]
  BY <1>1, <1>7
<1> DEFINE A == {n \in Nat : n <= L => Reach(s)[n] \in Nat}
<1>9. 0 \in A
  BY <1>8
<1>10. ASSUME NEW n \in Nat, n \in A PROVE n + 1 \in A
  <2> SUFFICES ASSUME n + 1 <= L PROVE Reach(s)[n + 1] \in Nat
    OBVIOUS
  <2>1. n + 1 \in 1 .. L /\ n + 1 - 1 = n /\ Reach(s)[n] \in Nat
    BY <1>1, <1>10
  <2>2. Reach(s)[n + 1] = Reach(s)[n] + CharWidth[s[n + 1]] /\ CharWidth[s[n + 1]] \in Nat
    BY <1>1, <1>8, <2>1
  <2> QED  BY <2>1, <2>2
<1>11. \A n \in 0 .. L : Reach(s)[n] \in Nat
  <2> HIDE DEF A
  <2>1. Nat \subseteq A
    BY <1>9, <1>10, Induction
  <2> QED  BY <1>1, <2>1 DEF A
<1> QED  BY <1>8, <1>11 DEF L

(* Characters reach as far wherever they stand. *)
LEMMA ReachShift ==
  ASSUME NEW t \in Seq(Chars), NEW u \in Seq(Chars), NEW k \in Nat, NEW L \in Nat,
         k + L <= Len(t), L <= Len(u), \A i \in 1 .. L : u[i] = t[k + i]
  PROVE  \A n \in 0 .. L : Reach(t)[k + n] = Reach(t)[k] + Reach(u)[n]
<1> DEFINE A == {n \in Nat : n <= L => Reach(t)[k + n] = Reach(t)[k] + Reach(u)[n]}
<1>1. Len(t) \in Nat /\ Len(u) \in Nat
  BY LenProperties
<1>2. \A n \in 0 .. L : Reach(t)[k + n] \in Nat /\ Reach(u)[n] \in Nat
  <2> SUFFICES ASSUME NEW n \in 0 .. L
               PROVE  Reach(t)[k + n] \in Nat /\ Reach(u)[n] \in Nat
    OBVIOUS
  <2>1. k + n \in 0 .. Len(t) /\ n \in 0 .. Len(u)
    BY <1>1
  <2> QED  BY <2>1, ReachDef
<1>3. 0 \in A
  <2>1. k + 0 = k /\ Reach(u)[0] = 0 /\ 0 \in 0 .. L
    BY ReachDef
  <2>2. Reach(t)[k] \in Nat
    BY <1>2, <2>1
  <2> QED  BY <2>1, <2>2
<1>4. ASSUME NEW n \in Nat, n \in A PROVE n + 1 \in A
  <2> SUFFICES ASSUME n + 1 <= L
               PROVE  Reach(t)[k + (n + 1)] = Reach(t)[k] + Reach(u)[n + 1]
    OBVIOUS
  <2> DEFINE j == k + (n + 1)
  <2>1. /\ j \in 1 .. Len(t) /\ j - 1 = k + n /\ n + 1 \in 1 .. L /\ n + 1 - 1 = n
        /\ n + 1 \in 1 .. Len(u) /\ n \in 0 .. L /\ 0 \in 0 .. L /\ k + 0 = k
    BY <1>1
  <2>2. u[n + 1] = t[j]
    BY <2>1
  <2> HIDE DEF j
  <2>3. /\ Reach(t)[j] = Reach(t)[j - 1] + CharWidth[t[j]]
        /\ Reach(u)[n + 1] = Reach(u)[n + 1 - 1] + CharWidth[u[n + 1]]
    BY <2>1, ReachDef
  <2>4. Reach(t)[k + n] = Reach(t)[k] + Reach(u)[n]
    BY <1>4, <2>1
  <2>5. /\ Reach(t)[k] \in Nat /\ Reach(u)[n] \in Nat
        /\ CharWidth[t[j]] \in Nat
    <3>1. t[j] \in Chars
      BY <2>1, ElementOfSeq
    <3>2. Reach(t)[k] \in Nat
      BY <1>2, <2>1
    <3> QED  BY <1>2, <2>1, <3>1, <3>2, Widths
  <2>6. Reach(t)[j] = Reach(t)[k] + Reach(u)[n + 1]
    BY <2>1, <2>2, <2>3, <2>4, <2>5, SMTT(30)
  <2> QED  BY <2>6 DEF j
<1> HIDE DEF A
<1>5. Nat \subseteq A
  BY <1>3, <1>4, Induction
<1> QED  BY <1>5 DEF A

LEMMA ReachFrom ==
  ASSUME NEW t \in Seq(Chars), NEW k \in 0 .. Len(t)
  PROVE  \A n \in 0 .. Len(t) - k : /\ Reach(t)[k + n] = Reach(t)[k] + Reach(From(t, k))[n]
                                    /\ Reach(From(t, k))[n] \in Nat
<1>1. /\ From(t, k) \in Seq(Chars) /\ Len(From(t, k)) = Len(t) - k /\ Len(t) \in Nat
      /\ \A i \in 1 .. Len(t) - k : From(t, k)[i] = t[k + i]
  BY FromShape
<1>2. k \in Nat /\ Len(t) - k \in Nat /\ k + (Len(t) - k) <= Len(t)
  BY <1>1
<1> DEFINE L == Len(t) - k
           u == From(t, k)
<1>3. L \in Nat /\ u \in Seq(Chars) /\ k + L <= Len(t) /\ L <= Len(u)
  BY <1>1, <1>2
<1>4. \A i \in 1 .. L : u[i] = t[k + i]
  BY <1>1
<1>5. \A n \in 0 .. L : Reach(u)[n] \in Nat
  <2>1. L = Len(u)
    BY <1>1
  <2> HIDE DEF L, u
  <2> QED  BY <1>3, <2>1, ReachDef
<1> HIDE DEF L, u
<1>6. \A n \in 0 .. L : Reach(t)[k + n] = Reach(t)[k] + Reach(u)[n]
  BY <1>2, <1>3, <1>4, ReachShift
<1> QED  BY <1>5, <1>6 DEF L, u

LEMMA ReachGrows ==
  ASSUME NEW t \in Seq(Chars), NEW i \in 0 .. Len(t), NEW j \in 0 .. Len(t), i <= j
  PROVE  Reach(t)[i] <= Reach(t)[j] /\ Reach(t)[i] \in Nat /\ Reach(t)[j] \in Nat
<1>1. Len(t) \in Nat /\ Reach(t)[i] \in Nat /\ Reach(t)[j] \in Nat
  BY LenProperties, ReachDef
<1> DEFINE n == j - i
<1>2. n \in 0 .. Len(t) - i /\ i + n = j
  BY <1>1
<1> HIDE DEF n
<1>3. Reach(t)[i + n] = Reach(t)[i] + Reach(From(t, i))[n] /\ Reach(From(t, i))[n] \in Nat
  BY <1>2, ReachFrom
<1> QED  BY <1>1, <1>2, <1>3

(* What stands behind the last newline is no wider than that. *)
Trails(text, width) ==
  \A from \in DOMAIN text :
    (\A n \in from .. Len(text) : text[n] # NewLine) =>
      Reach(text)[Len(text)] - Reach(text)[from - 1] <= width

LEMMA Wider ==
  ASSUME NEW t \in Seq(Chars), NEW a \in Int, NEW b \in Int, a <= b
  PROVE  (NoWider(t, a) => NoWider(t, b)) /\ (Trails(t, a) => Trails(t, b))
<1>1. Len(t) \in Nat /\ DOMAIN t = 1 .. Len(t)
  BY LenProperties
<1>2. \A n \in 0 .. Len(t) : Reach(t)[n] \in Int
  BY ReachDef
<1>3. ASSUME NEW n \in 1 .. Len(t)
      PROVE  Reach(t)[n] \in Int /\ Reach(t)[n - 1] \in Int
  <2>1. n \in 0 .. Len(t) /\ n - 1 \in 0 .. Len(t)
    BY <1>1
  <2> QED  BY <1>2, <2>1
<1>4. NoWider(t, a) => NoWider(t, b)
  <2> SUFFICES ASSUME NoWider(t, a), NEW from \in DOMAIN t, NEW to \in DOMAIN t,
                      \A n \in from .. to : t[n] # NewLine
               PROVE  Reach(t)[to] - Reach(t)[from - 1] <= b
    BY DEF NoWider
  <2>1. Reach(t)[to] - Reach(t)[from - 1] <= a
    BY DEF NoWider
  <2> QED  BY <1>1, <1>3, <2>1
<1>5. Trails(t, a) => Trails(t, b)
  <2> SUFFICES ASSUME Trails(t, a), NEW from \in DOMAIN t,
                      \A n \in from .. Len(t) : t[n] # NewLine
               PROVE  Reach(t)[Len(t)] - Reach(t)[from - 1] <= b
    BY DEF Trails
  <2>1. Reach(t)[Len(t)] - Reach(t)[from - 1] <= a
    BY DEF Trails
  <2>2. Len(t) \in 1 .. Len(t)
    BY <1>1
  <2> QED  BY <1>1, <1>3, <2>1, <2>2
<1> QED  BY <1>4, <1>5

LEMMA TrailsNothing ==
  ASSUME NEW t \in Seq(Chars), NEW w, t # <<>> => Last(t) = NewLine
  PROVE  Trails(t, w)
<1>1. Len(t) \in Nat /\ DOMAIN t = 1 .. Len(t) /\ (t = <<>> <=> Len(t) = 0)
  BY EmptyOrLonger
<1> SUFFICES ASSUME NEW from \in DOMAIN t, \A n \in from .. Len(t) : t[n] # NewLine
             PROVE  FALSE
  BY DEF Trails
<1>2. Len(t) \in from .. Len(t) /\ Len(t) # 0
  BY <1>1
<1> QED  BY <1>1, <1>2 DEF Last

(* One more character. *)
LEMMA AppendNarrow ==
  ASSUME NEW t \in Seq(Chars), NEW c \in Chars, NEW bound \in Int, NEW w \in Int,
         NoWider(t, bound), w <= bound, CharWidth[c] <= w,
         c # NewLine => Trails(t, w - CharWidth[c])
  PROVE  /\ Append(t, c) \in Seq(Chars)
         /\ NoWider(Append(t, c), bound) /\ Trails(Append(t, c), w)
<1> DEFINE u == Append(t, c)
           L == Len(t)
           cw == CharWidth[c]
<1>1. /\ u \in Seq(Chars) /\ Len(u) = L + 1 /\ u[L + 1] = c /\ L \in Nat
      /\ \A i \in 1 .. L : u[i] = t[i]
      /\ DOMAIN t = 1 .. L
  BY AppendProperties, LenProperties
<1>2. DOMAIN u = 1 .. L + 1
  BY <1>1, LenProperties
<1>3. cw \in Nat /\ cw >= 1
  BY Widths
<1> HIDE DEF u, L, cw
<1>4. \A n \in 0 .. L : Reach(u)[n] = Reach(t)[n] /\ Reach(t)[n] \in Nat
  <2>1. \A n \in 0 .. L : Reach(t)[n] \in Nat
    BY ReachDef DEF L
  <2> DEFINE k == 0
  <2>2. /\ k \in Nat /\ k + L <= Len(t) /\ L <= Len(u) /\ \A i \in 1 .. L : u[i] = t[k + i]
    BY <1>1 DEF L
  <2>3. Reach(t)[0] = 0
    BY ReachDef
  <2> HIDE DEF k
  <2>4. \A n \in 0 .. L : Reach(t)[k + n] = Reach(t)[k] + Reach(u)[n]
    BY <1>1, <2>2, ReachShift
  <2>5. ASSUME NEW n \in 0 .. L PROVE Reach(u)[n] = Reach(t)[n]
    <3>1. Reach(t)[0 + n] = Reach(t)[0] + Reach(u)[n]
      BY <2>4 DEF k
    <3>2. 0 + n = n
      BY <1>1
    <3>3. n \in 0 .. Len(u)
      BY <1>1
    <3>4. Reach(u)[n] \in Nat
      BY <1>1, <3>3, ReachDef
    <3> QED  BY <2>3, <3>1, <3>2, <3>4
  <2> QED  BY <2>1, <2>5
<1>5. Reach(u)[L + 1] = Reach(t)[L] + cw /\ Reach(t)[L] \in Nat
  <2>1. L + 1 \in 1 .. Len(u) /\ L + 1 - 1 = L /\ L \in 0 .. L
    BY <1>1
  <2>2. Reach(u)[L + 1] = Reach(u)[L + 1 - 1] + CharWidth[u[L + 1]]
    BY <1>1, <2>1, ReachDef
  <2> QED  BY <1>1, <1>4, <2>1, <2>2 DEF cw
<1>6. ASSUME NEW from \in 1 .. L + 1, \A n \in from .. L + 1 : u[n] # NewLine
      PROVE  Reach(u)[L + 1] - Reach(u)[from - 1] <= w
  <2>1. c # NewLine
    <3>1. L + 1 \in from .. L + 1
      BY <1>1
    <3> QED  BY <1>1, <1>6, <3>1
  <2>2. CASE from = L + 1
    <3>1. from - 1 = L /\ L \in 0 .. L
      BY <1>1, <2>2
    <3>2. Reach(u)[from - 1] = Reach(t)[L]
      BY <1>4, <3>1
    <3> QED  BY <1>3, <1>5, <3>2 DEF cw
  <2>3. CASE from # L + 1
    <3>1. from \in 1 .. L /\ from - 1 \in 0 .. L
      BY <1>1, <2>3
    <3>2. \A n \in from .. L : t[n] # NewLine
      <4>1. \A n \in from .. L : n \in from .. L + 1 /\ n \in 1 .. L
        BY <1>1, <3>1
      <4> QED  BY <1>1, <1>6, <4>1
    <3>3. Reach(t)[L] - Reach(t)[from - 1] <= w - cw
      BY <1>1, <2>1, <3>1, <3>2 DEF Trails, L, cw
    <3>4. Reach(u)[from - 1] = Reach(t)[from - 1] /\ Reach(t)[from - 1] \in Nat
      BY <1>4, <3>1
    <3> QED  BY <1>3, <1>5, <3>3, <3>4
  <2> QED  BY <2>2, <2>3
<1>7. Trails(u, w)
  BY <1>1, <1>2, <1>6 DEF Trails
<1>8. NoWider(u, bound)
  <2> SUFFICES ASSUME NEW from \in 1 .. L + 1, NEW to \in 1 .. L + 1,
                      \A n \in from .. to : u[n] # NewLine
               PROVE  Reach(u)[to] - Reach(u)[from - 1] <= bound
    BY <1>2 DEF NoWider
  <2>0. from - 1 \in 0 .. L /\ to \in 0 .. L + 1
    BY <1>1
  <2>1. CASE to = L + 1
    <3>1. Reach(u)[L + 1] - Reach(u)[from - 1] <= w
      BY <1>6, <2>1
    <3>2. Reach(u)[from - 1] \in Nat
      BY <1>4, <2>0
    <3> QED  BY <1>3, <1>5, <2>1, <3>1, <3>2
  <2>2. CASE to # L + 1 /\ from # L + 1
    <3>1. from \in 1 .. L /\ to \in 1 .. L
      BY <1>1, <2>2
    <3>2. \A n \in from .. to : t[n] # NewLine
      <4>1. \A n \in from .. to : n \in 1 .. L
        BY <1>1, <3>1
      <4> QED  BY <1>1, <4>1
    <3>3. Reach(t)[to] - Reach(t)[from - 1] <= bound
      BY <1>1, <3>1, <3>2 DEF NoWider
    <3>4. to \in 0 .. L
      BY <3>1
    <3> QED  BY <1>4, <2>0, <3>3, <3>4
  <2>3. CASE to # L + 1 /\ from = L + 1
    <3>1. to \in 0 .. L /\ from - 1 = L /\ L \in 0 .. Len(t) /\ to \in 0 .. Len(t) /\ to <= L
      BY <1>1, <2>3 DEF L
    <3>2. Reach(t)[to] <= Reach(t)[L]
      BY <3>1, ReachGrows
    <3>3. /\ Reach(u)[to] = Reach(t)[to] /\ Reach(t)[to] \in Nat
          /\ Reach(u)[from - 1] = Reach(t)[L] /\ Reach(t)[L] \in Nat
      BY <1>4, <2>0, <3>1
    <3>4. 0 <= bound
      BY <1>3 DEF cw
    <3> QED  BY <3>2, <3>3, <3>4
  <2> QED  BY <2>1, <2>2, <2>3
<1> QED  BY <1>1, <1>7, <1>8 DEF u

(* What scroll leaves is no wider than it was. *)
LEMMA FromNarrow ==
  ASSUME NEW t \in Seq(Chars), NEW k \in 0 .. Len(t), NEW w
  PROVE  /\ NoWider(t, w) => NoWider(From(t, k), w)
         /\ Trails(t, w) => Trails(From(t, k), w)
<1> DEFINE u == From(t, k)
           L == Len(t) - k
<1>1. /\ u \in Seq(Chars) /\ Len(u) = L /\ Len(t) \in Nat /\ k \in Nat /\ L \in Nat
      /\ \A i \in 1 .. L : u[i] = t[k + i]
  BY FromShape
<1>2. DOMAIN u = 1 .. L /\ DOMAIN t = 1 .. Len(t)
  BY <1>1, LenProperties
<1>3. \A n \in 0 .. L : Reach(t)[k + n] = Reach(t)[k] + Reach(u)[n] /\ Reach(u)[n] \in Nat
  BY ReachFrom
<1>4. Reach(t)[k] \in Nat
  BY ReachDef
<1>5. k + L = Len(t)
  BY <1>1
<1> HIDE DEF u, L
<1>6. ASSUME NEW from \in 1 .. L, NEW to \in 1 .. L, \A n \in from .. to : u[n] # NewLine
      PROVE  /\ k + from \in 1 .. Len(t) /\ k + to \in 1 .. Len(t)
             /\ \A n \in k + from .. k + to : t[n] # NewLine
             /\ Reach(t)[k + to] - Reach(t)[k + from - 1] = Reach(u)[to] - Reach(u)[from - 1]
  <2>1. k + from \in 1 .. Len(t) /\ k + to \in 1 .. Len(t)
    BY <1>1, <1>5
  <2>2. ASSUME NEW n \in k + from .. k + to PROVE t[n] # NewLine
    <3>1. n - k \in from .. to /\ n - k \in 1 .. L /\ k + (n - k) = n
      BY <1>1
    <3> QED  BY <1>1, <1>6, <3>1
  <2>3. to \in 0 .. L /\ from - 1 \in 0 .. L /\ k + from - 1 = k + (from - 1)
    BY <1>1
  <2>4. /\ Reach(t)[k + to] = Reach(t)[k] + Reach(u)[to] /\ Reach(u)[to] \in Nat
        /\ Reach(t)[k + from - 1] = Reach(t)[k] + Reach(u)[from - 1] /\ Reach(u)[from - 1] \in Nat
    BY <1>3, <2>3
  <2> QED  BY <1>4, <2>1, <2>2, <2>4
<1>7. ASSUME NoWider(t, w) PROVE NoWider(u, w)
  <2> SUFFICES ASSUME NEW from \in 1 .. L, NEW to \in 1 .. L,
                      \A n \in from .. to : u[n] # NewLine
               PROVE  Reach(u)[to] - Reach(u)[from - 1] <= w
    BY <1>2 DEF NoWider
  <2> DEFINE a == k + from
             b == k + to
  <2>1. /\ a \in 1 .. Len(t) /\ b \in 1 .. Len(t) /\ \A n \in a .. b : t[n] # NewLine
        /\ Reach(t)[b] - Reach(t)[a - 1] = Reach(u)[to] - Reach(u)[from - 1]
    BY <1>6
  <2> HIDE DEF a, b
  <2>2. Reach(t)[b] - Reach(t)[a - 1] <= w
    BY <1>2, <1>7, <2>1 DEF NoWider
  <2> QED  BY <2>1, <2>2
<1>8. ASSUME Trails(t, w) PROVE Trails(u, w)
  <2> SUFFICES ASSUME NEW from \in 1 .. L, \A n \in from .. L : u[n] # NewLine
               PROVE  Reach(u)[L] - Reach(u)[from - 1] <= w
    BY <1>1, <1>2 DEF Trails
  <2>1. L \in 1 .. L
    BY <1>1
  <2>2. /\ k + from \in 1 .. Len(t)
        /\ \A n \in k + from .. Len(t) : t[n] # NewLine
        /\ Reach(t)[Len(t)] - Reach(t)[k + from - 1] = Reach(u)[L] - Reach(u)[from - 1]
    BY <1>5, <1>6, <2>1
  <2>3. Reach(t)[Len(t)] - Reach(t)[k + from - 1] <= w
    BY <1>2, <1>8, <2>2 DEF Trails
  <2> QED  BY <2>2, <2>3
<1> QED  BY <1>7, <1>8 DEF u

(* print breaks a line in time; e is what stood on it that print does not  *)
(* know of.                                                                *)
LEMMA BrokenNarrow ==
  ASSUME NEW t \in Seq(Chars), NEW c \in Chars, NEW width \in 0 .. WIDTH - 1,
         NEW e \in Nat, NEW bound \in Int, e + WIDTH - 1 <= bound,
         NoWider(t, bound), Trails(t, e + width)
  PROVE  /\ t \o Broken(width, c) \in Seq(Chars)
         /\ NoWider(t \o Broken(width, c), bound)
         /\ Trails(t \o Broken(width, c), e + Grown(width, c) - CharWidth[c])
<1>1. /\ WIDTH \in Nat /\ NewLine \in Chars /\ CharWidth[c] \in Nat
      /\ CharWidth[NewLine] \in Nat /\ CharWidth[NewLine] <= WIDTH - 1
  BY Widths
<1>2. CASE Overflows(width, c)
  <2>1. Broken(width, c) = <<NewLine>> /\ t \o <<NewLine>> = Append(t, NewLine)
    BY <1>1, <1>2, AppendIsConcat DEF Broken
  <2>2. CharWidth[NewLine] \in Int /\ CharWidth[NewLine] <= bound
    BY <1>1
  <2>3. /\ Append(t, NewLine) \in Seq(Chars)
        /\ NoWider(Append(t, NewLine), bound)
    <3> DEFINE w == CharWidth[NewLine]
    <3>1. w \in Int /\ w <= bound /\ CharWidth[NewLine] <= w
      BY <1>1, <2>2
    <3> HIDE DEF w
    <3> QED  BY <1>1, <3>1, AppendNarrow
  <2>4. Last(Append(t, NewLine)) = NewLine
    BY <1>1, AppendProperties DEF Last
  <2>5. Trails(Append(t, NewLine), e + Grown(width, c) - CharWidth[c])
    BY <2>3, <2>4, TrailsNothing
  <2> QED  BY <2>1, <2>3, <2>5
<1>3. CASE ~Overflows(width, c)
  <2>1. Broken(width, c) = <<>> /\ t \o <<>> = t
    BY <1>3, ConcatEmptySeq DEF Broken
  <2>2. e + Grown(width, c) - CharWidth[c] = e + width
    BY <1>1, <1>3 DEF Grown
  <2> QED  BY <2>1, <2>2
<1> QED  BY <1>2, <1>3

LEMMA PushNarrow ==
  ASSUME NEW t \in Seq(Chars), NEW c \in Chars, NEW width \in 0 .. WIDTH - 1,
         NEW e \in Nat, NEW bound \in Int, e + WIDTH - 1 <= bound,
         NoWider(t, bound), CharWidth[c] <= width, Trails(t, e + width - CharWidth[c])
  PROVE  /\ Append(t, c) \in Seq(Chars)
         /\ NoWider(Append(t, c), bound) /\ Trails(Append(t, c), e + width)
<1> DEFINE w == e + width
<1>1. WIDTH \in Nat /\ CharWidth[c] \in Nat
  BY Widths
<1>2. w \in Int /\ w <= bound /\ CharWidth[c] <= w
  BY <1>1
<1>3. e + width - CharWidth[c] = w - CharWidth[c]
  BY <1>1
<1> HIDE DEF w
<1>4. /\ Append(t, c) \in Seq(Chars)
      /\ NoWider(Append(t, c), bound) /\ Trails(Append(t, c), w)
  BY <1>2, <1>3, AppendNarrow
<1> QED  BY <1>4 DEF w

LEMMA PieceNarrow ==
  ASSUME NEW t \in Seq(Chars), NEW c \in Chars, NEW width \in 0 .. WIDTH - 1,
         NEW e \in Nat, NEW bound \in Int, e + WIDTH - 1 <= bound,
         NoWider(t, bound), Trails(t, e + width)
  PROVE  /\ t \o Piece(width, c) \in Seq(Chars)
         /\ NoWider(t \o Piece(width, c), bound)
         /\ Trails(t \o Piece(width, c), e + Grown(width, c))
<1> DEFINE u == t \o Broken(width, c)
           g == Grown(width, c)
<1>1. u \in Seq(Chars) /\ NoWider(u, bound) /\ Trails(u, e + g - CharWidth[c])
  BY BrokenNarrow
<1>2. g \in 0 .. WIDTH - 1 /\ CharWidth[c] <= g /\ Broken(width, c) \in Seq(Chars)
  <2>1. Grown(width, c) >= CharWidth[c] /\ CharWidth[c] \in Nat /\ Grown(width, c) \in 0 .. WIDTH - 1
    BY PieceTyped, Widths
  <2>2. Broken(width, c) \in Seq(Chars)
    BY PieceTyped
  <2> QED  BY <2>1, <2>2
<1>3. t \o Piece(width, c) = Append(u, c)
  <2> DEFINE b == Broken(width, c)
  <2>1. /\ Append(b, c) = b \o <<c>> /\ Append(t \o b, c) = (t \o b) \o <<c>>
    BY <1>1, <1>2, AppendIsConcat
  <2>2. <<c>> \in Seq(Chars)
    OBVIOUS
  <2>3. b \in Seq(Chars)
    BY <1>2
  <2> HIDE DEF b
  <2>4. (t \o b) \o <<c>> = t \o (b \o <<c>>)
    BY <2>2, <2>3, Regroup
  <2> QED  BY <2>1, <2>4 DEF b, Piece
<1> HIDE DEF u, g
<1>4. /\ Append(u, c) \in Seq(Chars)
      /\ NoWider(Append(u, c), bound) /\ Trails(Append(u, c), e + g)
  BY <1>1, <1>2, PushNarrow
<1> QED  BY <1>3, <1>4 DEF g

LEMMA WrappedNarrow ==
  ASSUME NEW t \in Seq(Chars), NEW m \in Seq(Chars), NEW e \in Nat, NEW bound \in Int,
         e + WIDTH - 1 <= bound, NoWider(t, bound), Trails(t, e)
  PROVE  t \o Wrapped(m) \in Seq(Chars) /\ NoWider(t \o Wrapped(m), bound)
<1> DEFINE s == Append(m, NewLine)
           L == Len(m) + 1
           W(n) == Wrapping(s)[n]
           Fine(n) == /\ t \o W(n).text \in Seq(Chars)
                      /\ NoWider(t \o W(n).text, bound)
                      /\ Trails(t \o W(n).text, e + W(n).width)
           A == {n \in Nat : n <= L => Fine(n)}
<1>1. s \in Seq(Chars) /\ Len(s) = L /\ L \in Nat
  BY WrappedTyped, LenProperties
<1>2. Wrapped(m) = W(L).text
  BY DEF Wrapped
<1> HIDE DEF s, L
<1>3. 0 \in A
  <2>1. W(0) = Blank
    BY <1>1, WrappingDef
  <2>2. W(0).text = <<>> /\ W(0).width = 0
    BY <2>1 DEF Blank
  <2>3. t \o W(0).text = t /\ e + W(0).width = e
    BY <2>2, ConcatEmptySeq
  <2> HIDE DEF W
  <2> QED  BY <2>3
<1>4. ASSUME NEW n \in Nat, n \in A PROVE n + 1 \in A
  <2> SUFFICES ASSUME n + 1 <= L PROVE Fine(n + 1)
    OBVIOUS
  <2> DEFINE k == n + 1
  <2>1. k \in 1 .. Len(s) /\ n \in 0 .. Len(s) /\ k - 1 = n
    BY <1>1
  <2>2. Fine(n)
    BY <1>1, <1>4, <2>1
  <2> HIDE DEF k
  <2> DEFINE c == s[k]
  <2>3. W(k) = Step(W(n), c) /\ W(n) \in State /\ c \in Chars
    BY <1>1, <2>1, WrappingDef, ElementOfSeq
  <2> HIDE DEF W, c
  <2>4. W(n).text \in Seq(Chars) /\ W(n).width \in 0 .. WIDTH - 1
    BY <2>3 DEF State
  <2>5. W(k).text = W(n).text \o Piece(W(n).width, c) /\ W(k).width = Grown(W(n).width, c)
    BY <2>3, StepParts
  <2> DEFINE x == t \o W(n).text
             a == W(n).text
             p == Piece(W(n).width, c)
             width == W(n).width
  <2>6. /\ x \o Piece(width, c) \in Seq(Chars)
        /\ NoWider(x \o Piece(width, c), bound)
        /\ Trails(x \o Piece(width, c), e + Grown(width, c))
    <3>1. x \in Seq(Chars) /\ NoWider(x, bound) /\ Trails(x, e + width) /\ width \in 0 .. WIDTH - 1
      BY <2>2, <2>4
    <3> HIDE DEF x, width
    <3> QED  BY <2>3, <3>1, PieceNarrow
  <2>7. t \o W(k).text = x \o Piece(width, c)
    <3>1. a \in Seq(Chars) /\ p \in Seq(Chars)
      BY <2>3, <2>4, PieceTyped
    <3> HIDE DEF a, p
    <3>2. (t \o a) \o p = t \o (a \o p)
      BY <3>1, Regroup
    <3> QED  BY <2>5, <3>2 DEF a, p
  <2>8. Fine(k)
    BY <2>5, <2>6, <2>7
  <2> QED  BY <2>8 DEF k
<1> HIDE DEF A
<1>5. L \in A
  BY <1>1, <1>3, <1>4, Induction
<1> QED  BY <1>2, <1>5 DEF A

LEMMA ScrolledNarrow ==
  ASSUME NEW t \in Seq(Chars), NEW w, NoWider(t, w)
  PROVE  NoWider(Scrolled(t), w)
<1>1. PICK k : IsCut(t, k) /\ Scrolled(t) = From(t, k)
  BY ScrolledCut
<1>2. k \in 0 .. Len(t)
  BY <1>1 DEF IsCut
<1>3. NoWider(From(t, k), w)
  BY <1>2, FromNarrow
<1> QED  BY <1>1, <1>3

LEMMA PrintedNarrow ==
  ASSUME NEW t \in Seq(Chars), NEW m \in Seq(Chars), NEW e \in Nat, NEW bound \in Int,
         e + WIDTH - 1 <= bound, NoWider(t, bound), Trails(t, e)
  PROVE  NoWider(Printed(t, m), bound)
  BY WrappedNarrow, ScrolledNarrow DEF Printed
=============================================================================
