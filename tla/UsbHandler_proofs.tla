---------------------------- MODULE UsbHandler_proofs ---------------------------
(***************************************************************************)
(* What the USB handler does with whatever is written to it: its types,    *)
(* that undisturbed it does what the frames say, and that no disturbance   *)
(* makes it do what no frame says.                                         *)
(***************************************************************************)
EXTENDS UsbHandler, SequenceTheorems, FiniteSetTheorems, WellFoundedInduction, TLAPS

(* Of every "kset" both separators are read: its key is not empty, which   *)
(* ends the command, and does not fill its buffer, which ends getUntil     *)
(* before the separator.  The rest of such a frame stays on the line and   *)
(* is taken for the beginning of a prefix.                                 *)
KeysGiven ==
  \A f \in Frames : f.op = "kset" => f.key # <<>> /\ Len(f.key) < CONFIG_KEY_LEN - 1

-----------------------------------------------------------------------------
(* Induction, with a set in the place of a predicate. *)
LEMMA Less ==
  ASSUME NEW x \in Nat, NEW y \in Nat, x < y
  PROVE  <<x, y>> \in OpToRel(<, Nat)
  BY DEF OpToRel

LEMMA Least ==
  ASSUME NEW T \in SUBSET Nat, T # {}
  PROVE  \E x \in T : \A y \in T : x <= y
<1> DEFINE R == OpToRel(<, Nat)
<1>1. IsWellFoundedOn(R, Nat)
  BY NatLessThanWellFounded
<1> HIDE DEF R
<1>2. PICK x \in T : \A y \in T : ~(<<y, x>> \in R)
  BY <1>1, WFMin
<1>3. ASSUME NEW y \in T PROVE x <= y
  <2> SUFFICES ASSUME y < x PROVE FALSE
    OBVIOUS
  <2>1. <<y, x>> \in OpToRel(<, Nat)
    BY Less
  <2> QED  BY <1>2, <2>1 DEF R
<1> QED  BY <1>3

LEMMA Induction ==
  ASSUME NEW S, 0 \in S, \A n \in Nat : n \in S => n + 1 \in S
  PROVE  Nat \subseteq S
<1> SUFFICES ASSUME Nat \ S # {} PROVE FALSE
  OBVIOUS
<1>1. PICK x \in Nat \ S : \A y \in Nat \ S : x <= y
  <2> DEFINE T == Nat \ S
  <2>1. T \in SUBSET Nat /\ T # {}
    OBVIOUS
  <2> HIDE DEF T
  <2>2. \E x \in T : \A y \in T : x <= y
    BY <2>1, Least
  <2> QED  BY <2>2 DEF T
<1>2. x - 1 \in Nat /\ x - 1 < x /\ x - 1 + 1 = x
  OBVIOUS
<1>3. x - 1 \in Nat \ S
  BY <1>2
<1> QED  BY <1>1, <1>2, <1>3

(* A recursion over an interval has a solution. *)
StepsIn(S) == [Nat \X S -> S]

Solution(f, S, base, step, L) ==
  /\ f \in [0 .. L -> S]
  /\ f[0] = base
  /\ \A n \in 1 .. L : f[n] = step[<<n, f[n - 1]>>]

LEMMA Recursion ==
  ASSUME NEW S, NEW base \in S, NEW step \in StepsIn(S), NEW L \in Nat
  PROVE  \E f : Solution(f, S, base, step, L)
<1>0. step \in [Nat \X S -> S]
  BY DEF StepsIn
<1> DEFINE Solves(f, k) == /\ f \in [0 .. k -> S]
                           /\ f[0] = base
                           /\ \A n \in 1 .. k : f[n] = step[<<n, f[n - 1]>>]
           A == {k \in Nat : \E f : Solves(f, k)}
<1>1. 0 \in A
  <2>1. Solves([n \in 0 .. 0 |-> base], 0)
    OBVIOUS
  <2> QED  BY <2>1
<1>2. ASSUME NEW k \in Nat, k \in A PROVE k + 1 \in A
  <2>1. PICK f : Solves(f, k)
    BY <1>2
  <2> DEFINE g == [n \in 0 .. k + 1 |-> IF n = k + 1 THEN step[<<k + 1, f[k]>>] ELSE f[n]]
  <2>2. f[k] \in S /\ step[<<k + 1, f[k]>>] \in S
    BY <1>0, <2>1
  <2>3. g \in [0 .. k + 1 -> S]
    BY <2>1, <2>2
  <2>4. g[0] = base
    BY <2>1
  <2>5. ASSUME NEW n \in 1 .. k + 1 PROVE g[n] = step[<<n, g[n - 1]>>]
    <3>1. CASE n = k + 1
      <4>1. g[k + 1] = step[<<k + 1, f[k]>>] /\ g[k] = f[k] /\ k + 1 - 1 = k
        OBVIOUS
      <4> HIDE DEF g
      <4> QED  BY <3>1, <4>1
    <3>2. CASE n # k + 1
      <4>1. n \in 1 .. k /\ n - 1 \in 0 .. k + 1 /\ n - 1 # k + 1 /\ n \in 0 .. k + 1
        BY <3>2
      <4>2. g[n] = f[n] /\ g[n - 1] = f[n - 1]
        BY <3>2, <4>1
      <4> QED  BY <2>1, <4>1, <4>2
    <3> QED  BY <3>1, <3>2
  <2>6. Solves(g, k + 1)
    BY <2>3, <2>4, <2>5
  <2> HIDE DEF Solves, g
  <2> QED  BY <2>6
<1> HIDE DEF A
<1>3. L \in A
  BY <1>1, <1>2, Induction
<1> QED  BY <1>3 DEF A, Solution

-----------------------------------------------------------------------------
(* The recursive functions of the model. *)
LEMMA Bounds ==
  /\ COMMAND_LEN \in Nat /\ COMMAND_LEN > 0
  /\ CONFIG_KEY_LEN \in Nat /\ CONFIG_KEY_LEN > 1
  /\ CONFIG_VALUE_LEN \in Nat /\ CONFIG_VALUE_LEN > 1
  /\ BUFFER_SIZE \in Nat /\ BUFFER_SIZE > 0
  /\ Separator \in Nat /\ Escape \in Nat /\ Separator # Escape
  BY UsbAssumption

LEMMA PrefixBytes ==
  /\ Prefix \in Seq(Nat) /\ Len(Prefix) \in Nat /\ Len(Prefix) > 0
  /\ Prefix[1] # Separator
<1>1. Prefix \in Seq(Nat) /\ Prefix # <<>> /\ Prefix[1] # Separator
  BY UsbAssumption
<1>2. Len(Prefix) \in Nat /\ Len(Prefix) # 0
  BY <1>1, LenProperties, EmptySeq
<1> QED  BY <1>1, <1>2

LEMMA CodeBytes ==
  ASSUME NEW o \in Ops
  PROVE  Code[o] \in Seq(Nat) /\ Len(Code[o]) = COMMAND_LEN
<1>1. Code[o] \in [1 .. COMMAND_LEN -> Nat] /\ COMMAND_LEN \in Nat
  BY UsbAssumption
<1> QED  BY <1>1, IsASeq, LenProperties

LEMMA FrameParts ==
  ASSUME NEW f \in Frames
  PROVE  /\ f \in Frame /\ f.op \in Ops /\ f.key \in Seq(Nat) /\ f.value \in Seq(Nat)
         /\ f = [op |-> f.op, key |-> f.key, value |-> f.value]
         /\ f.op \notin KeyOps => f.key = <<>>
         /\ f.op \notin {"kset", "data", "zipd"} => f.value = <<>>
<1>1. f \in Frame
  BY UsbAssumption
<1>2. f \in [op : Ops, key : Seq(Nat), value : Seq(Nat)]
  BY <1>1 DEF Frame
<1>3. /\ f.op \notin KeyOps => f.key = <<>>
      /\ f.op \notin {"kset", "data", "zipd"} => f.value = <<>>
  BY UsbAssumption
<1> QED  BY <1>1, <1>2, <1>3

LEMMA QuotedTyped ==
  ASSUME NEW b \in Nat
  PROVE  Quoted(b) \in Seq(Nat) /\ Len(Quoted(b)) > 0
  BY Bounds DEF Quoted

QuoteSteps(s) ==
  [p \in Nat \X Seq(Nat) |->
     IF p[1] \in 1 .. Len(s) THEN Quoted(s[Len(s) - p[1] + 1]) \o p[2] ELSE p[2]]

LEMMA EscapedDef ==
  ASSUME NEW s \in Seq(Nat)
  PROVE  /\ EscapedEnd(s)[0] = <<>>
         /\ \A n \in 1 .. Len(s) :
              EscapedEnd(s)[n] = Quoted(s[Len(s) - n + 1]) \o EscapedEnd(s)[n - 1]
         /\ \A n \in 0 .. Len(s) : EscapedEnd(s)[n] \in Seq(Nat)
<1> DEFINE L == Len(s)
           S == Seq(Nat)
           B(g, n) == IF n = 0 THEN <<>> ELSE Quoted(s[L - n + 1]) \o g[n - 1]
           D(g) == [n \in 0 .. L |-> B(g, n)]
           step == QuoteSteps(s)
<1>1. L \in Nat /\ \A n \in 1 .. L : L - n + 1 \in 1 .. L /\ s[L - n + 1] \in Nat
  BY LenProperties
<1>2. <<>> \in S
  BY EmptySeq
<1>3. step \in StepsIn(S)
  <2>1. ASSUME NEW p \in Nat \X S PROVE step[p] \in S
    <3>1. CASE p[1] \in 1 .. L
      <4>1. Quoted(s[L - p[1] + 1]) \in S /\ p[2] \in S
        BY <1>1, <3>1, QuotedTyped
      <4>2. Quoted(s[L - p[1] + 1]) \o p[2] \in S
        BY <4>1, ConcatProperties
      <4> QED  BY <3>1, <4>2 DEF QuoteSteps
    <3>2. CASE p[1] \notin 1 .. L
      BY <3>2 DEF QuoteSteps
    <3> QED  BY <3>1, <3>2
  <2> QED  BY <2>1 DEF QuoteSteps, StepsIn
<1> HIDE DEF L, S
<1>4. PICK f : Solution(f, S, <<>>, step, L)
  <2> HIDE DEF step
  <2> QED  BY <1>1, <1>2, <1>3, Recursion
<1>5. \A n \in 1 .. L : f[n] = Quoted(s[L - n + 1]) \o f[n - 1]
  <2> SUFFICES ASSUME NEW n \in 1 .. L PROVE f[n] = Quoted(s[L - n + 1]) \o f[n - 1]
    OBVIOUS
  <2>1. n \in Nat /\ n - 1 \in 0 .. L
    BY <1>1
  <2>2. <<n, f[n - 1]>> \in Nat \X S
    BY <1>4, <2>1 DEF Solution
  <2> QED  BY <1>4, <2>2 DEF Solution, QuoteSteps, L, S
<1>6. f = D(f)
  <2>1. \A n \in 0 .. L : n = 0 \/ n \in 1 .. L
    BY <1>1
  <2>2. \A n \in 0 .. L : f[n] = B(f, n)
    BY <1>4, <1>5, <2>1 DEF Solution
  <2>3. f \in [0 .. L -> S]
    BY <1>4 DEF Solution
  <2> HIDE DEF B
  <2> QED  BY <2>2, <2>3
<1>7. EscapedEnd(s) = CHOOSE g : g = D(g)
  BY DEF EscapedEnd, L
<1>8. EscapedEnd(s) = D(EscapedEnd(s))
  <2> HIDE DEF D
  <2> QED  BY <1>6, <1>7
<1>9. /\ EscapedEnd(s)[0] = <<>>
      /\ \A n \in 1 .. L : EscapedEnd(s)[n] = Quoted(s[L - n + 1]) \o EscapedEnd(s)[n - 1]
  <2>1. \A n \in 0 .. L : EscapedEnd(s)[n] = B(EscapedEnd(s), n)
    <3> HIDE DEF B
    <3> QED  BY <1>8
  <2>2. 0 \in 0 .. L /\ \A n \in 1 .. L : n \in 0 .. L /\ n # 0
    BY <1>1
  <2> QED  BY <2>1, <2>2
<1> DEFINE A == {n \in Nat : n <= L => EscapedEnd(s)[n] \in S}
<1>10. 0 \in A
  BY <1>2, <1>9
<1>11. ASSUME NEW n \in Nat, n \in A PROVE n + 1 \in A
  <2> SUFFICES ASSUME n + 1 <= L PROVE EscapedEnd(s)[n + 1] \in S
    OBVIOUS
  <2>1. n + 1 \in 1 .. L /\ n + 1 - 1 = n /\ EscapedEnd(s)[n] \in S
    BY <1>1, <1>11
  <2>2. Quoted(s[L - (n + 1) + 1]) \in S
    BY <1>1, <2>1, QuotedTyped DEF S
  <2>3. EscapedEnd(s)[n + 1] = Quoted(s[L - (n + 1) + 1]) \o EscapedEnd(s)[n]
    <3> DEFINE k == n + 1
    <3>1. k \in 1 .. L /\ k - 1 = n
      BY <2>1
    <3> HIDE DEF k
    <3>2. EscapedEnd(s)[k] = Quoted(s[L - k + 1]) \o EscapedEnd(s)[n]
      BY <1>9, <3>1
    <3> QED  BY <3>2 DEF k
  <2> QED  BY <2>1, <2>2, <2>3, ConcatProperties DEF S
<1>12. \A n \in 0 .. L : EscapedEnd(s)[n] \in S
  <2> HIDE DEF A
  <2>1. Nat \subseteq A
    BY <1>10, <1>11, Induction
  <2> QED  BY <1>1, <2>1 DEF A
<1> QED  BY <1>9, <1>12 DEF L, S

WorkSteps(s) ==
  [p \in Nat \X Seq(Frames) |->
     IF p[1] \in 1 .. Len(s) /\ Works(s[p[1]]) THEN Append(p[2], s[p[1]]) ELSE p[2]]

LEMMA WorkingDef ==
  ASSUME NEW s \in Seq(Frames)
  PROVE  /\ Working(s)[0] = <<>>
         /\ \A n \in 1 .. Len(s) :
              Working(s)[n] = IF Works(s[n]) THEN Append(Working(s)[n - 1], s[n])
                              ELSE Working(s)[n - 1]
         /\ \A n \in 0 .. Len(s) : Working(s)[n] \in Seq(Frames)
<1> DEFINE L == Len(s)
           S == Seq(Frames)
           B(g, n) == IF n = 0 THEN <<>>
                      ELSE IF Works(s[n]) THEN Append(g[n - 1], s[n]) ELSE g[n - 1]
           D(g) == [n \in 0 .. L |-> B(g, n)]
           step == WorkSteps(s)
<1>1. L \in Nat /\ \A n \in 1 .. L : s[n] \in Frames
  BY LenProperties
<1>2. <<>> \in S
  BY EmptySeq
<1>3. step \in StepsIn(S)
  <2>1. ASSUME NEW p \in Nat \X S PROVE step[p] \in S
    <3>1. CASE p[1] \in 1 .. L /\ Works(s[p[1]])
      <4>1. s[p[1]] \in Frames /\ p[2] \in S
        BY <1>1, <3>1
      <4>2. Append(p[2], s[p[1]]) \in S
        BY <4>1, AppendProperties
      <4> QED  BY <3>1, <4>2 DEF WorkSteps
    <3>2. CASE ~(p[1] \in 1 .. L /\ Works(s[p[1]]))
      BY <3>2 DEF WorkSteps
    <3> QED  BY <3>1, <3>2
  <2> QED  BY <2>1 DEF WorkSteps, StepsIn
<1> HIDE DEF L, S
<1>4. PICK f : Solution(f, S, <<>>, step, L)
  <2> HIDE DEF step
  <2> QED  BY <1>1, <1>2, <1>3, Recursion
<1>5. \A n \in 1 .. L : f[n] = IF Works(s[n]) THEN Append(f[n - 1], s[n]) ELSE f[n - 1]
  <2> SUFFICES ASSUME NEW n \in 1 .. L
               PROVE  f[n] = IF Works(s[n]) THEN Append(f[n - 1], s[n]) ELSE f[n - 1]
    OBVIOUS
  <2>1. n \in Nat /\ n - 1 \in 0 .. L
    BY <1>1
  <2>2. <<n, f[n - 1]>> \in Nat \X S
    BY <1>4, <2>1 DEF Solution
  <2> QED  BY <1>4, <2>2 DEF Solution, WorkSteps, L, S
<1>6. f = D(f)
  BY <1>1, <1>4, <1>5, SMTT(30) DEF Solution
<1>7. Working(s) = CHOOSE g : g = D(g)
  BY DEF Working, L
<1>8. Working(s) = D(Working(s))
  <2> HIDE DEF D
  <2> QED  BY <1>6, <1>7
<1>9. /\ Working(s)[0] = <<>>
      /\ \A n \in 1 .. L : Working(s)[n] = IF Works(s[n]) THEN Append(Working(s)[n - 1], s[n])
                                           ELSE Working(s)[n - 1]
  <2>1. \A n \in 0 .. L : Working(s)[n] = B(Working(s), n)
    <3> HIDE DEF B
    <3> QED  BY <1>8
  <2>2. 0 \in 0 .. L /\ \A n \in 1 .. L : n \in 0 .. L /\ n # 0
    BY <1>1
  <2> QED  BY <2>1, <2>2
<1> DEFINE A == {n \in Nat : n <= L => Working(s)[n] \in S}
<1>10. 0 \in A
  BY <1>2, <1>9
<1>11. ASSUME NEW n \in Nat, n \in A PROVE n + 1 \in A
  <2> SUFFICES ASSUME n + 1 <= L PROVE Working(s)[n + 1] \in S
    OBVIOUS
  <2>1. n + 1 \in 1 .. L /\ n + 1 - 1 = n /\ Working(s)[n] \in S
    BY <1>1, <1>11
  <2>2. Append(Working(s)[n], s[n + 1]) \in S
    BY <1>1, <2>1, AppendProperties DEF S
  <2> QED  BY <1>9, <2>1, <2>2
<1>12. \A n \in 0 .. L : Working(s)[n] \in S
  <2> HIDE DEF A
  <2>1. Nat \subseteq A
    BY <1>10, <1>11, Induction
  <2> QED  BY <1>1, <2>1 DEF A
<1> QED  BY <1>9, <1>12 DEF L, S

(* Frames written later change nothing of what is due for the earlier. *)
LEMMA WorkingStays ==
  ASSUME NEW s \in Seq(Frames), NEW f \in Frames, NEW n \in 0 .. Len(s)
  PROVE  Working(Append(s, f))[n] = Working(s)[n]
<1> DEFINE a == Append(s, f)
           A == {k \in Nat : k <= Len(s) => Working(a)[k] = Working(s)[k]}
<1>1. /\ a \in Seq(Frames) /\ Len(a) = Len(s) + 1 /\ Len(s) \in Nat
      /\ \A k \in 1 .. Len(s) : a[k] = s[k]
  BY AppendProperties, LenProperties
<1> HIDE DEF a
<1>2. 0 \in A
  BY <1>1, WorkingDef
<1>3. ASSUME NEW k \in Nat, k \in A PROVE k + 1 \in A
  <2> SUFFICES ASSUME k + 1 <= Len(s) PROVE Working(a)[k + 1] = Working(s)[k + 1]
    OBVIOUS
  <2>1. /\ k + 1 \in 1 .. Len(s) /\ k + 1 \in 1 .. Len(a) /\ k + 1 - 1 = k
        /\ Working(a)[k] = Working(s)[k] /\ a[k + 1] = s[k + 1]
    BY <1>1, <1>3
  <2> QED  BY <1>1, <2>1, WorkingDef
<1> HIDE DEF A
<1>4. n \in A
  BY <1>1, <1>2, <1>3, Induction
<1> QED  BY <1>4 DEF A, a

LEMMA PrefixOfSelf ==
  ASSUME NEW s \in Seq(Frames)
  PROVE  IsPrefix(s, s)
<1>1. Len(s) \in Nat
  BY LenProperties
<1> QED  BY <1>1 DEF IsPrefix

LEMMA PrefixOfAppend ==
  ASSUME NEW s \in Seq(Frames), NEW t \in Seq(Frames), NEW f \in Frames, IsPrefix(s, t)
  PROVE  IsPrefix(s, Append(t, f))
<1>1. /\ Len(s) \in Nat /\ Len(t) \in Nat /\ Len(s) <= Len(t)
      /\ SubSeq(s, 1, Len(s)) = SubSeq(t, 1, Len(s))
  BY LenProperties DEF IsPrefix
<1>2. /\ Append(t, f) \in Seq(Frames) /\ Len(Append(t, f)) = Len(t) + 1
      /\ \A k \in 1 .. Len(t) : Append(t, f)[k] = t[k]
  BY AppendProperties
<1>3. SubSeq(Append(t, f), 1, Len(s)) = SubSeq(t, 1, Len(s))
  BY <1>1, <1>2
<1> QED  BY <1>1, <1>2, <1>3 DEF IsPrefix

LEMMA WorkingGrows ==
  ASSUME NEW s \in Seq(Frames), NEW n \in 0 .. Len(s)
  PROVE  IsPrefix(Working(s)[n], Working(s)[Len(s)])
<1> DEFINE A == {k \in Nat : n + k <= Len(s) => IsPrefix(Working(s)[n], Working(s)[n + k])}
<1>1. Len(s) \in Nat /\ n \in Nat
  BY LenProperties
<1>2. 0 \in A
  BY <1>1, WorkingDef, PrefixOfSelf
<1>3. ASSUME NEW k \in Nat, k \in A PROVE k + 1 \in A
  <2> SUFFICES ASSUME n + (k + 1) <= Len(s)
               PROVE  IsPrefix(Working(s)[n], Working(s)[n + (k + 1)])
    OBVIOUS
  <2> DEFINE m == n + (k + 1)
  <2>1. m \in 1 .. Len(s) /\ m - 1 = n + k /\ m - 1 \in 0 .. Len(s) /\ s[m] \in Frames
    BY <1>1, ElementOfSeq
  <2>2. IsPrefix(Working(s)[n], Working(s)[m - 1])
    BY <1>1, <1>3, <2>1
  <2>3. Working(s)[n] \in Seq(Frames) /\ Working(s)[m - 1] \in Seq(Frames)
    BY <2>1, WorkingDef
  <2> HIDE DEF m
  <2>4. IsPrefix(Working(s)[n], Append(Working(s)[m - 1], s[m]))
    BY <2>1, <2>2, <2>3, PrefixOfAppend
  <2>5. IsPrefix(Working(s)[n], Working(s)[m])
    BY <2>1, <2>2, <2>4, WorkingDef
  <2> QED  BY <2>5 DEF m
<1> HIDE DEF A
<1>4. Len(s) - n \in Nat /\ n + (Len(s) - n) = Len(s)
  BY <1>1
<1>5. Len(s) - n \in A
  BY <1>2, <1>3, <1>4, Induction
<1> QED  BY <1>4, <1>5 DEF A

-----------------------------------------------------------------------------

(* What a host writes. *)
LEMMA ArgumentTypedBytes ==
  ASSUME NEW s \in Seq(Nat)
  PROVE  Argument(s) \in Seq(Nat)
<1>1. Len(s) \in 0 .. Len(s)
  BY LenProperties
<1>2. EscapedEnd(s)[Len(s)] \in Seq(Nat)
  BY <1>1, EscapedDef
<1> QED  BY <1>2, Bounds, AppendProperties DEF Argument

LEMMA BytesTyped ==
  ASSUME NEW f \in Frames
  PROVE  /\ Arguments(f) \in Seq(Nat) /\ Code[f.op] \o Arguments(f) \in Seq(Nat)
         /\ Bytes(f) \in Seq(Nat)
<1>1. f.op \in Ops /\ f.key \in Seq(Nat) /\ f.value \in Seq(Nat)
  BY FrameParts
<1>2. Argument(f.key) \in Seq(Nat) /\ Argument(f.value) \in Seq(Nat)
  BY <1>1, ArgumentTypedBytes
<1>3. <<Len(f.value)>> \in Seq(Nat)
  BY <1>1, LenProperties
<1>4. /\ Argument(f.key) \o Argument(f.value) \in Seq(Nat)
      /\ <<Len(f.value)>> \o f.value \in Seq(Nat)
  BY <1>1, <1>2, <1>3, ConcatProperties
<1>5. Arguments(f) \in Seq(Nat)
  BY <1>1, <1>2, <1>4 DEF Arguments
<1>6. Code[f.op] \o Arguments(f) \in Seq(Nat)
  BY <1>1, <1>5, CodeBytes, ConcatProperties
<1> QED  BY <1>5, <1>6, PrefixBytes, ConcatProperties DEF Bytes

-----------------------------------------------------------------------------
(* Types. *)
(* What the running call of getBytes or getUntil reads, and for which      *)
(* command.                                                                *)
Calls ==
  /\ pc # "prefix" => matched = 0
  /\ pc = "command" => Len(got) < COMMAND_LEN
  /\ pc \in {"key", "value", "picture", "size", "zipped"} => op \in Ops
  /\ pc = "key" => op \in KeyOps /\ Len(got) < CONFIG_KEY_LEN - 1
  /\ pc = "value" => op = "kset" /\ Len(got) < CONFIG_VALUE_LEN - 1
  /\ pc = "picture" => op = "data" /\ Len(got) < BUFFER_SIZE
  /\ pc = "size" => op = "zipd"
  /\ pc = "zipped" => op = "zipd" /\ Len(got) < size

Typed == TypeOK /\ Calls

(* Effects of what the buffers held. *)
Stored(d) == d \in Seq(Frame) /\ \A n \in DOMAIN d : Buffered(d[n])

LEMMA StoredMore ==
  ASSUME NEW d, Stored(d), NEW e \in Frame, Buffered(e)
  PROVE  Stored(Append(d, e))
<1>1. d \in Seq(Frame) /\ Len(d) \in Nat /\ DOMAIN d = 1 .. Len(d)
  BY LenProperties DEF Stored
<1>2. /\ Append(d, e) \in Seq(Frame) /\ Len(Append(d, e)) = Len(d) + 1
      /\ \A n \in 1 .. Len(d) : Append(d, e)[n] = d[n]
      /\ Append(d, e)[Len(d) + 1] = e
  BY <1>1, AppendProperties
<1>3. ASSUME NEW n \in DOMAIN Append(d, e) PROVE Buffered(Append(d, e)[n])
  <2>1. n \in 1 .. Len(d) \/ n = Len(d) + 1
    BY <1>1, <1>2, LenProperties
  <2>2. CASE n \in 1 .. Len(d)
    <3>1. Buffered(d[n]) /\ Append(d, e)[n] = d[n]
      BY <1>1, <1>2, <2>2 DEF Stored
    <3> QED  BY <3>1
  <2>3. CASE n = Len(d) + 1
    <3>1. Append(d, e)[n] = e
      BY <1>2, <2>3
    <3> QED  BY <3>1
  <2> QED  BY <2>1, <2>2, <2>3
<1> QED  BY <1>2, <1>3 DEF Stored

LEMMA StoredNothing == Stored(<<>>)
  BY EmptySeq DEF Stored

LEMMA TakeTyped ==
  ASSUME TypeOK, cdc_task
  PROVE  /\ line # <<>> /\ Byte \in Nat
         /\ line' = Tail(line) /\ line' \in Seq(Nat)
         /\ UNCHANGED <<sent, broken>>
         /\ Append(got, Byte) \in Seq(Nat) /\ Len(Append(got, Byte)) = Len(got) + 1
         /\ Len(got) \in Nat
<1>1. line \in Seq(Nat) /\ got \in Seq(Nat) /\ line # <<>>
  BY DEF TypeOK, cdc_task
<1>2. Head(line) \in Nat /\ Tail(line) \in Seq(Nat)
  BY <1>1, HeadTailProperties
<1> QED  BY <1>1, <1>2, AppendProperties, LenProperties DEF cdc_task, Byte

LEMMA ReadTyped ==
  ASSUME NEW what, Read(what)
  PROVE  pc' = what /\ got' = <<>> /\ got' \in Seq(Nat) /\ Len(got') = 0 /\ escaped' \in BOOLEAN
  BY EmptySeq DEF Read

LEMMA EffectTyped ==
  ASSUME TypeOK, op \in Ops, NEW k \in Seq(Nat), NEW v \in Seq(Nat), Effect(k, v),
         Len(k) < CONFIG_KEY_LEN, op = "kset" => Len(v) < CONFIG_VALUE_LEN,
         op # "kset" => Len(v) <= BUFFER_SIZE
  PROVE  Stored(done')
<1> DEFINE e == [op |-> op, key |-> k, value |-> v]
<1>1. e \in Frame
  BY DEF Frame
<1>2. Stored(done) /\ done' = Append(done, e)
  BY DEF TypeOK, Effect, Stored
<1>3. Buffered(e)
  BY DEF Buffered
<1> HIDE DEF e
<1> QED  BY <1>1, <1>2, <1>3, StoredMore

(* What an action leaves for the types of the line and its histories. *)
LineTyped ==
  /\ line' \in Seq(Nat)
  /\ sent' \in Seq(Frames)
  /\ broken' \in BOOLEAN
  /\ disturbed' \in BOOLEAN

LEMMA LineTaken ==
  ASSUME TypeOK, cdc_task, disturbed' \in BOOLEAN
  PROVE  LineTyped
  BY TakeTyped DEF TypeOK, LineTyped

LEMMA LineOf ==
  ASSUME TypeOK, Take
  PROVE  LineTyped /\ cdc_task
  BY LineTaken DEF TypeOK, Take

(* What an action of the device leaves for the rest, when it is at what. *)
LoopTyped ==
  /\ pc' \in Reading \cup {"off"}
  /\ got' \in Seq(Nat)
  /\ escaped' \in BOOLEAN
  /\ op' \in Ops \cup {"none"}
  /\ key' \in Seq(Nat) /\ Len(key') < CONFIG_KEY_LEN
  /\ size' \in 0 .. BUFFER_SIZE
  /\ Stored(done')
  /\ pc' \in {"prefix", "size", "off"} => Len(got') = 0
  /\ pc' = "command" => Len(got') < COMMAND_LEN
  /\ pc' \in {"key", "value", "picture", "size", "zipped"} => op' \in Ops
  /\ pc' = "key" => op' \in KeyOps /\ Len(got') < CONFIG_KEY_LEN - 1
  /\ pc' = "value" => op' = "kset" /\ Len(got') < CONFIG_VALUE_LEN - 1
  /\ pc' = "picture" => op' = "data" /\ Len(got') < BUFFER_SIZE
  /\ pc' = "size" => op' = "zipd"
  /\ pc' = "zipped" => op' = "zipd" /\ Len(got') < size'

LEMMA TypedParts ==
  ASSUME LineTyped, LoopTyped, matched' \in 0 .. Len(Prefix) - 1,
         pc' # "prefix" => matched' = 0
  PROVE  Typed'
<1>1. Len(got') < Capacity'
  <2>1. Len(got') \in Nat
    BY LenProperties DEF LoopTyped
  <2> QED  BY <2>1 DEF LoopTyped, Reading, Capacity
<1>2. TypeOK'
  BY <1>1 DEF LineTyped, LoopTyped, Stored, TypeOK
<1>3. Calls'
  BY DEF LoopTyped, Calls
<1> QED  BY <1>2, <1>3 DEF Typed

LEMMA Between ==
  ASSUME TypeOK, pc \in {"prefix", "size", "off"}
  PROVE  Len(got) = 0 /\ got = <<>>
<1>1. Len(got) \in Nat /\ Len(got) < Capacity
  BY LenProperties DEF TypeOK
<1>2. Capacity = 1
  BY DEF Capacity
<1> QED  BY <1>1, <1>2, EmptySeq DEF TypeOK

(* Going on with the same call. *)
LEMMA SameLoop ==
  ASSUME Typed, UNCHANGED <<pc, got, op, key, size, done>>, escaped' \in BOOLEAN
  PROVE  LoopTyped
<1>1. pc \in {"prefix", "size", "off"} => Len(got) = 0
  BY Between DEF Typed
<1> QED  BY <1>1 DEF Typed, TypeOK, Calls, LoopTyped, Stored

LEMMA Collected ==
  ASSUME Typed, pc \in {"command", "key", "value", "picture", "zipped"},
         NEW bytes \in Seq(Nat), got' = bytes, UNCHANGED <<pc, op, key, size, done>>,
         escaped' \in BOOLEAN,
         pc = "command" => Len(bytes) < COMMAND_LEN,
         pc = "key" => Len(bytes) < CONFIG_KEY_LEN - 1,
         pc = "value" => Len(bytes) < CONFIG_VALUE_LEN - 1,
         pc = "picture" => Len(bytes) < BUFFER_SIZE,
         pc = "zipped" => Len(bytes) < size
  PROVE  LoopTyped
  BY DEF Typed, TypeOK, Calls, LoopTyped, Stored

(* A call that begins. *)
LEMMA BeginsTyped ==
  ASSUME Typed, NEW what \in Reading \cup {"off"}, Read(what),
         op' \in Ops \cup {"none"},
         key' \in Seq(Nat), Len(key') < CONFIG_KEY_LEN, size' \in 0 .. BUFFER_SIZE,
         Stored(done'),
         what \in {"key", "value", "picture", "size", "zipped"} => op' \in Ops,
         what = "key" => op' \in KeyOps,
         what = "value" => op' = "kset",
         what = "picture" => op' = "data",
         what \in {"size", "zipped"} => op' = "zipd",
         what = "zipped" => size' > 0
  PROVE  LoopTyped
<1>1. pc' = what /\ got' \in Seq(Nat) /\ Len(got') = 0 /\ escaped' \in BOOLEAN
  BY ReadTyped
<1>2. Len(got') < COMMAND_LEN /\ Len(got') < CONFIG_KEY_LEN - 1
      /\ Len(got') < CONFIG_VALUE_LEN - 1 /\ Len(got') < BUFFER_SIZE
  BY <1>1, Bounds
<1>3. what = "zipped" => Len(got') < size'
  BY <1>1
<1> QED  BY <1>1, <1>2, <1>3 DEF LoopTyped

LEMMA ToPrefixTyped ==
  ASSUME Typed, Read("prefix"), UNCHANGED <<op, key, size>>, Stored(done')
  PROVE  LoopTyped
<1>1. "prefix" \in Reading \cup {"off"}
  BY DEF Reading
<1>2. /\ op' \in Ops \cup {"none"} /\ key' \in Seq(Nat) /\ Len(key') < CONFIG_KEY_LEN
      /\ size' \in 0 .. BUFFER_SIZE
  BY DEF Typed, TypeOK
<1> QED  BY <1>1, <1>2, BeginsTyped

LEMMA ArgumentTyped ==
  ASSUME Typed, pc \in {"key", "value"}, NEW a \in Seq(Nat),
         pc = "key" => Len(a) < CONFIG_KEY_LEN,
         pc = "value" => Len(a) < CONFIG_VALUE_LEN, ArgumentRead(a)
  PROVE  LoopTyped
<1>0. /\ TypeOK /\ op \in Ops /\ Stored(done) /\ key \in Seq(Nat) /\ <<>> \in Seq(Nat)
      /\ Len(<<>>) = 0 /\ Len(key) < CONFIG_KEY_LEN
      /\ size \in 0 .. BUFFER_SIZE
  BY EmptySeq DEF Typed, TypeOK, Calls, Stored
<1>1. CASE pc = "key"
  <2>0. KeyRead(a)
    BY <1>1 DEF ArgumentRead
  <2>1. CASE a = <<>> /\ Read("prefix") /\ Keep
    BY <1>0, <2>1, ToPrefixTyped DEF Keep
  <2>2. CASE a # <<>> /\ op = "kset" /\ key' = a /\ Read("value") /\ UNCHANGED <<op, size, done>>
    <3>1. "value" \in Reading \cup {"off"}
      BY DEF Reading
    <3> QED  BY <1>0, <1>1, <2>2, <3>1, BeginsTyped
  <2>3. CASE a # <<>> /\ op # "kset" /\ Effect(a, <<>>) /\ Read("prefix")
             /\ UNCHANGED <<op, key, size>>
    <3>0. op # "kset" /\ Effect(a, <<>>) /\ Len(a) < CONFIG_KEY_LEN /\ Len(<<>>) <= BUFFER_SIZE
      BY <1>0, <1>1, <2>3, Bounds
    <3>1. Stored(done')
      BY <1>0, <3>0, EffectTyped
    <3> QED  BY <2>3, <3>1, ToPrefixTyped
  <2> QED  BY <2>0, <2>1, <2>2, <2>3 DEF KeyRead
<1>2. CASE pc = "value"
  <2>0. ValueRead(a)
    BY <1>2 DEF ArgumentRead
  <2>1. Stored(done')
    <3>1. CASE a = <<>>
      BY <1>0, <2>0, <3>1 DEF ValueRead
    <3>2. CASE a # <<>>
      <4>1. op = "kset" /\ Effect(key, a)
        BY <1>2, <2>0, <3>2 DEF ValueRead, Typed, Calls
      <4> QED  BY <1>0, <1>2, <4>1, EffectTyped
    <3> QED  BY <3>1, <3>2
  <2> QED  BY <2>0, <2>1, ToPrefixTyped DEF ValueRead, AfterValue
<1> QED  BY <1>1, <1>2

LEMMA RoomIs ==
  /\ Room \in Nat /\ Room > 0
  /\ pc = "key" => Room = CONFIG_KEY_LEN - 1
  /\ pc # "key" => Room = CONFIG_VALUE_LEN - 1
  BY Bounds DEF Room

LEMMA MatchedStays ==
  ASSUME Typed
  PROVE  /\ matched \in 0 .. Len(Prefix) - 1 /\ 0 \in 0 .. Len(Prefix) - 1
         /\ pc # "prefix" => matched = 0
  BY PrefixBytes DEF Typed, TypeOK, Calls

LEMMA TypedWaitFor == ASSUME Typed, waitFor PROVE Typed'
<1>0. TypeOK /\ pc = "prefix" /\ Take /\ Keep
  BY DEF Typed, waitFor
<1>1. LineTyped
  BY <1>0, LineOf
<1>2. matched \in Nat /\ matched < Len(Prefix) /\ Len(Prefix) \in Nat /\ 0 \in 0 .. Len(Prefix) - 1
  BY MatchedStays, PrefixBytes
<1>3. CASE matched' = 0 /\ UNCHANGED <<pc, got, escaped>>
  <2>1. LoopTyped
    BY <1>0, <1>3, SameLoop DEF Keep, TypeOK
  <2> QED  BY <1>1, <1>2, <1>3, <2>1, TypedParts
<1>4. CASE matched + 1 < Len(Prefix) /\ matched' = matched + 1 /\ UNCHANGED <<pc, got, escaped>>
  <2>1. LoopTyped
    BY <1>0, <1>4, SameLoop DEF Keep, TypeOK
  <2>2. matched' \in 0 .. Len(Prefix) - 1
    BY <1>2, <1>4
  <2> QED  BY <1>0, <1>1, <1>4, <2>1, <2>2, TypedParts
<1>5. CASE matched' = 0 /\ Read("command")
  <2>1. "command" \in Reading \cup {"off"}
    BY DEF Reading
  <2>2. LoopTyped
    BY <1>0, <1>5, <2>1, BeginsTyped DEF Keep, TypeOK, Stored
  <2> QED  BY <1>1, <1>2, <1>5, <2>2, TypedParts
<1> QED  BY <1>3, <1>4, <1>5 DEF waitFor

LEMMA TypedCommand == ASSUME Typed, ReadCommand PROVE Typed'
<1> DEFINE code == Append(got, Byte)
<1>0. TypeOK /\ pc = "command" /\ Take /\ matched' = matched
  BY DEF Typed, ReadCommand
<1>1. LineTyped /\ code \in Seq(Nat)
  BY <1>0, LineOf, TakeTyped
<1>2. matched' = 0 /\ matched' \in 0 .. Len(Prefix) - 1
  BY <1>0, MatchedStays
<1>3. CASE Len(code) < COMMAND_LEN /\ Collect(code)
  <2>1. LoopTyped
    BY <1>0, <1>1, <1>3, Collected DEF Collect, TypeOK
  <2> QED  BY <1>1, <1>2, <2>1, TypedParts
<1>4. CASE \E o \in Ops : Code[o] = code /\ Dispatch(o)
  <2>1. PICK o \in Ops : Dispatch(o)
    BY <1>4
  <2> DEFINE what == IF o \in KeyOps THEN "key" ELSE IF o = "data" THEN "picture"
                     ELSE IF o = "zipd" THEN "size" ELSE IF o \in RebootOps THEN "off"
                     ELSE "prefix"
  <2>2. /\ op' = o /\ key' = <<>> /\ size' = 0 /\ Read(what)
        /\ done' = done \/ done' = Append(done, [op |-> o, key |-> <<>>, value |-> <<>>])
    BY <2>1 DEF Dispatch
  <2>3. what \in Reading \cup {"off"}
    BY DEF Reading
  <2>4. /\ what \notin {"value", "zipped", "command"}
        /\ what = "key" => o \in KeyOps
        /\ what = "picture" => o = "data"
        /\ what = "size" => o = "zipd"
    OBVIOUS
  <2>5. Stored(done')
    <3> DEFINE e == [op |-> o, key |-> <<>>, value |-> <<>>]
    <3>1. <<>> \in Seq(Nat) /\ Len(<<>>) = 0
      BY EmptySeq
    <3>2. e \in Frame /\ Buffered(e)
      BY <3>1, Bounds DEF Frame, Buffered
    <3>3. Stored(done) /\ (done' = done \/ done' = Append(done, e))
      BY <1>0, <2>2 DEF TypeOK, Stored
    <3> HIDE DEF e
    <3> QED  BY <3>2, <3>3, StoredMore
  <2>6. key' \in Seq(Nat) /\ Len(key') < CONFIG_KEY_LEN /\ size' \in 0 .. BUFFER_SIZE
    BY <2>2, EmptySeq, Bounds
  <2> HIDE DEF what
  <2>7. LoopTyped
    BY <2>2, <2>3, <2>4, <2>5, <2>6, BeginsTyped
  <2> QED  BY <1>1, <1>2, <2>7, TypedParts
<1>5. CASE Read("prefix") /\ Keep
  <2>1. LoopTyped
    BY <1>0, <1>5, ToPrefixTyped DEF Keep, TypeOK, Stored
  <2> QED  BY <1>1, <1>2, <2>1, TypedParts
<1> QED  BY <1>3, <1>4, <1>5 DEF ReadCommand

LEMMA TypedGetUntil == ASSUME Typed, getUntil PROVE Typed'
<1> DEFINE more == Append(got, Byte)
<1>0. TypeOK /\ pc \in {"key", "value"} /\ Take /\ matched' = matched /\ got \in Seq(Nat)
  BY DEF Typed, TypeOK, getUntil
<1>1. LineTyped /\ more \in Seq(Nat) /\ Len(more) = Len(got) + 1 /\ Len(got) \in Nat
  BY <1>0, LineOf, TakeTyped
<1>2. matched' = 0 /\ matched' \in 0 .. Len(Prefix) - 1
  BY <1>0, MatchedStays
<1>3. /\ pc = "key" => Len(got) < CONFIG_KEY_LEN - 1
      /\ pc = "value" => Len(got) < CONFIG_VALUE_LEN - 1
  BY DEF Typed, Calls
<1> HIDE DEF more
<1>4. LoopTyped
  <2>1. CASE escaped' = TRUE /\ UNCHANGED <<pc, got>> /\ Keep
    BY <2>1, SameLoop DEF Keep
  <2>2. CASE ArgumentRead(got)
    <3>1. /\ pc = "key" => Len(got) < CONFIG_KEY_LEN
          /\ pc = "value" => Len(got) < CONFIG_VALUE_LEN
      BY <1>1, <1>3, Bounds
    <3> QED  BY <1>0, <2>2, <3>1, ArgumentTyped
  <2>3. CASE Len(got) + 1 = Room /\ ArgumentRead(more)
    <3>1. /\ pc = "key" => Len(more) < CONFIG_KEY_LEN
          /\ pc = "value" => Len(more) < CONFIG_VALUE_LEN
      BY <1>1, <1>3, Bounds
    <3> QED  BY <1>0, <1>1, <2>3, <3>1, ArgumentTyped
  <2>4. CASE Len(got) + 1 # Room /\ got' = more /\ escaped' = EscapeSpent /\ UNCHANGED pc /\ Keep
    <3>1. /\ pc = "key" => Len(more) < CONFIG_KEY_LEN - 1
          /\ pc = "value" => Len(more) < CONFIG_VALUE_LEN - 1
      BY <1>1, <1>3, <2>4, Bounds, RoomIs
    <3> QED  BY <1>0, <1>1, <2>4, <3>1, Collected DEF Keep, EscapeSpent
  <2> QED  BY <2>1, <2>2, <2>3, <2>4 DEF getUntil, more
<1> QED  BY <1>1, <1>2, <1>4, TypedParts

LEMMA TypedData == ASSUME Typed, handleData PROVE Typed'
<1> DEFINE more == Append(got, Byte)
<1>0. /\ TypeOK /\ pc = "picture" /\ Take /\ matched' = matched /\ op \in Ops
      /\ op = "data" /\ escaped \in BOOLEAN /\ Len(got) < BUFFER_SIZE
  BY DEF Typed, TypeOK, Calls, handleData
<1>1. LineTyped /\ more \in Seq(Nat) /\ Len(more) = Len(got) + 1 /\ Len(got) \in Nat
  BY <1>0, LineOf, TakeTyped
<1>2. matched' = 0 /\ matched' \in 0 .. Len(Prefix) - 1
  BY <1>0, MatchedStays
<1> HIDE DEF more
<1>3. LoopTyped
  <2>1. CASE Len(got) + 1 < BUFFER_SIZE /\ Collect(more)
    BY <1>0, <1>1, <2>1, Collected DEF Collect
  <2>2. CASE Effect(<<>>, more) /\ Read("prefix") /\ UNCHANGED <<op, key, size>>
    <3>1. <<>> \in Seq(Nat) /\ Len(<<>>) < CONFIG_KEY_LEN /\ Len(more) <= BUFFER_SIZE
      BY <1>0, <1>1, EmptySeq, Bounds
    <3>2. Stored(done')
      BY <1>0, <1>1, <2>2, <3>1, EffectTyped
    <3> QED  BY <2>2, <3>2, ToPrefixTyped
  <2> QED  BY <2>1, <2>2 DEF handleData, more
<1> QED  BY <1>1, <1>2, <1>3, TypedParts

LEMMA TypedSize == ASSUME Typed, ReadSize PROVE Typed'
<1>0. /\ TypeOK /\ pc = "size" /\ Take /\ UNCHANGED <<matched, op, key, done>>
      /\ op \in Ops /\ op = "zipd"
  BY DEF Typed, TypeOK, Calls, ReadSize
<1>1. LineTyped
  BY <1>0, LineOf
<1>2. matched' = 0 /\ matched' \in 0 .. Len(Prefix) - 1
  BY <1>0, MatchedStays
<1>3. LoopTyped
  <2>1. CASE Admitted(Byte) /\ size' = Byte /\ Read("zipped")
    <3>1. "zipped" \in Reading \cup {"off"}
      BY DEF Reading
    <3>2. size' \in 0 .. BUFFER_SIZE /\ size' > 0
      BY <2>1, Bounds DEF Admitted
    <3> QED  BY <1>0, <2>1, <3>1, <3>2, BeginsTyped DEF TypeOK, Stored
  <2>2. CASE Read("prefix") /\ UNCHANGED size
    BY <1>0, <2>2, ToPrefixTyped DEF TypeOK, Stored
  <2> QED  BY <2>1, <2>2 DEF ReadSize
<1> QED  BY <1>1, <1>2, <1>3, TypedParts

LEMMA TypedOutOfMemory == ASSUME Typed, OutOfMemory PROVE Typed'
<1>0. TypeOK /\ cdc_task /\ disturbed' = TRUE /\ Stored(done)
  BY DEF Typed, TypeOK, Stored, OutOfMemory
<1>1. LineTyped
  BY <1>0, LineTaken
<1>2. matched' = matched /\ matched' \in 0 .. Len(Prefix) - 1 /\ pc' = "prefix"
  BY MatchedStays DEF OutOfMemory, Read
<1>3. LoopTyped
  BY <1>0, ToPrefixTyped DEF OutOfMemory
<1> QED  BY <1>1, <1>2, <1>3, TypedParts

LEMMA TypedZipped == ASSUME Typed, handleZippedData PROVE Typed'
<1> DEFINE more == Append(got, Byte)
<1>0. /\ TypeOK /\ pc = "zipped" /\ Take /\ matched' = matched /\ op \in Ops
      /\ op = "zipd" /\ Len(got) < size /\ size \in 0 .. BUFFER_SIZE
      /\ escaped \in BOOLEAN /\ Stored(done)
  BY DEF Typed, TypeOK, Calls, Stored, handleZippedData
<1>1. LineTyped /\ more \in Seq(Nat) /\ Len(more) = Len(got) + 1 /\ Len(got) \in Nat
  BY <1>0, LineOf, TakeTyped
<1>2. matched' = 0 /\ matched' \in 0 .. Len(Prefix) - 1
  BY <1>0, MatchedStays
<1> HIDE DEF more
<1>3. LoopTyped
  <2>1. CASE Len(more) < size /\ Collect(more)
    BY <1>0, <1>1, <2>1, Collected DEF Collect
  <2>2. CASE /\ IF more \in Inflates THEN Effect(<<>>, more) ELSE UNCHANGED done
             /\ Read("prefix") /\ UNCHANGED <<op, key, size>>
    <3>1. <<>> \in Seq(Nat) /\ Len(<<>>) < CONFIG_KEY_LEN /\ Len(more) <= BUFFER_SIZE
      BY <1>0, <1>1, EmptySeq, Bounds
    <3>2. Stored(done')
      <4>1. CASE more \in Inflates
        BY <1>0, <1>1, <2>2, <3>1, <4>1, EffectTyped
      <4>2. CASE more \notin Inflates
        BY <1>0, <2>2, <4>2
      <4> QED  BY <4>1, <4>2
    <3> QED  BY <2>2, <3>2, ToPrefixTyped
  <2> QED  BY <2>1, <2>2 DEF handleZippedData, more
<1> QED  BY <1>1, <1>2, <1>3, TypedParts

LEMMA TypedTimeout == ASSUME Typed, Timeout PROVE Typed'
<1>0. /\ TypeOK /\ matched' = 0 /\ disturbed' = TRUE /\ UNCHANGED <<line, sent, broken>>
      /\ got \in Seq(Nat) /\ Stored(done)
  BY DEF Typed, TypeOK, Stored, Timeout
<1>1. LineTyped
  BY <1>0 DEF LineTyped, TypeOK
<1>2. LoopTyped
  <2>1. CASE pc \in {"key", "value"}
    <3>1. /\ pc = "key" => Len(got) < CONFIG_KEY_LEN
          /\ pc = "value" => Len(got) < CONFIG_VALUE_LEN
      BY <1>0, Bounds, LenProperties DEF Typed, Calls
    <3> QED  BY <1>0, <2>1, <3>1, ArgumentTyped DEF Timeout
  <2>2. CASE pc \notin {"key", "value"}
    BY <1>0, <2>2, ToPrefixTyped DEF Timeout, Keep
  <2> QED  BY <2>1, <2>2
<1>3. matched' \in 0 .. Len(Prefix) - 1
  BY <1>0, MatchedStays
<1> QED  BY <1>0, <1>1, <1>2, <1>3, TypedParts

LEMMA TypedBoot == ASSUME Typed, Boot PROVE Typed'
<1>1. LineTyped
  BY EmptySeq DEF Boot, LineTyped
<1>2. <<>> \in Seq(Nat) /\ Len(<<>>) = 0 /\ Stored(<<>>)
  BY EmptySeq, StoredNothing
<1>3. LoopTyped
  <2>1. "prefix" \in Reading \cup {"off"}
    BY DEF Reading
  <2> QED  BY <1>2, <2>1, Bounds, BeginsTyped DEF Boot
<1>4. matched' = 0 /\ matched' \in 0 .. Len(Prefix) - 1
  BY MatchedStays DEF Boot
<1> QED  BY <1>1, <1>3, <1>4, TypedParts

LEMMA TypedHost == ASSUME Typed, Host PROVE Typed'
<1>0. TypeOK /\ sent \in Seq(Frames) /\ line \in Seq(Nat) /\ Stored(done)
  BY DEF Typed, TypeOK, Stored
<1>1. CASE Stop
  <2>1. PICK n \in 0 .. Len(line) - 1 : line' = SubSeq(line, 1, n)
    BY <1>1 DEF Stop
  <2>2. line' \in Seq(Nat)
    BY <1>0, <2>1, LenProperties, SubSeqProperties
  <2>3. LineTyped
    BY <1>0, <1>1, <2>2 DEF Stop, LineTyped, TypeOK
  <2>4. LoopTyped
    BY <1>1, SameLoop DEF Stop, Typed, TypeOK
  <2> QED  BY <1>1, <2>3, <2>4, MatchedStays, TypedParts DEF Stop
<1>2. CASE \E f \in Frames : Send(f)
  <2>1. PICK f \in Frames : Send(f)
    BY <1>2
  <2>2. line' \in Seq(Nat)
    BY <1>0, <2>1, BytesTyped, ConcatProperties DEF Send
  <2>3. sent' \in Seq(Frames)
    <3>1. <<f>> \in Seq(Frames)
      OBVIOUS
    <3>2. Append(sent, f) \in Seq(Frames)
      BY <1>0, AppendProperties
    <3>3. sent' = <<f>> \/ sent' = Append(sent, f)
      BY <2>1 DEF Send
    <3> QED  BY <3>1, <3>2, <3>3
  <2>4. disturbed' \in BOOLEAN /\ broken' \in BOOLEAN
    BY <2>1 DEF Send, Fits, OfPanelSize
  <2>5. LoopTyped
    <3>1. Stored(done')
      BY <1>0, <2>1, StoredNothing DEF Send
    <3>2. pc \in {"prefix", "size", "off"} => Len(got) = 0
      BY Between DEF Typed
    <3> QED  BY <2>1, <3>1, <3>2 DEF Send, Typed, TypeOK, Calls, LoopTyped
  <2> QED  BY <2>1, <2>2, <2>3, <2>4, <2>5, MatchedStays, TypedParts DEF Send, LineTyped
<1> QED  BY <1>1, <1>2 DEF Host

LEMMA TypedInit == Init => Typed
<1> SUFFICES ASSUME Init PROVE Typed
  OBVIOUS
<1>1. <<>> \in Seq(Nat) /\ <<>> \in Seq(Frames) /\ Stored(<<>>) /\ Len(<<>>) = 0
  BY EmptySeq, StoredNothing
<1>2. TypeOK
  <2>1. /\ line \in Seq(Nat) /\ got \in Seq(Nat) /\ sent \in Seq(Frames) /\ Stored(done)
        /\ Len(got) < Capacity
    BY <1>1 DEF Init, Capacity
  <2>2. matched \in 0 .. Len(Prefix) - 1
    BY PrefixBytes DEF Init
  <2>3. key \in Seq(Nat) /\ Len(key) < CONFIG_KEY_LEN /\ size \in 0 .. BUFFER_SIZE
    BY <1>1, Bounds DEF Init
  <2>4. pc \in Reading \cup {"off"} /\ op \in Ops \cup {"none"}
        /\ escaped \in BOOLEAN /\ broken \in BOOLEAN /\ disturbed \in BOOLEAN
    BY DEF Init, Reading
  <2> QED  BY <2>1, <2>2, <2>3, <2>4 DEF TypeOK, Stored
<1>3. Calls
  BY DEF Init, Calls
<1> QED  BY <1>2, <1>3 DEF Typed

LEMMA TypedStep == ASSUME Typed, [Next]_vars PROVE Typed'
<1>1. CASE UNCHANGED vars
  BY <1>1 DEF Typed, TypeOK, Capacity, Calls, vars
<1> QED
  BY <1>1, TypedWaitFor, TypedCommand, TypedGetUntil, TypedData, TypedSize, TypedOutOfMemory,
     TypedZipped, TypedTimeout, TypedBoot, TypedHost DEF Next, Device

LEMMA WellTyped == Spec => []Typed
  BY TypedInit, TypedStep, PTL DEF Spec

(* The state is what it was declared to be: none of the buffers that       *)
(* commands, keys, values and pictures are read into is overrun, and no    *)
(* effect is made of more than they hold, however long what the host       *)
(* writes is and whatever is lost of it.                                   *)
THEOREM TypeCorrect == Spec => []TypeOK
<1>1. Typed => TypeOK
  BY DEF Typed
<1> QED  BY WellTyped, <1>1, PTL

-----------------------------------------------------------------------------
(* Sequences from front to back. *)
From(s, k) == SubSeq(s, k + 1, Len(s))

LEMMA HeadOfConcat ==
  ASSUME NEW a \in Seq(Nat), NEW b \in Seq(Nat), a # <<>>
  PROVE  /\ a \o b \in Seq(Nat) /\ a \o b # <<>>
         /\ Head(a \o b) = Head(a) /\ Tail(a \o b) = Tail(a) \o b
         /\ Tail(a) \in Seq(Nat) /\ Head(a) \in Nat
<1> DEFINE c == a \o b
<1>1. /\ c \in Seq(Nat) /\ Len(c) = Len(a) + Len(b)
      /\ \A i \in 1 .. Len(a) + Len(b) : c[i] = IF i <= Len(a) THEN a[i] ELSE b[i - Len(a)]
  BY ConcatProperties
<1>2. /\ Len(a) \in Nat /\ Len(b) \in Nat /\ Len(a) > 0
      /\ Tail(a) \in Seq(Nat) /\ Head(a) \in Nat /\ Head(a) = a[1]
      /\ Len(Tail(a)) = Len(a) - 1 /\ \A i \in 1 .. Len(a) - 1 : Tail(a)[i] = a[i + 1]
  BY LenProperties, EmptySeq, HeadTailProperties
<1> HIDE DEF c
<1>3. c # <<>> /\ Len(c) > 0
  BY <1>1, <1>2
<1>4. /\ Head(c) = c[1] /\ Tail(c) \in Seq(Nat) /\ Len(Tail(c)) = Len(c) - 1
      /\ \A i \in 1 .. Len(c) - 1 : Tail(c)[i] = c[i + 1]
  BY <1>1, <1>3, HeadTailProperties
<1>5. Head(c) = Head(a)
  BY <1>1, <1>2, <1>4
<1> DEFINE d == Tail(a) \o b
<1>6. /\ d \in Seq(Nat) /\ Len(d) = Len(a) - 1 + Len(b)
      /\ \A i \in 1 .. Len(a) - 1 + Len(b) :
           d[i] = IF i <= Len(a) - 1 THEN Tail(a)[i] ELSE b[i - (Len(a) - 1)]
  <2> DEFINE e == Tail(a)
  <2>1. e \in Seq(Nat) /\ Len(e) = Len(a) - 1
    BY <1>2
  <2> HIDE DEF e
  <2>2. /\ e \o b \in Seq(Nat) /\ Len(e \o b) = Len(e) + Len(b)
        /\ \A i \in 1 .. Len(e) + Len(b) :
             (e \o b)[i] = IF i <= Len(e) THEN e[i] ELSE b[i - Len(e)]
    BY <2>1, ConcatProperties
  <2> QED  BY <2>1, <2>2 DEF e
<1> HIDE DEF d
<1>7. Len(Tail(c)) = Len(d)
  BY <1>1, <1>2, <1>4, <1>6
<1>8. ASSUME NEW i \in 1 .. Len(d) PROVE Tail(c)[i] = d[i]
  <2>1. i \in 1 .. Len(c) - 1 /\ i + 1 \in 1 .. Len(a) + Len(b) /\ i \in Nat
        /\ i \in 1 .. Len(a) - 1 + Len(b)
    BY <1>1, <1>2, <1>6
  <2>2. Tail(c)[i] = IF i + 1 <= Len(a) THEN a[i + 1] ELSE b[i + 1 - Len(a)]
    <3> DEFINE j == i + 1
    <3>1. j \in 1 .. Len(a) + Len(b) /\ Tail(c)[i] = c[j]
      BY <1>4, <2>1
    <3> HIDE DEF j
    <3>2. c[j] = IF j <= Len(a) THEN a[j] ELSE b[j - Len(a)]
      BY <1>1, <3>1
    <3> QED  BY <1>2, <2>1, <3>1, <3>2 DEF j
  <2>3. CASE i + 1 <= Len(a)
    BY <1>2, <1>6, <2>1, <2>2, <2>3
  <2>4. CASE ~(i + 1 <= Len(a))
    <3>1. i + 1 - Len(a) = i - (Len(a) - 1) /\ ~(i <= Len(a) - 1)
      BY <1>2, <2>1, <2>4
    <3> QED  BY <1>6, <2>1, <2>2, <2>4, <3>1
  <2> QED  BY <2>3, <2>4
<1>9. Tail(c) = d
  BY <1>4, <1>6, <1>7, <1>8, SeqEqual
<1> QED  BY <1>1, <1>2, <1>3, <1>5, <1>9 DEF c, d

LEMMA FromEnds ==
  ASSUME NEW s \in Seq(Nat)
  PROVE  From(s, 0) = s /\ From(s, Len(s)) = <<>>
<1>1. Len(s) \in Nat
  BY LenProperties
<1>2. SubSeq(s, 1, Len(s)) = s
  BY SubSeqFull
<1>3. SubSeq(s, Len(s) + 1, Len(s)) = <<>>
  BY <1>1, SubSeqEmpty
<1> QED  BY <1>2, <1>3 DEF From

LEMMA FromStep ==
  ASSUME NEW s \in Seq(Nat), NEW k \in Nat, k < Len(s)
  PROVE  /\ From(s, k) \in Seq(Nat) /\ From(s, k) # <<>>
         /\ Head(From(s, k)) = s[k + 1]
         /\ Tail(From(s, k)) = From(s, k + 1)
<1>1. Len(s) \in Nat /\ k + 1 \in 1 .. Len(s)
  BY LenProperties
<1>2. /\ From(s, k) \in Seq(Nat) /\ Len(From(s, k)) = Len(s) - (k + 1) + 1
  BY <1>1, SubSeqProperties DEF From
<1>3. From(s, k) # <<>>
  BY <1>1, <1>2
<1>4. Head(From(s, k)) = s[k + 1] /\ Tail(From(s, k)) = SubSeq(s, k + 1 + 1, Len(s))
  BY <1>1, HeadTailOfSubSeq DEF From
<1> QED  BY <1>2, <1>3, <1>4 DEF From

(* The same with something behind. *)
LEMMA FromStepThen ==
  ASSUME NEW s \in Seq(Nat), NEW k \in Nat, k < Len(s), NEW x \in Seq(Nat)
  PROVE  /\ From(s, k) \o x \in Seq(Nat) /\ From(s, k) \o x # <<>>
         /\ Head(From(s, k) \o x) = s[k + 1]
         /\ Tail(From(s, k) \o x) = From(s, k + 1) \o x
<1> DEFINE a == From(s, k)
<1>1. a \in Seq(Nat) /\ a # <<>> /\ Head(a) = s[k + 1] /\ Tail(a) = From(s, k + 1)
  BY FromStep
<1> HIDE DEF a
<1>2. /\ a \o x \in Seq(Nat) /\ a \o x # <<>>
      /\ Head(a \o x) = Head(a) /\ Tail(a \o x) = Tail(a) \o x
  BY <1>1, HeadOfConcat
<1> QED  BY <1>1, <1>2 DEF a

LEMMA ByteSeq ==
  ASSUME NEW b \in Nat, NEW s \in Seq(Nat)
  PROVE  /\ <<b>> \in Seq(Nat) /\ <<b>> # <<>> /\ Head(<<b>>) = b /\ Tail(<<b>>) = <<>>
         /\ <<b>> \o s \in Seq(Nat) /\ <<b>> \o s # <<>>
         /\ Head(<<b>> \o s) = b /\ Tail(<<b>> \o s) = s
         /\ <<>> \o s = s /\ s \o <<>> = s
<1>1. <<b>> \in Seq(Nat) /\ <<b>> # <<>> /\ Head(<<b>>) = b /\ Tail(<<b>>) = <<>>
  OBVIOUS
<1>2. <<>> \o s = s /\ s \o <<>> = s
  BY ConcatEmptySeq
<1>3. /\ <<b>> \o s \in Seq(Nat) /\ <<b>> \o s # <<>>
      /\ Head(<<b>> \o s) = Head(<<b>>) /\ Tail(<<b>> \o s) = Tail(<<b>>) \o s
  BY <1>1, HeadOfConcat
<1> QED  BY <1>1, <1>2, <1>3

LEMMA AppendIs ==
  ASSUME NEW s \in Seq(Nat), NEW b \in Nat
  PROVE  Append(s, b) = s \o <<b>> /\ Append(s, b) \in Seq(Nat) /\ Append(s, b) # <<>>
<1>1. Append(s, b) \in Seq(Nat) /\ Len(Append(s, b)) = Len(s) + 1 /\ Len(s) \in Nat
  BY AppendProperties, LenProperties
<1>2. Append(s, b) # <<>>
  BY <1>1
<1> QED  BY <1>1, <1>2, AppendIsConcat

LEMMA Grouped ==
  ASSUME NEW a \in Seq(Nat), NEW b \in Seq(Nat), NEW c \in Seq(Nat)
  PROVE  (a \o b) \o c = a \o (b \o c) /\ a \o b \in Seq(Nat) /\ b \o c \in Seq(Nat)
<1>1. a \o b \in Seq(Nat) /\ b \o c \in Seq(Nat)
  BY ConcatProperties
<1>2. (a \o b) \o c = a \o (b \o c)
  BY ConcatAssociative, SMTT(30)
<1> QED  BY <1>1, <1>2

LEMMA AllGrouped ==
  ASSUME NEW y \in Seq(Nat)
  PROVE  \A p, u \in Seq(Nat) : (p \o u) \o y = p \o (u \o y) /\ u \o y \in Seq(Nat)
  BY Grouped

-----------------------------------------------------------------------------
(* t is what the frames of s after the first n come to on the line. *)
Stream(s, n, t) ==
  \E rest \in [n .. Len(s) -> Seq(Nat)] :
    /\ rest[n] = t /\ rest[Len(s)] = <<>>
    /\ \A i \in n + 1 .. Len(s) : rest[i - 1] = Bytes(s[i]) \o rest[i]

LEMMA BytesBegin ==
  ASSUME NEW f \in Frames, NEW u \in Seq(Nat)
  PROVE  Bytes(f) \o u # <<>>
<1>1. Prefix \in Seq(Nat) /\ Prefix # <<>> /\ Code[f.op] \o Arguments(f) \in Seq(Nat)
  BY PrefixBytes, BytesTyped
<1>2. Bytes(f) \in Seq(Nat) /\ Bytes(f) # <<>>
  BY <1>1, HeadOfConcat DEF Bytes
<1> QED  BY <1>2, HeadOfConcat

LEMMA StreamEnd ==
  ASSUME NEW s \in Seq(Frames)
  PROVE  Stream(s, Len(s), <<>>)
<1> DEFINE rest == [i \in Len(s) .. Len(s) |-> <<>>]
<1>1. Len(s) \in Nat /\ <<>> \in Seq(Nat)
  BY LenProperties, EmptySeq
<1>2. rest \in [Len(s) .. Len(s) -> Seq(Nat)] /\ rest[Len(s)] = <<>>
  BY <1>1
<1>3. \A i \in Len(s) + 1 .. Len(s) : rest[i - 1] = Bytes(s[i]) \o rest[i]
  BY <1>1
<1> HIDE DEF rest
<1> QED  BY <1>2, <1>3 DEF Stream

LEMMA StreamOver ==
  ASSUME NEW s \in Seq(Frames), NEW n \in 0 .. Len(s), Stream(s, n, <<>>)
  PROVE  n = Len(s)
<1> SUFFICES ASSUME n # Len(s) PROVE FALSE
  OBVIOUS
<1>1. Len(s) \in Nat /\ n + 1 \in n + 1 .. Len(s) /\ n + 1 - 1 = n /\ s[n + 1] \in Frames
      /\ n + 1 \in n .. Len(s)
  BY LenProperties, ElementOfSeq
<1>2. PICK rest \in [n .. Len(s) -> Seq(Nat)] :
        /\ rest[n] = <<>>
        /\ \A i \in n + 1 .. Len(s) : rest[i - 1] = Bytes(s[i]) \o rest[i]
  BY DEF Stream
<1> DEFINE k == n + 1
<1>0. k \in n + 1 .. Len(s) /\ k - 1 = n /\ k \in n .. Len(s)
  BY <1>1
<1> HIDE DEF k
<1>3. rest[k] \in Seq(Nat) /\ <<>> = Bytes(s[k]) \o rest[k]
  BY <1>0, <1>2
<1> QED  BY <1>1, <1>3, BytesBegin DEF k

LEMMA StreamNext ==
  ASSUME NEW s \in Seq(Frames), NEW n \in 0 .. Len(s), NEW t, Stream(s, n, t), t # <<>>
  PROVE  /\ n + 1 \in 1 .. Len(s)
         /\ \E u \in Seq(Nat) : t = Bytes(s[n + 1]) \o u /\ Stream(s, n + 1, u)
<1>1. PICK rest \in [n .. Len(s) -> Seq(Nat)] :
        /\ rest[n] = t /\ rest[Len(s)] = <<>>
        /\ \A i \in n + 1 .. Len(s) : rest[i - 1] = Bytes(s[i]) \o rest[i]
  BY DEF Stream
<1>2. Len(s) \in Nat /\ n \in Nat /\ n # Len(s)
  BY <1>1, LenProperties
<1>3. /\ n + 1 \in n + 1 .. Len(s) /\ n + 1 - 1 = n /\ n + 1 \in n .. Len(s)
      /\ n + 1 \in 1 .. Len(s)
  BY <1>2
<1>4. rest[n + 1] \in Seq(Nat) /\ t = Bytes(s[n + 1]) \o rest[n + 1]
  <2> DEFINE k == n + 1
  <2>1. k \in n + 1 .. Len(s) /\ k - 1 = n /\ k \in n .. Len(s)
    BY <1>3
  <2> HIDE DEF k
  <2>2. rest[k] \in Seq(Nat) /\ t = Bytes(s[k]) \o rest[k]
    BY <1>1, <2>1
  <2> QED  BY <2>2 DEF k
<1> DEFINE after == [i \in n + 1 .. Len(s) |-> rest[i]]
<1>5. after \in [n + 1 .. Len(s) -> Seq(Nat)]
  BY <1>1, <1>2
<1>6. after[n + 1] = rest[n + 1] /\ after[Len(s)] = <<>>
  BY <1>1, <1>2, <1>3
<1>7. \A i \in n + 1 + 1 .. Len(s) : after[i - 1] = Bytes(s[i]) \o after[i]
  <2> SUFFICES ASSUME NEW i \in n + 1 + 1 .. Len(s)
               PROVE  after[i - 1] = Bytes(s[i]) \o after[i]
    OBVIOUS
  <2>1. i \in n + 1 .. Len(s) /\ i - 1 \in n + 1 .. Len(s)
    BY <1>2
  <2> QED  BY <1>1, <2>1
<1> HIDE DEF after
<1>8. Stream(s, n + 1, rest[n + 1])
  BY <1>5, <1>6, <1>7 DEF Stream
<1> QED  BY <1>3, <1>4, <1>8

LEMMA StreamSend ==
  ASSUME NEW s \in Seq(Frames), NEW n \in 0 .. Len(s), NEW t, Stream(s, n, t), NEW f \in Frames
  PROVE  Stream(Append(s, f), n, t \o Bytes(f))
<1>1. PICK rest \in [n .. Len(s) -> Seq(Nat)] :
        /\ rest[n] = t /\ rest[Len(s)] = <<>>
        /\ \A i \in n + 1 .. Len(s) : rest[i - 1] = Bytes(s[i]) \o rest[i]
  BY DEF Stream
<1> DEFINE a == Append(s, f)
<1>2. /\ Len(s) \in Nat /\ n \in Nat /\ n <= Len(s) /\ a \in Seq(Frames) /\ Len(a) = Len(s) + 1
      /\ \A i \in 1 .. Len(s) : a[i] = s[i] /\ s[i] \in Frames
      /\ a[Len(s) + 1] = f /\ Bytes(f) \in Seq(Nat)
  BY LenProperties, AppendProperties, ElementOfSeq, BytesTyped
<1> HIDE DEF a
<1> DEFINE after == [i \in n .. Len(a) |-> IF i = Len(a) THEN <<>> ELSE rest[i] \o Bytes(f)]
<1>3. after \in [n .. Len(a) -> Seq(Nat)]
  <2>1. ASSUME NEW i \in n .. Len(a)
        PROVE  (IF i = Len(a) THEN <<>> ELSE rest[i] \o Bytes(f)) \in Seq(Nat)
    <3>1. CASE i = Len(a)
      BY <3>1, EmptySeq
    <3>2. CASE i # Len(a)
      <4>1. rest[i] \in Seq(Nat)
        BY <1>1, <1>2, <3>2
      <4> QED  BY <1>2, <3>2, <4>1, ConcatProperties
    <3> QED  BY <3>1, <3>2
  <2> QED  BY <2>1
<1>4. after[n] = t \o Bytes(f) /\ after[Len(a)] = <<>>
  BY <1>1, <1>2
<1>5. \A i \in n + 1 .. Len(a) : after[i - 1] = Bytes(a[i]) \o after[i]
  <2> SUFFICES ASSUME NEW i \in n + 1 .. Len(a)
               PROVE  after[i - 1] = Bytes(a[i]) \o after[i]
    OBVIOUS
  <2>0. i - 1 \in n .. Len(a) /\ i - 1 # Len(a) /\ i \in n .. Len(a)
    BY <1>2
  <2>1. after[i - 1] = rest[i - 1] \o Bytes(f)
    BY <2>0
  <2>2. CASE i = Len(a)
    <3>1. i - 1 = Len(s) /\ after[i] = <<>> /\ a[i] = f
      BY <1>2, <1>4, <2>2
    <3>2. <<>> \o Bytes(f) = Bytes(f) /\ Bytes(f) \o <<>> = Bytes(f)
      BY <1>2, ConcatEmptySeq
    <3> HIDE DEF after
    <3> QED  BY <1>1, <2>1, <3>1, <3>2
  <2>3. CASE i # Len(a)
    <3>1. i \in n + 1 .. Len(s) /\ i \in 1 .. Len(s) /\ i \in n .. Len(s)
      BY <1>2, <2>3
    <3>2. after[i] = rest[i] \o Bytes(f) /\ rest[i] \in Seq(Nat) /\ a[i] = s[i]
          /\ Bytes(s[i]) \in Seq(Nat)
      BY <1>1, <1>2, <2>0, <2>3, <3>1, BytesTyped
    <3>3. rest[i - 1] = Bytes(s[i]) \o rest[i]
      BY <1>1, <3>1
    <3>4. (Bytes(s[i]) \o rest[i]) \o Bytes(f) = Bytes(s[i]) \o (rest[i] \o Bytes(f))
      <4> DEFINE x == Bytes(s[i])
                 y == rest[i]
                 z == Bytes(f)
      <4>1. x \in Seq(Nat) /\ y \in Seq(Nat) /\ z \in Seq(Nat)
        BY <1>2, <3>2
      <4> HIDE DEF x, y, z
      <4>2. (x \o y) \o z = x \o (y \o z)
        BY <4>1, AllGrouped
      <4> QED  BY <4>2 DEF x, y, z
    <3> HIDE DEF after
    <3> QED  BY <2>1, <3>2, <3>3, <3>4
  <2> QED  BY <2>2, <2>3
<1> HIDE DEF after
<1> QED  BY <1>3, <1>4, <1>5 DEF Stream, a

-----------------------------------------------------------------------------
(* How far a frame has been read. *)

(* got is the beginning of s. *)
Starts(s) ==
  /\ Len(got) <= Len(s)
  /\ \A k \in 1 .. Len(got) : got[k] = s[k]

(* What is to come of the argument s of which got has been read. *)
NextByte(s) == s[Len(got) + 1]

Later(s) == Append(EscapedEnd(s)[Len(s) - (Len(got) + 1)], Separator)

Pending(s) ==
  IF escaped THEN <<NextByte(s)>> \o Later(s)
  ELSE Append(EscapedEnd(s)[Len(s) - Len(got)], Separator)

ReadsArgument(s) ==
  /\ Starts(s)
  /\ escaped => Len(got) < Len(s) /\ NextByte(s) \in {Separator, Escape}

Behind(f) == IF f.op = "kset" THEN Argument(f.value) ELSE <<>>

(* r is the rest of the frame f that is being read. *)
Within(f, r) ==
  /\ pc \in Reading
  /\ pc = "prefix" => r = From(Prefix, matched) \o (Code[f.op] \o Arguments(f))
  /\ pc = "command" => Starts(Code[f.op]) /\ r = From(Code[f.op], Len(got)) \o Arguments(f)
  /\ pc \in {"key", "value", "picture", "size", "zipped"} => op = f.op
  /\ pc = "key" => ReadsArgument(f.key) /\ r = Pending(f.key) \o Behind(f)
  /\ pc = "value" => key = f.key /\ ReadsArgument(f.value) /\ r = Pending(f.value)
  /\ pc \in {"picture", "zipped"} => Starts(f.value) /\ r = From(f.value, Len(got))
  /\ pc = "size" => r = <<Len(f.value)>> \o f.value
  /\ pc = "zipped" => size = Len(f.value)

(* Between two frames: a key or a value that fills its buffer leaves its   *)
(* separator to waitFor.                                                   *)
Rests(r) ==
  \/ pc = "off" /\ r = <<>>
  \/ pc = "prefix" /\ matched = 0 /\ r \in {<<>>, <<Separator>>}

(* What a frame comes to. *)
Ended(f) == IF Works(f) THEN Append(done, f) ELSE done

(* What the device does with the next byte of a frame. *)
ReadsOn(f, r) ==
  \/ Within(f, r)' /\ done' = done
  \/ Rests(r)' /\ done' = Ended(f)

LEMMA StartsMore ==
  ASSUME got \in Seq(Nat), NEW s \in Seq(Nat), Starts(s), NEW b \in Nat, Len(got) < Len(s),
         b = s[Len(got) + 1]
  PROVE  /\ \A k \in 1 .. Len(got) + 1 : Append(got, b)[k] = s[k]
         /\ Len(Append(got, b)) = Len(got) + 1
         /\ Len(got) + 1 = Len(s) => Append(got, b) = s
<1> DEFINE a == Append(got, b)
<1>1. /\ Len(got) \in Nat /\ a \in Seq(Nat) /\ Len(a) = Len(got) + 1
      /\ a[Len(got) + 1] = b /\ \A k \in 1 .. Len(got) : a[k] = got[k]
  BY LenProperties, AppendProperties
<1> HIDE DEF a
<1>2. \A k \in 1 .. Len(got) + 1 : a[k] = s[k]
  <2> SUFFICES ASSUME NEW k \in 1 .. Len(got) + 1 PROVE a[k] = s[k]
    OBVIOUS
  <2>1. k \in 1 .. Len(got) \/ k = Len(got) + 1
    BY <1>1
  <2> QED  BY <1>1, <2>1 DEF Starts
<1>3. ASSUME Len(got) + 1 = Len(s) PROVE a = s
  BY <1>1, <1>2, <1>3, SeqEqual
<1> QED  BY <1>1, <1>2, <1>3 DEF a

LEMMA StartsWhole ==
  ASSUME got \in Seq(Nat), NEW s \in Seq(Nat), Starts(s), Len(got) = Len(s)
  PROVE  got = s
  BY SeqEqual DEF Starts

(* The next byte of an escaped argument. *)
LEMMA EscapedByte ==
  ASSUME NEW s \in Seq(Nat), NEW k \in Nat, k < Len(s)
  PROVE  /\ Len(s) - (k + 1) \in 0 .. Len(s)
         /\ EscapedEnd(s)[Len(s) - k] = Quoted(s[k + 1]) \o EscapedEnd(s)[Len(s) - (k + 1)]
         /\ s[k + 1] \in Nat
         /\ EscapedEnd(s)[Len(s) - (k + 1)] \in Seq(Nat)
         /\ Append(EscapedEnd(s)[Len(s) - (k + 1)], Separator) \in Seq(Nat)
<1> DEFINE n == Len(s) - k
<1>1. /\ Len(s) \in Nat /\ n \in 1 .. Len(s) /\ n - 1 = Len(s) - (k + 1)
      /\ Len(s) - n + 1 = k + 1 /\ n - 1 \in 0 .. Len(s) /\ k + 1 \in 1 .. Len(s)
  BY LenProperties
<1>2. s[k + 1] \in Nat
  BY <1>1, ElementOfSeq
<1> HIDE DEF n
<1>3. EscapedEnd(s)[n] = Quoted(s[Len(s) - n + 1]) \o EscapedEnd(s)[n - 1]
      /\ EscapedEnd(s)[n - 1] \in Seq(Nat)
  BY <1>1, EscapedDef
<1>4. Append(EscapedEnd(s)[n - 1], Separator) \in Seq(Nat)
  BY <1>3, Bounds, AppendProperties
<1> QED  BY <1>1, <1>2, <1>3, <1>4 DEF n

LEMMA QuotedFirst ==
  ASSUME NEW b \in Nat, NEW end \in Seq(Nat)
  PROVE  LET p == Append(Quoted(b) \o end, Separator)
             after == Append(end, Separator)
         IN  /\ p \in Seq(Nat) /\ p # <<>>
             /\ b \in {Separator, Escape} => Head(p) = Escape /\ Tail(p) = <<b>> \o after
             /\ b \notin {Separator, Escape} => Head(p) = b /\ Tail(p) = after
<1> DEFINE p == Append(Quoted(b) \o end, Separator)
           after == Append(end, Separator)
           q == Quoted(b)
<1>1. /\ Separator \in Nat /\ Escape \in Nat /\ <<Separator>> \in Seq(Nat)
      /\ q \in Seq(Nat)
  BY Bounds, QuotedTyped
<1>2. b \in {Separator, Escape} => q = <<Escape, b>>
  BY DEF Quoted
<1>3. b \notin {Separator, Escape} => q = <<b>>
  BY DEF Quoted
<1>4. q \o end \in Seq(Nat) /\ after \in Seq(Nat) /\ after = end \o <<Separator>>
  BY <1>1, ConcatProperties, AppendIs
<1>5. p = (q \o end) \o <<Separator>> /\ p \in Seq(Nat) /\ p # <<>>
  BY <1>1, <1>4, AppendIs
<1> HIDE DEF p, after, q
<1>6. p = q \o after
  BY <1>1, <1>4, <1>5, Grouped, SMTT(30)
<1>7. ASSUME b \in {Separator, Escape} PROVE Head(p) = Escape /\ Tail(p) = <<b>> \o after
  <2>1. q = <<Escape>> \o <<b>> /\ <<Escape>> \in Seq(Nat) /\ <<b>> \in Seq(Nat)
    BY <1>1, <1>2, <1>7
  <2>2. p = <<Escape>> \o (<<b>> \o after) /\ <<b>> \o after \in Seq(Nat)
    BY <1>4, <1>6, <2>1, Grouped, SMTT(30)
  <2> QED  BY <1>1, <2>2, ByteSeq
<1>8. ASSUME b \notin {Separator, Escape} PROVE Head(p) = b /\ Tail(p) = after
  <2>1. p = <<b>> \o after
    BY <1>3, <1>6, <1>8
  <2> QED  BY <1>4, <2>1, ByteSeq
<1> QED  BY <1>5, <1>7, <1>8 DEF p, after

LEMMA PendingByte ==
  ASSUME got \in Seq(Nat), escaped \in BOOLEAN, NEW s \in Seq(Nat), ReadsArgument(s)
  PROVE  /\ Pending(s) \in Seq(Nat) /\ Pending(s) # <<>>
         /\ Len(got) < Len(s) => NextByte(s) \in Nat /\ Later(s) \in Seq(Nat)
         /\ escaped => Head(Pending(s)) = NextByte(s) /\ Tail(Pending(s)) = Later(s)
         /\ ~escaped /\ Len(got) < Len(s) /\ NextByte(s) \in {Separator, Escape} =>
              Head(Pending(s)) = Escape /\ Tail(Pending(s)) = <<NextByte(s)>> \o Later(s)
         /\ ~escaped /\ Len(got) < Len(s) /\ NextByte(s) \notin {Separator, Escape} =>
              Head(Pending(s)) = NextByte(s) /\ Tail(Pending(s)) = Later(s)
         /\ ~escaped /\ Len(got) = Len(s) => Pending(s) = <<Separator>>
<1> DEFINE k == Len(got)
           end == EscapedEnd(s)[Len(s) - (k + 1)]
<1>1. k \in Nat /\ Len(s) \in Nat /\ k <= Len(s) /\ Separator \in Nat /\ Escape \in Nat
  BY LenProperties, Bounds DEF ReadsArgument, Starts
<1>2. ASSUME k < Len(s)
      PROVE  /\ NextByte(s) \in Nat /\ end \in Seq(Nat) /\ Later(s) \in Seq(Nat)
             /\ EscapedEnd(s)[Len(s) - k] = Quoted(NextByte(s)) \o end
             /\ Later(s) = Append(end, Separator)
  BY <1>1, <1>2, EscapedByte DEF NextByte, Later
<1> HIDE DEF end
<1>3. CASE escaped
  <2>1. k < Len(s)
    BY <1>3 DEF ReadsArgument
  <2>2. Pending(s) = <<NextByte(s)>> \o Later(s)
    BY <1>3 DEF Pending
  <2>3. NextByte(s) \in Nat /\ Later(s) \in Seq(Nat)
    BY <1>2, <2>1
  <2>4. /\ Pending(s) \in Seq(Nat) /\ Pending(s) # <<>>
        /\ Head(Pending(s)) = NextByte(s) /\ Tail(Pending(s)) = Later(s)
    BY <2>2, <2>3, ByteSeq, SMTT(30)
  <2> QED  BY <1>3, <2>3, <2>4
<1>4. CASE ~escaped /\ k < Len(s)
  <2>1. Pending(s) = Append(Quoted(NextByte(s)) \o end, Separator)
    BY <1>2, <1>4 DEF Pending
  <2>2. NextByte(s) \in Nat /\ end \in Seq(Nat) /\ Later(s) = Append(end, Separator)
    BY <1>2, <1>4
  <2>3. /\ Pending(s) \in Seq(Nat) /\ Pending(s) # <<>>
        /\ NextByte(s) \in {Separator, Escape} =>
             Head(Pending(s)) = Escape /\ Tail(Pending(s)) = <<NextByte(s)>> \o Later(s)
        /\ NextByte(s) \notin {Separator, Escape} =>
             Head(Pending(s)) = NextByte(s) /\ Tail(Pending(s)) = Later(s)
    <3> DEFINE b == NextByte(s)
               p == Append(Quoted(b) \o end, Separator)
               after == Append(end, Separator)
    <3>1. b \in Nat /\ end \in Seq(Nat)
      BY <2>2
    <3> HIDE DEF b
    <3>2. /\ p \in Seq(Nat) /\ p # <<>>
          /\ b \in {Separator, Escape} => Head(p) = Escape /\ Tail(p) = <<b>> \o after
          /\ b \notin {Separator, Escape} => Head(p) = b /\ Tail(p) = after
      BY <3>1, QuotedFirst
    <3>3. Pending(s) = p /\ Later(s) = after
      BY <2>1, <2>2 DEF b
    <3> HIDE DEF p, after
    <3> QED  BY <3>2, <3>3 DEF b
  <2>4. Later(s) \in Seq(Nat)
    BY <1>2, <1>4
  <2>5. Len(got) # Len(s)
    BY <1>1, <1>4
  <2> HIDE DEF k
  <2> QED  BY <1>4, <2>2, <2>3, <2>4, <2>5
<1>5. CASE ~escaped /\ k = Len(s)
  <2>1. Len(s) - k = 0
    BY <1>1, <1>5
  <2>2. EscapedEnd(s)[Len(s) - k] = <<>>
    BY <2>1, EscapedDef
  <2>3. Pending(s) = <<Separator>>
    BY <1>5, <2>2 DEF Pending
  <2>4. <<Separator>> \in Seq(Nat) /\ <<Separator>> # <<>>
    BY <1>1
  <2>5. ~(Len(got) < Len(s))
    BY <1>1, <1>5
  <2> QED  BY <1>5, <2>3, <2>4, <2>5
<1>6. k < Len(s) \/ k = Len(s)
  BY <1>1
<1> HIDE DEF k
<1> QED  BY <1>3, <1>4, <1>5, <1>6

(* Before its first byte, all of an argument is pending. *)
LEMMA ArgumentBegins ==
  ASSUME got' = <<>>, ~escaped', NEW s \in Seq(Nat)
  PROVE  ReadsArgument(s)' /\ Pending(s)' = Argument(s)
<1>1. Len(got') = 0 /\ Len(s) \in Nat /\ Len(s) - 0 = Len(s)
  BY LenProperties
<1> QED  BY <1>1 DEF ReadsArgument, Starts, Pending, Argument

-----------------------------------------------------------------------------
(* Each reader makes of its next byte what the frame says. *)

LEMMA PrefixByBytes ==
  ASSUME NEW a \in Seq(Nat), NEW s \in Seq(Nat), Len(a) <= Len(s),
         \A k \in 1 .. Len(a) : a[k] = s[k]
  PROVE  IsPrefix(a, s)
<1>1. Len(a) \in Nat /\ Len(s) \in Nat /\ \A k \in 1 .. Len(a) : a[k] \in Nat
  BY LenProperties, ElementOfSeq
<1>2. SubSeq(a, 1, Len(a)) = a
  BY SubSeqFull
<1>3. /\ SubSeq(s, 1, Len(a)) \in Seq(Nat) /\ Len(SubSeq(s, 1, Len(a))) = Len(a)
      /\ \A k \in 1 .. Len(a) : SubSeq(s, 1, Len(a))[k] = s[k]
  BY <1>1, SubSeqProperties
<1>4. SubSeq(s, 1, Len(a)) = a
  BY <1>1, <1>3, SeqEqual
<1> QED  BY <1>2, <1>4 DEF IsPrefix

(* How getUntil goes on with the argument s, which may be longer than its  *)
(* buffer.                                                                 *)
GoesOn(s) ==
  \/ /\ UNCHANGED <<pc, op, key, size, done>>
     /\ ReadsArgument(s)' /\ Pending(s)' = Tail(Pending(s))
  \/ /\ ArgumentRead(s)
     /\ \/ Tail(Pending(s)) = <<>>
        \/ Len(s) = Room /\ Tail(Pending(s)) = <<Separator>>
  \/ /\ Room < Len(s)
     /\ \E a \in Seq(Nat) : IsPrefix(a, s) /\ a # s /\ ArgumentRead(a)

LEMMA GetsByte ==
  ASSUME Typed, NEW s \in Seq(Nat), ReadsArgument(s),
         Len(got) < Len(s), Byte = NextByte(s), Tail(Pending(s)) = Later(s),
         IF Len(got) + 1 = Room
         THEN ArgumentRead(Append(got, Byte))
         ELSE /\ got' = Append(got, Byte)
              /\ escaped' = EscapeSpent
              /\ UNCHANGED pc /\ Keep
  PROVE  GoesOn(s)
<1> DEFINE k == Len(got)
<1>1. /\ got \in Seq(Nat) /\ k \in Nat /\ Len(s) \in Nat /\ Room \in Nat /\ Byte \in Nat
      /\ Starts(s) /\ Byte = s[k + 1]
  <2>1. got \in Seq(Nat)
    BY DEF Typed, TypeOK
  <2>2. Byte \in Nat
    BY <2>1, LenProperties, EscapedByte DEF NextByte
  <2> QED  BY <2>1, <2>2, LenProperties, RoomIs DEF ReadsArgument, NextByte
<1>2. /\ \A i \in 1 .. k + 1 : Append(got, Byte)[i] = s[i]
      /\ Len(Append(got, Byte)) = k + 1
      /\ k + 1 = Len(s) => Append(got, Byte) = s
  BY <1>1, StartsMore
<1>5. CASE k + 1 = Room /\ k + 1 # Len(s)
  <2> DEFINE a == Append(got, Byte)
  <2>1. a \in Seq(Nat) /\ Len(a) = k + 1 /\ Room < Len(s)
    BY <1>1, <1>5, AppendProperties
  <2>2. ArgumentRead(a) /\ a # s /\ Len(a) <= Len(s) /\ \A i \in 1 .. Len(a) : a[i] = s[i]
    BY <1>1, <1>2, <1>5, <2>1
  <2> HIDE DEF a
  <2>3. IsPrefix(a, s)
    BY <2>1, <2>2, PrefixByBytes
  <2> QED  BY <2>1, <2>2, <2>3 DEF GoesOn
<1>3. CASE k + 1 = Room /\ k + 1 = Len(s)
  <2>1. k + 1 = Len(s) /\ Len(s) = Room
    BY <1>1, <1>3
  <2>2. ArgumentRead(s)
    BY <1>2, <1>3, <2>1
  <2>3. EscapedEnd(s)[Len(s) - (k + 1)] = <<>>
    <3>1. Len(s) - (k + 1) = 0
      BY <1>1, <2>1
    <3>2. EscapedEnd(s)[0] = <<>>
      BY EscapedDef
    <3> HIDE DEF k
    <3> QED  BY <3>1, <3>2
  <2>4. Later(s) = Append(<<>>, Separator)
    BY <2>3 DEF Later
  <2>5. Later(s) = <<Separator>>
    BY <2>4
  <2> QED  BY <2>1, <2>2, <2>5 DEF GoesOn
<1>4. CASE k + 1 # Room
  <2>1. /\ got' = Append(got, Byte) /\ escaped' = FALSE
        /\ UNCHANGED <<pc, op, key, size, done>>
    BY <1>4 DEF EscapeSpent, Keep
  <2>2. Len(got') = k + 1
    BY <1>2, <2>1
  <2>3. Starts(s)'
    BY <1>1, <1>2, <2>1, <2>2 DEF Starts
  <2>4. ReadsArgument(s)'
    BY <2>1, <2>3 DEF ReadsArgument
  <2>5. Pending(s)' = Later(s)
    BY <2>1, <2>2 DEF Pending, Later
  <2> QED  BY <2>1, <2>4, <2>5 DEF GoesOn
<1> QED  BY <1>3, <1>4, <1>5

LEMMA GetsArgument ==
  ASSUME Typed, getUntil, NEW s \in Seq(Nat), ReadsArgument(s),
         Byte = Head(Pending(s))
  PROVE  GoesOn(s)
<1> DEFINE Third ==
             IF Len(got) + 1 = Room
             THEN ArgumentRead(Append(got, Byte))
             ELSE /\ got' = Append(got, Byte)
                  /\ escaped' = EscapeSpent
                  /\ UNCHANGED pc /\ Keep
<1>1. got \in Seq(Nat) /\ escaped \in BOOLEAN /\ Separator # Escape /\ Separator \in Nat
  BY Bounds DEF Typed, TypeOK
<1>2. \/ ~escaped /\ Byte = Escape /\ escaped' = TRUE /\ UNCHANGED <<pc, got>> /\ Keep
      \/ ~escaped /\ Byte = Separator /\ ArgumentRead(got)
      \/ (escaped \/ Byte \notin {Escape, Separator}) /\ Third
  BY DEF getUntil
<1> HIDE DEF Third
<1>3. CASE escaped
  <2>1. Len(got) < Len(s) /\ Byte = NextByte(s) /\ Tail(Pending(s)) = Later(s)
    BY <1>1, <1>3, PendingByte DEF ReadsArgument
  <2>2. Third
    BY <1>2, <1>3
  <2> QED  BY <2>1, <2>2, GetsByte DEF Third
<1>4. CASE ~escaped /\ Len(got) < Len(s) /\ NextByte(s) \in {Separator, Escape}
  <2>1. Byte = Escape /\ Tail(Pending(s)) = <<NextByte(s)>> \o Later(s)
    BY <1>1, <1>4, PendingByte
  <2>2. escaped' = TRUE /\ UNCHANGED <<pc, got>> /\ Keep
    BY <1>1, <1>2, <1>4, <2>1
  <2>3. UNCHANGED <<pc, op, key, size, done>>
    BY <2>2 DEF Keep
  <2>4. ReadsArgument(s)'
    BY <1>4, <2>2 DEF ReadsArgument, Starts, NextByte
  <2>5. Pending(s)' = <<NextByte(s)>> \o Later(s)
    BY <2>2 DEF Pending, Later, NextByte
  <2> QED  BY <2>1, <2>3, <2>4, <2>5 DEF GoesOn
<1>5. CASE ~escaped /\ Len(got) < Len(s) /\ NextByte(s) \notin {Separator, Escape}
  <2>1. Byte = NextByte(s) /\ Tail(Pending(s)) = Later(s)
    BY <1>1, <1>5, PendingByte
  <2>2. Third
    BY <1>2, <1>5, <2>1
  <2> QED  BY <1>5, <2>1, <2>2, GetsByte DEF Third
<1>6. CASE ~escaped /\ Len(got) = Len(s)
  <2>1. Pending(s) = <<Separator>>
    BY <1>1, <1>6, PendingByte
  <2>2. Byte = Separator /\ Tail(Pending(s)) = <<>>
    BY <1>1, <2>1, ByteSeq
  <2>3. ArgumentRead(got)
    BY <1>1, <1>2, <1>6, <2>2
  <2>4. got = s
    BY <1>1, <1>6, StartsWhole DEF ReadsArgument
  <2>5. ArgumentRead(s)
    BY <2>3, <2>4
  <2> QED  BY <2>2, <2>5 DEF GoesOn
<1>7. Len(got) < Len(s) \/ Len(got) = Len(s)
  BY <1>1, LenProperties DEF ReadsArgument, Starts
<1> QED  BY <1>3, <1>4, <1>5, <1>6, <1>7

-----------------------------------------------------------------------------
LEMMA ReadsPrefix ==
  ASSUME Typed, NEW f \in Frames, NEW r, Within(f, r), waitFor, Byte = Head(r)
  PROVE  r # <<>> /\ ReadsOn(f, Tail(r))
<1> DEFINE R == Code[f.op] \o Arguments(f)
           C == Code[f.op]
<1>0. /\ pc = "prefix" /\ matched \in Nat /\ matched < Len(Prefix) /\ Prefix \in Seq(Nat)
      /\ Len(Prefix) \in Nat /\ Keep
  BY MatchedStays, PrefixBytes DEF waitFor
<1>1. R \in Seq(Nat) /\ C \in Seq(Nat) /\ Arguments(f) \in Seq(Nat)
  BY BytesTyped, FrameParts, CodeBytes
<1>2. r = From(Prefix, matched) \o R
  BY <1>0 DEF Within
<1> HIDE DEF R
<1>3. /\ r # <<>> /\ Head(r) = Prefix[matched + 1]
      /\ Tail(r) = From(Prefix, matched + 1) \o R
  BY <1>0, <1>1, <1>2, FromStepThen
<1>4. done' = done /\ Byte = Prefix[matched + 1]
  BY <1>0, <1>3 DEF Keep
<1>5. CASE matched' = matched + 1 /\ UNCHANGED <<pc, got, escaped>>
  <2>1. "prefix" \in Reading
    BY DEF Reading
  <2>2. Within(f, Tail(r))'
    BY <1>0, <1>3, <1>5, <2>1 DEF Within, R
  <2> QED  BY <1>3, <1>4, <2>2 DEF ReadsOn
<1>6. CASE matched + 1 = Len(Prefix) /\ Read("command")
  <2>1. pc' = "command" /\ got' = <<>> /\ Len(got') = 0 /\ "command" \in Reading
    BY <1>6, ReadTyped DEF Reading
  <2>2. Tail(r) = R
    BY <1>0, <1>1, <1>3, <1>6, FromEnds, ConcatEmptySeq
  <2>3. From(C, 0) = C /\ Len(C) \in Nat
    BY <1>1, FromEnds, LenProperties
  <2>4. Starts(C)'
    BY <2>1, <2>3 DEF Starts
  <2>5. Within(f, Tail(r))'
    BY <2>1, <2>2, <2>3, <2>4 DEF Within, R
  <2> QED  BY <1>3, <1>4, <2>5 DEF ReadsOn
<1> QED  BY <1>4, <1>5, <1>6 DEF waitFor

LEMMA BehindTyped ==
  ASSUME NEW f \in Frames
  PROVE  Behind(f) \in Seq(Nat)
<1>1. f.value \in Seq(Nat)
  BY FrameParts
<1> QED  BY <1>1, ArgumentTypedBytes, EmptySeq DEF Behind

(* processCommand begins with the argument of its frame, or is done. *)
LEMMA Dispatches ==
  ASSUME Typed, NEW f \in Frames, Dispatch(f.op), pc = "command", matched' = matched
  PROVE  ReadsOn(f, Arguments(f))
<1> DEFINE o == f.op
<1>0. /\ o \in Ops /\ f.key \in Seq(Nat) /\ f.value \in Seq(Nat)
      /\ o \notin KeyOps => f.key = <<>>
      /\ o \notin {"kset", "data", "zipd"} => f.value = <<>>
      /\ f = [op |-> o, key |-> f.key, value |-> f.value]
      /\ matched' = 0 /\ op' = o
  BY FrameParts, MatchedStays DEF Dispatch
<1>1. CASE o \in KeyOps
  <2>1. Read("key") /\ done' = done
    BY <1>1 DEF Dispatch
  <2>2. pc' = "key" /\ got' = <<>> /\ ~escaped' /\ "key" \in Reading
    BY <2>1 DEF Read, Reading
  <2>3. ReadsArgument(f.key)' /\ Pending(f.key)' = Argument(f.key)
    BY <1>0, <2>2, ArgumentBegins
  <2>4. Argument(f.key) \in Seq(Nat) /\ Argument(f.key) \o <<>> = Argument(f.key)
    BY <1>0, ArgumentTypedBytes, ConcatEmptySeq
  <2>5. Arguments(f) = Argument(f.key) \o Behind(f)
    BY <1>1, <2>4 DEF Arguments, Behind
  <2>6. Within(f, Arguments(f))'
    BY <1>0, <2>2, <2>3, <2>5 DEF Within, Behind
  <2> QED  BY <2>1, <2>6 DEF ReadsOn
<1>2. CASE o = "data"
  <2>1. o \notin KeyOps /\ o # "zipd"
    BY <1>2 DEF KeyOps
  <2>2. Read("picture") /\ done' = done
    BY <1>2, <2>1 DEF Dispatch
  <2>3. pc' = "picture" /\ got' = <<>> /\ Len(got') = 0 /\ "picture" \in Reading
    BY <2>2, ReadTyped DEF Reading
  <2>4. Arguments(f) = f.value /\ From(f.value, 0) = f.value /\ Len(f.value) \in Nat
    BY <1>0, <1>2, <2>1, FromEnds, LenProperties DEF Arguments
  <2>5. Starts(f.value)'
    BY <2>3, <2>4 DEF Starts
  <2>6. Within(f, Arguments(f))'
    BY <1>0, <2>3, <2>4, <2>5 DEF Within
  <2> QED  BY <2>2, <2>6 DEF ReadsOn
<1>3. CASE o = "zipd"
  <2>1. o \notin KeyOps /\ o # "data" /\ o # "kset"
    BY <1>3 DEF KeyOps
  <2>2. Read("size") /\ done' = done
    BY <1>3, <2>1 DEF Dispatch
  <2>3. pc' = "size" /\ "size" \in Reading
    BY <2>2, ReadTyped DEF Reading
  <2>4. Arguments(f) = <<Len(f.value)>> \o f.value
    BY <1>3, <2>1 DEF Arguments
  <2>5. Within(f, Arguments(f))'
    BY <1>0, <2>3, <2>4 DEF Within
  <2> QED  BY <2>2, <2>5 DEF ReadsOn
<1>4. CASE o \notin KeyOps \cup {"data", "zipd"}
  <2>1. f.key = <<>> /\ f.value = <<>> /\ o # "kset"
    BY <1>0, <1>4 DEF KeyOps
  <2>2. Read(IF o \in RebootOps THEN "off" ELSE "prefix")
        /\ done' = Append(done, [op |-> o, key |-> <<>>, value |-> <<>>])
    BY <1>4 DEF Dispatch
  <2>3. [op |-> o, key |-> <<>>, value |-> <<>>] = f
    BY <1>0, <2>1
  <2>4. Works(f)
    BY <1>4, <2>1 DEF Works
  <2>5. done' = Ended(f)
    BY <2>2, <2>3, <2>4 DEF Ended
  <2>6. Arguments(f) = <<>>
    BY <1>4, <2>1 DEF Arguments
  <2>7. pc' \in {"off", "prefix"}
    BY <2>2 DEF Read
  <2>8. Rests(Arguments(f))'
    BY <1>0, <2>6, <2>7 DEF Rests
  <2> QED  BY <2>5, <2>8 DEF ReadsOn
<1> QED  BY <1>1, <1>2, <1>3, <1>4

LEMMA ReadsCommand ==
  ASSUME Typed, NEW f \in Frames, NEW r, Within(f, r), ReadCommand, Byte = Head(r)
  PROVE  r # <<>> /\ ReadsOn(f, Tail(r))
<1> DEFINE C == Code[f.op]
           A == Arguments(f)
           k == Len(got)
           code == Append(got, Byte)
<1>0. /\ pc = "command" /\ got \in Seq(Nat) /\ k \in Nat /\ k < COMMAND_LEN
      /\ C \in Seq(Nat) /\ Len(C) = COMMAND_LEN /\ A \in Seq(Nat) /\ COMMAND_LEN \in Nat
      /\ f.op \in Ops /\ matched' = matched
  BY LenProperties, FrameParts, CodeBytes, BytesTyped, Bounds
  DEF Typed, TypeOK, Calls, ReadCommand
<1>1. Starts(C) /\ r = From(C, k) \o A
  BY <1>0 DEF Within
<1> HIDE DEF C, A
<1>2. r # <<>> /\ Head(r) = C[k + 1] /\ Tail(r) = From(C, k + 1) \o A
  BY <1>0, <1>1, FromStepThen
<1>3. Byte \in Nat
  <2>1. k + 1 \in 1 .. Len(C)
    BY <1>0
  <2> QED  BY <1>0, <1>2, <2>1, ElementOfSeq
<1>4. /\ \A i \in 1 .. k + 1 : code[i] = C[i]
      /\ Len(code) = k + 1
      /\ k + 1 = Len(C) => code = C
  BY <1>0, <1>1, <1>2, <1>3, StartsMore
<1> HIDE DEF code
<1>5. CASE Len(code) < COMMAND_LEN /\ Collect(code)
  <2>1. /\ pc' = "command" /\ got' = code /\ Len(got') = k + 1 /\ done' = done
        /\ "command" \in Reading
    BY <1>0, <1>4, <1>5 DEF Collect, Reading
  <2>2. Starts(C)'
    BY <1>0, <1>4, <1>5, <2>1 DEF Starts
  <2>3. Within(f, Tail(r))'
    BY <1>2, <2>1, <2>2 DEF Within, C, A
  <2> QED  BY <1>2, <2>1, <2>3 DEF ReadsOn
<1>6. CASE Len(code) = COMMAND_LEN
  <2>1. code = C /\ k + 1 = Len(C)
    BY <1>0, <1>4, <1>6
  <2>2. \E o \in Ops : Code[o] = code /\ Dispatch(o)
    <3>1. Code[f.op] = code /\ ~(Len(code) < COMMAND_LEN)
      BY <1>0, <1>6, <2>1 DEF C
    <3>2. \/ Len(code) < COMMAND_LEN
          \/ \E o \in Ops : Code[o] = code /\ Dispatch(o)
          \/ \A o \in Ops : Code[o] # code
      BY DEF ReadCommand, code
    <3> QED  BY <1>0, <3>1, <3>2
  <2>3. Dispatch(f.op)
    <3>1. PICK o \in Ops : Code[o] = code /\ Dispatch(o)
      BY <2>2
    <3>2. o = f.op
      BY <1>0, <2>1, <3>1, UsbAssumption DEF C
    <3> QED  BY <3>1, <3>2
  <2>4. Tail(r) = A
    BY <1>0, <1>2, <2>1, FromEnds, ConcatEmptySeq
  <2>5. ReadsOn(f, Arguments(f))
    BY <1>0, <2>3, Dispatches
  <2> QED  BY <1>2, <2>4, <2>5 DEF A
<1> QED  BY <1>0, <1>5, <1>6 DEF ReadCommand, code

LEMMA ReadsKey ==
  ASSUME Typed, NEW f \in Frames, Fits(f),
         f.op = "kset" => f.key # <<>> /\ Len(f.key) < CONFIG_KEY_LEN - 1,
         NEW r, Within(f, r), getUntil, pc = "key", Byte = Head(r)
  PROVE  r # <<>> /\ ReadsOn(f, Tail(r))
<1> DEFINE s == f.key
           p == Pending(s)
<1>0. /\ op = f.op /\ op \in KeyOps /\ s \in Seq(Nat) /\ ReadsArgument(s)
      /\ r = p \o Behind(f) /\ Behind(f) \in Seq(Nat) /\ f.value \in Seq(Nat)
      /\ got \in Seq(Nat) /\ escaped \in BOOLEAN
      /\ f = [op |-> f.op, key |-> f.key, value |-> f.value]
  BY FrameParts, BehindTyped DEF Within, Typed, TypeOK, Calls
<1>1. matched' = 0
  BY MatchedStays DEF getUntil
<1>2. p \in Seq(Nat) /\ p # <<>>
  BY <1>0, PendingByte
<1>3. /\ r # <<>> /\ Head(r) = Head(p) /\ Tail(r) = Tail(p) \o Behind(f)
  BY <1>0, <1>2, HeadOfConcat
<1>4. Len(s) <= Room /\ (f.op = "kset" => Len(s) # Room)
  <2>1. Len(s) \in Nat /\ Room = CONFIG_KEY_LEN - 1 /\ CONFIG_KEY_LEN \in Nat
    BY <1>0, Bounds, RoomIs, LenProperties
  <2>2. f.op = "kset" => Len(s) < CONFIG_KEY_LEN - 1
    OBVIOUS
  <2>3. f.op # "kset" => Len(s) < CONFIG_KEY_LEN
    BY DEF Fits
  <2> QED  BY <2>1, <2>2, <2>3
<1>5. GoesOn(s)
  BY <1>0, <1>3, <1>4, GetsArgument
<1> HIDE DEF p
<1>6. CASE UNCHANGED <<pc, op, key, size, done>> /\ ReadsArgument(s)' /\ Pending(s)' = Tail(p)
  <2>1. pc' = "key" /\ "key" \in Reading
    BY <1>6 DEF Reading
  <2>2. Within(f, Tail(r))'
    BY <1>0, <1>3, <1>6, <2>1 DEF Within, Behind
  <2> QED  BY <1>3, <1>6, <2>2 DEF ReadsOn
<1>7. CASE KeyRead(s) /\ Tail(p) \in {<<>>, <<Separator>>} /\ (Tail(p) # <<>> => Len(s) = Room)
  <2>1. CASE f.op = "kset"
    <3>1. key' = s /\ Read("value") /\ UNCHANGED <<op, size, done>>
      BY <1>0, <1>7, <2>1 DEF KeyRead
    <3>2. pc' = "value" /\ got' = <<>> /\ ~escaped' /\ "value" \in Reading
      BY <3>1 DEF Read, Reading
    <3>3. ReadsArgument(f.value)' /\ Pending(f.value)' = Argument(f.value)
      BY <1>0, <3>2, ArgumentBegins
    <3>4. Tail(p) = <<>>
      BY <1>4, <1>7, <2>1
    <3>5. Tail(r) = Argument(f.value)
      BY <1>0, <1>3, <2>1, <3>4, ConcatEmptySeq DEF Behind
    <3>6. Within(f, Tail(r))'
      BY <1>0, <3>1, <3>2, <3>3, <3>5 DEF Within
    <3> QED  BY <1>3, <3>1, <3>6 DEF ReadsOn
  <2>2. CASE f.op # "kset"
    <3>1. f.value = <<>> /\ f.op \notin {"data", "zipd"}
      BY <1>0, <2>2, FrameParts DEF KeyOps
    <3>2. Behind(f) = <<>> /\ Tail(p) \in Seq(Nat)
      BY <1>2, <2>2, HeadTailProperties DEF Behind
    <3>3. Tail(r) = Tail(p)
      BY <1>3, <3>2, ConcatEmptySeq
    <3>4. Read("prefix") /\ done' = Ended(f)
      <4>1. CASE s = <<>>
        <5>1. ~Works(f)
          BY <1>0, <4>1 DEF Works
        <5> QED  BY <1>7, <4>1, <5>1 DEF KeyRead, Keep, Ended
      <4>2. CASE s # <<>>
        <5>1. Works(f)
          BY <2>2, <3>1, <4>2 DEF Works
        <5>2. Effect(s, <<>>) /\ Read("prefix")
          BY <1>0, <1>7, <2>2, <4>2 DEF KeyRead
        <5>3. [op |-> op, key |-> s, value |-> <<>>] = f
          BY <1>0, <3>1
        <5> QED  BY <5>1, <5>2, <5>3 DEF Effect, Ended
      <4> QED  BY <4>1, <4>2
    <3>5. Rests(Tail(r))'
      BY <1>1, <1>7, <3>3, <3>4 DEF Rests, Read
    <3> QED  BY <1>3, <3>4, <3>5 DEF ReadsOn
  <2> QED  BY <2>1, <2>2
<1>8. ArgumentRead(s) => KeyRead(s)
  BY DEF ArgumentRead
<1>9. ~(Room < Len(s))
  BY <1>0, <1>4, RoomIs, LenProperties
<1> QED  BY <1>5, <1>6, <1>7, <1>8, <1>9 DEF GoesOn, p

LEMMA ReadsValue ==
  ASSUME Typed, NEW f \in Frames, Fits(f),
         f.op = "kset" => f.key # <<>> /\ Len(f.key) < CONFIG_KEY_LEN - 1,
         NEW r, Within(f, r), getUntil, pc = "value", Byte = Head(r)
  PROVE  r # <<>> /\ ReadsOn(f, Tail(r))
<1> DEFINE s == f.value
           p == Pending(s)
<1>0. /\ op = f.op /\ op = "kset" /\ key = f.key /\ s \in Seq(Nat) /\ ReadsArgument(s)
      /\ Len(f.key) < CONFIG_KEY_LEN - 1 /\ f.key # <<>>
      /\ r = p /\ got \in Seq(Nat) /\ escaped \in BOOLEAN
      /\ f = [op |-> f.op, key |-> f.key, value |-> f.value]
  BY FrameParts DEF Within, Typed, TypeOK, Calls
<1>1. matched' = 0
  BY MatchedStays DEF getUntil
<1>2. p \in Seq(Nat) /\ p # <<>>
  BY <1>0, PendingByte
<1>4. Len(s) <= Room
  BY <1>0, Bounds, RoomIs, LenProperties DEF Fits
<1>5. GoesOn(s)
  BY <1>0, <1>4, GetsArgument
<1> HIDE DEF p
<1>6. CASE UNCHANGED <<pc, op, key, size, done>> /\ ReadsArgument(s)' /\ Pending(s)' = Tail(p)
  <2>1. pc' = "value" /\ "value" \in Reading
    BY <1>6 DEF Reading
  <2>2. Within(f, Tail(r))'
    BY <1>0, <1>6, <2>1 DEF Within
  <2> QED  BY <1>0, <1>2, <1>6, <2>2 DEF ReadsOn
<1>7. CASE ValueRead(s) /\ Tail(p) \in {<<>>, <<Separator>>}
  <2>1. Read("prefix")
    BY <1>7 DEF ValueRead, AfterValue
  <2>2. done' = Ended(f)
    <3>1. CASE s = <<>>
      <4>1. ~Works(f)
        BY <1>0, <3>1 DEF Works
      <4> QED  BY <1>7, <3>1, <4>1 DEF ValueRead, Ended
    <3>2. CASE s # <<>>
      <4>1. Works(f)
        BY <1>0, <3>2 DEF Works
      <4>2. Effect(key, s)
        BY <1>7, <3>2 DEF ValueRead
      <4>3. [op |-> op, key |-> key, value |-> s] = f
        BY <1>0
      <4> QED  BY <4>1, <4>2, <4>3 DEF Effect, Ended
    <3> QED  BY <3>1, <3>2
  <2>3. Rests(Tail(r))'
    BY <1>0, <1>1, <1>7, <2>1 DEF Rests, Read
  <2> QED  BY <1>0, <1>2, <2>2, <2>3 DEF ReadsOn
<1>8. ArgumentRead(s) => ValueRead(s)
  BY DEF ArgumentRead
<1>9. ~(Room < Len(s))
  BY <1>0, <1>4, RoomIs, LenProperties
<1> QED  BY <1>5, <1>6, <1>7, <1>8, <1>9 DEF GoesOn, p

(* getBytes of a body that is f.value. *)
LEMMA ReadsBody ==
  ASSUME Typed, NEW f \in Frames, NEW r, Within(f, r), pc \in {"picture", "zipped"},
         Take, Byte = Head(r), Len(got) < Len(f.value)
  PROVE  /\ r # <<>> /\ Tail(r) = From(f.value, Len(got) + 1)
         /\ Len(Append(got, Byte)) = Len(got) + 1
         /\ \A i \in 1 .. Len(got) + 1 : Append(got, Byte)[i] = f.value[i]
         /\ Len(got) + 1 = Len(f.value) => Append(got, Byte) = f.value /\ Tail(r) = <<>>
<1> DEFINE s == f.value
<1>0. /\ s \in Seq(Nat) /\ Starts(s) /\ r = From(s, Len(got)) /\ got \in Seq(Nat)
      /\ Len(got) \in Nat /\ Byte \in Nat
  BY FrameParts, LineOf, TakeTyped DEF Within, Typed, TypeOK
<1>1. r # <<>> /\ Head(r) = s[Len(got) + 1] /\ Tail(r) = From(s, Len(got) + 1)
  BY <1>0, FromStep
<1>2. /\ \A i \in 1 .. Len(got) + 1 : Append(got, Byte)[i] = s[i]
      /\ Len(Append(got, Byte)) = Len(got) + 1
      /\ Len(got) + 1 = Len(s) => Append(got, Byte) = s
  BY <1>0, <1>1, StartsMore
<1>3. Len(got) + 1 = Len(s) => Tail(r) = <<>>
  BY <1>0, <1>1, FromEnds
<1> QED  BY <1>1, <1>2, <1>3

LEMMA BodyGoesOn ==
  ASSUME Typed, NEW f \in Frames, NEW r, Within(f, r), pc \in {"picture", "zipped"},
         Take, Byte = Head(r), Len(got) + 1 < Len(f.value), Collect(Append(got, Byte))
  PROVE  r # <<>> /\ ReadsOn(f, Tail(r))
<1>0. Len(got) \in Nat /\ Len(f.value) \in Nat /\ Len(got) < Len(f.value) /\ pc \in Reading
  BY FrameParts, LenProperties DEF Typed, TypeOK, Within
<1>1. /\ r # <<>> /\ Tail(r) = From(f.value, Len(got) + 1)
      /\ Len(Append(got, Byte)) = Len(got) + 1
      /\ \A i \in 1 .. Len(got) + 1 : Append(got, Byte)[i] = f.value[i]
  BY <1>0, ReadsBody
<1>2. got' = Append(got, Byte) /\ UNCHANGED <<pc, op, key, size, done>>
  BY DEF Collect
<1>3. Starts(f.value)'
  BY <1>0, <1>1, <1>2 DEF Starts
<1>4. Within(f, Tail(r))'
  <2>1. op = f.op /\ (pc = "zipped" => size = Len(f.value))
    BY DEF Within
  <2> QED  BY <1>0, <1>1, <1>2, <1>3, <2>1 DEF Within
<1> QED  BY <1>1, <1>2, <1>4 DEF ReadsOn

LEMMA ReadsData ==
  ASSUME Typed, NEW f \in Frames, OfPanelSize(f), NEW r, Within(f, r), handleData,
         Byte = Head(r)
  PROVE  r # <<>> /\ ReadsOn(f, Tail(r))
<1>0. /\ pc = "picture" /\ Take /\ op = "data" /\ op = f.op /\ matched' = 0
      /\ Len(f.value) = BUFFER_SIZE /\ Len(got) < BUFFER_SIZE /\ Len(got) \in Nat
      /\ BUFFER_SIZE \in Nat /\ BUFFER_SIZE > 0
  BY MatchedStays, Bounds, LenProperties DEF handleData, Typed, TypeOK, Calls, Within, OfPanelSize
<1>1. CASE Len(got) + 1 < BUFFER_SIZE
  BY <1>0, <1>1, BodyGoesOn DEF handleData
<1>2. CASE ~(Len(got) + 1 < BUFFER_SIZE)
  <2>1. r # <<>> /\ Append(got, Byte) = f.value /\ Tail(r) = <<>>
    <3>1. Len(got) + 1 = Len(f.value)
      BY <1>0, <1>2
    <3> QED  BY <1>0, <3>1, ReadsBody
  <2>2. Effect(<<>>, f.value) /\ Read("prefix")
    BY <1>2, <2>1 DEF handleData
  <2>3. /\ f = [op |-> f.op, key |-> f.key, value |-> f.value]
        /\ f.key = <<>>
    BY <1>0, FrameParts DEF KeyOps
  <2>4. [op |-> op, key |-> <<>>, value |-> f.value] = f
    BY <1>0, <2>3
  <2>5. Works(f)
    <3>1. f.value # <<>>
      BY <1>0
    <3> QED  BY <1>0, <3>1 DEF Works, KeyOps
  <2>6. done' = Ended(f)
    BY <2>2, <2>4, <2>5 DEF Effect, Ended
  <2>7. Rests(Tail(r))'
    BY <1>0, <2>1, <2>2 DEF Rests, Read
  <2> QED  BY <2>1, <2>6, <2>7 DEF ReadsOn
<1> QED  BY <1>1, <1>2

LEMMA ReadsSize ==
  ASSUME Typed, NEW f \in Frames, Fits(f), NEW r, Within(f, r), ReadSize, Byte = Head(r)
  PROVE  r # <<>> /\ ReadsOn(f, Tail(r))
<1>0. /\ pc = "size" /\ op = "zipd" /\ op = f.op /\ matched' = 0 /\ UNCHANGED <<op, done>>
      /\ f.value \in Seq(Nat) /\ Len(f.value) \in Nat /\ Len(f.value) <= BUFFER_SIZE
      /\ BUFFER_SIZE \in Nat /\ r = <<Len(f.value)>> \o f.value
  BY MatchedStays, Bounds, FrameParts, LenProperties
  DEF ReadSize, Typed, TypeOK, Calls, Within, Fits
<1>1. r # <<>> /\ Byte = Len(f.value) /\ Tail(r) = f.value
  BY <1>0, ByteSeq
<1>2. CASE Admitted(Byte)
  <2>1. size' = Len(f.value) /\ Read("zipped")
    BY <1>1, <1>2 DEF ReadSize
  <2>2. pc' = "zipped" /\ got' = <<>> /\ Len(got') = 0 /\ "zipped" \in Reading
    BY <2>1, ReadTyped DEF Reading
  <2>3. Starts(f.value)' /\ From(f.value, 0) = f.value
    BY <1>0, <2>2, FromEnds DEF Starts
  <2>4. Within(f, Tail(r))'
    BY <1>0, <1>1, <2>1, <2>2, <2>3 DEF Within
  <2> QED  BY <1>0, <1>1, <2>4 DEF ReadsOn
<1>3. CASE ~Admitted(Byte)
  <2>1. Read("prefix")
    BY <1>3 DEF ReadSize
  <2>2. f.value = <<>>
    <3>1. Len(f.value) = 0
      BY <1>0, <1>1, <1>3 DEF Admitted
    <3> QED  BY <1>0, <3>1, EmptySeq
  <2>3. ~Works(f)
    BY <1>0, <2>2 DEF Works
  <2>4. Rests(Tail(r))'
    BY <1>0, <1>1, <2>1, <2>2 DEF Rests, Read
  <2> QED  BY <1>0, <1>1, <2>3, <2>4 DEF ReadsOn, Ended
<1> QED  BY <1>2, <1>3

LEMMA ReadsZipped ==
  ASSUME Typed, NEW f \in Frames, NEW r, Within(f, r), handleZippedData, Byte = Head(r)
  PROVE  r # <<>> /\ ReadsOn(f, Tail(r))
<1>0. /\ pc = "zipped" /\ Take /\ op = "zipd" /\ op = f.op /\ matched' = 0
      /\ size = Len(f.value) /\ Len(got) < size /\ Len(got) \in Nat /\ size \in Nat
  BY MatchedStays, FrameParts, LenProperties
  DEF handleZippedData, Typed, TypeOK, Calls, Within
<1>1. /\ r # <<>> /\ Len(Append(got, Byte)) = Len(got) + 1
      /\ Len(got) + 1 = Len(f.value) => Append(got, Byte) = f.value /\ Tail(r) = <<>>
  BY <1>0, ReadsBody
<1>2. CASE Len(got) + 1 < size
  <2>1. Collect(Append(got, Byte))
    BY <1>1, <1>2 DEF handleZippedData
  <2> QED  BY <1>0, <1>2, <2>1, BodyGoesOn
<1>3. CASE ~(Len(got) + 1 < size)
  <2>1. Append(got, Byte) = f.value /\ Tail(r) = <<>>
    BY <1>0, <1>1, <1>3
  <2>2. /\ IF f.value \in Inflates THEN Effect(<<>>, f.value) ELSE UNCHANGED done
        /\ Read("prefix")
    <3>1. ~(Len(Append(got, Byte)) < size)
      BY <1>1, <1>3
    <3> QED  BY <2>1, <3>1 DEF handleZippedData
  <2>3. f = [op |-> f.op, key |-> f.key, value |-> f.value] /\ f.key = <<>>
    BY <1>0, FrameParts DEF KeyOps
  <2>4. [op |-> op, key |-> <<>>, value |-> f.value] = f
    BY <1>0, <2>3
  <2>5. Works(f) <=> f.value \in Inflates
    <3>1. f.value # <<>>
      BY <1>0
    <3> QED  BY <1>0, <3>1 DEF Works, KeyOps
  <2>6. done' = Ended(f)
    BY <2>2, <2>4, <2>5 DEF Effect, Ended
  <2>7. Rests(Tail(r))'
    BY <1>0, <2>1, <2>2 DEF Rests, Read
  <2> QED  BY <1>1, <2>6, <2>7 DEF ReadsOn
<1> QED  BY <1>2, <1>3

-----------------------------------------------------------------------------
(* The frames that were sent, those that are done and what is under way.   *)
Position(n, r, t) ==
  /\ line = r \o t
  /\ Stream(sent, n, t)
  /\ \/ Rests(r) /\ done = Working(sent)[n]
     \/ n > 0 /\ Within(sent[n], r) /\ done = Working(sent)[n - 1]

Underway ==
  ~disturbed =>
    /\ \A n \in 1 .. Len(sent) : Fits(sent[n])
    /\ \E n \in 0 .. Len(sent), r, t \in Seq(Nat) : Position(n, r, t)

Readers == waitFor \/ ReadCommand \/ getUntil \/ handleData \/ ReadSize \/ handleZippedData

LEMMA ReadersTake ==
  ASSUME Readers
  PROVE  Take /\ pc \in Reading
  BY DEF Readers, waitFor, ReadCommand, getUntil, handleData, ReadSize, handleZippedData,
         Reading

LEMMA ReadsFrame ==
  ASSUME KeysGiven, Typed, NEW f \in Frames, Fits(f), NEW r, Within(f, r), Readers,
         Byte = Head(r)
  PROVE  r # <<>> /\ ReadsOn(f, Tail(r))
<1>1. f.op = "kset" => f.key # <<>> /\ Len(f.key) < CONFIG_KEY_LEN - 1
  BY DEF KeysGiven
<1>2. ASSUME getUntil PROVE pc \in {"key", "value"}
  BY <1>2 DEF getUntil
<1>3. OfPanelSize(f)
  BY DEF Fits
<1> QED  BY <1>1, <1>2, <1>3, ReadsPrefix, ReadsCommand, ReadsKey, ReadsValue, ReadsData, ReadsSize,
            ReadsZipped DEF Readers

(* A frame is not over before its last byte. *)
LEMMA WithinGoesOn ==
  ASSUME Typed, NEW f \in Frames, OfPanelSize(f), NEW r, Within(f, r)
  PROVE  r \in Seq(Nat) /\ r # <<>>
<1>0. /\ got \in Seq(Nat) /\ Len(got) \in Nat /\ escaped \in BOOLEAN /\ pc \in Reading
      /\ f.key \in Seq(Nat) /\ f.value \in Seq(Nat) /\ f.op \in Ops
      /\ Arguments(f) \in Seq(Nat) /\ Code[f.op] \o Arguments(f) \in Seq(Nat)
  BY FrameParts, BytesTyped, LenProperties DEF Typed, TypeOK, Within
<1>1. CASE pc = "prefix"
  <2>1. r = From(Prefix, matched) \o (Code[f.op] \o Arguments(f))
    BY <1>1 DEF Within
  <2>2. matched \in Nat /\ matched < Len(Prefix) /\ Prefix \in Seq(Nat)
    BY MatchedStays, PrefixBytes
  <2> QED  BY <1>0, <2>1, <2>2, FromStepThen
<1>2. CASE pc = "command"
  <2>1. r = From(Code[f.op], Len(got)) \o Arguments(f)
    BY <1>2 DEF Within
  <2>2. Code[f.op] \in Seq(Nat) /\ Len(got) < Len(Code[f.op])
    BY <1>0, <1>2, CodeBytes DEF Typed, Calls
  <2> QED  BY <1>0, <2>1, <2>2, FromStepThen
<1>3. CASE pc = "key"
  <2>1. ReadsArgument(f.key) /\ r = Pending(f.key) \o Behind(f)
    BY <1>3 DEF Within, Behind
  <2>2. Pending(f.key) \in Seq(Nat) /\ Pending(f.key) # <<>>
    BY <1>0, <2>1, PendingByte
  <2> QED  BY <2>1, <2>2, BehindTyped, HeadOfConcat
<1>4. CASE pc = "value"
  <2>1. ReadsArgument(f.value) /\ r = Pending(f.value)
    BY <1>4 DEF Within
  <2> QED  BY <1>0, <2>1, PendingByte
<1>5. CASE pc = "picture"
  <2>1. r = From(f.value, Len(got)) /\ op = "data" /\ op = f.op /\ Len(got) < BUFFER_SIZE
    BY <1>5 DEF Within, Typed, Calls
  <2> QED  BY <1>0, <2>1, FromStep DEF OfPanelSize
<1>6. CASE pc = "size"
  <2>1. r = <<Len(f.value)>> \o f.value /\ Len(f.value) \in Nat
    BY <1>0, <1>6, LenProperties DEF Within
  <2> QED  BY <1>0, <2>1, ByteSeq
<1>7. CASE pc = "zipped"
  <2>1. r = From(f.value, Len(got)) /\ Len(got) < Len(f.value)
    BY <1>7 DEF Within, Typed, Calls
  <2> QED  BY <1>0, <2>1, FromStep
<1> QED  BY <1>0, <1>1, <1>2, <1>3, <1>4, <1>5, <1>6, <1>7 DEF Reading

(* A byte of the frame under way. *)
LEMMA FrameGoesOn ==
  ASSUME KeysGiven, Typed, Readers, NEW n \in 1 .. Len(sent), Fits(sent[n]),
         NEW r \in Seq(Nat), NEW t \in Seq(Nat), line = r \o t, Stream(sent, n, t),
         Within(sent[n], r), done = Working(sent)[n - 1]
  PROVE  Tail(r) \in Seq(Nat) /\ Position(n, Tail(r), t)'
<1>0. /\ Take /\ sent \in Seq(Frames) /\ sent[n] \in Frames /\ line' = Tail(line) /\ sent' = sent
  BY ReadersTake, ElementOfSeq DEF Typed, TypeOK, Take, cdc_task
<1>f. PICK f \in Frames : f = sent[n]
  BY <1>0
<1>1. Fits(f) /\ Within(f, r)
  BY <1>f
<1>2. r # <<>>
  BY <1>1, WithinGoesOn DEF Fits
<1>3. Byte = Head(r) /\ line' = Tail(r) \o t /\ Tail(r) \in Seq(Nat)
  BY <1>0, <1>2, HeadOfConcat DEF Byte
<1>4. ReadsOn(f, Tail(r))
  BY <1>1, <1>3, ReadsFrame
<1>5. n > 0 /\ Working(sent)[n] = IF Works(f) THEN Append(Working(sent)[n - 1], f)
                                  ELSE Working(sent)[n - 1]
  BY <1>0, <1>f, WorkingDef
<1>6. CASE Within(f, Tail(r))' /\ done' = done
  <2>1. Within(sent[n], Tail(r))'
    <3>1. sent'[n] = f
      BY <1>0, <1>f
    <3> QED  BY <1>6, <3>1
  <2>2. done' = Working(sent')[n - 1] /\ Stream(sent', n, t)
    BY <1>0, <1>6
  <2> QED  BY <1>3, <1>5, <2>1, <2>2 DEF Position
<1>7. CASE Rests(Tail(r))' /\ done' = Ended(f)
  <2>1. done' = Working(sent)[n]
    BY <1>5, <1>7 DEF Ended
  <2>2. done' = Working(sent')[n] /\ Stream(sent', n, t)
    BY <1>0, <2>1
  <2> QED  BY <1>3, <1>7, <2>2 DEF Position
<1> QED  BY <1>3, <1>4, <1>6, <1>7 DEF ReadsOn

(* At rest with something on the line, the next frame is under way. *)
LEMMA FrameBegins ==
  ASSUME Typed, NEW n \in 0 .. Len(sent), NEW t, line = t, t # <<>>, Stream(sent, n, t),
         pc = "prefix", matched = 0
  PROVE  /\ n + 1 \in 1 .. Len(sent)
         /\ \E u \in Seq(Nat) : /\ line = Bytes(sent[n + 1]) \o u
                                /\ Bytes(sent[n + 1]) \in Seq(Nat)
                                /\ Stream(sent, n + 1, u)
                                /\ Within(sent[n + 1], Bytes(sent[n + 1]))
<1>0. sent \in Seq(Frames)
  BY DEF Typed, TypeOK
<1>1. /\ n + 1 \in 1 .. Len(sent)
      /\ \E u \in Seq(Nat) : t = Bytes(sent[n + 1]) \o u /\ Stream(sent, n + 1, u)
  BY <1>0, StreamNext
<1> DEFINE f == sent[n + 1]
<1>2. f \in Frames /\ Bytes(f) \in Seq(Nat)
  BY <1>0, <1>1, ElementOfSeq, BytesTyped
<1>3. From(Prefix, matched) = Prefix
  BY PrefixBytes, FromEnds
<1>4. Within(f, Bytes(f))
  <2> HIDE DEF f
  <2> QED  BY <1>3 DEF Within, Bytes, Reading
<1> QED  BY <1>1, <1>2, <1>4

(* The separator a full buffer has left is not the first of a prefix. *)
LEMMA SeparatorIsNothing ==
  ASSUME Typed, waitFor, matched = 0, Byte = Separator
  PROVE  matched' = 0 /\ UNCHANGED <<pc, done>>
<1>1. Byte # Prefix[matched + 1]
  BY PrefixBytes
<1> QED  BY <1>1 DEF waitFor, Keep

LEMMA ReadersUnderway ==
  ASSUME KeysGiven, Typed, Underway, Readers
  PROVE  Underway'
<1> SUFFICES ASSUME ~disturbed'
             PROVE  /\ \A n \in 1 .. Len(sent') : Fits(sent'[n])
                    /\ \E n \in 0 .. Len(sent'), r, t \in Seq(Nat) : Position(n, r, t)'
  BY DEF Underway
<1>0. /\ Take /\ line # <<>> /\ line' = Tail(line) /\ sent' = sent /\ ~disturbed
      /\ pc \in Reading /\ sent \in Seq(Frames) /\ Len(sent) \in Nat
  BY ReadersTake, LenProperties DEF Take, cdc_task, Typed, TypeOK
<1>1. \A n \in 1 .. Len(sent) : Fits(sent[n])
  BY <1>0 DEF Underway
<1>2. PICK n \in 0 .. Len(sent), r \in Seq(Nat), t \in Seq(Nat) : Position(n, r, t)
  BY <1>0 DEF Underway
<1>3. CASE n > 0 /\ Within(sent[n], r) /\ done = Working(sent)[n - 1]
  <2>1. n \in 1 .. Len(sent) /\ Fits(sent[n])
    BY <1>1, <1>3
  <2>2. Tail(r) \in Seq(Nat) /\ Position(n, Tail(r), t)'
    BY <1>2, <1>3, <2>1, FrameGoesOn DEF Position
  <2> QED  BY <1>0, <1>1, <1>2, <2>2
<1>4. CASE Rests(r) /\ done = Working(sent)[n]
  <2>1. pc = "prefix" /\ matched = 0 /\ r \in {<<>>, <<Separator>>}
    BY <1>0, <1>4 DEF Rests, Reading
  <2>2. CASE r = <<>>
    <3>1. line = t /\ t # <<>> /\ Stream(sent, n, t)
      BY <1>0, <1>2, <2>2, ConcatEmptySeq DEF Position
    <3> DEFINE k == n + 1
    <3>2. /\ k \in 1 .. Len(sent)
          /\ \E s, u \in Seq(Nat) : line = s \o u /\ Stream(sent, k, u) /\ Within(sent[k], s)
      BY <2>1, <3>1, FrameBegins
    <3>3. PICK s \in Seq(Nat), u \in Seq(Nat) :
            line = s \o u /\ Stream(sent, k, u) /\ Within(sent[k], s)
      BY <3>2
    <3>4. k - 1 = n /\ k \in 0 .. Len(sent) /\ Fits(sent[k])
      BY <1>0, <1>1, <3>2, SMTT(30)
    <3> HIDE DEF k
    <3>5. Tail(s) \in Seq(Nat) /\ Position(k, Tail(s), u)'
      <4>1. done = Working(sent)[k - 1]
        BY <1>4, <3>4
      <4> QED  BY <3>2, <3>3, <3>4, <4>1, FrameGoesOn
    <3>7. k \in 0 .. Len(sent') /\ \A i \in 1 .. Len(sent') : Fits(sent'[i])
      BY <1>0, <1>1, <3>4
    <3> QED  BY <3>3, <3>5, <3>7
  <2>3. CASE r = <<Separator>>
    <3>1. Byte = Separator /\ line' = t
      BY <1>0, <1>2, <2>3, Bounds, ByteSeq DEF Position, Byte
    <3>2. waitFor
      BY <2>1 DEF Readers, waitFor, ReadCommand, getUntil, handleData, ReadSize,
                  handleZippedData
    <3>3. matched' = 0 /\ pc' = "prefix" /\ done' = done
      BY <2>1, <3>1, <3>2, SeparatorIsNothing
    <3>4. <<>> \in Seq(Nat) /\ <<>> \o t = t
      BY EmptySeq, ConcatEmptySeq
    <3>5. Position(n, <<>>, t)'
      <4>1. Rests(<<>>)'
        BY <3>3 DEF Rests
      <4>2. line' = <<>> \o t /\ Stream(sent', n, t) /\ done' = Working(sent')[n]
        BY <1>0, <1>2, <1>4, <3>1, <3>3, <3>4 DEF Position
      <4> QED  BY <4>1, <4>2 DEF Position
    <3> QED  BY <1>0, <1>1, <3>4, <3>5
  <2> QED  BY <2>1, <2>2, <2>3
<1> QED  BY <1>2, <1>3, <1>4 DEF Position

LEMMA NothingSent ==
  /\ <<>> \in Seq(Frames) /\ Len(<<>>) = 0 /\ <<>> \in Seq(Nat)
  /\ <<>> \o <<>> = <<>>
  /\ Stream(<<>>, 0, <<>>) /\ Working(<<>>)[0] = <<>>
<1>1. <<>> \in Seq(Frames) /\ Len(<<>>) = 0 /\ <<>> \in Seq(Nat)
  BY EmptySeq
<1>2. <<>> \o <<>> = <<>>
  BY <1>1, ConcatEmptySeq
<1> QED  BY <1>1, <1>2, StreamEnd, WorkingDef

LEMMA UnderwayInit == Init => Underway
<1> SUFFICES ASSUME Init PROVE Underway
  OBVIOUS
<1>1. /\ line = <<>> /\ pc = "prefix" /\ matched = 0 /\ sent = <<>> /\ done = <<>>
  BY DEF Init
<1>2. Position(0, <<>>, <<>>)
  BY <1>1, NothingSent DEF Position, Rests
<1>3. /\ \A n \in 1 .. Len(sent) : Fits(sent[n])
      /\ 0 \in 0 .. Len(sent)
  BY <1>1, NothingSent
<1> QED  BY <1>2, <1>3, NothingSent DEF Underway

LEMMA BootUnderway == ASSUME Boot PROVE Underway'
<1>1. /\ line' = <<>> /\ pc' = "prefix" /\ matched' = 0 /\ sent' = <<>> /\ done' = <<>>
  BY DEF Boot, Read
<1>2. Position(0, <<>>, <<>>)'
  BY <1>1, NothingSent DEF Position, Rests
<1>3. /\ \A n \in 1 .. Len(sent') : Fits(sent'[n])
      /\ 0 \in 0 .. Len(sent')
  BY <1>1, NothingSent
<1> QED  BY <1>2, <1>3, NothingSent DEF Underway

LEMMA SendUnderway ==
  ASSUME Typed, Underway, NEW f \in Frames, Send(f)
  PROVE  Underway'
<1> SUFFICES ASSUME ~disturbed'
             PROVE  /\ \A n \in 1 .. Len(sent') : Fits(sent'[n])
                    /\ \E n \in 0 .. Len(sent'), r, t \in Seq(Nat) : Position(n, r, t)'
  BY DEF Underway
<1>0. /\ sent \in Seq(Frames) /\ Len(sent) \in Nat /\ Bytes(f) \in Seq(Nat)
      /\ line' = line \o Bytes(f)
      /\ UNCHANGED <<pc, matched, got, escaped, op, key, size>>
  BY BytesTyped, LenProperties DEF Send, Typed, TypeOK
<1>1. CASE AtRest
  <2>1. sent' = <<f>> /\ done' = <<>> /\ Fits(f) /\ pc' = "prefix" /\ matched' = 0
    BY <1>0, <1>1 DEF Send, AtRest
  <2>2. line' = <<>> \o Bytes(f)
    BY <1>0, <1>1 DEF AtRest
  <2>3. <<f>> = Append(<<>>, f) /\ Len(<<f>>) = 1 /\ <<f>>[1] = f /\ <<f>> \in Seq(Frames)
    OBVIOUS
  <2>4. Stream(<<f>>, 0, <<>> \o Bytes(f))
    <3>1. 0 \in 0 .. Len(<<>>) /\ Stream(<<>>, 0, <<>>) /\ <<>> \in Seq(Frames)
      BY NothingSent
    <3>2. Stream(Append(<<>>, f), 0, <<>> \o Bytes(f))
      BY <3>1, StreamSend
    <3> QED  BY <2>3, <3>2
  <2>5. <<>> \o Bytes(f) = Bytes(f) /\ <<>> \in Seq(Nat) /\ <<>> \o Bytes(f) \in Seq(Nat)
    BY <1>0, ConcatEmptySeq, EmptySeq
  <2>6. Position(0, <<>>, Bytes(f))'
    <3>1. Rests(<<>>)'
      BY <2>1 DEF Rests
    <3>2. Working(<<f>>)[0] = <<>>
      BY <2>3, WorkingDef
    <3> QED  BY <2>1, <2>2, <2>4, <2>5, <3>1, <3>2 DEF Position
  <2>7. \A n \in 1 .. Len(sent') : Fits(sent'[n])
    <3>1. \A n \in 1 .. 1 : <<f>>[n] = f
      OBVIOUS
    <3> QED  BY <2>1, <2>3, <3>1
  <2>8. 0 \in 0 .. Len(sent')
    BY <2>1, <2>3
  <2> QED  BY <1>0, <2>5, <2>6, <2>7, <2>8
<1>2. CASE ~AtRest
  <2>1. sent' = Append(sent, f) /\ done' = done /\ ~disturbed /\ Fits(f)
    BY <1>2 DEF Send
  <2>2. PICK n \in 0 .. Len(sent), r \in Seq(Nat), t \in Seq(Nat) : Position(n, r, t)
    BY <2>1 DEF Underway
  <2>3. /\ Len(sent') = Len(sent) + 1 /\ sent'[Len(sent) + 1] = f
        /\ \A k \in 1 .. Len(sent) : sent'[k] = sent[k]
    BY <1>0, <2>1, AppendProperties
  <2>4. \A k \in 1 .. Len(sent') : Fits(sent'[k])
    <3> SUFFICES ASSUME NEW k \in 1 .. Len(sent') PROVE Fits(sent'[k])
      OBVIOUS
    <3>1. k \in 1 .. Len(sent) \/ k = Len(sent) + 1
      BY <1>0, <2>3
    <3>2. \A i \in 1 .. Len(sent) : Fits(sent[i])
      BY <2>1 DEF Underway
    <3> QED  BY <2>1, <2>3, <3>1, <3>2
  <2>5. /\ line' = r \o (t \o Bytes(f)) /\ t \o Bytes(f) \in Seq(Nat)
        /\ Stream(sent', n, t \o Bytes(f)) /\ n \in 0 .. Len(sent')
    <3>1. line = r \o t /\ Stream(sent, n, t)
      BY <2>2 DEF Position
    <3>2. Stream(sent', n, t \o Bytes(f))
      BY <1>0, <2>1, <3>1, StreamSend
    <3>3. (r \o t) \o Bytes(f) = r \o (t \o Bytes(f)) /\ t \o Bytes(f) \in Seq(Nat)
      BY <1>0, Grouped
    <3> QED  BY <1>0, <2>3, <3>1, <3>2, <3>3
  <2>6. CASE Rests(r) /\ done = Working(sent)[n]
    <3>1. Rests(r)'
      BY <1>0, <2>6 DEF Rests
    <3>2. done' = Working(sent')[n]
      BY <1>0, <2>1, <2>6, WorkingStays
    <3>3. Position(n, r, t \o Bytes(f))'
      BY <2>5, <3>1, <3>2 DEF Position
    <3> QED  BY <2>4, <2>5, <3>3
  <2>7. CASE n > 0 /\ Within(sent[n], r) /\ done = Working(sent)[n - 1]
    <3>0. n \in 1 .. Len(sent) /\ n - 1 \in 0 .. Len(sent)
      BY <1>0, <2>7
    <3>f. PICK g : g = sent[n]
      OBVIOUS
    <3>1. Within(g, r) /\ sent'[n] = g
      BY <2>3, <2>7, <3>0, <3>f
    <3>2. Within(g, r)'
      BY <1>0, <3>1 DEF Within, ReadsArgument, Starts, Pending, NextByte, Later
    <3>3. done' = Working(sent')[n - 1]
      BY <1>0, <2>1, <2>7, <3>0, WorkingStays
    <3>4. Within(sent[n], r)'
      BY <3>1, <3>2
    <3>5. Position(n, r, t \o Bytes(f))'
      BY <2>5, <2>7, <3>3, <3>4 DEF Position
    <3> QED  BY <2>4, <2>5, <3>5
  <2> QED  BY <2>2, <2>6, <2>7 DEF Position
<1> QED  BY <1>1, <1>2

LEMMA UnderwayStep ==
  ASSUME KeysGiven, Typed, Underway, [Next]_vars
  PROVE  Underway'
<1>1. CASE Readers
  BY <1>1, ReadersUnderway
<1>2. ASSUME NEW f \in Frames, Send(f) PROVE Underway'
  BY <1>2, SendUnderway
<1>3. CASE Boot
  BY <1>3, BootUnderway
<1>4. CASE Timeout \/ Stop \/ OutOfMemory
  BY <1>4 DEF Timeout, Stop, OutOfMemory, Underway
<1>5. CASE UNCHANGED vars
  <2>1. /\ disturbed' = disturbed /\ sent' = sent /\ line' = line /\ done' = done
        /\ UNCHANGED <<pc, matched, got, escaped, op, key, size>>
    BY <1>5 DEF vars
  <2> SUFFICES ASSUME ~disturbed'
               PROVE  /\ \A n \in 1 .. Len(sent') : Fits(sent'[n])
                      /\ \E n \in 0 .. Len(sent'), r, t \in Seq(Nat) : Position(n, r, t)'
    BY DEF Underway
  <2>2. PICK n \in 0 .. Len(sent), r \in Seq(Nat), t \in Seq(Nat) : Position(n, r, t)
    BY <2>1 DEF Underway
  <2>3. Position(n, r, t)'
    BY <2>1, <2>2 DEF Position, Rests, Within, ReadsArgument, Starts, Pending, NextByte, Later
  <2>4. \A i \in 1 .. Len(sent) : Fits(sent[i])
    BY <2>1 DEF Underway
  <2> QED  BY <2>1, <2>2, <2>3, <2>4
<1> QED  BY <1>1, <1>2, <1>3, <1>4, <1>5 DEF Next, Device, Host, Readers

LEMMA UnderwayAlways ==
  ASSUME KeysGiven
  PROVE  Spec => [](Typed /\ Underway)
<1>1. Init => Typed /\ Underway
  BY TypedInit, UnderwayInit
<1>2. Typed /\ Underway /\ [Next]_vars => (Typed /\ Underway)'
  BY TypedStep, UnderwayStep
<1> QED  BY <1>1, <1>2, PTL DEF Spec

LEMMA InOrder ==
  ASSUME Typed, Underway
  PROVE  DoneInOrder
<1> SUFFICES ASSUME ~disturbed PROVE IsPrefix(done, Working(sent)[Len(sent)])
  BY DEF DoneInOrder, Due
<1>0. sent \in Seq(Frames) /\ Len(sent) \in Nat
  BY LenProperties DEF Typed, TypeOK
<1>1. PICK n \in 0 .. Len(sent), r \in Seq(Nat), t \in Seq(Nat) : Position(n, r, t)
  BY DEF Underway
<1>2. \E k \in 0 .. Len(sent) : done = Working(sent)[k]
  <2>1. n > 0 => n - 1 \in 0 .. Len(sent)
    BY <1>0
  <2> QED  BY <1>1, <2>1 DEF Position
<1> QED  BY <1>0, <1>2, WorkingGrows

LEMMA NothingMissing ==
  ASSUME Typed, Underway
  PROVE  DoneWhenAtRest
<1> SUFFICES ASSUME AtRest, ~disturbed PROVE done = Working(sent)[Len(sent)]
  BY DEF DoneWhenAtRest, Due
<1>0. sent \in Seq(Frames) /\ Len(sent) \in Nat /\ line = <<>>
  BY LenProperties DEF Typed, TypeOK, AtRest
<1>1. PICK n \in 0 .. Len(sent), r \in Seq(Nat), t \in Seq(Nat) : Position(n, r, t)
  BY DEF Underway
<1>2. r = <<>>
  <2> SUFFICES ASSUME r # <<>> PROVE FALSE
    OBVIOUS
  <2> QED  BY <1>0, <1>1, HeadOfConcat DEF Position
<1>3. t = <<>>
  BY <1>0, <1>1, <1>2, ConcatEmptySeq DEF Position
<1>4. n = Len(sent)
  BY <1>0, <1>1, <1>3, StreamOver DEF Position
<1>5. ~(n > 0 /\ Within(sent[n], r))
  <2> SUFFICES ASSUME n > 0, Within(sent[n], r) PROVE FALSE
    OBVIOUS
  <2>1. n \in 1 .. Len(sent)
    BY <1>0
  <2>2. sent[n] \in Frames /\ Fits(sent[n])
    BY <1>0, <2>1, ElementOfSeq DEF Underway
  <2> QED  BY <1>2, <2>2, WithinGoesOn DEF Fits
<1> QED  BY <1>1, <1>4, <1>5 DEF Position

(* Undisturbed, the device does what the frames say, in the order they     *)
(* were written: waitFor, getBytes and getUntil take from the line just    *)
(* what the host wrote for each, however its key and value are escaped.    *)
THEOREM InOrderAlways ==
  ASSUME KeysGiven
  PROVE  Spec => []DoneInOrder
<1>1. Typed /\ Underway => DoneInOrder
  BY InOrder
<1> QED  BY <1>1, UnderwayAlways, PTL

(* When the loop waits for a prefix and the line is empty, every frame     *)
(* sent since the last rest has had its effect.                            *)
THEOREM NothingMissingAtRest ==
  ASSUME KeysGiven
  PROVE  Spec => []DoneWhenAtRest
<1>1. Typed /\ Underway => DoneWhenAtRest
  BY NothingMissing
<1> QED  BY <1>1, UnderwayAlways, PTL

-----------------------------------------------------------------------------
(* The same line after timeouts and stops: of each frame at most its       *)
(* beginning was written, and the device may be anywhere in what it reads. *)

(* p is what comes in s after its first j bytes, up to where it was cut.   *)
Piece(p, s, j) == j + Len(p) <= Len(s) /\ \A k \in 1 .. Len(p) : p[k] = s[j + k]

Pieces(s, n, t) ==
  \E rest \in [n .. Len(s) -> Seq(Nat)] :
    /\ rest[n] = t /\ rest[Len(s)] = <<>>
    /\ \A i \in n + 1 .. Len(s) :
         \E p \in Seq(Nat) : Piece(p, Bytes(s[i]), 0) /\ rest[i - 1] = p \o rest[i]

LEMMA NoPiece ==
  ASSUME NEW s \in Seq(Nat)
  PROVE  Piece(<<>>, s, 0)
<1>1. Len(s) \in Nat /\ Len(<<>>) = 0
  BY LenProperties
<1> QED  BY <1>1 DEF Piece

LEMMA WholePiece ==
  ASSUME NEW s \in Seq(Nat)
  PROVE  Piece(s, s, 0)
<1>1. Len(s) \in Nat
  BY LenProperties
<1> QED  BY <1>1 DEF Piece

LEMMA PieceCut ==
  ASSUME NEW s \in Seq(Nat), NEW j \in Nat, NEW p \in Seq(Nat), Piece(p, s, j),
         NEW q \in 0 .. Len(p)
  PROVE  SubSeq(p, 1, q) \in Seq(Nat) /\ Piece(SubSeq(p, 1, q), s, j)
<1>1. Len(s) \in Nat /\ Len(p) \in Nat /\ \A k \in 1 .. q : p[k] \in Nat
  BY LenProperties, ElementOfSeq
<1>2. /\ SubSeq(p, 1, q) \in Seq(Nat) /\ Len(SubSeq(p, 1, q)) = q
      /\ \A k \in 1 .. q : SubSeq(p, 1, q)[k] = p[k]
  BY <1>1, SubSeqProperties
<1> QED  BY <1>1, <1>2 DEF Piece

LEMMA PieceNext ==
  ASSUME NEW s \in Seq(Nat), NEW j \in Nat, NEW p \in Seq(Nat), Piece(p, s, j), p # <<>>
  PROVE  /\ Tail(p) \in Seq(Nat) /\ Piece(Tail(p), s, j + 1)
         /\ j + 1 \in 1 .. Len(s) /\ Head(p) = s[j + 1]
<1>1. /\ Len(s) \in Nat /\ Len(p) \in Nat /\ Len(p) > 0 /\ Head(p) = p[1]
      /\ Tail(p) \in Seq(Nat) /\ Len(Tail(p)) = Len(p) - 1
      /\ \A k \in 1 .. Len(p) - 1 : Tail(p)[k] = p[k + 1]
  BY LenProperties, EmptySeq, HeadTailProperties
<1>2. ASSUME NEW k \in 1 .. Len(Tail(p)) PROVE Tail(p)[k] = s[j + 1 + k]
  <2>1. k + 1 \in 1 .. Len(p) /\ j + (k + 1) = j + 1 + k /\ Tail(p)[k] = p[k + 1]
    BY <1>1
  <2>2. p[k + 1] = s[j + (k + 1)]
    BY <2>1 DEF Piece
  <2> QED  BY <2>1, <2>2
<1> QED  BY <1>1, <1>2 DEF Piece

LEMMA PiecesEnd ==
  ASSUME NEW s \in Seq(Frames), NEW t, Pieces(s, Len(s), t)
  PROVE  t = <<>>
  BY DEF Pieces

LEMMA NoPieces ==
  ASSUME NEW s \in Seq(Frames), NEW n \in 0 .. Len(s)
  PROVE  Pieces(s, n, <<>>)
<1> DEFINE rest == [i \in n .. Len(s) |-> <<>>]
<1>1. Len(s) \in Nat /\ <<>> \in Seq(Nat) /\ <<>> \o <<>> = <<>>
  BY LenProperties, EmptySeq, ConcatEmptySeq
<1>2. rest \in [n .. Len(s) -> Seq(Nat)] /\ rest[n] = <<>> /\ rest[Len(s)] = <<>>
  BY <1>1
<1>3. ASSUME NEW i \in n + 1 .. Len(s)
      PROVE  Piece(<<>>, Bytes(s[i]), 0) /\ rest[i - 1] = <<>> \o rest[i]
  <2>1. i \in 1 .. Len(s) /\ i \in n .. Len(s) /\ i - 1 \in n .. Len(s)
    BY <1>1
  <2>2. Bytes(s[i]) \in Seq(Nat)
    BY <2>1, ElementOfSeq, BytesTyped
  <2>3. rest[i - 1] = <<>> /\ rest[i] = <<>>
    BY <2>1
  <2> HIDE DEF rest
  <2> QED  BY <1>1, <2>2, <2>3, NoPiece
<1> HIDE DEF rest
<1> QED  BY <1>1, <1>2, <1>3 DEF Pieces

LEMMA PiecesNext ==
  ASSUME NEW s \in Seq(Frames), NEW n \in 0 .. Len(s), n # Len(s), NEW t, Pieces(s, n, t)
  PROVE  /\ n + 1 \in 1 .. Len(s)
         /\ \E p, u \in Seq(Nat) :
              Piece(p, Bytes(s[n + 1]), 0) /\ t = p \o u /\ Pieces(s, n + 1, u)
<1>1. PICK rest \in [n .. Len(s) -> Seq(Nat)] :
        /\ rest[n] = t /\ rest[Len(s)] = <<>>
        /\ \A i \in n + 1 .. Len(s) :
             \E p \in Seq(Nat) : Piece(p, Bytes(s[i]), 0) /\ rest[i - 1] = p \o rest[i]
  BY DEF Pieces
<1>2. Len(s) \in Nat /\ n \in Nat
  BY LenProperties
<1> DEFINE k == n + 1
<1>3. /\ k \in n + 1 .. Len(s) /\ k - 1 = n /\ k \in n .. Len(s) /\ k \in 1 .. Len(s)
      /\ k \in Nat /\ n + 1 = k
  BY <1>2
<1> HIDE DEF k
<1>4. PICK p \in Seq(Nat) : Piece(p, Bytes(s[k]), 0) /\ t = p \o rest[k]
  BY <1>1, <1>3
<1>5. rest[k] \in Seq(Nat)
  BY <1>1, <1>3
<1> DEFINE after == [i \in k .. Len(s) |-> rest[i]]
<1>6. after \in [k .. Len(s) -> Seq(Nat)] /\ after[k] = rest[k] /\ after[Len(s)] = <<>>
  BY <1>1, <1>2, <1>3
<1>7. ASSUME NEW i \in k + 1 .. Len(s)
      PROVE  \E x \in Seq(Nat) : Piece(x, Bytes(s[i]), 0) /\ after[i - 1] = x \o after[i]
  <2>1. i \in n + 1 .. Len(s) /\ i - 1 \in k .. Len(s) /\ i \in k .. Len(s)
    BY <1>2, <1>3
  <2>2. after[i - 1] = rest[i - 1] /\ after[i] = rest[i]
    BY <2>1
  <2> HIDE DEF after
  <2> QED  BY <1>1, <2>1, <2>2
<1> HIDE DEF after
<1>8. Pieces(s, k, rest[k])
  BY <1>6, <1>7 DEF Pieces
<1> QED  BY <1>3, <1>4, <1>5, <1>8

LEMMA PiecesBefore ==
  ASSUME NEW s \in Seq(Frames), NEW n \in 0 .. Len(s), n # Len(s),
         NEW p \in Seq(Nat), NEW u \in Seq(Nat),
         Piece(p, Bytes(s[n + 1]), 0), Pieces(s, n + 1, u)
  PROVE  Pieces(s, n, p \o u)
<1> DEFINE k == n + 1
<1>2. Len(s) \in Nat /\ n \in Nat /\ k \in Nat /\ k = n + 1 /\ k <= Len(s)
      /\ p \o u \in Seq(Nat) /\ Piece(p, Bytes(s[k]), 0) /\ Pieces(s, k, u)
  BY LenProperties, ConcatProperties
<1> HIDE DEF k
<1>1. PICK rest \in [k .. Len(s) -> Seq(Nat)] :
        /\ rest[k] = u /\ rest[Len(s)] = <<>>
        /\ \A i \in k + 1 .. Len(s) :
             \E x \in Seq(Nat) : Piece(x, Bytes(s[i]), 0) /\ rest[i - 1] = x \o rest[i]
  BY <1>2 DEF Pieces
<1> DEFINE after == [i \in n .. Len(s) |-> IF i = n THEN p \o u ELSE rest[i]]
<1>3. after \in [n .. Len(s) -> Seq(Nat)] /\ after[n] = p \o u /\ after[Len(s)] = <<>>
  <2>1. ASSUME NEW i \in n .. Len(s)
        PROVE  (IF i = n THEN p \o u ELSE rest[i]) \in Seq(Nat)
    <3>1. CASE i = n
      BY <1>2, <3>1
    <3>2. CASE i # n
      <4>1. i \in k .. Len(s)
        BY <1>2, <3>2
      <4> QED  BY <1>1, <3>2, <4>1
    <3> QED  BY <3>1, <3>2
  <2> QED  BY <1>1, <1>2, <2>1
<1>4. ASSUME NEW i \in n + 1 .. Len(s)
      PROVE  \E x \in Seq(Nat) : Piece(x, Bytes(s[i]), 0) /\ after[i - 1] = x \o after[i]
  <2>1. i \in n .. Len(s) /\ i # n /\ i - 1 \in n .. Len(s)
    BY <1>2
  <2>2. after[i] = rest[i]
    BY <2>1
  <2>3. CASE i = k
    <3>1. i - 1 = n
      BY <1>2, <2>3
    <3>2. after[i - 1] = p \o after[i]
      <4>1. rest[i] = u
        BY <1>1, <2>3
      <4>2. after[i - 1] = p \o u
        BY <1>3, <3>1
      <4> HIDE DEF after
      <4> QED  BY <2>2, <4>1, <4>2
    <3> HIDE DEF after
    <3> QED  BY <1>2, <2>3, <3>2
  <2>4. CASE i # k
    <3>1. i \in k + 1 .. Len(s) /\ i - 1 # n
      BY <1>2, <2>4
    <3>2. after[i - 1] = rest[i - 1]
      BY <2>1, <3>1
    <3> HIDE DEF after
    <3> QED  BY <1>1, <2>2, <3>1, <3>2
  <2> QED  BY <2>3, <2>4
<1> HIDE DEF after
<1> QED  BY <1>3, <1>4 DEF Pieces

(* What is cut off leaves pieces. *)
LEMMA CutConcat ==
  ASSUME NEW a \in Seq(Nat), NEW b \in Seq(Nat), NEW q \in 0 .. Len(a \o b)
  PROVE  /\ q <= Len(a) => SubSeq(a \o b, 1, q) = SubSeq(a, 1, q)
         /\ q > Len(a) => /\ q - Len(a) \in 0 .. Len(b)
                          /\ SubSeq(a \o b, 1, q) = a \o SubSeq(b, 1, q - Len(a))
<1> DEFINE c == a \o b
           cut == SubSeq(c, 1, q)
<1>1. /\ c \in Seq(Nat) /\ Len(c) = Len(a) + Len(b) /\ Len(a) \in Nat /\ Len(b) \in Nat
      /\ \A i \in 1 .. Len(a) + Len(b) : c[i] = IF i <= Len(a) THEN a[i] ELSE b[i - Len(a)]
  BY ConcatProperties, LenProperties
<1>0. q \in 0 .. Len(c)
  OBVIOUS
<1> HIDE DEF c
<1>2. /\ cut \in Seq(Nat) /\ Len(cut) = q /\ \A i \in 1 .. q : cut[i] = c[i]
  <2>1. \A i \in 1 .. q : c[i] \in Nat
    BY <1>0, <1>1, ElementOfSeq
  <2> QED  BY <1>0, <1>1, <2>1, SubSeqProperties
<1> HIDE DEF cut
<1>3. ASSUME q <= Len(a) PROVE cut = SubSeq(a, 1, q)
  <2> DEFINE d == SubSeq(a, 1, q)
  <2>1. d \in Seq(Nat) /\ Len(d) = q /\ \A i \in 1 .. q : d[i] = a[i]
    <3>1. \A i \in 1 .. q : a[i] \in Nat
      BY <1>0, <1>1, <1>3, ElementOfSeq, SMTT(30)
    <3> QED  BY <1>0, <1>1, <3>1, SubSeqProperties
  <2>2. \A i \in 1 .. q : cut[i] = a[i]
    BY <1>0, <1>1, <1>2, <1>3, SMTT(30)
  <2> HIDE DEF d
  <2>3. cut = d
    BY <1>2, <2>1, <2>2, SeqEqual
  <2> QED  BY <2>3 DEF d
<1>4. ASSUME q > Len(a)
      PROVE  q - Len(a) \in 0 .. Len(b) /\ cut = a \o SubSeq(b, 1, q - Len(a))
  <2> DEFINE k == q - Len(a)
             d == SubSeq(b, 1, k)
             e == a \o d
  <2>0. k \in 0 .. Len(b) /\ k = q - Len(a)
    BY <1>0, <1>1, <1>4
  <2> HIDE DEF k
  <2>1. d \in Seq(Nat) /\ Len(d) = k /\ \A i \in 1 .. k : d[i] = b[i]
    <3>1. \A i \in 1 .. k : b[i] \in Nat
      <4>1. \A i \in 1 .. k : i \in 1 .. Len(b)
        BY <1>1, <2>0
      <4> QED  BY <4>1, ElementOfSeq
    <3> QED  BY <1>1, <2>0, <3>1, SubSeqProperties
  <2> HIDE DEF d
  <2>2. /\ e \in Seq(Nat) /\ Len(e) = Len(a) + Len(d)
        /\ \A i \in 1 .. Len(a) + Len(d) : e[i] = IF i <= Len(a) THEN a[i] ELSE d[i - Len(a)]
    BY <2>1, ConcatProperties
  <2> HIDE DEF e
  <2>3. Len(e) = q
    BY <1>0, <1>1, <2>0, <2>1, <2>2
  <2>4. ASSUME NEW i \in 1 .. q PROVE cut[i] = e[i]
    <3>0. i \in 1 .. Len(a) + Len(d) /\ i \in 1 .. Len(a) + Len(b)
      BY <1>0, <1>1, <2>0, <2>1
    <3>1. cut[i] = IF i <= Len(a) THEN a[i] ELSE b[i - Len(a)]
      BY <1>1, <1>2, <3>0
    <3>2. CASE i <= Len(a)
      BY <2>2, <3>0, <3>1, <3>2
    <3>3. CASE ~(i <= Len(a))
      <4>1. i - Len(a) \in 1 .. k
        BY <1>0, <1>1, <2>0, <3>3
      <4> QED  BY <2>1, <2>2, <3>0, <3>1, <3>3, <4>1
    <3> QED  BY <3>2, <3>3
  <2>5. cut = e
    BY <1>2, <2>2, <2>3, <2>4, SeqEqual
  <2> QED  BY <2>0, <2>5 DEF e, d, k
<1> QED  BY <1>3, <1>4 DEF cut, c

LEMMA PiecesCut ==
  ASSUME NEW s \in Seq(Frames), NEW n \in 0 .. Len(s), NEW t \in Seq(Nat), Pieces(s, n, t),
         NEW q \in 0 .. Len(t)
  PROVE  SubSeq(t, 1, q) \in Seq(Nat) /\ Pieces(s, n, SubSeq(t, 1, q))
<1> DEFINE L == Len(s)
           Goal(m, x) == \A c \in 0 .. Len(x) :
                           SubSeq(x, 1, c) \in Seq(Nat) /\ Pieces(s, m, SubSeq(x, 1, c))
           A == {k \in Nat : \A m \in 0 .. L, x \in Seq(Nat) :
                               m + k = L /\ Pieces(s, m, x) => Goal(m, x)}
<1>0. L \in Nat
  BY LenProperties
<1>1. 0 \in A
  <2> SUFFICES ASSUME NEW m \in 0 .. L, NEW x \in Seq(Nat), m + 0 = L, Pieces(s, m, x),
                      NEW c \in 0 .. Len(x)
               PROVE  SubSeq(x, 1, c) \in Seq(Nat) /\ Pieces(s, m, SubSeq(x, 1, c))
    OBVIOUS
  <2>1. m = L
    BY <1>0
  <2>2. x = <<>>
    BY <2>1, PiecesEnd
  <2>3. c = 0
    BY <2>2
  <2>4. SubSeq(x, 1, c) = <<>>
    BY <2>3, SubSeqEmpty
  <2> QED  BY <2>4, NoPieces, EmptySeq
<1>2. ASSUME NEW k \in Nat, k \in A PROVE k + 1 \in A
  <2> SUFFICES ASSUME NEW m \in 0 .. L, NEW x \in Seq(Nat), m + (k + 1) = L, Pieces(s, m, x),
                      NEW c \in 0 .. Len(x)
               PROVE  SubSeq(x, 1, c) \in Seq(Nat) /\ Pieces(s, m, SubSeq(x, 1, c))
    OBVIOUS
  <2>1. m # L /\ m + 1 \in 0 .. L /\ m + 1 + k = L
    BY <1>0
  <2>2. /\ m + 1 \in 1 .. L
        /\ \E p, u \in Seq(Nat) :
             Piece(p, Bytes(s[m + 1]), 0) /\ x = p \o u /\ Pieces(s, m + 1, u)
    BY <2>1, PiecesNext
  <2>3. PICK p \in Seq(Nat), u \in Seq(Nat) :
          Piece(p, Bytes(s[m + 1]), 0) /\ x = p \o u /\ Pieces(s, m + 1, u)
    BY <2>2
  <2>4. Bytes(s[m + 1]) \in Seq(Nat) /\ Len(p) \in Nat /\ Len(p) \in 0 .. Len(p) /\ c \in Nat
    BY <2>2, ElementOfSeq, BytesTyped, LenProperties
  <2>5. CASE c <= Len(p)
    <3>1. SubSeq(x, 1, c) = SubSeq(p, 1, c) /\ c \in 0 .. Len(p)
      BY <2>3, <2>4, <2>5, CutConcat
    <3>2. SubSeq(p, 1, c) \in Seq(Nat) /\ Piece(SubSeq(p, 1, c), Bytes(s[m + 1]), 0)
      BY <2>3, <2>4, <3>1, PieceCut
    <3>3. Pieces(s, m + 1, <<>>) /\ <<>> \in Seq(Nat)
      BY <2>1, NoPieces, EmptySeq
    <3> DEFINE y == SubSeq(p, 1, c)
    <3>4. Pieces(s, m, y \o <<>>)
      <4>1. y \in Seq(Nat) /\ Piece(y, Bytes(s[m + 1]), 0)
        BY <3>2
      <4> HIDE DEF y
      <4> QED  BY <2>1, <3>3, <4>1, PiecesBefore
    <3>5. y \o <<>> = y
      BY <3>2, ConcatEmptySeq
    <3> QED  BY <3>1, <3>2, <3>4, <3>5
  <2>6. CASE c > Len(p)
    <3> DEFINE e == c - Len(p)
               y == SubSeq(u, 1, e)
    <3>1. e \in 0 .. Len(u) /\ SubSeq(x, 1, c) = p \o y
      BY <2>3, <2>6, CutConcat
    <3> HIDE DEF e
    <3>2. Goal(m + 1, u)
      BY <1>2, <2>1, <2>3
    <3>3. y \in Seq(Nat) /\ Pieces(s, m + 1, y)
      BY <3>1, <3>2
    <3> HIDE DEF y
    <3>4. Pieces(s, m, p \o y) /\ p \o y \in Seq(Nat)
      BY <2>1, <2>3, <3>3, PiecesBefore, ConcatProperties
    <3> QED  BY <3>1, <3>4
  <2> QED  BY <2>4, <2>5, <2>6
<1> HIDE DEF A
<1>3. L - n \in Nat /\ n + (L - n) = L /\ n \in 0 .. L
  BY <1>0
<1>4. L - n \in A
  BY <1>1, <1>2, <1>3, Induction
<1>5. Goal(n, t)
  BY <1>3, <1>4 DEF A
<1> QED  BY <1>5

LEMMA PiecesSend ==
  ASSUME NEW s \in Seq(Frames), NEW n \in 0 .. Len(s), NEW t \in Seq(Nat), Pieces(s, n, t),
         NEW f \in Frames
  PROVE  Pieces(Append(s, f), n, t \o Bytes(f))
<1> DEFINE L == Len(s)
           more == Append(s, f)
           A == {k \in Nat : \A m \in 0 .. L, x \in Seq(Nat) :
                               m + k = L /\ Pieces(s, m, x) => Pieces(more, m, x \o Bytes(f))}
<1>0. /\ L \in Nat /\ more \in Seq(Frames) /\ Len(more) = L + 1 /\ more[L + 1] = f
      /\ \A k \in 1 .. L : more[k] = s[k] /\ s[k] \in Frames
      /\ Bytes(f) \in Seq(Nat) /\ <<>> \in Seq(Nat)
      /\ <<>> \o Bytes(f) = Bytes(f) /\ Bytes(f) \o <<>> = Bytes(f)
  BY LenProperties, AppendProperties, ElementOfSeq, BytesTyped, EmptySeq, ConcatEmptySeq
<1> HIDE DEF more
<1>a. \A p, u \in Seq(Nat) : /\ (p \o u) \o Bytes(f) = p \o (u \o Bytes(f))
                             /\ u \o Bytes(f) \in Seq(Nat)
  <2>1. Bytes(f) \in Seq(Nat)
    BY <1>0
  <2> QED  BY <2>1, AllGrouped
<1>1. 0 \in A
  <2> SUFFICES ASSUME NEW m \in 0 .. L, NEW x \in Seq(Nat), m + 0 = L, Pieces(s, m, x)
               PROVE  Pieces(more, m, x \o Bytes(f))
    OBVIOUS
  <2>1. m = L /\ m \in 0 .. Len(more) /\ m # Len(more) /\ m + 1 = Len(more) /\ more[m + 1] = f
    BY <1>0
  <2>2. x = <<>>
    BY <2>1, PiecesEnd
  <2>3. Pieces(more, m + 1, <<>>)
    <3>1. Len(more) \in 0 .. Len(more)
      BY <1>0
    <3>2. Pieces(more, Len(more), <<>>)
      BY <1>0, <3>1, NoPieces
    <3> QED  BY <2>1, <3>2
  <2>4. Piece(Bytes(f), Bytes(more[m + 1]), 0)
    BY <1>0, <2>1, WholePiece
  <2>5. Pieces(more, m, Bytes(f) \o <<>>)
    BY <1>0, <2>1, <2>3, <2>4, PiecesBefore
  <2> QED  BY <1>0, <2>2, <2>5
<1>2. ASSUME NEW k \in Nat, k \in A PROVE k + 1 \in A
  <2> SUFFICES ASSUME NEW m \in 0 .. L, NEW x \in Seq(Nat), m + (k + 1) = L, Pieces(s, m, x)
               PROVE  Pieces(more, m, x \o Bytes(f))
    OBVIOUS
  <2>1. /\ m # L /\ m + 1 \in 0 .. L /\ m + 1 + k = L /\ m \in 0 .. Len(more) /\ m # Len(more)
        /\ m + 1 \in 1 .. L
    BY <1>0
  <2>2. \E p, u \in Seq(Nat) :
          Piece(p, Bytes(s[m + 1]), 0) /\ x = p \o u /\ Pieces(s, m + 1, u)
    BY <2>1, PiecesNext
  <2>3. PICK p \in Seq(Nat), u \in Seq(Nat) :
          Piece(p, Bytes(s[m + 1]), 0) /\ x = p \o u /\ Pieces(s, m + 1, u)
    BY <2>2
  <2>4. Pieces(more, m + 1, u \o Bytes(f))
    BY <1>2, <2>1, <2>3
  <2>5. u \o Bytes(f) \in Seq(Nat) /\ x \o Bytes(f) = p \o (u \o Bytes(f))
    <3>1. (p \o u) \o Bytes(f) = p \o (u \o Bytes(f)) /\ u \o Bytes(f) \in Seq(Nat)
      BY <1>a
    <3> QED  BY <2>3, <3>1
  <2>6. Piece(p, Bytes(more[m + 1]), 0)
    BY <1>0, <2>1, <2>3
  <2> QED  BY <1>0, <2>1, <2>4, <2>5, <2>6, PiecesBefore
<1> HIDE DEF A
<1>3. L - n \in Nat /\ n + (L - n) = L /\ n \in 0 .. L
  BY <1>0
<1>4. L - n \in A
  BY <1>1, <1>2, <1>3, Induction
<1> QED  BY <1>3, <1>4 DEF A, more

(* The next byte is the first of a later frame. *)
LEMMA PiecesFirst ==
  ASSUME NEW s \in Seq(Frames), NEW n \in 0 .. Len(s), NEW t \in Seq(Nat), Pieces(s, n, t),
         t # <<>>
  PROVE  \E i \in n + 1 .. Len(s), p, u \in Seq(Nat) :
           p # <<>> /\ Piece(p, Bytes(s[i]), 0) /\ t = p \o u /\ Pieces(s, i, u)
<1> DEFINE L == Len(s)
           Goal(m, x) == \E i \in m + 1 .. L, p, u \in Seq(Nat) :
                           p # <<>> /\ Piece(p, Bytes(s[i]), 0) /\ x = p \o u /\ Pieces(s, i, u)
           A == {k \in Nat : \A m \in 0 .. L, x \in Seq(Nat) :
                               m + k = L /\ Pieces(s, m, x) /\ x # <<>> => Goal(m, x)}
<1>0. L \in Nat
  BY LenProperties
<1>1. 0 \in A
  <2> SUFFICES ASSUME NEW m \in 0 .. L, NEW x \in Seq(Nat), m + 0 = L, Pieces(s, m, x)
               PROVE  x = <<>>
    <3> HIDE DEF Goal
    <3> QED  OBVIOUS
  <2>1. m = L
    BY <1>0
  <2> QED  BY <2>1, PiecesEnd
<1>2. ASSUME NEW k \in Nat, k \in A PROVE k + 1 \in A
  <2> SUFFICES ASSUME NEW m \in 0 .. L, NEW x \in Seq(Nat), m + (k + 1) = L, Pieces(s, m, x),
                      x # <<>>
               PROVE  Goal(m, x)
    <3> HIDE DEF Goal
    <3> QED  OBVIOUS
  <2>1. m # L /\ m + 1 \in 0 .. L /\ m + 1 + k = L /\ m + 1 \in m + 1 .. L
    BY <1>0
  <2>2. \E p, u \in Seq(Nat) :
          Piece(p, Bytes(s[m + 1]), 0) /\ x = p \o u /\ Pieces(s, m + 1, u)
    BY <2>1, PiecesNext
  <2>3. PICK p \in Seq(Nat), u \in Seq(Nat) :
          Piece(p, Bytes(s[m + 1]), 0) /\ x = p \o u /\ Pieces(s, m + 1, u)
    BY <2>2
  <2>4. CASE p # <<>>
    BY <2>1, <2>3, <2>4
  <2>5. CASE p = <<>>
    <3>1. x = u
      BY <2>3, <2>5, ConcatEmptySeq
    <3>2. Goal(m + 1, x)
      <4>1. Pieces(s, m + 1, x)
        BY <2>3, <3>1
      <4> HIDE DEF Goal
      <4> QED  BY <1>2, <2>1, <4>1
    <3>3. \A i \in m + 1 + 1 .. L : i \in m + 1 .. L
      BY <1>0
    <3> QED  BY <3>2, <3>3
  <2> QED  BY <2>4, <2>5
<1> HIDE DEF A
<1>3. L - n \in Nat /\ n + (L - n) = L /\ n \in 0 .. L
  BY <1>0
<1>4. L - n \in A
  BY <1>1, <1>2, <1>3, Induction
<1>5. Goal(n, t)
  <2> HIDE DEF Goal
  <2> QED  BY <1>3, <1>4 DEF A
<1> QED  BY <1>5

-----------------------------------------------------------------------------
(* A line on which nothing is broken off is one of pieces. *)
LEMMA StreamPieces ==
  ASSUME NEW s \in Seq(Frames), NEW n \in 0 .. Len(s), NEW t, Stream(s, n, t)
  PROVE  Pieces(s, n, t)
<1>1. PICK rest \in [n .. Len(s) -> Seq(Nat)] :
        /\ rest[n] = t /\ rest[Len(s)] = <<>>
        /\ \A i \in n + 1 .. Len(s) : rest[i - 1] = Bytes(s[i]) \o rest[i]
  BY DEF Stream
<1>2. ASSUME NEW i \in n + 1 .. Len(s)
      PROVE  \E p \in Seq(Nat) : Piece(p, Bytes(s[i]), 0) /\ rest[i - 1] = p \o rest[i]
  <2>1. i \in 1 .. Len(s)
    BY LenProperties
  <2>2. Bytes(s[i]) \in Seq(Nat)
    BY <2>1, ElementOfSeq, BytesTyped
  <2>3. Piece(Bytes(s[i]), Bytes(s[i]), 0) /\ rest[i - 1] = Bytes(s[i]) \o rest[i]
    BY <1>1, <2>2, WholePiece
  <2> QED  BY <2>2, <2>3
<1> QED  BY <1>1, <1>2 DEF Pieces

LEMMA BytesGiven ==
  ASSUME NEW f \in Frames
  PROVE  Bytes(f) \in Seq(Nat) /\ Bytes(f) # <<>>
<1>1. /\ Prefix \in Seq(Nat) /\ Prefix # <<>> /\ Code[f.op] \o Arguments(f) \in Seq(Nat)
      /\ Bytes(f) \in Seq(Nat)
  BY PrefixBytes, BytesTyped
<1> QED  BY <1>1, HeadOfConcat DEF Bytes

(* What is on the line behind the frame that is being read. *)
Ahead(s, n, t, b) == IF b THEN Pieces(s, n, t) ELSE Stream(s, n, t)

(* The device has read j bytes of the n-th frame, or nothing yet.          *)
ReadTo(n, j) ==
  \E r, t \in Seq(Nat) :
    /\ line = r \o t /\ Ahead(sent, n, t, broken)
    /\ n = 0 => r = <<>>
    /\ n # 0 => j > 0 /\ Piece(r, Bytes(sent[n]), j)
    /\ n # 0 => broken \/ j + Len(r) = Len(Bytes(sent[n]))

(* The next byte is the next of that frame or the first of a later one; of *)
(* a later one only when that one is over, unless it was broken off.       *)
Comes(n, j, i, b) ==
  /\ i \in 1 .. Len(sent) /\ b \in 1 .. Len(Bytes(sent[i]))
  /\ Byte = Bytes(sent[i])[b]
  /\ \/ i = n /\ j > 0 /\ b = j + 1
     \/ i > n /\ b = 1 /\ (n = 0 \/ broken \/ j = Len(Bytes(sent[n])))

LEMMA ByteComes ==
  ASSUME Typed, cdc_task, NEW n \in 0 .. Len(sent), NEW j \in Nat, ReadTo(n, j)
  PROVE  \E i, b \in Nat : Comes(n, j, i, b) /\ ReadTo(i, b)'
<1>0. /\ sent \in Seq(Frames) /\ Len(sent) \in Nat /\ line # <<>> /\ line' = Tail(line)
      /\ sent' = sent /\ broken' = broken /\ Byte = Head(line) /\ n \in Nat
  BY LenProperties DEF Typed, TypeOK, cdc_task, Byte
<1>1. PICK r \in Seq(Nat), t \in Seq(Nat) :
        /\ line = r \o t /\ Ahead(sent, n, t, broken)
        /\ n = 0 => r = <<>>
        /\ n # 0 => j > 0 /\ Piece(r, Bytes(sent[n]), j)
        /\ n # 0 => broken \/ j + Len(r) = Len(Bytes(sent[n]))
  BY DEF ReadTo
<1>2. CASE r # <<>>
  <2>1. n # 0 /\ n \in 1 .. Len(sent) /\ j > 0 /\ Piece(r, Bytes(sent[n]), j)
    BY <1>0, <1>1, <1>2
  <2>2. Bytes(sent[n]) \in Seq(Nat)
    BY <1>0, <2>1, ElementOfSeq, BytesTyped
  <2>3. /\ Tail(r) \in Seq(Nat) /\ Piece(Tail(r), Bytes(sent[n]), j + 1)
        /\ j + 1 \in 1 .. Len(Bytes(sent[n])) /\ Head(r) = Bytes(sent[n])[j + 1]
    BY <1>2, <2>1, <2>2, PieceNext
  <2>8. broken \/ j + 1 + Len(Tail(r)) = Len(Bytes(sent[n]))
    <3>1. Len(r) \in Nat /\ Len(Tail(r)) = Len(r) - 1
      BY <1>2, LenProperties, HeadTailProperties
    <3>2. CASE ~broken
      <4>1. j + Len(r) = Len(Bytes(sent[n]))
        BY <1>1, <2>1, <3>2
      <4> DEFINE x == Len(r)
                 y == Len(Tail(r))
      <4>2. x \in Nat /\ y = x - 1
        BY <3>1
      <4> HIDE DEF x, y
      <4>3. j + 1 + y = j + x
        BY <4>2
      <4> QED  BY <4>1, <4>3 DEF x, y
    <3> QED  BY <3>2
  <2>4. Byte = Head(r) /\ line' = Tail(r) \o t
    BY <1>0, <1>1, <1>2, HeadOfConcat
  <2>5. Comes(n, j, n, j + 1)
    <3>1. Byte = Bytes(sent[n])[j + 1]
      BY <2>3, <2>4
    <3> DEFINE b == j + 1
    <3>2. b \in 1 .. Len(Bytes(sent[n])) /\ Byte = Bytes(sent[n])[b] /\ b = j + 1
      BY <2>3, <3>1
    <3> HIDE DEF b
    <3>3. Comes(n, j, n, b)
      BY <2>1, <3>2 DEF Comes
    <3> QED  BY <3>3 DEF b
  <2>6. ReadTo(n, j + 1)'
    <3>1. n # 0 /\ j + 1 > 0
      BY <2>1
    <3>2. /\ line' = Tail(r) \o t /\ Ahead(sent', n, t, broken')
          /\ Piece(Tail(r), Bytes(sent'[n]), j + 1)
          /\ broken' \/ j + 1 + Len(Tail(r)) = Len(Bytes(sent'[n]))
      BY <1>0, <1>1, <2>3, <2>4, <2>8
    <3> QED  BY <2>3, <3>1, <3>2 DEF ReadTo
  <2>7. n \in Nat /\ j + 1 \in Nat
    BY <1>0
  <2> QED  BY <2>5, <2>6, <2>7
<1>3. CASE r = <<>>
  <2>1. line = t /\ t # <<>>
    BY <1>0, <1>1, <1>3, ConcatEmptySeq
  <2>2. \E i \in n + 1 .. Len(sent), p, u \in Seq(Nat) :
          /\ p # <<>> /\ Piece(p, Bytes(sent[i]), 0) /\ t = p \o u
          /\ Ahead(sent, i, u, broken) /\ (broken \/ p = Bytes(sent[i]))
    <3>1. CASE broken
      <4>1. sent \in Seq(Frames) /\ Pieces(sent, n, t) /\ t # <<>>
        BY <1>0, <1>1, <2>1, <3>1 DEF Ahead
      <4>2. PICK i \in n + 1 .. Len(sent), p \in Seq(Nat), u \in Seq(Nat) :
              p # <<>> /\ Piece(p, Bytes(sent[i]), 0) /\ t = p \o u /\ Pieces(sent, i, u)
        BY <4>1, PiecesFirst, ZenonT(30)
      <4>3. Ahead(sent, i, u, broken)
        BY <3>1, <4>2 DEF Ahead
      <4> QED  BY <3>1, <4>2, <4>3
    <3>2. CASE ~broken
      <4>1. sent \in Seq(Frames) /\ Stream(sent, n, t) /\ t # <<>>
        BY <1>0, <1>1, <2>1, <3>2 DEF Ahead
      <4> DEFINE k == n + 1
      <4>2. k \in 1 .. Len(sent) /\ \E u \in Seq(Nat) : t = Bytes(sent[k]) \o u /\ Stream(sent, k, u)
        BY <4>1, StreamNext
      <4>3. k \in n + 1 .. Len(sent)
        BY <1>0, <4>2
      <4> HIDE DEF k
      <4>4. PICK u \in Seq(Nat) : t = Bytes(sent[k]) \o u /\ Stream(sent, k, u)
        BY <4>2
      <4>5. Bytes(sent[k]) \in Seq(Nat) /\ Bytes(sent[k]) # <<>>
        BY <1>0, <4>2, ElementOfSeq, BytesGiven
      <4>6. Piece(Bytes(sent[k]), Bytes(sent[k]), 0)
        BY <4>5, WholePiece
      <4>7. Ahead(sent, k, u, broken)
        BY <3>2, <4>4 DEF Ahead
      <4> QED  BY <4>3, <4>4, <4>5, <4>6, <4>7
    <3> QED  BY <3>1, <3>2
  <2>3. PICK i \in n + 1 .. Len(sent), p \in Seq(Nat), u \in Seq(Nat) :
          /\ p # <<>> /\ Piece(p, Bytes(sent[i]), 0) /\ t = p \o u
          /\ Ahead(sent, i, u, broken) /\ (broken \/ p = Bytes(sent[i]))
    BY <2>2
  <2>4. i \in 1 .. Len(sent) /\ i > n /\ i # 0 /\ i \in Nat
    BY <1>0
  <2>5. Bytes(sent[i]) \in Seq(Nat)
    BY <1>0, <2>4, ElementOfSeq, BytesTyped
  <2>6. /\ Tail(p) \in Seq(Nat) /\ Piece(Tail(p), Bytes(sent[i]), 1)
        /\ 1 \in 1 .. Len(Bytes(sent[i])) /\ Head(p) = Bytes(sent[i])[1]
    <3>1. 0 \in Nat /\ 0 + 1 = 1
      OBVIOUS
    <3>2. /\ Tail(p) \in Seq(Nat) /\ Piece(Tail(p), Bytes(sent[i]), 0 + 1)
          /\ 0 + 1 \in 1 .. Len(Bytes(sent[i])) /\ Head(p) = Bytes(sent[i])[0 + 1]
      BY <2>3, <2>5, <3>1, PieceNext
    <3> QED  BY <3>1, <3>2
  <2>7. Byte = Head(p) /\ line' = Tail(p) \o u
    BY <1>0, <2>1, <2>3, HeadOfConcat
  <2>10. n = 0 \/ broken \/ j = Len(Bytes(sent[n]))
    <3>1. Len(r) = 0
      BY <1>3
    <3>2. CASE n # 0 /\ ~broken
      <4>1. j + Len(r) = Len(Bytes(sent[n]))
        BY <1>1, <3>2
      <4>2. j + 0 = j
        OBVIOUS
      <4> QED  BY <3>1, <4>1, <4>2
    <3> QED  BY <3>2
  <2>11. broken \/ 1 + Len(Tail(p)) = Len(Bytes(sent[i]))
    <3>1. Len(p) \in Nat /\ Len(Tail(p)) = Len(p) - 1
      BY <2>3, LenProperties, HeadTailProperties
    <3> QED  BY <2>3, <3>1
  <2>8. Comes(n, j, i, 1)
    BY <2>4, <2>6, <2>7, <2>10 DEF Comes
  <2>9. ReadTo(i, 1)'
    <3>1. /\ line' = Tail(p) \o u /\ Ahead(sent', i, u, broken')
          /\ Piece(Tail(p), Bytes(sent'[i]), 1) /\ 1 > 0
          /\ broken' \/ 1 + Len(Tail(p)) = Len(Bytes(sent'[i]))
      <4>1. Ahead(sent', i, u, broken') /\ sent' = sent /\ broken' = broken
        BY <1>0, <2>3
      <4>2. 1 > 0
        OBVIOUS
      <4> QED  BY <2>6, <2>7, <2>11, <4>1, <4>2
    <3> QED  BY <2>4, <2>6, <3>1 DEF ReadTo
  <2> QED  BY <2>4, <2>8, <2>9
<1> QED  BY <1>2, <1>3

LEMMA SentCut ==
  ASSUME Typed, Stop, NEW n \in 0 .. Len(sent), NEW j \in Nat, ReadTo(n, j)
  PROVE  ReadTo(n, j)'
<1>0. /\ sent \in Seq(Frames) /\ Len(sent) \in Nat /\ n \in Nat /\ line \in Seq(Nat)
      /\ Len(line) \in Nat /\ sent' = sent /\ broken' = TRUE
  BY LenProperties DEF Typed, TypeOK, Stop
<1>1. PICK r \in Seq(Nat), t \in Seq(Nat) :
        /\ line = r \o t /\ Pieces(sent, n, t)
        /\ IF n = 0 THEN r = <<>> ELSE j > 0 /\ Piece(r, Bytes(sent[n]), j)
  <2>1. PICK r \in Seq(Nat), t \in Seq(Nat) :
          /\ line = r \o t /\ Ahead(sent, n, t, broken)
          /\ n = 0 => r = <<>>
          /\ n # 0 => j > 0 /\ Piece(r, Bytes(sent[n]), j)
    BY DEF ReadTo
  <2>2. Pieces(sent, n, t)
    BY <1>0, <2>1, StreamPieces DEF Ahead
  <2> QED  BY <2>1, <2>2
<1>7. ASSUME NEW y, Pieces(sent, n, y) PROVE Ahead(sent', n, y, broken')
  BY <1>0, <1>7 DEF Ahead
<1>2. PICK q \in 0 .. Len(line) - 1 : line' = SubSeq(line, 1, q)
  BY DEF Stop
<1>3. /\ Len(r) \in Nat /\ Len(t) \in Nat /\ q \in 0 .. Len(r \o t)
      /\ line' = SubSeq(r \o t, 1, q)
  BY <1>0, <1>1, <1>2, LenProperties
<1>4. CASE q <= Len(r)
  <2> DEFINE y == SubSeq(r, 1, q)
  <2>1. line' = y /\ q \in 0 .. Len(r)
    BY <1>3, <1>4, CutConcat
  <2>2. y \in Seq(Nat) /\ IF n = 0 THEN y = <<>> ELSE j > 0 /\ Piece(y, Bytes(sent[n]), j)
    <3>1. CASE n = 0
      <4>1. r = <<>> /\ q = 0
        BY <1>1, <2>1, <3>1
      <4>2. y = <<>>
        BY <4>1, SubSeqEmpty
      <4> QED  BY <3>1, <4>2, EmptySeq
    <3>2. CASE n # 0
      <4>1. n \in 1 .. Len(sent)
        BY <1>0, <3>2
      <4>2. Bytes(sent[n]) \in Seq(Nat)
        BY <1>0, <4>1, ElementOfSeq, BytesTyped
      <4>3. j > 0 /\ Piece(r, Bytes(sent[n]), j)
        BY <1>1, <3>2
      <4> QED  BY <2>1, <3>2, <4>2, <4>3, PieceCut
    <3> QED  BY <3>1, <3>2
  <2> HIDE DEF y
  <2>3. <<>> \in Seq(Nat) /\ Ahead(sent', n, <<>>, broken') /\ line' = y \o <<>>
    BY <1>0, <1>7, <2>1, <2>2, EmptySeq, NoPieces, ConcatEmptySeq
  <2>4. /\ n = 0 => y = <<>>
        /\ n # 0 => j > 0 /\ Piece(y, Bytes(sent'[n]), j)
    BY <1>0, <2>2
  <2> QED  BY <1>0, <2>2, <2>3, <2>4 DEF ReadTo
<1>5. CASE q > Len(r)
  <2> DEFINE e == q - Len(r)
             y == SubSeq(t, 1, e)
  <2>1. e \in 0 .. Len(t) /\ line' = r \o y
    BY <1>3, <1>5, CutConcat
  <2> HIDE DEF e
  <2>2. y \in Seq(Nat) /\ Pieces(sent, n, y)
    BY <1>0, <1>1, <2>1, PiecesCut
  <2> HIDE DEF y
  <2>3. /\ line' = r \o y /\ Ahead(sent', n, y, broken')
        /\ n = 0 => r = <<>>
        /\ n # 0 => j > 0 /\ Piece(r, Bytes(sent'[n]), j)
    BY <1>0, <1>1, <1>7, <2>1, <2>2
  <2> QED  BY <1>0, <2>2, <2>3 DEF ReadTo
<1>6. q <= Len(r) \/ q > Len(r)
  BY <1>3
<1> QED  BY <1>4, <1>5, <1>6

LEMMA MoreSent ==
  ASSUME Typed, NEW f \in Frames, line' = line \o Bytes(f), sent' = Append(sent, f),
         broken => broken', NEW n \in 0 .. Len(sent), NEW j \in Nat, ReadTo(n, j)
  PROVE  ReadTo(n, j)'
<1>0. /\ sent \in Seq(Frames) /\ Len(sent) \in Nat /\ n \in Nat /\ Bytes(f) \in Seq(Nat)
      /\ \A i \in 1 .. Len(sent) : sent'[i] = sent[i]
  BY LenProperties, AppendProperties, BytesTyped DEF Typed, TypeOK
<1>1. PICK r \in Seq(Nat), t \in Seq(Nat) :
        /\ line = r \o t /\ Ahead(sent, n, t, broken)
        /\ n = 0 => r = <<>>
        /\ n # 0 => j > 0 /\ Piece(r, Bytes(sent[n]), j)
        /\ n # 0 => broken \/ j + Len(r) = Len(Bytes(sent[n]))
  BY DEF ReadTo
<1>2. t \o Bytes(f) \in Seq(Nat) /\ Ahead(sent', n, t \o Bytes(f), broken')
  <2>1. t \o Bytes(f) \in Seq(Nat)
    BY <1>0, <1>1, ConcatProperties
  <2>2. CASE broken'
    <3>1. Pieces(sent, n, t)
      BY <1>0, <1>1, StreamPieces DEF Ahead
    <3>2. Pieces(sent', n, t \o Bytes(f))
      BY <1>0, <1>1, <3>1, PiecesSend
    <3> QED  BY <2>1, <2>2, <3>2 DEF Ahead
  <2>3. CASE ~broken'
    <3>1. Stream(sent, n, t)
      BY <1>1, <2>3 DEF Ahead
    <3>2. Stream(sent', n, t \o Bytes(f))
      BY <1>0, <1>1, <3>1, StreamSend
    <3> QED  BY <2>1, <2>3, <3>2 DEF Ahead
  <2> QED  BY <2>2, <2>3
<1>3. line' = r \o (t \o Bytes(f))
  <2>1. (r \o t) \o Bytes(f) = r \o (t \o Bytes(f))
    BY <1>0, AllGrouped
  <2> QED  BY <1>1, <2>1
<1>4. /\ n = 0 => r = <<>>
      /\ n # 0 => j > 0 /\ Piece(r, Bytes(sent'[n]), j)
      /\ n # 0 => broken' \/ j + Len(r) = Len(Bytes(sent'[n]))
  <2>1. n # 0 => sent'[n] = sent[n]
    BY <1>0
  <2> QED  BY <1>1, <2>1
<1> QED  BY <1>2, <1>3, <1>4 DEF ReadTo

-----------------------------------------------------------------------------
(* An effect of the frame f, of its bytes alone unless b.                  *)
Made(e, f, b) == e.op = f.op /\ (b \/ EffectOf(e, f))

(* The effects in d are of the first n frames of s. *)
Follow(d, s, n, b) ==
  \E frame \in [DOMAIN d -> 1 .. n] :
    /\ \A i \in DOMAIN d : Made(d[i], s[frame[i]], b)
    /\ \A i, k \in DOMAIN d : i < k => frame[i] < frame[k]

LEMMA FollowStays ==
  ASSUME NEW d, NEW s, NEW n \in Nat, NEW b, Follow(d, s, n, b), NEW m \in Nat, n <= m,
         NEW z, \A i \in 1 .. n : z[i] = s[i], NEW c, b => c
  PROVE  Follow(d, z, m, c)
<1>1. PICK frame \in [DOMAIN d -> 1 .. n] :
        /\ \A i \in DOMAIN d : Made(d[i], s[frame[i]], b)
        /\ \A i, k \in DOMAIN d : i < k => frame[i] < frame[k]
  BY DEF Follow
<1>2. \A i \in DOMAIN d : frame[i] \in 1 .. n /\ frame[i] \in 1 .. m
  BY <1>1
<1>3. frame \in [DOMAIN d -> 1 .. m]
  BY <1>1, <1>2
<1>4. ASSUME NEW i \in DOMAIN d PROVE Made(d[i], z[frame[i]], c)
  <2>1. Made(d[i], s[frame[i]], b) /\ z[frame[i]] = s[frame[i]]
    BY <1>1, <1>2
  <2> QED  BY <2>1 DEF Made
<1> QED  BY <1>1, <1>3, <1>4 DEF Follow

LEMMA FollowMore ==
  ASSUME NEW d \in Seq(Frame), NEW s, NEW c \in Nat \ {0}, NEW b, Follow(d, s, c - 1, b),
         NEW m \in Nat, c <= m, NEW e \in Frame, Made(e, s[c], b)
  PROVE  Follow(Append(d, e), s, m, b)
<1> DEFINE L == Len(d)
           a == Append(d, e)
<1>1. PICK frame \in [DOMAIN d -> 1 .. c - 1] :
        /\ \A i \in DOMAIN d : Made(d[i], s[frame[i]], b)
        /\ \A i, k \in DOMAIN d : i < k => frame[i] < frame[k]
  BY DEF Follow
<1>2. /\ L \in Nat /\ DOMAIN d = 1 .. L /\ DOMAIN a = 1 .. L + 1 /\ a[L + 1] = e
      /\ \A i \in 1 .. L : a[i] = d[i]
  BY LenProperties, AppendProperties
<1> HIDE DEF a, L
<1> DEFINE g == [i \in 1 .. L + 1 |-> IF i = L + 1 THEN c ELSE frame[i]]
<1>3. \A i \in 1 .. L : /\ i # L + 1 /\ i \in 1 .. L + 1 /\ frame[i] \in 1 .. c - 1
                        /\ frame[i] \in 1 .. m /\ frame[i] < c
  BY <1>1, <1>2
<1>4. g[L + 1] = c /\ \A i \in 1 .. L : g[i] = frame[i]
  BY <1>2, <1>3
<1>5. \A i \in 1 .. L + 1 : i \in 1 .. L \/ i = L + 1
  BY <1>2
<1>6. g \in [1 .. L + 1 -> 1 .. m]
  <2>1. ASSUME NEW i \in 1 .. L + 1
        PROVE  (IF i = L + 1 THEN c ELSE frame[i]) \in 1 .. m
    <3>1. c \in 1 .. m
      OBVIOUS
    <3> QED  BY <1>3, <1>5, <3>1
  <2> QED  BY <2>1
<1> HIDE DEF g
<1>7. \A i \in DOMAIN a : Made(a[i], s[g[i]], b)
  BY <1>1, <1>2, <1>4, <1>5
<1>8. ASSUME NEW i \in DOMAIN a, NEW k \in DOMAIN a, i < k PROVE g[i] < g[k]
  <2>1. i \in 1 .. L
    BY <1>2, <1>8
  <2>2. CASE k = L + 1
    BY <1>3, <1>4, <2>1, <2>2
  <2>3. CASE k # L + 1
    <3>1. k \in 1 .. L
      BY <1>2, <1>5, <2>3
    <3> QED  BY <1>1, <1>2, <1>4, <1>8, <2>1, <3>1
  <2> QED  BY <2>2, <2>3
<1> QED  BY <1>2, <1>6, <1>7, <1>8 DEF Follow, a

LEMMA NothingFollows ==
  ASSUME NEW s, NEW n \in Nat, NEW b
  PROVE  Follow(<<>>, s, n, b)
<1> DEFINE frame == [i \in {} |-> 0]
<1>1. DOMAIN <<>> = {}
  OBVIOUS
<1>2. frame \in [{} -> 1 .. n]
  OBVIOUS
<1> HIDE DEF frame
<1> QED  BY <1>1, <1>2 DEF Follow

-----------------------------------------------------------------------------
Inside == {"key", "value", "picture", "size", "zipped"}

(* The value that is to come is of the frame f, but its key was cut off.   *)
CutKey(f) == pc = "value" /\ IsPrefix(key, f.key) /\ key # f.key

(* The key was taken before its separator came, which comes next.          *)
LeftBehind(f, r) ==
  /\ pc = "value" /\ key = f.key /\ got = <<>> /\ ~escaped
  /\ r # <<>> /\ Head(r) = Separator

(* What the device makes of it.  Every effect is of one of the frames      *)
(* begun, and the n-th has had none yet while its prefix or its command is *)
(* being read; arguments are of some c-th frame, though bytes of later     *)
(* ones may be taken for them if a frame was broken off or a key cut; a    *)
(* first byte of a prefix within a command makes it no command.            *)
Phase(n, j) ==
  /\ matched > 0 =>
       /\ n > 0 /\ matched <= j
       /\ \A k \in 1 .. matched : Bytes(sent[n])[j - matched + k] = Prefix[k]
       /\ j = matched => Follow(done, sent, n - 1, broken)
  /\ pc = "command" =>
       \/ /\ n > 0 /\ j = Len(Prefix) + Len(got) /\ Starts(Code[sent[n].op])
          /\ Follow(done, sent, n - 1, broken)
       \/ \E k \in 1 .. Len(got) : got[k] = Prefix[1]
  /\ pc \in Inside =>
       \E c \in 1 .. n :
         /\ op = sent[c].op /\ Follow(done, sent, c - 1, broken)
         /\ \/ broken \/ CutKey(sent[c])
            \/ c = n /\ Within(sent[c], From(Bytes(sent[c]), j))
            \/ c = n /\ LeftBehind(sent[c], From(Bytes(sent[c]), j))
  /\ Follow(done, sent, n, broken)

Traced ==
  /\ \E n \in 0 .. Len(sent), j \in Nat : ReadTo(n, j) /\ Phase(n, j)
  /\ ~broken => \A n \in 1 .. Len(sent) : OfPanelSize(sent[n])

LEMMA FrameBytes ==
  ASSUME NEW f \in Frames
  PROVE  /\ \A k \in 1 .. Len(Prefix) : Bytes(f)[k] = Prefix[k]
         /\ \A k \in 1 .. COMMAND_LEN : Bytes(f)[Len(Prefix) + k] = Code[f.op][k]
         /\ Len(Bytes(f)) \in Nat /\ Len(Bytes(f)) >= Len(Prefix)
<1> DEFINE code == Code[f.op]
           rest == Arguments(f)
           body == code \o rest
           bytes == Prefix \o body
<1>1. /\ Prefix \in Seq(Nat) /\ Len(Prefix) \in Nat /\ code \in Seq(Nat)
      /\ Len(code) = COMMAND_LEN /\ COMMAND_LEN \in Nat /\ rest \in Seq(Nat) /\ Len(rest) \in Nat
      /\ bytes = Bytes(f)
  BY PrefixBytes, FrameParts, CodeBytes, BytesTyped, Bounds, LenProperties DEF Bytes
<1> HIDE DEF code, rest
<1>2. /\ body \in Seq(Nat) /\ Len(body) = COMMAND_LEN + Len(rest)
      /\ \A k \in 1 .. COMMAND_LEN + Len(rest) :
           body[k] = IF k <= COMMAND_LEN THEN code[k] ELSE rest[k - COMMAND_LEN]
  BY <1>1, ConcatProperties
<1> HIDE DEF body
<1>3. /\ Len(bytes) = Len(Prefix) + Len(body)
      /\ \A k \in 1 .. Len(Prefix) + Len(body) :
           bytes[k] = IF k <= Len(Prefix) THEN Prefix[k] ELSE body[k - Len(Prefix)]
  BY <1>1, <1>2, ConcatProperties
<1> HIDE DEF bytes
<1>4. ASSUME NEW k \in 1 .. Len(Prefix) PROVE bytes[k] = Prefix[k]
  BY <1>1, <1>2, <1>3
<1>5. ASSUME NEW k \in 1 .. COMMAND_LEN PROVE bytes[Len(Prefix) + k] = code[k]
  <2> DEFINE m == Len(Prefix) + k
  <2>1. m \in 1 .. Len(Prefix) + Len(body) /\ ~(m <= Len(Prefix)) /\ m - Len(Prefix) = k
    BY <1>1, <1>2
  <2>2. body[k] = code[k]
    BY <1>1, <1>2
  <2> HIDE DEF m
  <2>3. bytes[m] = body[k]
    BY <1>3, <2>1
  <2> QED  BY <2>2, <2>3 DEF m
<1>6. Len(bytes) \in Nat /\ Len(bytes) >= Len(Prefix)
  BY <1>1, <1>2, <1>3
<1>7. bytes = Bytes(f) /\ code = Code[f.op]
  BY <1>1 DEF code
<1> QED  BY <1>4, <1>5, <1>6, <1>7

LEMMA CameFrom ==
  ASSUME Typed, NEW n \in 0 .. Len(sent), NEW j \in Nat, NEW i, NEW b, Comes(n, j, i, b)
  PROVE  /\ i \in Nat \ {0} /\ i \in 1 .. Len(sent) /\ n \in Nat /\ n <= i /\ b \in Nat \ {0}
         /\ sent[i] \in Frames
         /\ b = 1 => Byte = Prefix[1]
         /\ i > n => b = 1 /\ n <= i - 1 /\ i - 1 \in Nat
         /\ i = n \/ i > n
<1>0. sent \in Seq(Frames) /\ Len(sent) \in Nat
  BY LenProperties DEF Typed, TypeOK
<1>1. /\ i \in 1 .. Len(sent) /\ b \in 1 .. Len(Bytes(sent[i])) /\ Byte = Bytes(sent[i])[b]
      /\ i = n \/ (i > n /\ b = 1)
  BY DEF Comes
<1>2. sent[i] \in Frames
  BY <1>0, <1>1, ElementOfSeq
<1>3. Bytes(sent[i])[1] = Prefix[1] /\ Len(Bytes(sent[i])) \in Nat
  <2>1. 1 \in 1 .. Len(Prefix)
    BY PrefixBytes
  <2> QED  BY <1>2, <2>1, FrameBytes
<1>4. i \in Nat \ {0} /\ n \in Nat /\ b \in Nat \ {0}
  BY <1>0, <1>1, <1>3
<1> QED  BY <1>1, <1>2, <1>3, <1>4

LEMMA OfFirst ==
  ASSUME NEW d, NEW s, NEW n \in Nat, NEW b, Follow(d, s, n, b), NEW m \in Nat, n <= m
  PROVE  Follow(d, s, m, b)
  BY FollowStays

LEMMA Matching ==
  ASSUME Typed, NEW n \in 0 .. Len(sent), NEW j \in Nat, NEW i, NEW b,
         Comes(n, j, i, b), Phase(n, j), pc = "prefix", Byte = Prefix[matched + 1]
  PROVE  /\ matched + 1 <= b
         /\ \A k \in 1 .. matched + 1 : Bytes(sent[i])[b - (matched + 1) + k] = Prefix[k]
         /\ b = matched + 1 => Follow(done, sent, i - 1, broken)
<1>0. /\ i \in Nat \ {0} /\ n \in Nat /\ b \in Nat \ {0} /\ (i = n \/ i > n)
      /\ matched \in Nat /\ matched + 1 <= Len(Prefix) /\ Len(Prefix) \in Nat
  BY CameFrom, PrefixBytes DEF Typed, TypeOK
<1>1. CASE i = n
  <2>1. j > 0 /\ b = j + 1 /\ Byte = Bytes(sent[n])[b]
    <3>1. Byte = Bytes(sent[i])[b] /\ ((i = n /\ j > 0 /\ b = j + 1) \/ i > n)
      BY DEF Comes
    <3>2. ~(i > n)
      BY <1>0, <1>1
    <3> QED  BY <1>1, <3>1, <3>2
  <2>2. /\ matched > 0 => /\ matched <= j /\ (j = matched => Follow(done, sent, n - 1, broken))
                          /\ \A k \in 1 .. matched : Bytes(sent[n])[j - matched + k] = Prefix[k]
    BY DEF Phase
  <2>3. ASSUME NEW k \in 1 .. matched + 1
        PROVE  Bytes(sent[n])[b - (matched + 1) + k] = Prefix[k]
    <3>1. CASE k = matched + 1
      <4>1. b - (matched + 1) + k = b
        BY <1>0, <3>1
      <4> QED  BY <2>1, <3>1, <4>1
    <3>2. CASE k # matched + 1
      <4>1. k \in 1 .. matched /\ matched > 0 /\ b - (matched + 1) + k = j - matched + k
        BY <1>0, <2>1, <3>2, SMTT(30)
      <4> QED  BY <2>2, <4>1
    <3> QED  BY <3>1, <3>2
  <2>4. matched + 1 <= b /\ (b = matched + 1 => matched > 0 /\ j = matched)
    BY <1>0, <2>1, <2>2
  <2> QED  BY <1>1, <2>2, <2>3, <2>4
<1>2. CASE i > n
  <2>1. /\ b = 1 /\ n <= i - 1 /\ i - 1 \in Nat /\ Byte = Prefix[1]
        /\ Byte = Bytes(sent[i])[1]
    BY <1>2, CameFrom DEF Comes
  <2>2. matched = 0
    <3> SUFFICES ASSUME matched # 0 PROVE FALSE
      OBVIOUS
    <3>1. matched + 1 \in 2 .. Len(Prefix)
      BY <1>0
    <3>2. \A k \in 2 .. Len(Prefix) : Prefix[k] # Prefix[1]
      BY UsbAssumption
    <3> QED  BY <2>1, <3>1, <3>2
  <2>3. Follow(done, sent, n, broken)
    BY DEF Phase
  <2>4. Follow(done, sent, i - 1, broken)
    BY <1>0, <2>1, <2>3, OfFirst
  <2>5. ASSUME NEW k \in 1 .. matched + 1
        PROVE  Bytes(sent[i])[b - (matched + 1) + k] = Prefix[k]
    <3>1. k = 1 /\ b - (matched + 1) + k = 1
      BY <2>1, <2>2
    <3> QED  BY <2>1, <3>1
  <2> QED  BY <2>1, <2>2, <2>4, <2>5
<1> QED  BY <1>0, <1>1, <1>2

(* Nothing done, and not within a frame: what is left is the mapping. *)
LEMMA OutOfFrames ==
  ASSUME NEW n \in Nat, NEW i \in Nat, n <= i, Follow(done, sent, n, broken),
         NEW j, matched' = 0, pc' \notin Inside \cup {"command"}, done' = done,
         broken' = broken, \A k \in 1 .. n : sent'[k] = sent[k]
  PROVE  Phase(i, j)'
<1>1. Follow(done', sent', i, broken')
  <2>1. Follow(done, sent', i, broken')
    BY FollowStays
  <2> QED  BY <2>1
<1> QED  BY <1>1 DEF Phase

LEMMA WaitTraced ==
  ASSUME Alone, Typed, waitFor, NEW n \in 0 .. Len(sent), NEW j \in Nat, NEW i, NEW b,
         Comes(n, j, i, b), Phase(n, j)
  PROVE  Phase(i, b)'
<1>0. /\ i \in Nat \ {0} /\ n \in Nat /\ b \in Nat \ {0} /\ n <= i /\ sent[i] \in Frames
      /\ pc = "prefix" /\ sent' = sent /\ done' = done /\ broken' = broken
      /\ matched \in Nat /\ matched + 1 <= Len(Prefix) /\ Len(Prefix) \in Nat
  <2>1. Len(Prefix) \in Nat \ {0} /\ matched \in 0 .. Len(Prefix) - 1
    BY PrefixBytes DEF Typed, TypeOK
  <2>2. matched \in Nat /\ matched + 1 <= Len(Prefix) /\ Len(Prefix) \in Nat
    BY <2>1
  <2>3. pc = "prefix" /\ sent' = sent /\ done' = done /\ broken' = broken
    BY DEF waitFor, Take, cdc_task, Keep
  <2>4. /\ i \in Nat \ {0} /\ n \in Nat /\ b \in Nat \ {0} /\ n <= i
        /\ sent[i] \in Frames
    BY CameFrom DEF Typed, TypeOK
  <2> QED  BY <2>2, <2>3, <2>4
<1>1. Follow(done, sent, n, broken) /\ Follow(done, sent, i, broken)
  BY <1>0, OfFirst DEF Phase
<1>2. CASE Byte # Prefix[matched + 1]
  <2>1. matched' = 0 /\ pc' = "prefix"
    BY <1>0, <1>2 DEF waitFor
  <2> QED  BY <1>0, <1>1, <2>1, OutOfFrames DEF Inside
<1>3. CASE Byte = Prefix[matched + 1] /\ matched + 1 < Len(Prefix)
  <2>1. matched' = matched + 1 /\ pc' = "prefix"
    BY <1>0, <1>3 DEF waitFor
  <2>2. /\ matched + 1 <= b
        /\ \A k \in 1 .. matched + 1 : Bytes(sent[i])[b - (matched + 1) + k] = Prefix[k]
        /\ b = matched + 1 => Follow(done, sent, i - 1, broken)
    BY <1>0, <1>3, Matching
  <2>3. /\ i > 0 /\ matched' <= b
        /\ \A k \in 1 .. matched' : Bytes(sent'[i])[b - matched' + k] = Prefix[k]
        /\ b = matched' => Follow(done', sent', i - 1, broken')
    BY <1>0, <2>1, <2>2
  <2>4. Follow(done', sent', i, broken')
    BY <1>0, <1>1
  <2> QED  BY <2>1, <2>3, <2>4 DEF Phase, Inside
<1>4. CASE Byte = Prefix[matched + 1] /\ ~(matched + 1 < Len(Prefix))
  <2>1. matched' = 0 /\ pc' = "command" /\ got' = <<>> /\ matched + 1 = Len(Prefix)
    BY <1>0, <1>4 DEF waitFor, Read
  <2>2. /\ Len(Prefix) <= b
        /\ \A k \in 1 .. Len(Prefix) : Bytes(sent[i])[b - Len(Prefix) + k] = Prefix[k]
        /\ b = Len(Prefix) => Follow(done, sent, i - 1, broken)
    <3> DEFINE m == matched + 1
    <3>1. m = Len(Prefix) /\ Byte = Prefix[m]
      BY <1>4, <2>1
    <3>2. /\ m <= b
          /\ \A k \in 1 .. m : Bytes(sent[i])[b - m + k] = Prefix[k]
          /\ b = m => Follow(done, sent, i - 1, broken)
      BY <1>0, <3>1, Matching
    <3> HIDE DEF m
    <3> QED  BY <3>1, <3>2
  <2>3. b = Len(Prefix)
    <3> SUFFICES ASSUME b # Len(Prefix) PROVE FALSE
      OBVIOUS
    <3> DEFINE o == b - Len(Prefix)
    <3>1. o \in 1 .. Len(Bytes(sent[i])) - Len(Prefix)
      <4>1. b \in 1 .. Len(Bytes(sent[i])) /\ Len(Bytes(sent[i])) \in Nat
        BY <1>0, FrameBytes DEF Comes
      <4> QED  BY <1>0, <2>2, <4>1
    <3>2. \A k \in 1 .. Len(Prefix) : Bytes(sent[i])[o + k] = Prefix[k]
      BY <2>2
    <3> HIDE DEF o
    <3> QED  BY <1>0, <3>1, <3>2 DEF Alone
  <2>4. Starts(Code[sent[i].op])' /\ Len(got') = 0
    <3>1. Len(got') = 0
      BY <2>1
    <3>2. Len(Code[sent[i].op]) = COMMAND_LEN /\ COMMAND_LEN \in Nat
      BY <1>0, FrameParts, CodeBytes, Bounds
    <3> QED  BY <1>0, <3>1, <3>2 DEF Starts
  <2>5. Follow(done', sent', i, broken') /\ Follow(done', sent', i - 1, broken') /\ i > 0
    BY <1>0, <1>1, <2>2, <2>3
  <2>6. b = Len(Prefix) + Len(got')
    BY <1>0, <2>3, <2>4
  <2> QED  BY <2>1, <2>4, <2>5, <2>6 DEF Phase, Inside
<1> QED  BY <1>2, <1>3, <1>4

(* What is in got and the next byte make the code of the frame, or a first *)
(* byte of a prefix is among them.                                         *)
LEMMA Naming ==
  ASSUME Typed, NEW n \in 0 .. Len(sent), NEW j \in Nat, NEW i, NEW b,
         Comes(n, j, i, b), Phase(n, j), pc = "command", Byte \in Nat
  PROVE  LET code == Append(got, Byte)
         IN  /\ code \in Seq(Nat) /\ Len(code) = Len(got) + 1
             /\ \/ /\ b = Len(Prefix) + Len(code) /\ Follow(done, sent, i - 1, broken)
                   /\ \A k \in 1 .. Len(code) : code[k] = Code[sent[i].op][k]
                \/ \E k \in 1 .. Len(code) : code[k] = Prefix[1]
<1> DEFINE code == Append(got, Byte)
           L == Len(got)
<1>0. /\ i \in Nat \ {0} /\ n \in Nat /\ b \in Nat \ {0} /\ (i = n \/ i > n)
      /\ sent[i] \in Frames /\ got \in Seq(Nat) /\ L \in Nat /\ L < COMMAND_LEN
      /\ COMMAND_LEN \in Nat /\ Len(Prefix) \in Nat
  BY CameFrom, PrefixBytes, LenProperties, Bounds DEF Typed, TypeOK, Calls
<1>1. /\ code \in Seq(Nat) /\ Len(code) = L + 1 /\ code[L + 1] = Byte
      /\ \A k \in 1 .. L : code[k] = got[k]
  BY <1>0, AppendProperties
<1> HIDE DEF code
<1>2. ASSUME Byte = Prefix[1] PROVE \E k \in 1 .. Len(code) : code[k] = Prefix[1]
  BY <1>0, <1>1, <1>2, SMTT(30)
<1>3. ASSUME NEW k \in 1 .. L, got[k] = Prefix[1]
      PROVE  \E x \in 1 .. Len(code) : code[x] = Prefix[1]
  <2>1. k \in 1 .. Len(code) /\ code[k] = Prefix[1]
    BY <1>0, <1>1, <1>3
  <2> QED  BY <2>1
<1>4. CASE i > n
  <2>1. Byte = Prefix[1]
    BY <1>4, CameFrom
  <2> QED  BY <1>1, <1>2, <2>1 DEF code
<1>5. CASE i = n
  <2>1. \/ /\ n > 0 /\ j = Len(Prefix) + L /\ Starts(Code[sent[n].op])
           /\ Follow(done, sent, n - 1, broken)
        \/ \E k \in 1 .. L : got[k] = Prefix[1]
    BY DEF Phase
  <2>2. CASE \E k \in 1 .. L : got[k] = Prefix[1]
    BY <1>1, <1>3, <2>2 DEF code
  <2>3. CASE /\ j = Len(Prefix) + L /\ Starts(Code[sent[n].op])
             /\ Follow(done, sent, n - 1, broken)
    <3>1. Byte = Bytes(sent[i])[b] /\ b = j + 1
      <4>1. Byte = Bytes(sent[i])[b] /\ ((i = n /\ b = j + 1) \/ i > n)
        BY DEF Comes
      <4> QED  BY <1>0, <1>5, <4>1
    <3>2. b = Len(Prefix) + (L + 1) /\ L + 1 \in 1 .. COMMAND_LEN
      BY <1>0, <2>3, <3>1
    <3>3. Byte = Code[sent[i].op][L + 1]
      <4> DEFINE m == L + 1
      <4>1. m \in 1 .. COMMAND_LEN /\ Byte = Bytes(sent[i])[Len(Prefix) + m]
        BY <3>1, <3>2
      <4> HIDE DEF m
      <4>2. Byte = Code[sent[i].op][m]
        BY <1>0, <4>1, FrameBytes
      <4> QED  BY <4>2 DEF m
    <3>4. \A k \in 1 .. Len(code) : code[k] = Code[sent[i].op][k]
      <4> SUFFICES ASSUME NEW k \in 1 .. Len(code) PROVE code[k] = Code[sent[i].op][k]
        OBVIOUS
      <4>1. CASE k = L + 1
        BY <1>1, <3>3, <4>1
      <4>2. CASE k # L + 1
        <5>1. k \in 1 .. L
          BY <1>0, <1>1, <4>2
        <5> QED  BY <1>1, <1>5, <2>3, <5>1 DEF Starts
      <4> QED  BY <4>1, <4>2
    <3>5. b = Len(Prefix) + Len(code) /\ Follow(done, sent, i - 1, broken)
      BY <1>1, <1>5, <2>3, <3>2
    <3> QED  BY <1>1, <3>4, <3>5 DEF code
  <2> QED  BY <2>1, <2>2, <2>3
<1> QED  BY <1>0, <1>4, <1>5

(* The bytes of a frame behind its command are its arguments. *)
LEMMA FromConcat ==
  ASSUME NEW a \in Seq(Nat), NEW b \in Seq(Nat)
  PROVE  From(a \o b, Len(a)) = b
<1> DEFINE c == a \o b
           m == Len(a)
           e == SubSeq(c, m + 1, Len(c))
<1>1. /\ c \in Seq(Nat) /\ Len(c) = m + Len(b) /\ m \in Nat /\ Len(b) \in Nat
      /\ \A i \in 1 .. m + Len(b) : c[i] = IF i <= m THEN a[i] ELSE b[i - m]
  BY ConcatProperties, LenProperties
<1> HIDE DEF c, m
<1>2. CASE Len(b) = 0
  <2>1. b = <<>> /\ Len(c) = m
    BY <1>1, <1>2, EmptySeq
  <2>2. e = <<>>
    BY <1>1, <2>1, SubSeqEmpty
  <2> QED  BY <2>1, <2>2 DEF From, c, m
<1>3. CASE Len(b) # 0
  <2>0. m + 1 \in 1 .. Len(c) + 1 /\ Len(c) \in m .. Len(c) /\ Len(c) \in Nat /\ m + 1 <= Len(c)
    BY <1>1, <1>3
  <2>1. \A i \in m + 1 .. Len(c) : c[i] \in Nat
    <3>1. \A i \in m + 1 .. Len(c) : i \in 1 .. Len(c)
      BY <1>1
    <3> QED  BY <1>1, <3>1, ElementOfSeq
  <2>2. /\ e \in Seq(Nat) /\ Len(e) = Len(c) - (m + 1) + 1
        /\ \A i \in 1 .. Len(c) - (m + 1) + 1 : e[i] = c[(m + 1) + i - 1]
    BY <1>1, <2>0, <2>1, SubSeqProperties
  <2> HIDE DEF e
  <2>3. Len(e) = Len(b)
    BY <1>1, <2>2
  <2>4. ASSUME NEW i \in 1 .. Len(e) PROVE e[i] = b[i]
    <3> DEFINE k == m + i
    <3>1. /\ i \in 1 .. Len(c) - (m + 1) + 1 /\ (m + 1) + i - 1 = k
          /\ k \in 1 .. m + Len(b) /\ ~(k <= m) /\ k - m = i
      BY <1>1, <2>2, <2>3
    <3> HIDE DEF k
    <3>2. e[i] = c[k]
      BY <2>2, <3>1
    <3>3. c[k] = b[k - m]
      BY <1>1, <3>1
    <3> QED  BY <3>1, <3>2, <3>3
  <2>5. e = b
    BY <2>2, <2>3, <2>4, SeqEqual
  <2> QED  BY <2>5 DEF From, c, m, e
<1> QED  BY <1>2, <1>3

LEMMA BehindCommand ==
  ASSUME NEW f \in Frames
  PROVE  From(Bytes(f), Len(Prefix) + COMMAND_LEN) = Arguments(f)
<1> DEFINE code == Code[f.op]
           rest == Arguments(f)
           p == Prefix
           head == p \o code
<1>1. /\ p \in Seq(Nat) /\ code \in Seq(Nat) /\ rest \in Seq(Nat) /\ Len(code) = COMMAND_LEN
      /\ Bytes(f) = p \o (code \o rest)
  BY PrefixBytes, FrameParts, CodeBytes, BytesTyped DEF Bytes
<1> HIDE DEF code, rest, p
<1>2. head \in Seq(Nat) /\ Len(head) = Len(p) + Len(code)
  BY <1>1, ConcatProperties
<1>3. head \o rest = p \o (code \o rest)
  BY <1>1, Grouped, SMTT(30)
<1> HIDE DEF head
<1>4. From(head \o rest, Len(head)) = rest
  BY <1>1, <1>2, FromConcat
<1>5. From(Bytes(f), Len(p) + COMMAND_LEN) = rest
  BY <1>1, <1>2, <1>3, <1>4
<1> QED  BY <1>5 DEF p, rest

LEMMA PrefixItself ==
  ASSUME NEW s \in Seq(Nat)
  PROVE  IsPrefix(s, s) /\ IsPrefix(<<>>, s)
<1>1. Len(s) \in Nat /\ Len(<<>>) = 0
  BY LenProperties, EmptySeq
<1>2. SubSeq(s, 1, 0) = <<>> /\ SubSeq(<<>>, 1, 0) = <<>>
  BY SubSeqEmpty
<1> QED  BY <1>1, <1>2 DEF IsPrefix

LEMMA EffectOfSelf ==
  ASSUME NEW f \in Frames
  PROVE  EffectOf(f, f)
<1>1. f.key \in Seq(Nat) /\ f.value \in Seq(Nat)
  BY FrameParts
<1> QED  BY <1>1, PrefixItself DEF EffectOf

LEMMA CommandTraced ==
  ASSUME Typed, ReadCommand, NEW n \in 0 .. Len(sent), NEW j \in Nat, NEW i, NEW b,
         Comes(n, j, i, b), Phase(n, j)
  PROVE  Phase(i, b)'
<1> DEFINE code == Append(got, Byte)
<1>0. /\ i \in Nat \ {0} /\ n \in Nat /\ b \in Nat \ {0} /\ n <= i /\ sent[i] \in Frames
      /\ pc = "command" /\ sent' = sent /\ matched' = 0 /\ Byte \in Nat /\ broken' = broken
      /\ COMMAND_LEN \in Nat /\ i > 0 /\ i - 1 \in Nat /\ i - 1 <= i
  <2>1. pc = "command" /\ Take /\ matched' = matched /\ TypeOK
    BY DEF ReadCommand, Typed
  <2>2. sent' = sent /\ Byte \in Nat /\ matched' = 0 /\ broken' = broken
    BY <2>1, TakeTyped, MatchedStays DEF Take
  <2>3. i \in Nat \ {0} /\ n \in Nat /\ b \in Nat \ {0} /\ n <= i /\ sent[i] \in Frames
    BY CameFrom
  <2> QED  BY <2>1, <2>2, <2>3, Bounds
<1>1. Follow(done, sent, n, broken) /\ Follow(done, sent, i, broken)
  BY <1>0, OfFirst DEF Phase
<1>2. /\ code \in Seq(Nat) /\ Len(code) = Len(got) + 1
      /\ \/ /\ b = Len(Prefix) + Len(code) /\ Follow(done, sent, i - 1, broken)
            /\ \A k \in 1 .. Len(code) : code[k] = Code[sent[i].op][k]
         \/ \E k \in 1 .. Len(code) : code[k] = Prefix[1]
  <2> HIDE DEF code
  <2>1. pc = "command" /\ Byte \in Nat
    BY <1>0
  <2> QED  BY <2>1, Naming DEF code
<1>3. \/ Len(code) < COMMAND_LEN /\ Collect(code)
      \/ /\ Len(code) = COMMAND_LEN
         /\ \E o \in Ops : Code[o] = code /\ Dispatch(o)
      \/ Read("prefix") /\ Keep
  BY DEF ReadCommand
<1> HIDE DEF code
<1>4. CASE Len(code) < COMMAND_LEN /\ Collect(code)
  <2>1. got' = code /\ pc' = "command" /\ done' = done
    BY <1>0, <1>4 DEF Collect
  <2>2. Len(Code[sent[i].op]) = COMMAND_LEN
    BY <1>0, FrameParts, CodeBytes
  <2>3. \/ /\ b = Len(Prefix) + Len(got') /\ Starts(Code[sent[i].op])'
           /\ Follow(done', sent', i - 1, broken')
        \/ \E k \in 1 .. Len(got') : got'[k] = Prefix[1]
    <3>1. CASE /\ b = Len(Prefix) + Len(code) /\ Follow(done, sent, i - 1, broken)
               /\ \A k \in 1 .. Len(code) : code[k] = Code[sent[i].op][k]
      <4>1. Starts(Code[sent[i].op])'
        <5>1. Len(got') <= COMMAND_LEN
          <6>1. Len(code) \in Nat
            BY <1>2, LenProperties
          <6> QED  BY <1>0, <1>4, <2>1, <6>1
        <5>2. \A k \in 1 .. Len(got') : got'[k] = Code[sent'[i].op][k]
          BY <1>0, <2>1, <3>1
        <5>3. Len(Code[sent'[i].op]) = COMMAND_LEN
          BY <1>0, <2>2
        <5> QED  BY <5>1, <5>2, <5>3 DEF Starts
      <4> QED  BY <1>0, <2>1, <3>1, <4>1
    <3>2. CASE \E k \in 1 .. Len(code) : code[k] = Prefix[1]
      BY <2>1, <3>2
    <3> QED  BY <1>2, <3>1, <3>2
  <2>4. Follow(done', sent', i, broken')
    BY <1>0, <1>1, <2>1
  <2> QED  BY <1>0, <2>1, <2>3, <2>4 DEF Phase, Inside
<1>5. CASE /\ Len(code) = COMMAND_LEN
           /\ \E o \in Ops : Code[o] = code /\ Dispatch(o)
  <2>1. PICK o \in Ops : Code[o] = code /\ Dispatch(o)
    BY <1>5
  <2>2. ~\E k \in 1 .. Len(code) : code[k] = Prefix[1]
    <3>1. \A k \in 1 .. COMMAND_LEN : Code[o][k] # Prefix[1]
      BY UsbAssumption
    <3> QED  BY <1>5, <2>1, <3>1
  <2>3. Follow(done, sent, i - 1, broken) /\ \A k \in 1 .. Len(code) : code[k] = Code[sent[i].op][k]
    BY <1>2, <2>2
  <2>4. o = sent[i].op
    <3>1. /\ sent[i].op \in Ops /\ Code[sent[i].op] \in Seq(Nat)
          /\ Len(Code[sent[i].op]) = COMMAND_LEN
      BY <1>0, FrameParts, CodeBytes
    <3>2. code = Code[sent[i].op]
      BY <1>2, <1>5, <2>3, <3>1, SeqEqual
    <3> QED  BY <2>1, <3>1, <3>2, UsbAssumption
  <2>5. op' = o /\ pc' # "command"
    BY <2>1 DEF Dispatch, Read
  <2>6. CASE o \in KeyOps \cup {"data", "zipd"}
    <3>1. done' = done
      BY <2>1, <2>6 DEF Dispatch
    <3>2. op' = sent'[i].op /\ Follow(done', sent', i - 1, broken') /\ Follow(done', sent', i, broken')
          /\ i \in 1 .. i
      BY <1>0, <1>1, <2>3, <2>4, <2>5, <3>1
    <3>f. PICK f \in Frames : f = sent[i]
      BY <1>0
    <3>r. PICK r : r = From(Bytes(f), b)
      OBVIOUS
    <3>3. Within(f, r)'
      <4>1. ReadsOn(f, Arguments(f))
        <5>1. Dispatch(f.op) /\ matched' = matched
          BY <2>1, <2>4, <3>f DEF ReadCommand
        <5> QED  BY <1>0, <5>1, Dispatches
      <4>2. pc' \in {"key", "picture", "size"}
        BY <2>1, <2>6 DEF Dispatch, Read
      <4>3. Within(f, Arguments(f))'
        BY <4>1, <4>2 DEF ReadsOn, Rests
      <4>4. b = Len(Prefix) + COMMAND_LEN
        <5>1. ~\E k \in 1 .. Len(code) : code[k] = Prefix[1]
          BY <2>2
        <5> QED  BY <1>2, <1>5, <5>1
      <4>5. r = Arguments(f)
        BY <3>r, <4>4, BehindCommand
      <4> QED  BY <4>3, <4>5
    <3>4. Within(sent[i], From(Bytes(sent[i]), b))'
      <4>1. sent'[i] = f
        BY <1>0, <3>f
      <4> QED  BY <3>3, <3>r, <4>1
    <3> QED  BY <1>0, <2>5, <3>2, <3>4 DEF Phase
  <2>7. CASE o \notin KeyOps \cup {"data", "zipd"}
    <3>1. /\ done' = Append(done, [op |-> o, key |-> <<>>, value |-> <<>>])
          /\ pc' \in {"off", "prefix"}
      BY <2>1, <2>7 DEF Dispatch, Read
    <3>2. Follow(done', sent', i, broken')
      <4> DEFINE e == [op |-> o, key |-> <<>>, value |-> <<>>]
      <4>1. e \in Frame /\ done \in Seq(Frame)
        BY EmptySeq DEF Frame, Typed, TypeOK
      <4>3. Made(e, sent[i], broken)
        <5>f. PICK f \in Frames : f = sent[i]
          BY <1>0
        <5>1. f = [op |-> f.op, key |-> f.key, value |-> f.value] /\ f.op = o
          BY <2>4, <5>f, FrameParts
        <5>2. f.key = <<>> /\ f.value = <<>>
          BY <2>7, <5>1, FrameParts DEF KeyOps
        <5>3. e = f
          BY <5>1, <5>2
        <5> QED  BY <5>3, <5>f, EffectOfSelf DEF Made
      <4> HIDE DEF e
      <4>2. Follow(Append(done, e), sent, i, broken)
        BY <1>0, <2>3, <4>1, <4>3, FollowMore
      <4> QED  BY <1>0, <3>1, <4>2 DEF e
    <3>3. pc' \notin Inside
      BY <3>1 DEF Inside
    <3> QED  BY <1>0, <2>5, <3>2, <3>3 DEF Phase
  <2> QED  BY <2>6, <2>7
<1>6. CASE Read("prefix") /\ Keep
  <2>1. pc' = "prefix" /\ done' = done
    BY <1>6 DEF Read, Keep
  <2> QED  BY <1>0, <1>1, <2>1, OutOfFrames DEF Inside
<1> QED  BY <1>3, <1>4, <1>5, <1>6

-----------------------------------------------------------------------------
(* What the readers of arguments may do with them. *)
Outcome ==
  /\ matched' = 0
  /\ \/ pc' \in Inside /\ op' = op /\ done' = done
     \/ pc' = "prefix" /\ done' = done
     \/ pc' = "prefix" /\ \E k, v \in Seq(Nat) : Effect(k, v)

(* Nothing of another frame comes to what is read for f; r is left of it. *)
Faithful(f, r) ==
  \/ pc' = "prefix" /\ done' = done
  \/ /\ pc' = "prefix"
     /\ \E k, v \in Seq(Nat) : /\ Effect(k, v)
                               /\ EffectOf([op |-> op, key |-> k, value |-> v], f)
  \/ /\ pc' \in Inside /\ op' = op /\ done' = done
     /\ (CutKey(f) \/ Within(f, r) \/ LeftBehind(f, r))'

LEMMA EffectTraced ==
  ASSUME Typed, pc \in Inside, sent' = sent, broken' = broken, matched' = 0,
         NEW c \in Nat \ {0}, op = sent[c].op, Follow(done, sent, c - 1, broken),
         NEW i \in Nat, c <= i, NEW b, pc' = "prefix",
         NEW k \in Seq(Nat), NEW v \in Seq(Nat), Effect(k, v),
         broken \/ EffectOf([op |-> op, key |-> k, value |-> v], sent[c])
  PROVE  Phase(i, b)'
<1> DEFINE e == [op |-> op, key |-> k, value |-> v]
<1>1. op \in Ops /\ done \in Seq(Frame)
  BY DEF Typed, TypeOK, Calls, Inside
<1>2. e \in Frame /\ Made(e, sent[c], broken)
  BY <1>1 DEF Frame, Made
<1>3. done' = Append(done, e)
  BY DEF Effect
<1> HIDE DEF e
<1>4. Follow(Append(done, e), sent, i, broken)
  BY <1>1, <1>2, FollowMore
<1>5. Follow(done', sent', i, broken')
  BY <1>3, <1>4
<1> QED  BY <1>5 DEF Phase, Inside

LEMMA InsideTraced ==
  ASSUME sent' = sent, broken' = broken, done' = done, op' = op, matched' = 0,
         pc' \in Inside, NEW i \in Nat, NEW b, Follow(done, sent, i, broken),
         NEW c \in 1 .. i, op = sent[c].op, Follow(done, sent, c - 1, broken),
         NEW f, f = sent[c],
         \/ broken
         \/ CutKey(f)'
         \/ c = i /\ (Within(f, From(Bytes(f), b)) \/ LeftBehind(f, From(Bytes(f), b)))'
  PROVE  Phase(i, b)'
<1>1. pc' # "command"
  BY DEF Inside
<1>2. /\ op' = sent'[c].op /\ Follow(done', sent', c - 1, broken')
      /\ Follow(done', sent', i, broken') /\ sent'[c] = f
  OBVIOUS
<1>3. \/ broken' \/ CutKey(sent[c])'
      \/ c = i /\ Within(sent[c], From(Bytes(sent[c]), b))'
      \/ c = i /\ LeftBehind(sent[c], From(Bytes(sent[c]), b))'
  BY <1>2
<1> QED  BY <1>1, <1>2, <1>3 DEF Phase

LEMMA OutcomeTraced ==
  ASSUME Typed, pc \in Inside, sent' = sent, broken' = broken, broken, Outcome,
         NEW n \in Nat, NEW j \in Nat, Phase(n, j), NEW i \in Nat, n <= i, NEW b
  PROVE  Phase(i, b)'
<1>1. Follow(done, sent, n, broken) /\ Follow(done, sent, i, broken)
  BY OfFirst DEF Phase
<1>2. PICK c \in 1 .. n : op = sent[c].op /\ Follow(done, sent, c - 1, broken)
  BY DEF Phase
<1>3. c \in 1 .. i /\ c \in Nat \ {0} /\ c <= i /\ matched' = 0
  BY DEF Outcome
<1>f. PICK f : f = sent[c]
  OBVIOUS
<1>4. CASE pc' \in Inside /\ op' = op /\ done' = done
  BY <1>1, <1>2, <1>3, <1>4, <1>f, InsideTraced
<1>5. CASE pc' = "prefix" /\ done' = done
  BY <1>1, <1>5, OutOfFrames DEF Outcome, Inside
<1>6. CASE pc' = "prefix" /\ \E k, v \in Seq(Nat) : Effect(k, v)
  BY <1>2, <1>3, <1>6, EffectTraced
<1> QED  BY <1>4, <1>5, <1>6 DEF Outcome

LEMMA FaithfulTraced ==
  ASSUME Typed, pc \in Inside, sent' = sent, broken' = broken, matched' = 0,
         NEW n \in Nat, NEW i \in Nat, n <= i, Follow(done, sent, n, broken),
         NEW c \in 1 .. n, op = sent[c].op, Follow(done, sent, c - 1, broken),
         NEW f, f = sent[c], NEW b, NEW r, Faithful(f, r),
         (c = i /\ r = From(Bytes(f), b)) \/ (CutKey(f)' \/ pc' = "prefix")
  PROVE  Phase(i, b)'
<1>1. Follow(done, sent, i, broken)
  BY OfFirst
<1>2. c \in 1 .. i /\ c \in Nat \ {0} /\ c <= i
  OBVIOUS
<1>3. CASE pc' = "prefix" /\ done' = done
  <2>1. pc' \notin Inside \cup {"command"}
    BY <1>3 DEF Inside
  <2> QED  BY <1>3, <2>1, OutOfFrames
<1>4. CASE /\ pc' = "prefix"
           /\ \E k, v \in Seq(Nat) : /\ Effect(k, v)
                                     /\ EffectOf([op |-> op, key |-> k, value |-> v], f)
  BY <1>2, <1>4, EffectTraced
<1>5. CASE /\ pc' \in Inside /\ op' = op /\ done' = done
           /\ (CutKey(f) \/ Within(f, r) \/ LeftBehind(f, r))'
  <2>1. \/ CutKey(f)'
        \/ c = i /\ (Within(f, From(Bytes(f), b)) \/ LeftBehind(f, From(Bytes(f), b)))'
    BY <1>5 DEF Inside
  <2> QED  BY <1>1, <1>2, <1>5, <2>1, InsideTraced
<1> QED  BY <1>3, <1>4, <1>5 DEF Faithful

LEMMA ArgumentOutcome ==
  ASSUME Typed, NEW a \in Seq(Nat), ArgumentRead(a), matched' = 0
  PROVE  Outcome
<1>1. <<>> \in Seq(Nat) /\ key \in Seq(Nat)
  BY EmptySeq DEF Typed, TypeOK
<1>2. CASE KeyRead(a)
  <2>1. CASE Read("prefix") /\ Keep
    BY <2>1 DEF Outcome, Read, Keep
  <2>2. CASE Read("value") /\ UNCHANGED <<op, size, done>>
    BY <2>2 DEF Outcome, Read, Inside
  <2>3. CASE Effect(a, <<>>) /\ Read("prefix")
    BY <1>1, <2>3 DEF Outcome, Read
  <2> QED  BY <1>2, <2>1, <2>2, <2>3 DEF KeyRead
<1>3. CASE ValueRead(a)
  <2>1. pc' = "prefix"
    BY <1>3 DEF ValueRead, Read, AfterValue
  <2>2. done' = done \/ Effect(key, a)
    BY <1>3 DEF ValueRead
  <2> QED  BY <1>1, <2>1, <2>2 DEF Outcome
<1> QED  BY <1>2, <1>3 DEF ArgumentRead

LEMMA GetOutcome ==
  ASSUME Typed, getUntil
  PROVE  Outcome /\ pc \in Inside
<1>0. /\ pc \in {"key", "value"} /\ pc \in Inside /\ Take /\ matched' = 0 /\ got \in Seq(Nat)
  BY MatchedStays DEF getUntil, Inside, Typed, TypeOK
<1>1. Append(got, Byte) \in Seq(Nat)
  BY <1>0, TakeTyped DEF Typed, Take
<1>2. CASE UNCHANGED pc /\ Keep
  BY <1>0, <1>2 DEF Outcome, Keep
<1>3. CASE ArgumentRead(got)
  BY <1>0, <1>3, ArgumentOutcome
<1>4. CASE ArgumentRead(Append(got, Byte))
  <2> DEFINE a == Append(got, Byte)
  <2>1. a \in Seq(Nat) /\ ArgumentRead(a)
    BY <1>1, <1>4
  <2> HIDE DEF a
  <2> QED  BY <1>0, <2>1, ArgumentOutcome
<1> QED  BY <1>0, <1>2, <1>3, <1>4 DEF getUntil

LEMMA BodyOutcome ==
  ASSUME Typed, handleData \/ ReadSize \/ handleZippedData
  PROVE  Outcome /\ pc \in Inside
<1>0. pc \in {"picture", "size", "zipped"} /\ pc \in Inside /\ Take /\ matched' = 0
  BY MatchedStays DEF handleData, ReadSize, handleZippedData, Inside
<1>1. <<>> \in Seq(Nat) /\ Append(got, Byte) \in Seq(Nat)
  BY <1>0, TakeTyped, EmptySeq DEF Typed, Take
<1>2. pc' = pc /\ op' = op /\ done' = done => Outcome
  BY <1>0 DEF Outcome
<1>3. CASE handleData
  <2>1. CASE Collect(Append(got, Byte))
    BY <1>0, <1>2, <2>1 DEF Collect
  <2>2. CASE Effect(<<>>, Append(got, Byte)) /\ Read("prefix")
    <3>1. pc' = "prefix"
      BY <2>2 DEF Read
    <3> QED  BY <1>0, <1>1, <2>2, <3>1 DEF Outcome
  <2> QED  BY <1>3, <2>1, <2>2 DEF handleData
<1>4. CASE ReadSize
  <2>1. op' = op /\ done' = done /\ pc' \in {"zipped", "prefix"}
    BY <1>4 DEF ReadSize, Read
  <2> QED  BY <1>0, <2>1 DEF Outcome, Inside
<1>5. CASE handleZippedData
  <2>1. CASE Collect(Append(got, Byte))
    BY <1>0, <1>2, <2>1 DEF Collect
  <2>2. CASE (done' = done \/ Effect(<<>>, Append(got, Byte))) /\ Read("prefix")
    <3>1. pc' = "prefix"
      BY <2>2 DEF Read
    <3> QED  BY <1>0, <1>1, <2>2, <3>1 DEF Outcome
  <2> QED  BY <1>5, <2>1, <2>2 DEF handleZippedData
<1> QED  BY <1>0, <1>3, <1>4, <1>5

-----------------------------------------------------------------------------
(* Unless a frame was broken off, the readers are faithful to the frame    *)
(* whose arguments they read.                                              *)
LEMMA KeyFaithful ==
  ASSUME Typed, NEW f \in Frames, op = f.op, op \in KeyOps,
         NEW a \in Seq(Nat), IsPrefix(a, f.key), KeyRead(a), NEW r,
         a = f.key /\ op = "kset" /\ key' = a /\ Read("value") => (Within(f, r) \/ LeftBehind(f, r))'
  PROVE  Faithful(f, r)
<1>1. CASE Read("prefix") /\ Keep
  BY <1>1 DEF Faithful, Read, Keep
<1>2. CASE op = "kset" /\ key' = a /\ Read("value") /\ UNCHANGED <<op, size, done>>
  <2>1. pc' = "value" /\ op' = op /\ done' = done /\ pc' \in Inside
    BY <1>2 DEF Read, Inside
  <2>2. CASE a = f.key
    BY <1>2, <2>1, <2>2 DEF Faithful
  <2>3. CASE a # f.key
    <3>1. CutKey(f)'
      BY <1>2, <2>1, <2>3 DEF CutKey
    <3> QED  BY <2>1, <3>1 DEF Faithful
  <2> QED  BY <2>2, <2>3
<1>3. CASE op # "kset" /\ Effect(a, <<>>) /\ Read("prefix")
  <2>1. f.value = <<>> /\ <<>> \in Seq(Nat)
    BY <1>3, FrameParts, EmptySeq DEF KeyOps
  <2>2. IsPrefix(<<>>, f.value)
    BY <2>1, PrefixItself
  <2>3. EffectOf([op |-> op, key |-> a, value |-> <<>>], f)
    BY <2>1, <2>2 DEF EffectOf
  <2>4. pc' = "prefix"
    BY <1>3 DEF Read
  <2> QED  BY <1>3, <2>1, <2>3, <2>4 DEF Faithful
<1> QED  BY <1>1, <1>2, <1>3 DEF KeyRead

LEMMA ValueFaithful ==
  ASSUME Typed, NEW f \in Frames, op = "kset", IsPrefix(key, f.key), NEW a \in Seq(Nat),
         key = f.key => IsPrefix(a, f.value), ValueRead(a), NEW r
  PROVE  Faithful(f, r)
<1>1. pc' = "prefix" /\ key \in Seq(Nat)
  BY DEF ValueRead, AfterValue, Read, Typed, TypeOK
<1>2. CASE Effect(key, a)
  <2>1. EffectOf([op |-> op, key |-> key, value |-> a], f)
    BY DEF EffectOf
  <2> QED  BY <1>1, <1>2, <2>1 DEF Faithful
<1>3. CASE done' = done
  BY <1>1, <1>3 DEF Faithful
<1> QED  BY <1>2, <1>3 DEF ValueRead

LEMMA GotByBytes ==
  ASSUME Typed, NEW s \in Seq(Nat), ReadsArgument(s)
  PROVE  got \in Seq(Nat) /\ IsPrefix(got, s)
<1>1. got \in Seq(Nat) /\ Starts(s)
  BY DEF Typed, TypeOK, ReadsArgument
<1> QED  BY <1>1, PrefixByBytes DEF Starts

LEMMA FaithfulKey ==
  ASSUME Typed, NEW f \in Frames, NEW r, Within(f, r), getUntil, pc = "key", Byte = Head(r)
  PROVE  Faithful(f, Tail(r))
<1> DEFINE s == f.key
           p == Pending(s)
<1>0. /\ op = f.op /\ op \in KeyOps /\ s \in Seq(Nat) /\ ReadsArgument(s)
      /\ r = p \o Behind(f) /\ Behind(f) \in Seq(Nat) /\ f.value \in Seq(Nat)
      /\ got \in Seq(Nat) /\ escaped \in BOOLEAN
  BY FrameParts, BehindTyped DEF Within, Typed, TypeOK, Calls
<1>2. p \in Seq(Nat) /\ p # <<>>
  BY <1>0, PendingByte
<1>3. /\ r # <<>> /\ Head(r) = Head(p) /\ Tail(r) = Tail(p) \o Behind(f)
  BY <1>0, <1>2, HeadOfConcat
<1>5. GoesOn(s)
  BY <1>0, <1>3, GetsArgument
<1> HIDE DEF p
<1>6. CASE UNCHANGED <<pc, op, key, size, done>> /\ ReadsArgument(s)' /\ Pending(s)' = Tail(p)
  <2>1. pc' = "key" /\ "key" \in Reading /\ "key" \in Inside
    BY <1>6 DEF Reading, Inside
  <2>2. Within(f, Tail(r))'
    BY <1>0, <1>3, <1>6, <2>1 DEF Within, Behind
  <2> QED  BY <1>6, <2>1, <2>2 DEF Faithful
<1>7. CASE KeyRead(s) /\ Tail(p) \in {<<>>, <<Separator>>}
  <2>1. ASSUME op = "kset", key' = s, Read("value")
        PROVE  (Within(f, Tail(r)) \/ LeftBehind(f, Tail(r)))'
    <3>0. KeyRead(s) /\ op' = op
      BY <1>7, <2>1 DEF KeyRead, Read, Keep
    <3>1. pc' = "value" /\ got' = <<>> /\ ~escaped' /\ "value" \in Reading
      BY <2>1 DEF Read, Reading
    <3>2. ReadsArgument(f.value)' /\ Pending(f.value)' = Argument(f.value)
      BY <1>0, <3>1, ArgumentBegins
    <3>3. Behind(f) = Argument(f.value)
      BY <1>0, <2>1 DEF Behind
    <3>4. CASE Tail(p) = <<>>
      <4>1. Tail(r) = Argument(f.value)
        BY <1>0, <1>3, <3>3, <3>4, ConcatEmptySeq
      <4>2. Within(f, Tail(r))'
        BY <1>0, <2>1, <3>0, <3>1, <3>2, <4>1 DEF Within
      <4> QED  BY <4>2
    <3>5. CASE Tail(p) = <<Separator>>
      <4>1. Tail(r) = <<Separator>> \o Behind(f)
        BY <1>3, <3>5
      <4>2. Tail(r) # <<>> /\ Head(Tail(r)) = Separator
        <5> DEFINE b == Behind(f)
        <5>1. Separator \in Nat /\ b \in Seq(Nat)
          BY <1>0, Bounds
        <5> HIDE DEF b
        <5>2. <<Separator>> \o b # <<>> /\ Head(<<Separator>> \o b) = Separator
          BY <5>1, ByteSeq
        <5> QED  BY <4>1, <5>2 DEF b
      <4>3. LeftBehind(f, Tail(r))'
        BY <2>1, <3>1, <4>2 DEF LeftBehind
      <4> QED  BY <4>3
    <3> QED  BY <1>7, <3>4, <3>5
  <2>2. IsPrefix(s, f.key)
    BY <1>0, PrefixItself
  <2>r. PICK q : q = Tail(r)
    OBVIOUS
  <2>3. Faithful(f, q)
    <3>1. s = f.key /\ op = "kset" /\ key' = s /\ Read("value") => (Within(f, q) \/ LeftBehind(f, q))'
      BY <2>1, <2>r
    <3> QED  BY <1>0, <1>7, <2>2, <3>1, KeyFaithful
  <2> QED  BY <2>3, <2>r
<1>8. CASE \E a \in Seq(Nat) : IsPrefix(a, s) /\ a # s /\ KeyRead(a)
  BY <1>0, <1>8, KeyFaithful
<1>9. \A a : ArgumentRead(a) => KeyRead(a)
  BY DEF ArgumentRead
<1> QED  BY <1>5, <1>6, <1>7, <1>8, <1>9 DEF GoesOn, p

LEMMA FaithfulValue ==
  ASSUME Typed, NEW f \in Frames, NEW r, Within(f, r), getUntil, pc = "value", Byte = Head(r)
  PROVE  Faithful(f, Tail(r))
<1> DEFINE s == f.value
<1>0. /\ op = f.op /\ op = "kset" /\ key = f.key /\ s \in Seq(Nat) /\ ReadsArgument(s)
      /\ r = Pending(s)
  BY FrameParts DEF Within, Typed, TypeOK, Calls
<1>1. GoesOn(s)
  BY <1>0, GetsArgument
<1>2. IsPrefix(key, f.key) /\ IsPrefix(s, s)
  BY <1>0, FrameParts, PrefixItself
<1>6. CASE UNCHANGED <<pc, op, key, size, done>> /\ ReadsArgument(s)' /\ Pending(s)' = Tail(Pending(s))
  <2>1. pc' = "value" /\ "value" \in Reading /\ "value" \in Inside
    BY <1>6 DEF Reading, Inside
  <2>2. Within(f, Tail(r))'
    BY <1>0, <1>6, <2>1 DEF Within
  <2> QED  BY <1>6, <2>1, <2>2 DEF Faithful
<1>7. ASSUME NEW a \in Seq(Nat), IsPrefix(a, s), ArgumentRead(a) PROVE Faithful(f, Tail(r))
  <2>1. ValueRead(a)
    BY <1>7 DEF ArgumentRead
  <2> QED  BY <1>0, <1>2, <1>7, <2>1, ValueFaithful
<1> QED  BY <1>0, <1>1, <1>2, <1>6, <1>7 DEF GoesOn

(* The separator of a key whose reading is over makes an empty value. *)
LEMMA FaithfulBehind ==
  ASSUME Typed, NEW f \in Frames, op = f.op, NEW r, LeftBehind(f, r), getUntil, Byte = Head(r),
         NEW q
  PROVE  Faithful(f, q)
<1>1. pc = "value" /\ op = "kset" /\ key = f.key /\ got = <<>> /\ got \in Seq(Nat)
      /\ ~escaped /\ Byte = Separator /\ Separator # Escape
  BY Bounds DEF LeftBehind, Typed, TypeOK, Calls
<1>2. ArgumentRead(got)
  BY <1>1 DEF getUntil
<1>3. ValueRead(got)
  BY <1>1, <1>2 DEF ArgumentRead
<1>4. IsPrefix(key, f.key) /\ IsPrefix(got, f.value)
  BY <1>1, FrameParts, PrefixItself
<1> QED  BY <1>1, <1>3, <1>4, ValueFaithful

LEMMA FaithfulCut ==
  ASSUME Typed, NEW f \in Frames, op = f.op, CutKey(f), getUntil, NEW q
  PROVE  Faithful(f, q) /\ (CutKey(f)' \/ pc' = "prefix")
<1>1. /\ pc = "value" /\ op = "kset" /\ IsPrefix(key, f.key) /\ key # f.key
      /\ got \in Seq(Nat) /\ Append(got, Byte) \in Seq(Nat)
  BY TakeTyped DEF CutKey, Typed, TypeOK, Calls, getUntil, Take
<1>2. CASE UNCHANGED pc /\ Keep
  <2>1. CutKey(f)' /\ pc' \in Inside /\ op' = op /\ done' = done
    BY <1>1, <1>2 DEF CutKey, Keep, Inside
  <2> QED  BY <2>1 DEF Faithful
<1>3. ASSUME NEW a \in Seq(Nat), ArgumentRead(a) PROVE Faithful(f, q) /\ pc' = "prefix"
  <2>1. ValueRead(a)
    BY <1>1, <1>3 DEF ArgumentRead
  <2>2. pc' = "prefix"
    BY <2>1 DEF ValueRead, AfterValue, Read
  <2> QED  BY <1>1, <2>1, <2>2, ValueFaithful
<1> QED  BY <1>1, <1>2, <1>3 DEF getUntil

(* The bodies of pictures have no end of their own. *)
LEMMA EndedFaithfully ==
  ASSUME Typed, pc \in Inside, NEW f \in Frames, op = f.op, NEW r, ReadsOn(f, r),
         pc' \in Inside \cup {"prefix"}
  PROVE  Faithful(f, r)
<1>1. CASE Within(f, r)' /\ done' = done
  <2>1. CASE pc' = "prefix"
    BY <1>1, <2>1 DEF Faithful
  <2>2. CASE pc' \in Inside
    <3>1. op' = op
      BY <1>1, <2>2 DEF Within, Inside
    <3> QED  BY <1>1, <2>2, <3>1 DEF Faithful
  <2> QED  BY <2>1, <2>2
<1>2. CASE Rests(r)' /\ done' = Ended(f)
  <2>1. pc' = "prefix"
    BY <1>2 DEF Rests, Inside
  <2>2. CASE done' = Append(done, f)
    <3>1. f = [op |-> op, key |-> f.key, value |-> f.value] /\ f.key \in Seq(Nat) /\ f.value \in Seq(Nat)
      BY FrameParts
    <3>2. Effect(f.key, f.value) /\ EffectOf([op |-> op, key |-> f.key, value |-> f.value], f)
      BY <2>2, <3>1, EffectOfSelf DEF Effect
    <3> QED  BY <2>1, <3>1, <3>2 DEF Faithful
  <2>3. CASE done' = done
    BY <2>1, <2>3 DEF Faithful
  <2> QED  BY <1>2, <2>2, <2>3 DEF Ended
<1> QED  BY <1>1, <1>2 DEF ReadsOn

LEMMA FaithfulBody ==
  ASSUME Typed, NEW f \in Frames, OfPanelSize(f), NEW r, Within(f, r),
         handleData \/ handleZippedData, Byte = Head(r)
  PROVE  Faithful(f, Tail(r))
<1>1. pc \in {"picture", "zipped"} /\ op = f.op /\ pc \in Inside
  BY DEF handleData, handleZippedData, Within, Inside
<1>2. ReadsOn(f, Tail(r))
  BY ReadsData, ReadsZipped
<1>3. pc' \in Inside \cup {"prefix"}
  BY <1>1 DEF handleData, handleZippedData, Collect, Read
<1> QED  BY <1>1, <1>2, <1>3, EndedFaithfully

LEMMA FaithfulSize ==
  ASSUME Typed, NEW f \in Frames, NEW r, Within(f, r), ReadSize, Byte = Head(r)
  PROVE  Faithful(f, Tail(r))
<1>0. /\ pc = "size" /\ op = f.op /\ UNCHANGED <<op, done>> /\ f.value \in Seq(Nat)
      /\ Len(f.value) \in Nat /\ r = <<Len(f.value)>> \o f.value
  BY FrameParts, LenProperties DEF ReadSize, Within
<1>1. Byte = Len(f.value) /\ Tail(r) = f.value
  BY <1>0, ByteSeq
<1>2. CASE Admitted(Byte)
  <2>1. size' = Len(f.value) /\ Read("zipped")
    BY <1>1, <1>2 DEF ReadSize
  <2>2. pc' = "zipped" /\ got' = <<>> /\ Len(got') = 0 /\ "zipped" \in Reading /\ "zipped" \in Inside
    BY <2>1, ReadTyped DEF Reading, Inside
  <2>3. Starts(f.value)' /\ From(f.value, 0) = f.value
    BY <1>0, <2>2, FromEnds DEF Starts
  <2>4. Within(f, Tail(r))'
    BY <1>0, <1>1, <2>1, <2>2, <2>3 DEF Within
  <2> QED  BY <1>0, <2>2, <2>4 DEF Faithful
<1>3. CASE ~Admitted(Byte)
  <2>1. pc' = "prefix"
    BY <1>3 DEF ReadSize, Read
  <2> QED  BY <1>0, <2>1 DEF Faithful
<1> QED  BY <1>2, <1>3

(* A timer that runs out in a key or a value. *)
LEMMA FaithfulTimeout ==
  ASSUME Typed, NEW f \in Frames, op = f.op, pc \in {"key", "value"}, ArgumentRead(got),
         NEW r, CutKey(f) \/ Within(f, r) \/ LeftBehind(f, r)
  PROVE  Faithful(f, r)
<1>0. got \in Seq(Nat) /\ f.key \in Seq(Nat) /\ f.value \in Seq(Nat) /\ op \in KeyOps
      /\ escaped \in BOOLEAN
  BY FrameParts DEF Typed, TypeOK, Calls, KeyOps
<1>1. CASE pc = "key"
  <2>1. KeyRead(got) /\ Within(f, r)
    BY <1>1 DEF ArgumentRead, CutKey, LeftBehind
  <2>2. ReadsArgument(f.key) /\ r = Pending(f.key) \o Behind(f)
    BY <1>1, <2>1 DEF Within, Behind
  <2>3. IsPrefix(got, f.key)
    BY <1>0, <2>2, GotByBytes
  <2>4. ASSUME got = f.key, op = "kset", key' = got, Read("value")
        PROVE  LeftBehind(f, r)'
    <3>1. ~escaped /\ Pending(f.key) = <<Separator>>
      <4>1. ~escaped /\ Len(got) = Len(f.key)
        <5>1. Len(got) = Len(f.key) /\ Len(got) \in Nat
          BY <1>0, <2>4, LenProperties
        <5> QED  BY <2>2, <5>1 DEF ReadsArgument
      <4> QED  BY <1>0, <2>2, <4>1, PendingByte
    <3>2. r # <<>> /\ Head(r) = Separator
      BY <2>2, <3>1, Bounds, BehindTyped, ByteSeq
    <3>3. pc' = "value" /\ got' = <<>> /\ ~escaped' /\ key' = f.key
      BY <2>4 DEF Read
    <3> QED  BY <3>2, <3>3 DEF LeftBehind
  <2> QED  BY <1>0, <2>1, <2>3, <2>4, KeyFaithful
<1>2. CASE pc = "value"
  <2>1. ValueRead(got) /\ op = "kset"
    BY <1>2 DEF ArgumentRead, Typed, Calls
  <2>2. IsPrefix(key, f.key) /\ (key = f.key => IsPrefix(got, f.value))
    <3>1. CASE CutKey(f)
      BY <3>1 DEF CutKey
    <3>2. CASE Within(f, r)
      <4>1. key = f.key /\ ReadsArgument(f.value)
        BY <1>2, <3>2 DEF Within
      <4> QED  BY <1>0, <4>1, GotByBytes, PrefixItself
    <3>3. CASE LeftBehind(f, r)
      BY <1>0, <3>3, PrefixItself DEF LeftBehind
    <3> QED  BY <3>1, <3>2, <3>3
  <2> QED  BY <1>0, <2>1, <2>2, ValueFaithful
<1> QED  BY <1>1, <1>2

(* One byte less of the frame whose arguments are read. *)
LEMMA RestOf ==
  ASSUME Typed, NEW f \in Frames, OfPanelSize(f), NEW j \in Nat,
         Within(f, From(Bytes(f), j)) \/ LeftBehind(f, From(Bytes(f), j))
  PROVE  /\ j < Len(Bytes(f)) /\ Head(From(Bytes(f), j)) = Bytes(f)[j + 1]
         /\ Tail(From(Bytes(f), j)) = From(Bytes(f), j + 1)
<1>1. Bytes(f) \in Seq(Nat) /\ Len(Bytes(f)) \in Nat
  BY BytesTyped, LenProperties
<1>2. From(Bytes(f), j) # <<>>
  BY WithinGoesOn DEF LeftBehind
<1>3. j < Len(Bytes(f))
  <2> SUFFICES ASSUME ~(j < Len(Bytes(f))) PROVE FALSE
    OBVIOUS
  <2>1. j + 1 > Len(Bytes(f))
    BY <1>1
  <2>2. SubSeq(Bytes(f), j + 1, Len(Bytes(f))) = <<>>
    BY <1>1, <2>1, SubSeqEmpty
  <2> QED  BY <1>2, <2>2 DEF From
<1> QED  BY <1>1, <1>3, FromStep

LEMMA ArgumentsTraced ==
  ASSUME Typed, getUntil \/ handleData \/ ReadSize \/ handleZippedData,
         NEW n \in 0 .. Len(sent), NEW j \in Nat, NEW i \in Nat, NEW b \in Nat,
         Comes(n, j, i, b), Phase(n, j),
         ~broken => \A k \in 1 .. Len(sent) : OfPanelSize(sent[k])
  PROVE  Phase(i, b)'
<1>0. /\ sent' = sent /\ broken' = broken /\ matched' = 0 /\ pc \in Inside /\ Outcome
      /\ n \in Nat /\ n <= i /\ i \in Nat \ {0}
  <2>1. Take /\ Outcome /\ pc \in Inside
    BY GetOutcome, BodyOutcome DEF getUntil, handleData, ReadSize, handleZippedData
  <2> QED  BY <2>1, CameFrom DEF Take, cdc_task, Outcome
<1>1. CASE broken
  BY <1>0, <1>1, OutcomeTraced
<1>2. CASE ~broken
  <2>1. PICK c \in 1 .. n :
          /\ op = sent[c].op /\ Follow(done, sent, c - 1, broken)
          /\ \/ broken \/ CutKey(sent[c])
             \/ c = n /\ Within(sent[c], From(Bytes(sent[c]), j))
             \/ c = n /\ LeftBehind(sent[c], From(Bytes(sent[c]), j))
    BY <1>0 DEF Phase
  <2>2. c \in 1 .. Len(sent) /\ sent \in Seq(Frames) /\ Len(sent) \in Nat
    BY LenProperties DEF Typed, TypeOK
  <2>3. sent[c] \in Frames /\ OfPanelSize(sent[c])
    BY <1>2, <2>2, ElementOfSeq
  <2>f. PICK f \in Frames : f = sent[c]
    BY <2>3
  <2>4. OfPanelSize(f) /\ op = f.op /\ Follow(done, sent, n, broken)
    BY <2>1, <2>3, <2>f DEF Phase
  <2>5. CASE CutKey(f)
    <3>1. getUntil
      BY <2>5 DEF CutKey, getUntil, handleData, ReadSize, handleZippedData
    <3>2. PICK q : q = From(Bytes(f), b)
      OBVIOUS
    <3>3. Faithful(f, q) /\ (CutKey(f)' \/ pc' = "prefix")
      BY <2>4, <2>5, <3>1, FaithfulCut
    <3> QED  BY <1>0, <2>1, <2>4, <2>f, <3>3, FaithfulTraced
  <2>6. CASE c = n /\ (Within(f, From(Bytes(f), j)) \/ LeftBehind(f, From(Bytes(f), j)))
    <3>r. PICK r : r = From(Bytes(f), j)
      OBVIOUS
    <3>1. j < Len(Bytes(f)) /\ Head(r) = Bytes(f)[j + 1] /\ Tail(r) = From(Bytes(f), j + 1)
      BY <2>4, <2>6, <3>r, RestOf
    <3>2. i = n /\ b = j + 1 /\ Byte = Head(r)
      <4>1. Len(Bytes(f)) \in Nat /\ n # 0 /\ j # Len(Bytes(f)) /\ f = sent[n]
        BY <2>f, <2>6, <3>1, FrameBytes
      <4>2. /\ Byte = Bytes(sent[i])[b]
            /\ (i = n /\ j > 0 /\ b = j + 1)
               \/ (i > n /\ b = 1 /\ (n = 0 \/ broken \/ j = Len(Bytes(sent[n]))))
        BY DEF Comes
      <4>3. i = n /\ b = j + 1
        BY <1>2, <4>1, <4>2
      <4> QED  BY <3>1, <4>1, <4>2, <4>3
    <3>3. Faithful(f, Tail(r))
      <4>1. CASE LeftBehind(f, r)
        <5>1. getUntil
          BY <4>1 DEF LeftBehind, getUntil, handleData, ReadSize, handleZippedData
        <5> QED  BY <2>4, <3>2, <4>1, <5>1, FaithfulBehind
      <4>2. CASE Within(f, r)
        <5>1. CASE getUntil
          <6>1. pc \in {"key", "value"}
            BY <5>1 DEF getUntil
          <6> QED  BY <3>2, <4>2, <5>1, <6>1, FaithfulKey, FaithfulValue
        <5>2. CASE handleData \/ handleZippedData
          BY <2>4, <3>2, <4>2, <5>2, FaithfulBody
        <5>3. CASE ReadSize
          BY <3>2, <4>2, <5>3, FaithfulSize
        <5> QED  BY <5>1, <5>2, <5>3
      <4> QED  BY <2>6, <3>r, <4>1, <4>2
    <3>4. PICK q : q = Tail(r)
      OBVIOUS
    <3>5. Faithful(f, q) /\ c = i /\ q = From(Bytes(f), b)
      BY <2>6, <3>1, <3>2, <3>3, <3>4
    <3> QED  BY <1>0, <2>1, <2>4, <2>f, <3>5, FaithfulTraced
  <2> QED  BY <1>2, <2>1, <2>5, <2>6, <2>f
<1> QED  BY <1>1, <1>2

LEMMA ReadersTraced ==
  ASSUME Alone, Typed, Traced, Readers \/ OutOfMemory
  PROVE  Traced'
<1>0. /\ cdc_task /\ sent' = sent /\ broken' = broken
      /\ sent \in Seq(Frames) /\ Len(sent) \in Nat
  BY ReadersTake, LenProperties DEF Take, cdc_task, OutOfMemory, Typed, TypeOK
<1>1. PICK n \in 0 .. Len(sent), j \in Nat : ReadTo(n, j) /\ Phase(n, j)
  BY DEF Traced
<1>2. PICK i \in Nat, b \in Nat : Comes(n, j, i, b) /\ ReadTo(i, b)'
  BY <1>0, <1>1, ByteComes
<1>3. n \in Nat /\ n <= i /\ i \in 1 .. Len(sent)
  BY <1>2, CameFrom
<1>4. Phase(i, b)'
  <2>1. CASE waitFor
    BY <1>1, <1>2, <2>1, WaitTraced
  <2>2. CASE ReadCommand
    BY <1>1, <1>2, <2>2, CommandTraced
  <2>3. CASE getUntil \/ handleData \/ ReadSize \/ handleZippedData
    <3>1. ~broken => \A k \in 1 .. Len(sent) : OfPanelSize(sent[k])
      BY DEF Traced
    <3> QED  BY <1>1, <1>2, <2>3, <3>1, ArgumentsTraced
  <2>4. CASE OutOfMemory
    <3>1. pc' = "prefix" /\ done' = done /\ matched' = 0
      BY <2>4, MatchedStays DEF OutOfMemory, Read
    <3>2. Follow(done, sent, n, broken) /\ pc' \notin Inside \cup {"command"}
      BY <1>1, <3>1 DEF Phase, Inside
    <3> QED  BY <1>0, <1>3, <3>1, <3>2, OutOfFrames
  <2> QED  BY <2>1, <2>2, <2>3, <2>4 DEF Readers
<1>5. i \in 0 .. Len(sent') /\ (~broken' => \A k \in 1 .. Len(sent') : OfPanelSize(sent'[k]))
  BY <1>0, <1>3 DEF Traced
<1> QED  BY <1>2, <1>4, <1>5 DEF Traced

(* The command is dropped, or goes on with what getUntil has. *)
LEMMA TimeoutTraced ==
  ASSUME Typed, Traced, Timeout
  PROVE  Traced'
<1>0. /\ sent \in Seq(Frames) /\ Len(sent) \in Nat /\ got \in Seq(Nat)
      /\ sent' = sent /\ line' = line /\ matched' = 0 /\ broken' = broken
  BY LenProperties DEF Typed, TypeOK, Timeout
<1>1. PICK n \in 0 .. Len(sent), j \in Nat : ReadTo(n, j) /\ Phase(n, j)
  BY DEF Traced
<1>2. ReadTo(n, j)'
  BY <1>0, <1>1 DEF ReadTo
<1>3. n \in Nat /\ n <= n /\ Follow(done, sent, n, broken)
  BY <1>0, <1>1 DEF Phase
<1>4. Phase(n, j)'
  <2>1. CASE pc \in {"key", "value"}
    <3>1. ArgumentRead(got) /\ pc \in Inside
      BY <2>1 DEF Timeout, Inside
    <3>2. CASE broken
      <4>1. Outcome
        BY <1>0, <3>1, ArgumentOutcome
      <4> QED  BY <1>0, <1>1, <1>3, <3>1, <3>2, <4>1, OutcomeTraced
    <3>3. CASE ~broken
      <4>1. PICK c \in 1 .. n :
              /\ op = sent[c].op /\ Follow(done, sent, c - 1, broken)
              /\ \/ broken \/ CutKey(sent[c])
                 \/ c = n /\ Within(sent[c], From(Bytes(sent[c]), j))
                 \/ c = n /\ LeftBehind(sent[c], From(Bytes(sent[c]), j))
        BY <1>1, <3>1 DEF Phase
      <4>2. c \in 1 .. Len(sent) /\ sent[c] \in Frames
        BY <1>0, ElementOfSeq
      <4>f. PICK f \in Frames : f = sent[c]
        BY <4>2
      <4>3. CASE CutKey(f)
        <5>r. PICK r : r = From(Bytes(f), j)
          OBVIOUS
        <5>1. Faithful(f, r)
          BY <2>1, <3>1, <4>1, <4>f, <4>3, FaithfulTimeout
        <5>2. pc' = "prefix"
          BY <3>1, <4>3 DEF CutKey, ArgumentRead, ValueRead, AfterValue, Read
        <5> QED  BY <1>0, <1>3, <3>1, <4>1, <4>f, <5>1, <5>2, FaithfulTraced
      <4>4. CASE c = n /\ (Within(f, From(Bytes(f), j)) \/ LeftBehind(f, From(Bytes(f), j)))
        <5>r. PICK r : r = From(Bytes(f), j)
          OBVIOUS
        <5>1. Faithful(f, r)
          BY <2>1, <3>1, <4>1, <4>f, <4>4, <5>r, FaithfulTimeout
        <5> QED  BY <1>0, <1>3, <3>1, <4>1, <4>f, <4>4, <5>1, <5>r, FaithfulTraced
      <4> QED  BY <3>3, <4>1, <4>3, <4>4, <4>f
    <3> QED  BY <3>2, <3>3
  <2>2. CASE pc \notin {"key", "value"}
    <3>1. pc' = "prefix" /\ done' = done
      BY <2>2 DEF Timeout, Read, Keep
    <3> QED  BY <1>0, <1>3, <3>1, OutOfFrames DEF Inside
  <2> QED  BY <2>1, <2>2
<1>5. ~broken' => \A k \in 1 .. Len(sent') : OfPanelSize(sent'[k])
  BY <1>0 DEF Traced
<1> QED  BY <1>0, <1>1, <1>2, <1>4, <1>5 DEF Traced

LEMMA StopTraced ==
  ASSUME Typed, Traced, Stop
  PROVE  Traced'
<1>0. /\ UNCHANGED <<pc, matched, got, escaped, op, key, size, sent, done>> /\ broken' = TRUE
      /\ Len(sent) \in Nat
  BY LenProperties DEF Stop, Typed, TypeOK
<1>1. PICK n \in 0 .. Len(sent), j \in Nat : ReadTo(n, j) /\ Phase(n, j)
  BY DEF Traced
<1>2. ReadTo(n, j)'
  BY <1>1, SentCut
<1>4. ASSUME NEW m \in Nat, Follow(done, sent, m, broken) PROVE Follow(done', sent', m, broken')
  <2>1. Follow(done, sent, m, TRUE)
    BY <1>4 DEF Follow, Made
  <2> QED  BY <1>0, <2>1
<1>5. n \in Nat /\ (n > 0 => n - 1 \in Nat) /\ \A c \in 1 .. n : c - 1 \in Nat
  BY <1>0
<1>3. Phase(n, j)'
  <2>1. /\ matched' > 0 =>
             /\ n > 0 /\ matched' <= j
             /\ \A k \in 1 .. matched' : Bytes(sent'[n])[j - matched' + k] = Prefix[k]
             /\ j = matched' => Follow(done', sent', n - 1, broken')
    BY <1>0, <1>1, <1>4, <1>5 DEF Phase
  <2>2. pc' = "command" =>
          \/ /\ n > 0 /\ j = Len(Prefix) + Len(got') /\ Starts(Code[sent[n].op])'
             /\ Follow(done', sent', n - 1, broken')
          \/ \E k \in 1 .. Len(got') : got'[k] = Prefix[1]
    BY <1>0, <1>1, <1>4, <1>5 DEF Phase, Starts
  <2>3. pc' \in Inside =>
          \E c \in 1 .. n : op' = sent'[c].op /\ Follow(done', sent', c - 1, broken')
    BY <1>0, <1>1, <1>4, <1>5 DEF Phase
  <2>4. Follow(done', sent', n, broken')
    BY <1>1, <1>4, <1>5 DEF Phase
  <2>5. broken'
    BY <1>0
  <2> QED  BY <2>1, <2>2, <2>3, <2>4, <2>5 DEF Phase
<1> QED  BY <1>0, <1>1, <1>2, <1>3 DEF Traced

LEMMA SendTraced ==
  ASSUME Typed, Traced, NEW f \in Frames, Send(f)
  PROVE  Traced'
<1>0. /\ sent \in Seq(Frames) /\ Len(sent) \in Nat /\ Bytes(f) \in Seq(Nat)
      /\ line' = line \o Bytes(f)
      /\ UNCHANGED <<pc, matched, got, escaped, op, key, size>>
  BY BytesTyped, LenProperties DEF Send, Typed, TypeOK
<1>1. CASE AtRest
  <2>1. /\ sent' = <<f>> /\ done' = <<>> /\ pc' = "prefix" /\ matched' = 0
        /\ broken' = ~OfPanelSize(f)
    BY <1>0, <1>1 DEF Send, AtRest
  <2>2. line' = <<>> \o Bytes(f)
    BY <1>0, <1>1 DEF AtRest
  <2>3. <<f>> = Append(<<>>, f) /\ Len(<<f>>) = 1
    OBVIOUS
  <2>4. Ahead(<<f>>, 0, <<>> \o Bytes(f), broken')
    <3>1. 0 \in 0 .. Len(<<>>) /\ Stream(<<>>, 0, <<>>) /\ <<>> \in Seq(Frames)
      BY NothingSent
    <3>2. Stream(Append(<<>>, f), 0, <<>> \o Bytes(f))
      BY <3>1, StreamSend
    <3>3. Stream(<<f>>, 0, <<>> \o Bytes(f)) /\ 0 \in 0 .. Len(<<f>>) /\ <<f>> \in Seq(Frames)
      BY <2>3, <3>2
    <3> QED  BY <3>3, StreamPieces DEF Ahead
  <2>5. /\ <<>> \o Bytes(f) = Bytes(f) /\ <<>> \in Seq(Nat)
    BY <1>0, ConcatEmptySeq, EmptySeq
  <2>6. ReadTo(0, 0)'
    <3>1. line' = <<>> \o Bytes(f) /\ Ahead(sent', 0, Bytes(f), broken')
      BY <2>1, <2>2, <2>4, <2>5
    <3> QED  BY <1>0, <2>5, <3>1 DEF ReadTo
  <2>7. Phase(0, 0)'
    <3>1. Follow(done', sent', 0, broken')
      BY <2>1, NothingFollows
    <3> QED  BY <2>1, <3>1 DEF Phase, Inside
  <2>8. 0 \in 0 .. Len(sent') /\ 0 \in Nat
    BY <2>1, <2>3
  <2>9. ~broken' => \A k \in 1 .. Len(sent') : OfPanelSize(sent'[k])
    <3>1. \A k \in 1 .. 1 : <<f>>[k] = f
      OBVIOUS
    <3> QED  BY <2>1, <2>3, <3>1
  <2> QED  BY <2>6, <2>7, <2>8, <2>9 DEF Traced
<1>2. CASE ~AtRest
  <2>1. sent' = Append(sent, f) /\ done' = done /\ broken' = (broken \/ ~OfPanelSize(f))
    BY <1>2 DEF Send
  <2>0. broken => broken'
    BY <2>1
  <2>2. PICK n \in 0 .. Len(sent), j \in Nat : ReadTo(n, j) /\ Phase(n, j)
    BY DEF Traced
  <2>3. ReadTo(n, j)'
    BY <1>0, <2>0, <2>1, <2>2, MoreSent
  <2>4. /\ Len(sent') = Len(sent) + 1 /\ n \in Nat /\ n \in 0 .. Len(sent')
        /\ \A k \in 1 .. n : sent'[k] = sent[k]
    BY <1>0, <2>1, AppendProperties
  <2>5. ASSUME NEW m \in Nat, m <= n, Follow(done, sent, m, broken) PROVE Follow(done', sent', m, broken')
    <3>1. \A k \in 1 .. m : sent'[k] = sent[k]
      BY <2>4, <2>5
    <3>2. Follow(done, sent', m, broken')
      BY <2>0, <2>5, <3>1, FollowStays
    <3> QED  BY <2>1, <3>2
  <2>6. n > 0 => n \in 1 .. n /\ n - 1 \in Nat /\ n - 1 <= n /\ sent'[n] = sent[n]
    BY <2>4
  <2>7. /\ matched' > 0 =>
             /\ n > 0 /\ matched' <= j
             /\ \A k \in 1 .. matched' : Bytes(sent'[n])[j - matched' + k] = Prefix[k]
             /\ j = matched' => Follow(done', sent', n - 1, broken')
    BY <1>0, <2>2, <2>5, <2>6 DEF Phase
  <2>8. pc' = "command" =>
          \/ /\ n > 0 /\ j = Len(Prefix) + Len(got') /\ Starts(Code[sent[n].op])'
             /\ Follow(done', sent', n - 1, broken')
          \/ \E k \in 1 .. Len(got') : got'[k] = Prefix[1]
    <3> SUFFICES ASSUME pc = "command", ~\E k \in 1 .. Len(got) : got[k] = Prefix[1]
                 PROVE  /\ n > 0 /\ j = Len(Prefix) + Len(got') /\ Starts(Code[sent[n].op])'
                        /\ Follow(done', sent', n - 1, broken')
      BY <1>0
    <3>1. /\ n > 0 /\ j = Len(Prefix) + Len(got) /\ Starts(Code[sent[n].op])
          /\ Follow(done, sent, n - 1, broken)
      BY <2>2 DEF Phase
    <3> QED  BY <1>0, <2>5, <2>6, <3>1 DEF Starts
  <2>9. pc' \in Inside =>
          \E c \in 1 .. n :
            /\ op' = sent'[c].op /\ Follow(done', sent', c - 1, broken')
            /\ \/ broken' \/ CutKey(sent[c])'
               \/ c = n /\ Within(sent[c], From(Bytes(sent[c]), j))'
               \/ c = n /\ LeftBehind(sent[c], From(Bytes(sent[c]), j))'
    <3> SUFFICES ASSUME pc \in Inside
                 PROVE  \E c \in 1 .. n :
                          /\ op' = sent'[c].op /\ Follow(done', sent', c - 1, broken')
                          /\ \/ broken' \/ CutKey(sent[c])'
                             \/ c = n /\ Within(sent[c], From(Bytes(sent[c]), j))'
                             \/ c = n /\ LeftBehind(sent[c], From(Bytes(sent[c]), j))'
      BY <1>0
    <3>1. PICK c \in 1 .. n :
            /\ op = sent[c].op /\ Follow(done, sent, c - 1, broken)
            /\ \/ broken \/ CutKey(sent[c])
               \/ c = n /\ Within(sent[c], From(Bytes(sent[c]), j))
               \/ c = n /\ LeftBehind(sent[c], From(Bytes(sent[c]), j))
      BY <2>2 DEF Phase
    <3>2. c - 1 \in Nat /\ c - 1 <= n
      BY <2>4
    <3>f. PICK g : g = sent[c]
      OBVIOUS
    <3>r. PICK r : r = From(Bytes(g), j)
      OBVIOUS
    <3>3. sent'[c] = g /\ op' = sent'[c].op /\ Follow(done', sent', c - 1, broken')
      BY <1>0, <2>4, <2>5, <3>1, <3>2, <3>f
    <3>4. \/ broken \/ CutKey(g)'
          \/ c = n /\ Within(g, r)'
          \/ c = n /\ LeftBehind(g, r)'
      <4>1. CutKey(g) => CutKey(g)'
        BY <1>0 DEF CutKey
      <4>2. Within(g, r) => Within(g, r)'
        BY <1>0 DEF Within, ReadsArgument, Starts, Pending, NextByte, Later
      <4>3. LeftBehind(g, r) => LeftBehind(g, r)'
        BY <1>0 DEF LeftBehind
      <4> QED  BY <3>1, <3>f, <3>r, <4>1, <4>2, <4>3
    <3>5. \/ broken' \/ CutKey(sent[c])'
          \/ c = n /\ Within(sent[c], From(Bytes(sent[c]), j))'
          \/ c = n /\ LeftBehind(sent[c], From(Bytes(sent[c]), j))'
      BY <2>0, <3>3, <3>4, <3>r
    <3> QED  BY <3>3, <3>5
  <2>10. Follow(done', sent', n, broken')
    BY <2>2, <2>4, <2>5 DEF Phase
  <2>11. Phase(n, j)'
    BY <2>7, <2>8, <2>9, <2>10 DEF Phase
  <2>12. ASSUME ~broken', NEW k \in 1 .. Len(sent') PROVE OfPanelSize(sent'[k])
    <3>1. ~broken /\ OfPanelSize(f)
      BY <2>1, <2>12
    <3>2. CASE k \in 1 .. Len(sent)
      <4>1. sent'[k] = sent[k] /\ OfPanelSize(sent[k])
        BY <1>0, <2>1, <3>1, <3>2, AppendProperties DEF Traced
      <4> QED  BY <4>1
    <3>3. CASE k = Len(sent) + 1
      <4>1. sent'[k] = f
        BY <1>0, <2>1, <3>3, AppendProperties
      <4> QED  BY <3>1, <4>1
    <3> QED  BY <1>0, <2>4, <3>2, <3>3
  <2> QED  BY <2>3, <2>4, <2>11, <2>12 DEF Traced
<1> QED  BY <1>1, <1>2

LEMMA NothingTraced ==
  ASSUME NEW d, d = <<>>, NEW b
  PROVE  /\ Ahead(<<>>, 0, <<>>, b) /\ <<>> \in Seq(Nat) /\ <<>> = <<>> \o <<>>
         /\ 0 \in 0 .. Len(<<>>) /\ Follow(d, <<>>, 0, b)
         /\ \A k \in 1 .. Len(<<>>) : OfPanelSize(<<>>[k])
<1>1. /\ <<>> \in Seq(Frames) /\ <<>> \in Seq(Nat) /\ <<>> \o <<>> = <<>> /\ 0 \in 0 .. Len(<<>>)
      /\ Len(<<>>) = 0 /\ Stream(<<>>, 0, <<>>)
  BY NothingSent
<1>2. Ahead(<<>>, 0, <<>>, b)
  BY <1>1, StreamPieces DEF Ahead
<1>3. Follow(d, <<>>, 0, b)
  BY NothingFollows
<1> QED  BY <1>1, <1>2, <1>3

LEMMA TracedInit == Init => Traced
<1> SUFFICES ASSUME Init PROVE Traced
  OBVIOUS
<1>1. line = <<>> /\ pc = "prefix" /\ matched = 0 /\ sent = <<>> /\ done = <<>>
  BY DEF Init
<1>2. ReadTo(0, 0)
  <2>1. line = <<>> \o <<>> /\ Ahead(sent, 0, <<>>, broken) /\ <<>> \in Seq(Nat)
    BY <1>1, NothingTraced
  <2> QED  BY <2>1 DEF ReadTo
<1>3. Phase(0, 0)
  <2>1. Follow(done, sent, 0, broken)
    BY <1>1, NothingTraced
  <2> QED  BY <1>1, <2>1 DEF Phase, Inside
<1> QED  BY <1>1, <1>2, <1>3, NothingTraced DEF Traced

LEMMA BootTraced == ASSUME Boot PROVE Traced'
<1>1. line' = <<>> /\ pc' = "prefix" /\ matched' = 0 /\ sent' = <<>> /\ done' = <<>>
  BY DEF Boot, Read
<1>2. ReadTo(0, 0)'
  <2>1. line' = <<>> \o <<>> /\ Ahead(sent', 0, <<>>, broken') /\ <<>> \in Seq(Nat)
    BY <1>1, NothingTraced
  <2> QED  BY <2>1 DEF ReadTo
<1>3. Phase(0, 0)'
  <2>1. Follow(done', sent', 0, broken')
    BY <1>1, NothingTraced
  <2> QED  BY <1>1, <2>1 DEF Phase, Inside
<1> QED  BY <1>1, <1>2, <1>3, NothingTraced DEF Traced

LEMMA TracedStep ==
  ASSUME Alone, Typed, Traced, [Next]_vars
  PROVE  Traced'
<1>1. CASE Readers \/ OutOfMemory
  BY <1>1, ReadersTraced
<1>2. ASSUME NEW f \in Frames, Send(f) PROVE Traced'
  BY <1>2, SendTraced
<1>3. CASE UNCHANGED vars
  <2>0. UNCHANGED <<line, pc, matched, got, escaped, op, key, size, sent, done, broken>>
    BY <1>3 DEF vars
  <2>1. PICK n \in 0 .. Len(sent), j \in Nat : ReadTo(n, j) /\ Phase(n, j)
    BY DEF Traced
  <2>2. ReadTo(n, j)'
    BY <2>0, <2>1 DEF ReadTo
  <2>3. Phase(n, j)'
    <3>1. \A c \in 1 .. n : CutKey(sent[c])' = CutKey(sent[c])
      BY <2>0 DEF CutKey
    <3>2. \A c \in 1 .. n : \A r : Within(sent[c], r)' = Within(sent[c], r)
      BY <2>0 DEF Within, ReadsArgument, Starts, Pending, NextByte, Later
    <3>3. \A c \in 1 .. n : \A r : LeftBehind(sent[c], r)' = LeftBehind(sent[c], r)
      BY <2>0 DEF LeftBehind
    <3> QED  BY <2>0, <2>1, <3>1, <3>2, <3>3 DEF Phase, Starts
  <2> QED  BY <2>0, <2>1, <2>2, <2>3 DEF Traced
<1> QED  BY <1>1, <1>2, <1>3, BootTraced, TimeoutTraced, StopTraced
     DEF Next, Device, Host, Readers

(* However bytes are lost and timers run out, every effect belongs to one  *)
(* frame with that command, in the order of the frames: what is left of a  *)
(* frame on the line is no frame to waitFor, and a frame that is taken for *)
(* an argument is not a command as well.  Unless the host breaks a frame   *)
(* off, the effect is made of that frame's bytes: the device knows how far *)
(* it is in the frame it reads, and loses count only with a key it cut.    *)
THEOREM EffectsAreOfFrames ==
  ASSUME Alone
  PROVE  Spec => []EffectsOfCommands
<1>1. Init => Typed /\ Traced
  BY TypedInit, TracedInit
<1>2. Typed /\ Traced /\ [Next]_vars => (Typed /\ Traced)'
  BY TypedStep, TracedStep
<1>3. Typed /\ Traced => EffectsOfCommands
  <2> SUFFICES ASSUME Typed, Traced PROVE EffectsOfCommands
    OBVIOUS
  <2>1. PICK n \in 0 .. Len(sent) : Follow(done, sent, n, broken)
    BY DEF Traced, Phase
  <2>2. Len(sent) \in Nat /\ DOMAIN sent = 1 .. Len(sent)
    BY LenProperties DEF Typed, TypeOK
  <2>3. PICK frame \in [DOMAIN done -> 1 .. n] :
          /\ \A i \in DOMAIN done : Made(done[i], sent[frame[i]], broken)
          /\ \A i, k \in DOMAIN done : i < k => frame[i] < frame[k]
    BY <2>1 DEF Follow
  <2>4. \A x \in 1 .. n : x \in DOMAIN sent
    BY <2>2
  <2>5. frame \in [DOMAIN done -> DOMAIN sent]
    BY <2>3, <2>4
  <2>6. \A i \in DOMAIN done : /\ done[i].op = sent[frame[i]].op
                               /\ ~broken => EffectOf(done[i], sent[frame[i]])
    BY <2>3 DEF Made
  <2> QED  BY <2>3, <2>5, <2>6 DEF EffectsOfCommands
<1> QED  BY <1>1, <1>2, <1>3, PTL DEF Spec
=============================================================================
