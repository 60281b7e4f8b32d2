---------------------------- MODULE SplitAlignProofs ----------------------------
(***************************************************************************)
(* Proofs about the split-and-align task, for every duration and every     *)
(* depth of the recursion: its stream epochs tile the epoch of the request,*)
(* its file holds each object of the endpoint once and in order, and is a  *)
(* well formed list.                                                       *)
(***************************************************************************)
EXTENDS SplitAlign, SequenceTheorems, TLAPS

In(s, e) == \E i \in DOMAIN s : s[i] = e

Running == pc \in {"request", "dump", "after"}

\* Calls of _run have the two halves of an epoch to go through, or one epoch
\* that is too short to be split.
StackOK ==
    /\ stack \in Seq(Seq(Epochs))
    /\ epochs \in Seq(Epochs) /\ epochs # <<>>
    /\ \A k \in DOMAIN stack : Len(stack[k]) \in {1, 2}
    /\ Running => stack # <<>>

\* The second half of each active call is among the task's epochs, and those
\* of inner calls come before those of outer ones.
SecondsPending ==
    /\ \A k \in DOMAIN stack : Len(stack[k]) = 2 => In(epochs, stack[k][2])
    /\ \A k, l \in DOMAIN stack :
          k < l /\ Len(stack[k]) = 2 /\ Len(stack[l]) = 2 =>
              stack[k][2][1] >= stack[l][2][2]

\* What is being requested is among the epochs, and before all that is pending:
\* split replaces it and nothing else.
CurrentFirst ==
    pc = "request" =>
        /\ In(epochs, Current)
        /\ \A k \in DOMAIN stack : Len(stack[k]) = 2 => stack[k][2][1] >= Current[2]

IInv ==
    /\ StackOK
    /\ EpochsTile
    /\ SecondsPending
    /\ CurrentFirst

-----------------------------------------------------------------------------
(* Splitting. *)

\* The halves of an epoch tile it; too short an epoch is its own half.
LEMMA SliceTiles ==
    ASSUME NEW e \in Epochs
    PROVE  /\ Slice(e) \in Seq(Epochs) /\ Len(Slice(e)) \in {1, 2}
           /\ Slice(e)[1][1] = e[1] /\ Slice(e)[Len(Slice(e))][2] = e[2]
           /\ Len(Slice(e)) = 1 => Slice(e)[1] = e
           /\ Len(Slice(e)) = 2 => Slice(e)[1][2] = Slice(e)[2][1]
<1> DEFINE mid == (e[1] + e[2]) \div 2
<1>1. /\ e = <<e[1], e[2]>> /\ e[1] \in 0 .. Span /\ e[2] \in 0 .. Span
      /\ e[1] < e[2] /\ Span \in Nat
  BY ConstantsAssumption DEF Epochs
<1>2. mid \in 0 .. Span /\ e[1] <= mid /\ mid < e[2]
  BY <1>1
<1> HIDE DEF mid
<1>3. CASE mid = e[1]
  <2>1. Slice(e) = <<e>>
    BY <1>3 DEF Slice, mid
  <2>2. QED
    BY <2>1
<1>4. CASE mid # e[1]
  <2>1. Slice(e) = << <<e[1], mid>>, <<mid, e[2]>> >>
    BY <1>4 DEF Slice, mid
  <2>2. <<e[1], mid>> \in Epochs /\ <<mid, e[2]>> \in Epochs
    BY <1>1, <1>2, <1>4 DEF Epochs
  <2>3. QED
    BY <2>1, <2>2
<1>5. QED
  BY <1>3, <1>4

\* Replace with the place of the epoch as a parameter.
Splice(s, i, n) == SubSeq(s, 1, i - 1) \o n \o SubSeq(s, i + 1, Len(s))

\* Where the elements of a sequence are after one of them has been replaced by
\* others.
LEMMA Spliced ==
    ASSUME NEW S, NEW s \in Seq(S), NEW n \in Seq(S), NEW i \in 1 .. Len(s)
    PROVE  /\ Splice(s, i, n) \in Seq(S) /\ Len(Splice(s, i, n)) = Len(s) + Len(n) - 1
           /\ \A j \in 1 .. i - 1 : Splice(s, i, n)[j] = s[j]
           /\ \A j \in 1 .. Len(n) : Splice(s, i, n)[i - 1 + j] = n[j]
           /\ \A j \in i + 1 .. Len(s) : Splice(s, i, n)[j + Len(n) - 1] = s[j]
<1> DEFINE a == SubSeq(s, 1, i - 1)
           b == SubSeq(s, i + 1, Len(s))
           t == Splice(s, i, n)
           L == Len(s)
           m == Len(n)
<1>1. L \in Nat /\ m \in Nat /\ \A j \in 1 .. L : s[j] \in S
  BY LenProperties
<1>2. i \in 1 .. L
  OBVIOUS
<1>3. t = (a \o n) \o b
  BY DEF Splice
<1>4. /\ \A j \in 1 .. i - 1 : s[j] \in S
      /\ \A j \in i + 1 .. L : s[j] \in S
  <2> HIDE DEF L
  <2> QED
    BY <1>1, <1>2
<1>5. /\ a \in Seq(S) /\ Len(a) = IF 1 <= i - 1 THEN i - 1 - 1 + 1 ELSE 0
      /\ \A j \in 1 .. i - 1 - 1 + 1 : a[j] = s[1 + j - 1]
  <2>1. 1 \in Int /\ i - 1 \in Int
    OBVIOUS
  <2>2. QED
    BY <1>4, <2>1, SubSeqProperties
<1>6. /\ b \in Seq(S) /\ Len(b) = IF i + 1 <= L THEN L - (i + 1) + 1 ELSE 0
      /\ \A j \in 1 .. L - (i + 1) + 1 : b[j] = s[i + 1 + j - 1]
  <2>1. i + 1 \in Int /\ L \in Int
    BY <1>1
  <2>2. QED
    BY <1>4, <2>1, SubSeqProperties
<1>7. /\ a \o n \in Seq(S) /\ Len(a \o n) = Len(a) + m
      /\ \A j \in 1 .. Len(a) + m : (a \o n)[j] = IF j <= Len(a) THEN a[j] ELSE n[j - Len(a)]
  BY <1>5, ConcatProperties
<1>8. /\ t \in Seq(S) /\ Len(t) = Len(a \o n) + Len(b)
      /\ \A j \in 1 .. Len(a \o n) + Len(b) :
            t[j] = IF j <= Len(a \o n) THEN (a \o n)[j] ELSE b[j - Len(a \o n)]
  <2> DEFINE c == a \o n
             d == b
  <2>1. c \in Seq(S) /\ d \in Seq(S) /\ t = c \o d
    BY <1>3, <1>6, <1>7
  <2> HIDE DEF c, d
  <2>2. /\ c \o d \in Seq(S) /\ Len(c \o d) = Len(c) + Len(d)
        /\ \A j \in 1 .. Len(c) + Len(d) :
              (c \o d)[j] = IF j <= Len(c) THEN c[j] ELSE d[j - Len(c)]
    BY <2>1, ConcatProperties
  <2> HIDE DEF a, b, t
  <2>3. QED
    BY <2>1, <2>2 DEF c, d
<1> HIDE DEF a, b, t, L, m
<1>9. Len(a) = i - 1 /\ Len(a \o n) = i - 1 + m /\ Len(b) = L - i /\ Len(t) = L + m - 1
  <2>1. Len(a) = i - 1
    BY <1>2, <1>5
  <2>2. Len(b) = L - i
    BY <1>1, <1>2, <1>6
  <2>3. Len(a \o n) = i - 1 + m
    BY <1>7, <2>1
  <2>4. Len(t) = i - 1 + m + (L - i)
    BY <1>8, <2>2, <2>3
  <2>5. i - 1 + m + (L - i) = L + m - 1
    BY <1>1, <1>2
  <2>6. QED
    BY <2>1, <2>2, <2>3, <2>4, <2>5
<1>10. ASSUME NEW j \in 1 .. i - 1 PROVE t[j] = s[j]
  <2>1. /\ j \in 1 .. i - 1 - 1 + 1 /\ j \in 1 .. i - 1 + m /\ j \in 1 .. i - 1 + m + (L - i)
        /\ j <= i - 1 /\ j <= i - 1 + m /\ 1 + j - 1 = j
    BY <1>1, <1>2
  <2>2. a[j] = s[j]
    BY <1>5, <2>1
  <2>3. (a \o n)[j] = a[j]
    BY <1>7, <1>9, <2>1
  <2>4. t[j] = (a \o n)[j]
    BY <1>8, <1>9, <2>1
  <2>5. QED
    BY <2>2, <2>3, <2>4
<1>11. ASSUME NEW j \in 1 .. m PROVE t[i - 1 + j] = n[j]
  <2>1. /\ i - 1 + j \in 1 .. i - 1 + m /\ i - 1 + j \in 1 .. i - 1 + m + (L - i)
        /\ ~(i - 1 + j <= i - 1) /\ i - 1 + j <= i - 1 + m /\ (i - 1 + j) - (i - 1) = j
    BY <1>1, <1>2
  <2>2. (a \o n)[i - 1 + j] = n[j]
    BY <1>7, <1>9, <2>1
  <2>3. t[i - 1 + j] = (a \o n)[i - 1 + j]
    BY <1>8, <1>9, <2>1
  <2>4. QED
    BY <2>2, <2>3
<1>12. ASSUME NEW j \in i + 1 .. L PROVE t[j + m - 1] = s[j]
  <2>1. /\ j + m - 1 \in 1 .. i - 1 + m + (L - i) /\ ~(j + m - 1 <= i - 1 + m)
        /\ (j + m - 1) - (i - 1 + m) = j - i
        /\ j - i \in 1 .. L - (i + 1) + 1 /\ i + 1 + (j - i) - 1 = j
    BY <1>1, <1>2
  <2>2. b[j - i] = s[j]
    BY <1>6, <2>1
  <2>3. t[j + m - 1] = b[j - i]
    BY <1>8, <1>9, <2>1
  <2>4. QED
    BY <2>2, <2>3
<1>13. QED
  BY <1>8, <1>9, <1>10, <1>11, <1>12 DEF t, L, m

\* split keeps the tiling, adds the halves and removes nothing else.
LEMMA ReplaceTiles ==
    ASSUME StackOK, EpochsTile, NEW e, In(epochs, e), epochs' = Replace(epochs, e)
    PROVE  /\ epochs' \in Seq(Epochs) /\ epochs' # <<>>
           /\ EpochsTile'
           /\ \A j \in DOMAIN Slice(e) : In(epochs', Slice(e)[j])
           /\ \A f : In(epochs, f) /\ f # e => In(epochs', f)
<1> DEFINE n == Slice(e)
           i == CHOOSE h \in DOMAIN epochs : epochs[h] = e
<1>1. i \in DOMAIN epochs /\ epochs[i] = e
  BY DEF In
<1>2. e \in Epochs /\ epochs \in Seq(Epochs)
  BY <1>1 DEF StackOK
<1>3. /\ n \in Seq(Epochs) /\ Len(n) \in {1, 2}
      /\ n[1][1] = e[1] /\ n[Len(n)][2] = e[2]
      /\ Len(n) = 2 => n[1][2] = n[2][1]
  BY <1>2, SliceTiles
<1>4. epochs' = Splice(epochs, i, n)
  BY DEF Replace, Splice
<1> HIDE DEF n, i
<1>5. /\ epochs' \in Seq(Epochs) /\ Len(epochs') = Len(epochs) + Len(n) - 1
      /\ \A j \in 1 .. i - 1 : epochs'[j] = epochs[j]
      /\ \A j \in 1 .. Len(n) : epochs'[i - 1 + j] = n[j]
      /\ \A j \in i + 1 .. Len(epochs) : epochs'[j + Len(n) - 1] = epochs[j]
  <2>1. n \in Seq(Epochs) /\ epochs \in Seq(Epochs) /\ i \in 1 .. Len(epochs)
    BY <1>1, <1>2, <1>3
  <2> DEFINE t == Splice(epochs, i, n)
  <2>2. /\ t \in Seq(Epochs) /\ Len(t) = Len(epochs) + Len(n) - 1
        /\ \A j \in 1 .. i - 1 : t[j] = epochs[j]
        /\ \A j \in 1 .. Len(n) : t[i - 1 + j] = n[j]
        /\ \A j \in i + 1 .. Len(epochs) : t[j + Len(n) - 1] = epochs[j]
    BY <2>1, Spliced
  <2>3. epochs' = t
    BY <1>4
  <2> HIDE DEF t
  <2>4. QED
    BY <2>2, <2>3
<1>6. i \in 1 .. Len(epochs) /\ Len(epochs) \in Nat
  BY <1>1, <1>2
<1>7. \A j \in DOMAIN n : In(epochs', n[j])
  <2> SUFFICES ASSUME NEW j \in 1 .. Len(n)
               PROVE  \E h \in DOMAIN epochs' : epochs'[h] = n[j]
    BY <1>3 DEF In
  <2>1. i - 1 + j \in DOMAIN epochs'
    BY <1>3, <1>5, <1>6
  <2>2. QED
    BY <1>5, <2>1
<1>8. \A f : In(epochs, f) /\ f # e => In(epochs', f)
  <2> SUFFICES ASSUME NEW j \in DOMAIN epochs, epochs[j] # e
               PROVE  \E h \in DOMAIN epochs' : epochs'[h] = epochs[j]
    BY DEF In
  <2>1. CASE j < i
    <3>1. j \in DOMAIN epochs' /\ epochs'[j] = epochs[j]
      BY <1>2, <1>3, <1>5, <1>6, <2>1
    <3>2. QED
      BY <3>1
  <2>2. CASE j > i
    <3>1. j \in i + 1 .. Len(epochs)
      BY <1>2, <1>6, <2>2
    <3>2. j + Len(n) - 1 \in DOMAIN epochs'
      BY <1>2, <1>3, <1>5, <1>6, <3>1
    <3>3. QED
      BY <1>5, <3>1, <3>2
  <2>3. QED
    BY <1>1, <1>2, <2>1, <2>2
<1>9. EpochsTile'
  <2>1. epochs'[1][1] = 0
    <3>1. CASE i = 1
      BY <1>1, <1>3, <1>5, <1>6, <3>1 DEF EpochsTile
    <3>2. CASE i > 1
      BY <1>5, <1>6, <3>2 DEF EpochsTile
    <3>3. QED
      BY <1>6, <3>1, <3>2
  <2>2. Last(epochs')[2] = Span
    <3>1. CASE i = Len(epochs)
      <4>1. Len(epochs') = i - 1 + Len(n)
        BY <1>3, <1>5, <1>6, <3>1
      <4>2. epochs'[i - 1 + Len(n)] = n[Len(n)]
        BY <1>3, <1>5
      <4>3. QED
        BY <1>1, <1>3, <3>1, <4>1, <4>2 DEF EpochsTile, Last
    <3>2. CASE i < Len(epochs)
      <4>1. epochs'[Len(epochs) + Len(n) - 1] = epochs[Len(epochs)]
        BY <1>5, <1>6, <3>2
      <4>2. QED
        BY <1>5, <4>1 DEF EpochsTile, Last
    <3>3. QED
      BY <1>6, <3>1, <3>2
  <2>3. ASSUME NEW j \in 1 .. Len(epochs') - 1
        PROVE  epochs'[j][2] = epochs'[j + 1][1]
    <3>1. CASE j < i - 1
      <4>1. j \in 1 .. i - 1 /\ j + 1 \in 1 .. i - 1 /\ j \in 1 .. Len(epochs) - 1
        BY <1>6, <3>1
      <4>2. QED
        BY <1>5, <4>1 DEF EpochsTile
    <3>2. CASE j = i - 1
      <4>1. epochs'[j] = epochs[j] /\ epochs'[j + 1] = n[1] /\ j \in 1 .. Len(epochs) - 1
        <5>1. epochs'[i - 1 + 1] = n[1]
          BY <1>3, <1>5
        <5>2. QED
          BY <1>5, <1>6, <3>2, <5>1
      <4>2. epochs[j][2] = epochs[j + 1][1] /\ j + 1 = i
        BY <1>6, <3>2, <4>1 DEF EpochsTile
      <4>3. QED
        BY <1>1, <1>3, <4>1, <4>2
    <3>3. CASE j = i /\ Len(n) = 2
      <4>1. epochs'[i - 1 + 1] = n[1] /\ epochs'[i - 1 + 2] = n[2]
        BY <1>5, <3>3
      <4>2. QED
        BY <1>3, <1>6, <3>3, <4>1
    <3>4. CASE j = i - 1 + Len(n)
      <4>1. epochs'[j] = n[Len(n)]
        BY <1>3, <1>5, <3>4
      <4>2. i + 1 \in i + 1 .. Len(epochs) /\ i \in 1 .. Len(epochs) - 1
        BY <1>3, <1>5, <1>6, <3>4
      <4>3. epochs'[i + 1 + Len(n) - 1] = epochs[i + 1]
        BY <1>5, <4>2
      <4>4. epochs[i][2] = epochs[i + 1][1]
        BY <4>2 DEF EpochsTile
      <4>5. j + 1 = i + 1 + Len(n) - 1
        BY <1>3, <1>6, <3>4
      <4>6. QED
        BY <1>1, <1>3, <4>1, <4>3, <4>4, <4>5
    <3>5. CASE j > i - 1 + Len(n)
      <4> DEFINE h == j - Len(n) + 1
      <4>1. /\ h \in i + 1 .. Len(epochs) /\ h + 1 \in i + 1 .. Len(epochs)
            /\ h \in 1 .. Len(epochs) - 1
            /\ h + Len(n) - 1 = j /\ h + 1 + Len(n) - 1 = j + 1
        BY <1>3, <1>5, <1>6, <3>5
      <4> HIDE DEF h
      <4>2. epochs'[h + Len(n) - 1] = epochs[h]
            /\ epochs'[h + 1 + Len(n) - 1] = epochs[h + 1]
        BY <1>5, <4>1
      <4>3. QED
        BY <4>1, <4>2 DEF EpochsTile
    <3>6. QED
      BY <1>3, <1>5, <1>6, <3>1, <3>2, <3>3, <3>4, <3>5
  <2>4. QED
    BY <2>1, <2>2, <2>3 DEF EpochsTile
<1>10. epochs' # <<>>
  BY <1>3, <1>5, <1>6
<1>11. QED
  BY <1>5, <1>7, <1>8, <1>9, <1>10 DEF n

-----------------------------------------------------------------------------
(* The steps. *)

\* An epoch has a beginning before its end.
LEMMA EpochOrder ==
    \A e \in Epochs : e[1] \in Int /\ e[2] \in Int /\ e[1] < e[2]
BY ConstantsAssumption DEF Epochs

\* The first call goes through the halves of the epoch of the request.
LEMMA InitInv == Init => IInv
<1> SUFFICES ASSUME Init PROVE IInv
  OBVIOUS
<1> DEFINE e == <<0, Span>>
           h == Slice(e)
<1>1. e \in Epochs /\ e[1] = 0 /\ e[2] = Span
  BY ConstantsAssumption DEF Epochs
<1>2. stack = <<h>> /\ epochs = h
  BY DEF Init
<1> HIDE DEF e
<1>3. /\ h \in Seq(Epochs) /\ Len(h) \in {1, 2}
      /\ h[1][1] = 0 /\ h[Len(h)][2] = Span
      /\ Len(h) = 2 => h[1][2] = h[2][1]
  BY <1>1, SliceTiles
<1> HIDE DEF h
<1>4. StackOK
  <2>1. h # <<>>
    BY <1>3
  <2>2. QED
    BY <1>2, <1>3, <2>1 DEF StackOK
<1>5. EpochsTile
  BY <1>2, <1>3 DEF EpochsTile, Last
<1>6. SecondsPending
  BY <1>2, <1>3 DEF SecondsPending, In
<1>7. CurrentFirst
  <2>1. Current = h[1]
    BY <1>2, <1>3 DEF Current, Top, Last
  <2>2. h[1] \in Epochs /\ h[1][2] \in Int
    BY <1>3, EpochOrder
  <2>3. In(epochs, h[1])
    BY <1>2, <1>3 DEF In
  <2>4. QED
    BY <1>2, <1>3, <2>1, <2>2, <2>3 DEF CurrentFirst
<1>8. QED
  BY <1>4, <1>5, <1>6, <1>7 DEF IInv

\* The call at the top of the stack, and those below it.
LEMMA TopOfStack ==
    ASSUME StackOK, stack # <<>>
    PROVE  /\ Len(stack) \in Nat \ {0} /\ Top = stack[Len(stack)]
           /\ Top \in Seq(Epochs) /\ Len(Top) \in {1, 2}
           /\ Current = Top[1] /\ Current \in Epochs
           /\ Below \in Seq(Seq(Epochs)) /\ Len(Below) = Len(stack) - 1
           /\ \A k \in 1 .. Len(stack) - 1 : Below[k] = stack[k]
<1> DEFINE L == Len(stack)
           T == Seq(Epochs)
<1>1. stack \in Seq(T) /\ \A k \in DOMAIN stack : Len(stack[k]) \in {1, 2}
  BY DEF StackOK
<1> HIDE DEF T
<1>2. L \in Nat \ {0} /\ DOMAIN stack = 1 .. L /\ \A k \in 1 .. L : stack[k] \in T
  BY <1>1
<1> HIDE DEF L
<1>3. Top = stack[L] /\ Top \in T /\ Len(Top) \in {1, 2}
  BY <1>1, <1>2 DEF Top, Last, L
<1>4. Current = Top[1] /\ Current \in Epochs
  BY <1>3 DEF Current, T
<1>5. Below = SubSeq(stack, 1, L - 1)
  BY DEF Below, Front, L
<1>6. /\ Below \in Seq(T) /\ Len(Below) = L - 1
      /\ \A k \in 1 .. L - 1 : Below[k] = stack[k]
  <2>1. \A k \in 1 .. L - 1 : stack[k] \in T /\ 1 + k - 1 = k
    BY <1>2
  <2>2. 1 \in Int /\ L - 1 \in Int
    BY <1>2
  <2>3. /\ Below \in Seq(T) /\ Len(Below) = IF 1 <= L - 1 THEN L - 1 - 1 + 1 ELSE 0
        /\ \A k \in 1 .. L - 1 - 1 + 1 : Below[k] = stack[1 + k - 1]
    BY <1>5, <2>1, <2>2, SubSeqProperties
  <2>4. QED
    BY <1>2, <2>1, <2>3
<1>7. QED
  BY <1>2, <1>3, <1>4, <1>6 DEF L, T

\* 413: the halves are before everything pending, as what they replace was.
LEMMA TooLargeInv == ASSUME IInv, TooLarge PROVE IInv'
<1> DEFINE L == Len(stack)
<1> PICK c : c = Current
  OBVIOUS
<1> PICK h : h = Slice(c)
  OBVIOUS
<1>1. /\ StackOK /\ EpochsTile /\ SecondsPending /\ CurrentFirst
      /\ pc = "request" /\ pc' = "request" /\ stack # <<>>
      /\ epochs' = Replace(epochs, c) /\ stack' = Append(stack, h)
  BY DEF IInv, TooLarge, StackOK, Running
<1>2. /\ c \in Epochs /\ L \in Nat /\ DOMAIN stack = 1 .. L
      /\ stack \in Seq(Seq(Epochs))
      /\ \A k \in 1 .. L : stack[k] \in Seq(Epochs) /\ Len(stack[k]) \in {1, 2}
  <2>1. c \in Epochs
    BY <1>1, TopOfStack
  <2>2. QED
    BY <1>1, <2>1 DEF StackOK
<1>3. /\ In(epochs, c)
      /\ \A k \in 1 .. L : Len(stack[k]) = 2 => stack[k][2][1] >= c[2]
  BY <1>1, <1>2 DEF CurrentFirst
<1>4. /\ h \in Seq(Epochs) /\ Len(h) \in {1, 2}
      /\ h[1][1] = c[1] /\ h[Len(h)][2] = c[2]
      /\ Len(h) = 1 => h[1] = c
      /\ Len(h) = 2 => h[1][2] = h[2][1]
  BY <1>2, SliceTiles
<1>5. /\ epochs' \in Seq(Epochs) /\ epochs' # <<>>
      /\ EpochsTile'
      /\ \A j \in DOMAIN h : In(epochs', h[j])
      /\ \A f : In(epochs, f) /\ f # c => In(epochs', f)
  BY <1>1, <1>3, ReplaceTiles
<1>6. /\ stack' \in Seq(Seq(Epochs)) /\ Len(stack') = L + 1 /\ stack' # <<>>
      /\ \A k \in 1 .. L : stack'[k] = stack[k]
      /\ stack'[L + 1] = h
  BY <1>1, <1>2, <1>4, AppendProperties
<1> HIDE DEF L
<1>7. DOMAIN stack' = 1 .. L + 1 /\ \A k \in DOMAIN stack' : k \in 1 .. L \/ k = L + 1
  BY <1>2, <1>6
<1>8. DOMAIN h = 1 .. Len(h) /\ \A j \in 1 .. Len(h) : h[j] \in Epochs
  BY <1>4
<1>9. /\ c[1] \in Int /\ c[2] \in Int /\ c[1] < c[2]
      /\ h[1][1] \in Int /\ h[1][2] \in Int
      /\ Len(h) = 2 => h[2][1] \in Int /\ h[2][2] \in Int /\ h[2][1] < h[2][2]
  BY <1>2, <1>4, <1>8, EpochOrder
<1>10. \A k \in 1 .. L : Len(stack[k]) = 2 =>
          stack[k][2][1] \in Int /\ stack[k][2] # c
  <2> SUFFICES ASSUME NEW k \in 1 .. L, Len(stack[k]) = 2
               PROVE  stack[k][2][1] \in Int /\ stack[k][2] # c
    OBVIOUS
  <2>1. stack[k][2] \in Epochs
    <3>1. stack[k] \in Seq(Epochs) /\ 2 \in 1 .. Len(stack[k])
      BY <1>2
    <3>2. QED
      BY <3>1, ElementOfSeq
  <2>2. QED
    BY <1>3, <1>9, <2>1, EpochOrder
<1>11. StackOK'
  BY <1>2, <1>4, <1>5, <1>6, <1>7 DEF StackOK
<1>12. SecondsPending'
  <2>1. \A k \in DOMAIN stack' : Len(stack'[k]) = 2 => In(epochs', stack'[k][2])
    <3>1. ASSUME NEW k \in 1 .. L, Len(stack[k]) = 2 PROVE In(epochs', stack[k][2])
      BY <1>1, <1>2, <1>5, <1>10, <3>1 DEF SecondsPending
    <3>2. Len(h) = 2 => In(epochs', h[2])
      BY <1>5, <1>8
    <3>3. QED
      BY <1>6, <1>7, <3>1, <3>2
  <2>2. ASSUME NEW k \in DOMAIN stack', NEW l \in DOMAIN stack',
               k < l, Len(stack'[k]) = 2, Len(stack'[l]) = 2
        PROVE  stack'[k][2][1] >= stack'[l][2][2]
    <3>1. k \in 1 .. L
      BY <1>2, <1>7, <2>2
    <3>2. CASE l \in 1 .. L
      BY <1>1, <1>2, <1>6, <2>2, <3>1, <3>2 DEF SecondsPending
    <3>3. CASE l = L + 1
      BY <1>3, <1>4, <1>6, <2>2, <3>1, <3>3
    <3>4. QED
      BY <1>7, <3>2, <3>3
  <2>3. QED
    BY <2>1, <2>2 DEF SecondsPending
<1>13. CurrentFirst'
  <2>1. Current' = h[1]
    <3>1. Current' = Head(stack'[Len(stack')])
      BY DEF Current, Top, Last
    <3>2. QED
      BY <1>4, <1>6, <3>1
  <2>2. In(epochs', h[1])
    BY <1>4, <1>5, <1>8
  <2>3. \A k \in DOMAIN stack' : Len(stack'[k]) = 2 => stack'[k][2][1] >= h[1][2]
    <3>1. c[2] >= h[1][2]
      BY <1>4, <1>9
    <3>2. ASSUME NEW k \in 1 .. L, Len(stack[k]) = 2 PROVE stack[k][2][1] >= h[1][2]
      BY <1>3, <1>9, <1>10, <3>1, <3>2
    <3>3. Len(h) = 2 => h[2][1] >= h[1][2]
      BY <1>4, <1>9
    <3>4. QED
      BY <1>6, <1>7, <3>2, <3>3
  <2>4. QED
    BY <2>1, <2>2, <2>3 DEF CurrentFirst
<1>14. QED
  BY <1>5, <1>11, <1>12, <1>13 DEF IInv

\* The epochs pending stay so while the epochs of the task do, in any call that
\* still has two to go through.
LEMMA PendingKept ==
    ASSUME SecondsPending, epochs' = epochs,
           \A k \in DOMAIN stack' : Len(stack'[k]) = 2 =>
               k \in DOMAIN stack /\ stack'[k] = stack[k]
    PROVE  SecondsPending'
<1>1. \A k \in DOMAIN stack' : Len(stack'[k]) = 2 => In(epochs', stack'[k][2])
  BY DEF SecondsPending
<1>2. \A k, l \in DOMAIN stack' :
          k < l /\ Len(stack'[k]) = 2 /\ Len(stack'[l]) = 2 =>
              stack'[k][2][1] >= stack'[l][2][2]
  BY DEF SecondsPending
<1>3. QED
  BY <1>1, <1>2 DEF SecondsPending

\* All that is left of two epochs is the second.
LEMMA TailOfTwo ==
    ASSUME NEW s \in Seq(Epochs), Len(s) \in {1, 2}, Tail(s) # <<>>
    PROVE  Len(s) = 2 /\ s[2] \in Epochs /\ Tail(s) = <<s[2]>>
<1>1. s # <<>>
  OBVIOUS
<1>2. /\ Tail(s) \in Seq(Epochs) /\ Len(Tail(s)) = Len(s) - 1
      /\ \A i \in 1 .. Len(Tail(s)) : Tail(s)[i] = s[i + 1]
  BY <1>1, HeadTailProperties
<1>3. Len(s) = 2
  BY <1>2
<1>4. s[2] \in Epochs /\ Tail(s)[1] = s[2] /\ Len(Tail(s)) = 1
  BY <1>2, <1>3
<1>5. <<s[2]>> \in Seq(Epochs) /\ Len(<<s[2]>>) = 1 /\ <<s[2]>>[1] = s[2]
  BY <1>4
<1>6. Tail(s) = <<s[2]>>
  <2>1. Len(Tail(s)) = Len(<<s[2]>>)
    BY <1>4, <1>5
  <2>2. \A i \in 1 .. Len(Tail(s)) : Tail(s)[i] = <<s[2]>>[i]
    BY <1>4, <1>5
  <2>3. QED
    BY <1>2, <1>5, <2>1, <2>2, SeqEqual
<1>7. QED
  BY <1>3, <1>4, <1>6

\* A single epoch has nothing behind it.
LEMMA TailOfOne ==
    ASSUME NEW s \in Seq(Epochs), Len(s) \in {1, 2}
    PROVE  s # <<>> /\ Tail(s) \in Seq(Epochs) /\ (Tail(s) = <<>> => Len(s) = 1)
<1>1. s # <<>>
  OBVIOUS
<1>2. Tail(s) \in Seq(Epochs) /\ Len(Tail(s)) = Len(s) - 1
  BY <1>1, HeadTailProperties
<1>3. QED
  BY <1>1, <1>2

\* A call returns, and what it has left pending is nobody's.
LEMMA ReturnInv ==
    ASSUME IInv, pc = "after", NEW r \in {"ok", "none"}, Return(r), UNCHANGED epochs
    PROVE  IInv'
<1> DEFINE L == Len(stack)
<1>1. /\ StackOK /\ EpochsTile /\ SecondsPending /\ stack # <<>>
      /\ stack' = Below /\ epochs' = epochs /\ pc' \notin {"request", "dump"}
      /\ pc' = "after" => stack' # <<>>
  BY DEF IInv, StackOK, Running, Return
<1>2. /\ L \in Nat /\ stack' \in Seq(Seq(Epochs)) /\ Len(stack') = L - 1
      /\ \A k \in 1 .. L - 1 : stack'[k] = stack[k]
  BY <1>1, TopOfStack
<1>3. DOMAIN stack = 1 .. L /\ \A k \in DOMAIN stack' : k \in 1 .. L - 1 /\ k \in 1 .. L
  BY <1>1, <1>2 DEF StackOK
<1> HIDE DEF L
<1>4. StackOK'
  BY <1>1, <1>2, <1>3 DEF StackOK, Running
<1>5. SecondsPending'
  BY <1>1, <1>2, <1>3, PendingKept
<1>6. EpochsTile' /\ CurrentFirst'
  BY <1>1 DEF EpochsTile, CurrentFirst
<1>7. QED
  BY <1>4, <1>5, <1>6 DEF IInv

\* The loop goes on with the second half, which only outer calls come behind.
LEMMA AfterNextInv == ASSUME IInv, AfterNext PROVE IInv'
<1> DEFINE L == Len(stack)
           n == Top[2]
<1>1. /\ StackOK /\ EpochsTile /\ SecondsPending /\ stack # <<>>
      /\ Tail(Top) # <<>> /\ stack' = Append(Below, Tail(Top))
      /\ epochs' = epochs /\ pc' = "request"
  BY DEF IInv, StackOK, Running, AfterNext
<1>2. /\ L \in Nat \ {0} /\ Top = stack[L] /\ Top \in Seq(Epochs) /\ Len(Top) \in {1, 2}
      /\ Below \in Seq(Seq(Epochs)) /\ Len(Below) = L - 1
      /\ \A k \in 1 .. L - 1 : Below[k] = stack[k]
  BY <1>1, TopOfStack
<1>3. Len(Top) = 2 /\ n \in Epochs /\ Tail(Top) = <<n>>
  <2> HIDE DEF L
  <2> QED
    BY <1>1, <1>2, TailOfTwo
<1>4. DOMAIN stack = 1 .. L /\ \A k \in 1 .. L : Len(stack[k]) \in {1, 2}
  BY <1>1 DEF StackOK
<1> HIDE DEF L, n
<1>5. <<n>> \in Seq(Epochs) /\ Len(<<n>>) = 1 /\ Head(<<n>>) = n
  BY <1>3
<1>6. /\ stack' \in Seq(Seq(Epochs)) /\ Len(stack') = L /\ stack' # <<>>
      /\ \A k \in 1 .. L - 1 : stack'[k] = stack[k]
      /\ stack'[L] = <<n>>
  BY <1>1, <1>2, <1>3, <1>5, AppendProperties
<1>7. DOMAIN stack' = 1 .. L /\ \A k \in DOMAIN stack' : k \in 1 .. L - 1 \/ k = L
  BY <1>2, <1>6
<1>8. \A k \in DOMAIN stack' : Len(stack'[k]) = 2 =>
          k \in 1 .. L - 1 /\ stack'[k] = stack[k] /\ k \in DOMAIN stack /\ k < L
  <2> SUFFICES ASSUME NEW k \in DOMAIN stack', Len(stack'[k]) = 2
               PROVE  k \in 1 .. L - 1 /\ stack'[k] = stack[k] /\ k \in DOMAIN stack /\ k < L
    OBVIOUS
  <2>1. k # L
    <3>1. SUFFICES ASSUME k = L PROVE FALSE
      OBVIOUS
    <3>2. stack'[k] = <<n>>
      BY <1>6, <3>1
    <3>3. Len(<<n>>) = 2
      BY <3>2
    <3>4. QED
      BY <3>3
  <2>2. k \in 1 .. L - 1
    BY <1>7, <2>1
  <2>3. QED
    BY <1>2, <1>4, <1>6, <2>2
<1>9. StackOK'
  BY <1>1, <1>2, <1>4, <1>5, <1>6, <1>7 DEF StackOK
<1>10. SecondsPending'
  BY <1>1, <1>8, PendingKept
<1>11. CurrentFirst'
  <2>1. Current' = n
    <3>1. Current' = Head(stack'[Len(stack')])
      BY DEF Current, Top, Last
    <3>2. QED
      BY <1>5, <1>6, <3>1
  <2>2. L \in DOMAIN stack /\ stack[L][2] = n /\ Len(stack[L]) = 2
    BY <1>2, <1>3, <1>4 DEF n
  <2>3. QED
    BY <1>1, <1>8, <2>1, <2>2 DEF CurrentFirst, SecondsPending, In
<1>12. EpochsTile'
  BY <1>1 DEF EpochsTile
<1>13. QED
  BY <1>9, <1>10, <1>11, <1>12 DEF IInv

\* Every step keeps the invariant.
LEMMA NextInv == IInv /\ [Next]_vars => IInv'
<1> SUFFICES ASSUME IInv, [Next]_vars PROVE IInv'
  OBVIOUS
<1>1. CASE Succeed \/ Dump \/ Dumped
  <2>1. stack' = stack /\ epochs' = epochs /\ Running /\ pc' # "request"
    BY <1>1 DEF Succeed, Dump, Dumped, Running
  <2>2. QED
    BY <2>1 DEF IInv, StackOK, Running, EpochsTile, SecondsPending, CurrentFirst, In
<1>2. CASE TooLarge
  BY <1>2, TooLargeInv
<1>3. CASE Fail
  BY <1>3 DEF IInv, Fail, StackOK, Running, EpochsTile, SecondsPending, CurrentFirst, In
<1>4. CASE AfterLast
  BY <1>4, ReturnInv DEF AfterLast
<1>5. CASE AfterNext
  BY <1>5, AfterNextInv
<1>6. CASE AfterLoop
  BY <1>6, ReturnInv DEF AfterLoop
<1>7. CASE UNCHANGED vars
  BY <1>7 DEF IInv, vars, StackOK, Running, EpochsTile, SecondsPending, CurrentFirst, In,
              Current, Top, Last
<1>8. QED
  BY <1>1, <1>2, <1>3, <1>4, <1>5, <1>6, <1>7 DEF Next, Done

-----------------------------------------------------------------------------
(* The file. *)

Token == {Start, End, Sep} \cup {Obj(k) : k \in Objects}

\* What the tokens of the file are told apart by.
LEMMA TokenKinds ==
    /\ Start[1] # "obj" /\ End[1] # "obj" /\ Sep[1] # "obj"
    /\ Start # End /\ Sep # End /\ Start # Sep
    /\ \A k : Obj(k)[1] = "obj" /\ Obj(k)[2] = k /\ Obj(k) # End
    /\ \A t \in Token : t[1] = "obj" => t[2] \in Objects
<1>1. /\ Start[1] = "start" /\ End[1] = "end" /\ Sep[1] = "sep"
      /\ \A k : Obj(k)[1] = "obj" /\ Obj(k)[2] = k
  BY DEF Start, End, Sep, Obj
<1>2. Start # End /\ Sep # End /\ Start # Sep /\ \A k : Obj(k) # End
  BY <1>1
<1>3. QED
  BY <1>1, <1>2 DEF Token

\* The objects in a file, and whether they are in order.
ObjsOf(f) == {f[i][2] : i \in {j \in DOMAIN f : f[j][1] = "obj"}}
Sorted(f) ==
    \A i, j \in DOMAIN f :
        f[i][1] = "obj" /\ f[j][1] = "obj" /\ i < j => f[i][2] < f[j][2]

\* A bracket or a comma changes nothing of that.
LEMMA AppendMark ==
    ASSUME NEW f \in Seq(Token), NEW t \in {Start, End, Sep}
    PROVE  /\ Append(f, t) \in Seq(Token) /\ ObjsOf(Append(f, t)) = ObjsOf(f)
           /\ Sorted(f) => Sorted(Append(f, t))
<1> DEFINE g == Append(f, t)
<1>1. t \in Token /\ t[1] # "obj"
  BY TokenKinds DEF Token
<1>2. /\ g \in Seq(Token) /\ DOMAIN g = 1 .. Len(f) + 1 /\ DOMAIN f = 1 .. Len(f)
      /\ \A i \in 1 .. Len(f) : g[i] = f[i]
      /\ g[Len(f) + 1] = t /\ Len(f) \in Nat
  BY <1>1
<1> HIDE DEF g
<1>3. \A i \in DOMAIN g : g[i][1] = "obj" => i \in DOMAIN f /\ g[i] = f[i]
  BY <1>1, <1>2
<1>4. \A i \in DOMAIN f : i \in DOMAIN g /\ g[i] = f[i]
  BY <1>2
<1>5. ObjsOf(g) = ObjsOf(f)
  BY <1>3, <1>4 DEF ObjsOf
<1>6. Sorted(f) => Sorted(g)
  BY <1>3 DEF Sorted
<1>7. QED
  BY <1>2, <1>5, <1>6 DEF g

\* An object later than all others is appended in order.
LEMMA AppendObj ==
    ASSUME NEW f \in Seq(Token), NEW n \in Objects
    PROVE  /\ Append(f, Obj(n)) \in Seq(Token)
           /\ ObjsOf(Append(f, Obj(n))) = ObjsOf(f) \cup {n}
           /\ Sorted(f) /\ (\A k \in ObjsOf(f) : k < n) => Sorted(Append(f, Obj(n)))
<1> DEFINE g == Append(f, Obj(n))
<1>1. Obj(n) \in Token /\ Obj(n)[1] = "obj" /\ Obj(n)[2] = n
  BY TokenKinds DEF Token
<1>2. /\ g \in Seq(Token) /\ DOMAIN g = 1 .. Len(f) + 1 /\ DOMAIN f = 1 .. Len(f)
      /\ \A i \in 1 .. Len(f) : g[i] = f[i]
      /\ g[Len(f) + 1] = Obj(n) /\ Len(f) \in Nat
  BY <1>1
<1> HIDE DEF g
<1>3. \A i \in DOMAIN g : (i \in DOMAIN f /\ g[i] = f[i]) \/ i = Len(f) + 1
  BY <1>2
<1>4. /\ \A i \in DOMAIN f : i \in DOMAIN g /\ g[i] = f[i]
      /\ Len(f) + 1 \in DOMAIN g /\ g[Len(f) + 1][1] = "obj" /\ g[Len(f) + 1][2] = n
  BY <1>1, <1>2
<1>5. ObjsOf(g) = ObjsOf(f) \cup {n}
  <2>1. ASSUME NEW k \in ObjsOf(g) PROVE k \in ObjsOf(f) \cup {n}
    <3>1. PICK i \in DOMAIN g : g[i][1] = "obj" /\ k = g[i][2]
      BY DEF ObjsOf
    <3>2. QED
      BY <1>3, <1>4, <3>1 DEF ObjsOf
  <2>2. ASSUME NEW k \in ObjsOf(f) PROVE k \in ObjsOf(g)
    BY <1>4 DEF ObjsOf
  <2>3. n \in ObjsOf(g)
    BY <1>4 DEF ObjsOf
  <2>4. QED
    BY <2>1, <2>2, <2>3
<1>6. ASSUME Sorted(f), \A k \in ObjsOf(f) : k < n PROVE Sorted(g)
  <2>1. SUFFICES ASSUME NEW i \in DOMAIN g, NEW j \in DOMAIN g,
                        g[i][1] = "obj", g[j][1] = "obj", i < j
                 PROVE  g[i][2] < g[j][2]
    BY DEF Sorted
  <2>2. i \in DOMAIN f /\ g[i] = f[i]
    BY <1>2, <1>3, <2>1
  <2>3. f[i][2] \in ObjsOf(f)
    BY <2>1, <2>2 DEF ObjsOf
  <2>4. CASE j \in DOMAIN f /\ g[j] = f[j]
    BY <1>6, <2>1, <2>2, <2>4 DEF Sorted
  <2>5. CASE j = Len(f) + 1
    BY <1>4, <1>6, <2>2, <2>3, <2>5
  <2>6. QED
    BY <1>3, <2>4, <2>5
<1>7. QED
  BY <1>2, <1>5, <1>6 DEF g

\* The properties in these words.
LEMMA InTheseWords == Written = ObjsOf(file) /\ (Aligned <=> Sorted(file))
BY DEF Written, IsObj, ObjsOf, Aligned, Sorted

-----------------------------------------------------------------------------
(* Types. *)

TypeInv == TypeOK /\ IInv

\* An object of the response is written or has been written before.
LEMMA WriteFile ==
    ASSUME TypeOK, NEW k \in Objects, Write(k)
    PROVE  /\ file' \in Seq(Token) /\ lastObj' = k /\ lastObj' \in Objects
           /\ \/ k = lastObj /\ file' = file
              \/ /\ k # lastObj
                 /\ ObjsOf(file') = ObjsOf(file) \cup {k}
                 /\ Sorted(file) /\ (\A l \in ObjsOf(file) : l < k) => Sorted(file')
<1>1. file \in Seq(Token)
  BY DEF TypeOK, Token
<1>2. CASE k = lastObj /\ UNCHANGED <<file, lastObj>>
  BY <1>1, <1>2
<1>3. CASE k # lastObj
  <2> DEFINE f == IF lastObj = None THEN file ELSE Append(file, Sep)
  <2>1. f \in Seq(Token) /\ ObjsOf(f) = ObjsOf(file) /\ (Sorted(file) => Sorted(f))
    BY <1>1, AppendMark
  <2>2. file' = Append(f, Obj(k)) /\ lastObj' = k
    BY <1>3 DEF Write
  <2> HIDE DEF f
  <2>3. QED
    BY <1>3, <2>1, <2>2, AppendObj
<1>4. QED
  BY <1>2, <1>3 DEF Write

LEMMA InitType == Init => TypeInv
<1> SUFFICES ASSUME Init PROVE TypeOK
  BY InitInv DEF TypeInv
<1>1. IInv /\ Len(stack) = 1
  BY InitInv DEF Init
<1>2. QED
  BY <1>1, ConstantsAssumption DEF Init, IInv, StackOK, TypeOK

LEMMA NextType == TypeInv /\ [Next]_vars => TypeInv'
<1> SUFFICES ASSUME TypeInv, [Next]_vars PROVE TypeOK'
  BY NextInv DEF TypeInv
<1>1. IInv /\ IInv' /\ TypeOK
  BY NextInv DEF TypeInv
<1>2. stack' \in Seq(Seq(Epochs)) /\ epochs' \in Seq(Epochs)
  BY <1>1 DEF IInv, StackOK
<1>3. file \in Seq(Token) /\ catalog \subseteq Objects
  BY <1>1 DEF TypeOK, Token
<1>4. CASE Succeed
  <2>1. file' \in Seq(Token)
    BY <1>3, <1>4, AppendMark DEF Succeed
  <2>2. rest' \subseteq Objects
    BY <1>3, <1>4 DEF Succeed, Response
  <2>3. QED
    BY <1>1, <1>2, <1>4, <2>1, <2>2 DEF Succeed, TypeOK, Token
<1>5. CASE Dump
  <2>1. PICK k \in rest : Write(k) /\ rest' = rest \ {k}
    BY <1>5 DEF Dump
  <2>2. k \in Objects
    BY <1>1 DEF TypeOK
  <2>3. file' \in Seq(Token) /\ lastObj' \in Objects
    BY <1>1, <2>1, <2>2, WriteFile
  <2>4. QED
    BY <1>1, <1>2, <1>5, <2>1, <2>3 DEF Dump, TypeOK, Token
<1>6. CASE Dumped \/ Fail
  BY <1>1, <1>6 DEF Dumped, Fail, TypeOK
<1>7. CASE TooLarge
  <2>1. Slice(Current) \in Seq(Epochs)
    BY <1>1, <1>7, TopOfStack, SliceTiles DEF IInv, StackOK, Running, TooLarge
  <2>2. Len(stack') = Len(stack) + 1 /\ Len(stack) < MaxDepth /\ Len(stack) \in Nat
    BY <1>1, <1>7, <2>1, AppendProperties DEF TooLarge, TypeOK
  <2>3. QED
    BY <1>1, <1>2, <1>7, <2>2, ConstantsAssumption DEF TooLarge, TypeOK
<1>8. CASE AfterLast \/ AfterLoop
  <2>1. stack' = Below /\ pc' \in {"ok", "none", "after"}
    BY <1>8 DEF AfterLast, AfterLoop, Return
  <2>2. Len(stack') <= MaxDepth
    BY <1>1, <1>8, <2>1, TopOfStack, ConstantsAssumption
       DEF IInv, StackOK, Running, AfterLast, AfterLoop, TypeOK
  <2>3. file' \in Seq(Token)
    BY <1>3, <1>8, AppendMark DEF AfterLast, AfterLoop
  <2>4. QED
    BY <1>1, <1>2, <1>8, <2>1, <2>2, <2>3 DEF AfterLast, AfterLoop, TypeOK, Token
<1>9. CASE AfterNext
  <2>1. stack # <<>> /\ StackOK
    BY <1>1, <1>9 DEF IInv, StackOK, Running, AfterNext
  <2>2. /\ Below \in Seq(Seq(Epochs)) /\ Len(Below) = Len(stack) - 1
        /\ Top \in Seq(Epochs) /\ Len(Top) \in {1, 2} /\ Len(stack) \in Nat
    BY <2>1, TopOfStack
  <2>3. Tail(Top) \in Seq(Epochs)
    BY <2>2, TailOfOne
  <2>4. Len(stack') = Len(stack)
    BY <1>9, <2>2, <2>3, AppendProperties DEF AfterNext
  <2>5. QED
    BY <1>1, <1>2, <1>9, <2>4 DEF AfterNext, TypeOK
<1>10. CASE UNCHANGED vars
  BY <1>1, <1>10 DEF vars, TypeOK
<1>11. QED
  BY <1>4, <1>5, <1>6, <1>7, <1>8, <1>9, <1>10 DEF Next, Done

-----------------------------------------------------------------------------
(* The calls of _run end where the ones around them go on. *)

\* What a call goes through is connected and ends with the epoch its caller is
\* at, that of the first call with the epoch of the task.
SpanChain ==
    /\ \A k \in DOMAIN stack : Len(stack[k]) = 2 => stack[k][1][2] = stack[k][2][1]
    /\ \A k \in DOMAIN stack :
          stack[k][Len(stack[k])][2] = IF k = 1 THEN Span ELSE stack[k - 1][1][2]

\* A call at an epoch that ends with the task's has no other one left; one that
\* has none left hands on to its caller at the same time.
LEMMA AtTheEnd ==
    ASSUME IInv, SpanChain, Running
    PROVE  /\ IsLast(Current) <=> Current[2] = Span
           /\ IsLast(Current) => Tail(Top) = <<>>
           /\ Tail(Top) = <<>> => Current[2] = IF Len(stack) = 1 THEN Span
                                               ELSE stack[Len(stack) - 1][1][2]
           /\ Tail(Top) # <<>> => Top[2][1] = Current[2]
<1> DEFINE L == Len(stack)
<1>1. StackOK /\ EpochsTile /\ stack # <<>>
  BY DEF IInv, StackOK
<1>2. /\ L \in Nat \ {0} /\ Top = stack[L] /\ Top \in Seq(Epochs) /\ Len(Top) \in {1, 2}
      /\ Current = Top[1] /\ Current \in Epochs
  BY <1>1, TopOfStack
<1>3. DOMAIN stack = 1 .. L /\ L \in DOMAIN stack
  BY <1>1, <1>2 DEF StackOK
<1> HIDE DEF L
<1>4. IsLast(Current) <=> Current[2] = Span
  BY <1>1 DEF IsLast, EpochsTile
<1>5. ASSUME Tail(Top) # <<>>
      PROVE  Len(Top) = 2 /\ Top[2] \in Epochs /\ Top[2][1] = Current[2]
  BY <1>2, <1>3, <1>5, TailOfTwo DEF SpanChain
<1>6. ASSUME Current[2] = Span PROVE Tail(Top) = <<>>
  <2>1. \A e \in Epochs : e[1] # Span
    BY ConstantsAssumption DEF Epochs
  <2>2. QED
    BY <1>5, <1>6, <2>1
<1>7. ASSUME Tail(Top) = <<>> PROVE Len(Top) = 1
  BY <1>2, <1>7, TailOfOne
<1>8. Tail(Top) = <<>> => Current[2] = IF L = 1 THEN Span ELSE stack[L - 1][1][2]
  BY <1>2, <1>3, <1>7 DEF SpanChain
<1>9. QED
  BY <1>4, <1>5, <1>6, <1>8 DEF L

LEMMA InitChain == Init => SpanChain
<1> SUFFICES ASSUME Init PROVE SpanChain
  OBVIOUS
<1> DEFINE e == <<0, Span>>
           h == Slice(e)
<1>1. e \in Epochs /\ e[1] = 0 /\ e[2] = Span
  BY ConstantsAssumption DEF Epochs
<1>2. stack = <<h>>
  BY DEF Init
<1> HIDE DEF e
<1>3. /\ h \in Seq(Epochs) /\ Len(h) \in {1, 2} /\ h[Len(h)][2] = Span
      /\ Len(h) = 2 => h[1][2] = h[2][1]
  BY <1>1, SliceTiles
<1> HIDE DEF h
<1>4. QED
  BY <1>2, <1>3 DEF SpanChain

LEMMA NextChain == ASSUME IInv, SpanChain, [Next]_vars PROVE SpanChain'
<1> DEFINE L == Len(stack)
<1>1. CASE UNCHANGED stack
  BY <1>1 DEF SpanChain
<1>2. CASE TooLarge
  <2> PICK c : c = Current
    OBVIOUS
  <2> PICK h : h = Slice(c)
    OBVIOUS
  <2>1. StackOK /\ stack # <<>> /\ stack' = Append(stack, h)
    BY <1>2 DEF IInv, StackOK, Running, TooLarge
  <2>2. /\ L \in Nat \ {0} /\ c \in Epochs /\ c = stack[L][1]
    BY <2>1, TopOfStack
  <2>3. /\ h \in Seq(Epochs) /\ Len(h) \in {1, 2} /\ h[Len(h)][2] = c[2]
        /\ Len(h) = 2 => h[1][2] = h[2][1]
    BY <2>2, SliceTiles
  <2>4. /\ stack \in Seq(Seq(Epochs)) /\ DOMAIN stack = 1 .. L /\ DOMAIN stack' = 1 .. L + 1
        /\ \A k \in 1 .. L : stack'[k] = stack[k]
        /\ stack'[L + 1] = h
    BY <2>1, <2>3, AppendProperties DEF StackOK
  <2> HIDE DEF L
  <2>5. \A k \in DOMAIN stack' : (k \in DOMAIN stack /\ k - 1 \in 1 .. L \cup {0}) \/ k = L + 1
    BY <2>2, <2>4
  <2>6. \A k \in DOMAIN stack' : Len(stack'[k]) = 2 => stack'[k][1][2] = stack'[k][2][1]
    BY <2>3, <2>4, <2>5 DEF SpanChain
  <2>7. ASSUME NEW k \in DOMAIN stack'
        PROVE  stack'[k][Len(stack'[k])][2] = IF k = 1 THEN Span ELSE stack'[k - 1][1][2]
    <3>1. CASE k \in DOMAIN stack
      <4>1. k = 1 \/ k - 1 \in 1 .. L
        <5>1. L \in Nat /\ k \in 1 .. L
          BY <2>2, <2>4, <3>1
        <5>2. QED
          BY <5>1
      <4>2. stack'[k] = stack[k] /\ (k # 1 => stack'[k - 1] = stack[k - 1])
        BY <2>4, <3>1, <4>1
      <4>3. stack[k][Len(stack[k])][2] = IF k = 1 THEN Span ELSE stack[k - 1][1][2]
        BY <3>1 DEF SpanChain
      <4>4. QED
        BY <4>2, <4>3
    <3>2. CASE k = L + 1
      <4>1. k # 1 /\ k - 1 = L /\ L \in 1 .. L
        BY <2>2, <3>2
      <4>2. QED
        BY <2>2, <2>3, <2>4, <3>2, <4>1
    <3>3. QED
      BY <2>5, <3>1, <3>2
  <2>8. QED
    BY <2>6, <2>7 DEF SpanChain
<1>3. CASE AfterLast \/ AfterLoop
  <2>1. StackOK /\ stack # <<>> /\ stack' = Below
    BY <1>3 DEF IInv, StackOK, Running, AfterLast, AfterLoop, Return
  <2>2. /\ L \in Nat \ {0} /\ Len(stack') = L - 1 /\ stack' \in Seq(Seq(Epochs))
        /\ \A k \in 1 .. L - 1 : stack'[k] = stack[k]
    BY <2>1, TopOfStack
  <2>3. DOMAIN stack = 1 .. L /\ DOMAIN stack' = 1 .. L - 1
    BY <2>1, <2>2 DEF StackOK
  <2> HIDE DEF L
  <2>4. \A k \in DOMAIN stack' : k \in DOMAIN stack /\ (k = 1 \/ k - 1 \in 1 .. L - 1)
    BY <2>2, <2>3
  <2>5. QED
    BY <2>2, <2>3, <2>4 DEF SpanChain
<1>4. CASE AfterNext
  <2>1. StackOK /\ stack # <<>> /\ Tail(Top) # <<>> /\ stack' = Append(Below, Tail(Top))
    BY <1>4 DEF IInv, StackOK, Running, AfterNext
  <2>2. /\ L \in Nat \ {0} /\ Top = stack[L] /\ Top \in Seq(Epochs) /\ Len(Top) \in {1, 2}
        /\ Below \in Seq(Seq(Epochs)) /\ Len(Below) = L - 1
        /\ \A k \in 1 .. L - 1 : Below[k] = stack[k]
    BY <2>1, TopOfStack
  <2>3. Len(Top) = 2 /\ Top[2] \in Epochs /\ Tail(Top) = <<Top[2]>>
    BY <2>1, <2>2, TailOfTwo
  <2>4. /\ DOMAIN stack = 1 .. L /\ DOMAIN stack' = 1 .. L
        /\ \A k \in 1 .. L - 1 : stack'[k] = stack[k]
        /\ stack'[L] = <<Top[2]>> /\ Len(stack'[L]) = 1 /\ stack'[L][1] = stack[L][2]
    <3>1. <<Top[2]>> \in Seq(Epochs) /\ Len(<<Top[2]>>) = 1
      BY <2>3
    <3>2. DOMAIN stack = 1 .. L
      BY <2>1 DEF StackOK
    <3>3. QED
      BY <2>1, <2>2, <2>3, <3>1, <3>2, AppendProperties
  <2> HIDE DEF L
  <2>5. \A k \in DOMAIN stack' :
            k \in DOMAIN stack /\ (k = L \/ k \in 1 .. L - 1) /\ (k = 1 \/ k - 1 \in 1 .. L - 1)
    BY <2>2, <2>4
  <2>6. \A k \in DOMAIN stack' : Len(stack'[k]) = 2 => stack'[k][1][2] = stack'[k][2][1]
    BY <2>4, <2>5 DEF SpanChain
  <2>7. ASSUME NEW k \in DOMAIN stack'
        PROVE  stack'[k][Len(stack'[k])][2] = IF k = 1 THEN Span ELSE stack'[k - 1][1][2]
    <3>1. stack[k][Len(stack[k])][2] = IF k = 1 THEN Span ELSE stack[k - 1][1][2]
      BY <2>5 DEF SpanChain
    <3>2. stack'[k][Len(stack'[k])] = stack[k][Len(stack[k])]
      BY <2>2, <2>3, <2>4, <2>5
    <3>3. k # 1 => stack'[k - 1] = stack[k - 1]
      BY <2>4, <2>5
    <3>4. QED
      BY <3>1, <3>2, <3>3
  <2>8. QED
    BY <2>6, <2>7 DEF SpanChain
<1>5. QED
  BY <1>1, <1>2, <1>3, <1>4
     DEF Next, vars, Succeed, Dump, Dumped, Fail, Done

-----------------------------------------------------------------------------
(* What has been written. *)

Before(t) == {k \in catalog : 2 * k < t}

\* An object begins within the epoch of the task.
LEMMA ObjectsWithin == \A k \in Objects : k \in Nat /\ k # None /\ 2 * k < Span
BY ConstantsAssumption DEF Objects, None

\* Only the last object has to be compared to the next one: it is the latest.
LastIsLatest ==
    /\ \A k \in Written : k <= lastObj
    /\ lastObj # None => lastObj \in Written

\* The file holds the objects that begin before what is requested next.
Frontier ==
    /\ pc = "request" => Written = Before(Current[1])
    /\ pc = "dump" => Written \cup rest = Before(Current[2]) /\ \A k \in rest : lastObj <= k
    /\ pc = "after" => Written = Before(Current[2])

FileInv ==
    /\ TypeInv
    /\ SpanChain
    /\ Aligned
    /\ LastIsLatest
    /\ Frontier
    /\ NothingMissing

LEMMA InitFile == Init => FileInv
<1> SUFFICES ASSUME Init PROVE FileInv
  OBVIOUS
<1> DEFINE e == <<0, Span>>
<1>1. TypeInv /\ SpanChain
  BY InitType, InitChain
<1>2. file = <<>> /\ lastObj = None /\ pc = "request"
  BY DEF Init
<1>3. Written = {} /\ Aligned
  BY <1>2 DEF Written, Aligned, IsObj
<1>4. Current[1] = 0
  <2>1. e \in Epochs /\ e[1] = 0
    BY ConstantsAssumption DEF Epochs
  <2> HIDE DEF e
  <2>2. Slice(e) \in Seq(Epochs) /\ Len(Slice(e)) \in {1, 2} /\ Slice(e)[1][1] = 0
    BY <2>1, SliceTiles
  <2>3. stack = <<Slice(e)>>
    BY DEF Init, e
  <2>4. Current = Slice(e)[1]
    BY <2>2, <2>3 DEF Current, Top, Last
  <2>5. QED
    BY <2>2, <2>4
<1>5. Before(0) = {}
  <2>1. \A k \in catalog : k \in Nat
    BY ObjectsWithin DEF Init
  <2>2. QED
    BY <2>1 DEF Before
<1>6. Frontier
  BY <1>2, <1>3, <1>4, <1>5 DEF Frontier
<1>7. QED
  BY <1>1, <1>2, <1>3, <1>6 DEF FileInv, LastIsLatest, NothingMissing

\* Marks and moves that leave the objects in the file as they are.
LEMMA FileKept ==
    ASSUME FileInv, lastObj' = lastObj,
           file' = file \/ \E t \in {Start, End, Sep} : file' = Append(file, t)
    PROVE  Written' = Written /\ Aligned' /\ LastIsLatest'
<1>1. file \in Seq(Token)
  BY DEF FileInv, TypeInv, TypeOK, Token
<1>2. ObjsOf(file') = ObjsOf(file) /\ (Sorted(file) => Sorted(file'))
  BY <1>1, AppendMark
<1>3. /\ Written = ObjsOf(file) /\ (Aligned <=> Sorted(file))
      /\ Written' = ObjsOf(file') /\ (Aligned' <=> Sorted(file'))
  BY InTheseWords DEF Written, IsObj, ObjsOf, Aligned, Sorted
<1>4. QED
  BY <1>2, <1>3 DEF FileInv, LastIsLatest

\* What overlaps an epoch and has not been written comes after what has been.
LEMMA SucceedFile == ASSUME FileInv, Succeed PROVE Frontier'
<1> DEFINE a == Current[1]
           b == Current[2]
<1>1. /\ pc = "request" /\ pc' = "dump" /\ rest' = Response(Current) /\ lastObj' = lastObj
      /\ Current' = Current /\ catalog' = catalog /\ catalog \subseteq Objects
      /\ Written' = Written
  <2>1. Written' = Written
    BY FileKept DEF Succeed
  <2>2. QED
    BY <2>1 DEF Succeed, FileInv, TypeInv, TypeOK, Current, Top
<1>2. Current \in Epochs /\ a \in Int /\ b \in Int /\ a < b
  <2>1. StackOK /\ stack # <<>>
    BY <1>1 DEF FileInv, TypeInv, IInv, StackOK, Running
  <2>2. QED
    BY <2>1, TopOfStack, EpochOrder
<1>3. \A k \in catalog : k \in Int
  BY <1>1 DEF Objects
<1>4. Written = {k \in catalog : 2 * k < a}
  BY <1>1 DEF FileInv, Frontier, Before
<1>5. rest' = {k \in catalog : 2 * k < b /\ 2 * k + 2 > a}
  BY <1>1 DEF Response
<1> HIDE DEF a, b
<1>6. Written' \cup rest' = {k \in catalog : 2 * k < b}
  BY <1>1, <1>2, <1>3, <1>4, <1>5
<1>7. ASSUME NEW k \in rest' PROVE lastObj <= k
  <2>1. CASE lastObj = None
    BY <1>1, <1>5, <2>1 DEF None, Objects
  <2>2. CASE lastObj # None
    <3>1. lastObj \in catalog /\ 2 * lastObj < a
      BY <1>4, <2>2 DEF FileInv, LastIsLatest
    <3>2. k \in catalog /\ 2 * k + 2 > a
      BY <1>5
    <3>3. QED
      BY <1>2, <1>3, <3>1, <3>2
  <2>3. QED
    BY <2>1, <2>2
<1>8. QED
  BY <1>1, <1>6, <1>7 DEF Frontier, Before, b

\* The least of the objects left is the last one written, or is later.
LEMMA DumpFile ==
    ASSUME FileInv, Dump PROVE Aligned' /\ LastIsLatest' /\ Frontier'
<1>1. PICK k \in rest : (\A l \in rest : k <= l) /\ Write(k) /\ rest' = rest \ {k}
  BY DEF Dump
<1>2. /\ k \in Objects /\ k \in Int /\ rest \subseteq Objects
      /\ file \in Seq(Token) /\ TypeOK /\ lastObj \in Int
  BY DEF FileInv, TypeInv, TypeOK, Token, Objects, None
<1>3. pc = "dump" /\ pc' = "dump" /\ Current' = Current /\ catalog' = catalog
  BY DEF Dump, Current, Top
<1>4. /\ Written \cup rest = Before(Current[2]) /\ \A l \in rest : lastObj <= l
      /\ LastIsLatest /\ Aligned
  BY <1>3 DEF FileInv, Frontier
<1>5. /\ Written = ObjsOf(file) /\ (Aligned <=> Sorted(file))
      /\ Written' = ObjsOf(file') /\ (Aligned' <=> Sorted(file'))
  BY InTheseWords DEF Written, IsObj, ObjsOf, Aligned, Sorted
<1>6. \A l \in Written : l \in Int
  <2>1. Written \subseteq Before(Current[2])
    BY <1>4
  <2>2. QED
    BY <2>1 DEF Before, FileInv, TypeInv, TypeOK, Objects
<1>7. lastObj' = k /\ k # None
  BY <1>1, <1>2, WriteFile DEF None, Objects
<1>8. CASE k = lastObj /\ file' = file
  <2>1. Written' = Written /\ Aligned' /\ k \in Written
    BY <1>4, <1>5, <1>7, <1>8 DEF LastIsLatest
  <2>2. LastIsLatest'
    BY <1>4, <1>7, <1>8, <2>1 DEF LastIsLatest
  <2>3. Written' \cup rest' = Written \cup rest
    BY <1>1, <2>1
  <2>4. QED
    BY <1>1, <1>3, <1>4, <1>7, <2>1, <2>2, <2>3 DEF Frontier, Before
<1>9. CASE k # lastObj
  <2>1. /\ ObjsOf(file') = ObjsOf(file) \cup {k}
        /\ Sorted(file) /\ (\A l \in ObjsOf(file) : l < k) => Sorted(file')
    BY <1>1, <1>2, <1>9, WriteFile
  <2>2. \A l \in Written : l < k
    BY <1>2, <1>4, <1>6, <1>9 DEF LastIsLatest
  <2>3. Written' = Written \cup {k} /\ Aligned'
    BY <1>4, <1>5, <2>1, <2>2
  <2>4. LastIsLatest'
    BY <1>2, <1>6, <1>7, <2>2, <2>3 DEF LastIsLatest
  <2>5. Written' \cup rest' = Written \cup rest
    BY <1>1, <2>3
  <2>6. QED
    BY <1>1, <1>3, <1>4, <1>7, <2>3, <2>4, <2>5 DEF Frontier, Before
<1>10. QED
  BY <1>1, <1>2, <1>8, <1>9, WriteFile

\* A call returns at the time it ends, and its caller goes on from there.
LEMMA ReturnTime ==
    ASSUME FileInv, pc = "after", NEW r, Return(r), Tail(Top) = <<>>
    PROVE  \/ Below = <<>> /\ pc' = r /\ Current[2] = Span
           \/ Below # <<>> /\ pc' = "after" /\ Current'[2] = Current[2]
<1> DEFINE L == Len(stack)
<1>1. IInv /\ StackOK /\ stack # <<>> /\ SpanChain /\ Running
  BY DEF FileInv, TypeInv, IInv, StackOK, Running
<1>2. /\ L \in Nat \ {0} /\ stack' = Below /\ Len(stack') = L - 1
      /\ stack' \in Seq(Seq(Epochs))
      /\ \A k \in 1 .. L - 1 : stack'[k] = stack[k]
  BY <1>1, TopOfStack DEF Return
<1>3. Current[2] = IF L = 1 THEN Span ELSE stack[L - 1][1][2]
  BY <1>1, AtTheEnd
<1> HIDE DEF L
<1>4. CASE L = 1
  <2>1. Below = <<>>
    BY <1>2, <1>4
  <2>2. QED
    BY <1>3, <1>4, <2>1 DEF Return
<1>5. CASE L # 1
  <2>1. Below # <<>> /\ pc' = "after"
    <3>1. Len(Below) # 0
      BY <1>2, <1>5
    <3>2. QED
      BY <3>1 DEF Return
  <2>2. Current' = stack[L - 1][1]
    <3>1. L - 1 \in 1 .. L - 1 /\ Len(stack') = L - 1
      BY <1>2, <1>5
    <3>2. Current' = Head(stack'[L - 1]) /\ stack'[L - 1] = stack[L - 1]
      BY <1>2, <3>1 DEF Current, Top, Last
    <3>3. stack[L - 1] \in Seq(Epochs) /\ Len(stack[L - 1]) \in {1, 2}
      <4>1. L - 1 \in 1 .. L
        BY <1>2, <1>5
      <4>2. L - 1 \in DOMAIN stack
        BY <1>1, <4>1 DEF StackOK, L
      <4>3. QED
        BY <1>1, <4>2 DEF StackOK
    <3>4. QED
      BY <3>2, <3>3
  <2>3. QED
    BY <1>3, <1>5, <2>1, <2>2
<1>6. QED
  BY <1>4, <1>5

\* So the first call returns at the end of the task's epoch, and says so.
LEMMA ReturnFile ==
    ASSUME FileInv, pc = "after", NEW r \in {"ok", "none"}, Return(r), Tail(Top) = <<>>,
           r = "none" => ~IsLast(Current), Written' = Written, catalog' = catalog
    PROVE  Frontier' /\ NothingMissing'
<1>1. Written = Before(Current[2]) /\ (IsLast(Current) <=> Current[2] = Span)
  BY AtTheEnd DEF FileInv, TypeInv, Running, Frontier
<1>2. CASE pc' = r /\ Current[2] = Span
  <2>1. Before(Span) = catalog
    BY ObjectsWithin DEF Before, FileInv, TypeInv, TypeOK
  <2>2. QED
    BY <1>1, <1>2, <2>1 DEF Frontier, NothingMissing
<1>3. CASE pc' = "after" /\ Current'[2] = Current[2]
  BY <1>1, <1>3 DEF Frontier, NothingMissing, Before
<1>4. QED
  BY <1>2, <1>3, ReturnTime

\* The second half is requested when what begins before it has been written.
LEMMA AfterNextFile == ASSUME FileInv, AfterNext PROVE Frontier'
<1>1. /\ IInv /\ StackOK /\ stack # <<>> /\ SpanChain /\ Running
      /\ Written = Before(Current[2]) /\ Tail(Top) # <<>>
      /\ stack' = Append(Below, Tail(Top)) /\ pc' = "request" /\ catalog' = catalog
      /\ Written' = Written
  BY DEF FileInv, TypeInv, IInv, StackOK, Running, Frontier, AfterNext, Written, IsObj
<1>2. /\ Top \in Seq(Epochs) /\ Len(Top) \in {1, 2} /\ Below \in Seq(Seq(Epochs))
  BY <1>1, TopOfStack
<1>3. Tail(Top) = <<Top[2]>> /\ Top[2] \in Epochs
  BY <1>1, <1>2, TailOfTwo
<1>4. Top[2][1] = Current[2]
  BY <1>1, AtTheEnd
<1>5. Current' = Top[2]
  <2>1. stack'[Len(stack')] = <<Top[2]>>
    BY <1>1, <1>2, <1>3
  <2>2. QED
    BY <1>3, <2>1 DEF Current, Top, Last
<1>6. QED
  BY <1>1, <1>4, <1>5 DEF Frontier, Before

LEMMA NextFile == FileInv /\ [Next]_vars => FileInv'
<1> SUFFICES ASSUME FileInv, [Next]_vars PROVE FileInv'
  OBVIOUS
<1>1. TypeInv' /\ SpanChain'
  BY NextType, NextChain DEF FileInv, TypeInv
<1>2. CASE Succeed
  <2>1. Aligned' /\ LastIsLatest'
    BY <1>2, FileKept DEF Succeed
  <2>2. NothingMissing'
    BY <1>2 DEF Succeed, NothingMissing
  <2>3. QED
    BY <1>1, <1>2, <2>1, <2>2, SucceedFile DEF FileInv
<1>3. CASE Dump
  <2>1. NothingMissing'
    BY <1>3 DEF Dump, NothingMissing
  <2>2. QED
    BY <1>1, <1>3, <2>1, DumpFile DEF FileInv
<1>4. CASE Dumped \/ Fail
  <2>1. Written' = Written /\ Aligned' /\ LastIsLatest'
    BY <1>4, FileKept DEF Dumped, Fail
  <2>2. Frontier' /\ NothingMissing'
    BY <1>4, <2>1 DEF Dumped, Fail, FileInv, Frontier, NothingMissing, Before, Current, Top
  <2>3. QED
    BY <1>1, <2>1, <2>2 DEF FileInv
<1>5. CASE TooLarge
  <2>1. Written' = Written /\ Aligned' /\ LastIsLatest'
    BY <1>5, FileKept DEF TooLarge
  <2>2. Current'[1] = Current[1]
    <3>1. StackOK /\ stack # <<>> /\ stack' = Append(stack, Slice(Current))
      BY <1>5 DEF FileInv, TypeInv, IInv, StackOK, Running, TooLarge
    <3>2. Current \in Epochs
      BY <3>1, TopOfStack
    <3> PICK h : h = Slice(Current)
      OBVIOUS
    <3>3. h \in Seq(Epochs) /\ Len(h) \in {1, 2} /\ h[1][1] = Current[1]
      BY <3>2, SliceTiles
    <3>4. stack'[Len(stack')] = h
      BY <3>1, <3>3, AppendProperties DEF StackOK
    <3>5. Current' = h[1]
      BY <3>3, <3>4 DEF Current, Top, Last
    <3>6. QED
      BY <3>3, <3>5
  <2>3. Frontier' /\ NothingMissing'
    BY <1>5, <2>1, <2>2 DEF TooLarge, FileInv, Frontier, NothingMissing, Before
  <2>4. QED
    BY <1>1, <2>1, <2>3 DEF FileInv
<1>6. CASE AfterLast
  <2>1. Written' = Written /\ Aligned' /\ LastIsLatest'
    BY <1>6, FileKept DEF AfterLast
  <2>2. Tail(Top) = <<>>
    BY <1>6, AtTheEnd DEF AfterLast, FileInv, TypeInv, Running
  <2>3. Frontier' /\ NothingMissing'
    BY <1>6, <2>1, <2>2, ReturnFile DEF AfterLast
  <2>4. QED
    BY <1>1, <2>1, <2>3 DEF FileInv
<1>7. CASE AfterLoop
  <2>1. Written' = Written /\ Aligned' /\ LastIsLatest'
    BY <1>7, FileKept DEF AfterLoop
  <2>2. Frontier' /\ NothingMissing'
    BY <1>7, <2>1, ReturnFile DEF AfterLoop
  <2>3. QED
    BY <1>1, <2>1, <2>2 DEF FileInv
<1>8. CASE AfterNext
  <2>1. Aligned' /\ LastIsLatest'
    BY <1>8, FileKept DEF AfterNext
  <2>2. NothingMissing'
    BY <1>8 DEF AfterNext, NothingMissing
  <2>3. QED
    BY <1>1, <1>8, <2>1, <2>2, AfterNextFile DEF FileInv
<1>9. CASE UNCHANGED vars
  <2>1. Written' = Written /\ Aligned' /\ LastIsLatest'
    BY <1>9, FileKept DEF vars
  <2>2. Frontier' /\ NothingMissing'
    BY <1>9, <2>1 DEF vars, FileInv, Frontier, NothingMissing, Before, Current, Top
  <2>3. QED
    BY <1>1, <2>1, <2>2 DEF FileInv
<1>10. QED
  BY <1>2, <1>3, <1>4, <1>5, <1>6, <1>7, <1>8, <1>9 DEF Next, Done

-----------------------------------------------------------------------------
(* The brackets and commas. *)

Shaped(f) ==
    \A i \in DOMAIN f :
        \/ i = 1 /\ f[i] = Start
        \/ i % 2 = 0 /\ f[i][1] = "obj"
        \/ i > 1 /\ i % 2 = 1 /\ f[i] = Sep
        \/ f[i] = End /\ \A j \in DOMAIN f : j > i => f[j] = End

Open(f) == \A i \in DOMAIN f : f[i] # End

\* The list is ended only when all calls that are left end with the task's epoch.
EndsLate == Running /\ ~Open(file) => pc = "after" /\ Current[2] = Span

\* The list is begun with its first object, and stops behind one.
Begun ==
    /\ pc = "request" /\ lastObj = None => file = <<>>
    /\ pc = "dump" /\ lastObj = None => rest # {} /\ file = <<Start>>
    /\ pc = "after" => lastObj # None
    /\ Running /\ Open(file) /\ lastObj # None => Len(file) % 2 = 0 /\ Len(file) # 0

BodyInv ==
    /\ FileInv
    /\ Shaped(file)
    /\ EndsLate
    /\ Begun

LEMMA AppendEnd ==
    ASSUME NEW f \in Seq(Token), Shaped(f)
    PROVE  Shaped(Append(f, End)) /\ ~Open(Append(f, End))
<1> DEFINE g == Append(f, End)
<1>1. /\ DOMAIN g = 1 .. Len(f) + 1 /\ DOMAIN f = 1 .. Len(f) /\ Len(f) \in Nat
      /\ \A i \in 1 .. Len(f) : g[i] = f[i]
      /\ g[Len(f) + 1] = End
  BY DEF Token
<1> HIDE DEF g
<1>2. \A i \in DOMAIN g : (i \in DOMAIN f /\ g[i] = f[i]) \/ (i = Len(f) + 1 /\ g[i] = End)
  BY <1>1
<1>3. \A j \in DOMAIN g : ~(j > Len(f) + 1)
  BY <1>1
<1>4. Shaped(g)
  <2> SUFFICES ASSUME NEW i \in DOMAIN g
               PROVE  \/ i = 1 /\ g[i] = Start
                      \/ i % 2 = 0 /\ g[i][1] = "obj"
                      \/ i > 1 /\ i % 2 = 1 /\ g[i] = Sep
                      \/ g[i] = End /\ \A j \in DOMAIN g : j > i => g[j] = End
    BY DEF Shaped
  <2>1. CASE i = Len(f) + 1 /\ g[i] = End
    BY <1>3, <2>1
  <2>2. CASE i \in DOMAIN f /\ g[i] = f[i]
    BY <1>2, <2>2 DEF Shaped
  <2>3. QED
    BY <1>2, <2>1, <2>2
<1>5. ~Open(g)
  BY <1>1 DEF Open
<1>6. QED
  BY <1>4, <1>5 DEF g

\* The first object follows the bracket.
LEMMA FirstObj ==
    ASSUME NEW k \in Objects
    PROVE  /\ Shaped(<<Start>>) /\ Open(<<Start>>)
           /\ LET g == Append(<<Start>>, Obj(k)) IN Shaped(g) /\ Open(g) /\ Len(g) = 2
<1> DEFINE g == Append(<<Start>>, Obj(k))
<1>1. Start \in Token /\ Obj(k) \in Token /\ <<Start>> \in Seq(Token)
  BY DEF Token
<1>2. /\ DOMAIN <<Start>> = {1} /\ <<Start>>[1] = Start /\ Len(<<Start>>) = 1
      /\ DOMAIN g = 1 .. 2 /\ Len(g) = 2 /\ g[1] = Start /\ g[2] = Obj(k)
  <2>1. Len(<<Start>>) = 1 /\ <<Start>>[1] = Start /\ DOMAIN <<Start>> = {1}
    OBVIOUS
  <2>2. /\ g \in Seq(Token) /\ Len(g) = Len(<<Start>>) + 1 /\ g[Len(<<Start>>) + 1] = Obj(k)
        /\ \A i \in 1 .. Len(<<Start>>) : g[i] = <<Start>>[i]
    BY <1>1, AppendProperties
  <2> HIDE DEF g
  <2>3. QED
    BY <2>1, <2>2
<1> HIDE DEF g
<1>3. Start # End /\ Obj(k) # End /\ Obj(k)[1] = "obj" /\ 2 % 2 = 0
  BY TokenKinds
<1>4. DOMAIN g = {1, 2}
  BY <1>2
<1>5. QED
  BY <1>2, <1>3, <1>4 DEF Shaped, Open, g

\* Others follow a comma.
LEMMA NextObj ==
    ASSUME NEW f \in Seq(Token), Shaped(f), Open(f), Len(f) % 2 = 0, Len(f) # 0,
           NEW k \in Objects
    PROVE  LET g == Append(Append(f, Sep), Obj(k)) IN
           Shaped(g) /\ Open(g) /\ Len(g) % 2 = 0 /\ Len(g) # 0
<1> DEFINE g == Append(Append(f, Sep), Obj(k))
           L == Len(f)
<1>1. Sep \in Token /\ Obj(k) \in Token
  BY DEF Token
<1>2. /\ DOMAIN g = 1 .. L + 2 /\ DOMAIN f = 1 .. L /\ L \in Nat /\ Len(g) = L + 2
      /\ \A i \in 1 .. L : g[i] = f[i]
      /\ g[L + 1] = Sep /\ g[L + 2] = Obj(k)
  BY <1>1
<1> HIDE DEF g
<1>3. L % 2 = 0 /\ L # 0
  OBVIOUS
<1>4. Sep # End /\ Obj(k) # End /\ Obj(k)[1] = "obj"
  BY TokenKinds
<1> HIDE DEF L
<1>5. (L + 1) % 2 = 1 /\ (L + 2) % 2 = 0 /\ L + 1 > 1 /\ L + 2 # 0
  BY <1>2, <1>3
<1>6. \A i \in DOMAIN g : (i \in DOMAIN f /\ g[i] = f[i]) \/ i = L + 1 \/ i = L + 2
  BY <1>2
<1>7. Open(g)
  BY <1>2, <1>4, <1>6 DEF Open
<1>8. ASSUME NEW i \in DOMAIN g
      PROVE  \/ i = 1 /\ g[i] = Start
             \/ i % 2 = 0 /\ g[i][1] = "obj"
             \/ i > 1 /\ i % 2 = 1 /\ g[i] = Sep
  <2>1. CASE i \in DOMAIN f /\ g[i] = f[i]
    BY <2>1 DEF Shaped, Open
  <2>2. CASE i = L + 1
    BY <1>2, <1>5, <2>2
  <2>3. CASE i = L + 2
    BY <1>2, <1>4, <1>5, <2>3
  <2>4. QED
    BY <1>6, <2>1, <2>2, <2>3
<1>9. Shaped(g)
  BY <1>8 DEF Shaped
<1>10. QED
  BY <1>2, <1>5, <1>7, <1>9 DEF g

LEMMA InitBody == Init => BodyInv
<1> SUFFICES ASSUME Init PROVE BodyInv
  OBVIOUS
<1>1. file = <<>> /\ lastObj = None /\ pc = "request"
  BY DEF Init
<1>2. Shaped(file) /\ Open(file)
  BY <1>1 DEF Shaped, Open
<1>3. QED
  BY <1>1, <1>2, InitFile DEF BodyInv, EndsLate, Begun

\* Whatever an endpoint answers with 200 has an object in it.
NoEmptyList == ~EmptyLists

LEMMA SucceedBody ==
    ASSUME NoEmptyList, BodyInv, Succeed PROVE Shaped(file') /\ EndsLate' /\ Begun'
<1>1. /\ pc = "request" /\ pc' = "dump" /\ rest' # {} /\ lastObj' = lastObj
      /\ file' = IF lastObj = None THEN Append(file, Start) ELSE file
      /\ Open(file) /\ Shaped(file)
  BY DEF Succeed, NoEmptyList, BodyInv, EndsLate, Running
<1>2. CASE lastObj = None
  <2>1. file = <<>>
    BY <1>1, <1>2 DEF BodyInv, Begun
  <2>2. file' = <<Start>>
    BY <1>1, <1>2, <2>1
  <2>3. Shaped(file') /\ Open(file')
    BY <2>2, FirstObj, ConstantsAssumption DEF Objects
  <2>4. QED
    BY <1>1, <1>2, <2>2, <2>3 DEF EndsLate, Begun
<1>3. CASE lastObj # None
  <2>1. file' = file
    BY <1>1, <1>3
  <2>2. Len(file) % 2 = 0 /\ Len(file) # 0
    BY <1>1, <1>3 DEF BodyInv, Begun, Running
  <2>3. QED
    BY <1>1, <1>3, <2>1, <2>2 DEF EndsLate, Begun, Open
<1>4. QED
  BY <1>2, <1>3

LEMMA DumpBody == ASSUME BodyInv, Dump PROVE Shaped(file') /\ EndsLate' /\ Begun'
<1>1. PICK k \in rest : Write(k)
  BY DEF Dump
<1>2. /\ pc = "dump" /\ pc' = "dump" /\ Open(file) /\ Shaped(file)
      /\ file \in Seq(Token) /\ k \in Objects /\ k # None
  BY ObjectsWithin DEF Dump, BodyInv, EndsLate, Running, FileInv, TypeInv, TypeOK, Token
<1>3. CASE k = lastObj /\ UNCHANGED <<file, lastObj>>
  <2>1. Len(file) % 2 = 0 /\ Len(file) # 0
    BY <1>2, <1>3 DEF BodyInv, Begun, Running
  <2>2. QED
    BY <1>2, <1>3, <2>1 DEF EndsLate, Begun, Open
<1>4. CASE k # lastObj /\ lastObj = None
  <2>1. file = <<Start>>
    BY <1>2, <1>4 DEF BodyInv, Begun
  <2>2. file' = Append(file, Obj(k)) /\ lastObj' = k
    BY <1>1, <1>4 DEF Write
  <2>3. Shaped(file') /\ Open(file') /\ Len(file') = 2
    BY <1>2, <2>1, <2>2, FirstObj
  <2>4. QED
    BY <1>2, <2>2, <2>3 DEF EndsLate, Begun
<1>5. CASE k # lastObj /\ lastObj # None
  <2>1. Len(file) % 2 = 0 /\ Len(file) # 0
    BY <1>2, <1>5 DEF BodyInv, Begun, Running
  <2>2. file' = Append(Append(file, Sep), Obj(k)) /\ lastObj' = k
    BY <1>1, <1>5 DEF Write
  <2>3. Shaped(file') /\ Open(file') /\ Len(file') % 2 = 0 /\ Len(file') # 0
    BY <1>2, <2>1, <2>2, NextObj
  <2>4. QED
    BY <1>2, <2>2, <2>3 DEF EndsLate, Begun
<1>6. QED
  BY <1>1, <1>3, <1>4, <1>5 DEF Write

LEMMA NextBody ==
    ASSUME NoEmptyList, BodyInv, [Next]_vars PROVE BodyInv'
<1> SUFFICES Shaped(file') /\ EndsLate' /\ Begun'
  BY NextFile DEF BodyInv
<1>1. Shaped(file) /\ EndsLate /\ Begun /\ FileInv
  BY DEF BodyInv
<1>2. CASE Succeed
  BY <1>2, SucceedBody
<1>3. CASE Dump
  BY <1>3, DumpBody
<1>4. CASE Dumped
  BY <1>1, <1>4 DEF Dumped, EndsLate, Begun, Running, Open
<1>5. CASE TooLarge
  BY <1>1, <1>5 DEF TooLarge, EndsLate, Begun, Running, Open
<1>6. CASE Fail
  BY <1>1, <1>6 DEF Fail, EndsLate, Begun, Running
<1>7. CASE AfterLast
  <2>1. file \in Seq(Token) /\ file' = Append(file, End) /\ lastObj' = lastObj
        /\ pc = "after"
    BY <1>1, <1>7 DEF AfterLast, FileInv, TypeInv, TypeOK, Token
  <2>2. Shaped(file') /\ ~Open(file')
    BY <1>1, <2>1, AppendEnd
  <2>3. Tail(Top) = <<>> /\ Current[2] = Span
    BY <1>1, <1>7, AtTheEnd DEF AfterLast, FileInv, TypeInv, Running
  <2>4. pc' = "ok" \/ (pc' = "after" /\ Current'[2] = Span)
    <3>1. Return("ok")
      BY <1>7 DEF AfterLast
    <3>2. \/ Below = <<>> /\ pc' = "ok" /\ Current[2] = Span
          \/ Below # <<>> /\ pc' = "after" /\ Current'[2] = Current[2]
      BY <1>1, <2>1, <2>3, <3>1, ReturnTime
    <3>3. QED
      BY <2>3, <3>2
  <2>5. EndsLate' /\ Begun'
    BY <1>1, <2>1, <2>2, <2>4 DEF EndsLate, Begun, Running
  <2>6. QED
    BY <2>2, <2>5
<1>8. CASE AfterLoop \/ AfterNext
  <2>1. pc = "after" /\ file' = file /\ lastObj' = lastObj /\ ~IsLast(Current)
    BY <1>8 DEF AfterLoop, AfterNext
  <2>2. Current[2] # Span
    BY <1>1, <2>1, AtTheEnd DEF FileInv, TypeInv, Running
  <2>3. Open(file) /\ lastObj # None /\ Len(file) % 2 = 0 /\ Len(file) # 0
    BY <1>1, <2>1, <2>2 DEF EndsLate, Begun, Running
  <2>4. pc' # "dump"
    BY <1>8 DEF AfterLoop, AfterNext, Return
  <2>5. QED
    BY <1>1, <2>1, <2>3, <2>4 DEF EndsLate, Begun, Open
<1>9. CASE UNCHANGED vars
  BY <1>1, <1>9 DEF vars, EndsLate, Begun, Running, Open, Current, Top
<1>10. QED
  BY <1>2, <1>3, <1>4, <1>5, <1>6, <1>7, <1>8, <1>9 DEF Next, Done

-----------------------------------------------------------------------------
(* The theorems. *)

\* Whatever the endpoint refuses, and however deep the calls nest, the stream
\* epochs of a split-and-align task cover its original epoch in order, without
\* a gap or an overlap.
THEOREM SplitsTile == Spec => []EpochsTile
<1>1. IInv => EpochsTile
  BY DEF IInv
<1>2. QED
  BY InitInv, NextInv, <1>1, PTL DEF Spec

\* Every variable keeps its type: the calls of _run stay within the room of the
\* Python stack, and the file holds nothing but objects and marks.
THEOREM TypeCorrect == Spec => []TypeOK
<1>1. TypeInv => TypeOK
  BY DEF TypeInv
<1>2. QED
  BY InitType, NextType, <1>1, PTL DEF Spec

\* However the splits cut the objects of a catalog, comparing an object to the
\* last one written is enough: none is in the file twice, all are in order.
THEOREM ObjectsAligned == Spec => []Aligned
<1>1. FileInv => Aligned
  BY DEF FileInv
<1>2. QED
  BY InitFile, NextFile, <1>1, PTL DEF Spec

\* A task that returns 200 has written all the endpoint has, at any depth of
\* nesting, and the outermost call of _run never ends without a result.
THEOREM ResultsAreWhole == Spec => []NothingMissing
<1>1. FileInv => NothingMissing
  BY DEF FileInv
<1>2. QED
  BY InitFile, NextFile, <1>1, PTL DEF Spec

\* Where endpoints answer 204 rather than with an empty list, the file is a list
\* of objects with single commas up to the brackets that end it.
THEOREM ListsAreWellFormed == ASSUME NoEmptyList PROVE Spec => []BodyWellFormed
<1>1. BodyInv /\ [Next]_vars => BodyInv'
  BY NextBody
<1>2. BodyInv => BodyWellFormed
  BY DEF BodyInv, BodyWellFormed, Shaped, IsObj
<1>3. QED
  BY InitBody, <1>1, <1>2, PTL DEF Spec

=============================================================================
