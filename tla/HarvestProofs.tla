----------------------------- MODULE HarvestProofs -----------------------------
(***************************************************************************)
(* Theorems about the harvester: for any nodes, inventories, routing       *)
(* configurations, truncations and number of runs, whatever fails and      *)
(* whenever the process is killed, nodes are harvested as a whole, epochs  *)
(* that overlap begin together, routings lead to the epoch they were       *)
(* harvested for, and what a node has told last is stored.                 *)
(*                                                                         *)
(* One document is merged by folds over its channel epochs, the services   *)
(* of its route and the objects it has yielded.  The folds are unrolled    *)
(* once; what they keep is proved by induction on the part done so far.    *)
(***************************************************************************)
EXTENDS Harvest, SequenceTheorems, WellFoundedInduction, TLAPS

-----------------------------------------------------------------------------
(* Induction and folds. *)

\* A set of natural numbers has a least element.
LEMMA Least ==
    ASSUME NEW T \in SUBSET Nat, T # {}
    PROVE  \E x \in T : \A y \in T : x <= y
<1> DEFINE R == OpToRel(<, Nat)
<1>1. IsWellFoundedOn(R, Nat)
  BY NatLessThanWellFounded
<1>2. PICK x \in T : \A y \in T : ~(<<y, x>> \in R)
  <2> HIDE DEF R
  <2> QED BY <1>1, WFMin
<1>3. \A y \in T : ~(y < x)
  BY <1>2 DEF OpToRel
<1> QED BY <1>3

\* Induction, for the numbers up to n, of what holds for those in P.
LEMMA Induction ==
    ASSUME NEW n \in Nat, NEW P, 0 \in P,
           \A k \in 1 .. n : k - 1 \in P => k \in P
    PROVE  \A k \in 0 .. n : k \in P
<1> DEFINE T == (0 .. n) \ P
<1>1. SUFFICES ASSUME T # {} PROVE FALSE
  OBVIOUS
<1>2. PICK x \in T : \A y \in T : x <= y
  <2> T \in SUBSET Nat
    OBVIOUS
  <2> HIDE DEF T
  <2> QED BY <1>1, Least
<1>3. x \in 1 .. n /\ x - 1 \notin T
  BY <1>2
<1> QED BY <1>2, <1>3

\* Bounded sets of numbers have a maximum.
LEMMA MaxOfBounded ==
    ASSUME NEW S \in SUBSET Nat, S # {},
           NEW n \in Nat, \A s \in S : s <= n
    PROVE  Max(S) \in S /\ \A y \in S : y <= Max(S)
<1> DEFINE U == {k \in Nat : \A s \in S : s <= k}
<1>1. U # {}
  OBVIOUS
<1>2. PICK m \in U : \A k \in U : m <= k
  <2> U \in SUBSET Nat
    OBVIOUS
  <2> HIDE DEF U
  <2> QED BY <1>1, Least
<1>3. m \in S
  <2>1. SUFFICES ASSUME m \notin S PROVE FALSE
    OBVIOUS
  <2>2. m # 0
    <3>1. PICK s \in S : TRUE
      OBVIOUS
    <3>2. s \in Nat /\ s <= m /\ s # m
      BY <2>1, <1>2
    <3> QED BY <3>2
  <2>3. m - 1 \in U
    BY <2>1, <2>2, <1>2
  <2> QED BY <2>2, <2>3, <1>2
<1>4. \A y \in S : m >= y
  BY <1>2
<1>5. \E x \in S : \A y \in S : x >= y
  BY <1>3, <1>4
<1>6. Max(S) \in S /\ \A y \in S : Max(S) >= y
  BY <1>5 DEF Max
<1> QED BY <1>6

LEMMA MaxOfPrefix ==
    ASSUME NEW n \in Nat, NEW s \in SUBSET (1 .. n), s # {}
    PROVE  Max(s) \in s /\ \A y \in s : y <= Max(s)
<1>1. s \in SUBSET Nat /\ \A i \in s : i <= n
  OBVIOUS
<1> QED BY <1>1, MaxOfBounded

\* What FoldLeft takes off a prefix is its last index.
LEMMA LastOfPrefix ==
    ASSUME NEW k \in Nat \ {0}
    PROVE  /\ 1 .. k # {} /\ Max(1 .. k) = k
           /\ (1 .. k) \ {Max(1 .. k)} = 1 .. (k - 1)
<1> DEFINE s == 1 .. k
<1>0. k \in Nat /\ s \in SUBSET (1 .. k) /\ s # {} /\ k \in s
  OBVIOUS
<1>1. Max(s) \in s /\ \A y \in s : y <= Max(s)
  <2> HIDE DEF s
  <2> QED BY <1>0, MaxOfPrefix
<1>2. Max(s) = k
  BY <1>0, <1>1
<1>3. (1 .. k) \ {k} = 1 .. (k - 1)
  OBVIOUS
<1> QED BY <1>0, <1>2, <1>3

LEMMA WithoutLast ==
    ASSUME NEW k \in Nat \ {0}, NEW s \in SUBSET (1 .. k)
    PROVE  s \ {k} \in SUBSET (1 .. (k - 1))
<1>1. ASSUME NEW i \in s \ {k} PROVE i \in 1 .. (k - 1)
  <2>1. i \in 1 .. k /\ i # k
    OBVIOUS
  <2> QED BY <2>1
<1> QED BY <1>1

Folds(g, n, base, F) ==
    g = [s \in SUBSET (1 .. n) |-> IF s = {} THEN base
            ELSE F[<<g[s \ {Max(s)}], Max(s)>>]]

\* The function that SequencesExt's FoldLeft is defined by exists, and stays
\* in a set that is closed under what is folded.
LEMMA FoldExists ==
    ASSUME NEW n \in Nat, NEW T, NEW base \in T, NEW F,
           \A w \in T, i \in 1 .. n : F[<<w, i>>] \in T
    PROVE  \E g : /\ Folds(g, n, base, F)
                  /\ \A s \in SUBSET (1 .. n) : g[s] \in T
<1> DEFINE Fold(g, k) == /\ Folds(g, k, base, F)
                         /\ \A s \in SUBSET (1 .. k) : g[s] \in T
           P == {k \in 0 .. n : \E g : Fold(g, k)}
<1>1. 0 \in P
  <2>1. Fold([s \in SUBSET (1 .. 0) |-> base], 0)
    <3>1. \A s \in SUBSET (1 .. 0) : s = {}
      OBVIOUS
    <3>2. \A s \in SUBSET (1 .. 0) : [r \in SUBSET (1 .. 0) |-> base][s] = base
      OBVIOUS
    <3> QED BY <3>1, <3>2 DEF Folds
  <2> HIDE DEF Fold
  <2> QED BY <2>1
<1>2. ASSUME NEW k \in 1 .. n, k - 1 \in P
      PROVE  k \in P
  <2>1. PICK g : Fold(g, k - 1)
    BY <1>2
  <2> DEFINE step(v, i) == F[<<v, i>>]
  <2> DEFINE h == [s \in SUBSET (1 .. k) |->
                      IF k \in s THEN step(g[s \ {k}], k) ELSE g[s]]
  <2>2. ASSUME NEW s \in SUBSET (1 .. k)
        PROVE  /\ h[s] = IF s = {} THEN base ELSE F[<<h[s \ {Max(s)}], Max(s)>>]
               /\ h[s] \in T
    <3>1. CASE k \in s
      <4>1. Max(s) = k
        <5>1. k \in Nat /\ s # {}
          BY <3>1
        <5>2. Max(s) \in s /\ \A y \in s : y <= Max(s)
          BY <5>1, MaxOfPrefix
        <5>3. Max(s) \in 1 .. k
          BY <5>2
        <5>4. k <= Max(s)
          BY <5>2, <3>1
        <5> QED BY <5>1, <5>3, <5>4
      <4>2. s \ {k} \in SUBSET (1 .. k) /\ k \notin s \ {k}
        OBVIOUS
      <4>3. h[s \ {k}] = g[s \ {k}]
        BY <4>2
      <4>4. s # {} /\ h[s] = F[<<g[s \ {k}], k>>]
        BY <3>1
      <4>5. g[s \ {k}] \in T
        <5> HIDE DEF h
        <5>1. s \ {k} \in SUBSET (1 .. (k - 1))
          BY WithoutLast
        <5> QED BY <5>1, <2>1
      <4> HIDE DEF h
      <4> QED BY <4>1, <4>3, <4>4, <4>5
    <3>2. CASE k \notin s
      <4>1. s \in SUBSET (1 .. k - 1)
        BY <3>2
      <4>2. h[s] = g[s]
        BY <3>2
      <4>3. g[s] = IF s = {} THEN base ELSE F[<<g[s \ {Max(s)}], Max(s)>>]
        BY <4>1, <2>1 DEF Folds
      <4>4. s \ {Max(s)} \in SUBSET (1 .. k) /\ k \notin s \ {Max(s)}
        BY <3>2
      <4>5. h[s \ {Max(s)}] = g[s \ {Max(s)}]
        BY <4>4
      <4>6. g[s] \in T
        BY <4>1, <2>1
      <4> HIDE DEF h
      <4> QED BY <4>2, <4>3, <4>5, <4>6
    <3> QED BY <3>1, <3>2
  <2>3. h = [s \in SUBSET (1 .. k) |-> h[s]]
    OBVIOUS
  <2>4. Fold(h, k)
    <3> HIDE DEF h
    <3> QED BY <2>2, <2>3 DEF Folds
  <2> HIDE DEF h, Fold
  <2> QED BY <2>4
<1>3. n \in P
  <2> HIDE DEF P, Fold
  <2> QED BY <1>1, <1>2, Induction
<1> QED BY <1>3

-----------------------------------------------------------------------------
(* The folds of the harvester, unrolled. *)

Opened(t) == [chans |-> t.chans, routs |-> t.routs, objs |-> <<>>,
              endpoints |-> t.endpoints, warned |-> t.warned]

\* The endpoint of a service is there before any channel is routed to it.
Announced(w, svc) ==
    [w EXCEPT !.endpoints = @ \cup {[service |-> svc.service,
                                     url |-> svc.url, token |-> svc.token]}]

LEMMA ReadUnrolls ==
    ASSUME NEW now, NEW t, NEW C, NEW seq \in Seq(C),
           NEW T, Opened(t) \in T,
           \A w \in T, c \in C : EmergeChannel(w, c, now) \in T
    PROVE  \E h : /\ h[0] = Opened(t)
                  /\ \A k \in 1 .. Len(seq) :
                        h[k] = EmergeChannel(h[k - 1], seq[k], now)
                  /\ Read(t, seq, now) = h[Len(seq)]
<1> DEFINE n == Len(seq)
           Fold(g) == g = [s \in SUBSET (1 .. n) |-> IF s = {} THEN Opened(t)
                              ELSE EmergeChannel(g[s \ {Max(s)}], seq[Max(s)], now)]
           G == CHOOSE g : Fold(g)
           F == [p \in T \X (1 .. n) |-> EmergeChannel(p[1], seq[p[2]], now)]
<1>1. n \in Nat /\ DOMAIN seq = 1 .. n /\ \A i \in 1 .. n : seq[i] \in C
  OBVIOUS
<1>2. Read(t, seq, now) = G[1 .. n]
  BY <1>1 DEF Read, FoldLeft, MapThenFoldSet, Opened
<1>3. \A w \in T, i \in 1 .. n : /\ F[<<w, i>>] = EmergeChannel(w, seq[i], now)
                                  /\ F[<<w, i>>] \in T
  BY <1>1
<1>4. \E g : Fold(g)
  <2>1. PICK g : /\ Folds(g, n, Opened(t), F)
                 /\ \A s \in SUBSET (1 .. n) : g[s] \in T
    <3> HIDE DEF F, n
    <3> QED BY <1>1, <1>3, FoldExists
  <2>2. ASSUME NEW s \in SUBSET (1 .. n), s # {}
        PROVE  F[<<g[s \ {Max(s)}], Max(s)>>] =
                   EmergeChannel(g[s \ {Max(s)}], seq[Max(s)], now)
    <3>1. Max(s) \in 1 .. n
      BY <1>1, <2>2, MaxOfPrefix
    <3>2. g[s \ {Max(s)}] \in T
      BY <2>1
    <3> HIDE DEF F
    <3> QED BY <3>1, <3>2, <1>3
  <2>3. Fold(g)
    <3> HIDE DEF F
    <3> QED BY <2>1, <2>2 DEF Folds
  <2> QED BY <2>3
<1>5. Fold(G)
  <2> HIDE DEF Fold
  <2> QED BY <1>4
<1> DEFINE h == [k \in 0 .. n |-> G[1 .. k]]
<1>6. h[0] = Opened(t)
  <2>1. 1 .. 0 = {}
    OBVIOUS
  <2> HIDE DEF G
  <2> QED BY <1>1, <1>5, <2>1
<1>7. ASSUME NEW k \in 1 .. n
      PROVE  h[k] = EmergeChannel(h[k - 1], seq[k], now)
  <2>1. 1 .. k # {} /\ Max(1 .. k) = k /\ (1 .. k) \ {k} = 1 .. (k - 1)
    BY <1>1, LastOfPrefix
  <2>2. G[1 .. k] = EmergeChannel(G[1 .. (k - 1)], seq[k], now)
    <3> DEFINE p == 1 .. k
    <3>1. p \in SUBSET (1 .. n)
      BY <1>1
    <3>2. G[p] = IF p = {} THEN Opened(t)
                 ELSE EmergeChannel(G[p \ {Max(p)}], seq[Max(p)], now)
      <4> HIDE DEF G, p
      <4> QED BY <1>5, <3>1
    <3> HIDE DEF G
    <3> QED BY <3>2, <2>1
  <2> HIDE DEF G
  <2> QED BY <1>1, <2>2
<1>8. Read(t, seq, now) = h[n]
  <2> HIDE DEF G
  <2> QED BY <1>1, <1>2
<1> HIDE DEF h
<1> QED BY <1>6, <1>7, <1>8

LEMMA RouteAllUnrolls ==
    ASSUME NEW now, NEW svc, NEW t, NEW n \in Nat, DOMAIN t.objs = 1 .. n,
           NEW T, Announced(t, svc) \in T,
           \A w \in T, i \in 1 .. n : RouteOne(w, i, svc, now) \in T
    PROVE  \E h : /\ h[0] = Announced(t, svc)
                  /\ \A k \in 1 .. n : h[k] = RouteOne(h[k - 1], k, svc, now)
                  /\ RouteAll(t, svc, now) = h[n]
<1> DEFINE seq == [i \in 1 .. n |-> i]
           Fold(g) == g = [s \in SUBSET (1 .. n) |-> IF s = {} THEN Announced(t, svc)
                              ELSE RouteOne(g[s \ {Max(s)}], seq[Max(s)], svc, now)]
           G == CHOOSE g : Fold(g)
           F == [p \in T \X (1 .. n) |-> RouteOne(p[1], p[2], svc, now)]
<1>1. DOMAIN seq = 1 .. n /\ \A i \in 1 .. n : seq[i] = i
  OBVIOUS
<1>2. RouteAll(t, svc, now) = G[1 .. n]
  BY <1>1 DEF RouteAll, FoldLeft, MapThenFoldSet, Announced
<1>3. \A w \in T, i \in 1 .. n : /\ F[<<w, i>>] = RouteOne(w, i, svc, now)
                                  /\ F[<<w, i>>] \in T
  BY <1>1
<1>4. \E g : Fold(g)
  <2>1. PICK g : /\ Folds(g, n, Announced(t, svc), F)
                 /\ \A s \in SUBSET (1 .. n) : g[s] \in T
    <3> HIDE DEF F
    <3> QED BY <1>1, <1>3, FoldExists
  <2>2. ASSUME NEW s \in SUBSET (1 .. n), s # {}
        PROVE  F[<<g[s \ {Max(s)}], Max(s)>>] =
                   RouteOne(g[s \ {Max(s)}], seq[Max(s)], svc, now)
    <3>1. Max(s) \in 1 .. n
      BY <1>1, <2>2, MaxOfPrefix
    <3>2. g[s \ {Max(s)}] \in T
      BY <2>1
    <3> HIDE DEF F
    <3> QED BY <3>1, <3>2, <1>3
  <2>3. Fold(g)
    <3> HIDE DEF F
    <3> QED BY <2>1, <2>2 DEF Folds
  <2> QED BY <2>3
<1>5. Fold(G)
  <2> HIDE DEF Fold
  <2> QED BY <1>4
<1> DEFINE h == [k \in 0 .. n |-> G[1 .. k]]
<1>6. h[0] = Announced(t, svc)
  <2>1. 1 .. 0 = {}
    OBVIOUS
  <2> HIDE DEF G
  <2> QED BY <1>1, <1>5, <2>1
<1>7. ASSUME NEW k \in 1 .. n
      PROVE  h[k] = RouteOne(h[k - 1], k, svc, now)
  <2>1. 1 .. k # {} /\ Max(1 .. k) = k /\ (1 .. k) \ {k} = 1 .. (k - 1)
    BY <1>1, LastOfPrefix
  <2>2. G[1 .. k] = RouteOne(G[1 .. (k - 1)], k, svc, now)
    <3> DEFINE p == 1 .. k
    <3>1. p \in SUBSET (1 .. n)
      BY <1>1
    <3>2. G[p] = IF p = {} THEN Announced(t, svc)
                 ELSE RouteOne(G[p \ {Max(p)}], seq[Max(p)], svc, now)
      <4> HIDE DEF G, p
      <4> QED BY <1>5, <3>1
    <3> HIDE DEF G
    <3> QED BY <3>2, <2>1
  <2> HIDE DEF G
  <2> QED BY <1>1, <2>2
<1>8. RouteAll(t, svc, now) = h[n]
  <2> HIDE DEF G
  <2> QED BY <1>1, <1>2
<1> HIDE DEF h
<1> QED BY <1>6, <1>7, <1>8

LEMMA RoutedUnrolls ==
    ASSUME NEW now, NEW C, NEW seq \in Seq(C),
           NEW T, NEW t \in T,
           \A w \in T, c \in C : RouteAll(w, c, now) \in T
    PROVE  \E h : /\ h[0] = t
                  /\ \A k \in 1 .. Len(seq) :
                        h[k] = RouteAll(h[k - 1], seq[k], now)
                  /\ Routed(t, seq, now) = h[Len(seq)]
<1> DEFINE n == Len(seq)
           Fold(g) == g = [s \in SUBSET (1 .. n) |-> IF s = {} THEN t
                              ELSE RouteAll(g[s \ {Max(s)}], seq[Max(s)], now)]
           G == CHOOSE g : Fold(g)
           F == [p \in T \X (1 .. n) |-> RouteAll(p[1], seq[p[2]], now)]
<1>1. n \in Nat /\ DOMAIN seq = 1 .. n /\ \A i \in 1 .. n : seq[i] \in C
  OBVIOUS
<1>2. Routed(t, seq, now) = G[1 .. n]
  BY <1>1 DEF Routed, FoldLeft, MapThenFoldSet
<1>3. \A w \in T, i \in 1 .. n : /\ F[<<w, i>>] = RouteAll(w, seq[i], now)
                                  /\ F[<<w, i>>] \in T
  BY <1>1
<1>4. \E g : Fold(g)
  <2>1. PICK g : /\ Folds(g, n, t, F)
                 /\ \A s \in SUBSET (1 .. n) : g[s] \in T
    <3> HIDE DEF F, n
    <3> QED BY <1>1, <1>3, FoldExists
  <2>2. ASSUME NEW s \in SUBSET (1 .. n), s # {}
        PROVE  F[<<g[s \ {Max(s)}], Max(s)>>] =
                   RouteAll(g[s \ {Max(s)}], seq[Max(s)], now)
    <3>1. Max(s) \in 1 .. n
      BY <1>1, <2>2, MaxOfPrefix
    <3>2. g[s \ {Max(s)}] \in T
      BY <2>1
    <3> HIDE DEF F
    <3> QED BY <3>1, <3>2, <1>3
  <2>3. Fold(g)
    <3> HIDE DEF F
    <3> QED BY <2>1, <2>2 DEF Folds
  <2> QED BY <2>3
<1>5. Fold(G)
  <2> HIDE DEF Fold
  <2> QED BY <1>4
<1> DEFINE h == [k \in 0 .. n |-> G[1 .. k]]
<1>6. h[0] = t
  <2>1. 1 .. 0 = {}
    OBVIOUS
  <2> HIDE DEF G
  <2> QED BY <1>1, <1>5, <2>1
<1>7. ASSUME NEW k \in 1 .. n
      PROVE  h[k] = RouteAll(h[k - 1], seq[k], now)
  <2>1. 1 .. k # {} /\ Max(1 .. k) = k /\ (1 .. k) \ {k} = 1 .. (k - 1)
    BY <1>1, LastOfPrefix
  <2>2. G[1 .. k] = RouteAll(G[1 .. (k - 1)], seq[k], now)
    <3> DEFINE p == 1 .. k
    <3>1. p \in SUBSET (1 .. n)
      BY <1>1
    <3>2. G[p] = IF p = {} THEN t
                 ELSE RouteAll(G[p \ {Max(p)}], seq[Max(p)], now)
      <4> HIDE DEF G, p
      <4> QED BY <1>5, <3>1
    <3> HIDE DEF G
    <3> QED BY <3>2, <2>1
  <2> HIDE DEF G
  <2> QED BY <1>1, <2>2
<1>8. Routed(t, seq, now) = h[n]
  <2> HIDE DEF G
  <2> QED BY <1>1, <1>2
<1> HIDE DEF h
<1> QED BY <1>6, <1>7, <1>8

LEMMA VNetsUnroll ==
    ASSUME NEW now, NEW C, NEW seq \in Seq(C),
           NEW T, NEW t \in T,
           \A w \in T, c \in C : EmergeVNet(w, c, now) \in T
    PROVE  \E h : /\ h[0] = t
                  /\ \A k \in 1 .. Len(seq) :
                        h[k] = EmergeVNet(h[k - 1], seq[k], now)
                  /\ VNetHarvested(t, seq, now) = h[Len(seq)]
<1> DEFINE n == Len(seq)
           Fold(g) == g = [s \in SUBSET (1 .. n) |-> IF s = {} THEN t
                              ELSE EmergeVNet(g[s \ {Max(s)}], seq[Max(s)], now)]
           G == CHOOSE g : Fold(g)
           F == [p \in T \X (1 .. n) |-> EmergeVNet(p[1], seq[p[2]], now)]
<1>1. n \in Nat /\ DOMAIN seq = 1 .. n /\ \A i \in 1 .. n : seq[i] \in C
  OBVIOUS
<1>2. VNetHarvested(t, seq, now) = G[1 .. n]
  BY <1>1 DEF VNetHarvested, FoldLeft, MapThenFoldSet
<1>3. \A w \in T, i \in 1 .. n : /\ F[<<w, i>>] = EmergeVNet(w, seq[i], now)
                                  /\ F[<<w, i>>] \in T
  BY <1>1
<1>4. \E g : Fold(g)
  <2>1. PICK g : /\ Folds(g, n, t, F)
                 /\ \A s \in SUBSET (1 .. n) : g[s] \in T
    <3> HIDE DEF F, n
    <3> QED BY <1>1, <1>3, FoldExists
  <2>2. ASSUME NEW s \in SUBSET (1 .. n), s # {}
        PROVE  F[<<g[s \ {Max(s)}], Max(s)>>] =
                   EmergeVNet(g[s \ {Max(s)}], seq[Max(s)], now)
    <3>1. Max(s) \in 1 .. n
      BY <1>1, <2>2, MaxOfPrefix
    <3>2. g[s \ {Max(s)}] \in T
      BY <2>1
    <3> HIDE DEF F
    <3> QED BY <3>1, <3>2, <1>3
  <2>3. Fold(g)
    <3> HIDE DEF F
    <3> QED BY <2>1, <2>2 DEF Folds
  <2> QED BY <2>3
<1>5. Fold(G)
  <2> HIDE DEF Fold
  <2> QED BY <1>4
<1> DEFINE h == [k \in 0 .. n |-> G[1 .. k]]
<1>6. h[0] = t
  <2>1. 1 .. 0 = {}
    OBVIOUS
  <2> HIDE DEF G
  <2> QED BY <1>1, <1>5, <2>1
<1>7. ASSUME NEW k \in 1 .. n
      PROVE  h[k] = EmergeVNet(h[k - 1], seq[k], now)
  <2>1. 1 .. k # {} /\ Max(1 .. k) = k /\ (1 .. k) \ {k} = 1 .. (k - 1)
    BY <1>1, LastOfPrefix
  <2>2. G[1 .. k] = EmergeVNet(G[1 .. (k - 1)], seq[k], now)
    <3> DEFINE p == 1 .. k
    <3>1. p \in SUBSET (1 .. n)
      BY <1>1
    <3>2. G[p] = IF p = {} THEN t
                 ELSE EmergeVNet(G[p \ {Max(p)}], seq[Max(p)], now)
      <4> HIDE DEF G, p
      <4> QED BY <1>5, <3>1
    <3> HIDE DEF G
    <3> QED BY <3>2, <2>1
  <2> HIDE DEF G
  <2> QED BY <1>1, <2>2
<1>8. VNetHarvested(t, seq, now) = h[n]
  <2> HIDE DEF G
  <2> QED BY <1>1, <1>2
<1> HIDE DEF h
<1> QED BY <1>6, <1>7, <1>8

-----------------------------------------------------------------------------
(* Documents. *)

LEMMA FlattenType ==
    ASSUME NEW S, NEW seqs \in Seq(Seq(S))
    PROVE  FlattenSeq(seqs) \in Seq(S)
<1> DEFINE n == Len(seqs)
           Flat(f, k) == f = [i \in 1 .. k |-> IF i = 1 THEN seqs[i]
                                               ELSE f[i - 1] \o seqs[i]]
           P == {k \in 0 .. n : \E f : Flat(f, k)}
<1>0. n \in Nat
  OBVIOUS
<1>1. \A i \in 1 .. n : seqs[i] \in Seq(S)
  OBVIOUS
<1>2. CASE n = 0
  BY <1>2 DEF FlattenSeq
<1>3. CASE n # 0
  <2>1. 0 \in P
    <3>1. Flat([i \in 1 .. 0 |-> 0], 0)
      OBVIOUS
    <3> HIDE DEF Flat
    <3> QED BY <1>0, <3>1
  <2>2. ASSUME NEW k \in 1 .. n, k - 1 \in P
        PROVE  k \in P
    <3>1. PICK f : Flat(f, k - 1)
      BY <2>2
    <3> DEFINE g == [i \in 1 .. k |-> IF i = 1 THEN seqs[i] ELSE
                        IF i = k THEN f[k - 1] \o seqs[k] ELSE f[i]]
    <3>2. ASSUME NEW i \in 1 .. k
          PROVE  g[i] = IF i = 1 THEN seqs[i] ELSE g[i - 1] \o seqs[i]
      <4>1. CASE i = 1
        BY <4>1
      <4>2. CASE i # 1
        <5>1. \A j \in 1 .. (k - 1) : g[j] = f[j]
          BY <3>1
        <5>2. i - 1 \in 1 .. (k - 1)
          BY <4>2
        <5>3. CASE i = k
          <6>1. g[i] = f[k - 1] \o seqs[k]
            BY <4>2, <5>3
          <6> HIDE DEF g
          <6> QED BY <4>2, <5>1, <5>2, <5>3, <6>1
        <5>4. CASE i # k
          <6>1. i \in 1 .. (k - 1)
            BY <5>4
          <6>2. f[i] = f[i - 1] \o seqs[i]
            BY <3>1, <4>2, <6>1
          <6> HIDE DEF g
          <6> QED BY <4>2, <5>1, <5>2, <6>1, <6>2
        <5> QED BY <5>3, <5>4
      <4> QED BY <4>1, <4>2
    <3>3. g = [i \in 1 .. k |-> g[i]]
      OBVIOUS
    <3>4. Flat(g, k)
      <4> HIDE DEF g
      <4> QED BY <3>2, <3>3
    <3> HIDE DEF g, Flat
    <3> QED BY <3>4
  <2>3. n \in P
    <3>1. \A k \in 0 .. n : k \in P
      <4> HIDE DEF P, n, Flat
      <4> QED BY <1>0, <2>1, <2>2, Induction
    <3> HIDE DEF P, n
    <3> QED BY <1>0, <3>1
  <2> DEFINE F == CHOOSE f : Flat(f, n)
             Q == {k \in 0 .. n : k = 0 \/ F[k] \in Seq(S)}
  <2>4. FlattenSeq(seqs) = F[n]
    BY <1>3 DEF FlattenSeq
  <2>5. Flat(F, n)
    <3> HIDE DEF Flat
    <3> QED BY <2>3
  <2>6. ASSUME NEW k \in 1 .. n, k - 1 \in Q
        PROVE  k \in Q
    <3>1. F[k] = IF k = 1 THEN seqs[k] ELSE F[k - 1] \o seqs[k]
      <4> HIDE DEF F
      <4> QED BY <2>5
    <3>2. k # 1 => F[k - 1] \in Seq(S)
      <4> HIDE DEF F
      <4> QED BY <2>6
    <3>3. F[k] \in Seq(S)
      <4> HIDE DEF F
      <4> QED BY <1>1, <3>1, <3>2
    <3> HIDE DEF F
    <3> QED BY <3>3
  <2>7. n \in Q
    <3>1. 0 \in Q
      <4> HIDE DEF F
      <4> QED BY <1>0
    <3>2. \A k \in 0 .. n : k \in Q
      <4> HIDE DEF Q, n, Flat, F
      <4> QED BY <1>0, <2>6, <3>1, Induction
    <3> HIDE DEF Q, n
    <3> QED BY <1>0, <3>2
  <2> HIDE DEF F
  <2> QED BY <1>3, <2>4, <2>7
<1> QED BY <1>2, <1>3

\* A status is known once it is inherited.
Known == Statuses \ {"none"}

LEMMA BaseStatusType ==
    ASSUME NEW doc \in Document
    PROVE  \A i \in 0 .. Len(doc.stations) : BaseStatus(doc)[i] \in Known
<1> DEFINE n == Len(doc.stations)
           first == IF doc.rs = "none" THEN "open" ELSE doc.rs
           own(i) == doc.stations[i].rs
           Inherits(f, k) == f = [i \in 0 .. k |->
               IF i = 0 THEN first ELSE IF own(i) = "none" THEN f[i - 1] ELSE own(i)]
           P == {k \in 0 .. n : \E f : Inherits(f, k)}
           F == CHOOSE f : Inherits(f, n)
           Q == {k \in 0 .. n : F[k] \in Known}
<1>1. /\ n \in Nat /\ first \in Known
      /\ \A i \in 1 .. n : own(i) \in Statuses
  <2>1. doc.stations \in Seq(Station) /\ doc.rs \in Statuses
    BY DEF Document
  <2>2. \A i \in 1 .. n : doc.stations[i] \in Station
    BY <2>1
  <2>3. first \in Known
    BY <2>1 DEF Statuses, Known
  <2>4. \A i \in 1 .. n : own(i) \in Statuses
    BY <2>2 DEF Station
  <2> QED BY <2>1, <2>3, <2>4
<1>2. BaseStatus(doc) = F
  BY DEF BaseStatus
<1> HIDE DEF first, own
<1>3. 0 \in P
  <2>1. Inherits([i \in 0 .. 0 |-> first], 0)
    OBVIOUS
  <2> HIDE DEF Inherits
  <2> QED BY <1>1, <2>1
<1>4. ASSUME NEW k \in 1 .. n, k - 1 \in P
      PROVE  k \in P
  <2>1. PICK f : Inherits(f, k - 1)
    BY <1>4
  <2> DEFINE g == [i \in 0 .. k |-> IF i = k
                      THEN IF own(k) = "none" THEN f[k - 1] ELSE own(k)
                      ELSE f[i]]
  <2>2. ASSUME NEW i \in 0 .. k
        PROVE  g[i] = IF i = 0 THEN first
                      ELSE IF own(i) = "none" THEN g[i - 1] ELSE own(i)
    <3>1. \A j \in 0 .. (k - 1) : g[j] = f[j]
      OBVIOUS
    <3>2. CASE i = k
      BY <3>1, <3>2
    <3>3. CASE i # k
      <4>1. i \in 0 .. (k - 1)
        BY <3>3
      <4>2. f[i] = IF i = 0 THEN first
                   ELSE IF own(i) = "none" THEN f[i - 1] ELSE own(i)
        BY <2>1, <4>1
      <4>3. i # 0 => i - 1 \in 0 .. (k - 1)
        BY <4>1
      <4> HIDE DEF g
      <4> QED BY <3>1, <4>1, <4>2, <4>3
    <3> QED BY <3>2, <3>3
  <2>3. g = [i \in 0 .. k |-> g[i]]
    OBVIOUS
  <2>4. Inherits(g, k)
    <3> HIDE DEF g
    <3> QED BY <2>2, <2>3
  <2> HIDE DEF g, Inherits
  <2> QED BY <2>4
<1>5. n \in P
  <2> HIDE DEF P, n
  <2> QED BY <1>1, <1>3, <1>4, Induction
<1>6. Inherits(F, n)
  <2> HIDE DEF Inherits
  <2> QED BY <1>5
<1>7. 0 \in Q /\ \A k \in 1 .. n : k - 1 \in Q => k \in Q
  <2> HIDE DEF F
  <2> QED BY <1>1, <1>6 DEF Known
<1>8. \A k \in 0 .. n : k \in Q
  <2> HIDE DEF Q, n
  <2> QED BY <1>1, <1>7, Induction
<1> HIDE DEF F
<1> QED BY <1>2, <1>8

\* A channel epoch as the document gives it, with what it inherits.
Inventory ==
    {c \in [stream : Streams, start : Starts, end : Ends, raw : Statuses, rs : Known] :
        c.raw = "none" \/ c.rs = c.raw}

LEMMA ChannelsType ==
    ASSUME NEW doc \in Document
    PROVE  Channels(doc) \in Seq(Inventory)
<1> DEFINE of(i) == [j \in DOMAIN doc.stations[i].channels |->
                        LET c == doc.stations[i].channels[j] IN
                        [stream |-> c.stream, start |-> c.start, end |-> c.end,
                         raw |-> c.rs,
                         rs  |-> IF c.rs = "none" THEN BaseStatus(doc)[i] ELSE c.rs]]
           all == [i \in DOMAIN doc.stations |-> of(i)]
<1>1. doc.stations \in Seq(Station)
  BY DEF Document
<1>2. ASSUME NEW i \in DOMAIN doc.stations
      PROVE  of(i) \in Seq(Inventory)
  <2> DEFINE chas == doc.stations[i].channels
  <2>1. BaseStatus(doc)[i] \in Known
    <3>1. i \in 0 .. Len(doc.stations)
      BY <1>1
    <3> QED BY <3>1, BaseStatusType
  <2>2. chas \in Seq(Channel)
    <3>1. doc.stations[i] \in Station
      BY <1>1
    <3> QED BY <3>1 DEF Station
  <2>3. ASSUME NEW j \in DOMAIN chas
        PROVE  of(i)[j] \in Inventory
    <3>1. chas[j] \in Channel
      <4> HIDE DEF chas
      <4> QED BY <2>2
    <3>2. of(i)[j] = [stream |-> chas[j].stream, start |-> chas[j].start,
                      end |-> chas[j].end, raw |-> chas[j].rs,
                      rs  |-> IF chas[j].rs = "none" THEN BaseStatus(doc)[i]
                              ELSE chas[j].rs]
      OBVIOUS
    <3> HIDE DEF chas, of
    <3> QED BY <2>1, <3>1, <3>2 DEF Inventory, Channel, Known
  <2>4. of(i) = [j \in 1 .. Len(chas) |-> of(i)[j]] /\ Len(chas) \in Nat
    <3>1. DOMAIN of(i) = DOMAIN chas /\ of(i) = [j \in DOMAIN of(i) |-> of(i)[j]]
      OBVIOUS
    <3> HIDE DEF chas, of
    <3> QED BY <2>2, <3>1
  <2>5. DOMAIN chas = 1 .. Len(chas)
    <3> HIDE DEF chas
    <3> QED BY <2>2
  <2> HIDE DEF chas, of
  <2> QED BY <2>3, <2>4, <2>5, IsASeq
<1>3. all \in Seq(Seq(Inventory))
  <2> HIDE DEF of
  <2> QED BY <1>1, <1>2
<1>4. FlattenSeq(all) \in Seq(Inventory)
  <2> HIDE DEF all
  <2> QED BY <1>3, FlattenType
<1> QED BY <1>4 DEF Channels

-----------------------------------------------------------------------------
(* Tables. *)

\* The provers do not know of a literal that it is a string.
Tokens   == STRING \cup {"query", "queryauth"}
Endpoint == [service : STRING, url : STRING, token : Tokens]

ChannelEpoch(now) == [id : Nat, stream : Streams, start : Starts, end : Ends,
                      rs : Known, seen : 0 .. now]
Routing(now)      == [ch : Nat, ep : Endpoint, start : Starts, end : Ends,
                      seen : 0 .. now, stream : Streams]
VNetEpoch(now)    == [vnet : STRING, stream : Streams, start : Starts, end : Ends,
                      seen : 0 .. now]
Object            == [id : Nat, stream : Streams, rs : Known, gone : BOOLEAN]
Epoch             == [start : Starts, end : Ends, rs : Known]

\* So that there is a next id.
Bounded(rows) == \E n \in Nat : \A x \in rows : x.id <= n

\* What a document is merged into.
Sheets(now) ==
    {w \in [chans : SUBSET ChannelEpoch(now), routs : SUBSET Routing(now),
            objs : Seq(Object), endpoints : SUBSET Endpoint,
            warned : SUBSET ((1 .. now) \X Streams)] : Bounded(w.chans)}

\* The database.
IsTables(t, now) ==
    /\ t = [chans |-> t.chans, routs |-> t.routs, bases |-> t.bases,
            endpoints |-> t.endpoints, vnets |-> t.vnets, vepochs |-> t.vepochs,
            warned |-> t.warned, latest |-> t.latest]
    /\ t.chans \in SUBSET ChannelEpoch(now) /\ Bounded(t.chans)
    /\ t.routs \in SUBSET Routing(now)
    /\ t.endpoints \in SUBSET Endpoint
    /\ t.vepochs \in SUBSET VNetEpoch(now)
    /\ t.warned \in SUBSET ((1 .. now) \X Streams)
    /\ t.latest \in [Streams -> [run : 0 .. now, epochs : SUBSET Epoch]]

IdsUnique(rows) == \A x, y \in rows : x.id = y.id => x = y

\* Rows that are about the same thing have epochs of their own and overlap only
\* if they begin together.
Apart(x, y) == /\ <<x.start, x.end>> # <<y.start, y.end>>
               /\ Overlap(x, y) => x.start = y.start

ChannelsApart(rows) ==
    \A x, y \in rows : x # y /\ x.stream = y.stream => Apart(x, y)

RoutingsApart(rows) ==
    \A x, y \in rows : x # y /\ x.ch = y.ch /\ x.ep = y.ep => Apart(x, y)

VNetsApart(rows) ==
    \A x, y \in rows : x # y /\ x.vnet = y.vnet /\ x.stream = y.stream => Apart(x, y)

LEMMA NewIdIsNew ==
    ASSUME NEW now, NEW rows \in SUBSET ChannelEpoch(now), Bounded(rows)
    PROVE  NewId(rows) \in Nat /\ \A x \in rows : x.id < NewId(rows)
<1> DEFINE S == {0} \cup {x.id : x \in rows}
<1>1. S \in SUBSET Nat /\ S # {} /\ \A x \in rows : x.id \in S
  BY DEF ChannelEpoch
<1>2. PICK n \in Nat : \A s \in S : s <= n
  BY DEF Bounded
<1>3. Max(S) \in S /\ \A s \in S : s <= Max(S)
  <2> HIDE DEF S
  <2> QED BY <1>1, <1>2, MaxOfBounded
<1>4. NewId(rows) = Max(S) + 1
  BY DEF NewId
<1> HIDE DEF S
<1>5. Max(S) \in Nat /\ \A x \in rows : x.id \in Nat /\ x.id <= Max(S)
  BY <1>1, <1>3
<1> QED BY <1>4, <1>5

\* An overlap in the sense of the code is one of epochs that do not begin
\* together.
LEMMA OverlapsMeansApart ==
    ASSUME NEW x, NEW y, x.start \in Nat, x.end \in Nat, y.start \in Nat, y.end \in Nat,
           ~Overlaps(x, y.start, y.end), <<x.start, x.end>> # <<y.start, y.end>>
    PROVE  Apart(x, y) /\ Apart(y, x)
BY DEF Apart, Overlap, Overlaps

LEMMA GoneObjects ==
    ASSUME NEW objs \in Seq(Object), NEW ids
    PROVE  /\ Gone(objs, ids) \in Seq(Object)
           /\ Len(Gone(objs, ids)) = Len(objs)
           /\ \A j \in 1 .. Len(objs) :
                 /\ Gone(objs, ids)[j].id = objs[j].id
                 /\ Gone(objs, ids)[j].stream = objs[j].stream
                 /\ Gone(objs, ids)[j].gone <=> objs[j].gone \/ objs[j].id \in ids
<1> DEFINE n == Len(objs)
           at(j) == [objs[j] EXCEPT !.gone = @ \/ objs[j].id \in ids]
           all == [j \in 1 .. n |-> at(j)]
<1>1. /\ n \in Nat /\ DOMAIN objs = 1 .. n
      /\ \A j \in 1 .. n : objs[j] \in Object
  OBVIOUS
<1>2. Gone(objs, ids) = all
  BY <1>1 DEF Gone
<1>3. ASSUME NEW j \in 1 .. n
      PROVE  /\ at(j) \in Object /\ at(j).id = objs[j].id
             /\ at(j).stream = objs[j].stream
             /\ at(j).gone <=> objs[j].gone \/ objs[j].id \in ids
  <2>1. objs[j] \in Object
    BY <1>1
  <2>2. /\ objs[j].id \in Nat /\ objs[j].stream \in Streams
        /\ objs[j].rs \in Known /\ objs[j].gone \in BOOLEAN
        /\ objs[j] = [id |-> objs[j].id, stream |-> objs[j].stream,
                      rs |-> objs[j].rs, gone |-> objs[j].gone]
    BY <2>1 DEF Object
  <2> DEFINE gone == objs[j].gone \/ objs[j].id \in ids
  <2>3. at(j) = [id |-> objs[j].id, stream |-> objs[j].stream,
                 rs |-> objs[j].rs, gone |-> gone]
    BY <2>2
  <2>4. gone \in BOOLEAN
    OBVIOUS
  <2>5. at(j) \in Object
    <3> HIDE DEF at, gone
    <3> QED BY <2>2, <2>3, <2>4 DEF Object
  <2>6. /\ at(j).id = objs[j].id /\ at(j).stream = objs[j].stream
        /\ at(j).gone = gone
    <3> HIDE DEF at, gone
    <3> QED BY <2>3
  <2> HIDE DEF at
  <2> QED BY <2>5, <2>6
<1>4. \A j \in 1 .. n : all[j] = at(j)
  OBVIOUS
<1>5. all \in Seq(Object)
  <2> HIDE DEF at, n
  <2> QED BY <1>1, <1>3, IsASeq
<1>6. Len(all) = n
  <2>1. DOMAIN all = 1 .. n
    OBVIOUS
  <2> HIDE DEF all, n
  <2> QED BY <1>1, <1>5, <2>1, LenProperties
<1> HIDE DEF all, at
<1> QED BY <1>2, <1>3, <1>4, <1>5, <1>6

\* What EmergeChannel does, by name: it deletes old epochs with their routings,
\* replaces the same by a new one, and marks the objects of those deleted.
Emerged(w, v, c, now, old, same, new) ==
    /\ old = {x \in w.chans : /\ x.stream = c.stream
                              /\ Overlaps(x, c.start, c.end) \/ x.rs # c.raw}
    /\ same = {x \in w.chans \ old : /\ x.stream = c.stream /\ x.rs = c.raw
                                     /\ x.start = c.start /\ x.end = c.end}
    /\ new \in ChannelEpoch(now)
    /\ new.stream = c.stream /\ new.start = c.start /\ new.end = c.end
    /\ new.rs = c.rs /\ new.seen = now
    /\ same = {} => \A x \in w.chans \ old : x.id < new.id
    /\ same # {} => \E x \in same : x.id = new.id
    /\ v.chans = ((w.chans \ old) \ same) \cup {new}
    /\ v.routs = {r \in w.routs : \A x \in old : r.ch # x.id}
    /\ v.endpoints = w.endpoints /\ v.warned = w.warned
    /\ Len(v.objs) = Len(w.objs) + 1
    /\ \A j \in 1 .. Len(w.objs) :
          /\ v.objs[j].id = w.objs[j].id /\ v.objs[j].stream = w.objs[j].stream
          /\ v.objs[j].gone <=> \/ w.objs[j].gone
                                \/ \E x \in old : x.id = w.objs[j].id
    /\ v.objs[Len(v.objs)].id = new.id
    /\ v.objs[Len(v.objs)].stream = c.stream
    /\ ~v.objs[Len(v.objs)].gone

LEMMA ChannelEmerged ==
    ASSUME NEW now \in Nat \ {0}, NEW w \in Sheets(now), NEW c \in Inventory
    PROVE  /\ EmergeChannel(w, c, now) \in Sheets(now)
           /\ \E old, same, new :
                 Emerged(w, EmergeChannel(w, c, now), c, now, old, same, new)
<1> DEFINE old  == {x \in w.chans : x.stream = c.stream
                      /\ (Overlaps(x, c.start, c.end) \/ x.rs # c.raw)}
           ids  == {x.id : x \in old}
           kept == w.chans \ old
           same == {x \in kept : /\ x.stream = c.stream /\ x.rs = c.raw
                                 /\ x.start = c.start /\ x.end = c.end}
           new  == [id     |-> IF same = {} THEN NewId(kept)
                               ELSE (CHOOSE x \in same : TRUE).id,
                    stream |-> c.stream, start |-> c.start, end |-> c.end,
                    rs     |-> c.rs, seen |-> now]
<1>1. /\ w.chans \in SUBSET ChannelEpoch(now) /\ Bounded(w.chans)
      /\ w = [chans |-> w.chans, routs |-> w.routs, objs |-> w.objs,
              endpoints |-> w.endpoints, warned |-> w.warned]
  BY DEF Sheets
<1>2. EmergeChannel(w, c, now) =
          [chans |-> (kept \ same) \cup {new},
           routs |-> WithoutRoutings(w.routs, ids),
           objs  |-> Append(Gone(w.objs, ids), [id |-> new.id, stream |-> c.stream,
                                                rs |-> c.rs, gone |-> FALSE]),
           endpoints |-> w.endpoints,
           warned |-> w.warned]
  <2>1. EmergeChannel(w, c, now) =
          [w EXCEPT !.chans = (kept \ same) \cup {new},
                  !.routs = WithoutRoutings(@, ids),
                  !.objs = Append(Gone(@, ids), [id |-> new.id,
                              stream |-> c.stream, rs |-> c.rs, gone |-> FALSE])]
    BY DEF EmergeChannel
  <2> HIDE DEF kept, same, new, ids
  <2> QED BY <1>1, <2>1
<1>3. WithoutRoutings(w.routs, ids) = {r \in w.routs : \A x \in old : r.ch # x.id}
  <2> HIDE DEF old
  <2> QED BY DEF WithoutRoutings
<1>4. /\ new.id \in Nat
      /\ same = {} => \A x \in kept : x.id < new.id
      /\ same # {} => \E x \in same : x.id = new.id
  <2>1. CASE same = {}
    <3>1. kept \in SUBSET ChannelEpoch(now) /\ Bounded(kept)
      BY <1>1 DEF Bounded
    <3>2. NewId(kept) \in Nat /\ \A x \in kept : x.id < NewId(kept)
      <4> HIDE DEF kept
      <4> QED BY <3>1, NewIdIsNew
    <3>3. new.id = NewId(kept)
      BY <2>1
    <3> HIDE DEF new, kept
    <3> QED BY <2>1, <3>2, <3>3
  <2>2. CASE same # {}
    <3>1. PICK x \in same : x = CHOOSE y \in same : TRUE
      <4> HIDE DEF same
      <4> QED BY <2>2
    <3>2. new.id = x.id
      BY <2>2, <3>1
    <3>3. x \in ChannelEpoch(now)
      BY <1>1
    <3> HIDE DEF new, same
    <3> QED BY <2>2, <3>2, <3>3 DEF ChannelEpoch
  <2> QED BY <2>1, <2>2
<1>5. new \in ChannelEpoch(now)
  <2>1. new.id \in Nat
    BY <1>4
  <2> DEFINE id == IF same = {} THEN NewId(kept) ELSE (CHOOSE x \in same : TRUE).id
  <2>2. new.id = id
    OBVIOUS
  <2>3. new = [id |-> id, stream |-> c.stream, start |-> c.start, end |-> c.end,
               rs |-> c.rs, seen |-> now]
    OBVIOUS
  <2> HIDE DEF new, id
  <2> QED BY <2>1, <2>2, <2>3 DEF ChannelEpoch, Inventory
<1>6. /\ new.stream = c.stream /\ new.start = c.start /\ new.end = c.end
      /\ new.rs = c.rs /\ new.seen = now
  OBVIOUS
<1>7. EmergeChannel(w, c, now) =
          [chans |-> (kept \ same) \cup {new},
           routs |-> {r \in w.routs : \A x \in old : r.ch # x.id},
           objs  |-> Append(Gone(w.objs, ids), [id |-> new.id, stream |-> c.stream,
                                                rs |-> c.rs, gone |-> FALSE]),
           endpoints |-> w.endpoints,
           warned |-> w.warned]
  <2> HIDE DEF new, same, kept
  <2> QED BY <1>2, <1>3
<1> DEFINE v == EmergeChannel(w, c, now)
           last == [id |-> new.id, stream |-> c.stream, rs |-> c.rs, gone |-> FALSE]
<1>8. /\ v.chans = (kept \ same) \cup {new}
      /\ v.routs = {r \in w.routs : \A x \in old : r.ch # x.id}
      /\ v.objs = Append(Gone(w.objs, ids), last)
      /\ v.endpoints = w.endpoints /\ v.warned = w.warned
      /\ v = [chans |-> v.chans, routs |-> v.routs, objs |-> v.objs,
              endpoints |-> v.endpoints, warned |-> v.warned]
  <2> HIDE DEF new, same, kept, old, ids
  <2> QED BY <1>7
<1>9. /\ v.objs \in Seq(Object)
      /\ Len(v.objs) = Len(w.objs) + 1
      /\ \A j \in 1 .. Len(w.objs) :
            /\ v.objs[j].id = w.objs[j].id /\ v.objs[j].stream = w.objs[j].stream
            /\ v.objs[j].gone <=> w.objs[j].gone \/ w.objs[j].id \in ids
      /\ v.objs[Len(v.objs)] = last
  <2> DEFINE objs == Gone(w.objs, ids)
  <2>1. w.objs \in Seq(Object)
    BY DEF Sheets
  <2>2. last \in Object
    <3>1. new.id \in Nat
      BY <1>4
    <3> HIDE DEF new
    <3> QED BY <3>1 DEF Object, Inventory
  <2>3. /\ objs \in Seq(Object) /\ Len(objs) = Len(w.objs)
        /\ \A j \in 1 .. Len(w.objs) :
              /\ objs[j].id = w.objs[j].id /\ objs[j].stream = w.objs[j].stream
              /\ objs[j].gone <=> w.objs[j].gone \/ w.objs[j].id \in ids
    <3> HIDE DEF ids
    <3> QED BY <2>1, GoneObjects
  <2>4. /\ Append(objs, last) \in Seq(Object)
        /\ Len(Append(objs, last)) = Len(objs) + 1
        /\ \A j \in 1 .. Len(objs) : Append(objs, last)[j] = objs[j]
        /\ Append(objs, last)[Len(objs) + 1] = last
    <3> HIDE DEF objs, last
    <3> QED BY <2>2, <2>3, AppendProperties
  <2> HIDE DEF objs, last, ids, v
  <2> QED BY <1>8, <2>3, <2>4 DEF objs
<1>10. \A j \in 1 .. Len(w.objs) :
          w.objs[j].id \in ids <=> \E x \in old : x.id = w.objs[j].id
  <2> HIDE DEF old
  <2> QED OBVIOUS
<1>11. v \in Sheets(now)
  <2>1. PICK n \in Nat : \A x \in w.chans : x.id <= n
    BY <1>1 DEF Bounded
  <2>2. Bounded(v.chans)
    <3>1. \E k \in Nat : n <= k /\ new.id <= k
      <4>1. n + new.id \in Nat /\ n <= n + new.id /\ new.id <= n + new.id
        <5> HIDE DEF new
        <5> QED BY <1>4
      <4> HIDE DEF new
      <4> QED BY <4>1
    <3>2. PICK k \in Nat : n <= k /\ new.id <= k
      BY <3>1
    <3>3. \A x \in w.chans : x.id \in Nat
      BY <1>1 DEF ChannelEpoch
    <3>4. \A x \in v.chans : x \in w.chans \/ x = new
      <4> HIDE DEF v, new, same
      <4> QED BY <1>8
    <3>5. \A x \in v.chans : x.id <= k
      <4> HIDE DEF v, new
      <4> QED BY <2>1, <3>2, <3>3, <3>4
    <3> HIDE DEF v
    <3> QED BY <3>5 DEF Bounded
  <2>3. v.chans \in SUBSET ChannelEpoch(now)
    <3> HIDE DEF v, new, same
    <3> QED BY <1>1, <1>5, <1>8
  <2>4. v.routs \in SUBSET Routing(now)
    <3>1. w.routs \in SUBSET Routing(now)
      BY DEF Sheets
    <3> HIDE DEF v, old
    <3> QED BY <1>8, <3>1
  <2>5. /\ v.endpoints \in SUBSET Endpoint
        /\ v.warned \in SUBSET ((1 .. now) \X Streams)
    <3>1. /\ w.endpoints \in SUBSET Endpoint
          /\ w.warned \in SUBSET ((1 .. now) \X Streams)
      BY DEF Sheets
    <3> HIDE DEF v
    <3> QED BY <1>8, <3>1
  <2> HIDE DEF v
  <2> QED BY <1>8, <1>9, <2>2, <2>3, <2>4, <2>5 DEF Sheets
<1>12. Emerged(w, v, c, now, old, same, new)
  <2>1. old = {x \in w.chans : /\ x.stream = c.stream
                               /\ Overlaps(x, c.start, c.end) \/ x.rs # c.raw}
    OBVIOUS
  <2>2. same = {x \in w.chans \ old : /\ x.stream = c.stream /\ x.rs = c.raw
                                      /\ x.start = c.start /\ x.end = c.end}
    OBVIOUS
  <2>3. last.id = new.id /\ last.stream = c.stream /\ ~last.gone
    <3> HIDE DEF new
    <3> QED OBVIOUS
  <2>4. kept = w.chans \ old
    OBVIOUS
  <2> HIDE DEF old, same, new, kept, ids, v, last
  <2>5. same = {} => \A x \in w.chans \ old : x.id < new.id
    BY <1>4, <2>4
  <2>6. v.chans = ((w.chans \ old) \ same) \cup {new}
    BY <1>8, <2>4
  <2> QED BY <1>4, <1>5, <1>6, <1>8, <1>9, <1>10, <2>1, <2>2, <2>3, <2>5, <2>6
          DEF Emerged
<1> HIDE DEF old, same, new, v
<1>13. \E o, s, n : Emerged(w, v, c, now, o, s, n)
  BY <1>12
<1> QED BY <1>11, <1>13 DEF v

-----------------------------------------------------------------------------
(* One document. *)

Tidy(w) == IdsUnique(w.chans) /\ ChannelsApart(w.chans) /\ RoutingsApart(w.routs)

\* An object that is not gone has its row.
Backed(w, now) ==
    \A j \in 1 .. Len(w.objs) :
       ~w.objs[j].gone =>
          \E x \in w.chans : /\ x.id = w.objs[j].id
                             /\ x.stream = w.objs[j].stream
                             /\ x.seen = now

\* If a row has the id of an object, then an object that is not gone, this or a
\* later one, is of the row: the row an object that is gone deletes by its id
\* is one of the document.
Owned(w) ==
    \A j \in 1 .. Len(w.objs), x \in w.chans :
       x.id = w.objs[j].id =>
          \E m \in j .. Len(w.objs) : /\ ~w.objs[m].gone
                                      /\ w.objs[m].id = x.id
                                      /\ w.objs[m].stream = x.stream

Consistent(w, now) ==
    /\ w \in Sheets(now)
    /\ Tidy(w) /\ Backed(w, now) /\ Owned(w)

\* There is an object for every channel epoch of the document merged so far.
ObjectsOf(w, seq, k) ==
    /\ Len(w.objs) = k
    /\ \A j \in 1 .. k : w.objs[j].stream = seq[j].stream

\* The stream will be warned of once all objects after the i-th are routed.
Pending(w, s, i) ==
    \E m \in 1 .. Len(w.objs) : m > i /\ w.objs[m].gone /\ w.objs[m].stream = s

Leads(r, w) ==
    \E x \in w.chans : x.id = r.ch /\ x.stream = r.stream /\ r.seen <= x.seen

\* Routings lead where they should, or have been warned of, or will be.
LedOr(w, i, now) ==
    \A r \in w.routs : \/ Leads(r, w)
                       \/ \E n \in 1 .. now : <<n, r.stream>> \in w.warned
                       \/ Pending(w, r.stream, i)

\* The first k channel epochs of the document have a row of this run, or there
\* has been a warning, or there will be.
InRows(w, c, now) ==
    \E x \in w.chans, m \in 1 .. Len(w.objs) :
       /\ x.id = w.objs[m].id /\ x.stream = w.objs[m].stream
       /\ x.stream = c.stream /\ x.start = c.start /\ x.end = c.end
       /\ x.rs = c.rs /\ x.seen = now

Merged(w, seq, k, i, now) ==
    \A j \in 1 .. k : \/ InRows(w, seq[j], now)
                      \/ <<now, seq[j].stream>> \in w.warned
                      \/ Pending(w, seq[j].stream, i)

\* Rows of streams the document says nothing about are left alone, and others
\* are of streams it tells about.
OthersKept(w, t, seq, k) ==
    /\ \A x \in t.chans : x \in w.chans \/ \E j \in 1 .. k : x.stream = seq[j].stream
    /\ \A x \in w.chans : x \in t.chans \/ \E j \in 1 .. k : x.stream = seq[j].stream
    /\ t.warned \subseteq w.warned

LEMMA ConsistentTypes ==
    ASSUME NEW now \in Nat \ {0}, NEW w \in Sheets(now)
    PROVE  /\ \A x \in w.chans : /\ x.id \in Nat /\ x.seen \in 0 .. now
                                 /\ x.start \in Nat /\ x.end \in Nat
                                 /\ x.stream \in Streams
           /\ \A r \in w.routs : /\ r.start \in Nat /\ r.end \in Nat
                                 /\ r.seen \in 0 .. now /\ r.stream \in Streams
           /\ Len(w.objs) \in Nat
           /\ \A j \in 1 .. Len(w.objs) : w.objs[j] \in Object
<1>1. /\ w.chans \in SUBSET ChannelEpoch(now) /\ w.routs \in SUBSET Routing(now)
      /\ w.objs \in Seq(Object)
  BY DEF Sheets
<1>2. /\ \A n \in Starts : n \in Nat
      /\ \A n \in Ends : n \in Nat
  BY ConstantsAssumption DEF Starts, Ends
<1>3. \A x \in w.chans : /\ x.id \in Nat /\ x.seen \in 0 .. now
                         /\ x.start \in Nat /\ x.end \in Nat
                         /\ x.stream \in Streams
  BY <1>1, <1>2 DEF ChannelEpoch
<1>4. \A r \in w.routs : /\ r.start \in Nat /\ r.end \in Nat
                         /\ r.seen \in 0 .. now /\ r.stream \in Streams
  BY <1>1, <1>2 DEF Routing
<1>5. Len(w.objs) \in Nat /\ \A j \in 1 .. Len(w.objs) : w.objs[j] \in Object
  BY <1>1
<1> QED BY <1>3, <1>4, <1>5

\* An epoch of the same stream that is kept beside the new one is apart from it.
LEMMA KeptIsApart ==
    ASSUME NEW now \in Nat \ {0}, NEW w \in Sheets(now), NEW c \in Inventory, NEW v,
           NEW old, NEW same, NEW new, Emerged(w, v, c, now, old, same, new),
           NEW x \in w.chans \ old, x \notin same, x.stream = c.stream
    PROVE  Apart(x, new) /\ Apart(new, x)
<1>1. ~Overlaps(x, c.start, c.end) /\ x.rs = c.raw
  BY DEF Emerged
<1>2. <<x.start, x.end>> # <<c.start, c.end>>
  BY <1>1 DEF Emerged
<1>3. new.start = c.start /\ new.end = c.end /\ new.start \in Nat /\ new.end \in Nat
  <2>1. new \in ChannelEpoch(now) /\ new.start = c.start /\ new.end = c.end
    BY DEF Emerged
  <2> QED BY <2>1, ConstantsAssumption DEF ChannelEpoch, Starts, Ends
<1>4. x.start \in Nat /\ x.end \in Nat
  BY ConsistentTypes
<1> QED BY <1>1, <1>2, <1>3, <1>4, OverlapsMeansApart

\* What is kept under the id of the new epoch is the epoch it replaces.
LEMMA SameIsOne ==
    ASSUME NEW now \in Nat \ {0}, NEW w \in Sheets(now), Tidy(w), NEW c \in Inventory,
           NEW v, NEW old, NEW same, NEW new, Emerged(w, v, c, now, old, same, new)
    PROVE  /\ \A x \in same : x.id = new.id
           /\ \A x \in w.chans \ old : x.id = new.id => x \in same
<1>1. ASSUME NEW x \in same PROVE x.id = new.id
  <2>1. PICK y \in same : y.id = new.id
    BY DEF Emerged
  <2>2. x \in w.chans /\ y \in w.chans /\ x.stream = y.stream
        /\ x.start = y.start /\ x.end = y.end
    BY DEF Emerged
  <2>3. x = y
    BY <2>2 DEF Tidy, ChannelsApart, Apart
  <2> QED BY <2>1, <2>3
<1>2. ASSUME NEW x \in w.chans \ old, x.id = new.id PROVE x \in same
  <2>1. same # {}
    <3>1. x.id \in Nat
      BY ConsistentTypes
    <3> QED BY <1>2, <3>1 DEF Emerged
  <2>2. PICK y \in same : y.id = new.id
    BY <2>1 DEF Emerged
  <2>3. y \in w.chans
    BY DEF Emerged
  <2> QED BY <1>2, <2>2, <2>3 DEF Tidy, IdsUnique
<1> QED BY <1>1, <1>2

\* Merging a channel epoch keeps the tables and the objects consistent.
LEMMA ChannelConsistent ==
    ASSUME NEW now \in Nat \ {0}, NEW w, Consistent(w, now), NEW c \in Inventory
    PROVE  Consistent(EmergeChannel(w, c, now), now)
<1> DEFINE v == EmergeChannel(w, c, now)
<1>1. w \in Sheets(now) /\ Tidy(w) /\ Backed(w, now) /\ Owned(w)
  BY DEF Consistent
<1>2. v \in Sheets(now)
  BY <1>1, ChannelEmerged
<1>3. PICK old, same, new : Emerged(w, v, c, now, old, same, new)
  BY <1>1, ChannelEmerged
<1> HIDE DEF v
<1>4. /\ v.chans = ((w.chans \ old) \ same) \cup {new}
      /\ v.routs \subseteq w.routs
      /\ old \subseteq w.chans /\ same \subseteq w.chans \ old
      /\ new.stream = c.stream /\ new.seen = now
  BY <1>3 DEF Emerged
<1>5. /\ Len(w.objs) \in Nat /\ Len(v.objs) = Len(w.objs) + 1
      /\ \A j \in 1 .. Len(w.objs) :
            /\ v.objs[j].id = w.objs[j].id /\ v.objs[j].stream = w.objs[j].stream
            /\ v.objs[j].gone <=> \/ w.objs[j].gone
                                  \/ \E x \in old : x.id = w.objs[j].id
      /\ v.objs[Len(v.objs)].id = new.id
      /\ v.objs[Len(v.objs)].stream = c.stream
      /\ ~v.objs[Len(v.objs)].gone
  BY <1>1, <1>3, ConsistentTypes DEF Emerged
<1>6. /\ \A x \in same : x.id = new.id
      /\ \A x \in w.chans \ old : x.id = new.id => x \in same
  BY <1>1, <1>3, SameIsOne
<1>7. IdsUnique(v.chans)
  BY <1>1, <1>4, <1>6 DEF Tidy, IdsUnique
<1>8. ChannelsApart(v.chans)
  <2>1. SUFFICES ASSUME NEW x \in v.chans, NEW y \in v.chans, x # y,
                        x.stream = y.stream
                 PROVE  Apart(x, y)
    BY DEF ChannelsApart
  <2>2. CASE x # new /\ y # new
    BY <1>1, <1>4, <2>1, <2>2 DEF Tidy, ChannelsApart
  <2>3. CASE x = new
    <3>1. y \in w.chans \ old /\ y \notin same /\ y.stream = c.stream
      BY <1>4, <2>1, <2>3
    <3> QED BY <1>1, <1>3, <2>3, <3>1, KeptIsApart
  <2>4. CASE y = new
    <3>1. x \in w.chans \ old /\ x \notin same /\ x.stream = c.stream
      BY <1>4, <2>1, <2>4
    <3> QED BY <1>1, <1>3, <2>4, <3>1, KeptIsApart
  <2> QED BY <2>2, <2>3, <2>4
<1>9. RoutingsApart(v.routs)
  BY <1>1, <1>4 DEF Tidy, RoutingsApart
<1>10. Backed(v, now)
  <2>1. SUFFICES ASSUME NEW j \in 1 .. Len(v.objs), ~v.objs[j].gone
                 PROVE  \E x \in v.chans : /\ x.id = v.objs[j].id
                                           /\ x.stream = v.objs[j].stream
                                           /\ x.seen = now
    BY DEF Backed
  <2>2. CASE j = Len(v.objs)
    BY <1>4, <1>5, <2>2
  <2>3. CASE j # Len(v.objs)
    <3>1. j \in 1 .. Len(w.objs)
      BY <1>5, <2>3
    <3>2. PICK x \in w.chans : /\ x.id = w.objs[j].id /\ x.stream = w.objs[j].stream
                               /\ x.seen = now
      BY <1>1, <1>5, <2>1, <3>1 DEF Backed
    <3>3. x \notin old
      BY <1>5, <2>1, <3>1, <3>2
    <3>4. CASE x \in same
      <4>1. x.id = new.id /\ x.stream = new.stream
        BY <1>3, <1>6, <3>4 DEF Emerged
      <4> QED BY <1>4, <1>5, <3>1, <3>2, <4>1
    <3>5. CASE x \notin same
      BY <1>4, <1>5, <3>1, <3>2, <3>3, <3>5
    <3> QED BY <3>4, <3>5
  <2> QED BY <2>2, <2>3
<1>11. Owned(v)
  <2>1. SUFFICES ASSUME NEW j \in 1 .. Len(v.objs), NEW x \in v.chans,
                        x.id = v.objs[j].id
                 PROVE  \E m \in j .. Len(v.objs) : /\ ~v.objs[m].gone
                                                    /\ v.objs[m].id = x.id
                                                    /\ v.objs[m].stream = x.stream
    BY DEF Owned
  <2>2. CASE x = new
    <3>1. Len(v.objs) \in j .. Len(v.objs)
      BY <1>5
    <3> QED BY <1>4, <1>5, <2>2, <3>1
  <2>3. CASE x # new
    <3>1. x \in w.chans /\ x \notin old /\ x \notin same
      BY <1>4, <2>3
    <3>2. j # Len(v.objs)
      BY <1>5, <1>6, <2>1, <3>1
    <3>3. j \in 1 .. Len(w.objs)
      BY <1>5, <3>2
    <3>4. PICK m \in j .. Len(w.objs) : /\ ~w.objs[m].gone /\ w.objs[m].id = x.id
                                        /\ w.objs[m].stream = x.stream
      BY <1>1, <1>5, <2>1, <3>1, <3>3 DEF Owned
    <3>5. m \in 1 .. Len(w.objs) /\ m \in j .. Len(v.objs)
      BY <1>5, <3>3
    <3>6. ~ \E y \in old : y.id = w.objs[m].id
      BY <1>1, <1>4, <3>1, <3>4 DEF Tidy, IdsUnique
    <3> QED BY <1>5, <3>4, <3>5, <3>6
  <2> QED BY <2>2, <2>3
<1> QED BY <1>2, <1>7, <1>8, <1>9, <1>10, <1>11 DEF Consistent, Tidy, v

\* ... and the routings of epochs that stay.
LEMMA ChannelLeads ==
    ASSUME NEW now \in Nat \ {0}, NEW w, Consistent(w, now), NEW c \in Inventory,
           NEW i \in Nat, LedOr(w, i, now)
    PROVE  LedOr(EmergeChannel(w, c, now), i, now)
<1> DEFINE v == EmergeChannel(w, c, now)
<1>1. w \in Sheets(now) /\ Tidy(w)
  BY DEF Consistent
<1>2. PICK old, same, new : Emerged(w, v, c, now, old, same, new)
  BY <1>1, ChannelEmerged
<1> HIDE DEF v
<1>3. /\ \A x \in same : x.id = new.id
      /\ \A x \in w.chans \ old : x.id = new.id => x \in same
  BY <1>1, <1>2, SameIsOne
<1>4. SUFFICES ASSUME NEW r \in v.routs
               PROVE  \/ Leads(r, v)
                      \/ \E n \in 1 .. now : <<n, r.stream>> \in v.warned
                      \/ Pending(v, r.stream, i)
  BY DEF LedOr, v
<1>5. r \in w.routs /\ v.warned = w.warned /\ \A x \in old : r.ch # x.id
  BY <1>2 DEF Emerged
<1>6. CASE Leads(r, w)
  <2>1. PICK x \in w.chans : x.id = r.ch /\ x.stream = r.stream /\ r.seen <= x.seen
    BY <1>6 DEF Leads
  <2>2. x \in w.chans \ old
    BY <1>5, <2>1
  <2>3. CASE x \in same
    <3>1. /\ new \in v.chans /\ new.id = x.id /\ new.stream = x.stream
          /\ new.seen = now
      BY <1>2, <1>3, <2>3 DEF Emerged
    <3>2. r.seen <= now
      BY <1>1, <1>5, ConsistentTypes
    <3> QED BY <2>1, <3>1, <3>2 DEF Leads
  <2>4. CASE x \notin same
    <3>1. x \in v.chans
      BY <1>2, <2>2, <2>4 DEF Emerged
    <3> QED BY <2>1, <3>1 DEF Leads
  <2> QED BY <2>3, <2>4
<1>7. CASE Pending(w, r.stream, i)
  <2>1. PICK m \in 1 .. Len(w.objs) : m > i /\ w.objs[m].gone
                                      /\ w.objs[m].stream = r.stream
    BY <1>7 DEF Pending
  <2>2. Len(w.objs) \in Nat /\ Len(v.objs) = Len(w.objs) + 1
    BY <1>1, <1>2, ConsistentTypes DEF Emerged
  <2>3. v.objs[m].gone /\ v.objs[m].stream = r.stream /\ m \in 1 .. Len(v.objs)
    BY <1>2, <2>1, <2>2 DEF Emerged
  <2> QED BY <2>1, <2>3 DEF Pending
<1> QED BY <1>4, <1>5, <1>6, <1>7 DEF LedOr

\* One channel epoch more of the document is in the tables.
LEMMA ChannelMerged ==
    ASSUME NEW now \in Nat \ {0}, NEW w, Consistent(w, now), NEW t,
           NEW seq \in Seq(Inventory), NEW k \in 1 .. Len(seq),
           ObjectsOf(w, seq, k - 1), OthersKept(w, t, seq, k - 1),
           Merged(w, seq, k - 1, 0, now)
    PROVE  LET v == EmergeChannel(w, seq[k], now)
           IN  /\ ObjectsOf(v, seq, k) /\ OthersKept(v, t, seq, k)
               /\ Merged(v, seq, k, 0, now)
<1> DEFINE c == seq[k]
           v == EmergeChannel(w, c, now)
<1>1. w \in Sheets(now) /\ Tidy(w) /\ c \in Inventory /\ k \in Nat /\ k >= 1
  BY DEF Consistent
<1>2. PICK old, same, new : Emerged(w, v, c, now, old, same, new)
  BY <1>1, ChannelEmerged
<1> HIDE DEF v, c
<1>3. /\ \A x \in same : x.id = new.id
      /\ \A x \in w.chans \ old : x.id = new.id => x \in same
  BY <1>1, <1>2, SameIsOne
<1>4. /\ Len(w.objs) = k - 1 /\ Len(v.objs) = k
      /\ \A j \in 1 .. (k - 1) :
            /\ v.objs[j].id = w.objs[j].id /\ v.objs[j].stream = w.objs[j].stream
            /\ v.objs[j].gone <=> \/ w.objs[j].gone
                                  \/ \E x \in old : x.id = w.objs[j].id
      /\ v.objs[k].id = new.id /\ v.objs[k].stream = c.stream
  <2>1. Len(w.objs) = k - 1 /\ Len(v.objs) = Len(w.objs) + 1
    BY <1>2 DEF ObjectsOf, Emerged
  <2>2. Len(v.objs) = k
    BY <1>1, <2>1
  <2> QED BY <1>2, <2>1, <2>2 DEF Emerged
<1>5. /\ v.chans = ((w.chans \ old) \ same) \cup {new}
      /\ old \subseteq w.chans /\ same \subseteq w.chans
      /\ \A x \in old \cup same : x.stream = c.stream
      /\ new.stream = c.stream /\ new.start = c.start /\ new.end = c.end
      /\ new.rs = c.rs /\ new.seen = now
      /\ v.warned = w.warned
  BY <1>2 DEF Emerged
<1>6. ObjectsOf(v, seq, k)
  <2>1. \A j \in 1 .. (k - 1) : w.objs[j].stream = seq[j].stream
    BY DEF ObjectsOf
  <2>2. ASSUME NEW j \in 1 .. k PROVE v.objs[j].stream = seq[j].stream
    <3>1. CASE j = k
      BY <1>4, <3>1 DEF c
    <3>2. CASE j # k
      <4>1. j \in 1 .. (k - 1)
        BY <1>1, <3>2
      <4> QED BY <1>4, <2>1, <4>1
    <3> QED BY <3>1, <3>2
  <2> QED BY <1>4, <2>2 DEF ObjectsOf
<1>7. OthersKept(v, t, seq, k)
  <2>1. k \in 1 .. k /\ \A j \in 1 .. (k - 1) : j \in 1 .. k
    BY <1>1
  <2>2. seq[k].stream = c.stream
    BY DEF c
  <2>3. \A x \in t.chans : x \in v.chans \/ \E j \in 1 .. k : x.stream = seq[j].stream
    BY <1>5, <2>1, <2>2 DEF OthersKept
  <2>4. \A x \in v.chans : x \in t.chans \/ \E j \in 1 .. k : x.stream = seq[j].stream
    BY <1>5, <2>1, <2>2 DEF OthersKept
  <2> QED BY <1>5, <2>3, <2>4 DEF OthersKept
<1>8. ASSUME NEW j \in 1 .. (k - 1), Pending(w, seq[j].stream, 0)
      PROVE  Pending(v, seq[j].stream, 0)
  <2>1. PICK m \in 1 .. (k - 1) : m > 0 /\ w.objs[m].gone
                                  /\ w.objs[m].stream = seq[j].stream
    BY <1>4, <1>8 DEF Pending
  <2>2. m \in 1 .. k
    BY <1>1
  <2> QED BY <1>4, <2>1, <2>2 DEF Pending
<1>9. ASSUME NEW j \in 1 .. (k - 1), InRows(w, seq[j], now)
      PROVE  InRows(v, seq[j], now) \/ Pending(v, seq[j].stream, 0)
  <2> DEFINE d == seq[j]
  <2>1. d \in Inventory
    BY <1>1
  <2> HIDE DEF d
  <2>2. PICK x \in w.chans, m \in 1 .. (k - 1) :
           /\ x.id = w.objs[m].id /\ x.stream = w.objs[m].stream
           /\ x.stream = d.stream /\ x.start = d.start /\ x.end = d.end
           /\ x.rs = d.rs /\ x.seen = now
    BY <1>4, <1>9 DEF InRows, d
  <2>3. m \in 1 .. k /\ m > 0
    BY <1>1
  <2>4. CASE x \in old
    <3>1. v.objs[m].gone /\ v.objs[m].stream = d.stream
      BY <1>4, <2>2, <2>4
    <3> QED BY <1>4, <2>3, <3>1 DEF Pending, d
  <2>5. CASE x \in same
    <3>1. /\ x.id = new.id /\ x.stream = c.stream /\ x.rs = c.raw
          /\ x.start = c.start /\ x.end = c.end
      BY <1>2, <1>3, <2>5 DEF Emerged
    <3>2. x.rs \in Known
      BY <1>1, <1>5, <2>5 DEF Sheets, ChannelEpoch
    <3>3. c.rs = c.raw
      BY <1>1, <3>1, <3>2 DEF Inventory, Known
    <3>4. new \in v.chans /\ new.id = v.objs[m].id /\ new.stream = v.objs[m].stream
      BY <1>4, <1>5, <2>2, <3>1
    <3> QED BY <1>4, <1>5, <2>2, <2>3, <3>1, <3>3, <3>4 DEF InRows, d
  <2>6. CASE x \notin old /\ x \notin same
    <3>1. x \in v.chans
      BY <1>5, <2>6
    <3> QED BY <1>4, <2>2, <2>3, <3>1 DEF InRows, d
  <2> QED BY <2>4, <2>5, <2>6
<1>10. InRows(v, c, now)
  BY <1>1, <1>4, <1>5 DEF InRows
<1>11. Merged(v, seq, k, 0, now)
  <2>1. SUFFICES ASSUME NEW j \in 1 .. k
                 PROVE  \/ InRows(v, seq[j], now)
                        \/ <<now, seq[j].stream>> \in v.warned
                        \/ Pending(v, seq[j].stream, 0)
    BY DEF Merged
  <2>2. CASE j = k
    BY <1>10, <2>2 DEF c
  <2>3. CASE j # k
    <3>1. j \in 1 .. (k - 1)
      BY <1>1, <2>3
    <3> QED BY <1>5, <1>8, <1>9, <3>1 DEF Merged
  <2> QED BY <2>2, <2>3
<1> QED BY <1>6, <1>7, <1>11 DEF v, c

\* The tables once the document is read.
Loaded(w, t, seq, k, now) ==
    /\ Consistent(w, now) /\ ObjectsOf(w, seq, k) /\ OthersKept(w, t, seq, k)
    /\ LedOr(w, Len(seq), now) /\ Merged(w, seq, k, 0, now)

LEMMA ReadLoads ==
    ASSUME NEW now \in Nat \ {0}, NEW t, NEW seq \in Seq(Inventory),
           Opened(t) \in Sheets(now), Tidy(t), LedOr(Opened(t), Len(seq), now)
    PROVE  Loaded(Read(t, seq, now), t, seq, Len(seq), now)
<1> DEFINE n == Len(seq)
<1>1. n \in Nat /\ \A k \in 1 .. n : seq[k] \in Inventory
  OBVIOUS
<1>2. PICK h : /\ h[0] = Opened(t)
               /\ \A k \in 1 .. n : h[k] = EmergeChannel(h[k - 1], seq[k], now)
               /\ Read(t, seq, now) = h[n]
  <2>1. \A w \in Sheets(now), c \in Inventory : EmergeChannel(w, c, now) \in Sheets(now)
    BY ChannelEmerged
  <2> HIDE DEF n
  <2> QED BY <2>1, ReadUnrolls DEF n
<1> DEFINE P == {k \in 0 .. n : Loaded(h[k], t, seq, k, now)}
<1> HIDE DEF n
<1>3. 0 \in P
  <2> DEFINE w == Opened(t)
  <2>1. /\ w.chans = t.chans /\ w.routs = t.routs /\ w.warned = t.warned
        /\ w.objs = <<>> /\ Len(w.objs) = 0
    BY DEF Opened
  <2> HIDE DEF w
  <2>2. 1 .. 0 = {}
    OBVIOUS
  <2>3. Consistent(w, now)
    BY <2>1, <2>2 DEF Consistent, Tidy, Backed, Owned, w
  <2>4. ObjectsOf(w, seq, 0)
    BY <2>1, <2>2 DEF ObjectsOf
  <2>5. OthersKept(w, t, seq, 0) /\ Merged(w, seq, 0, 0, now)
    BY <2>1, <2>2 DEF OthersKept, Merged
  <2>6. Loaded(w, t, seq, 0, now)
    BY <2>3, <2>4, <2>5 DEF Loaded, w
  <2> QED BY <1>1, <1>2, <2>6 DEF w
<1>4. ASSUME NEW k \in 1 .. n, k - 1 \in P
      PROVE  k \in P
  <2> DEFINE w == h[k - 1]
  <2>1. Loaded(w, t, seq, k - 1, now)
    BY <1>4
  <2> HIDE DEF w
  <2>2. k \in 1 .. Len(seq) /\ seq[k] \in Inventory
    BY <1>1 DEF n
  <2>3. LET v == EmergeChannel(w, seq[k], now)
        IN  /\ Consistent(v, now) /\ LedOr(v, n, now)
            /\ ObjectsOf(v, seq, k) /\ OthersKept(v, t, seq, k)
            /\ Merged(v, seq, k, 0, now)
    BY <1>1, <2>1, <2>2, ChannelConsistent, ChannelLeads, ChannelMerged DEF Loaded, n
  <2>4. h[k] = EmergeChannel(w, seq[k], now)
    BY <1>2 DEF w
  <2> QED BY <2>3, <2>4 DEF Loaded, n
<1>5. n \in P
  <2>1. n \in Nat /\ \A k \in 1 .. n : k - 1 \in P => k \in P
    BY <1>1, <1>4
  <2>2. \A k \in 0 .. n : k \in P
    <3> HIDE DEF P
    <3> QED BY <1>3, <2>1, Induction
  <2> QED BY <1>1, <2>2
<1> QED BY <1>2, <1>5 DEF n

LEMMA Discarded ==
    ASSUME NEW now \in Nat \ {0}, NEW w \in Sheets(now), NEW i \in 1 .. Len(w.objs)
    PROVE  LET v == Discard(w, w.objs[i], now)
           IN  /\ v \in Sheets(now)
               /\ v.chans = {x \in w.chans : x.id # w.objs[i].id}
               /\ v.routs = w.routs
               /\ v.warned = w.warned \cup {<<now, w.objs[i].stream>>}
               /\ Len(v.objs) = Len(w.objs)
               /\ \A j \in 1 .. Len(w.objs) :
                     /\ v.objs[j].id = w.objs[j].id
                     /\ v.objs[j].stream = w.objs[j].stream
                     /\ v.objs[j].gone <=> \/ w.objs[j].gone
                                           \/ w.objs[j].id = w.objs[i].id
<1> DEFINE o == w.objs[i]
           v == Discard(w, o, now)
           objs == Gone(w.objs, {o.id})
           chans == {x \in w.chans : x.id # o.id}
           warned == w.warned \cup {<<now, o.stream>>}
<1>1. /\ w = [chans |-> w.chans, routs |-> w.routs, objs |-> w.objs,
              endpoints |-> w.endpoints, warned |-> w.warned]
      /\ w.chans \in SUBSET ChannelEpoch(now) /\ w.routs \in SUBSET Routing(now)
      /\ w.objs \in Seq(Object) /\ w.endpoints \in SUBSET Endpoint
      /\ w.warned \in SUBSET ((1 .. now) \X Streams) /\ Bounded(w.chans)
  BY DEF Sheets
<1>2. v = [chans |-> chans, routs |-> w.routs, objs |-> objs,
           endpoints |-> w.endpoints, warned |-> warned]
  <2>1. v = [w EXCEPT !.chans = chans, !.objs = objs, !.warned = warned]
    BY DEF Discard
  <2> HIDE DEF chans, objs, warned, v
  <2> QED BY <1>1, <2>1
<1>3. /\ objs \in Seq(Object) /\ Len(objs) = Len(w.objs)
      /\ \A j \in 1 .. Len(w.objs) :
            /\ objs[j].id = w.objs[j].id /\ objs[j].stream = w.objs[j].stream
            /\ objs[j].gone <=> w.objs[j].gone \/ w.objs[j].id \in {o.id}
  <2> HIDE DEF o
  <2> QED BY <1>1, GoneObjects
<1>4. chans \in SUBSET ChannelEpoch(now) /\ Bounded(chans)
  BY <1>1 DEF Bounded
<1>5. warned \in SUBSET ((1 .. now) \X Streams)
  <2>1. o \in Object
    BY <1>1
  <2>2. o.stream \in Streams /\ now \in 1 .. now
    BY <2>1 DEF Object
  <2> HIDE DEF o
  <2> QED BY <1>1, <2>2
<1>6. v \in Sheets(now)
  <2> HIDE DEF chans, objs, warned, v
  <2> QED BY <1>1, <1>2, <1>3, <1>4, <1>5 DEF Sheets
<1>7. /\ v.chans = chans /\ v.routs = w.routs /\ v.objs = objs /\ v.warned = warned
  <2> HIDE DEF chans, objs, warned, v
  <2> QED BY <1>2
<1> HIDE DEF objs, v
<1> QED BY <1>3, <1>6, <1>7 DEF v

LEMMA RoutingEmerged ==
    ASSUME NEW now \in Nat \ {0}, NEW w \in Sheets(now), NEW i \in 1 .. Len(w.objs),
           NEW svc \in Service
    PROVE  LET v == EmergeRouting(w, w.objs[i], svc, now)
           IN  /\ v \in Sheets(now)
               /\ v.chans = w.chans /\ v.objs = w.objs /\ v.warned = w.warned
               /\ \E new \in Routing(now) :
                     /\ new.ch = w.objs[i].id /\ new.stream = w.objs[i].stream
                     /\ new.seen = now
                     /\ v.routs = (w.routs \ {r \in w.routs :
                            /\ r.ch = new.ch /\ r.ep = new.ep
                            /\ \/ Overlaps(r, new.start, new.end)
                               \/ <<r.start, r.end>> = <<new.start, new.end>>})
                            \cup {new}
<1> DEFINE o == w.objs[i]
           v == EmergeRouting(w, o, svc, now)
           ep == [service |-> svc.service, url |-> svc.url, token |-> Token(o, svc)]
           new == [ch |-> o.id, ep |-> ep, start |-> svc.start,
                   end |-> svc.end, seen |-> now, stream |-> o.stream]
           rivals == {r \in w.routs : r.ch = o.id /\ r.ep = ep}
           routs == Emerge(w.routs, rivals, svc, {new})
           ends == w.endpoints \cup {ep}
<1>1. /\ w = [chans |-> w.chans, routs |-> w.routs, objs |-> w.objs,
              endpoints |-> w.endpoints, warned |-> w.warned]
      /\ w.chans \in SUBSET ChannelEpoch(now) /\ w.routs \in SUBSET Routing(now)
      /\ w.objs \in Seq(Object) /\ w.endpoints \in SUBSET Endpoint
      /\ w.warned \in SUBSET ((1 .. now) \X Streams) /\ Bounded(w.chans)
  BY DEF Sheets
<1>2. v = [chans |-> w.chans, routs |-> routs, objs |-> w.objs,
           endpoints |-> ends, warned |-> w.warned]
  <2>1. v = [w EXCEPT !.endpoints = ends, !.routs = routs]
    BY DEF EmergeRouting
  <2> HIDE DEF ends, routs, v
  <2> QED BY <1>1, <2>1
<1>3. o.id \in Nat /\ o.stream \in Streams
  <2>1. o \in Object
    BY <1>1
  <2> HIDE DEF o
  <2> QED BY <2>1 DEF Object
<1> HIDE DEF o
<1>4. ep \in Endpoint
  <2>1. Token(o, svc) \in Tokens
    <3>1. svc.token \in STRING
      BY DEF Service
    <3> QED BY <3>1 DEF Token, Tokens
  <2>2. svc.service \in STRING /\ svc.url \in STRING
    BY DEF Service
  <2> QED BY <2>1, <2>2 DEF Endpoint
<1>5. svc.start \in Starts /\ svc.end \in Ends
  BY DEF Service
<1> HIDE DEF ep
<1>6. /\ new \in Routing(now)
      /\ new.ch = o.id /\ new.stream = o.stream /\ new.seen = now /\ new.ep = ep
      /\ new.start = svc.start /\ new.end = svc.end
  BY <1>3, <1>4, <1>5 DEF Routing
<1> HIDE DEF new
<1>7. routs = (w.routs \ {r \in w.routs :
                  /\ r.ch = new.ch /\ r.ep = new.ep
                  /\ \/ Overlaps(r, new.start, new.end)
                     \/ <<r.start, r.end>> = <<new.start, new.end>>})
              \cup {new}
  BY <1>6 DEF Emerge
<1> HIDE DEF routs
<1>8. routs \in SUBSET Routing(now)
  BY <1>1, <1>6, <1>7
<1>9. ends \in SUBSET Endpoint
  BY <1>1, <1>4
<1> HIDE DEF v, ends
<1>10. v \in Sheets(now)
  BY <1>1, <1>2, <1>8, <1>9 DEF Sheets
<1>11. v.chans = w.chans /\ v.objs = w.objs /\ v.warned = w.warned /\ v.routs = routs
  BY <1>2
<1>12. \E n \in Routing(now) :
          /\ n.ch = o.id /\ n.stream = o.stream /\ n.seen = now
          /\ v.routs = (w.routs \ {r \in w.routs :
                 /\ r.ch = n.ch /\ r.ep = n.ep
                 /\ \/ Overlaps(r, n.start, n.end)
                    \/ <<r.start, r.end>> = <<n.start, n.end>>}) \cup {n}
  BY <1>6, <1>7, <1>11
<1> QED BY <1>10, <1>11, <1>12 DEF v, o

LEMMA AnnouncedSheets ==
    ASSUME NEW now \in Nat \ {0}, NEW w \in Sheets(now), NEW svc \in Service
    PROVE  LET v == Announced(w, svc)
           IN  /\ v \in Sheets(now)
               /\ v.chans = w.chans /\ v.objs = w.objs /\ v.warned = w.warned
               /\ v.routs = w.routs
<1> DEFINE v == Announced(w, svc)
           ends == w.endpoints \cup {[service |-> svc.service, url |-> svc.url,
                                      token |-> svc.token]}
<1>1. /\ w = [chans |-> w.chans, routs |-> w.routs, objs |-> w.objs,
              endpoints |-> w.endpoints, warned |-> w.warned]
      /\ w.chans \in SUBSET ChannelEpoch(now) /\ w.routs \in SUBSET Routing(now)
      /\ w.objs \in Seq(Object) /\ w.endpoints \in SUBSET Endpoint
      /\ w.warned \in SUBSET ((1 .. now) \X Streams) /\ Bounded(w.chans)
  BY DEF Sheets
<1>2. ends \in SUBSET Endpoint
  <2>1. svc.service \in STRING /\ svc.url \in STRING /\ svc.token \in STRING
    BY DEF Service
  <2> QED BY <1>1, <2>1 DEF Endpoint, Tokens
<1>3. v = [w EXCEPT !.endpoints = ends]
  BY DEF Announced
<1> HIDE DEF ends, v
<1>4. v = [chans |-> w.chans, routs |-> w.routs, objs |-> w.objs,
           endpoints |-> ends, warned |-> w.warned]
  BY <1>1, <1>3
<1>5. v \in Sheets(now)
  BY <1>1, <1>2, <1>4 DEF Sheets
<1>6. /\ v.chans = w.chans /\ v.objs = w.objs /\ v.warned = w.warned
      /\ v.routs = w.routs
  BY <1>4
<1> QED BY <1>5, <1>6 DEF v

\* The tables once the first i objects are routed to a service.
Placed(w, t, seq, i, now) ==
    /\ Consistent(w, now) /\ ObjectsOf(w, seq, Len(seq)) /\ OthersKept(w, t, seq, Len(seq))
    /\ LedOr(w, i, now) /\ Merged(w, seq, Len(seq), i, now)

\* An object without a row: what it deletes by its id is of the document, and
\* will be warned of.
LEMMA DiscardPlaces ==
    ASSUME NEW now \in Nat \ {0}, NEW w, NEW t, NEW seq \in Seq(Inventory),
           NEW i \in 1 .. Len(seq), Placed(w, t, seq, i - 1, now)
    PROVE  Placed(Discard(w, w.objs[i], now), t, seq, i, now)
<1> DEFINE n == Len(seq)
           o == w.objs[i]
           v == Discard(w, o, now)
<1>1. /\ w \in Sheets(now) /\ Tidy(w) /\ Backed(w, now) /\ Owned(w)
      /\ n \in Nat /\ i \in 1 .. n /\ Len(w.objs) = n
      /\ \A j \in 1 .. n : w.objs[j].stream = seq[j].stream
  BY DEF Placed, Consistent, ObjectsOf
<1>2. /\ v \in Sheets(now)
      /\ v.chans = {x \in w.chans : x.id # o.id}
      /\ v.routs = w.routs
      /\ v.warned = w.warned \cup {<<now, o.stream>>}
      /\ Len(v.objs) = n
      /\ \A j \in 1 .. n : /\ v.objs[j].id = w.objs[j].id
                           /\ v.objs[j].stream = w.objs[j].stream
                           /\ v.objs[j].gone <=> w.objs[j].gone \/ w.objs[j].id = o.id
  <2>1. w \in Sheets(now) /\ Len(w.objs) = n /\ i \in 1 .. Len(w.objs)
    BY <1>1
  <2> HIDE DEF n
  <2> QED BY <2>1, Discarded
<1> HIDE DEF n, v
<1>3. Tidy(v)
  BY <1>1, <1>2 DEF Tidy, IdsUnique, ChannelsApart, RoutingsApart
<1>4. Backed(v, now)
  BY <1>1, <1>2 DEF Backed
<1>5. Owned(v)
  <2>1. SUFFICES ASSUME NEW j \in 1 .. n, NEW x \in v.chans, x.id = w.objs[j].id
                 PROVE  \E m \in j .. n : /\ ~v.objs[m].gone /\ v.objs[m].id = x.id
                                          /\ v.objs[m].stream = x.stream
    BY <1>2 DEF Owned
  <2>2. PICK m \in j .. n : /\ ~w.objs[m].gone /\ w.objs[m].id = x.id
                            /\ w.objs[m].stream = x.stream
    BY <1>1, <1>2, <2>1 DEF Owned
  <2>3. m \in 1 .. n
    BY <1>1
  <2> QED BY <1>2, <2>2, <2>3
<1>6. Consistent(v, now)
  BY <1>2, <1>3, <1>4, <1>5 DEF Consistent
<1>7. ObjectsOf(v, seq, n)
  BY <1>1, <1>2 DEF ObjectsOf
<1>8. \A x \in w.chans : x \in v.chans \/ \E j \in 1 .. n : /\ w.objs[j].id = o.id
                                                            /\ ~w.objs[j].gone
                                                            /\ w.objs[j].stream = x.stream
                                                            /\ j >= i
  <2>1. SUFFICES ASSUME NEW x \in w.chans, x.id = w.objs[i].id
                 PROVE  \E j \in 1 .. n : /\ w.objs[j].id = o.id /\ ~w.objs[j].gone
                                          /\ w.objs[j].stream = x.stream /\ j >= i
    BY <1>2
  <2>2. PICK m \in i .. n : /\ ~w.objs[m].gone /\ w.objs[m].id = x.id
                            /\ w.objs[m].stream = x.stream
    BY <1>1, <2>1 DEF Owned
  <2>3. m \in 1 .. n /\ m >= i
    BY <1>1
  <2> QED BY <2>1, <2>2, <2>3
<1>9. OthersKept(v, t, seq, n)
  <2>1. OthersKept(w, t, seq, n)
    BY DEF Placed, n
  <2>2. \A x \in t.chans : x \in v.chans \/ \E j \in 1 .. n : x.stream = seq[j].stream
    BY <1>1, <1>8, <2>1 DEF OthersKept
  <2> QED BY <1>2, <2>1, <2>2 DEF OthersKept
<1>10. ASSUME NEW s, Pending(w, s, i - 1)
       PROVE  <<now, s>> \in v.warned \/ Pending(v, s, i)
  <2>1. PICK m \in 1 .. n : m > i - 1 /\ w.objs[m].gone /\ w.objs[m].stream = s
    BY <1>1, <1>10 DEF Pending
  <2>2. CASE m = i
    BY <1>2, <2>1, <2>2
  <2>3. CASE m # i
    <3>1. m > i
      BY <1>1, <2>1, <2>3
    <3> QED BY <1>2, <2>1, <3>1 DEF Pending
  <2> QED BY <2>2, <2>3
<1>11. ASSUME NEW x \in w.chans, x \notin v.chans
       PROVE  <<now, x.stream>> \in v.warned \/ Pending(v, x.stream, i)
  <2>1. PICK j \in 1 .. n : /\ w.objs[j].id = o.id /\ w.objs[j].stream = x.stream
                            /\ j >= i
    BY <1>8, <1>11
  <2>2. CASE j = i
    BY <1>2, <2>1, <2>2
  <2>3. CASE j # i
    <3>1. j > i /\ v.objs[j].gone /\ v.objs[j].stream = x.stream
      BY <1>1, <1>2, <2>1, <2>3
    <3> QED BY <1>2, <3>1 DEF Pending
  <2> QED BY <2>2, <2>3
<1>12. LedOr(v, i, now)
  <2>1. SUFFICES ASSUME NEW r \in w.routs
                 PROVE  \/ Leads(r, v)
                        \/ \E k \in 1 .. now : <<k, r.stream>> \in v.warned
                        \/ Pending(v, r.stream, i)
    BY <1>2 DEF LedOr
  <2>2. now \in 1 .. now
    OBVIOUS
  <2>3. \/ Leads(r, w)
        \/ \E k \in 1 .. now : <<k, r.stream>> \in w.warned
        \/ Pending(w, r.stream, i - 1)
    BY DEF Placed, LedOr
  <2>4. CASE Leads(r, w)
    BY <1>11, <2>2, <2>4 DEF Leads
  <2> QED BY <1>2, <1>10, <2>2, <2>3, <2>4
<1>13. Merged(v, seq, n, i, now)
  <2>1. SUFFICES ASSUME NEW j \in 1 .. n
                 PROVE  \/ InRows(v, seq[j], now)
                        \/ <<now, seq[j].stream>> \in v.warned
                        \/ Pending(v, seq[j].stream, i)
    BY DEF Merged
  <2>2. \/ InRows(w, seq[j], now)
        \/ <<now, seq[j].stream>> \in w.warned
        \/ Pending(w, seq[j].stream, i - 1)
    BY DEF Placed, Merged, n
  <2>3. CASE InRows(w, seq[j], now)
    <3> DEFINE c == seq[j]
    <3> HIDE DEF c
    <3>1. PICK x \in w.chans, m \in 1 .. n :
             /\ x.id = w.objs[m].id /\ x.stream = w.objs[m].stream
             /\ x.stream = c.stream /\ x.start = c.start /\ x.end = c.end
             /\ x.rs = c.rs /\ x.seen = now
      BY <1>1, <2>3 DEF InRows, c
    <3>2. CASE x \in v.chans
      BY <1>2, <3>1, <3>2 DEF InRows, c
    <3>3. CASE x \notin v.chans
      BY <1>11, <3>1, <3>3 DEF c
    <3> QED BY <3>2, <3>3
  <2> QED BY <1>2, <1>10, <2>2, <2>3
<1> QED BY <1>6, <1>7, <1>9, <1>12, <1>13 DEF Placed, v, n

\* An object with its row.
LEMMA RoutingPlaces ==
    ASSUME NEW now \in Nat \ {0}, NEW w, NEW t, NEW seq \in Seq(Inventory),
           NEW i \in 1 .. Len(seq), Placed(w, t, seq, i - 1, now),
           NEW svc \in Service, ~w.objs[i].gone
    PROVE  Placed(EmergeRouting(w, w.objs[i], svc, now), t, seq, i, now)
<1> DEFINE n == Len(seq)
           o == w.objs[i]
           v == EmergeRouting(w, o, svc, now)
<1>1. /\ w \in Sheets(now) /\ Tidy(w) /\ Backed(w, now) /\ Owned(w)
      /\ n \in Nat /\ i \in 1 .. n /\ Len(w.objs) = n
  BY DEF Placed, Consistent, ObjectsOf
<1>2. /\ v \in Sheets(now)
      /\ v.chans = w.chans /\ v.objs = w.objs /\ v.warned = w.warned
  BY <1>1, RoutingEmerged
<1>3. PICK new \in Routing(now) :
         /\ new.ch = o.id /\ new.stream = o.stream /\ new.seen = now
         /\ v.routs = (w.routs \ {r \in w.routs :
                /\ r.ch = new.ch /\ r.ep = new.ep
                /\ \/ Overlaps(r, new.start, new.end)
                   \/ <<r.start, r.end>> = <<new.start, new.end>>}) \cup {new}
  BY <1>1, RoutingEmerged
<1> HIDE DEF n, v
<1>4. RoutingsApart(v.routs)
  <2>1. SUFFICES ASSUME NEW x \in v.routs, NEW y \in v.routs, x # y,
                        x.ch = y.ch, x.ep = y.ep
                 PROVE  Apart(x, y)
    BY DEF RoutingsApart
  <2>2. \A r \in v.routs : r.start \in Nat /\ r.end \in Nat
    BY <1>2, ConsistentTypes
  <2>3. new \in v.routs
    BY <1>3
  <2>4. ASSUME NEW r \in v.routs, r # new, r.ch = new.ch, r.ep = new.ep
        PROVE  Apart(r, new) /\ Apart(new, r)
    <3>1. ~Overlaps(r, new.start, new.end)
          /\ <<r.start, r.end>> # <<new.start, new.end>>
      BY <1>3, <2>4
    <3> QED BY <2>2, <2>3, <3>1, OverlapsMeansApart
  <2>5. CASE x # new /\ y # new
    <3>1. x \in w.routs /\ y \in w.routs
      BY <1>3, <2>5
    <3> QED BY <1>1, <2>1, <3>1 DEF Tidy, RoutingsApart
  <2> QED BY <2>1, <2>4, <2>5
<1>5. Consistent(v, now)
  BY <1>1, <1>2, <1>4 DEF Consistent, Tidy, Backed, Owned
<1>6. ObjectsOf(v, seq, n) /\ OthersKept(v, t, seq, n)
  BY <1>2 DEF Placed, ObjectsOf, OthersKept, n
<1>7. \A s : Pending(w, s, i - 1) => Pending(v, s, i)
  <2>1. SUFFICES ASSUME NEW s, Pending(w, s, i - 1) PROVE Pending(v, s, i)
    OBVIOUS
  <2>2. PICK m \in 1 .. n : m > i - 1 /\ w.objs[m].gone /\ w.objs[m].stream = s
    BY <1>1, <2>1 DEF Pending
  <2>3. m # i
    BY <2>2
  <2>4. m > i
    BY <1>1, <2>2, <2>3
  <2> QED BY <1>1, <1>2, <2>2, <2>4 DEF Pending
<1>8. LedOr(v, i, now)
  <2>1. SUFFICES ASSUME NEW r \in v.routs
                 PROVE  \/ Leads(r, v)
                        \/ \E k \in 1 .. now : <<k, r.stream>> \in v.warned
                        \/ Pending(v, r.stream, i)
    BY DEF LedOr
  <2>2. CASE r = new
    <3>1. PICK x \in w.chans : x.id = o.id /\ x.stream = o.stream /\ x.seen = now
      BY <1>1 DEF Backed
    <3> QED BY <1>2, <1>3, <2>2, <3>1 DEF Leads
  <2>3. CASE r # new
    <3>1. r \in w.routs
      BY <1>3, <2>3
    <3>2. \/ Leads(r, w)
          \/ \E k \in 1 .. now : <<k, r.stream>> \in w.warned
          \/ Pending(w, r.stream, i - 1)
      BY <3>1 DEF Placed, LedOr
    <3> QED BY <1>2, <1>7, <3>2 DEF Leads
  <2> QED BY <2>2, <2>3
<1>9. Merged(v, seq, n, i, now)
  BY <1>2, <1>7 DEF Placed, Merged, InRows, n
<1> QED BY <1>5, <1>6, <1>8, <1>9 DEF Placed, v, n

LEMMA OnePlaces ==
    ASSUME NEW now \in Nat \ {0}, NEW w, NEW t, NEW seq \in Seq(Inventory),
           NEW i \in 1 .. Len(seq), Placed(w, t, seq, i - 1, now), NEW svc \in Service
    PROVE  Placed(RouteOne(w, i, svc, now), t, seq, i, now)
<1>1. CASE Invalid(w.objs[i], svc)
  BY <1>1, DiscardPlaces DEF RouteOne
<1>2. CASE ~Invalid(w.objs[i], svc)
  <2>1. ~w.objs[i].gone
    BY <1>2 DEF Invalid
  <2> QED BY <1>2, <2>1, RoutingPlaces DEF RouteOne
<1> QED BY <1>1, <1>2

LEMMA OneSheets ==
    ASSUME NEW now \in Nat \ {0}, NEW w \in Sheets(now), NEW svc \in Service,
           NEW i \in 1 .. Len(w.objs)
    PROVE  /\ RouteOne(w, i, svc, now) \in Sheets(now)
           /\ Len(RouteOne(w, i, svc, now).objs) = Len(w.objs)
<1>1. CASE Invalid(w.objs[i], svc)
  BY <1>1, Discarded DEF RouteOne
<1>2. CASE ~Invalid(w.objs[i], svc)
  BY <1>2, RoutingEmerged DEF RouteOne
<1> QED BY <1>1, <1>2

\* Sheets with n objects.
Sized(n, now) == {w \in Sheets(now) : Len(w.objs) = n}

LEMMA AllUnrolls ==
    ASSUME NEW now \in Nat \ {0}, NEW n \in Nat, NEW w \in Sized(n, now),
           NEW svc \in Service
    PROVE  \E h : /\ h[0] = Announced(w, svc)
                  /\ \A k \in 1 .. n : h[k] = RouteOne(h[k - 1], k, svc, now)
                  /\ RouteAll(w, svc, now) = h[n]
<1>1. w \in Sheets(now) /\ Len(w.objs) = n /\ w.objs \in Seq(Object)
  BY DEF Sized, Sheets
<1>2. DOMAIN w.objs = 1 .. n
  BY <1>1
<1>3. Announced(w, svc) \in Sized(n, now)
  BY <1>1, AnnouncedSheets DEF Sized
<1>4. \A v \in Sized(n, now), i \in 1 .. n : RouteOne(v, i, svc, now) \in Sized(n, now)
  BY OneSheets DEF Sized
<1> DEFINE T == Sized(n, now)
<1>5. /\ Announced(w, svc) \in T
      /\ \A v \in T, i \in 1 .. n : RouteOne(v, i, svc, now) \in T
  BY <1>3, <1>4
<1> HIDE DEF T
<1> QED BY <1>2, <1>5, RouteAllUnrolls

LEMMA AllSheets ==
    ASSUME NEW now \in Nat \ {0}, NEW n \in Nat, NEW w \in Sized(n, now),
           NEW svc \in Service
    PROVE  RouteAll(w, svc, now) \in Sized(n, now)
<1>1. PICK h : /\ h[0] = Announced(w, svc)
               /\ \A k \in 1 .. n : h[k] = RouteOne(h[k - 1], k, svc, now)
               /\ RouteAll(w, svc, now) = h[n]
  BY AllUnrolls
<1> DEFINE P == {k \in 0 .. n : h[k] \in Sized(n, now)}
<1>2. 0 \in P
  BY <1>1, AnnouncedSheets DEF Sized
<1>3. \A k \in 1 .. n : k - 1 \in P => k \in P
  BY <1>1, OneSheets DEF Sized
<1>4. \A k \in 0 .. n : k \in P
  <2> HIDE DEF P
  <2> QED BY <1>2, <1>3, Induction
<1> QED BY <1>1, <1>4

LEMMA AllPlaces ==
    ASSUME NEW now \in Nat \ {0}, NEW w, NEW t, NEW seq \in Seq(Inventory),
           Placed(w, t, seq, 0, now), NEW svc \in Service
    PROVE  Placed(RouteAll(w, svc, now), t, seq, Len(seq), now)
<1> DEFINE n == Len(seq)
<1>0. n \in Nat
  OBVIOUS
<1>1. w \in Sized(n, now) /\ w \in Sheets(now)
  BY DEF Placed, Consistent, ObjectsOf, Sized
<1> HIDE DEF n
<1>2. PICK h : /\ h[0] = Announced(w, svc)
               /\ \A k \in 1 .. n : h[k] = RouteOne(h[k - 1], k, svc, now)
               /\ RouteAll(w, svc, now) = h[n]
  BY <1>0, <1>1, AllUnrolls
<1> DEFINE P == {k \in 0 .. n : Placed(h[k], t, seq, k, now)}
<1>3. 0 \in P
  <2> DEFINE v == Announced(w, svc)
  <2>1. /\ v \in Sheets(now) /\ v.chans = w.chans /\ v.objs = w.objs
        /\ v.warned = w.warned /\ v.routs = w.routs
    BY <1>1, AnnouncedSheets
  <2> HIDE DEF v
  <2>2. Consistent(v, now)
    BY <2>1 DEF Placed, Consistent, Tidy, Backed, Owned
  <2>3. ObjectsOf(v, seq, Len(seq)) /\ OthersKept(v, t, seq, Len(seq))
    BY <2>1 DEF Placed, ObjectsOf, OthersKept
  <2>4. LedOr(v, 0, now)
    BY <2>1 DEF Placed, LedOr, Leads, Pending
  <2>5. Merged(v, seq, Len(seq), 0, now)
    <3>1. \A c : InRows(w, c, now) => InRows(v, c, now)
      BY <2>1 DEF InRows
    <3>2. \A s : Pending(w, s, 0) => Pending(v, s, 0)
      BY <2>1 DEF Pending
    <3> QED BY <2>1, <3>1, <3>2 DEF Placed, Merged
  <2>6. Placed(v, t, seq, 0, now)
    BY <2>2, <2>3, <2>4, <2>5 DEF Placed
  <2> QED BY <1>0, <1>2, <2>6 DEF v
<1>4. \A k \in 1 .. n : k - 1 \in P => k \in P
  BY <1>0, <1>2, OnePlaces DEF n
<1>5. \A k \in 0 .. n : k \in P
  <2> HIDE DEF P
  <2> QED BY <1>0, <1>3, <1>4, Induction
<1> QED BY <1>0, <1>2, <1>5 DEF n

\* Nothing is pending after the last object.
LEMMA PlacedLoads ==
    ASSUME NEW now \in Nat \ {0}, NEW w, NEW t, NEW seq \in Seq(Inventory),
           Placed(w, t, seq, Len(seq), now)
    PROVE  Loaded(w, t, seq, Len(seq), now)
<1>1. \A s : ~Pending(w, s, Len(seq))
  BY DEF Placed, ObjectsOf, Pending
<1>2. Merged(w, seq, Len(seq), 0, now)
  BY <1>1 DEF Placed, Merged
<1> QED BY <1>2 DEF Placed, Loaded

LEMMA LoadedPlaces ==
    ASSUME NEW now \in Nat \ {0}, NEW w, NEW t, NEW seq \in Seq(Inventory),
           Loaded(w, t, seq, Len(seq), now)
    PROVE  Placed(w, t, seq, 0, now)
<1>1. ASSUME NEW s, Pending(w, s, Len(seq)) PROVE Pending(w, s, 0)
  BY <1>1 DEF Pending
<1>2. LedOr(w, 0, now)
  BY <1>1 DEF Loaded, LedOr
<1> QED BY <1>2 DEF Loaded, Placed

\* The tables once the document is routed to the services.
LEMMA RoutedPlaces ==
    ASSUME NEW now \in Nat \ {0}, NEW w, NEW t, NEW seq \in Seq(Inventory),
           Loaded(w, t, seq, Len(seq), now), NEW services \in Seq(Service)
    PROVE  LET v == Routed(w, services, now)
           IN  /\ Loaded(v, t, seq, Len(seq), now)
               /\ services # <<>> => Placed(v, t, seq, Len(seq), now)
<1> DEFINE n == Len(seq)
           m == Len(services)
<1>0. n \in Nat /\ m \in Nat /\ \A k \in 1 .. m : services[k] \in Service
  OBVIOUS
<1>1. w \in Sized(n, now)
  BY DEF Loaded, Consistent, ObjectsOf, Sized
<1>2. PICK h : /\ h[0] = w
               /\ \A k \in 1 .. m : h[k] = RouteAll(h[k - 1], services[k], now)
               /\ Routed(w, services, now) = h[m]
  <2>1. \A v \in Sized(n, now), svc \in Service : RouteAll(v, svc, now) \in Sized(n, now)
    BY <1>0, AllSheets
  <2> HIDE DEF n
  <2> QED BY <1>1, <2>1, RoutedUnrolls
<1> DEFINE P == {k \in 0 .. m : /\ Loaded(h[k], t, seq, Len(seq), now)
                                /\ k # 0 => Placed(h[k], t, seq, Len(seq), now)}
<1> HIDE DEF n, m
<1>3. 0 \in P
  BY <1>0, <1>2
<1>4. ASSUME NEW k \in 1 .. m, k - 1 \in P
      PROVE  k \in P
  <2>1. Placed(h[k - 1], t, seq, 0, now)
    BY <1>4, LoadedPlaces
  <2>2. Placed(h[k], t, seq, Len(seq), now)
    BY <1>0, <1>2, <2>1, AllPlaces
  <2> QED BY <2>2, PlacedLoads
<1>5. \A k \in 1 .. m : k - 1 \in P => k \in P
  BY <1>4
<1>6. \A k \in 0 .. m : k \in P
  <2> HIDE DEF P
  <2> QED BY <1>0, <1>3, <1>5, Induction
<1>7. services # <<>> => m # 0
  BY DEF m
<1> QED BY <1>0, <1>2, <1>6, <1>7

-----------------------------------------------------------------------------
(* The database. *)

Led(t, now) ==
    \A r \in t.routs : \/ Leads(r, t)
                       \/ \E n \in 1 .. now : <<n, r.stream>> \in t.warned

Sound(t, now) ==
    /\ IsTables(t, now)
    /\ Tidy(t) /\ VNetsApart(t.vepochs)
    /\ Led(t, now)

\* Rows of this run are of these nodes.
From(t, nodes, now) ==
    \A x \in t.chans : x.seen = now => \E n \in nodes : x.stream \in StreamsOf(n)

\* What has been told last is stored and no older than it was told.
Stored(t, time) ==
    \A s \in Streams :
        LET told == t.latest[s] IN
        told.run > 0 /\ told.run >= time /\ <<told.run, s>> \notin t.warned =>
            \A e \in told.epochs : \E x \in t.chans :
                /\ x.stream = s /\ x.seen >= told.run
                /\ [start |-> x.start, end |-> x.end, rs |-> x.rs] = e

LEMMA EmptySound ==
    /\ Sound(Empty, 0) /\ Stored(Empty, 0) /\ From(Empty, {}, 0)
<1> DEFINE t == Empty
<1>1. /\ t.chans = {} /\ t.routs = {} /\ t.vepochs = {} /\ t.warned = {}
      /\ t.endpoints = {}
      /\ t.latest = [s \in Streams |-> [run |-> 0, epochs |-> {}]]
      /\ t = [chans |-> t.chans, routs |-> t.routs, bases |-> t.bases,
              endpoints |-> t.endpoints, vnets |-> t.vnets, vepochs |-> t.vepochs,
              warned |-> t.warned, latest |-> t.latest]
  BY DEF Empty
<1> HIDE DEF t
<1>2. t.latest \in [Streams -> [run : 0 .. 0, epochs : SUBSET Epoch]]
  BY <1>1
<1>3. IsTables(t, 0)
  BY <1>1, <1>2 DEF IsTables, Bounded
<1>4. Tidy(t) /\ VNetsApart(t.vepochs) /\ Led(t, 0) /\ From(t, {}, 0)
  BY <1>1 DEF Tidy, IdsUnique, ChannelsApart, RoutingsApart, VNetsApart, Led, From
<1>5. Stored(t, 0)
  BY <1>1 DEF Stored
<1> QED BY <1>3, <1>4, <1>5 DEF Sound, t

LEMMA SoundLater ==
    ASSUME NEW now \in Nat, NEW t, Sound(t, now)
    PROVE  Sound(t, now + 1) /\ From(t, {}, now + 1)
<1>1. 0 .. now \subseteq 0 .. now + 1 /\ 1 .. now \subseteq 1 .. now + 1
  OBVIOUS
<1>2. IsTables(t, now)
  BY DEF Sound
<1>3. t.chans \in SUBSET ChannelEpoch(now + 1)
  BY <1>1, <1>2 DEF IsTables, ChannelEpoch
<1>4. t.routs \in SUBSET Routing(now + 1)
  BY <1>1, <1>2 DEF IsTables, Routing
<1>5. t.vepochs \in SUBSET VNetEpoch(now + 1)
  BY <1>1, <1>2 DEF IsTables, VNetEpoch
<1>6. t.warned \in SUBSET ((1 .. now + 1) \X Streams)
  BY <1>1, <1>2 DEF IsTables
<1>7. t.latest \in [Streams -> [run : 0 .. now + 1, epochs : SUBSET Epoch]]
  BY <1>1, <1>2 DEF IsTables
<1>8. IsTables(t, now + 1)
  BY <1>2, <1>3, <1>4, <1>5, <1>6, <1>7 DEF IsTables
<1>9. Led(t, now + 1)
  BY <1>1 DEF Sound, Led
<1>10. \A x \in t.chans : x.seen # now + 1
  BY <1>2 DEF IsTables, ChannelEpoch
<1> QED BY <1>8, <1>9, <1>10 DEF Sound, From

LatestTold(t, seq, now) ==
    [s \in Streams |-> IF Told(seq, s) # {}
                         THEN [run |-> now, epochs |-> Told(seq, s)] ELSE t.latest[s]]

\* A document with the services of its route.
LEMMA DocumentHarvested ==
    ASSUME NEW now \in Nat \ {0}, NEW t, Sound(t, now), NEW doc \in Document,
           NEW services \in Seq(Service)
    PROVE  LET v == Harvested(t, doc, services, now)
               seq == Channels(doc)
               done == Routed(Read(t, seq, now), services, now)
           IN  /\ Sound(v, now)
               /\ OthersKept(v, t, seq, Len(seq))
               /\ v.chans = done.chans /\ v.warned = done.warned
               /\ v.latest = LatestTold(t, seq, now)
               /\ services # <<>> => Placed(done, t, seq, Len(seq), now)
<1> DEFINE seq == Channels(doc)
           n == Len(seq)
           done == Routed(Read(t, seq, now), services, now)
           v == Harvested(t, doc, services, now)
           latest == LatestTold(t, seq, now)
           bases == Bases(t, doc, now)
<1>1. seq \in Seq(Inventory)
  BY ChannelsType
<1>2. IsTables(t, now) /\ Tidy(t) /\ VNetsApart(t.vepochs) /\ Led(t, now)
  BY DEF Sound
<1>3. v = [t EXCEPT !.chans = done.chans, !.routs = done.routs,
                    !.endpoints = done.endpoints, !.warned = done.warned,
                    !.bases = bases, !.latest = latest]
  BY DEF Harvested, LatestTold
<1> HIDE DEF seq, done, latest, v, bases
<1>4. v = [chans |-> done.chans, routs |-> done.routs, bases |-> bases,
           endpoints |-> done.endpoints, vnets |-> t.vnets, vepochs |-> t.vepochs,
           warned |-> done.warned, latest |-> latest]
  BY <1>2, <1>3 DEF IsTables
<1>5. Loaded(Read(t, seq, now), t, seq, n, now)
  <2> DEFINE w == Opened(t)
  <2>1. /\ w.chans = t.chans /\ w.routs = t.routs /\ w.warned = t.warned
        /\ w.endpoints = t.endpoints /\ w.objs = <<>>
        /\ w = [chans |-> w.chans, routs |-> w.routs, objs |-> w.objs,
                endpoints |-> w.endpoints, warned |-> w.warned]
    BY DEF Opened
  <2> HIDE DEF w
  <2>2. w.objs \in Seq(Object)
    BY <2>1
  <2>3. w \in Sheets(now)
    BY <1>2, <2>1, <2>2 DEF IsTables, Sheets
  <2>4. LedOr(w, n, now)
    BY <1>2, <2>1 DEF Led, LedOr, Leads
  <2> QED BY <1>1, <1>2, <2>3, <2>4, ReadLoads DEF w
<1>6. Loaded(done, t, seq, n, now) /\ (services # <<>> => Placed(done, t, seq, n, now))
  BY <1>1, <1>5, RoutedPlaces DEF done
<1>7. /\ done \in Sheets(now) /\ Tidy(done) /\ OthersKept(done, t, seq, n)
      /\ LedOr(done, n, now) /\ Len(done.objs) = n
  BY <1>6 DEF Loaded, Consistent, ObjectsOf
<1>8. /\ v.chans = done.chans /\ v.routs = done.routs /\ v.warned = done.warned
      /\ v.endpoints = done.endpoints /\ v.vepochs = t.vepochs /\ v.latest = latest
      /\ v = [chans |-> v.chans, routs |-> v.routs, bases |-> v.bases,
              endpoints |-> v.endpoints, vnets |-> v.vnets, vepochs |-> v.vepochs,
              warned |-> v.warned, latest |-> v.latest]
  BY <1>4
<1>9. latest \in [Streams -> [run : 0 .. now, epochs : SUBSET Epoch]]
  <2>1. ASSUME NEW s \in Streams
        PROVE  Told(seq, s) \in SUBSET Epoch
    <3>1. \A c \in ToSet(seq) : c \in Inventory
      BY <1>1 DEF ToSet
    <3>2. \A c \in Inventory : [start |-> c.start, end |-> c.end, rs |-> c.rs] \in Epoch
      BY DEF Inventory, Epoch
    <3> QED BY <3>1, <3>2 DEF Told
  <2>2. t.latest \in [Streams -> [run : 0 .. now, epochs : SUBSET Epoch]]
    BY <1>2 DEF IsTables
  <2>3. ASSUME NEW s \in Streams
        PROVE  latest[s] \in [run : 0 .. now, epochs : SUBSET Epoch]
    <3>1. CASE Told(seq, s) # {}
      <4>1. latest[s] = [run |-> now, epochs |-> Told(seq, s)]
        BY <3>1 DEF latest, LatestTold
      <4>2. now \in 0 .. now
        OBVIOUS
      <4> QED BY <2>1, <4>1, <4>2
    <3>2. CASE Told(seq, s) = {}
      BY <2>2, <3>2 DEF latest, LatestTold
    <3> QED BY <3>1, <3>2
  <2>4. latest = [s \in Streams |-> latest[s]]
    BY DEF latest, LatestTold
  <2> QED BY <2>3, <2>4
<1>10. IsTables(v, now)
  BY <1>2, <1>7, <1>8, <1>9 DEF IsTables, Sheets
<1>11. Tidy(v) /\ VNetsApart(v.vepochs) /\ OthersKept(v, t, seq, n)
  BY <1>2, <1>7, <1>8 DEF Tidy, OthersKept
<1>12. Led(v, now)
  <2>1. \A s : ~Pending(done, s, n)
    BY <1>7 DEF Pending
  <2> QED BY <1>7, <1>8, <2>1 DEF Led, LedOr, Leads
<1>13. Sound(v, now)
  BY <1>10, <1>11, <1>12 DEF Sound
<1> QED BY <1>6, <1>8, <1>11, <1>13 DEF v, seq, done, latest

LEMMA HarvestedStored ==
    ASSUME NEW now \in Nat \ {0}, NEW t, Sound(t, now), NEW doc \in Document,
           NEW services \in Seq(Service) \ {<<>>}, NEW time, Stored(t, time)
    PROVE  Stored(Harvested(t, doc, services, now), time)
<1> DEFINE seq == Channels(doc)
           n == Len(seq)
           done == Routed(Read(t, seq, now), services, now)
           v == Harvested(t, doc, services, now)
<1>1. seq \in Seq(Inventory) /\ DOMAIN seq = 1 .. n
  BY ChannelsType
<1>2. /\ OthersKept(v, t, seq, n)
      /\ v.chans = done.chans /\ v.warned = done.warned
      /\ v.latest = LatestTold(t, seq, now)
      /\ services # <<>> => Placed(done, t, seq, n, now)
  <2>1. services \in Seq(Service)
    OBVIOUS
  <2> QED BY <2>1, DocumentHarvested
<1> HIDE DEF seq, n, done, v
<1>3. Placed(done, t, seq, n, now)
  BY <1>2
<1>4. SUFFICES ASSUME NEW s \in Streams, v.latest[s].run > 0, v.latest[s].run >= time,
                      <<v.latest[s].run, s>> \notin v.warned,
                      NEW e \in v.latest[s].epochs
               PROVE  \E x \in v.chans :
                         /\ x.stream = s /\ x.seen >= v.latest[s].run
                         /\ [start |-> x.start, end |-> x.end, rs |-> x.rs] = e
  BY DEF Stored, v
<1>5. CASE Told(seq, s) # {}
  <2>1. v.latest[s].run = now /\ v.latest[s].epochs = Told(seq, s)
    BY <1>2, <1>5 DEF LatestTold
  <2>2. PICK j \in 1 .. n : /\ seq[j].stream = s
                            /\ e = [start |-> seq[j].start, end |-> seq[j].end,
                                    rs |-> seq[j].rs]
    <3>1. PICK c \in ToSet(seq) : /\ c.stream = s
                                  /\ e = [start |-> c.start, end |-> c.end, rs |-> c.rs]
      BY <1>4, <2>1 DEF Told
    <3>2. PICK j \in 1 .. n : seq[j] = c
      BY <1>1, <3>1 DEF ToSet
    <3> QED BY <3>1, <3>2
  <2>3. ~Pending(done, s, n)
    BY <1>3 DEF Placed, ObjectsOf, Pending, n
  <2>4. InRows(done, seq[j], now)
    BY <1>2, <1>4, <1>3, <2>1, <2>2, <2>3 DEF Placed, Merged, n
  <2> DEFINE c == seq[j]
  <2>5. PICK x \in done.chans : /\ x.stream = c.stream /\ x.start = c.start
                                /\ x.end = c.end /\ x.rs = c.rs /\ x.seen = now
    <3> HIDE DEF c
    <3> QED BY <2>4 DEF InRows, c
  <2> QED BY <1>2, <2>1, <2>2, <2>5
<1>6. CASE Told(seq, s) = {}
  <2>1. v.latest[s] = t.latest[s]
    BY <1>2, <1>6 DEF LatestTold
  <2>2. \A j \in 1 .. n : seq[j].stream # s
    <3>1. \A j \in 1 .. n : seq[j] \in ToSet(seq)
      BY <1>1 DEF ToSet
    <3> QED BY <1>6, <3>1 DEF Told
  <2>3. <<t.latest[s].run, s>> \notin t.warned
    BY <1>2, <1>4, <2>1 DEF OthersKept
  <2>4. PICK x \in t.chans : /\ x.stream = s /\ x.seen >= t.latest[s].run
                             /\ [start |-> x.start, end |-> x.end, rs |-> x.rs] = e
    BY <1>4, <2>1, <2>3 DEF Stored
  <2>5. x \in v.chans
    BY <1>2, <2>2, <2>4 DEF OthersKept
  <2> QED BY <2>1, <2>4, <2>5
<1> QED BY <1>5, <1>6

\* Virtual networks touch tables of their own.
Grouped(t, now) ==
    {u \in [chans : {t.chans}, routs : {t.routs}, bases : {t.bases},
            endpoints : {t.endpoints}, vnets : SUBSET (t.vnets \cup STRING),
            vepochs : SUBSET VNetEpoch(now),
            warned : {t.warned}, latest : {t.latest}] : VNetsApart(u.vepochs)}

LEMMA VNetEmerged ==
    ASSUME NEW now \in Nat \ {0}, NEW t, Sound(t, now), NEW u \in Grouped(t, now),
           NEW v \in VNet
    PROVE  EmergeVNet(u, v, now) \in Grouped(t, now)
<1> DEFINE matched == {c.stream : c \in {d \in u.chans :
                          /\ d.stream \in v.streams
                          /\ d.end > v.start /\ d.start < v.end}}
           new == {[vnet |-> v.vnet, stream |-> s, start |-> v.start,
                    end |-> v.end, seen |-> now] : s \in matched}
           rivals == {x \in u.vepochs : x.vnet = v.vnet /\ x.stream \in matched}
           rows == Emerge(u.vepochs, rivals, v, new)
           vnets == u.vnets \cup {v.vnet}
<1>1. /\ u = [chans |-> u.chans, routs |-> u.routs, bases |-> u.bases,
              endpoints |-> u.endpoints, vnets |-> u.vnets, vepochs |-> u.vepochs,
              warned |-> u.warned, latest |-> u.latest]
      /\ u.chans = t.chans /\ u.routs = t.routs /\ u.bases = t.bases
      /\ u.endpoints = t.endpoints /\ u.warned = t.warned /\ u.latest = t.latest
      /\ u.vnets \in SUBSET (t.vnets \cup STRING)
      /\ u.vepochs \in SUBSET VNetEpoch(now) /\ VNetsApart(u.vepochs)
  BY DEF Grouped
<1>2. EmergeVNet(u, v, now) = [u EXCEPT !.vnets = vnets, !.vepochs = rows]
  BY DEF EmergeVNet
<1>3. matched \in SUBSET Streams
  <2>1. u.chans \in SUBSET ChannelEpoch(now)
    BY <1>1 DEF Sound, IsTables
  <2> QED BY <2>1 DEF ChannelEpoch
<1> HIDE DEF matched
<1>4. /\ v.vnet \in STRING /\ v.start \in Starts /\ v.end \in Ends
      /\ v.start \in Nat /\ v.end \in Nat
  BY ConstantsAssumption DEF VNet, Starts, Ends
<1>5. /\ new \in SUBSET VNetEpoch(now)
      /\ \A x \in new : /\ x.vnet = v.vnet /\ x.stream \in matched
                        /\ x.start = v.start /\ x.end = v.end
      /\ \A x, y \in new : x.stream = y.stream => x = y
  <2>1. now \in 0 .. now
    OBVIOUS
  <2> QED BY <1>3, <1>4, <2>1 DEF VNetEpoch
<1> HIDE DEF new
<1>6. rows = (u.vepochs \ {x \in u.vepochs :
                 /\ x.vnet = v.vnet /\ x.stream \in matched
                 /\ \/ Overlaps(x, v.start, v.end)
                    \/ <<x.start, x.end>> = <<v.start, v.end>>}) \cup new
  BY DEF Emerge
<1> HIDE DEF rows, rivals
<1>7. rows \in SUBSET VNetEpoch(now)
  BY <1>1, <1>5, <1>6
<1>8. VNetsApart(rows)
  <2>1. SUFFICES ASSUME NEW x \in rows, NEW y \in rows, x # y,
                        x.vnet = y.vnet, x.stream = y.stream
                 PROVE  Apart(x, y)
    BY DEF VNetsApart
  <2>2. \A r \in rows : r.start \in Nat /\ r.end \in Nat
    BY <1>7, ConstantsAssumption DEF VNetEpoch, Starts, Ends
  <2>3. ASSUME NEW o \in rows, o \notin new, NEW e \in new,
               o.vnet = e.vnet, o.stream = e.stream
        PROVE  Apart(o, e) /\ Apart(e, o)
    <3>1. /\ e \in rows /\ e.start = v.start /\ e.end = v.end
          /\ e.vnet = v.vnet /\ e.stream \in matched
      BY <1>5, <1>6
    <3>2. ~Overlaps(o, e.start, e.end) /\ <<o.start, o.end>> # <<e.start, e.end>>
      BY <1>6, <2>3, <3>1
    <3> QED BY <2>2, <3>1, <3>2, OverlapsMeansApart
  <2>4. CASE x \notin new /\ y \notin new
    <3>1. x \in u.vepochs /\ y \in u.vepochs
      BY <1>6, <2>4
    <3> QED BY <1>1, <2>1, <3>1 DEF VNetsApart
  <2> QED BY <1>5, <2>1, <2>3, <2>4
<1>9. vnets \in SUBSET (t.vnets \cup STRING)
  BY <1>1, <1>4
<1> HIDE DEF vnets
<1> DEFINE e == EmergeVNet(u, v, now)
<1> HIDE DEF e
<1>10. e = [chans |-> u.chans, routs |-> u.routs, bases |-> u.bases,
            endpoints |-> u.endpoints, vnets |-> vnets, vepochs |-> rows,
            warned |-> u.warned, latest |-> u.latest]
  BY <1>1, <1>2 DEF e
<1> QED BY <1>1, <1>7, <1>8, <1>9, <1>10 DEF Grouped, e

LEMMA VNetsHarvested ==
    ASSUME NEW now \in Nat \ {0}, NEW t, Sound(t, now), NEW vnets \in Seq(VNet)
    PROVE  LET u == VNetHarvested(t, vnets, now)
           IN  /\ Sound(u, now) /\ u.chans = t.chans
               /\ u.warned = t.warned /\ u.latest = t.latest
<1> DEFINE u == VNetHarvested(t, vnets, now)
           n == Len(vnets)
           T == Grouped(t, now)
<1>1. IsTables(t, now) /\ Tidy(t) /\ VNetsApart(t.vepochs) /\ Led(t, now)
  BY DEF Sound
<1>2. t \in T
  BY <1>1 DEF IsTables, Grouped
<1>3. \A w \in T, c \in VNet : EmergeVNet(w, c, now) \in T
  BY VNetEmerged
<1>4. n \in Nat /\ \A k \in 1 .. n : vnets[k] \in VNet
  OBVIOUS
<1> HIDE DEF T
<1>5. PICK h : /\ h[0] = t
               /\ \A k \in 1 .. n : h[k] = EmergeVNet(h[k - 1], vnets[k], now)
               /\ u = h[n]
  BY <1>2, <1>3, VNetsUnroll
<1> HIDE DEF n, u
<1> DEFINE P == {k \in 0 .. n : h[k] \in T}
<1>6. 0 \in P
  BY <1>2, <1>4, <1>5
<1>7. \A k \in 1 .. n : k - 1 \in P => k \in P
  BY <1>3, <1>4, <1>5
<1>8. \A k \in 0 .. n : k \in P
  <2> HIDE DEF P
  <2> QED BY <1>4, <1>6, <1>7, Induction
<1>9. u \in T
  BY <1>4, <1>5, <1>8
<1>10. /\ u.chans = t.chans /\ u.routs = t.routs /\ u.endpoints = t.endpoints
       /\ u.warned = t.warned /\ u.latest = t.latest
       /\ u.vepochs \in SUBSET VNetEpoch(now) /\ VNetsApart(u.vepochs)
       /\ u = [chans |-> u.chans, routs |-> u.routs, bases |-> u.bases,
               endpoints |-> u.endpoints, vnets |-> u.vnets, vepochs |-> u.vepochs,
               warned |-> u.warned, latest |-> u.latest]
  BY <1>9 DEF T, Grouped
<1>11. IsTables(u, now)
  BY <1>1, <1>10 DEF IsTables
<1>12. Tidy(u) /\ Led(u, now)
  BY <1>1, <1>10 DEF Tidy, Led, Leads
<1> QED BY <1>10, <1>11, <1>12 DEF Sound, u

\* A routing is no younger than the epoch it leads to, so a truncation never
\* takes the epoch alone.
LEMMA Cleaned ==
    ASSUME NEW now \in Nat, NEW t, Sound(t, now), NEW time \in Int
    PROVE  LET u == Clean(t, time)
           IN  /\ Sound(u, now)
               /\ u.chans = {x \in t.chans : x.seen >= time}
               /\ u.warned = t.warned /\ u.latest = t.latest
<1> DEFINE u == Clean(t, time)
           chans == Fresh(t.chans, time)
           routs == Fresh(t.routs, time)
           bases == Fresh(t.bases, time)
           vepochs == Fresh(t.vepochs, time)
           vnets == {x.vnet : x \in vepochs}
<1>1. IsTables(t, now) /\ Tidy(t) /\ VNetsApart(t.vepochs) /\ Led(t, now)
  BY DEF Sound
<1>2. u = [t EXCEPT !.chans = chans, !.routs = routs, !.bases = bases,
                    !.vepochs = vepochs, !.vnets = vnets]
  BY DEF Clean
<1>3. /\ chans = {x \in t.chans : x.seen >= time}
      /\ routs = {x \in t.routs : x.seen >= time}
      /\ vepochs = {x \in t.vepochs : x.seen >= time}
  BY DEF Fresh
<1> HIDE DEF u, chans, routs, bases, vepochs, vnets
<1>4. u = [chans |-> chans, routs |-> routs, bases |-> bases,
           endpoints |-> t.endpoints, vnets |-> vnets, vepochs |-> vepochs,
           warned |-> t.warned, latest |-> t.latest]
  BY <1>1, <1>2 DEF IsTables
<1>5. /\ u.chans = chans /\ u.routs = routs /\ u.vepochs = vepochs
      /\ u.endpoints = t.endpoints /\ u.warned = t.warned /\ u.latest = t.latest
      /\ u = [chans |-> u.chans, routs |-> u.routs, bases |-> u.bases,
              endpoints |-> u.endpoints, vnets |-> u.vnets, vepochs |-> u.vepochs,
              warned |-> u.warned, latest |-> u.latest]
  BY <1>4
<1>6. IsTables(u, now)
  <2>1. Bounded(chans)
    BY <1>1, <1>3 DEF IsTables, Bounded
  <2> QED BY <1>1, <1>3, <1>5, <2>1 DEF IsTables
<1>7. Tidy(u) /\ VNetsApart(u.vepochs)
  BY <1>1, <1>3, <1>5 DEF Tidy, IdsUnique, ChannelsApart, RoutingsApart, VNetsApart
<1>8. Led(u, now)
  <2>1. SUFFICES ASSUME NEW r \in routs, Leads(r, t)
                 PROVE  Leads(r, u)
    BY <1>1, <1>3, <1>5 DEF Led
  <2>2. PICK x \in t.chans : x.id = r.ch /\ x.stream = r.stream /\ r.seen <= x.seen
    BY <2>1 DEF Leads
  <2>3. x.seen \in Int /\ r.seen \in Int /\ r.seen >= time
    BY <1>1, <1>3 DEF IsTables, ChannelEpoch, Routing
  <2>4. x \in u.chans
    BY <1>3, <1>5, <2>2, <2>3
  <2> QED BY <2>2, <2>4 DEF Leads
<1> QED BY <1>3, <1>5, <1>6, <1>7, <1>8 DEF Sound, u

-----------------------------------------------------------------------------
(* Runs. *)

TypeInv ==
    /\ run \in Nat /\ cut \in Int
    /\ phase # "idle" => run > 0
    /\ node \in 1 .. Len(Nodes)
    /\ route \in Nat \ {0}

\* The inductive invariant: what is committed and what is not are both sound,
\* and what is not is of no other node than the run is at; only routes leave
\* something uncommitted.
IInv ==
    /\ TypeInv
    /\ Sound(db, run) /\ From(db, committed, run)
    /\ Sound(work, run) /\ From(work, committed \cup {node}, run)
    /\ phase # "routes" => work = db

LEMMA NodesType ==
    ASSUME NEW n \in 1 .. Len(Nodes)
    PROVE  /\ Nodes[n].vnets \in Seq(VNet)
           /\ \A i \in 1 .. Len(Nodes[n].routes) :
                 /\ Nodes[n].routes[i].docs \in SUBSET Document
                 /\ Nodes[n].routes[i].services \in SUBSET Seq(Service)
<1>1. Nodes[n] \in Node
  BY ConstantsAssumption
<1>2. Nodes[n].vnets \in Seq(VNet) /\ Nodes[n].routes \in Seq(Route)
  BY <1>1 DEF Node
<1>3. \A i \in 1 .. Len(Nodes[n].routes) : Nodes[n].routes[i] \in Route
  BY <1>2
<1> QED BY <1>2, <1>3 DEF Route

LEMMA DocumentOfNode ==
    ASSUME NEW n \in 1 .. Len(Nodes), NEW i \in 1 .. Len(Nodes[n].routes),
           NEW doc \in Nodes[n].routes[i].docs
    PROVE  \A j \in 1 .. Len(Channels(doc)) : Channels(doc)[j].stream \in StreamsOf(n)
<1>1. doc \in Document /\ Nodes[n] \in Node
  BY NodesType, ConstantsAssumption
<1>2. Channels(doc) \in Seq(Inventory)
  BY <1>1, ChannelsType
<1> DEFINE seq == Channels(doc)
<1>3. \A j \in 1 .. Len(seq) : seq[j] \in ToSet(seq)
  BY <1>2 DEF ToSet
<1>4. Nodes[n].routes[i] \in ToSet(Nodes[n].routes)
  BY <1>1 DEF ToSet, Node
<1> HIDE DEF seq
<1>5. \A c \in ToSet(seq) : c.stream \in StreamsOf(n)
  <2>1. UNION {{c.stream : c \in ToSet(Channels(d))} : d \in Nodes[n].routes[i].docs}
           \subseteq StreamsOf(n)
    BY <1>4 DEF StreamsOf
  <2>2. {c.stream : c \in ToSet(seq)} \subseteq
           UNION {{c.stream : c \in ToSet(Channels(d))} : d \in Nodes[n].routes[i].docs}
    BY DEF seq
  <2>3. {c.stream : c \in ToSet(seq)} \subseteq StreamsOf(n)
    BY <2>1, <2>2
  <2> QED BY <2>3
<1> QED BY <1>3, <1>5 DEF seq

LEMMA NextNodeType ==
    ASSUME TypeInv, phase # "idle", NextNode, UNCHANGED <<run, cut>>
    PROVE  TypeInv'
<1>1. Len(Nodes) \in Nat \ {0}
  BY ConstantsAssumption
<1>2. node' \in 1 .. Len(Nodes) /\ route' \in Nat \ {0}
  BY <1>1 DEF TypeInv, NextNode, Proceed
<1> QED BY <1>2 DEF TypeInv

LEMMA FromMore ==
    ASSUME NEW t, NEW A, NEW B, A \subseteq B, NEW now, From(t, A, now)
    PROVE  From(t, B, now)
BY DEF From

LEMMA MaxOfTwo ==
    ASSUME NEW a \in Int, NEW b \in Int
    PROVE  Max({a, b}) \in Int /\ Max({a, b}) >= a /\ Max({a, b}) >= b
<1> DEFINE S == {a, b}
<1>1. \E x \in S : \A y \in S : x >= y
  <2>1. CASE a >= b
    BY <2>1
  <2>2. CASE b >= a
    BY <2>2
  <2> QED BY <2>1, <2>2
<1>2. Max(S) \in S /\ \A y \in S : Max(S) >= y
  <2> HIDE DEF S
  <2> QED BY <1>1 DEF Max
<1> QED BY <1>2

LEMMA InitIInv == Init => IInv
<1> SUFFICES ASSUME Init PROVE IInv
  OBVIOUS
<1>1. TypeInv
  BY ConstantsAssumption DEF Init, TypeInv
<1>2. From(work, committed \cup {node}, 0)
  BY EmptySound, FromMore DEF Init
<1> QED BY <1>1, <1>2, EmptySound DEF Init, IInv

LEMMA NextIInv == IInv /\ [Next]_vars => IInv'
<1> SUFFICES ASSUME IInv, [Next]_vars PROVE IInv'
  OBVIOUS
<1> USE DEF IInv
<1>1. CASE BeginRun
  <2>1. TypeInv'
    <3>1. 1 \in 1 .. Len(Nodes)
      BY ConstantsAssumption
    <3> QED BY <1>1, <3>1 DEF BeginRun, TypeInv
  <2>2. run \in Nat /\ run' = run + 1 /\ db' = db /\ work' = db
    BY <1>1 DEF BeginRun, TypeInv
  <2>3. Sound(db, run') /\ From(db, {}, run')
    BY <2>2, SoundLater
  <2>4. From(db, committed', run') /\ From(db, committed' \cup {node'}, run')
    BY <2>3, FromMore
  <2> QED BY <2>1, <2>2, <2>3, <2>4
<1>2. CASE HarvestRoute
  <2> DEFINE here == Nodes[node].routes[route]
  <2>1. PICK doc \in here.docs, services \in here.services :
           work' = Harvested(work, doc, services, run)
    BY <1>2 DEF HarvestRoute, Config
  <2>2. /\ node \in 1 .. Len(Nodes) /\ route \in 1 .. Len(Nodes[node].routes)
        /\ run \in Nat \ {0}
    <3>1. /\ node \in 1 .. Len(Nodes) /\ route \in Nat \ {0} /\ run \in Nat \ {0}
          /\ route <= Len(Nodes[node].routes)
      BY <1>2 DEF HarvestRoute, InRoutes, Config, TypeInv
    <3>2. Len(Nodes[node].routes) \in Nat
      BY <3>1, ConstantsAssumption DEF Node
    <3> QED BY <3>1, <3>2
  <2>3. doc \in Document /\ services \in Seq(Service)
    BY <2>2, NodesType
  <2>4. /\ Sound(work', run)
        /\ OthersKept(work', work, Channels(doc), Len(Channels(doc)))
    BY <2>1, <2>2, <2>3, DocumentHarvested
  <2>5. \A j \in 1 .. Len(Channels(doc)) : Channels(doc)[j].stream \in StreamsOf(node)
    BY <2>2, DocumentOfNode
  <2>6. From(work', committed \cup {node}, run)
    BY <2>4, <2>5 DEF From, OthersKept
  <2>7. /\ UNCHANGED <<db, node, run, cut, committed, phase>> /\ route' = route + 1
        /\ phase = "routes"
    BY <1>2 DEF HarvestRoute, InRoutes
  <2>8. TypeInv'
    BY <2>7 DEF TypeInv
  <2> QED BY <2>4, <2>6, <2>7, <2>8
<1>3. CASE SkipRoute
  BY <1>3 DEF SkipRoute, TypeInv
<1>4. CASE NodeFails
  <2>1. TypeInv'
    BY <1>4, NextNodeType DEF NodeFails, InRoutes
  <2>2. UNCHANGED <<db, run, committed>> /\ work' = db
    BY <1>4 DEF NodeFails
  <2>3. From(db, committed \cup {node'}, run)
    BY FromMore
  <2> QED BY <2>1, <2>2, <2>3
<1>5. CASE CommitNode
  <2>1. TypeInv'
    BY <1>5, NextNodeType DEF CommitNode
  <2>2. UNCHANGED <<work, run>> /\ db' = work /\ committed' = committed \cup {node}
    BY <1>5 DEF CommitNode
  <2>3. From(work, committed' \cup {node'}, run)
    BY <2>2, FromMore
  <2> QED BY <2>1, <2>2, <2>3
<1>6. CASE HarvestVNets
  <2>1. TypeInv' /\ run \in Nat \ {0} /\ node \in 1 .. Len(Nodes)
    BY <1>6, NextNodeType DEF HarvestVNets, TypeInv
  <2>2. /\ UNCHANGED <<run, committed>> /\ work' = db'
        /\ db' = VNetHarvested(db, Nodes[node].vnets, run)
    BY <1>6 DEF HarvestVNets, Config
  <2>3. Sound(db', run) /\ db'.chans = db.chans
    BY <2>1, <2>2, NodesType, VNetsHarvested
  <2>4. From(db', committed, run)
    BY <2>3 DEF From
  <2>5. From(db', committed \cup {node'}, run)
    BY <2>4, FromMore
  <2> QED BY <2>1, <2>2, <2>3, <2>4, <2>5
<1>7. CASE VNetsFail
  <2>1. TypeInv'
    BY <1>7, NextNodeType DEF VNetsFail
  <2>2. UNCHANGED <<db, work, run, committed>> /\ work = db
    BY <1>7 DEF VNetsFail
  <2>3. From(db, committed \cup {node'}, run)
    BY FromMore
  <2> QED BY <2>1, <2>2, <2>3
<1>8. CASE Truncate
  <2>1. PICK back \in Truncations : /\ db' = Clean(db, run - back)
                                    /\ cut' = Max({cut, run - back})
    BY <1>8 DEF Truncate
  <2>2. UNCHANGED <<run, committed>> /\ work' = db'
    BY <1>8 DEF Truncate
  <2>3. run - back \in Int /\ run \in Nat
    BY ConstantsAssumption DEF TypeInv
  <2>4. Sound(db', run) /\ db'.chans \subseteq db.chans
    BY <2>1, <2>3, Cleaned
  <2>5. From(db', committed, run)
    BY <2>4 DEF From
  <2>6. From(db', committed \cup {node'}, run)
    BY <2>5, FromMore
  <2>7. TypeInv'
    <3>1. cut' \in Int
      BY <2>1, <2>3, MaxOfTwo DEF TypeInv
    <3>2. 1 \in 1 .. Len(Nodes)
      BY ConstantsAssumption
    <3> QED BY <1>8, <2>2, <3>1, <3>2 DEF Truncate, Proceed, TypeInv
  <2> QED BY <2>2, <2>4, <2>5, <2>6, <2>7
<1>9. CASE Abort
  <2>1. UNCHANGED <<db, run, committed>> /\ work' = db
    BY <1>9 DEF Abort
  <2>2. TypeInv'
    <3>1. 1 \in 1 .. Len(Nodes)
      BY ConstantsAssumption
    <3> QED BY <1>9, <3>1 DEF Abort, TypeInv
  <2>3. From(db, committed \cup {node'}, run)
    BY FromMore
  <2> QED BY <2>1, <2>2, <2>3
<1>10. CASE UNCHANGED vars
  BY <1>10 DEF vars, TypeInv
<1> QED BY <1>1, <1>2, <1>3, <1>4, <1>5, <1>6, <1>7, <1>8, <1>9, <1>10 DEF Next

THEOREM Invariance == Spec => []IInv
<1>1. Init => IInv
  BY InitIInv
<1>2. IInv /\ [Next]_vars => IInv'
  BY NextIInv
<1> QED BY <1>1, <1>2, PTL DEF Spec

\* A node is harvested as a whole or not at all: what a run has stored is of
\* nodes whose transaction it has committed, whatever fails and even if the
\* process is killed.
THEOREM NodesAtomic == Spec => []NodesAreAtomic
<1>1. IInv => NodesAreAtomic
  BY DEF IInv, From, NodesAreAtomic
<1> QED BY <1>1, Invariance, PTL

\* Overlapping epochs about the same thing begin together and no epoch is
\* stored twice, in the channel epochs, the routings and the virtual epochs.
THEOREM OverlapsBeginTogether == Spec => []OverlapsShareStart
<1>1. IInv => OverlapsShareStart
  <2>1. SUFFICES ASSUME IInv, NEW p \in Rivals(db), Overlap(p[1], p[2])
                 PROVE  p[1].start = p[2].start /\ p[1].end # p[2].end
    BY DEF OverlapsShareStart
  <2>2. Apart(p[1], p[2])
    BY <2>1 DEF IInv, Sound, Tidy, Rivals, Pairs, ChannelsApart, RoutingsApart, VNetsApart
  <2> QED BY <2>1, <2>2 DEF Apart
<1> QED BY <1>1, Invariance, PTL

\* A routing leads to an epoch of the stream it was harvested for, although the
\* ids of deleted epochs are given out again, unless there has been an
\* inventory error for the stream.
THEOREM RoutingsLeadHome == Spec => []RoutedAsHarvested
<1>1. IInv => RoutedAsHarvested
  BY DEF IInv, Sound, Led, Leads, RoutedAsHarvested
<1> QED BY <1>1, Invariance, PTL

\* --services names the station service, which every route that is harvested
\* has, so no such route is without services.
SomeService ==
    \A n \in 1 .. Len(Nodes) : \A i \in 1 .. Len(Nodes[n].routes) :
        <<>> \notin Nodes[n].routes[i].services

StoredInv == Stored(db, cut) /\ Stored(work, cut)

LEMMA NextStored ==
    ASSUME SomeService, IInv, StoredInv, [Next]_vars
    PROVE  StoredInv'
<1> USE DEF StoredInv
<1>1. CASE BeginRun
  BY <1>1 DEF BeginRun
<1>2. CASE HarvestRoute
  <2> DEFINE here == Nodes[node].routes[route]
  <2>1. PICK doc \in here.docs, services \in here.services :
           work' = Harvested(work, doc, services, run)
    BY <1>2 DEF HarvestRoute, Config
  <2>2. /\ node \in 1 .. Len(Nodes) /\ route \in 1 .. Len(Nodes[node].routes)
        /\ run \in Nat \ {0}
    <3>1. /\ node \in 1 .. Len(Nodes) /\ route \in Nat \ {0} /\ run \in Nat \ {0}
          /\ route <= Len(Nodes[node].routes)
      BY <1>2 DEF HarvestRoute, InRoutes, Config, IInv, TypeInv
    <3>2. Len(Nodes[node].routes) \in Nat
      BY <3>1, ConstantsAssumption DEF Node
    <3> QED BY <3>1, <3>2
  <2>3. doc \in Document /\ services \in Seq(Service) \ {<<>>}
    BY <2>2, NodesType DEF SomeService
  <2>4. Stored(work', cut)
    BY <2>1, <2>2, <2>3, HarvestedStored DEF IInv
  <2> QED BY <1>2, <2>4 DEF HarvestRoute
<1>3. CASE SkipRoute
  BY <1>3 DEF SkipRoute
<1>4. CASE NodeFails
  BY <1>4 DEF NodeFails
<1>5. CASE CommitNode
  BY <1>5 DEF CommitNode
<1>6. CASE HarvestVNets
  <2>1. run \in Nat \ {0} /\ node \in 1 .. Len(Nodes)
    BY <1>6 DEF HarvestVNets, IInv, TypeInv
  <2>2. /\ cut' = cut /\ work' = db'
        /\ db' = VNetHarvested(db, Nodes[node].vnets, run)
    BY <1>6 DEF HarvestVNets, Config
  <2>3. db'.chans = db.chans /\ db'.warned = db.warned /\ db'.latest = db.latest
    BY <2>1, <2>2, NodesType, VNetsHarvested DEF IInv
  <2> QED BY <2>2, <2>3 DEF Stored
<1>7. CASE VNetsFail
  BY <1>7 DEF VNetsFail
<1>8. CASE Truncate
  <2>1. PICK back \in Truncations : /\ db' = Clean(db, run - back)
                                    /\ cut' = Max({cut, run - back})
    BY <1>8 DEF Truncate
  <2>2. run - back \in Int /\ run \in Nat /\ cut \in Int
    BY ConstantsAssumption DEF IInv, TypeInv
  <2>3. cut' \in Int /\ cut' >= cut /\ cut' >= run - back
    BY <2>1, <2>2, MaxOfTwo
  <2>4. /\ db'.chans = {x \in db.chans : x.seen >= run - back}
        /\ db'.warned = db.warned /\ db'.latest = db.latest
    <3>1. Sound(db, run)
      BY DEF IInv
    <3> QED BY <2>1, <2>2, <3>1, Cleaned
  <2>5. /\ \A x \in db.chans : x.seen \in Int
        /\ \A s \in Streams : db.latest[s].run \in Int
    BY DEF IInv, Sound, IsTables, ChannelEpoch
  <2>6. Stored(db', cut')
    <3>1. SUFFICES ASSUME NEW s \in Streams, db.latest[s].run > 0,
                          db.latest[s].run >= cut',
                          <<db.latest[s].run, s>> \notin db.warned,
                          NEW e \in db.latest[s].epochs
                   PROVE  \E x \in db'.chans :
                             /\ x.stream = s /\ x.seen >= db.latest[s].run
                             /\ [start |-> x.start, end |-> x.end, rs |-> x.rs] = e
      BY <2>4 DEF Stored
    <3>2. db.latest[s].run >= cut /\ db.latest[s].run >= run - back
      BY <2>2, <2>3, <2>5, <3>1
    <3>3. PICK x \in db.chans : /\ x.stream = s /\ x.seen >= db.latest[s].run
                                /\ [start |-> x.start, end |-> x.end, rs |-> x.rs] = e
      BY <3>1, <3>2 DEF Stored
    <3>4. x.seen >= run - back
      BY <2>2, <2>5, <3>2, <3>3
    <3> QED BY <2>4, <3>3, <3>4
  <2> QED BY <1>8, <2>6 DEF Truncate
<1>9. CASE Abort
  BY <1>9 DEF Abort
<1>10. CASE UNCHANGED vars
  BY <1>10 DEF vars
<1> QED BY <1>1, <1>2, <1>3, <1>4, <1>5, <1>6, <1>7, <1>8, <1>9, <1>10 DEF Next

\* What a node has told last about a stream is in the database until a
\* truncation, unless an inventory error has been logged for the stream.
THEOREM ToldIsKept ==
    ASSUME SomeService
    PROVE  Spec => []ToldIsStored
<1>1. Init => StoredInv
  BY EmptySound DEF Init, StoredInv
<1>2. IInv /\ StoredInv /\ [Next]_vars => StoredInv'
  BY NextStored
<1>3. IInv /\ StoredInv => ToldIsStored
  BY DEF StoredInv, Stored, ToldIsStored
<1> QED BY <1>1, <1>2, <1>3, Invariance, PTL DEF Spec

=============================================================================
