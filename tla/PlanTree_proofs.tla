--------------------------- MODULE PlanTree_proofs ---------------------------
(***************************************************************************)
(* A turn's plan tree, for any number of steps, contents, failures and     *)
(* restarts: what its records, its cache and its content never lose.       *)
(***************************************************************************)
EXTENDS PlanTree, Extrema
-----------------------------------------------------------------------------
(* Joining summaries. *)

\* g[i] is the join of the first i of n sequences over T.
PartialJoins(T, n, q, g) ==
    /\ g \in [0..n -> Seq(T)]
    /\ g[0] = << >> /\ FlattenSeq(q) = g[n]
    /\ \A i \in 1..n : g[i] = g[i-1] \o q[i]

\* Joining n sequences over T goes through n partial joins, each of which is
\* such a sequence.
LEMMA FlattenSteps ==
    ASSUME NEW T, NEW n \in Nat, NEW q \in [1..n -> Seq(T)]
    PROVE  \E g : PartialJoins(T, n, q, g)
<1> DEFINE E(f) == [i \in 1..n |-> IF i = 1 THEN q[i] ELSE f[i-1] \o q[i]]
           flat == CHOOSE f : f = E(f)
<1>1. Len(q) = n
  OBVIOUS
<1>2. CASE n = 0
  <2>1. FlattenSeq(q) = q
    BY <1>1, <1>2 DEF FlattenSeq
  <2>2. q = << >>
    BY <1>2
  <2>3. PICK g : g = [i \in 0..n |-> q]
    OBVIOUS
  <2>4. g \in [0..n -> Seq(T)] /\ g[0] = << >> /\ g[n] = q
    BY <1>2, <2>2, <2>3
  <2>5. PartialJoins(T, n, q, g)
    BY <1>2, <2>1, <2>4 DEF PartialJoins
  <2>6. QED  BY <2>5
<1>3. CASE n > 0
  <2>1. FlattenSeq(q) = flat[n]
    BY <1>1, <1>3 DEF FlattenSeq
  <2>2. \E f : f = E(f)
    <3> DEFINE P(k, g) == g \in [1..k -> Seq(T)] /\ \A i \in 1..k : g[i] = IF i = 1 THEN q[i] ELSE g[i-1] \o q[i]
               Bad == {k \in 1..n : ~ \E g : P(k, g)}
    <3>1. Bad = {}
      <4> SUFFICES ASSUME Bad # {} PROVE FALSE
        OBVIOUS
      <4>1. PICK m \in Bad : \A k \in Bad : m <= k
        <5>1. Bad \in SUBSET Nat
          OBVIOUS
        <5> HIDE DEF Bad
        <5>2. QED  BY <5>1, NatSetHasMin
      <4>2. m \in 1..n
        OBVIOUS
      <4>3. CASE m = 1
        <5>1. P(1, [i \in 1..1 |-> q[1]])
          BY <1>3
        <5>2. QED  BY <4>1, <4>3, <5>1
      <4>4. CASE m # 1
        <5>1. m - 1 \in 1..n /\ m - 1 \notin Bad
          <6>1. m - 1 \in 1..n /\ ~(m <= m - 1)
            BY <4>2, <4>4
          <6> HIDE DEF Bad
          <6>2. QED  BY <4>1, <6>1
        <5>2. PICK g : P(m - 1, g)
          <6> HIDE DEF P
          <6>1. QED  BY <5>1
        <5> DEFINE h == [i \in 1..m |-> IF i < m THEN g[i] ELSE g[m-1] \o q[m]]
        <5>3. \A i \in 1..(m - 1) : g[i] \in Seq(T) /\ h[i] = g[i] /\ i \in 1..m
          BY <4>2, <4>4, <5>1, <5>2, SMTT(20)
        <5>4. h[m] = g[m-1] \o q[m] /\ g[m-1] \in Seq(T) /\ q[m] \in Seq(T) /\ m - 1 \in 1..(m - 1)
          BY <4>2, <4>4, <5>1, <5>2, SMTT(20)
        <5>5. \A i \in 1..m : i \in 1..(m - 1) \/ i = m
          BY <4>2
        <5>6. h[m] \in Seq(T)
          BY <5>4
        <5>7. h \in [1..m -> Seq(T)]
          <6>1. \A i \in 1..m : h[i] \in Seq(T)
            BY <5>3, <5>5, <5>6
          <6>2. QED  BY <6>1
        <5>8. ASSUME NEW i \in 1..m  PROVE h[i] = IF i = 1 THEN q[i] ELSE h[i-1] \o q[i]
          <6> HIDE DEF h
          <6>1. CASE i = m
            BY <4>4, <5>3, <5>4, <6>1
          <6>2. CASE i \in 1..(m - 1)
            <7>1. i # 1 => i - 1 \in 1..(m - 1)
              BY <4>2, <6>2
            <7>2. g[i] = IF i = 1 THEN q[i] ELSE g[i-1] \o q[i]
              BY <5>2, <6>2
            <7>3. QED  BY <5>3, <6>2, <7>1, <7>2
          <6>3. QED  BY <5>5, <6>1, <6>2
        <5>9. P(m, h)
          BY <5>7, <5>8
        <5>10. QED
          <6> HIDE DEF P, h
          <6>1. QED  BY <4>1, <5>9
      <4>5. QED  BY <4>3, <4>4
    <3>2. PICK g : P(n, g)
      <4>1. n \in 1..n
        BY <1>3
      <4> HIDE DEF P
      <4>2. QED  BY <3>1, <4>1
    <3>3. g = E(g)
      BY <3>2
    <3>4. QED  BY <3>3
  <2>3. flat = E(flat)
    <3> HIDE DEF E
    <3>1. QED  BY <2>2
  <2> HIDE DEF flat
  <2> DEFINE Bad == {k \in 1..n : flat[k] \notin Seq(T)}
  <2>4. Bad = {}
    <3> SUFFICES ASSUME Bad # {} PROVE FALSE
      OBVIOUS
    <3>1. PICK m \in Bad : \A k \in Bad : m <= k
      <4>1. Bad \in SUBSET Nat
        OBVIOUS
      <4> HIDE DEF Bad
      <4>2. QED  BY <4>1, NatSetHasMin
    <3>2. m \in 1..n /\ flat[m] = IF m = 1 THEN q[m] ELSE flat[m-1] \o q[m]
      BY <2>3
    <3>3. m # 1 => flat[m-1] \in Seq(T)
      BY <3>1, <3>2
    <3>4. q[m] \in Seq(T)
      BY <3>2
    <3>5. flat[m] \in Seq(T)
      BY <3>2, <3>3, <3>4
    <3>6. QED  BY <3>1, <3>5
  <2>5. \A i \in 1..n : flat[i] \in Seq(T) /\ flat[i] = IF i = 1 THEN q[i] ELSE flat[i-1] \o q[i]
    BY <2>3, <2>4
  <2>6. PICK g : g = [i \in 0..n |-> IF i = 0 THEN << >> ELSE flat[i]]
    OBVIOUS
  <2>7. \A i \in 0..n : g[i] \in Seq(T) /\ (i # 0 => g[i] = flat[i])
    BY <2>5, <2>6
  <2>8. g \in [0..n -> Seq(T)] /\ g[0] = << >> /\ g[n] = flat[n]
    BY <1>3, <2>6, <2>7
  <2>9. ASSUME NEW i \in 1..n  PROVE g[i] = g[i-1] \o q[i]
    <3>1. i \in 0..n /\ i - 1 \in 0..n /\ q[i] \in Seq(T) /\ i # 0 /\ (i - 1 = 0 <=> i = 1)
      OBVIOUS
    <3>2. CASE i = 1
      <4>1. g[i] = q[i] /\ g[i-1] = << >>
        BY <2>5, <2>7, <2>8, <3>1, <3>2
      <4>2. << >> \o q[i] = q[i]
        BY <3>1
      <4>3. QED  BY <4>1, <4>2
    <3>3. CASE i # 1
      <4>1. flat[i] = flat[i-1] \o q[i]
        BY <2>5, <3>3
      <4>2. g[i] = flat[i] /\ g[i-1] = flat[i-1]
        BY <2>7, <3>1, <3>3
      <4>3. QED  BY <4>1, <4>2
    <3>4. QED  BY <3>2, <3>3
  <2>10. PartialJoins(T, n, q, g)
    BY <2>1, <2>8, <2>9 DEF PartialJoins
  <2>11. QED  BY <2>10
<1>4. QED  BY <1>2, <1>3

\* A position behind a and not behind a + b.
LEMMA BehindOffset ==
    ASSUME NEW a \in Nat, NEW b \in Nat, NEW p \in Nat, p <= a + b, ~(p <= a)
    PROVE  p - a \in 1..b /\ p = a + (p - a)
  OBVIOUS

\* c is a with b behind it.
Follows(T, a, b, c) ==
    /\ a \in Seq(T) /\ b \in Seq(T) /\ c \in Seq(T)
    /\ Len(a) \in Nat /\ Len(b) \in Nat /\ Len(c) = Len(a) + Len(b)
    /\ \A j \in 1..Len(a) : c[j] = a[j]
    /\ \A j \in 1..Len(b) : c[Len(a) + j] = b[j]

\* d is where c begins.
Begins(d, c) == Len(d) <= Len(c) /\ \A j \in 1..Len(d) : c[j] = d[j]

\* What begins a begins what follows it.
LEMMA BeginsOn ==
    ASSUME NEW T, NEW a, NEW b, NEW c, Follows(T, a, b, c), NEW d \in Seq(T), Begins(d, a)
    PROVE  Begins(d, c)
<1>1. PICK la \in Nat, lb \in Nat, ld \in Nat :
        la = Len(a) /\ lb = Len(b) /\ ld = Len(d) /\ Len(c) = la + lb /\ ld <= la
  BY DEF Follows, Begins
<1>2. \A j \in 1..ld : j \in 1..la
  BY <1>1
<1>3. \A j \in 1..la : c[j] = a[j]
  BY <1>1 DEF Follows
<1>4. \A j \in 1..ld : c[j] = d[j]
  BY <1>1, <1>2, <1>3 DEF Begins
<1>5. ld <= la + lb
  BY <1>1
<1>6. QED  BY <1>1, <1>4, <1>5 DEF Begins

\* A partial join is the one before it with the next sequence behind it.
LEMMA JoinStep ==
    ASSUME NEW T, NEW n \in Nat, NEW q \in [1..n -> Seq(T)], NEW g, PartialJoins(T, n, q, g),
           NEW i \in 1..n
    PROVE  Follows(T, g[i-1], q[i], g[i])
<1>1. i \in 0..n /\ i - 1 \in 0..n
  OBVIOUS
<1>2. g[i] \in Seq(T) /\ g[i-1] \in Seq(T) /\ q[i] \in Seq(T) /\ g[i] = g[i-1] \o q[i]
  BY <1>1 DEF PartialJoins
<1>3. PICK a \in Seq(T), b \in Seq(T) : a = g[i-1] /\ b = q[i]
  BY <1>2
<1>4. /\ Len(a \o b) = Len(a) + Len(b) /\ Len(a) \in Nat /\ Len(b) \in Nat
      /\ \A j \in 1..Len(a) : (a \o b)[j] = a[j]
      /\ \A j \in 1..Len(b) : (a \o b)[Len(a) + j] = b[j]
  OBVIOUS
<1>5. a \o b \in Seq(T)
  OBVIOUS
<1>6. Follows(T, a, b, a \o b)
  BY <1>4, <1>5 DEF Follows
<1>7. QED  BY <1>2, <1>3, <1>6

\* Partial joins are beginnings of the later ones.
LEMMA JoinsExtend ==
    ASSUME NEW T, NEW n \in Nat, NEW q \in [1..n -> Seq(T)], NEW g, PartialJoins(T, n, q, g),
           NEW i \in 0..n, NEW k \in 0..n, i <= k
    PROVE  Begins(g[i], g[k])
<1> DEFINE Bad == {m \in i..n : ~ Begins(g[i], g[m])}
<1>0. \A m \in 0..n : g[m] \in Seq(T) /\ Len(g[m]) \in Nat
  BY DEF PartialJoins
<1>1. Bad = {}
  <2> SUFFICES ASSUME Bad # {} PROVE FALSE
    OBVIOUS
  <2>1. PICK m \in Bad : \A x \in Bad : m <= x
    <3>1. Bad \in SUBSET Nat
      OBVIOUS
    <3> HIDE DEF Bad
    <3>2. QED  BY <3>1, NatSetHasMin
  <2>2. m \in i..n /\ ~ Begins(g[i], g[m])
    OBVIOUS
  <2>3. m # i
    BY <1>0, <2>2 DEF Begins
  <2>4. m \in 1..n /\ m - 1 \in i..n /\ ~(m <= m - 1)
    BY <2>2, <2>3
  <2>5. Begins(g[i], g[m-1])
    BY <2>1, <2>4
  <2>6. Follows(T, g[m-1], q[m], g[m])
    BY <2>4, JoinStep
  <2>7. Begins(g[i], g[m])
    BY <1>0, <2>5, <2>6, BeginsOn
  <2>8. QED  BY <2>2, <2>7
<1>2. k \in i..n
  OBVIOUS
<1>3. QED  BY <1>1, <1>2

\* Every piece of a join lies behind the partial join before it, and nothing
\* else is in it.
Pieces(T, n, q, g) ==
    /\ g[n] \in Seq(T)
    /\ \A i \in 1..n : \A j \in 1..Len(q[i]) :
         Len(g[i-1]) + j \in 1..Len(g[n]) /\ g[n][Len(g[i-1]) + j] = q[i][j]
    /\ \A p \in 1..Len(g[n]) : \E i \in 1..n : \E j \in 1..Len(q[i]) : p = Len(g[i-1]) + j

\* Where the pieces of a join lie in it.
LEMMA JoinPieces ==
    ASSUME NEW T, NEW n \in Nat, NEW q \in [1..n -> Seq(T)], NEW g, PartialJoins(T, n, q, g)
    PROVE  Pieces(T, n, q, g)
<1>0. \A m \in 0..n : g[m] \in Seq(T) /\ Len(g[m]) \in Nat
  BY DEF PartialJoins
<1>1. ASSUME NEW i \in 1..n, NEW j \in 1..Len(q[i])
      PROVE  Len(g[i-1]) + j \in 1..Len(g[n]) /\ g[n][Len(g[i-1]) + j] = q[i][j]
  <2>1. /\ Len(g[i]) = Len(g[i-1]) + Len(q[i]) /\ Len(q[i]) \in Nat
        /\ g[i][Len(g[i-1]) + j] = q[i][j]
    <3>1. Follows(T, g[i-1], q[i], g[i])
      BY JoinStep
    <3>2. QED  BY <3>1 DEF Follows
  <2>2. Len(g[i]) <= Len(g[n]) /\ \A x \in 1..Len(g[i]) : g[n][x] = g[i][x]
    <3>1. i \in 0..n /\ n \in 0..n /\ i <= n
      OBVIOUS
    <3>2. Begins(g[i], g[n])
      BY <3>1, JoinsExtend
    <3>3. QED  BY <3>2 DEF Begins
  <2>3. Len(g[i-1]) \in Nat /\ Len(g[n]) \in Nat /\ Len(g[i]) \in Nat
    BY <1>0
  <2>4. Len(g[i-1]) + j \in 1..Len(g[i]) /\ Len(g[i-1]) + j \in 1..Len(g[n])
    BY <2>1, <2>2, <2>3
  <2>5. QED  BY <2>1, <2>2, <2>4
<1>2. ASSUME NEW p \in 1..Len(g[n])
      PROVE  \E i \in 1..n : \E j \in 1..Len(q[i]) : p = Len(g[i-1]) + j
  <2> DEFINE Reach == {m \in 0..n : p <= Len(g[m])}
  <2>1. PICK m \in Reach : \A x \in Reach : m <= x
    <3>1. Reach \in SUBSET Nat /\ n \in Reach
      BY <1>0
    <3> HIDE DEF Reach
    <3>2. QED  BY <3>1, NatSetHasMin
  <2>2. m \in 0..n /\ p <= Len(g[m]) /\ p \in Nat /\ 1 <= p
    BY <1>0
  <2>3. m # 0
    <3>1. Len(g[0]) = 0
      BY DEF PartialJoins
    <3>2. QED  BY <2>2, <3>1
  <2>4. m \in 1..n /\ m - 1 \in 0..n /\ ~(m <= m - 1)
    BY <2>2, <2>3
  <2>5. ~(p <= Len(g[m-1])) /\ Len(g[m-1]) \in Nat
    BY <1>0, <2>1, <2>4
  <2>6. Len(g[m]) = Len(g[m-1]) + Len(q[m]) /\ Len(q[m]) \in Nat
    <3>1. Follows(T, g[m-1], q[m], g[m])
      BY <2>4, JoinStep
    <3>2. QED  BY <3>1 DEF Follows
  <2>7. PICK a \in Nat, b \in Nat, j \in Int : a = Len(g[m-1]) /\ b = Len(q[m]) /\ j = p - a
    BY <2>2, <2>5, <2>6
  <2>8. j \in 1..b /\ p = a + j
    <3>1. p <= a + b /\ ~(p <= a) /\ p \in Nat
      BY <2>2, <2>5, <2>6, <2>7
    <3>2. QED  BY <2>7, <3>1, BehindOffset
  <2>9. j \in 1..Len(q[m]) /\ p = Len(g[m-1]) + j
    BY <2>7, <2>8
  <2>10. QED  BY <2>4, <2>9
<1>3. n \in 0..n
  OBVIOUS
<1>4. QED  BY <1>0, <1>1, <1>2, <1>3 DEF Pieces

\* What a join holds: what its pieces hold.
LEMMA FlattenElems ==
    ASSUME NEW T, NEW n \in Nat, NEW q \in [1..n -> Seq(T)]
    PROVE  /\ FlattenSeq(q) \in Seq(T)
           /\ \A x : x \in ToSet(FlattenSeq(q)) <=> \E i \in 1..n : x \in ToSet(q[i])
<1>1. PICK g : PartialJoins(T, n, q, g)
  BY FlattenSteps
<1>2. PICK F : F = FlattenSeq(q) /\ F = g[n]
  BY <1>1 DEF PartialJoins
<1>3. /\ g[n] \in Seq(T)
      /\ \A i \in 1..n : \A j \in 1..Len(q[i]) :
           Len(g[i-1]) + j \in 1..Len(g[n]) /\ g[n][Len(g[i-1]) + j] = q[i][j]
      /\ \A p \in 1..Len(g[n]) : \E i \in 1..n : \E j \in 1..Len(q[i]) : p = Len(g[i-1]) + j
  <2>1. Pieces(T, n, q, g)
    BY <1>1, JoinPieces
  <2>2. QED  BY <2>1 DEF Pieces
<1>4. F \in Seq(T) /\ DOMAIN F = 1..Len(F) /\ \A i \in 1..n : DOMAIN q[i] = 1..Len(q[i])
  <2>1. \A s \in Seq(T) : DOMAIN s = 1..Len(s)
    OBVIOUS
  <2>2. F \in Seq(T) /\ \A i \in 1..n : q[i] \in Seq(T)
    BY <1>2, <1>3
  <2>3. QED  BY <2>1, <2>2
<1>5. ASSUME NEW i \in 1..n, NEW j \in DOMAIN q[i]  PROVE q[i][j] \in ToSet(F)
  <2>1. PICK p : p = Len(g[i-1]) + j
    OBVIOUS
  <2>2. p \in DOMAIN F /\ F[p] = q[i][j]
    BY <1>2, <1>3, <1>4, <2>1
  <2>3. QED  BY <2>2 DEF ToSet
<1>6. ASSUME NEW p \in DOMAIN F  PROVE \E i \in 1..n : F[p] \in ToSet(q[i])
  <2>1. p \in 1..Len(g[n])
    BY <1>2, <1>4
  <2>2. PICK i \in 1..n : \E j \in 1..Len(q[i]) : p = Len(g[i-1]) + j
    BY <1>3, <2>1
  <2>3. PICK j \in 1..Len(q[i]) : p = Len(g[i-1]) + j
    BY <2>2
  <2>4. F[p] = q[i][j] /\ j \in DOMAIN q[i]
    BY <1>2, <1>3, <1>4, <2>3
  <2>5. QED  BY <2>4 DEF ToSet
<1>7. ASSUME NEW x  PROVE x \in ToSet(F) <=> \E i \in 1..n : x \in ToSet(q[i])
  <2>1. ASSUME x \in ToSet(F)  PROVE \E i \in 1..n : x \in ToSet(q[i])
    <3>1. PICK p \in DOMAIN F : x = F[p]
      BY <2>1 DEF ToSet
    <3>2. QED  BY <1>6, <3>1
  <2>2. ASSUME NEW i \in 1..n, x \in ToSet(q[i])  PROVE x \in ToSet(F)
    <3>1. PICK j \in DOMAIN q[i] : x = q[i][j]
      BY <2>2 DEF ToSet
    <3>2. QED  BY <1>5, <3>1
  <2>3. QED  BY <2>1, <2>2
<1>8. QED  BY <1>2, <1>4, <1>7

\* x comes before y in s.
Precedes(s, x, y) == \E i, j \in DOMAIN s : i < j /\ s[i] = x /\ s[j] = y

\* A join keeps the order of its pieces, and holds no element twice if no piece
\* does and no two share one.
LEMMA FlattenOrder ==
    ASSUME NEW T, NEW n \in Nat, NEW q \in [1..n -> Seq(T)]
    PROVE  /\ \A i \in 1..n : \A x, y : Precedes(q[i], x, y) => Precedes(FlattenSeq(q), x, y)
           /\ (\A i \in 1..n : IsInjective(q[i]))
                /\ (\A i, k \in 1..n : i # k => ToSet(q[i]) \cap ToSet(q[k]) = {})
              => IsInjective(FlattenSeq(q))
<1>1. PICK g : PartialJoins(T, n, q, g)
  BY FlattenSteps
<1>2. PICK F : F = FlattenSeq(q) /\ F = g[n]
  BY <1>1 DEF PartialJoins
<1>3. /\ g[n] \in Seq(T)
      /\ \A i \in 1..n : \A j \in 1..Len(q[i]) :
           Len(g[i-1]) + j \in 1..Len(g[n]) /\ g[n][Len(g[i-1]) + j] = q[i][j]
      /\ \A p \in 1..Len(g[n]) : \E i \in 1..n : \E j \in 1..Len(q[i]) : p = Len(g[i-1]) + j
  <2>1. Pieces(T, n, q, g)
    BY <1>1, JoinPieces
  <2>2. QED  BY <2>1 DEF Pieces
<1>4. F \in Seq(T) /\ DOMAIN F = 1..Len(F) /\ \A i \in 1..n : DOMAIN q[i] = 1..Len(q[i])
  <2>1. \A s \in Seq(T) : DOMAIN s = 1..Len(s)
    OBVIOUS
  <2>2. F \in Seq(T) /\ \A i \in 1..n : q[i] \in Seq(T)
    BY <1>2, <1>3
  <2>3. QED  BY <2>1, <2>2
<1>5. ASSUME NEW i \in 1..n, NEW x, NEW y, Precedes(q[i], x, y)  PROVE Precedes(F, x, y)
  <2>1. PICK j, k \in DOMAIN q[i] : j < k /\ q[i][j] = x /\ q[i][k] = y
    BY <1>5 DEF Precedes
  <2>2. j \in 1..Len(q[i]) /\ k \in 1..Len(q[i]) /\ j \in Nat /\ k \in Nat
    BY <1>4, <2>1
  <2>3. PICK o \in Nat : o = Len(g[i-1])
    <3>1. i - 1 \in 0..n
      OBVIOUS
    <3>2. g[i-1] \in Seq(T)
      BY <1>1, <3>1 DEF PartialJoins
    <3>3. QED  BY <3>2
  <2>4. o + j \in DOMAIN F /\ o + k \in DOMAIN F /\ F[o + j] = x /\ F[o + k] = y
    BY <1>2, <1>3, <1>4, <2>1, <2>2, <2>3
  <2>5. o + j < o + k
    BY <2>1, <2>2, <2>3
  <2>6. QED  BY <2>4, <2>5 DEF Precedes
<1>6. ASSUME \A i \in 1..n : IsInjective(q[i]),
             \A i, k \in 1..n : i # k => ToSet(q[i]) \cap ToSet(q[k]) = {},
             NEW p \in DOMAIN F, NEW r \in DOMAIN F, F[p] = F[r]
      PROVE  p = r
  <2>1. p \in 1..Len(g[n]) /\ r \in 1..Len(g[n])
    BY <1>2, <1>4
  <2>2. PICK i \in 1..n : \E j \in 1..Len(q[i]) : p = Len(g[i-1]) + j
    BY <1>3, <2>1
  <2>3. PICK k \in 1..n : \E l \in 1..Len(q[k]) : r = Len(g[k-1]) + l
    BY <1>3, <2>1
  <2>4. PICK j \in 1..Len(q[i]) : p = Len(g[i-1]) + j
    BY <2>2
  <2>5. PICK l \in 1..Len(q[k]) : r = Len(g[k-1]) + l
    BY <2>3
  <2>6. F[p] = q[i][j] /\ F[r] = q[k][l] /\ j \in DOMAIN q[i] /\ l \in DOMAIN q[k]
    BY <1>2, <1>3, <1>4, <2>4, <2>5
  <2>7. F[p] \in ToSet(q[i]) /\ F[p] \in ToSet(q[k])
    BY <1>6, <2>6 DEF ToSet
  <2>8. i = k
    BY <1>6, <2>7
  <2>9. j = l
    BY <1>6, <2>6, <2>8 DEF IsInjective
  <2>10. QED  BY <2>8, <2>9, <2>4, <2>5
<1>7. (\A i \in 1..n : IsInjective(q[i]))
        /\ (\A i, k \in 1..n : i # k => ToSet(q[i]) \cap ToSet(q[k]) = {})
      => IsInjective(F)
  BY <1>6 DEF IsInjective
<1>8. QED  BY <1>2, <1>5, <1>7

\* What the join of the parts of S holds, and in which order.
Gathers(T, S, v, s) ==
    /\ s \in Seq(T)
    /\ \A x : x \in ToSet(s) <=> \E n \in S : x \in ToSet(v[n])
    /\ \A n \in S : \A x, y : Precedes(v[n], x, y) => Precedes(s, x, y)
    /\ (\A n \in S : IsInjective(v[n])) /\ (\A n, m \in S : n # m => ToSet(v[n]) \cap ToSet(v[m]) = {})
       => IsInjective(s)

\* InOrder joins the parts of S.
LEMMA InOrderGathers ==
    ASSUME NEW T, NEW S, S \subseteq Ordinals, NEW v, \A n \in S : v[n] \in Seq(T)
    PROVE  Gathers(T, S, v, InOrder(S, v))
<1> DEFINE q == [n \in Ordinals |-> IF n \in S THEN v[n] ELSE << >>]
<1>1. MaxSeq \in Nat /\ Ordinals = 1..MaxSeq
  BY ConstantsOK DEF Ordinals
<1>2. << >> \in Seq(T) /\ ToSet(<< >>) = {} /\ IsInjective(<< >>)
  BY DEF ToSet, IsInjective
<1>3. q \in [1..MaxSeq -> Seq(T)]
  BY <1>1, <1>2
<1>4. \A n \in 1..MaxSeq : q[n] = IF n \in S THEN v[n] ELSE << >>
  BY <1>1
<1>5. InOrder(S, v) = FlattenSeq(q)
  BY DEF InOrder
<1> HIDE DEF q
<1>6. /\ FlattenSeq(q) \in Seq(T)
      /\ \A x : x \in ToSet(FlattenSeq(q)) <=> \E i \in 1..MaxSeq : x \in ToSet(q[i])
  BY <1>1, <1>3, FlattenElems
<1>7. PICK s : s = FlattenSeq(q)
  OBVIOUS
<1>8. ASSUME NEW x  PROVE x \in ToSet(s) <=> \E n \in S : x \in ToSet(v[n])
  <2>1. x \in ToSet(s) <=> \E i \in 1..MaxSeq : x \in ToSet(q[i])
    BY <1>6, <1>7
  <2>2. (\E i \in 1..MaxSeq : x \in ToSet(q[i])) <=> \E n \in S : x \in ToSet(v[n])
    BY <1>1, <1>2, <1>4
  <2>3. QED  BY <2>1, <2>2
<1>9. /\ \A i \in 1..MaxSeq : \A x, y : Precedes(q[i], x, y) => Precedes(s, x, y)
      /\ (\A i \in 1..MaxSeq : IsInjective(q[i]))
           /\ (\A i, k \in 1..MaxSeq : i # k => ToSet(q[i]) \cap ToSet(q[k]) = {})
         => IsInjective(s)
  BY <1>1, <1>3, <1>7, FlattenOrder
<1>10. ASSUME NEW n \in S, NEW x, NEW y, Precedes(v[n], x, y)  PROVE Precedes(s, x, y)
  <2>1. n \in 1..MaxSeq /\ q[n] = v[n]
    BY <1>1, <1>4
  <2>2. QED  BY <1>9, <1>10, <2>1
<1>11. ASSUME \A n \in S : IsInjective(v[n]), \A n, m \in S : n # m => ToSet(v[n]) \cap ToSet(v[m]) = {}
       PROVE  IsInjective(s)
  <2>1. \A i \in 1..MaxSeq : IsInjective(q[i])
    BY <1>2, <1>4, <1>11
  <2>2. \A i, k \in 1..MaxSeq : i # k => ToSet(q[i]) \cap ToSet(q[k]) = {}
    BY <1>2, <1>4, <1>11
  <2>3. QED  BY <1>9, <2>1, <2>2
<1>12. Gathers(T, S, v, s)
  BY <1>6, <1>7, <1>8, <1>10, <1>11 DEF Gathers
<1>13. QED  BY <1>5, <1>7, <1>12

\* It reads only the parts of S.
LEMMA InOrderReads ==
    ASSUME NEW S, NEW v, NEW w, \A n \in S : v[n] = w[n]
    PROVE  InOrder(S, v) = InOrder(S, w)
<1>1. [n \in Ordinals |-> IF n \in S THEN v[n] ELSE << >>]
        = [n \in Ordinals |-> IF n \in S THEN w[n] ELSE << >>]
  OBVIOUS
<1>2. QED  BY <1>1, Zenon DEF InOrder

\* A forest of typed steps: a parent's ordinal is below its children's.
IsForest(f) == DOMAIN f \subseteq Ordinals /\ \A n \in DOMAIN f : f[n].parent \in Nat /\ f[n].parent < n

\* v is what one makes of every step of f from what it makes of its children.
Settles(f, T, after, v) ==
    /\ v \in [DOMAIN f -> Seq(T)]
    /\ \A n \in DOMAIN f : v[n] = after[n][InOrder(Children(f, n), v)]

\* A recursion down a forest ends: it has an answer for every step.
LEMMA RecursionEnds ==
    ASSUME NEW f, IsForest(f), NEW T, NEW after \in [DOMAIN f -> [Seq(T) -> Seq(T)]]
    PROVE  \E v : Settles(f, T, after, v)
<1> DEFINE D(a) == {n \in DOMAIN f : n >= a}
           P(a, v) == /\ v \in [D(a) -> Seq(T)]
                      /\ \A n \in D(a) : v[n] = after[n][InOrder(Children(f, n), v)]
           Bad == {a \in 1..(MaxSeq + 1) : ~ \E v : P(a, v)}
<1>1. MaxSeq \in Nat /\ DOMAIN f \subseteq 1..MaxSeq
  BY ConstantsOK DEF IsForest, Ordinals
<1>2. ASSUME NEW n \in DOMAIN f, NEW c \in Children(f, n)  PROVE c \in DOMAIN f /\ c > n
  BY DEF Children, IsForest
<1>3. Bad = {}
  <2> SUFFICES ASSUME Bad # {} PROVE FALSE
    OBVIOUS
  <2>1. PICK a \in Bad : \A k \in Bad : k <= a
    <3>1. Bad \in SUBSET Nat /\ \A x \in Bad : x <= MaxSeq + 1
      BY <1>1
    <3>2. MaxSeq + 1 \in Nat
      BY <1>1
    <3> HIDE DEF Bad
    <3>3. QED  BY <3>1, <3>2, BoundedSetHasMax
  <2>2. a \in 1..(MaxSeq + 1)
    OBVIOUS
  <2>3. CASE a = MaxSeq + 1
    <3>1. D(a) = {}
      BY <1>1, <2>3
    <3>2. P(a, [n \in D(a) |-> << >>])
      BY <3>1
    <3>3. QED  BY <2>1, <3>2
  <2>4. CASE a # MaxSeq + 1
    <3>1. a + 1 \in 1..(MaxSeq + 1) /\ ~(a + 1 <= a) /\ a \in Nat
      BY <1>1, <2>2, <2>4
    <3>2. PICK v : P(a + 1, v)
      <4> HIDE DEF P
      <4>1. QED  BY <2>1, <3>1
    <3>3. D(a + 1) = D(a) \ {a}
      BY <1>1, <3>1
    <3>4. CASE a \notin DOMAIN f
      <4>1. D(a) = D(a + 1)
        BY <3>3, <3>4
      <4>2. P(a, v)
        BY <3>2, <4>1
      <4>3. QED
        <5> HIDE DEF P
        <5>1. QED  BY <2>1, <4>2
    <3>5. CASE a \in DOMAIN f
      <4> DEFINE top == after[a][InOrder(Children(f, a), v)]
                 h   == [n \in D(a) |-> IF n = a THEN top ELSE v[n]]
      <4>1. \A n \in D(a) : Children(f, n) \subseteq D(a + 1)
        BY <1>1, <1>2, <3>1
      <4>2. \A n \in D(a + 1) : n \in D(a) /\ n # a /\ v[n] \in Seq(T)
        BY <3>2, <3>3
      <4>3. \A n \in D(a) : InOrder(Children(f, n), v) \in Seq(T)
        <5>1. ASSUME NEW n \in D(a)  PROVE InOrder(Children(f, n), v) \in Seq(T)
          <6>1. Children(f, n) \subseteq Ordinals
            BY <1>1 DEF Children, Ordinals
          <6>2. \A c \in Children(f, n) : v[c] \in Seq(T)
            BY <4>1, <4>2
          <6>3. Gathers(T, Children(f, n), v, InOrder(Children(f, n), v))
            BY <6>1, <6>2, InOrderGathers
          <6>4. QED  BY <6>3 DEF Gathers
        <5>2. QED  BY <5>1
      <4>4. a \in D(a)
        BY <3>1, <3>5
      <4>5. top \in Seq(T)
        BY <3>5, <4>3, <4>4
      <4>6. h[a] = top /\ \A n \in D(a + 1) : h[n] = v[n]
        BY <4>2, <4>4
      <4>7. h \in [D(a) -> Seq(T)]
        <5> HIDE DEF top, D
        <5>1. \A n \in D(a) : n # a => v[n] \in Seq(T)
          BY <3>3, <4>2
        <5>2. QED  BY <4>5, <5>1
      <4> HIDE DEF h
      <4>8. \A n \in D(a) : InOrder(Children(f, n), h) = InOrder(Children(f, n), v)
        <5>1. ASSUME NEW n \in D(a)  PROVE InOrder(Children(f, n), h) = InOrder(Children(f, n), v)
          <6>1. \A c \in Children(f, n) : h[c] = v[c]
            BY <4>1, <4>6
          <6>2. QED  BY <6>1, InOrderReads
        <5>2. QED  BY <5>1
      <4>9. \A n \in D(a) : h[n] = after[n][InOrder(Children(f, n), h)]
        <5>1. ASSUME NEW n \in D(a)  PROVE h[n] = after[n][InOrder(Children(f, n), h)]
          <6>1. CASE n = a
            BY <4>4, <4>6, <4>8, <6>1
          <6>2. CASE n # a
            <7>1. n \in D(a + 1)
              BY <3>3, <6>2
            <7>2. v[n] = after[n][InOrder(Children(f, n), v)]
              BY <3>2, <7>1
            <7>3. QED  BY <4>6, <4>8, <7>1, <7>2
          <6>3. QED  BY <6>1, <6>2
        <5>2. QED  BY <5>1
      <4>10. P(a, h)
        BY <4>7, <4>9
      <4>11. QED
        <5> HIDE DEF P
        <5>1. QED  BY <2>1, <4>10
    <3>6. QED  BY <3>4, <3>5
  <2>5. QED  BY <2>3, <2>4
<1>4. PICK v : P(1, v)
  <2>1. 1 \in 1..(MaxSeq + 1)
    BY <1>1
  <2> HIDE DEF P
  <2>2. QED  BY <1>3, <2>1
<1>5. D(1) = DOMAIN f
  BY <1>1
<1>6. Settles(f, T, after, v)
  BY <1>4, <1>5 DEF Settles
<1>7. QED  BY <1>6

\* One element behind a sequence.
AppendsOne(T, s, n, c) ==
    /\ c \in Seq(T) /\ ToSet(c) = ToSet(s) \cup {n}
    /\ \A x, y : Precedes(s, x, y) => Precedes(c, x, y)
    /\ \A x \in ToSet(s) : Precedes(c, x, n)
    /\ IsInjective(s) /\ n \notin ToSet(s) => IsInjective(c)

\* What appending does.
LEMMA AppendOne ==
    ASSUME NEW T, NEW s \in Seq(T), NEW n \in T
    PROVE  AppendsOne(T, s, n, s \o <<n>>)
<1>1. PICK c \in Seq(T), l \in Nat : c = s \o <<n>> /\ l = Len(s)
  <2>1. s \o <<n>> \in Seq(T) /\ Len(s) \in Nat
    OBVIOUS
  <2>2. QED  BY <2>1
<1>2. c \in Seq(T) /\ DOMAIN s = 1..l /\ DOMAIN c = 1..(l + 1)
  BY <1>1
<1>3. (\A i \in 1..l : c[i] = s[i]) /\ c[l + 1] = n
  BY <1>1
<1>4. l + 1 \in 1..(l + 1) /\ \A i \in 1..l : i \in 1..(l + 1) /\ i < l + 1
  OBVIOUS
<1>5. \A i \in 1..(l + 1) : i \in 1..l \/ i = l + 1
  OBVIOUS
<1>6. ToSet(c) = ToSet(s) \cup {n}
  BY <1>2, <1>3, <1>4, <1>5 DEF ToSet
<1>7. \A x, y : Precedes(s, x, y) => Precedes(c, x, y)
  BY <1>2, <1>3, <1>4 DEF Precedes
<1>8. \A x \in ToSet(s) : Precedes(c, x, n)
  BY <1>2, <1>3, <1>4 DEF Precedes, ToSet
<1>9. ASSUME IsInjective(s), n \notin ToSet(s), NEW i \in 1..(l + 1), NEW k \in 1..(l + 1), c[i] = c[k]
      PROVE  i = k
  <2>1. \A j \in 1..l : c[j] # n
    BY <1>2, <1>3, <1>9 DEF ToSet
  <2>2. i \in 1..l /\ k \in 1..l => i = k
    BY <1>2, <1>3, <1>9 DEF IsInjective
  <2>3. QED  BY <1>3, <1>5, <1>9, <2>1, <2>2
<1>10. IsInjective(s) /\ n \notin ToSet(s) => IsInjective(c)
  BY <1>2, <1>9 DEF IsInjective
<1>11. QED  BY <1>1, <1>2, <1>6, <1>7, <1>8, <1>10 DEF AppendsOne

\* s visits the branch under n: each step once, after its children.
Branch(f, n, s) ==
    /\ s \in Seq(DOMAIN f) /\ IsInjective(s) /\ n \in ToSet(s)
    /\ \A x \in ToSet(s) : /\ n <= x /\ Children(f, x) \subseteq ToSet(s)
                           /\ x # n => f[x].parent \in ToSet(s) /\ Precedes(s, x, f[x].parent)

\* s visits the branches under K.
Branches(f, K, v, s) ==
    /\ s \in Seq(DOMAIN f) /\ IsInjective(s) /\ K \subseteq ToSet(s)
    /\ \A x \in ToSet(s) : /\ \E a \in K : x \in ToSet(v[a])
                           /\ Children(f, x) \subseteq ToSet(s)
                           /\ x \notin K => f[x].parent \in ToSet(s) /\ Precedes(s, x, f[x].parent)

\* Branches none of whose roots hangs under another are visited one by one.
LEMMA BranchesJoin ==
    ASSUME NEW f, IsForest(f), NEW K, K \subseteq DOMAIN f, NEW v,
           \A a \in K : Branch(f, a, v[a]),
           \A a \in K : \A b \in K : f[a].parent \notin ToSet(v[b])
    PROVE  Branches(f, K, v, InOrder(K, v))
<1>1. K \subseteq Ordinals /\ \A a \in K : v[a] \in Seq(DOMAIN f)
  BY DEF IsForest, Branch
<1>2. PICK s : s = InOrder(K, v)
  OBVIOUS
<1>3. Gathers(DOMAIN f, K, v, s)
  BY <1>1, <1>2, InOrderGathers
<1>4. \A a \in K : ToSet(v[a]) \subseteq DOMAIN f
  <2>1. \A t \in Seq(DOMAIN f) : ToSet(t) \subseteq DOMAIN f
    BY DEF ToSet
  <2>2. QED  BY <1>1, <2>1
<1>5. ASSUME NEW a \in K, NEW b \in K, a # b  PROVE ToSet(v[a]) \cap ToSet(v[b]) = {}
  <2> DEFINE C == ToSet(v[a]) \cap ToSet(v[b])
  <2> SUFFICES ASSUME C # {} PROVE FALSE
    OBVIOUS
  <2>1. C \in SUBSET Nat
    BY <1>4 DEF IsForest, Ordinals
  <2>2. PICK x \in C : \A y \in C : x <= y
    <3> HIDE DEF C
    <3>1. QED  BY <2>1, NatSetHasMin
  <2>3. x \in ToSet(v[a]) /\ x \in ToSet(v[b]) /\ x \in DOMAIN f /\ x \in Nat
    BY <1>4, <2>1
  <2>4. x # a
    <3>1. f[a].parent \notin ToSet(v[b])
      OBVIOUS
    <3>2. x # b => f[x].parent \in ToSet(v[b])
      BY <2>3 DEF Branch
    <3>3. QED  BY <1>5, <3>1, <3>2
  <2>5. x # b
    <3>1. f[b].parent \notin ToSet(v[a])
      OBVIOUS
    <3>2. x # a => f[x].parent \in ToSet(v[a])
      BY <2>3 DEF Branch
    <3>3. QED  BY <1>5, <3>1, <3>2
  <2>6. f[x].parent \in C
    BY <2>3, <2>4, <2>5 DEF Branch
  <2>7. f[x].parent \in Nat /\ f[x].parent < x
    BY <2>3 DEF IsForest
  <2>8. QED
    <3> HIDE DEF C
    <3>1. QED  BY <2>2, <2>3, <2>6, <2>7
<1>6. s \in Seq(DOMAIN f) /\ IsInjective(s)
  <2>1. \A a \in K : IsInjective(v[a])
    BY DEF Branch
  <2>2. QED  BY <1>3, <1>5, <2>1 DEF Gathers
<1>7. \A x : x \in ToSet(s) <=> \E a \in K : x \in ToSet(v[a])
  BY <1>3 DEF Gathers
<1>8. K \subseteq ToSet(s)
  <2>1. \A a \in K : a \in ToSet(v[a])
    BY DEF Branch
  <2>2. QED  BY <1>7, <2>1
<1>9. ASSUME NEW x \in ToSet(s)
      PROVE  /\ \E a \in K : x \in ToSet(v[a])
             /\ Children(f, x) \subseteq ToSet(s)
             /\ x \notin K => f[x].parent \in ToSet(s) /\ Precedes(s, x, f[x].parent)
  <2>1. PICK a \in K : x \in ToSet(v[a])
    BY <1>7
  <2>2. /\ Children(f, x) \subseteq ToSet(v[a])
        /\ x # a => f[x].parent \in ToSet(v[a]) /\ Precedes(v[a], x, f[x].parent)
    BY <2>1 DEF Branch
  <2>3. \A y : y \in ToSet(v[a]) => y \in ToSet(s)
    BY <1>7
  <2>4. \A y, z : Precedes(v[a], y, z) => Precedes(s, y, z)
    BY <1>3 DEF Gathers
  <2>5. QED  BY <2>1, <2>2, <2>3, <2>4
<1>10. QED  BY <1>2, <1>6, <1>8, <1>9 DEF Branches

\* The order of the visits is a function of the forest, every step's branch
\* ending with the step.
Visiting(f, v) ==
    /\ v = [n \in DOMAIN f |-> InOrder(Children(f, n), v) \o <<n>>]
    /\ PostOrder(f) = InOrder(Forest(f), v)

\* The recursion of PostOrder ends.
LEMMA VisitingExists ==
    ASSUME NEW f, IsForest(f)
    PROVE  \E v : Visiting(f, v)
<1> DEFINE E(v) == [n \in DOMAIN f |-> InOrder(Children(f, n), v) \o <<n>>]
           T == DOMAIN f
           after == [n \in DOMAIN f |-> [w \in Seq(T) |-> w \o <<n>>]]
<1>1. after \in [DOMAIN f -> [Seq(T) -> Seq(T)]]
  <2>1. \A n \in DOMAIN f : \A w \in Seq(T) : w \o <<n>> \in Seq(T)
    OBVIOUS
  <2>2. QED  BY <2>1
<1>2. PICK v : Settles(f, T, after, v)
  <2> HIDE DEF after
  <2>1. QED  BY <1>1, RecursionEnds
<1>3. ASSUME NEW n \in DOMAIN f  PROVE v[n] = InOrder(Children(f, n), v) \o <<n>>
  <2>1. InOrder(Children(f, n), v) \in Seq(T)
    <3>1. Children(f, n) \subseteq Ordinals /\ \A c \in Children(f, n) : v[c] \in Seq(T)
      BY <1>2 DEF Settles, Children, IsForest
    <3>2. Gathers(T, Children(f, n), v, InOrder(Children(f, n), v))
      BY <3>1, InOrderGathers
    <3>3. QED  BY <3>2 DEF Gathers
  <2>2. PICK w \in Seq(T) : w = InOrder(Children(f, n), v)
    BY <2>1
  <2>3. v[n] = after[n][w]
    BY <1>2, <2>2 DEF Settles
  <2>4. after[n][w] = w \o <<n>>
    OBVIOUS
  <2>5. QED  BY <2>2, <2>3, <2>4
<1>4. v = E(v)
  <2>1. DOMAIN v = DOMAIN f /\ v = [n \in DOMAIN v |-> v[n]]
    BY <1>2 DEF Settles
  <2>2. QED  BY <1>3, <2>1
<1>5. PICK w : w = CHOOSE u : u = E(u)
  OBVIOUS
<1>6. w = E(w)
  <2> HIDE DEF E
  <2>1. QED  BY <1>4, <1>5
<1>7. PostOrder(f) = InOrder(Forest(f), w)
  BY <1>5, Zenon DEF PostOrder
<1>8. QED  BY <1>6, <1>7 DEF Visiting

\* It visits branches.
LEMMA VisitsBranches ==
    ASSUME NEW f, IsForest(f), NEW v, Visiting(f, v), NEW n \in DOMAIN f
    PROVE  Branch(f, n, v[n])
<1> DEFINE Bad == {m \in DOMAIN f : ~ Branch(f, m, v[m])}
<1>1. MaxSeq \in Nat /\ DOMAIN f \subseteq 1..MaxSeq /\ DOMAIN f \subseteq Nat
  BY ConstantsOK DEF IsForest, Ordinals
<1>2. Bad = {}
  <2> SUFFICES ASSUME Bad # {} PROVE FALSE
    OBVIOUS
  <2>1. PICK m \in Bad : \A k \in Bad : k <= m
    <3>1. Bad \in SUBSET Nat /\ \A x \in Bad : x <= MaxSeq
      BY <1>1
    <3> HIDE DEF Bad
    <3>2. QED  BY <1>1, <3>1, BoundedSetHasMax
  <2>2. m \in DOMAIN f /\ m \in Nat /\ ~ Branch(f, m, v[m])
    BY <1>1
  <2>3. PICK K : K = Children(f, m)
    OBVIOUS
  <2>4. K \subseteq DOMAIN f /\ \A a \in K : f[a].parent = m /\ m < a /\ a \in Nat
    BY <1>1, <2>3 DEF Children, IsForest
  <2>5. \A a \in K : Branch(f, a, v[a])
    BY <2>1, <2>2, <2>4
  <2>6. \A a \in K : \A x \in ToSet(v[a]) : x \in DOMAIN f /\ x \in Nat /\ m < x
    <3>1. \A t \in Seq(DOMAIN f) : ToSet(t) \subseteq DOMAIN f
      BY DEF ToSet
    <3>2. ASSUME NEW a \in K, NEW x \in ToSet(v[a])  PROVE x \in DOMAIN f /\ x \in Nat /\ m < x
      <4>1. v[a] \in Seq(DOMAIN f) /\ a <= x
        BY <2>5 DEF Branch
      <4>2. x \in DOMAIN f /\ x \in Nat /\ a \in Nat /\ m < a
        BY <1>1, <2>4, <3>1, <4>1
      <4>3. QED  BY <2>2, <4>1, <4>2
    <3>3. QED  BY <3>2
  <2>7. \A a \in K : \A b \in K : f[a].parent \notin ToSet(v[b])
    BY <2>2, <2>4, <2>6
  <2>8. PICK s : s = InOrder(K, v)
    OBVIOUS
  <2>9. Branches(f, K, v, s)
    BY <2>4, <2>5, <2>7, <2>8, BranchesJoin
  <2>10. v[m] = s \o <<m>>
    BY <2>2, <2>3, <2>8 DEF Visiting
  <2>11. s \in Seq(DOMAIN f)
    BY <2>9 DEF Branches
  <2>12. AppendsOne(DOMAIN f, s, m, v[m])
    BY <2>2, <2>10, <2>11, AppendOne
  <2>13. \A x \in ToSet(s) : m < x /\ x \in Nat
    BY <2>6, <2>9 DEF Branches
  <2>14. m \notin ToSet(s)
    BY <2>2, <2>13
  <2>15. v[m] \in Seq(DOMAIN f) /\ IsInjective(v[m]) /\ m \in ToSet(v[m]) /\ ToSet(v[m]) = ToSet(s) \cup {m}
    BY <2>9, <2>12, <2>14 DEF AppendsOne, Branches
  <2>16. ASSUME NEW x \in ToSet(v[m])
         PROVE  /\ m <= x /\ Children(f, x) \subseteq ToSet(v[m])
                /\ x # m => f[x].parent \in ToSet(v[m]) /\ Precedes(v[m], x, f[x].parent)
    <3>1. CASE x = m
      <4>1. Children(f, x) \subseteq ToSet(v[m])
        BY <2>3, <2>9, <2>15, <3>1 DEF Branches
      <4>2. m <= x
        BY <2>2, <3>1
      <4>3. QED  BY <3>1, <4>1, <4>2
    <3>2. CASE x # m
      <4>1. x \in ToSet(s)
        BY <2>15, <3>2
      <4>2. m <= x
        BY <2>2, <2>13, <4>1
      <4>3. Children(f, x) \subseteq ToSet(v[m])
        BY <2>9, <2>15, <4>1 DEF Branches
      <4>4. f[x].parent \in ToSet(v[m]) /\ Precedes(v[m], x, f[x].parent)
        <5>1. CASE x \in K
          <6>1. f[x].parent = m
            BY <2>4, <5>1
          <6>2. Precedes(v[m], x, m)
            BY <2>12, <4>1 DEF AppendsOne
          <6>3. QED  BY <2>15, <6>1, <6>2
        <5>2. CASE x \notin K
          <6>1. f[x].parent \in ToSet(s) /\ Precedes(s, x, f[x].parent)
            BY <2>9, <4>1, <5>2 DEF Branches
          <6>2. Precedes(v[m], x, f[x].parent)
            BY <2>12, <6>1 DEF AppendsOne
          <6>3. QED  BY <2>15, <6>1, <6>2
        <5>3. QED  BY <5>1, <5>2
      <4>5. QED  BY <4>2, <4>3, <4>4
    <3>3. QED  BY <3>1, <3>2
  <2>17. Branch(f, m, v[m])
    BY <2>15, <2>16 DEF Branch
  <2>18. QED  BY <2>2, <2>17
<1>3. QED  BY <1>2

\* The rollup visits a step once, and after its children.
LEMMA PostOrderVisits ==
    ASSUME NEW f, IsForest(f)
    PROVE  /\ IsInjective(PostOrder(f)) /\ DOMAIN PostOrder(f) \subseteq Nat
           /\ \A n \in DOMAIN f : f[n].parent \in DOMAIN f => Precedes(PostOrder(f), n, f[n].parent)
<1>1. PICK v : Visiting(f, v)
  BY VisitingExists
<1>2. PICK K : K = Forest(f)
  OBVIOUS
<1>3. K \subseteq DOMAIN f /\ \A a \in K : f[a].parent \notin DOMAIN f
  BY <1>2 DEF Forest
<1>4. \A a \in K : Branch(f, a, v[a])
  BY <1>1, <1>3, VisitsBranches
<1>5. \A a \in K : \A b \in K : f[a].parent \notin ToSet(v[b])
  <2>1. \A t \in Seq(DOMAIN f) : ToSet(t) \subseteq DOMAIN f
    BY DEF ToSet
  <2>2. \A b \in K : v[b] \in Seq(DOMAIN f)
    BY <1>4 DEF Branch
  <2>3. QED  BY <1>3, <2>1, <2>2
<1>6. PICK s : s = PostOrder(f)
  OBVIOUS
<1>7. Branches(f, K, v, s)
  <2>1. Branches(f, K, v, InOrder(K, v))
    BY <1>3, <1>4, <1>5, BranchesJoin
  <2>2. QED  BY <1>1, <1>2, <1>6, <2>1 DEF Visiting
<1> DEFINE Out == DOMAIN f \ ToSet(s)
<1>8. Out = {}
  <2> SUFFICES ASSUME Out # {} PROVE FALSE
    OBVIOUS
  <2>1. Out \in SUBSET Nat
    BY DEF IsForest, Ordinals
  <2>2. PICK x \in Out : \A y \in Out : x <= y
    <3> HIDE DEF Out
    <3>1. QED  BY <2>1, NatSetHasMin
  <2>3. x \in DOMAIN f /\ x \notin ToSet(s) /\ x \in Nat /\ f[x].parent \in Nat /\ f[x].parent < x
    BY <2>1 DEF IsForest
  <2>4. f[x].parent \in DOMAIN f
    BY <1>2, <1>7, <2>3 DEF Forest, Branches
  <2>5. f[x].parent \in ToSet(s)
    BY <2>2, <2>3, <2>4
  <2>6. x \in Children(f, f[x].parent)
    BY <2>3 DEF Children
  <2>7. QED  BY <1>7, <2>3, <2>5, <2>6 DEF Branches
<1>9. ASSUME NEW n \in DOMAIN f, f[n].parent \in DOMAIN f  PROVE Precedes(s, n, f[n].parent)
  <2>1. n \in ToSet(s) /\ n \notin K
    BY <1>3, <1>8, <1>9
  <2>2. QED  BY <1>7, <2>1 DEF Branches
<1>10. IsInjective(s) /\ s \in Seq(DOMAIN f)
  BY <1>7 DEF Branches
<1>11. DOMAIN s \subseteq Nat
  BY <1>10
<1>12. QED  BY <1>6, <1>9, <1>10, <1>11

\* Before is a strict order that puts a step after its children.
LEMMA BeforeOrder ==
    ASSUME NEW f, IsForest(f)
    PROVE  /\ \A n : ~ Before(f, n, n)
           /\ \A m, n, k : Before(f, m, n) /\ Before(f, n, k) => Before(f, m, k)
           /\ \A n \in DOMAIN f : f[n].parent \in DOMAIN f => Before(f, n, f[n].parent)
<1>1. PICK s : s = PostOrder(f)
  OBVIOUS
<1>2. /\ IsInjective(s) /\ DOMAIN s \subseteq Nat
      /\ \A n \in DOMAIN f : f[n].parent \in DOMAIN f => Precedes(s, n, f[n].parent)
  BY <1>1, PostOrderVisits
<1>3. \A m, n : Before(f, m, n) <=> Precedes(s, m, n)
  BY <1>1 DEF Before, Precedes
<1>4. ASSUME NEW n, Precedes(s, n, n)  PROVE FALSE
  <2>1. PICK i, j \in DOMAIN s : i < j /\ s[i] = n /\ s[j] = n
    BY <1>4 DEF Precedes
  <2>2. i = j /\ i \in Nat
    BY <1>2, <2>1 DEF IsInjective
  <2>3. QED  BY <2>1, <2>2
<1>5. ASSUME NEW m, NEW n, NEW k, Precedes(s, m, n), Precedes(s, n, k)  PROVE Precedes(s, m, k)
  <2>1. PICK a, b \in DOMAIN s : a < b /\ s[a] = m /\ s[b] = n
    BY <1>5 DEF Precedes
  <2>2. PICK c, d \in DOMAIN s : c < d /\ s[c] = n /\ s[d] = k
    BY <1>5 DEF Precedes
  <2>3. b = c /\ a \in Nat /\ b \in Nat /\ d \in Nat
    BY <1>2, <2>1, <2>2 DEF IsInjective
  <2>4. a < d
    BY <2>1, <2>2, <2>3
  <2>5. QED  BY <2>1, <2>2, <2>4 DEF Precedes
<1>6. QED  BY <1>2, <1>3, <1>4, <1>5

\* The join of a step's children's summaries is a summary.
LEMMA JoinedType ==
    ASSUME NEW f, DOMAIN f \subseteq Ordinals, \A n \in DOMAIN f : f[n] \in PlanNode, NEW seq
    PROVE  Joined(f, seq) \in Seq(Texts)
<1> DEFINE part == [n \in DOMAIN f |-> f[n].summary]
           q == [n \in Ordinals |-> IF n \in Children(f, seq) THEN part[n] ELSE << >>]
<1>1. MaxSeq \in Nat
  BY ConstantsOK
<1>2. << >> \in Seq(Texts)
  OBVIOUS
<1>3. \A n \in DOMAIN f : f[n].summary \in Seq(Texts)
  BY DEF PlanNode
<1>4. q \in [1..MaxSeq -> Seq(Texts)]
  BY <1>2, <1>3 DEF Children, Ordinals
<1> HIDE DEF q
<1>5. FlattenSeq(q) \in Seq(Texts)
  <2>1. PICK g : PartialJoins(Texts, MaxSeq, q, g)
    BY <1>1, <1>4, FlattenSteps
  <2>2. QED  BY <1>1, <2>1 DEF PartialJoins
<1>6. QED  BY <1>5 DEF Joined, InOrder, q
-----------------------------------------------------------------------------
(* What the writers make of a record. *)

Node(p, s, t, f, u, o) ==
    [parent |-> p, status |-> s, summary |-> t, folded |-> f, updated |-> u, over |-> o]

\* A record is its fields.
LEMMA NodeFields ==
    ASSUME NEW p, NEW s, NEW t, NEW f, NEW u, NEW o
    PROVE  LET r == Node(p, s, t, f, u, o) IN
           /\ r.parent = p /\ r.status = s /\ r.summary = t
           /\ r.folded = f /\ r.updated = u /\ r.over = o
           /\ (p \in 0..MaxSeq /\ s \in Statuses /\ t \in Seq(Texts) /\ f \in BOOLEAN
                 /\ u \in Nat /\ o \in Nat) <=> r \in PlanNode
  BY DEF Node, PlanNode

\* A stated update: the status and the stamp, and the summary if one is stated.
LEMMA RestatedFields ==
    ASSUME NEW r \in PlanNode, NEW s, NEW text
    PROVE  Restated(r, s, text)
             = Node(r.parent, s, IF text = Blank THEN r.summary ELSE text,
                    r.folded /\ text = Blank, clock, r.over)
<1> DEFINE q(x1, x2, x3, x4, x5, x6) ==
             [parent |-> x1, status |-> x2, summary |-> x3, folded |-> x4, updated |-> x5, over |-> x6]
<1>1. PICK x1, x2, x3, x4, x5, x6 : /\ x1 = r.parent /\ x2 = r.status /\ x3 = r.summary
                                    /\ x4 = r.folded /\ x5 = r.updated /\ x6 = r.over
  OBVIOUS
<1>2. r = q(x1, x2, x3, x4, x5, x6)
  BY <1>1 DEF PlanNode
<1>3. \A v : [q(x1, x2, x3, x4, x5, x6) EXCEPT !.status = v] = q(x1, v, x3, x4, x5, x6)
  OBVIOUS
<1>4. \A v, w : [q(x1, v, x3, x4, x5, x6) EXCEPT !.updated = w] = q(x1, v, x3, x4, w, x6)
  OBVIOUS
<1>5. \A v, w, y : [q(x1, v, x3, x4, w, x6) EXCEPT !.summary = y] = q(x1, v, y, x4, w, x6)
  OBVIOUS
<1>6. \A v, w, y, z : [q(x1, v, y, x4, w, x6) EXCEPT !.folded = z] = q(x1, v, y, z, w, x6)
  OBVIOUS
<1> HIDE DEF q
<1>7. ASSUME NEW v, NEW w, NEW y, NEW z
      PROVE  [r EXCEPT !.status = v, !.updated = w, !.summary = y, !.folded = z]
               = q(x1, v, y, z, w, x6)
  <2>1. [r EXCEPT !.status = v] = q(x1, v, x3, x4, x5, x6)
    BY <1>2, <1>3, Zenon
  <2>2. [q(x1, v, x3, x4, x5, x6) EXCEPT !.updated = w] = q(x1, v, x3, x4, w, x6)
    BY <1>4, Zenon
  <2>3. [q(x1, v, x3, x4, w, x6) EXCEPT !.summary = y] = q(x1, v, y, x4, w, x6)
    BY <1>5, Zenon
  <2>4. [q(x1, v, y, x4, w, x6) EXCEPT !.folded = z] = q(x1, v, y, z, w, x6)
    BY <1>6, Zenon
  <2>5. QED  BY <2>1, <2>2, <2>3, <2>4, Zenon
<1>8. Restated(r, s, text) = [r EXCEPT !.status = s, !.updated = clock,
                                       !.summary = IF text = Blank THEN r.summary ELSE text,
                                       !.folded = r.folded /\ text = Blank]
  BY Zenon DEF Restated
<1>9. QED  BY <1>1, <1>7, <1>8, Zenon DEF q, Node

\* A fold: the summary, the mark and the stamp.
LEMMA FoldedFields ==
    ASSUME NEW r \in PlanNode, NEW text, NEW now
    PROVE  [r EXCEPT !.summary = text, !.folded = TRUE, !.updated = now]
             = Node(r.parent, r.status, text, TRUE, now, r.over)
<1> DEFINE q(x1, x2, x3, x4, x5, x6) ==
             [parent |-> x1, status |-> x2, summary |-> x3, folded |-> x4, updated |-> x5, over |-> x6]
<1>1. PICK x1, x2, x3, x4, x5, x6 : /\ x1 = r.parent /\ x2 = r.status /\ x3 = r.summary
                                    /\ x4 = r.folded /\ x5 = r.updated /\ x6 = r.over
  OBVIOUS
<1>2. r = q(x1, x2, x3, x4, x5, x6)
  BY <1>1 DEF PlanNode
<1>3. [q(x1, x2, x3, x4, x5, x6) EXCEPT !.summary = text] = q(x1, x2, text, x4, x5, x6)
  OBVIOUS
<1>4. \A z : [q(x1, x2, text, x4, x5, x6) EXCEPT !.folded = z] = q(x1, x2, text, z, x5, x6)
  OBVIOUS
<1>5. \A z : [q(x1, x2, text, z, x5, x6) EXCEPT !.updated = now] = q(x1, x2, text, z, now, x6)
  OBVIOUS
<1> HIDE DEF q
<1>6. [r EXCEPT !.summary = text, !.folded = TRUE, !.updated = now] = q(x1, x2, text, TRUE, now, x6)
  BY <1>2, <1>3, <1>4, <1>5, Zenon
<1>7. QED  BY <1>1, <1>6, Zenon DEF q, Node
-----------------------------------------------------------------------------
(* The inductive invariant. *)

\* The stamps of the records are in the past.
Stamped == \A n \in DOMAIN nodes : nodes[n].updated <= clock

IInv == TypeOK /\ Stamped /\ NoInheritedWork /\ HostTextKept

\* A step that writes one record through to the cache, and what it leaves of
\* the shapes.
LEMMA WriteType ==
    ASSUME TypeOK, Stamped, NEW seq \in Ordinals, NEW node \in PlanNode, WriteNode(seq, node),
           node.parent < seq, node.updated = clock, op' \subseteq DOMAIN cache',
           content' = content, clock' = clock, born' \in [Ordinals -> Nat],
           said' \in [Ordinals -> Seq(Texts)], rolled' \in BOOLEAN, trouble' = trouble
    PROVE  /\ TypeOK' /\ Stamped' /\ DOMAIN nodes' = DOMAIN nodes \cup {seq} /\ nodes'[seq] = node
           /\ \A n \in DOMAIN nodes : n # seq => nodes'[n] = nodes[n]
<1>1. /\ DOMAIN nodes' = DOMAIN nodes \cup {seq} /\ nodes'[seq] = node
      /\ \A n \in DOMAIN nodes : n # seq => nodes'[n] = nodes[n]
  BY DEF WriteNode, Put
<1>2. cache' = nodes'
  BY DEF WriteNode, TypeOK, CacheServesRecords
<1>3. \A n \in DOMAIN nodes' : nodes'[n] \in PlanNode /\ nodes'[n].parent < n /\ nodes'[n].updated <= clock
  <2>1. clock \in Nat /\ clock <= clock
    BY DEF TypeOK
  <2>2. \A n \in DOMAIN nodes : nodes[n] \in PlanNode /\ nodes[n].parent < n /\ nodes[n].updated <= clock
    BY DEF TypeOK, TreeIsAcyclic, Stamped
  <2>3. QED  BY <1>1, <2>1, <2>2
<1>4. TypeOK'
  BY <1>1, <1>2, <1>3 DEF TypeOK, CacheServesRecords, TreeIsAcyclic
<1>5. Stamped'
  BY <1>3 DEF Stamped
<1>6. QED  BY <1>1, <1>4, <1>5

\* A new ordinal is above every live one and every one that content names.
LEMMA NextSeqIsFresh ==
    ASSUME TypeOK
    PROVE  /\ NextSeq \in Nat \ {0}
           /\ \A n \in DOMAIN nodes : n < NextSeq
           /\ \A k \in DOMAIN content : content[k].node < NextSeq
<1> DEFINE N == {0} \cup {content[k].node : k \in DOMAIN content}
           M == {MaxNodeSeq} \cup DOMAIN cache
<1>1. MaxSeq \in Nat /\ cache = nodes
  BY ConstantsOK DEF TypeOK, CacheServesRecords
<1>2. N \in SUBSET Nat /\ N # {} /\ \A x \in N : x <= MaxSeq
  BY <1>1 DEF TypeOK, Ordinals
<1>3. MaxNodeSeq = Max(N)
  BY DEF MaxNodeSeq
<1> HIDE DEF N
<1>4. Max(N) \in N /\ \A x \in N : x <= Max(N)
  BY <1>1, <1>2, MaxOfBounded
<1>5. MaxNodeSeq \in Nat /\ MaxNodeSeq <= MaxSeq /\ \A k \in DOMAIN content : content[k].node <= MaxNodeSeq
  BY <1>2, <1>3, <1>4 DEF N
<1>6. M \in SUBSET Nat /\ M # {} /\ \A x \in M : x <= MaxSeq
  BY <1>1, <1>5 DEF TypeOK, Ordinals
<1>7. NextSeq = Max(M) + 1
  BY DEF NextSeq
<1> HIDE DEF M
<1>8. Max(M) \in M /\ \A x \in M : x <= Max(M)
  BY <1>1, <1>6, MaxOfBounded
<1>9. /\ Max(M) \in Nat /\ MaxNodeSeq <= Max(M) /\ \A n \in DOMAIN nodes : n \in Nat /\ n <= Max(M)
  BY <1>1, <1>6, <1>8 DEF M
<1>10. \A k \in DOMAIN content : content[k].node \in Nat
  BY DEF TypeOK, Ordinals
<1>11. QED  BY <1>5, <1>7, <1>9, <1>10

\* A new step: nothing names its ordinal.
LEMMA CreateKeeps ==
    ASSUME IInv, NEW parent \in 0..MaxSeq, CreateNode(parent)
    PROVE  IInv'
<1> USE DEF IInv
<1>1. PICK seq : seq = NextSeq
  OBVIOUS
<1>0. PICK no \in BOOLEAN : no = FALSE
  OBVIOUS
<1> DEFINE o    == IF parent = 0 THEN 0 ELSE born[parent]
           node == Node(parent, "in_progress", Blank, no, clock, o)
<1>2. /\ op = {} /\ seq \in Ordinals /\ (parent # 0 => parent \in DOMAIN nodes)
      /\ WriteNode(seq, node) /\ born' = [born EXCEPT ![seq] = @ + 1]
      /\ said' = [said EXCEPT ![seq] = Blank]
      /\ content' = content /\ clock' = clock /\ op' = op /\ rolled' = rolled /\ trouble' = trouble
  BY <1>0, <1>1, Zenon DEF CreateNode, Ready, HasSeq, Node, TypeOK, CacheServesRecords
<1>3. /\ seq \in Nat \ {0} /\ \A n \in DOMAIN nodes : n < seq
      /\ \A k \in DOMAIN content : content[k].node < seq
  BY <1>1, NextSeqIsFresh
<1>4. DOMAIN nodes \subseteq Nat /\ \A k \in DOMAIN content : content[k].node \in Nat
  BY DEF TypeOK, Ordinals
<1>5. o \in Nat /\ parent \in 0..MaxSeq /\ clock \in Nat /\ Blank \in Seq(Texts)
  BY <1>2 DEF TypeOK, Blank
<1> HIDE DEF o
<1>6. /\ node \in PlanNode /\ node.parent = parent /\ node.updated = clock /\ node.over = o
      /\ node.summary = Blank /\ node.folded = no
  BY <1>5, NodeFields DEF Statuses
<1>7. parent < seq
  BY <1>2, <1>3, <1>4, <1>5
<1>8. born' \in [Ordinals -> Nat] /\ said' \in [Ordinals -> Seq(Texts)]
  BY <1>2, <1>5 DEF TypeOK
<1> HIDE DEF node
<1>9. /\ TypeOK' /\ Stamped' /\ DOMAIN nodes' = DOMAIN nodes \cup {seq} /\ nodes'[seq] = node
      /\ \A n \in DOMAIN nodes : n # seq => nodes'[n] = nodes[n]
  <2>1. op' \subseteq DOMAIN cache' /\ rolled' \in BOOLEAN
    BY <1>2 DEF TypeOK
  <2>2. QED  BY <1>2, <1>6, <1>7, <1>8, <2>1, WriteType
<1>10. seq \notin DOMAIN nodes /\ (\A n \in DOMAIN nodes : born'[n] = born[n] /\ said'[n] = said[n])
       /\ said'[seq] = Blank
  BY <1>2, <1>3, <1>4 DEF TypeOK
<1>11. NoInheritedWork'
  <2>1. ASSUME NEW k \in DOMAIN content', content'[k].node \in DOMAIN nodes'
        PROVE  content'[k].owner = born'[content'[k].node]
    <3>1. content[k].node # seq /\ content[k].node \in DOMAIN nodes
      BY <1>2, <1>3, <1>4, <1>9, <2>1
    <3>2. QED  BY <1>2, <1>10, <2>1, <3>1 DEF NoInheritedWork
  <2>2. ASSUME NEW n \in DOMAIN nodes', nodes'[n].parent \in DOMAIN nodes'
        PROVE  nodes'[n].over = born'[nodes'[n].parent]
    <3>1. CASE n = seq
      <4>1. parent \in DOMAIN nodes /\ parent # 0
        BY <1>2, <1>3, <1>4, <1>6, <1>7, <1>9, <2>2, <3>1 DEF TypeOK, Ordinals
      <4>2. QED  BY <1>6, <1>9, <1>10, <3>1, <4>1 DEF o
    <3>2. CASE n # seq
      <4>1. n \in DOMAIN nodes /\ nodes'[n] = nodes[n] /\ nodes[n].parent < n /\ nodes[n] \in PlanNode
        BY <1>9, <3>2 DEF TypeOK, TreeIsAcyclic
      <4>2. nodes[n].parent \in Nat
        BY <4>1 DEF PlanNode
      <4>3. nodes[n].parent # seq
        BY <1>3, <1>4, <4>1, <4>2
      <4>4. nodes[n].parent \in DOMAIN nodes
        BY <1>9, <2>2, <4>1, <4>3
      <4>5. QED  BY <1>10, <4>1, <4>4 DEF NoInheritedWork
    <3>3. QED  BY <3>1, <3>2
  <2>3. QED  BY <2>1, <2>2 DEF NoInheritedWork
<1>12. HostTextKept'
  BY <1>9, <1>10 DEF HostTextKept
<1>13. QED  BY <1>9, <1>11, <1>12

\* What rewriting a record that keeps its place leaves of the attributions.
LEMMA RewriteKeepsWork ==
    ASSUME NoInheritedWork, NEW seq \in DOMAIN nodes, DOMAIN nodes' = DOMAIN nodes,
           \A n \in DOMAIN nodes : n # seq => nodes'[n] = nodes[n],
           nodes'[seq].parent = nodes[seq].parent, nodes'[seq].over = nodes[seq].over,
           content' = content, born' = born
    PROVE  NoInheritedWork'
<1>1. \A n \in DOMAIN nodes : nodes'[n].parent = nodes[n].parent /\ nodes'[n].over = nodes[n].over
  OBVIOUS
<1>2. QED  BY <1>1 DEF NoInheritedWork

\* The rollup visits live nodes only.
LEMMA VisitsLive == \A f, S : Visits(f, S) \subseteq S
  BY DEF Visits

\* A stated update takes the summary out of the library's hands.
LEMMA UpdateKeeps ==
    ASSUME IInv, NEW seq \in Ordinals, NEW s \in Statuses,
           NEW text \in {Blank} \cup {<<t>> : t \in Texts}, UpdateNode(seq, s, text)
    PROVE  IInv'
<1> USE DEF IInv
<1> DEFINE sum  == IF text = Blank THEN nodes[seq].summary ELSE text
           fold == nodes[seq].folded /\ text = Blank
           node == Node(nodes[seq].parent, s, sum, fold, clock, nodes[seq].over)
<1>1. nodes[seq] \in PlanNode /\ nodes[seq].parent < seq /\ seq \in DOMAIN nodes
  BY DEF UpdateNode, TypeOK, TreeIsAcyclic
<1>2. PICK r \in PlanNode : r = nodes[seq]
  BY <1>1
<1>3. Restated(r, s, text)
        = Node(r.parent, s, IF text = Blank THEN r.summary ELSE text, r.folded /\ text = Blank, clock, r.over)
  BY <1>2, RestatedFields
<1>4. Restated(nodes[seq], s, text) = node
  BY <1>2, <1>3, Zenon
<1>5. /\ WriteNode(seq, node)
      /\ said' = [said EXCEPT ![seq] = IF text = Blank THEN said[seq] ELSE text]
      /\ op' = Visits(cache', DOMAIN cache') /\ rolled' = (op' = {})
      /\ content' = content /\ clock' = clock /\ born' = born /\ trouble' = trouble
  BY <1>4, Zenon DEF UpdateNode
<1>6. text \in Seq(Texts) /\ clock \in Nat
  <2>1. \A t \in Texts : <<t>> \in Seq(Texts)
    OBVIOUS
  <2>2. Blank \in Seq(Texts)
    BY DEF Blank
  <2>3. QED  BY <2>1, <2>2 DEF TypeOK
<1>7. r.parent \in 0..MaxSeq /\ r.summary \in Seq(Texts) /\ r.updated \in Nat /\ r.over \in Nat
  BY DEF PlanNode
<1>8. fold \in BOOLEAN
  OBVIOUS
<1>9. sum \in Seq(Texts)
  BY <1>2, <1>6, <1>7
<1> HIDE DEF fold, sum
<1>10. /\ node \in PlanNode /\ node.parent = nodes[seq].parent /\ node.updated = clock
       /\ node.over = nodes[seq].over /\ node.summary = sum /\ node.folded = fold
  BY <1>2, <1>6, <1>7, <1>8, <1>9, NodeFields
<1> HIDE DEF node
<1>11. op' \subseteq DOMAIN cache' /\ rolled' \in BOOLEAN /\ born' \in [Ordinals -> Nat]
  BY <1>5, VisitsLive DEF TypeOK
<1>12. said' \in [Ordinals -> Seq(Texts)]
  BY <1>5, <1>6 DEF TypeOK
<1>13. /\ TypeOK' /\ Stamped' /\ DOMAIN nodes' = DOMAIN nodes /\ nodes'[seq] = node
       /\ \A n \in DOMAIN nodes : n # seq => nodes'[n] = nodes[n]
  <2>1. node.parent < seq
    BY <1>1, <1>10
  <2>2. WriteNode(seq, node) /\ content' = content /\ clock' = clock /\ trouble' = trouble
    BY <1>5
  <2>3. node \in PlanNode /\ node.updated = clock
    BY <1>10
  <2>4. op' \subseteq DOMAIN cache' /\ born' \in [Ordinals -> Nat]
    BY <1>11
  <2>5. rolled' \in BOOLEAN
    BY <1>11
  <2>6. /\ TypeOK' /\ Stamped' /\ DOMAIN nodes' = DOMAIN nodes \cup {seq} /\ nodes'[seq] = node
        /\ \A n \in DOMAIN nodes : n # seq => nodes'[n] = nodes[n]
    BY <1>12, <2>1, <2>2, <2>3, <2>4, <2>5, WriteType
  <2>7. DOMAIN nodes' = DOMAIN nodes
    BY <1>1, <2>6
  <2>8. QED  BY <2>6, <2>7
<1>14. NoInheritedWork'
  BY <1>1, <1>5, <1>10, <1>13, RewriteKeepsWork
<1>15. HostTextKept'
  <2>1. \A n \in Ordinals : n # seq => said'[n] = said[n]
    BY <1>5 DEF TypeOK
  <2>2. said'[seq] # Blank => sum = said'[seq] /\ ~fold
    <3>1. said'[seq] = IF text = Blank THEN said[seq] ELSE text
      BY <1>5 DEF TypeOK
    <3>2. said[seq] # Blank => nodes[seq].summary = said[seq] /\ ~nodes[seq].folded
      BY <1>1 DEF HostTextKept
    <3>3. QED  BY <3>1, <3>2 DEF sum, fold
  <2>3. ASSUME NEW n \in DOMAIN nodes', said'[n] # Blank
        PROVE  nodes'[n].summary = said'[n] /\ ~nodes'[n].folded
    <3>1. CASE n = seq
      BY <1>10, <1>13, <2>2, <2>3, <3>1
    <3>2. CASE n # seq
      BY <1>13, <2>1, <2>3, <3>2 DEF HostTextKept, TypeOK
    <3>3. QED  BY <3>1, <3>2
  <2>4. QED  BY <2>3 DEF HostTextKept
<1>16. QED  BY <1>13, <1>14, <1>15

\* A fold writes only where the host stated nothing.
LEMMA RollupKeeps ==
    ASSUME IInv, NEW seq \in op, RollupNode(seq)
    PROVE  IInv'
<1> USE DEF IInv
<1>0. PICK yes \in BOOLEAN : yes = TRUE
  OBVIOUS
<1> DEFINE sum  == Joined(cache, seq)
           node == Node(nodes[seq].parent, nodes[seq].status, sum, yes, clock, nodes[seq].over)
<1>1. /\ seq \in DOMAIN nodes /\ seq \in Ordinals /\ nodes[seq] \in PlanNode
      /\ nodes[seq].parent < seq /\ cache = nodes
  BY DEF TypeOK, TreeIsAcyclic, CacheServesRecords
<1>2. PICK r \in PlanNode : r = nodes[seq]
  BY <1>1
<1>3. sum \in Seq(Texts)
  BY <1>1, JoinedType DEF TypeOK
<1> HIDE DEF sum
<1>4. [r EXCEPT !.summary = sum, !.folded = TRUE, !.updated = clock]
        = Node(r.parent, r.status, sum, TRUE, clock, r.over)
  BY <1>2, FoldedFields
<1>5. /\ WriteNode(seq, node) /\ Folds(cache, seq)
      /\ op' = Visits(cache', op \ {seq}) /\ rolled' = (op' = {})
      /\ content' = content /\ clock' = clock /\ born' = born /\ said' = said /\ trouble' = trouble
  BY <1>0, <1>2, <1>4, Zenon DEF RollupNode, sum
<1>6. /\ r.parent \in 0..MaxSeq /\ r.status \in Statuses /\ r.over \in Nat /\ clock \in Nat
  BY DEF PlanNode, TypeOK
<1>7. /\ node \in PlanNode /\ node.parent = nodes[seq].parent /\ node.updated = clock
      /\ node.over = nodes[seq].over
  BY <1>2, <1>3, <1>6, NodeFields
<1> HIDE DEF node
<1>8. op' \subseteq DOMAIN cache' /\ rolled' \in BOOLEAN
  <2>1. op' \subseteq op /\ op \subseteq DOMAIN nodes
    BY <1>5, VisitsLive DEF TypeOK
  <2>2. DOMAIN nodes \subseteq DOMAIN cache'
    BY <1>1, <1>5 DEF WriteNode, Put
  <2>3. QED  BY <1>5, <2>1, <2>2
<1>9. /\ TypeOK' /\ Stamped' /\ DOMAIN nodes' = DOMAIN nodes /\ nodes'[seq] = node
      /\ \A n \in DOMAIN nodes : n # seq => nodes'[n] = nodes[n]
  <2>1. born' \in [Ordinals -> Nat] /\ said' \in [Ordinals -> Seq(Texts)]
    BY <1>5 DEF TypeOK
  <2>2. /\ TypeOK' /\ Stamped' /\ DOMAIN nodes' = DOMAIN nodes \cup {seq} /\ nodes'[seq] = node
        /\ \A n \in DOMAIN nodes : n # seq => nodes'[n] = nodes[n]
    <3>1. WriteNode(seq, node) /\ content' = content /\ clock' = clock /\ trouble' = trouble
      BY <1>5
    <3>2. node.parent < seq
      BY <1>1, <1>7
    <3>3. QED  BY <1>1, <1>7, <1>8, <2>1, <3>1, <3>2, WriteType
  <2>3. DOMAIN nodes' = DOMAIN nodes
    BY <1>1, <2>2
  <2>4. QED  BY <2>2, <2>3
<1>10. NoInheritedWork'
  BY <1>1, <1>5, <1>7, <1>9, RewriteKeepsWork
<1>11. said[seq] = Blank
  <2>1. nodes[seq].summary = Blank \/ nodes[seq].folded
    BY <1>1, <1>5 DEF Folds, Foldable
  <2>2. QED  BY <1>1, <2>1 DEF HostTextKept
<1>12. HostTextKept'
  BY <1>5, <1>9, <1>11 DEF HostTextKept
<1>13. QED  BY <1>9, <1>10, <1>12

\* The remaining steps write no node: they attribute content, drop some, drop
\* nodes from both sides, end a rollup or move the clock.
LEMMA OthersKeep ==
    ASSUME IInv,
           \/ RollupFails \/ DropExpiredArchives \/ PrunePlan \/ Tick \/ BuildPlanCache
           \/ \E slot \in 1..MaxSlot, seq \in Ordinals, at \in 0..clock : AppendArchive(slot, seq, at)
           \/ UNCHANGED vars
    PROVE  IInv'
<1> USE DEF IInv
<1>0. clock \in Nat /\ cache = nodes
  BY DEF TypeOK, CacheServesRecords
<1>1. ASSUME nodes' = nodes, cache' = cache, content' = content, born' = born, said' = said,
             op' \subseteq op, rolled' \in BOOLEAN, trouble' \in Nat, clock' \in Nat, clock <= clock'
      PROVE  IInv'
  <2>1. TypeOK'
    BY <1>1 DEF TypeOK, CacheServesRecords, TreeIsAcyclic
  <2>2. Stamped'
    <3>1. \A n \in DOMAIN nodes : nodes[n].updated \in Nat /\ nodes[n].updated <= clock
      BY DEF TypeOK, PlanNode, Stamped
    <3>2. QED  BY <1>0, <1>1, <3>1 DEF Stamped
  <2>3. NoInheritedWork' /\ HostTextKept'
    BY <1>1 DEF NoInheritedWork, HostTextKept
  <2>4. QED  BY <2>1, <2>2, <2>3
<1>2. CASE UNCHANGED vars
  <2>1. /\ nodes' = nodes /\ cache' = cache /\ content' = content /\ born' = born /\ said' = said
        /\ op' = op /\ rolled' = rolled /\ trouble' = trouble /\ clock' = clock
    BY <1>2 DEF vars
  <2>2. rolled' \in BOOLEAN /\ trouble' \in Nat
    BY <2>1 DEF TypeOK
  <2>3. QED  BY <1>0, <1>1, <2>1, <2>2
<1>3. CASE RollupFails \/ Tick \/ BuildPlanCache
  <2>1. /\ nodes' = nodes /\ cache' = cache /\ content' = content /\ born' = born /\ said' = said
        /\ op' \subseteq op /\ rolled' = rolled
        /\ trouble' \in {trouble, trouble + 1} /\ clock' \in {clock, clock + 1}
    BY <1>0, <1>3 DEF RollupFails, Tick, BuildPlanCache
  <2>2. rolled' \in BOOLEAN
    BY <2>1 DEF TypeOK
  <2>3. trouble' \in Nat /\ clock' \in Nat /\ clock <= clock'
    BY <1>0, <2>1 DEF TypeOK
  <2>4. QED  BY <1>1, <2>1, <2>2, <2>3
<1>4. ASSUME NEW slot \in 1..MaxSlot, NEW seq \in Ordinals, NEW at \in 0..clock,
             AppendArchive(slot, seq, at)
      PROVE  IInv'
  <2> DEFINE row == [node |-> seq, at |-> at, owner |-> born[seq]]
  <2>1. /\ content' = Put(content, slot, row) /\ seq \in DOMAIN nodes
        /\ nodes' = nodes /\ cache' = cache /\ clock' = clock /\ op' = op /\ born' = born
        /\ said' = said /\ rolled' = rolled /\ trouble' = trouble
    BY <1>0, <1>4 DEF AppendArchive, HasSeq
  <2>2. row \in [node : Ordinals, at : Nat, owner : Nat] /\ row.node = seq /\ row.owner = born[seq]
    BY <1>0 DEF TypeOK
  <2> HIDE DEF row
  <2>3. /\ DOMAIN content' = DOMAIN content \cup {slot} /\ content'[slot] = row
        /\ \A k \in DOMAIN content : k # slot => content'[k] = content[k]
    BY <2>1 DEF Put
  <2>4. TypeOK'
    BY <2>1, <2>2, <2>3 DEF TypeOK, CacheServesRecords, TreeIsAcyclic
  <2>5. Stamped' /\ HostTextKept'
    BY <2>1 DEF Stamped, HostTextKept
  <2>6. NoInheritedWork'
    BY <2>1, <2>2, <2>3 DEF NoInheritedWork
  <2>7. QED  BY <2>4, <2>5, <2>6
<1>5. CASE DropExpiredArchives
  <2>1. PICK K : content' = Drop(content, K)
    BY <1>5 DEF DropExpiredArchives
  <2>2. /\ nodes' = nodes /\ cache' = cache /\ clock' = clock /\ op' = op /\ born' = born
        /\ said' = said /\ rolled' = rolled /\ trouble' = trouble
    BY <1>5 DEF DropExpiredArchives
  <2>3. DOMAIN content' \subseteq DOMAIN content /\ \A k \in DOMAIN content' : content'[k] = content[k]
    BY <2>1 DEF Drop
  <2>4. TypeOK'
    BY <2>2, <2>3 DEF TypeOK, CacheServesRecords, TreeIsAcyclic
  <2>5. Stamped' /\ HostTextKept' /\ NoInheritedWork'
    BY <2>2, <2>3 DEF Stamped, HostTextKept, NoInheritedWork
  <2>6. QED  BY <2>4, <2>5
<1>6. CASE PrunePlan
  <2>1. PICK K : nodes' = Drop(nodes, K) /\ cache' = Drop(cache, K)
    BY <1>6 DEF PrunePlan
  <2>2. /\ content' = content /\ clock' = clock /\ op' = {} /\ born' = born
        /\ said' = said /\ rolled' = FALSE /\ trouble' = trouble
    BY <1>6 DEF PrunePlan, Ready
  <2>3. DOMAIN nodes' \subseteq DOMAIN nodes /\ \A n \in DOMAIN nodes' : nodes'[n] = nodes[n]
    BY <2>1 DEF Drop
  <2>4. cache' = nodes'
    BY <1>0, <2>1
  <2>5. TypeOK'
    BY <2>2, <2>3, <2>4 DEF TypeOK, CacheServesRecords, TreeIsAcyclic
  <2>6. Stamped' /\ HostTextKept' /\ NoInheritedWork'
    BY <2>2, <2>3 DEF Stamped, HostTextKept, NoInheritedWork
  <2>7. QED  BY <2>5, <2>6
<1>7. QED  BY <1>2, <1>3, <1>4, <1>5, <1>6

\* An empty tree has it.
LEMMA InitKeeps == Init => IInv
<1> SUFFICES ASSUME Init PROVE IInv
  OBVIOUS
<1>1. DOMAIN nodes = {} /\ DOMAIN content = {} /\ cache = nodes /\ op = {}
  BY DEF Init, Nothing
<1>2. born \in [Ordinals -> Nat] /\ said \in [Ordinals -> Seq(Texts)] /\ clock \in Nat /\ trouble \in Nat
  BY DEF Init, Blank
<1>3. rolled \in BOOLEAN
  BY DEF Init
<1>4. QED
  BY <1>1, <1>2, <1>3 DEF IInv, TypeOK, CacheServesRecords, TreeIsAcyclic, Stamped, NoInheritedWork,
                          HostTextKept

\* Every step keeps it.
LEMMA StepKeeps == IInv /\ [Next]_vars => IInv'
  BY CreateKeeps, UpdateKeeps, RollupKeeps, OthersKeep DEF Next

\* The inductive invariant: the shapes, the forest, the cache that holds the
\* records, the attributions and the host's summaries.
THEOREM Invariance == Spec => []IInv
  BY InitKeeps, StepKeeps, PTL DEF Spec

\* The records are a forest of typed nodes and the cache holds exactly them, at
\* every point of a rollup and after every failure, sweep and restart
\* (writeNode, RemoveNodes, buildPlanCache).
THEOREM TypeCorrectness == Spec => []TypeOK
<1>1. IInv => TypeOK
  BY DEF IInv
<1>2. QED  BY <1>1, Invariance, PTL

\* No step inherits the content or the sub-steps of one that was swept
\* (NextSeq).
THEOREM WorkIsOwned == Spec => []NoInheritedWork
<1>1. IInv => NoInheritedWork
  BY DEF IInv
<1>2. QED  BY <1>1, Invariance, PTL

\* A fold never overwrites what the host stated (rollupNode, UpdateNode).
THEOREM HostTextStays == Spec => []HostTextKept
<1>1. IInv => HostTextKept
  BY DEF IInv
<1>2. QED  BY <1>1, Invariance, PTL

\* A sweep that reaches into an unfinished tree takes all of it: the newest
\* stamp, and so every one, is older than the window.
LEMMA SweepIsWhole ==
    ASSUME IInv, PrunePlan, HasNonDone(nodes)
    PROVE  DOMAIN nodes' = {}
<1> DEFINE U == {0} \cup {nodes[n].updated : n \in DOMAIN nodes}
<1>1. clock \in Nat /\ Window \in Nat /\ \A n \in DOMAIN nodes : nodes[n].updated \in 0..clock
  BY ConstantsOK DEF IInv, TypeOK, PlanNode, Stamped
<1>2. U \in SUBSET Nat /\ U # {} /\ \A x \in U : x <= clock
  BY <1>1
<1>3. LastActiveAt(nodes) = Max(U)
  BY DEF LastActiveAt
<1> HIDE DEF U
<1>4. Max(U) \in U /\ \A x \in U : x <= Max(U)
  BY <1>1, <1>2, MaxOfBounded
<1>5. Doomed # {} /\ nodes' = Drop(nodes, Doomed)
  BY DEF PrunePlan
<1>6. Max(U) \in Nat /\ Cutoff \in Int
  BY <1>1, <1>2, <1>4 DEF Cutoff
<1>7. Max(U) < Cutoff /\ Doomed = {n \in DOMAIN nodes : nodes[n].updated < Cutoff}
  BY <1>3, <1>5, <1>6 DEF Doomed
<1>8. \A n \in DOMAIN nodes : nodes[n].updated < Cutoff
  <2>1. ASSUME NEW n \in DOMAIN nodes PROVE nodes[n].updated < Cutoff
    <3>1. nodes[n].updated \in U
      BY DEF U
    <3>2. nodes[n].updated <= Max(U) /\ nodes[n].updated \in Nat
      BY <1>1, <1>4, <3>1
    <3>3. QED  BY <1>6, <1>7, <3>2
  <2>2. QED  BY <2>1
<1>9. Doomed = DOMAIN nodes
  BY <1>7, <1>8
<1>10. QED  BY <1>5, <1>9 DEF Drop

\* No other step takes a record out.
LEMMA OnlySweepsRemove ==
    ASSUME [Next]_vars, ~ PrunePlan
    PROVE  DOMAIN nodes \subseteq DOMAIN nodes'
<1>1. \A seq, node : WriteNode(seq, node) => DOMAIN nodes \subseteq DOMAIN nodes'
  BY DEF WriteNode, Put
<1>2. ASSUME NEW parent, CreateNode(parent) PROVE DOMAIN nodes \subseteq DOMAIN nodes'
  BY <1>1, <1>2, Zenon DEF CreateNode
<1>3. ASSUME NEW seq, NEW s, NEW text, UpdateNode(seq, s, text) PROVE DOMAIN nodes \subseteq DOMAIN nodes'
  BY <1>1, <1>3, Zenon DEF UpdateNode
<1>4. ASSUME NEW seq, RollupNode(seq) PROVE DOMAIN nodes \subseteq DOMAIN nodes'
  BY <1>1, <1>4, Zenon DEF RollupNode
<1>5. ASSUME \/ RollupFails \/ DropExpiredArchives \/ Tick \/ BuildPlanCache
             \/ \E slot, seq, at : AppendArchive(slot, seq, at)
             \/ UNCHANGED vars
      PROVE  DOMAIN nodes \subseteq DOMAIN nodes'
  BY <1>5 DEF RollupFails, DropExpiredArchives, Tick, BuildPlanCache, AppendArchive, vars
<1>6. QED  BY <1>2, <1>3, <1>4, <1>5 DEF Next

\* An unfinished tree is swept whole or not at all (PrunePlanStage), for any
\* window and any clock.
THEOREM SweptWhole == Spec => InFlightTreeSweptWhole
<1>1. IInv /\ [Next]_vars
        => [HasNonDone(nodes) /\ DOMAIN nodes' # DOMAIN nodes
              => DOMAIN nodes \subseteq DOMAIN nodes' \/ DOMAIN nodes' = {}]_vars
  BY SweepIsWhole, OnlySweepsRemove
<1>2. QED  BY <1>1, Invariance, PTL DEF Spec, InFlightTreeSweptWhole
-----------------------------------------------------------------------------
(* The rollup folds every branch. *)

\* A rollup that has ended left nothing to visit; while one runs, or when it
\* has ended, whatever still folds waits for its visit; and with a step its
\* parent waits, which the step's own fold may make fold.
RollsUp ==
    /\ rolled => op = {}
    /\ rolled \/ op # {} => \A n \in DOMAIN nodes \ op : ~ Folds(nodes, n)
    /\ \A n \in op : nodes[n].parent \in DOMAIN nodes => nodes[n].parent \in op

\* Whether a step folds is read from its own record and its children's.
LEMMA FoldsReads ==
    ASSUME NEW f, NEW g, NEW n \in DOMAIN f, n \in DOMAIN g, f[n] = g[n],
           Children(f, n) = Children(g, n), \A c \in Children(f, n) : f[c] = g[c]
    PROVE  Folds(f, n) <=> Folds(g, n)
<1> DEFINE a == [m \in DOMAIN f |-> f[m].summary]
           b == [m \in DOMAIN g |-> g[m].summary]
<1>1. \A c \in Children(f, n) : a[c] = b[c]
  BY DEF Children
<1>2. Joined(f, n) = InOrder(Children(f, n), a) /\ Joined(g, n) = InOrder(Children(g, n), b)
  BY Zenon DEF Joined
<1> HIDE DEF a, b
<1>3. Joined(f, n) = Joined(g, n)
  BY <1>1, <1>2, InOrderReads
<1>4. QED  BY <1>3 DEF Folds, Foldable

\* What of todo a rollup need not visit does not fold, and with a step it
\* visits the parent.
LEMMA VisitsSuffice ==
    ASSUME NEW f, IsForest(f), NEW todo, todo \subseteq DOMAIN f,
           \A n \in todo : f[n].parent \in DOMAIN f => f[n].parent \in todo
    PROVE  /\ \A n \in todo \ Visits(f, todo) : ~ Folds(f, n)
           /\ \A n \in Visits(f, todo) : f[n].parent \in DOMAIN f => f[n].parent \in Visits(f, todo)
<1>1. /\ \A n : ~ Before(f, n, n)
      /\ \A m, n, k : Before(f, m, n) /\ Before(f, n, k) => Before(f, m, k)
      /\ \A n \in DOMAIN f : f[n].parent \in DOMAIN f => Before(f, n, f[n].parent)
  BY BeforeOrder
<1>2. \A n \in todo \ Visits(f, todo) : ~ Folds(f, n)
  BY <1>1 DEF Visits
<1>3. ASSUME NEW n \in Visits(f, todo), f[n].parent \in DOMAIN f
      PROVE  f[n].parent \in Visits(f, todo)
  <2>1. PICK m \in todo : n \in todo /\ Folds(f, m) /\ ~ Before(f, n, m)
    BY DEF Visits
  <2>2. PICK p : p = f[n].parent
    OBVIOUS
  <2>3. Before(f, n, p) /\ p \in todo
    BY <1>1, <1>3, <2>1, <2>2
  <2>4. ~ Before(f, p, m)
    BY <1>1, <2>1, <2>3
  <2>5. p \in Visits(f, todo)
    BY <2>1, <2>3, <2>4 DEF Visits
  <2>6. QED  BY <2>2, <2>5
<1>4. QED  BY <1>2, <1>3

\* Typed records whose parents are below them are a forest.
LEMMA RecordsAreForest ==
    ASSUME NEW f, DOMAIN f \subseteq Ordinals, \A n \in DOMAIN f : f[n] \in PlanNode,
           \A n \in DOMAIN f : f[n].parent < n
    PROVE  IsForest(f)
<1>1. \A n \in DOMAIN f : f[n].parent \in Nat
  BY ConstantsOK DEF PlanNode
<1>2. QED  BY <1>1 DEF IsForest

\* A new step does not fold, keeps its parent from folding and leaves the rest.
LEMMA CreateRolls ==
    ASSUME IInv, RollsUp, NEW parent \in 0..MaxSeq, CreateNode(parent)
    PROVE  RollsUp'
<1>1. PICK seq, node : seq = NextSeq /\ node = [parent |-> parent, status |-> "in_progress", summary |-> Blank,
                           folded |-> FALSE, updated |-> clock,
                           over |-> IF parent = 0 THEN 0 ELSE born[parent]]
  OBVIOUS
<1>2. op = {} /\ op' = op /\ rolled' = rolled /\ nodes' = Put(nodes, seq, node)
  BY <1>1, Zenon DEF CreateNode, Ready, WriteNode
<1>3. node.parent = parent /\ node.status = "in_progress"
  BY <1>1
<1>4. /\ DOMAIN nodes' = DOMAIN nodes \cup {seq} /\ nodes'[seq] = node
      /\ \A n \in DOMAIN nodes : n # seq => nodes'[n] = nodes[n]
  BY <1>2 DEF Put
<1>5. \A n \in DOMAIN nodes : n < seq /\ n \in Nat
  BY <1>1, NextSeqIsFresh DEF IInv, TypeOK, Ordinals
<1>6. seq \notin DOMAIN nodes
  BY <1>5
<1>7. ASSUME rolled, NEW n \in DOMAIN nodes'  PROVE ~ Folds(nodes', n)
  <2>1. CASE n = seq
    BY <1>3, <1>4, <2>1 DEF Folds, Foldable
  <2>2. CASE n # seq /\ n = parent
    <3>1. seq \in Children(nodes', n)
      BY <1>3, <1>4, <2>2 DEF Children
    <3>2. ~ IsTerminalStatus(nodes'[seq].status)
      BY <1>3, <1>4 DEF IsTerminalStatus
    <3>3. QED  BY <3>1, <3>2 DEF Folds, Foldable
  <2>3. CASE n # seq /\ n # parent
    <3>1. n \in DOMAIN nodes /\ nodes[n] = nodes'[n]
      BY <1>4, <2>3
    <3>2. Children(nodes, n) = Children(nodes', n)
      BY <1>3, <1>4, <1>6, <2>3 DEF Children
    <3>3. \A c \in Children(nodes, n) : nodes[c] = nodes'[c]
      BY <1>4, <1>6 DEF Children
    <3>4. Folds(nodes, n) <=> Folds(nodes', n)
      BY <3>1, <3>2, <3>3, FoldsReads
    <3>5. ~ Folds(nodes, n)
      BY <1>2, <1>7, <3>1 DEF RollsUp
    <3>6. QED  BY <3>4, <3>5
  <2>4. QED  BY <2>1, <2>2, <2>3
<1>8. QED  BY <1>2, <1>7 DEF RollsUp

\* An update sets out to visit whatever folds.
LEMMA UpdateRolls ==
    ASSUME IInv', NEW seq, NEW s, NEW text, UpdateNode(seq, s, text)
    PROVE  RollsUp'
<1>1. IsForest(nodes') /\ cache' = nodes'
  <2>1. TypeOK'
    BY DEF IInv
  <2>2. IsForest(nodes')
    BY <2>1, RecordsAreForest DEF TypeOK, TreeIsAcyclic
  <2>3. QED  BY <2>1, <2>2 DEF TypeOK, CacheServesRecords
<1>2. op' = Visits(nodes', DOMAIN nodes') /\ rolled' = (op' = {})
  BY <1>1, Zenon DEF UpdateNode
<1>3. /\ \A n \in DOMAIN nodes' \ op' : ~ Folds(nodes', n)
      /\ \A n \in op' : nodes'[n].parent \in DOMAIN nodes' => nodes'[n].parent \in op'
  BY <1>1, <1>2, VisitsSuffice
<1>4. QED  BY <1>2, <1>3 DEF RollsUp

\* What a fold writes.
LEMMA RollupWrites ==
    ASSUME IInv, NEW seq \in op, RollupNode(seq)
    PROVE  /\ DOMAIN nodes' = DOMAIN nodes /\ seq \in DOMAIN nodes
           /\ \A n \in DOMAIN nodes : n # seq => nodes'[n] = nodes[n]
           /\ nodes'[seq].parent = nodes[seq].parent
           /\ nodes'[seq].summary = Joined(nodes, seq)
<1>1. seq \in DOMAIN nodes /\ nodes[seq] \in PlanNode /\ cache = nodes
  BY DEF IInv, TypeOK, CacheServesRecords
<1>2. PICK r \in PlanNode : r = nodes[seq]
  BY <1>1
<1>3. PICK yes \in BOOLEAN : yes = TRUE
  OBVIOUS
<1>4. PICK sum, now : sum = Joined(nodes, seq) /\ now = clock
  OBVIOUS
<1>5. PICK node : node = Node(r.parent, r.status, sum, yes, now, r.over)
  OBVIOUS
<1>6. node.parent = r.parent /\ node.summary = sum
  BY <1>5, NodeFields
<1>7. [r EXCEPT !.summary = sum, !.folded = TRUE, !.updated = now] = node
  BY <1>5, <1>3, FoldedFields, Zenon
<1>8. nodes' = Put(nodes, seq, node)
  BY <1>1, <1>2, <1>7, <1>4, Zenon DEF RollupNode, WriteNode
<1>9. /\ DOMAIN nodes' = DOMAIN nodes /\ nodes'[seq] = node
      /\ \A n \in DOMAIN nodes : n # seq => nodes'[n] = nodes[n]
  BY <1>1, <1>8 DEF Put
<1>10. QED  BY <1>1, <1>2, <1>6, <1>9, <1>4

\* A fold settles its step; only the parent, which waits, may start to fold.
LEMMA RollupRolls ==
    ASSUME IInv, IInv', RollsUp, NEW seq \in op, RollupNode(seq)
    PROVE  RollsUp'
<1>1. /\ DOMAIN nodes' = DOMAIN nodes /\ seq \in DOMAIN nodes
      /\ \A n \in DOMAIN nodes : n # seq => nodes'[n] = nodes[n]
      /\ nodes'[seq].parent = nodes[seq].parent
      /\ nodes'[seq].summary = Joined(nodes, seq)
  BY RollupWrites
<1>2. IsForest(nodes) /\ IsForest(nodes') /\ cache = nodes /\ cache' = nodes' /\ op \subseteq DOMAIN nodes
  <2>1. TypeOK /\ TypeOK'
    BY DEF IInv
  <2>2. IsForest(nodes')
    BY <2>1, RecordsAreForest DEF TypeOK, TreeIsAcyclic
  <2>3. IsForest(nodes)
    BY <2>1, RecordsAreForest DEF TypeOK, TreeIsAcyclic
  <2>4. QED  BY <2>1, <2>2, <2>3 DEF TypeOK, CacheServesRecords
<1>3. /\ op' = Visits(nodes', op \ {seq}) /\ rolled' = (op' = {})
      /\ \A n \in op : ~ Before(nodes, n, seq)
  BY <1>2, Zenon DEF RollupNode
<1>4. \A n \in DOMAIN nodes : nodes'[n].parent = nodes[n].parent
  BY <1>1
<1>5. \A n : Children(nodes, n) = Children(nodes', n)
  BY <1>1, <1>4 DEF Children
<1>6. \A n \in op \ {seq} : nodes'[n].parent \in DOMAIN nodes' => nodes'[n].parent \in op \ {seq}
  <2>1. ASSUME NEW n \in op, n # seq, nodes[n].parent \in DOMAIN nodes  PROVE nodes[n].parent \in op \ {seq}
    <3>1. nodes[n].parent \in op
      BY <2>1 DEF RollsUp
    <3>2. Before(nodes, n, nodes[n].parent)
      BY <1>2, <2>1, BeforeOrder
    <3>3. QED  BY <1>3, <3>1, <3>2
  <2>2. QED  BY <1>1, <1>2, <1>4, <2>1
<1>7. /\ \A n \in (op \ {seq}) \ op' : ~ Folds(nodes', n)
      /\ \A n \in op' : nodes'[n].parent \in DOMAIN nodes' => nodes'[n].parent \in op'
  <2>1. op \ {seq} \subseteq DOMAIN nodes'
    BY <1>1, <1>2
  <2>2. QED  BY <1>2, <1>3, <1>6, <2>1, VisitsSuffice
<1>8. ~ Folds(nodes', seq)
  <2> DEFINE a == [m \in DOMAIN nodes |-> nodes[m].summary]
             b == [m \in DOMAIN nodes' |-> nodes'[m].summary]
  <2>1. seq \notin Children(nodes, seq)
    BY <1>2 DEF Children, IsForest
  <2>2. \A c \in Children(nodes, seq) : a[c] = b[c]
    BY <1>1, <2>1 DEF Children
  <2>3. Joined(nodes, seq) = InOrder(Children(nodes, seq), a)
    BY Zenon DEF Joined
  <2>4. Joined(nodes', seq) = InOrder(Children(nodes', seq), b)
    BY Zenon DEF Joined
  <2> HIDE DEF a, b
  <2>5. Joined(nodes, seq) = Joined(nodes', seq)
    BY <1>5, <2>2, <2>3, <2>4, InOrderReads
  <2>6. QED  BY <1>1, <2>5 DEF Folds
<1>9. ASSUME NEW n \in DOMAIN nodes, n \notin op  PROVE ~ Folds(nodes', n)
  <2>1. n # seq /\ n # nodes[seq].parent
    BY <1>9 DEF RollsUp
  <2>2. seq \notin Children(nodes, n)
    BY <2>1 DEF Children
  <2>3. \A c \in Children(nodes, n) : nodes[c] = nodes'[c]
    BY <1>1, <2>2 DEF Children
  <2>4. n \in DOMAIN nodes' /\ nodes[n] = nodes'[n]
    BY <1>1, <2>1
  <2>5. Folds(nodes, n) <=> Folds(nodes', n)
    BY <1>5, <2>3, <2>4, FoldsReads
  <2>6. ~ Folds(nodes, n)
    BY <1>9 DEF RollsUp
  <2>7. QED  BY <2>5, <2>6
<1>10. \A n \in DOMAIN nodes' \ op' : ~ Folds(nodes', n)
  BY <1>1, <1>7, <1>8, <1>9
<1>11. QED  BY <1>3, <1>7, <1>10 DEF RollsUp

\* The remaining steps fold nothing; a failing fold and a sweep void the claim.
LEMMA OthersRoll ==
    ASSUME RollsUp,
           \/ RollupFails \/ DropExpiredArchives \/ PrunePlan \/ Tick \/ BuildPlanCache
           \/ \E slot \in 1..MaxSlot, seq \in Ordinals, at \in 0..clock : AppendArchive(slot, seq, at)
           \/ UNCHANGED vars
    PROVE  RollsUp'
<1>1. CASE PrunePlan
  BY <1>1 DEF PrunePlan, Ready, RollsUp
<1>2. CASE RollupFails
  BY <1>2 DEF RollupFails, Ready, RollsUp
<1>3. ASSUME nodes' = nodes, op' = op \/ op' = {}, rolled' = rolled  PROVE RollsUp'
  BY <1>3 DEF RollsUp
<1>4. CASE BuildPlanCache
  BY <1>3, <1>4 DEF BuildPlanCache
<1>5. CASE DropExpiredArchives \/ Tick \/ UNCHANGED vars
  BY <1>3, <1>5 DEF DropExpiredArchives, Tick, vars
<1>6. ASSUME NEW slot, NEW seq, NEW at, AppendArchive(slot, seq, at)  PROVE RollsUp'
  BY <1>3, <1>6 DEF AppendArchive
<1>7. QED  BY <1>1, <1>2, <1>4, <1>5, <1>6

\* Whatever is to fold waits for its visit, through failures, restarts and
\* sweeps (RollupTree).
THEOREM RollupInvariance == Spec => [](IInv /\ RollsUp)
<1>1. Init => RollsUp
  <2> SUFFICES ASSUME Init PROVE RollsUp
    OBVIOUS
  <2>1. DOMAIN nodes = {} /\ op = {}
    BY DEF Init, Nothing
  <2>2. QED  BY <2>1 DEF RollsUp
<1>2. IInv /\ IInv' /\ RollsUp /\ [Next]_vars => RollsUp'
  <2> SUFFICES ASSUME IInv, IInv', RollsUp, [Next]_vars  PROVE RollsUp'
    OBVIOUS
  <2>1. ASSUME NEW parent \in 0..MaxSeq, CreateNode(parent)  PROVE RollsUp'
    BY <2>1, CreateRolls
  <2>2. ASSUME NEW seq, NEW s, NEW text, UpdateNode(seq, s, text)  PROVE RollsUp'
    BY <2>2, UpdateRolls
  <2>3. ASSUME NEW seq \in op, RollupNode(seq)  PROVE RollsUp'
    BY <2>3, RollupRolls
  <2>4. QED  BY <2>1, <2>2, <2>3, OthersRoll DEF Next
<1>3. QED  BY <1>1, <1>2, Invariance, PTL DEF Spec

\* Where nothing folds, a step carries what its whole branch comes to.
LEMMA NothingFolds ==
    ASSUME TypeOK, \A n \in DOMAIN nodes : ~ Folds(nodes, n)
    PROVE  \A n \in DOMAIN nodes : nodes[n].summary = Expected[n]
<1> DEFINE Words(w, n) == InOrder(Children(nodes, n), w)
           Val(w, n) == IF /\ Children(nodes, n) # {} /\ Words(w, n) # Blank
                           /\ nodes[n].status = "done" /\ (nodes[n].summary = Blank \/ nodes[n].folded)
                           /\ \A m \in Children(nodes, n) : IsTerminalStatus(nodes[m].status)
                        THEN Words(w, n) ELSE nodes[n].summary
           E(w) == [n \in DOMAIN nodes |-> Val(w, n)]
           own == [n \in DOMAIN nodes |-> nodes[n].summary]
<1>1. IsForest(nodes) /\ MaxSeq \in Nat /\ DOMAIN nodes \subseteq 1..MaxSeq
  BY RecordsAreForest, ConstantsOK DEF TypeOK, TreeIsAcyclic, Ordinals
<1>2. \A n \in DOMAIN nodes : Joined(nodes, n) = Words(own, n)
  BY DEF Joined
<1>3. \A n \in DOMAIN nodes : nodes[n].summary = Val(own, n)
  <2>1. ASSUME NEW n \in DOMAIN nodes  PROVE nodes[n].summary = Val(own, n)
    <3>1. ~ Folds(nodes, n) /\ Joined(nodes, n) = Words(own, n)
      BY <1>2
    <3>2. PICK J : J = Joined(nodes, n) /\ J = Words(own, n)
      BY <3>1
    <3> HIDE DEF Words
    <3>3. QED  BY <3>1, <3>2 DEF Folds, Foldable
  <2>2. QED  BY <2>1
<1>4. own = E(own)
  <2> HIDE DEF Val
  <2>1. QED  BY <1>3
<1>5. PICK w : w = CHOOSE u : u = E(u)
  OBVIOUS
<1>6. w = E(w)
  <2> HIDE DEF E
  <2>1. QED  BY <1>4, <1>5
<1>7. Expected = w
  BY <1>5, Zenon DEF Expected
<1> DEFINE Bad == {n \in DOMAIN nodes : w[n] # nodes[n].summary}
<1>8. Bad = {}
  <2> SUFFICES ASSUME Bad # {} PROVE FALSE
    OBVIOUS
  <2>1. PICK n \in Bad : \A k \in Bad : k <= n
    <3>1. Bad \in SUBSET Nat /\ \A x \in Bad : x <= MaxSeq
      BY <1>1
    <3> HIDE DEF Bad
    <3>2. QED  BY <1>1, <3>1, BoundedSetHasMax
  <2>2. n \in DOMAIN nodes /\ n \in Nat /\ w[n] # nodes[n].summary
    BY <1>1
  <2>3. \A c \in Children(nodes, n) : c \in DOMAIN nodes /\ c \in Nat /\ ~(c <= n)
    BY <1>1, <2>2 DEF Children, IsForest
  <2>4. \A c \in Children(nodes, n) : w[c] = own[c]
    BY <2>1, <2>3
  <2>5. Words(w, n) = Words(own, n)
    <3> HIDE DEF own
    <3>1. QED  BY <2>4, InOrderReads
  <2>6. Val(w, n) = Val(own, n)
    <3> HIDE DEF Words
    <3>1. QED  BY <2>5
  <2>7. w[n] = Val(w, n)
    <3> HIDE DEF Val
    <3>1. QED  BY <1>6, <2>2
  <2>8. QED  BY <1>3, <2>2, <2>6, <2>7
<1>9. QED  BY <1>7, <1>8

\* After an update whose rollup ran to its end every step carries the fold of
\* its whole branch, for a tree of any depth and after any failed rollup, sweep
\* or restart (RollupTree).
THEOREM FoldsComplete == Spec => []FoldsAreComplete
<1>1. IInv /\ RollsUp => FoldsAreComplete
  <2> SUFFICES ASSUME IInv, RollsUp, rolled  PROVE \A n \in DOMAIN nodes : nodes[n].summary = Expected[n]
    BY DEF FoldsAreComplete
  <2>1. \A n \in DOMAIN nodes : ~ Folds(nodes, n)
    BY DEF RollsUp
  <2>2. QED  BY <2>1, NothingFolds DEF IInv
<1>2. QED  BY <1>1, RollupInvariance, PTL
=============================================================================
