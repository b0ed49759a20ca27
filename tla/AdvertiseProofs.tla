--------------------------- MODULE AdvertiseProofs ---------------------------
(***************************************************************************)
(* From a host's interfaces to what far daemons read, on every host: the   *)
(* properties of Boot and Advertise.                                       *)
(***************************************************************************)
EXTENDS Advertise, ShortestPathProofs, SequenceTheorems

-----------------------------------------------------------------------------
(* Concatenation of a sequence of sequences                                *)

\* f has the first i sequences of s put together, for every i up to n.
Joins(s, f, n) == f[0] = <<>> /\ \A i \in 1..n : f[i] = f[i - 1] \o s[i]

\* The partial concatenations of s exist.
LEMMA JoinsExists ==
  ASSUME NEW B, NEW s \in Seq(Seq(B)), NEW n \in 0..Len(s)
  PROVE  \E f \in [0..n -> Seq(B)] : Joins(s, f, n)
  <1> DEFINE T == {m \in Nat : m <= Len(s) => \E f \in [0..m -> Seq(B)] : Joins(s, f, m)}
  <1>1. 0 \in T
    <2> DEFINE f == [i \in 0..0 |-> <<>>]
    <2>1. f \in [0..0 -> Seq(B)] /\ Joins(s, f, 0)
      BY DEF Joins
    <2> QED BY <2>1
  <1>2. ASSUME NEW m \in Nat, m \in T PROVE m + 1 \in T
    <2> SUFFICES ASSUME m + 1 <= Len(s)
                 PROVE  \E f \in [0..(m + 1) -> Seq(B)] : Joins(s, f, m + 1)
      OBVIOUS
    <2>1. PICK f \in [0..m -> Seq(B)] : Joins(s, f, m)
      BY <1>2
    <2>2. s[m + 1] \in Seq(B) /\ f[m] \in Seq(B)
      OBVIOUS
    <2>3. f[m] \o s[m + 1] \in Seq(B)
      BY <2>2, ConcatProperties
    <2> DEFINE x == f[m] \o s[m + 1]
               g == [i \in 0..(m + 1) |-> IF i <= m THEN f[i] ELSE x]
    <2>4. g \in [0..(m + 1) -> Seq(B)]
      <3> HIDE DEF x
      <3> QED BY <2>3 DEF x
    <2>5. g[0] = <<>>
      BY <2>1 DEF Joins
    <2>6. ASSUME NEW i \in 1..(m + 1) PROVE g[i] = g[i - 1] \o s[i]
      <3>1. i - 1 \in 0..(m + 1) /\ i - 1 <= m /\ i \in 0..(m + 1)
        OBVIOUS
      <3>2. g[i - 1] = f[i - 1]
        BY <3>1
      <3>3. CASE i <= m
        <4>1. g[i] = f[i]
          BY <3>1, <3>3
        <4>2. i \in 1..m
          BY <3>3
        <4>3. f[i] = f[i - 1] \o s[i]
          BY <2>1, <4>2 DEF Joins
        <4> HIDE DEF g
        <4> QED BY <3>2, <4>1, <4>3, Zenon
      <3>4. CASE i = m + 1
        <4>1. g[i] = x
          <5> HIDE DEF x
          <5> QED BY <3>1, <3>4
        <4>2. i - 1 = m
          BY <3>4
        <4> HIDE DEF g
        <4> QED BY <3>2, <3>4, <4>1, <4>2, Zenon
      <3>5. i <= m \/ i = m + 1
        OBVIOUS
      <3> HIDE DEF g
      <3> QED BY <3>3, <3>4, <3>5
    <2> HIDE DEF g
    <2>7. Joins(s, g, m + 1)
      BY <2>5, <2>6 DEF Joins
    <2> QED BY <2>4, <2>7
  <1> HIDE DEF T
  <1>3. Nat \subseteq T
    BY <1>1, <1>2, SetInduction
  <1>4. n \in T /\ n <= Len(s)
    BY <1>3
  <1> QED BY <1>4 DEF T

\* There is only one such function.
LEMMA JoinsUnique ==
  ASSUME NEW s, NEW f, NEW g, NEW n \in Nat, Joins(s, f, n), Joins(s, g, n)
  PROVE  \A i \in 0..n : f[i] = g[i]
  <1> DEFINE T == {m \in Nat : m <= n => f[m] = g[m]}
  <1>1. 0 \in T
    BY DEF Joins
  <1>2. ASSUME NEW m \in Nat, m \in T PROVE m + 1 \in T
    <2> SUFFICES ASSUME m + 1 <= n PROVE f[m + 1] = g[m + 1]
      OBVIOUS
    <2>1. m + 1 \in 1..n /\ (m + 1) - 1 = m /\ m <= n
      OBVIOUS
    <2>2. f[m] = g[m]
      BY <1>2, <2>1
    <2>3. f[m + 1] = f[m] \o s[m + 1] /\ g[m + 1] = g[m] \o s[m + 1]
      BY <2>1 DEF Joins
    <2> QED BY <2>2, <2>3, Zenon
  <1> HIDE DEF T
  <1>3. Nat \subseteq T
    BY <1>1, <1>2, SetInduction
  <1>4. ASSUME NEW i \in 0..n PROVE f[i] = g[i]
    <2>1. i \in T /\ i <= n
      BY <1>3
    <2> QED BY <2>1 DEF T
  <1> QED BY <1>4

\* The last of them is FlattenSeq, however it is computed.
LEMMA FlattenJoins ==
  ASSUME NEW B, NEW s \in Seq(Seq(B)), NEW f \in [0..Len(s) -> Seq(B)], Joins(s, f, Len(s))
  PROVE  FlattenSeq(s) = f[Len(s)]
  <1> DEFINE n == Len(s)
             Eq(g) == g = [i \in 1..n |-> IF i = 1 THEN s[i] ELSE g[i - 1] \o s[i]]
  <1>0. n \in Nat /\ \A i \in 1..n : s[i] \in Seq(B)
    OBVIOUS
  <1>2. CASE n = 0
    <2>1. FlattenSeq(s) = <<>>
      BY <1>2 DEF FlattenSeq
    <2> QED BY <1>2, <2>1 DEF Joins
  <1>3. CASE n # 0
    <2> DEFINE h == [i \in 1..n |-> f[i]]
    <2>1. ASSUME NEW i \in 1..n PROVE h[i] = IF i = 1 THEN s[i] ELSE h[i - 1] \o s[i]
      <3>1. f[i] = f[i - 1] \o s[i] /\ h[i] = f[i]
        BY DEF Joins
      <3>2. CASE i = 1
        <4>0. i - 1 = 0
          BY <3>2
        <4>1. f[i] = <<>> \o s[i]
          BY <3>1, <4>0, Zenon DEF Joins
        <4>2. s[i] \in Seq(B)
          BY <1>0
        <4>3. <<>> \o s[i] = s[i]
          BY <4>2, ConcatEmptySeq
        <4> QED BY <3>1, <3>2, <4>1, <4>3, Zenon
      <3>3. CASE i # 1
        <4>1. i - 1 \in 1..n
          BY <3>3, <1>0
        <4>2. h[i - 1] = f[i - 1]
          BY <4>1
        <4> HIDE DEF h
        <4> QED BY <3>1, <3>3, <4>2, Zenon
      <3> QED BY <3>2, <3>3
    <2>2. Eq(h)
      BY <2>1, Zenon
    <2>3. PICK g : Eq(g) /\ FlattenSeq(s) = g[n]
      <3> HIDE DEF h
      <3>1. \E g : Eq(g)
        BY <2>2
      <3>2. Eq(CHOOSE g : Eq(g))
        BY <3>1
      <3>3. FlattenSeq(s) = (CHOOSE g : Eq(g))[n]
        BY <1>3, Zenon DEF FlattenSeq
      <3> QED BY <3>2, <3>3
    <2>4. \A i \in 1..n : g[i] = IF i = 1 THEN s[i] ELSE g[i - 1] \o s[i]
      BY <2>3, Zenon
    <2> DEFINE gg == [i \in 0..n |-> IF i = 0 THEN <<>> ELSE g[i]]
    <2>5. Joins(s, gg, n)
      <3>1. gg[0] = <<>>
        BY <1>0
      <3>2. ASSUME NEW i \in 1..n PROVE gg[i] = gg[i - 1] \o s[i]
        <4>1. gg[i] = g[i]
          OBVIOUS
        <4>2. CASE i = 1
          <5>1. i - 1 = 0
            BY <4>2
          <5>2. gg[i - 1] = <<>>
            BY <3>1, <5>1, Zenon
          <5>3. s[i] \in Seq(B)
            BY <1>0
          <5>4. <<>> \o s[i] = s[i]
            BY <5>3, ConcatEmptySeq
          <5>5. g[i] = s[i]
            BY <2>4, <4>2, Zenon
          <5> HIDE DEF gg
          <5> QED BY <4>1, <5>2, <5>4, <5>5, Zenon
        <4>3. CASE i # 1
          <5>1. i - 1 \in 0..n /\ i - 1 # 0
            BY <4>3
          <5>2. gg[i - 1] = g[i - 1]
            BY <5>1
          <5>3. g[i] = g[i - 1] \o s[i]
            BY <2>4, <4>3, Zenon
          <5> HIDE DEF gg
          <5> QED BY <4>1, <5>2, <5>3, Zenon
        <4> HIDE DEF gg
        <4> QED BY <4>2, <4>3
      <3> HIDE DEF gg
      <3> QED BY <3>1, <3>2, Zenon DEF Joins
    <2>6. gg[n] = g[n] /\ n \in 0..n
      BY <1>0, <1>3
    <2> HIDE DEF gg
    <2>7. \A i \in 0..n : f[i] = gg[i]
      BY <1>0, <2>5, JoinsUnique
    <2> QED BY <2>3, <2>6, <2>7
  <1> QED BY <1>2, <1>3

LEMMA FlattenEmpty == FlattenSeq(<<>>) = <<>>
  BY DEF FlattenSeq

\* One more sequence goes behind.
LEMMA FlattenAppend ==
  ASSUME NEW B, NEW s \in Seq(Seq(B)), NEW x \in Seq(B)
  PROVE  FlattenSeq(Append(s, x)) = FlattenSeq(s) \o x
  <1> DEFINE n == Len(s)
             t == Append(s, x)
  <1>1. n \in Nat /\ t \in Seq(Seq(B)) /\ Len(t) = n + 1 /\ t[n + 1] = x /\ \A i \in 1..n : t[i] = s[i]
    BY AppendProperties
  <1>2. PICK f \in [0..n -> Seq(B)] : Joins(s, f, n)
    BY <1>1, JoinsExists
  <1> HIDE DEF t
  <1>3. PICK g \in [0..(n + 1) -> Seq(B)] : Joins(t, g, n + 1)
    <2>1. n + 1 \in 0..Len(t)
      BY <1>1
    <2> QED BY <1>1, <2>1, JoinsExists
  <1>4. Joins(s, g, n)
    <2>1. \A i \in 1..n : i \in 1..(n + 1) /\ t[i] = s[i]
      BY <1>1
    <2>2. ASSUME NEW i \in 1..n PROVE g[i] = g[i - 1] \o s[i]
      <3>1. g[i] = g[i - 1] \o t[i]
        BY <1>3, <2>1, Zenon DEF Joins
      <3> QED BY <2>1, <3>1
    <2> QED BY <1>3, <2>2, Zenon DEF Joins
  <1>5. f[n] = g[n]
    <2>1. \A i \in 0..n : f[i] = g[i]
      BY <1>1, <1>2, <1>4, JoinsUnique
    <2> QED BY <1>1, <2>1
  <1>6. FlattenSeq(s) = f[n]
    BY <1>2, FlattenJoins
  <1>7. FlattenSeq(t) = g[n + 1]
    <2>1. Len(t) = n + 1
      BY <1>1
    <2>2. g \in [0..Len(t) -> Seq(B)] /\ Joins(t, g, Len(t))
      BY <1>3, <2>1, Zenon
    <2>3. FlattenSeq(t) = g[Len(t)]
      BY <1>1, <2>2, FlattenJoins
    <2> QED BY <2>1, <2>3, Zenon
  <1>8. g[n + 1] = g[n] \o x
    <2>1. n + 1 \in 1..(n + 1) /\ (n + 1) - 1 = n
      BY <1>1
    <2>2. g[n + 1] = g[(n + 1) - 1] \o t[n + 1]
      BY <1>3, <2>1 DEF Joins
    <2> QED BY <1>1, <2>1, <2>2
  <1> QED BY <1>5, <1>6, <1>7, <1>8, Zenon DEF t

\* Where each of the sequences in s ends in their concatenation.
IsEnds(s, e) ==
  /\ e \in [0..Len(s) -> Nat]
  /\ e[0] = 0
  /\ \A i \in 1..Len(s) : e[i] = e[i - 1] + Len(s[i])
Ends(s) == CHOOSE e : IsEnds(s, e)

\* Where pieces end is determined by their lengths.
LEMMA EndsUnique ==
  ASSUME NEW s, Len(s) \in Nat, NEW d, NEW e, IsEnds(s, d), IsEnds(s, e)
  PROVE  \A i \in 0..Len(s) : d[i] = e[i]
  <1> DEFINE n == Len(s)
             T == {m \in Nat : m <= n => d[m] = e[m]}
  <1>1. 0 \in T
    BY DEF IsEnds
  <1>2. ASSUME NEW m \in Nat, m \in T PROVE m + 1 \in T
    <2> SUFFICES ASSUME m + 1 <= n PROVE d[m + 1] = e[m + 1]
      OBVIOUS
    <2>1. m + 1 \in 1..n /\ (m + 1) - 1 = m /\ m <= n
      OBVIOUS
    <2>2. d[m] = e[m]
      BY <1>2, <2>1
    <2>3. d[m + 1] = d[m] + Len(s[m + 1]) /\ e[m + 1] = e[m] + Len(s[m + 1])
      BY <2>1 DEF IsEnds
    <2> QED BY <2>2, <2>3, Zenon
  <1> HIDE DEF T
  <1>3. Nat \subseteq T
    BY <1>1, <1>2, SetInduction
  <1>4. ASSUME NEW i \in 0..n PROVE d[i] = e[i]
    <2>1. i \in T /\ i <= n
      BY <1>3
    <2> QED BY <2>1 DEF T
  <1> QED BY <1>4

\* The concatenation has the sequences of s one behind the other.
LEMMA FlattenIs ==
  ASSUME NEW B, NEW s \in Seq(Seq(B))
  PROVE  /\ FlattenSeq(s) \in Seq(B)
         /\ IsEnds(s, Ends(s))
         /\ Len(FlattenSeq(s)) = Ends(s)[Len(s)]
         /\ \A i \in 1..Len(s) :
              /\ Ends(s)[i] <= Len(FlattenSeq(s))
              /\ \A j \in 1..Len(s[i]) : FlattenSeq(s)[Ends(s)[i - 1] + j] = s[i][j]
  <1> DEFINE n == Len(s)
             F == FlattenSeq(s)
  <1>2. n \in Nat /\ \A i \in 1..n : s[i] \in Seq(B) /\ Len(s[i]) \in Nat
    OBVIOUS
  <1>1. PICK f \in [0..n -> Seq(B)] : Joins(s, f, n) /\ F = f[n]
    <2>0. n \in 0..Len(s)
      BY <1>2
    <2>1. PICK f \in [0..n -> Seq(B)] : Joins(s, f, n)
      BY <2>0, JoinsExists
    <2>2. F = f[n]
      BY <2>1, FlattenJoins
    <2> QED BY <2>1, <2>2
  <1> HIDE DEF F
  <1>0. \A i \in 0..n : f[i] \in Seq(B) /\ Len(f[i]) \in Nat
    OBVIOUS
  <1>3. ASSUME NEW i \in 1..n
        PROVE  /\ i - 1 \in 0..n /\ i \in 0..n
               /\ Len(f[i]) = Len(f[i - 1]) + Len(s[i])
               /\ \A j \in 1..Len(f[i]) : f[i][j] =
                    IF j <= Len(f[i - 1]) THEN f[i - 1][j] ELSE s[i][j - Len(f[i - 1])]
    <2>1. i - 1 \in 0..n /\ i \in 0..n
      BY <1>2
    <2>2. f[i - 1] \in Seq(B) /\ s[i] \in Seq(B)
      BY <1>0, <1>2, <2>1
    <2>3. f[i] = f[i - 1] \o s[i]
      BY <1>1 DEF Joins
    <2> HIDE DEF n
    <2> DEFINE a == f[i - 1]
               b == s[i]
    <2>4. a \in Seq(B) /\ b \in Seq(B) /\ f[i] = a \o b
      BY <2>2, <2>3
    <2> HIDE DEF a, b
    <2>5. /\ Len(f[i]) = Len(a) + Len(b)
          /\ \A j \in 1..Len(f[i]) : f[i][j] = IF j <= Len(a) THEN a[j] ELSE b[j - Len(a)]
      BY <2>4, ConcatProperties
    <2> QED BY <2>1, <2>5 DEF a, b
  <1> DEFINE L == [i \in 0..n |-> Len(f[i])]
  <1>4. IsEnds(s, L)
    <2>1. L \in [0..n -> Nat]
      BY <1>0
    <2>2. Len(f[0]) = 0
      BY <1>1 DEF Joins
    <2>3. L[0] = 0
      BY <1>2, <2>2
    <2>4. ASSUME NEW i \in 1..n PROVE L[i] = L[i - 1] + Len(s[i])
      <3>1. L[i] = Len(f[i]) /\ L[i - 1] = Len(f[i - 1])
        BY <1>3
      <3> QED BY <1>3, <3>1
    <2> HIDE DEF L
    <2> QED BY <2>1, <2>3, <2>4 DEF IsEnds
  <1> DEFINE e == Ends(s)
  <1>5. IsEnds(s, e)
    <2> HIDE DEF L
    <2> QED BY <1>4, Zenon DEF Ends
  <1>7. \A i \in 0..n : e[i] = Len(f[i])
    <2>1. ASSUME NEW i \in 0..n PROVE L[i] = e[i]
      <3> HIDE DEF L, e
      <3> QED BY <1>2, <1>4, <1>5, EndsUnique
    <2> QED BY <2>1
  <1> HIDE DEF e, L
  \* f[i] is a prefix of f[m], for i <= m.
  <1> DEFINE Pre(i, m) == /\ Len(f[i]) <= Len(f[m])
                          /\ \A j \in 1..Len(f[i]) : f[m][j] = f[i][j]
             U == {m \in Nat : m <= n => \A i \in 0..m : Pre(i, m)}
  <1>8. Nat \subseteq U
    <2>1. \A i \in 0..n : Pre(i, i)
      BY <1>0
    <2>2. 0 \in U
      BY <1>2, <2>1
    <2>3. ASSUME NEW m \in Nat, m \in U PROVE m + 1 \in U
      <3> SUFFICES ASSUME m + 1 <= n, NEW i \in 0..(m + 1) PROVE Pre(i, m + 1)
        OBVIOUS
      <3>1. m + 1 \in 1..n /\ (m + 1) - 1 = m /\ m \in 0..n /\ m + 1 \in 0..n
        BY <1>2
      <3>2. CASE i = m + 1
        BY <2>1, <3>1, <3>2
      <3>3. CASE i # m + 1
        <4>1. i \in 0..m /\ Pre(i, m)
          BY <2>3, <3>1, <3>3, <1>2
        <4>2. /\ Len(f[m + 1]) = Len(f[m]) + Len(s[m + 1])
              /\ \A j \in 1..Len(f[m + 1]) : f[m + 1][j] =
                   IF j <= Len(f[m]) THEN f[m][j] ELSE s[m + 1][j - Len(f[m])]
          <5>1. m + 1 \in 1..n
            BY <3>1
          <5>2. (m + 1) - 1 = m
            BY <3>1
          <5> QED BY <1>3, <5>1, <5>2
        <4>3. Len(s[m + 1]) \in Nat /\ Len(f[m]) \in Nat /\ Len(f[i]) \in Nat
          BY <1>0, <1>2, <3>1, <4>1
        <4> DEFINE li == Len(f[i])
                   lm == Len(f[m])
                   ln == Len(f[m + 1])
        <4>4. li \in Nat /\ lm \in Nat /\ ln \in Nat /\ li <= lm /\ lm <= ln
          <5>1. ln = lm + Len(s[m + 1])
            BY <4>2
          <5>2. li <= lm
            BY <4>1
          <5> HIDE DEF li, lm, ln
          <5>3. li \in Nat /\ lm \in Nat /\ Len(s[m + 1]) \in Nat
            BY <4>3 DEF li, lm
          <5> QED BY <5>1, <5>2, <5>3
        <4>5. ASSUME NEW j \in 1..Len(f[i]) PROVE f[m + 1][j] = f[i][j]
          <5>1. j \in 1..Len(f[m]) /\ j \in 1..Len(f[m + 1]) /\ j <= Len(f[m])
            <6>1. j \in 1..li
              OBVIOUS
            <6> HIDE DEF li, lm, ln
            <6>2. j \in 1..lm /\ j \in 1..ln /\ j <= lm
              BY <4>4, <6>1
            <6> QED BY <6>2 DEF lm, ln
          <5>2. f[m + 1][j] = f[m][j]
            BY <4>2, <5>1
          <5>3. f[m][j] = f[i][j]
            BY <4>1
          <5> QED BY <5>2, <5>3
        <4>6. Len(f[i]) <= Len(f[m + 1])
          <5> HIDE DEF li, lm, ln
          <5>1. li <= ln
            BY <4>4
          <5> QED BY <5>1 DEF li, ln
        <4> QED BY <4>5, <4>6
      <3> QED BY <3>2, <3>3
    <2> HIDE DEF U
    <2> QED BY <2>2, <2>3, SetInduction
  <1>9. \A i \in 0..n : Pre(i, n)
    <2>1. n \in U
      BY <1>2, <1>8
    <2> QED BY <1>2, <2>1
  <1> HIDE DEF U
  <1>10. ASSUME NEW i \in 1..n
         PROVE  /\ e[i] <= Len(F)
                /\ \A j \in 1..Len(s[i]) : F[e[i - 1] + j] = s[i][j]
    <2>1. i \in 0..n /\ i - 1 \in 0..n
      BY <1>2
    <2>2. Len(f[i]) \in Nat /\ Len(f[i - 1]) \in Nat /\ Len(s[i]) \in Nat
      BY <1>0, <1>2, <2>1
    <2>3. e[i] = Len(f[i]) /\ e[i - 1] = Len(f[i - 1])
      BY <1>7, <2>1
    <2>4. Pre(i, n)
      BY <1>9, <2>1
    <2>5. e[i] <= Len(F)
      BY <1>1, <2>3, <2>4
    <2>6. ASSUME NEW j \in 1..Len(s[i]) PROVE F[e[i - 1] + j] = s[i][j]
      <3> DEFINE k == Len(f[i - 1]) + j
      <3>1. k \in 1..Len(f[i]) /\ ~(k <= Len(f[i - 1])) /\ k - Len(f[i - 1]) = j
        <4> DEFINE a == Len(f[i - 1])
                   b == Len(s[i])
        <4>1. Len(f[i]) = a + b
          BY <1>3
        <4>2. a \in Nat /\ b \in Nat /\ j \in 1..b /\ k = a + j
          BY <2>2
        <4> HIDE DEF a, b, k
        <4>3. k \in 1..(a + b) /\ ~(k <= a) /\ k - a = j
          BY <4>2
        <4> QED BY <4>1, <4>3 DEF a
      <3> HIDE DEF k
      <3>2. f[i][k] = s[i][j]
        BY <1>3, <3>1
      <3>3. f[n][k] = f[i][k]
        BY <2>4, <3>1
      <3> QED BY <1>1, <2>3, <3>2, <3>3 DEF k
    <2> QED BY <2>5, <2>6
  <1>11. F \in Seq(B) /\ Len(F) = e[n]
    <2>1. n \in 0..n
      BY <1>2
    <2> QED BY <1>0, <1>1, <1>7, <2>1
  <1> QED BY <1>5, <1>10, <1>11 DEF F, e

\* Sequences of one length: the i-th ends at i times that length.
LEMMA FlattenChunks ==
  ASSUME NEW B, NEW s \in Seq(Seq(B)), NEW c \in Nat, \A i \in 1..Len(s) : Len(s[i]) = c
  PROVE  \A i \in 0..Len(s) : Ends(s)[i] = c * i
  <1> DEFINE n == Len(s)
             d == [i \in 0..n |-> c * i]
  <1>1. IsEnds(s, d)
    <2>1. d \in [0..n -> Nat] /\ d[0] = 0
      OBVIOUS
    <2>2. ASSUME NEW i \in 1..n PROVE d[i] = d[i - 1] + Len(s[i])
      <3>1. d[i] = c * i /\ d[i - 1] = c * (i - 1) /\ Len(s[i]) = c
        OBVIOUS
      <3>2. c * i = c * (i - 1) + c
        OBVIOUS
      <3> HIDE DEF d
      <3> QED BY <3>1, <3>2
    <2> HIDE DEF d
    <2> QED BY <2>1, <2>2 DEF IsEnds
  <1>2. IsEnds(s, Ends(s)) /\ n \in Nat
    BY FlattenIs
  <1>3. \A i \in 0..n : d[i] = Ends(s)[i]
    <2> HIDE DEF d
    <2> QED BY <1>1, <1>2, EndsUnique
  <1> QED BY <1>3

-----------------------------------------------------------------------------
(* Frames                                                                  *)

Byte == 0..255

LEMMA FunctionSeq ==
  ASSUME NEW S, NEW n \in Nat, NEW f \in [1..n -> S]
  PROVE  f \in Seq(S) /\ Len(f) = n /\ DOMAIN f = 1..n
  <1>1. f \in Seq(S)
    BY SeqDef
  <1>2. DOMAIN f = 1..Len(f) /\ Len(f) \in Nat /\ DOMAIN f = 1..n
    BY <1>1, LenProperties
  <1>3. Len(f) = n
    BY <1>2
  <1> QED BY <1>1, <1>2, <1>3

\* x has s and behind it t.
Behind(x, s, t) ==
  /\ Len(x) = Len(s) + Len(t)
  /\ \A i \in 1..Len(s) : x[i] = s[i]
  /\ \A i \in 1..Len(t) : x[Len(s) + i] = t[i]

\* Where the elements of a concatenation are.
LEMMA ConcatAt ==
  \A S : \A s, t \in Seq(S) : s \o t \in Seq(S) /\ Behind(s \o t, s, t)
  <1> TAKE S
  <1> TAKE s, t \in Seq(S)
  <1>1. s \o t \in Seq(S) /\ Len(s \o t) = Len(s) + Len(t)
    BY ConcatProperties
  <1>2. \A i \in 1..Len(s) : (s \o t)[i] = s[i]
    OBVIOUS
  <1>3. \A i \in 1..Len(t) : (s \o t)[Len(s) + i] = t[i]
    OBVIOUS
  <1> QED BY <1>1, <1>2, <1>3, Zenon DEF Behind

LEMMA OctetsSeq ==
  ASSUME NEW n \in Nat, NEW x \in Octets(n)
  PROVE  x \in Seq(Byte) /\ Len(x) = n
  <1>1. x \in [1..n -> Byte]
    BY DEF Octets, Byte
  <1> QED BY <1>1, FunctionSeq

\* A frame has its source behind the destination and its payload behind both.
LEMMA FrameIs ==
  ASSUME NEW dst \in Octets(6), NEW src \in Octets(6), NEW p \in Seq(Byte)
  PROVE  LET f == buildEthernetFrame(dst, src, p)
         IN /\ f \in Seq(Byte) /\ Len(f) = 14 + Len(p)
            /\ \A j \in 1..6 : f[6 + j] = src[j]
            /\ \A j \in 1..Len(p) : f[14 + j] = p[j]
  <1> DEFINE a == dst \o src
             b == a \o <<8, 0>>
             f == b \o p
  <1>0. buildEthernetFrame(dst, src, p) = f
    BY DEF buildEthernetFrame
  <1>1. dst \in Seq(Byte) /\ src \in Seq(Byte) /\ Len(dst) = 6 /\ Len(src) = 6
    BY OctetsSeq
  <1>2. a \in Seq(Byte) /\ Len(a) = 12 /\ \A i \in 1..6 : a[6 + i] = src[i]
    <2>1. a \in Seq(Byte) /\ Behind(a, dst, src)
      BY <1>1, ConcatAt, Zenon
    <2> HIDE DEF a
    <2>2. Len(a) = 6 + 6 /\ \A i \in 1..6 : a[6 + i] = src[i]
      BY <1>1, <2>1, Zenon DEF Behind
    <2> QED BY <2>1, <2>2
  <1>3. <<8, 0>> \in Seq(Byte) /\ Len(<<8, 0>>) = 2
    BY DEF Byte
  <1> HIDE DEF a
  <1>4. b \in Seq(Byte) /\ Len(b) = 14 /\ \A i \in 1..12 : b[i] = a[i]
    <2>1. b \in Seq(Byte) /\ Behind(b, a, <<8, 0>>)
      BY <1>2, <1>3, ConcatAt, Zenon
    <2> HIDE DEF b
    <2>2. Len(b) = 12 + 2 /\ \A i \in 1..12 : b[i] = a[i]
      BY <1>2, <1>3, <2>1, Zenon DEF Behind
    <2> QED BY <2>1, <2>2
  <1> HIDE DEF b
  <1>5. /\ f \in Seq(Byte) /\ Len(f) = 14 + Len(p)
        /\ \A i \in 1..14 : f[i] = b[i]
        /\ \A i \in 1..Len(p) : f[14 + i] = p[i]
    <2>1. f \in Seq(Byte) /\ Behind(f, b, p)
      BY <1>4, ConcatAt, Zenon
    <2> HIDE DEF f
    <2> QED BY <1>4, <2>1, Zenon DEF Behind
  <1>6. ASSUME NEW j \in 1..6 PROVE f[6 + j] = src[j]
    <2> DEFINE k == 6 + j
    <2>1. k \in 1..12 /\ k \in 1..14
      OBVIOUS
    <2> HIDE DEF k, f
    <2>2. f[k] = b[k] /\ b[k] = a[k]
      BY <1>4, <1>5, <2>1
    <2>3. a[k] = src[j]
      BY <1>2 DEF k
    <2> QED BY <2>2, <2>3 DEF k
  <1> QED BY <1>0, <1>5, <1>6

-----------------------------------------------------------------------------
(* TLVs whose length byte is right, one behind the other                   *)

Exact == {t \in [typeTLV : Byte, lengthTLV : Byte, valueTLV : Seq(Byte)] :
            t.lengthTLV = Len(t.valueTLV)}

Encs(T) == [t \in DOMAIN T |-> <<T[t].typeTLV, T[t].lengthTLV>> \o T[t].valueTLV]
Body(T) == FlattenSeq(Encs(T))

\* The bytes of one TLV: type, length, value.
LEMMA EncsType ==
  ASSUME NEW T \in Seq(Exact)
  PROVE  /\ Encs(T) \in Seq(Seq(Byte)) /\ Len(Encs(T)) = Len(T)
         /\ \A i \in 1..Len(T) :
              LET e == Encs(T)[i] IN
              /\ e \in Seq(Byte) /\ Len(e) = 2 + T[i].lengthTLV
              /\ e[1] = T[i].typeTLV /\ e[2] = T[i].lengthTLV
              /\ \A j \in 1..T[i].lengthTLV : e[2 + j] = T[i].valueTLV[j]
  <1> DEFINE n == Len(T)
  <1>1. n \in Nat /\ DOMAIN T = 1..n
    BY LenProperties
  <1> HIDE DEF n
  <1>2. ASSUME NEW i \in 1..n
        PROVE  LET e == <<T[i].typeTLV, T[i].lengthTLV>> \o T[i].valueTLV IN
              /\ e \in Seq(Byte) /\ Len(e) = 2 + T[i].lengthTLV
              /\ e[1] = T[i].typeTLV /\ e[2] = T[i].lengthTLV
              /\ \A j \in 1..T[i].lengthTLV : e[2 + j] = T[i].valueTLV[j]
    <2> DEFINE h == <<T[i].typeTLV, T[i].lengthTLV>>
               v == T[i].valueTLV
               e == h \o v
    <2>1. T[i] \in Exact
      BY <1>1, ElementOfSeq DEF n
    <2>2. /\ h \in Seq(Byte) /\ Len(h) = 2 /\ h[1] = T[i].typeTLV /\ h[2] = T[i].lengthTLV
          /\ v \in Seq(Byte) /\ Len(v) = T[i].lengthTLV
      BY <2>1 DEF Exact
    <2> HIDE DEF h, v
    <2>3. /\ e \in Seq(Byte) /\ Len(e) = 2 + Len(v)
          /\ \A j \in 1..2 : e[j] = h[j]
          /\ \A j \in 1..Len(v) : e[2 + j] = v[j]
      <3>1. e \in Seq(Byte) /\ Behind(e, h, v)
        BY <2>2, ConcatAt, Zenon
      <3> HIDE DEF e
      <3> QED BY <2>2, <3>1, Zenon DEF Behind
    <2> HIDE DEF e
    <2>4. e[1] = h[1] /\ e[2] = h[2]
      BY <2>3
    <2>5. /\ e \in Seq(Byte) /\ Len(e) = 2 + T[i].lengthTLV
          /\ e[1] = T[i].typeTLV /\ e[2] = T[i].lengthTLV
          /\ \A j \in 1..T[i].lengthTLV : e[2 + j] = v[j]
      BY <2>2, <2>3, <2>4
    <2> QED BY <2>5 DEF e, h, v
  <1>3. Encs(T) = [t \in 1..n |-> <<T[t].typeTLV, T[t].lengthTLV>> \o T[t].valueTLV]
    BY <1>1 DEF Encs
  <1>4. Encs(T) \in [1..n -> Seq(Byte)]
    BY <1>2, <1>3
  <1>5. Encs(T) \in Seq(Seq(Byte)) /\ Len(Encs(T)) = n
    BY <1>1, <1>4, FunctionSeq
  <1>6. \A i \in 1..n : Encs(T)[i] = <<T[i].typeTLV, T[i].lengthTLV>> \o T[i].valueTLV
    BY <1>3
  <1> QED BY <1>2, <1>5, <1>6 DEF n

LEMMA SerializeIs ==
  ASSUME NEW h, NEW T
  PROVE  Serialize(h, T) = h \o Body(T)
  BY DEF Serialize, Body, Encs

\* The TLVs of T are all that f has from base on.
Carries(f, base, T) ==
  /\ T \in Seq(Exact)
  /\ f \in Seq(Byte) /\ Len(f) <= 1000 /\ Len(f) = base + Len(Body(T))
  /\ \A j \in 1..Len(Body(T)) : f[base + j] = Body(T)[j]

\* parseTLVs has found ts, the first TLVs of T, and is at a.
Upto(base, T, ts, a) ==
  /\ ts \in Seq(Exact) /\ Len(ts) <= Len(T)
  /\ \A i \in 1..Len(ts) : ts[i] = T[i]
  /\ a = base + Ends(Encs(T))[Len(ts)]

\* What FlattenIs says of the encoded TLVs.
LEMMA BodyIs ==
  ASSUME NEW T \in Seq(Exact)
  PROVE  /\ Body(T) \in Seq(Byte) /\ Len(Body(T)) \in Nat /\ Len(T) \in Nat
         /\ Ends(Encs(T)) \in [0..Len(T) -> Nat] /\ Ends(Encs(T))[0] = 0
         /\ Len(Body(T)) = Ends(Encs(T))[Len(T)]
         /\ \A i \in 1..Len(T) :
              /\ Ends(Encs(T))[i] = Ends(Encs(T))[i - 1] + (2 + T[i].lengthTLV)
              /\ Ends(Encs(T))[i] <= Len(Body(T))
              /\ Body(T)[Ends(Encs(T))[i - 1] + 1] = T[i].typeTLV
              /\ Body(T)[Ends(Encs(T))[i - 1] + 2] = T[i].lengthTLV
              /\ \A j \in 1..T[i].lengthTLV : Body(T)[Ends(Encs(T))[i - 1] + (2 + j)] = T[i].valueTLV[j]
  <1> DEFINE s == Encs(T)
             e == Ends(s)
             n == Len(T)
  <1>1. s \in Seq(Seq(Byte)) /\ Len(s) = n
    BY EncsType
  <1>2. \A i \in 1..n :
              /\ Len(s[i]) = 2 + T[i].lengthTLV
              /\ s[i][1] = T[i].typeTLV /\ s[i][2] = T[i].lengthTLV
              /\ \A j \in 1..T[i].lengthTLV : s[i][2 + j] = T[i].valueTLV[j]
    BY EncsType
  <1>3. n \in Nat /\ \A i \in 1..n : T[i].lengthTLV \in Nat
    BY DEF Exact, Byte
  <1> HIDE DEF s, n
  <1>4. /\ FlattenSeq(s) \in Seq(Byte)
        /\ IsEnds(s, e)
        /\ Len(FlattenSeq(s)) = e[Len(s)]
        /\ \A i \in 1..Len(s) :
              /\ e[i] <= Len(FlattenSeq(s))
              /\ \A j \in 1..Len(s[i]) : FlattenSeq(s)[e[i - 1] + j] = s[i][j]
    BY <1>1, FlattenIs
  <1> DEFINE F == FlattenSeq(s)
  <1> HIDE DEF e, F
  <1>5. /\ F \in Seq(Byte) /\ Len(F) = e[n] /\ e \in [0..n -> Nat] /\ e[0] = 0
        /\ \A i \in 1..n : e[i] = e[i - 1] + Len(s[i])
        /\ \A i \in 1..n :
              /\ e[i] <= Len(F)
              /\ \A j \in 1..Len(s[i]) : F[e[i - 1] + j] = s[i][j]
    BY <1>1, <1>4, Zenon DEF IsEnds, F
  <1>6. ASSUME NEW i \in 1..n
        PROVE  /\ e[i] = e[i - 1] + (2 + T[i].lengthTLV)
               /\ e[i] <= Len(F)
               /\ F[e[i - 1] + 1] = T[i].typeTLV
               /\ F[e[i - 1] + 2] = T[i].lengthTLV
               /\ \A j \in 1..T[i].lengthTLV : F[e[i - 1] + (2 + j)] = T[i].valueTLV[j]
    <2> DEFINE l == T[i].lengthTLV
    <2>1. l \in Nat /\ Len(s[i]) = 2 + l
      BY <1>2, <1>3
    <2> HIDE DEF l
    <2>2. 1 \in 1..(2 + l) /\ 2 \in 1..(2 + l) /\ \A j \in 1..l : 2 + j \in 1..(2 + l)
      BY <2>1
    <2>3. \A j \in 1..(2 + l) : F[e[i - 1] + j] = s[i][j]
      BY <1>5, <2>1, Zenon
    <2>4. s[i][1] = T[i].typeTLV /\ s[i][2] = l /\ \A j \in 1..l : s[i][2 + j] = T[i].valueTLV[j]
      BY <1>2, Zenon DEF l
    <2>5. /\ F[e[i - 1] + 1] = T[i].typeTLV
          /\ F[e[i - 1] + 2] = l
          /\ \A j \in 1..l : F[e[i - 1] + (2 + j)] = T[i].valueTLV[j]
      BY <2>2, <2>3, <2>4, Zenon
    <2>6. e[i] = e[i - 1] + (2 + l) /\ e[i] <= Len(F)
      BY <1>5, <2>1, Zenon
    <2> QED BY <2>5, <2>6, Zenon DEF l
  <1>7. Len(F) \in Nat
    BY <1>5, LenProperties
  <1>8. Body(T) = F
    BY DEF Body, F, s
  <1> QED BY <1>3, <1>5, <1>6, <1>7, <1>8, Zenon DEF e, s, n

\* A turn of parseTLVs' loop does not panic and finds the next TLV.
LEMMA ParseTurn ==
  ASSUME NEW f, NEW base \in Nat, NEW T, NEW ts, NEW a,
         Carries(f, base, T), Upto(base, T, ts, a), a < Len(f)
  PROVE  /\ ~TLVPanics(f, a)
         /\ Upto(base, T, Append(ts, TLVAt(f, a)), (a + TLVAt(f, a).lengthTLV) + 2)
  <1> DEFINE e == Ends(Encs(T))
             k == Len(ts)
             n == Len(T)
             t == T[k + 1]
             l == t.lengthTLV
             F == Body(T)
  <1>0. T \in Seq(Exact) /\ f \in Seq(Byte) /\ Len(f) <= 1000 /\ Len(f) = base + Len(F)
    BY DEF Carries
  <1>1. n \in Nat /\ k \in Nat /\ k <= n /\ ts \in Seq(Exact) /\ a = base + e[k] /\ Len(F) \in Nat /\ Len(F) = e[n]
    BY <1>0, BodyIs DEF Upto
  <1> HIDE DEF e, F, n, k
  <1>2. k < n
    <2>1. k # n
      <3> SUFFICES ASSUME k = n PROVE FALSE
        OBVIOUS
      <3>1. a = Len(f)
        BY <1>0, <1>1, Zenon
      <3>2. Len(f) \in Nat
        BY <1>0, <1>1
      <3> QED BY <3>1, <3>2
    <2> QED BY <1>1, <2>1
  <1>3. k + 1 \in 1..n /\ (k + 1) - 1 = k /\ k \in 0..n
    BY <1>1, <1>2
  <1>4. t \in Exact
    BY <1>0, <1>3, ElementOfSeq DEF n
  <1>5. /\ e[k] \in Nat /\ e[k + 1] = e[k] + (2 + l) /\ e[k + 1] <= Len(F)
        /\ F[e[k] + 1] = t.typeTLV /\ F[e[k] + 2] = l
        /\ \A j \in 1..l : F[e[k] + (2 + j)] = t.valueTLV[j]
    <2> HIDE DEF t
    <2>1. \A i \in 1..n :
              /\ e[i] = e[i - 1] + (2 + T[i].lengthTLV)
              /\ e[i] <= Len(F)
              /\ F[e[i - 1] + 1] = T[i].typeTLV
              /\ F[e[i - 1] + 2] = T[i].lengthTLV
              /\ \A j \in 1..T[i].lengthTLV : F[e[i - 1] + (2 + j)] = T[i].valueTLV[j]
      BY <1>0, BodyIs, Zenon DEF e, F, n
    <2>2. e \in [0..n -> Nat]
      BY <1>0, BodyIs DEF e, n
    <2>3. e[k] \in Nat
      BY <1>3, <2>2
    <2> QED BY <1>3, <2>1, <2>3, Zenon DEF t
  <1>6. l \in Byte /\ t.typeTLV \in Byte /\ t.valueTLV \in Seq(Byte) /\ Len(t.valueTLV) = l
    BY <1>4 DEF Exact
  <1> HIDE DEF t, l
  <1>7. \A j \in 1..Len(F) : f[base + j] = F[j]
    BY DEF Carries, F
  <1>8. /\ l \in Nat /\ a \in Nat /\ Len(f) \in Nat /\ Len(f) <= 1000
        /\ (a + 2) + l <= Len(f)
    <2> DEFINE p == e[k]
               q == e[k + 1]
               lF == Len(F)
               lf == Len(f)
    <2>1. p \in Nat /\ q = p + (2 + l) /\ q <= lF
      BY <1>5
    <2>2. lF \in Nat /\ a = base + p
      BY <1>1
    <2>3. lf = base + lF /\ lf <= 1000
      BY <1>0
    <2>4. l \in Nat
      BY <1>6 DEF Byte
    <2> HIDE DEF p, q, lF, lf
    <2>5. a \in Nat /\ lf \in Nat /\ lf <= 1000 /\ (a + 2) + l <= lf
      BY <2>1, <2>2, <2>3, <2>4
    <2> QED BY <2>4, <2>5 DEF lf
  <1>9. \A j \in 1..(2 + l) : e[k] + j \in 1..Len(F) /\ base + (e[k] + j) = a + j
    <2> DEFINE p == e[k]
               q == e[k + 1]
               lF == Len(F)
    <2>1. p \in Nat /\ q = p + (2 + l) /\ q <= lF
      BY <1>5
    <2>2. lF \in Nat /\ a = base + p
      BY <1>1
    <2> HIDE DEF p, q, lF
    <2>3. \A j \in 1..(2 + l) : p + j \in 1..lF /\ base + (p + j) = a + j
      BY <1>8, <2>1, <2>2
    <2> QED BY <2>3 DEF p, lF
  <1>10. \A j \in 1..(2 + l) : f[a + j] = F[e[k] + j]
    BY <1>7, <1>9
  <1>11. 1 \in 1..(2 + l) /\ 2 \in 1..(2 + l) /\ \A j \in 1..l : 2 + j \in 1..(2 + l)
    BY <1>8
  <1>12. f[a + 1] = t.typeTLV /\ f[a + 2] = l /\ \A j \in 1..l : f[a + (2 + j)] = t.valueTLV[j]
    BY <1>5, <1>10, <1>11, Zenon
  <1>13. ~TLVPanics(f, a)
    <2>1. ~(a + 1 >= Len(f)) /\ ~((a + 2) + l > 1000)
      BY <1>8
    <2> QED BY <1>12, <2>1 DEF TLVPanics, READ_BUF_SIZE
  <1>14. ByteAt(f, a) = t.typeTLV /\ ByteAt(f, a + 1) = l
    <2>1. a < Len(f) /\ a + 1 < Len(f) /\ (a + 1) + 1 = a + 2
      BY <1>8
    <2> QED BY <1>12, <2>1 DEF ByteAt
  <1>15. Slice(f, a + 2, l) = t.valueTLV
    <2>1. ASSUME NEW j \in 1..l PROVE ByteAt(f, (a + 2) + (j - 1)) = t.valueTLV[j]
      <3>1. (a + 2) + (j - 1) < Len(f) /\ ((a + 2) + (j - 1)) + 1 = a + (2 + j)
        BY <1>8
      <3> QED BY <1>12, <3>1 DEF ByteAt
    <2>2. t.valueTLV \in [1..l -> Byte]
      BY <1>6, LenProperties
    <2>3. Slice(f, a + 2, l) = [j \in 1..l |-> t.valueTLV[j]]
      BY <2>1 DEF Slice
    <2>4. t.valueTLV = [j \in 1..l |-> t.valueTLV[j]]
      BY <2>2
    <2> QED BY <2>3, <2>4, Zenon
  <1>16. TLVAt(f, a) = [typeTLV |-> t.typeTLV, lengthTLV |-> l, valueTLV |-> t.valueTLV]
    BY <1>14, <1>15, Zenon DEF TLVAt
  <1>17. TLVAt(f, a) = t
    <2>1. t = [typeTLV |-> t.typeTLV, lengthTLV |-> l, valueTLV |-> t.valueTLV]
      BY <1>4 DEF Exact, l
    <2> QED BY <1>16, <2>1, Zenon
  <1> DEFINE x == Append(ts, t)
  <1>18. x \in Seq(Exact) /\ Len(x) = k + 1 /\ x[k + 1] = t /\ \A i \in 1..k : x[i] = ts[i]
    BY <1>1, <1>4, AppendProperties DEF k
  <1> HIDE DEF x
  <1>19. \A i \in 1..(k + 1) : x[i] = T[i]
    <2>1. \A i \in 1..k : ts[i] = T[i]
      BY DEF Upto, k
    <2>2. x[k + 1] = T[k + 1]
      BY <1>18, Zenon DEF t
    <2>3. \A i \in 1..(k + 1) : i \in 1..k \/ i = k + 1
      BY <1>1
    <2> QED BY <1>18, <2>1, <2>2, <2>3, Zenon
  <1>20. (a + l) + 2 = base + e[k + 1] /\ k + 1 <= n
    <2> DEFINE p == e[k]
               q == e[k + 1]
    <2>1. p \in Nat /\ q = p + (2 + l)
      BY <1>5
    <2>2. a = base + p
      BY <1>1
    <2> HIDE DEF p, q
    <2>3. (a + l) + 2 = base + q
      BY <1>8, <2>1, <2>2
    <2>4. k + 1 <= n
      BY <1>1, <1>2
    <2> QED BY <2>3, <2>4 DEF q
  <1>21. Upto(base, T, x, (a + l) + 2)
    BY <1>18, <1>19, <1>20, Zenon DEF Upto, e, n
  <1>22. TLVAt(f, a).lengthTLV = l
    BY <1>17 DEF l
  <1> QED BY <1>13, <1>17, <1>21, <1>22, Zenon DEF x

\* At the end of the frame the loop has found all of them.
LEMMA ParseEnd ==
  ASSUME NEW f, NEW base \in Nat, NEW T, NEW ts, NEW a,
         Carries(f, base, T), Upto(base, T, ts, a), ~(a < Len(f))
  PROVE  ts = T
  <1> DEFINE e == Ends(Encs(T))
             k == Len(ts)
             n == Len(T)
             F == Body(T)
  <1>0. T \in Seq(Exact) /\ Len(f) = base + Len(F)
    BY DEF Carries
  <1>1. n \in Nat /\ k \in Nat /\ k <= n /\ ts \in Seq(Exact) /\ a = base + e[k] /\ Len(F) \in Nat
    BY <1>0, BodyIs DEF Upto
  <1>2. \A i \in 1..n : e[i] = e[i - 1] + (2 + T[i].lengthTLV) /\ e[i] <= Len(F)
    BY <1>0, BodyIs
  <1>3. e \in [0..n -> Nat]
    BY <1>0, BodyIs
  <1>4. \A i \in 1..n : T[i].lengthTLV \in Nat
    BY <1>0 DEF Exact, Byte
  <1>5. k = n
    <2> SUFFICES ASSUME k < n PROVE FALSE
      BY <1>1
    <2> HIDE DEF e, F, k, n
    <2>1. k + 1 \in 1..n /\ (k + 1) - 1 = k /\ k \in 0..n
      BY <1>1
    <2>2. e[k + 1] = e[k] + (2 + T[k + 1].lengthTLV) /\ e[k + 1] <= Len(F)
      BY <1>2, <2>1, Zenon
    <2>3. e[k] \in Nat /\ T[k + 1].lengthTLV \in Nat
      BY <1>3, <1>4, <2>1
    <2> DEFINE p == e[k]
               q == e[k + 1]
               r == T[k + 1].lengthTLV
               lF == Len(F)
               lf == Len(f)
    <2>4. p \in Nat /\ r \in Nat /\ q = p + (2 + r) /\ q <= lF
      BY <2>2, <2>3
    <2>5. a = base + p /\ lF \in Nat /\ lf = base + lF
      BY <1>0, <1>1
    <2>6. ~(a < lf)
      OBVIOUS
    <2> HIDE DEF p, q, r, lF, lf
    <2> QED BY <2>4, <2>5, <2>6
  <1>6. \A i \in 1..k : ts[i] = T[i]
    BY DEF Upto
  <1> QED BY <1>0, <1>1, <1>5, <1>6, SeqEqual

\* It begins with none.
LEMMA ParseBegin ==
  ASSUME NEW f, NEW base \in Nat, NEW T, Carries(f, base, T)
  PROVE  Upto(base, T, <<>>, base)
  <1>1. T \in Seq(Exact)
    BY DEF Carries
  <1>2. Ends(Encs(T))[0] = 0 /\ Len(T) \in Nat
    BY <1>1, BodyIs
  <1>3. <<>> \in Seq(Exact) /\ Len(<<>>) = 0
    BY EmptySeq
  <1>4. base = base + 0 /\ 0 <= Len(T) /\ 1..0 = {}
    BY <1>2
  <1> QED BY <1>2, <1>3, <1>4, Zenon DEF Upto

-----------------------------------------------------------------------------
(* Headers and whole frames                                                *)

LEMMA DivMod ==
  ASSUME NEW n \in Nat, NEW k \in Nat, k > 0
  PROVE  n \div k \in Nat /\ n % k \in Nat /\ n % k < k /\ n = k * (n \div k) + (n % k)
  OBVIOUS

\* The quotient, from what it is to satisfy.
LEMMA DivUnique ==
  ASSUME NEW n \in Nat, NEW k \in Nat, k > 0, NEW q \in Nat, NEW r \in Nat, r < k, n = k * q + r
  PROVE  n \div k = q
  <1>1. n \div k \in Nat /\ n % k \in Nat /\ n % k < k /\ n = k * (n \div k) + (n % k)
    BY DivMod
  <1> DEFINE p == n \div k
             s == n % k
  <1> HIDE DEF p, s
  <1>2. p \in Nat /\ s \in Nat /\ s < k /\ k * p + s = k * q + r
    BY <1>1 DEF p, s
  <1>3. ~(p < q)
    <2> SUFFICES ASSUME p < q PROVE FALSE
      OBVIOUS
    <2>1. p + 1 <= q
      BY <1>2
    <2>2. k * (p + 1) <= k * q /\ k * (p + 1) = k * p + k
      BY <1>2, <2>1
    <2> QED BY <1>2, <2>2
  <1>4. ~(q < p)
    <2> SUFFICES ASSUME q < p PROVE FALSE
      OBVIOUS
    <2>1. q + 1 <= p
      BY <1>2
    <2>2. k * (q + 1) <= k * p /\ k * (q + 1) = k * q + k
      BY <1>2, <2>1
    <2> QED BY <1>2, <2>2
  <1>5. p = q
    BY <1>2, <1>3, <1>4
  <1> QED BY <1>5 DEF p

\* Reading four bytes undoes writing them.
LEMMA Uint32Inverse ==
  ASSUME NEW n \in Nat, n \div 16777216 <= 255
  PROVE  PutUint32(n) \in Octets(4) /\ Uint32(PutUint32(n)) = n
  <1> DEFINE a == n \div 256
             b == n \div 65536
             c == n \div 16777216
  <1>1. a \in Nat /\ n % 256 \in Byte /\ n = 256 * a + (n % 256)
    BY DivMod, SMT DEF Byte
  <1>2. /\ b \in Nat /\ n % 65536 \in Nat /\ n % 65536 < 65536 /\ n = 65536 * b + (n % 65536)
        /\ c \in Nat /\ n % 16777216 \in Nat /\ n % 16777216 < 16777216
        /\ n = 16777216 * c + (n % 16777216)
    BY DivMod, SMT
  <1>3. /\ a \div 256 \in Nat /\ a % 256 \in Byte /\ a = 256 * (a \div 256) + (a % 256)
        /\ b \div 256 \in Nat /\ b % 256 \in Byte /\ b = 256 * (b \div 256) + (b % 256)
    <2> HIDE DEF a, b
    <2> QED BY <1>1, <1>2, DivMod, SMT DEF Byte
  <1> DEFINE r == n % 256
             r1 == a % 256
             r2 == b % 256
             a1 == a \div 256
             b1 == b \div 256
  <1>4. b = a1
    <2>1. /\ a1 \in Nat /\ 256 * r1 + r \in Nat /\ 256 * r1 + r < 65536
          /\ n = 65536 * a1 + (256 * r1 + r)
      <3> HIDE DEF a, b, r, r1, a1
      <3>1. a \in Nat /\ r \in Byte /\ n = 256 * a + r
        BY <1>1, SMT DEF r
      <3>2. a1 \in Nat /\ r1 \in Byte /\ a = 256 * a1 + r1
        BY <1>3, SMT DEF r1, a1
      <3> QED BY <3>1, <3>2, SMT DEF Byte
    <2> DEFINE w == 256 * r1 + r
    <2> HIDE DEF w, a1
    <2>2. n \div 65536 = a1
      BY <2>1, DivUnique, SMT DEF w
    <2> QED BY <2>2, SMT
  <1>5. c = b1
    <2>1. /\ b1 \in Nat /\ 65536 * r2 + (256 * r1 + r) \in Nat
          /\ 65536 * r2 + (256 * r1 + r) < 16777216
          /\ n = 16777216 * b1 + (65536 * r2 + (256 * r1 + r))
      <3> HIDE DEF a, b, r, r1, a1, r2, b1
      <3>1. a \in Nat /\ r \in Byte /\ n = 256 * a + r
        BY <1>1, SMT DEF r
      <3>2. a1 \in Nat /\ r1 \in Byte /\ a = 256 * a1 + r1
        BY <1>3, SMT DEF r1, a1
      <3>3. b1 \in Nat /\ r2 \in Byte /\ b = 256 * b1 + r2
        BY <1>3, SMT DEF r2, b1
      <3> QED BY <1>4, <3>1, <3>2, <3>3, SMT DEF Byte
    <2> DEFINE w == 65536 * r2 + (256 * r1 + r)
    <2> HIDE DEF w, b1
    <2>2. n \div 16777216 = b1
      BY <2>1, DivUnique, SMT DEF w
    <2> QED BY <2>2, SMT
  <1>6. n = c * 16777216 + r2 * 65536 + r1 * 256 + r
    <2> HIDE DEF a, b, c, r, r1, a1, r2, b1
    <2>1. a \in Nat /\ r \in Byte /\ n = 256 * a + r
      BY <1>1, SMT DEF r
    <2>2. a1 \in Nat /\ r1 \in Byte /\ a = 256 * a1 + r1
      BY <1>3, SMT DEF r1, a1
    <2>3. b1 \in Nat /\ r2 \in Byte /\ b = 256 * b1 + r2
      BY <1>3, SMT DEF r2, b1
    <2> QED BY <1>4, <1>5, <2>1, <2>2, <2>3, SMT DEF Byte
  <1>7. c \in Byte
    BY <1>2, SMT DEF Byte
  <1>8. PutUint32(n) = <<c, r2, r1, r>>
    BY SMT DEF PutUint32
  <1>9. r \in Byte /\ r1 \in Byte /\ r2 \in Byte
    BY <1>1, <1>3, SMT
  <1> HIDE DEF c, r2, r1, r
  <1>10. <<c, r2, r1, r>> \in [1..4 -> Byte]
    BY <1>7, <1>9, SMT
  <1>11. Uint32(<<c, r2, r1, r>>) = n
    BY <1>6, SMT DEF Uint32
  <1> QED BY <1>8, <1>10, <1>11, SMT DEF Octets, Byte

LEMMA ZerosType == \A n \in Nat : Zeros(n) \in Seq(Byte) /\ Len(Zeros(n)) = n
  <1> TAKE n \in Nat
  <1>1. Zeros(n) \in [1..n -> Byte]
    BY DEF Zeros, Byte
  <1> QED BY <1>1, FunctionSeq

\* The headers of an LSP.
LspHeads(seq) == PDUHeader(L1_LSP) \o LspHeader(Sid, seq)

\* The bytes the readers of an LSP's headers look at.
LEMMA LspHeadsIs ==
  ASSUME NEW seq \in Sequences
  PROVE  /\ LspHeads(seq) \in Seq(Byte) /\ Len(LspHeads(seq)) = 27
         /\ LspHeads(seq)[1] = 131 /\ LspHeads(seq)[5] = L1_LSP
         /\ \A j \in 1..6 : LspHeads(seq)[12 + j] = Sid[j]
         /\ \A j \in 1..4 : LspHeads(seq)[20 + j] = PutUint32(seq)[j]
  <1> DEFINE p == PutUint32(seq)
             a == Zeros(4) \o Sid
             b == a \o Zeros(2)
             c == b \o p
             d == c \o Zeros(3)
             g == PDUHeader(L1_LSP)
             h == g \o d
  <1>0. LspHeads(seq) = h
    BY Zenon DEF LspHeads, LspHeader
  <1>1. Sid \in Seq(Byte) /\ Len(Sid) = 6
    <2>1. Sid \in Octets(6)
      BY AdvertiseAssumption, SMT
    <2> QED BY <2>1, OctetsSeq
  <1>2. p \in Seq(Byte) /\ Len(p) = 4
    <2>1. p \in Octets(4)
      BY AdvertiseAssumption, Uint32Inverse, SMT
    <2> HIDE DEF p
    <2> QED BY <2>1, OctetsSeq
  <1>3. /\ Zeros(4) \in Seq(Byte) /\ Len(Zeros(4)) = 4
        /\ Zeros(2) \in Seq(Byte) /\ Len(Zeros(2)) = 2
        /\ Zeros(3) \in Seq(Byte) /\ Len(Zeros(3)) = 3
    BY ZerosType
  <1>4. g \in Seq(Byte) /\ Len(g) = 8 /\ g[1] = 131 /\ g[5] = L1_LSP
    BY DEF PDUHeader, L1_LSP, Byte
  <1> HIDE DEF p, g
  <1>5. a \in Seq(Byte) /\ Len(a) = 10 /\ \A j \in 1..6 : a[4 + j] = Sid[j]
    <2>1. a \in Seq(Byte) /\ Behind(a, Zeros(4), Sid)
      BY <1>1, <1>3, ConcatAt, Zenon
    <2> HIDE DEF a
    <2>2. Len(a) = 4 + 6 /\ \A j \in 1..6 : a[4 + j] = Sid[j]
      BY <1>1, <1>3, <2>1, Zenon DEF Behind
    <2> QED BY <2>1, <2>2
  <1> HIDE DEF a
  <1>6. b \in Seq(Byte) /\ Len(b) = 12 /\ \A j \in 1..10 : b[j] = a[j]
    <2>1. b \in Seq(Byte) /\ Behind(b, a, Zeros(2))
      BY <1>3, <1>5, ConcatAt, Zenon
    <2> HIDE DEF b
    <2>2. Len(b) = 10 + 2 /\ \A j \in 1..10 : b[j] = a[j]
      BY <1>3, <1>5, <2>1, Zenon DEF Behind
    <2> QED BY <2>1, <2>2
  <1> HIDE DEF b
  <1>7. c \in Seq(Byte) /\ Len(c) = 16 /\ (\A j \in 1..12 : c[j] = b[j]) /\ \A j \in 1..4 : c[12 + j] = p[j]
    <2>1. c \in Seq(Byte) /\ Behind(c, b, p)
      BY <1>2, <1>6, ConcatAt, Zenon
    <2> HIDE DEF c
    <2>2. Len(c) = 12 + 4 /\ (\A j \in 1..12 : c[j] = b[j]) /\ \A j \in 1..4 : c[12 + j] = p[j]
      BY <1>2, <1>6, <2>1, Zenon DEF Behind
    <2> QED BY <2>1, <2>2
  <1> HIDE DEF c
  <1>8. d \in Seq(Byte) /\ Len(d) = 19 /\ \A j \in 1..16 : d[j] = c[j]
    <2>1. d \in Seq(Byte) /\ Behind(d, c, Zeros(3))
      BY <1>3, <1>7, ConcatAt, Zenon
    <2> HIDE DEF d
    <2>2. Len(d) = 16 + 3 /\ \A j \in 1..16 : d[j] = c[j]
      BY <1>3, <1>7, <2>1, Zenon DEF Behind
    <2> QED BY <2>1, <2>2
  <1> HIDE DEF d
  <1>9. h \in Seq(Byte) /\ Len(h) = 27 /\ (\A j \in 1..8 : h[j] = g[j]) /\ \A j \in 1..19 : h[8 + j] = d[j]
    <2>1. h \in Seq(Byte) /\ Behind(h, g, d)
      BY <1>4, <1>8, ConcatAt, Zenon
    <2> HIDE DEF h
    <2>2. Len(h) = 8 + 19 /\ (\A j \in 1..8 : h[j] = g[j]) /\ \A j \in 1..19 : h[8 + j] = d[j]
      BY <1>4, <1>8, <2>1, Zenon DEF Behind
    <2> QED BY <2>1, <2>2
  <1> HIDE DEF h
  <1>10. ASSUME NEW j \in 1..6 PROVE h[12 + j] = Sid[j]
    <2>1. 4 + j \in 1..10 /\ 4 + j \in 1..12 /\ 4 + j \in 1..16 /\ 4 + j \in 1..19 /\ 8 + (4 + j) = 12 + j
      OBVIOUS
    <2>2. h[8 + (4 + j)] = d[4 + j]
      BY <1>9, <2>1, Zenon
    <2>3. d[4 + j] = c[4 + j]
      BY <1>8, <2>1, Zenon
    <2>4. c[4 + j] = b[4 + j]
      BY <1>7, <2>1, Zenon
    <2>5. b[4 + j] = a[4 + j]
      BY <1>6, <2>1, Zenon
    <2>6. a[4 + j] = Sid[j]
      BY <1>5, Zenon
    <2> QED BY <2>1, <2>2, <2>3, <2>4, <2>5, <2>6, Zenon
  <1>11. ASSUME NEW j \in 1..4 PROVE h[20 + j] = p[j]
    <2>1. 12 + j \in 1..16 /\ 12 + j \in 1..19 /\ 8 + (12 + j) = 20 + j
      OBVIOUS
    <2>2. h[8 + (12 + j)] = d[12 + j]
      BY <1>9, <2>1, Zenon
    <2>3. d[12 + j] = c[12 + j]
      BY <1>8, <2>1, Zenon
    <2>4. c[12 + j] = p[j]
      BY <1>7, Zenon
    <2> QED BY <2>1, <2>2, <2>3, <2>4, Zenon
  <1>12. h[1] = 131 /\ h[5] = L1_LSP
    <2>1. 1 \in 1..8 /\ 5 \in 1..8
      OBVIOUS
    <2>2. h[1] = g[1] /\ h[5] = g[5]
      BY <1>9, <2>1
    <2> QED BY <1>4, <2>2
  <1> QED BY <1>0, <1>9, <1>10, <1>11, <1>12, Zenon DEF p

\* The headers of a hello.
HelloHeads(sid) == PDUHeader(L1_LAN_HELLO) \o HelloHeader(sid)

\* The same of a hello.
LEMMA HelloHeadsIs ==
  ASSUME NEW sid \in Octets(6)
  PROVE  /\ HelloHeads(sid) \in Seq(Byte) /\ Len(HelloHeads(sid)) = 28
         /\ HelloHeads(sid)[1] = 131 /\ HelloHeads(sid)[5] = L1_LAN_HELLO
         /\ \A j \in 1..6 : HelloHeads(sid)[9 + j] = sid[j]
  <1> DEFINE a == <<1>> \o sid
             b == a \o <<60, 0>>
             c == b \o <<0, 0>>
             d == c \o <<0, 64>>
             e == d \o Zeros(7)
             g == PDUHeader(L1_LAN_HELLO)
             h == g \o e
  <1>0. HelloHeads(sid) = h
    BY Zenon DEF HelloHeads, HelloHeader
  <1>1. sid \in Seq(Byte) /\ Len(sid) = 6
    BY OctetsSeq
  <1>2. /\ <<1>> \in Seq(Byte) /\ Len(<<1>>) = 1
        /\ <<60, 0>> \in Seq(Byte) /\ Len(<<60, 0>>) = 2
        /\ <<0, 0>> \in Seq(Byte) /\ Len(<<0, 0>>) = 2
        /\ <<0, 64>> \in Seq(Byte) /\ Len(<<0, 64>>) = 2
    BY DEF Byte
  <1>3. Zeros(7) \in Seq(Byte) /\ Len(Zeros(7)) = 7
    BY ZerosType
  <1>4. g \in Seq(Byte) /\ Len(g) = 8 /\ g[1] = 131 /\ g[5] = L1_LAN_HELLO
    BY DEF PDUHeader, L1_LAN_HELLO, Byte
  <1> HIDE DEF g
  <1>5. a \in Seq(Byte) /\ Len(a) = 7 /\ \A j \in 1..6 : a[1 + j] = sid[j]
    <2>1. a \in Seq(Byte) /\ Behind(a, <<1>>, sid)
      BY <1>1, <1>2, ConcatAt, Zenon
    <2> HIDE DEF a
    <2>2. Len(a) = 1 + 6 /\ \A j \in 1..6 : a[1 + j] = sid[j]
      BY <1>1, <1>2, <2>1, Zenon DEF Behind
    <2> QED BY <2>1, <2>2
  <1> HIDE DEF a
  <1>6. b \in Seq(Byte) /\ Len(b) = 9 /\ \A j \in 1..7 : b[j] = a[j]
    <2>1. b \in Seq(Byte) /\ Behind(b, a, <<60, 0>>)
      BY <1>2, <1>5, ConcatAt, Zenon
    <2> HIDE DEF b
    <2>2. Len(b) = 7 + 2 /\ \A j \in 1..7 : b[j] = a[j]
      BY <1>2, <1>5, <2>1, Zenon DEF Behind
    <2> QED BY <2>1, <2>2
  <1> HIDE DEF b
  <1>7. c \in Seq(Byte) /\ Len(c) = 11 /\ \A j \in 1..9 : c[j] = b[j]
    <2>1. c \in Seq(Byte) /\ Behind(c, b, <<0, 0>>)
      BY <1>2, <1>6, ConcatAt, Zenon
    <2> HIDE DEF c
    <2>2. Len(c) = 9 + 2 /\ \A j \in 1..9 : c[j] = b[j]
      BY <1>2, <1>6, <2>1, Zenon DEF Behind
    <2> QED BY <2>1, <2>2
  <1> HIDE DEF c
  <1>8. d \in Seq(Byte) /\ Len(d) = 13 /\ \A j \in 1..11 : d[j] = c[j]
    <2>1. d \in Seq(Byte) /\ Behind(d, c, <<0, 64>>)
      BY <1>2, <1>7, ConcatAt, Zenon
    <2> HIDE DEF d
    <2>2. Len(d) = 11 + 2 /\ \A j \in 1..11 : d[j] = c[j]
      BY <1>2, <1>7, <2>1, Zenon DEF Behind
    <2> QED BY <2>1, <2>2
  <1> HIDE DEF d
  <1>9. e \in Seq(Byte) /\ Len(e) = 20 /\ \A j \in 1..13 : e[j] = d[j]
    <2>1. e \in Seq(Byte) /\ Behind(e, d, Zeros(7))
      BY <1>3, <1>8, ConcatAt, Zenon
    <2> HIDE DEF e
    <2>2. Len(e) = 13 + 7 /\ \A j \in 1..13 : e[j] = d[j]
      BY <1>3, <1>8, <2>1, Zenon DEF Behind
    <2> QED BY <2>1, <2>2
  <1> HIDE DEF e
  <1>10. h \in Seq(Byte) /\ Len(h) = 28 /\ (\A j \in 1..8 : h[j] = g[j]) /\ \A j \in 1..20 : h[8 + j] = e[j]
    <2>1. h \in Seq(Byte) /\ Behind(h, g, e)
      BY <1>4, <1>9, ConcatAt, Zenon
    <2> HIDE DEF h
    <2>2. Len(h) = 8 + 20 /\ (\A j \in 1..8 : h[j] = g[j]) /\ \A j \in 1..20 : h[8 + j] = e[j]
      BY <1>4, <1>9, <2>1, Zenon DEF Behind
    <2> QED BY <2>1, <2>2
  <1> HIDE DEF h
  <1>11. ASSUME NEW j \in 1..6 PROVE h[9 + j] = sid[j]
    <2>1. /\ 1 + j \in 1..7 /\ 1 + j \in 1..9 /\ 1 + j \in 1..11 /\ 1 + j \in 1..13 /\ 1 + j \in 1..20
          /\ 8 + (1 + j) = 9 + j
      OBVIOUS
    <2>2. h[8 + (1 + j)] = e[1 + j]
      BY <1>10, <2>1, Zenon
    <2>3. e[1 + j] = d[1 + j]
      BY <1>9, <2>1, Zenon
    <2>4. d[1 + j] = c[1 + j]
      BY <1>8, <2>1, Zenon
    <2>5. c[1 + j] = b[1 + j]
      BY <1>7, <2>1, Zenon
    <2>6. b[1 + j] = a[1 + j] /\ a[1 + j] = sid[j]
      BY <1>5, <1>6, <2>1, Zenon
    <2> QED BY <2>1, <2>2, <2>3, <2>4, <2>5, <2>6, Zenon
  <1>12. h[1] = 131 /\ h[5] = L1_LAN_HELLO
    <2>1. 1 \in 1..8 /\ 5 \in 1..8
      OBVIOUS
    <2>2. h[1] = g[1] /\ h[5] = g[5]
      BY <1>10, <2>1
    <2> QED BY <1>4, <2>2
  <1> QED BY <1>0, <1>10, <1>11, <1>12, Zenon

\* A slice of a frame that holds x there is x.
LEMMA SliceIs ==
  \A f \in Seq(Byte), from \in Nat, n \in Nat : \A S : \A x \in [1..n -> S] :
    from + n <= Len(f) /\ (\A j \in 1..n : f[from + j] = x[j]) => Slice(f, from, n) = x
  <1> TAKE f \in Seq(Byte), from \in Nat, n \in Nat
  <1> TAKE S
  <1> TAKE x \in [1..n -> S]
  <1> HAVE from + n <= Len(f) /\ \A j \in 1..n : f[from + j] = x[j]
  <1> DEFINE lf == Len(f)
  <1>0. lf \in Nat /\ from + n <= lf
    OBVIOUS
  <1>1. ASSUME NEW j \in 1..n PROVE ByteAt(f, from + (j - 1)) = x[j]
    <2> HIDE DEF lf
    <2>1. from + (j - 1) < lf /\ (from + (j - 1)) + 1 = from + j
      BY <1>0
    <2> QED BY <2>1 DEF ByteAt, lf
  <1>2. Slice(f, from, n) = [j \in 1..n |-> x[j]]
    BY <1>1 DEF Slice
  <1> QED BY <1>2

\* TLVs, with lengths that may be wrong.
TLV == [typeTLV : Byte, lengthTLV : Byte, valueTLV : Seq(Byte)]

\* TLVs are written as bytes, also those with a wrong length.
LEMMA BodyType ==
  ASSUME NEW T \in Seq(TLV)
  PROVE  Body(T) \in Seq(Byte) /\ Len(Body(T)) \in Nat
  <1> DEFINE n == Len(T)
  <1>1. n \in Nat /\ DOMAIN T = 1..n /\ \A i \in 1..n : T[i] \in TLV
    BY LenProperties
  <1> HIDE DEF n
  <1>2. ASSUME NEW i \in 1..n PROVE <<T[i].typeTLV, T[i].lengthTLV>> \o T[i].valueTLV \in Seq(Byte)
    <2>1. <<T[i].typeTLV, T[i].lengthTLV>> \in Seq(Byte) /\ T[i].valueTLV \in Seq(Byte)
      BY <1>1 DEF TLV
    <2> QED BY <2>1, ConcatAt, Zenon
  <1>3. Encs(T) = [i \in 1..n |-> <<T[i].typeTLV, T[i].lengthTLV>> \o T[i].valueTLV]
    BY <1>1 DEF Encs
  <1>4. Encs(T) \in [1..n -> Seq(Byte)]
    BY <1>2, <1>3
  <1>5. Encs(T) \in Seq(Seq(Byte))
    BY <1>1, <1>4, FunctionSeq
  <1>6. Body(T) \in Seq(Byte)
    BY <1>5, FlattenIs DEF Body
  <1> QED BY <1>6, LenProperties

\* How much a TLV adds.
LEMMA BodyAppend ==
  ASSUME NEW T \in Seq(Exact), NEW t \in Exact
  PROVE  Len(Body(Append(T, t))) = Len(Body(T)) + (2 + t.lengthTLV)
  <1> DEFINE n == Len(T)
             A == Append(T, t)
             s == Encs(T)
             x == <<t.typeTLV, t.lengthTLV>> \o t.valueTLV
  <1>1. n \in Nat /\ A \in Seq(Exact) /\ Len(A) = n + 1 /\ A[n + 1] = t /\ \A i \in 1..n : A[i] = T[i]
    BY AppendProperties
  <1>2. s \in Seq(Seq(Byte)) /\ Len(s) = n
    BY EncsType
  <1>3. x \in Seq(Byte) /\ Len(x) = 2 + t.lengthTLV
    <2> DEFINE h == <<t.typeTLV, t.lengthTLV>>
               v == t.valueTLV
    <2>1. h \in Seq(Byte) /\ Len(h) = 2 /\ v \in Seq(Byte) /\ Len(v) = t.lengthTLV
      BY DEF Exact
    <2> HIDE DEF h, v
    <2>2. x \in Seq(Byte) /\ Behind(x, h, v)
      BY <2>1, ConcatAt, Zenon DEF h, v
    <2> HIDE DEF x
    <2> QED BY <2>1, <2>2, Zenon DEF Behind
  <1>4. s = [i \in 1..n |-> <<T[i].typeTLV, T[i].lengthTLV>> \o T[i].valueTLV]
    BY LenProperties DEF Encs
  <1> HIDE DEF A
  <1>5. Encs(A) = [i \in 1..(n + 1) |-> <<A[i].typeTLV, A[i].lengthTLV>> \o A[i].valueTLV]
    <2>1. DOMAIN A = 1..(n + 1)
      BY <1>1, LenProperties
    <2> QED BY <2>1 DEF Encs
  <1> DEFINE B == Append(s, x)
  <1>6. Encs(A) \in Seq(Seq(Byte)) /\ Len(Encs(A)) = n + 1
    BY <1>1, EncsType
  <1> HIDE DEF s, x, n
  <1>7. B \in Seq(Seq(Byte)) /\ Len(B) = n + 1 /\ B[n + 1] = x /\ \A i \in 1..n : B[i] = s[i]
    BY <1>2, <1>3, AppendProperties
  <1> HIDE DEF B
  <1>8. ASSUME NEW i \in 1..(n + 1) PROVE Encs(A)[i] = B[i]
    <2>0. i \in 1..n \/ i = n + 1
      BY <1>1
    <2>1. Encs(A)[i] = <<A[i].typeTLV, A[i].lengthTLV>> \o A[i].valueTLV
      BY <1>5
    <2>2. CASE i \in 1..n
      <3>1. A[i] = T[i] /\ B[i] = s[i]
        BY <1>1, <1>7, <2>2, Zenon
      <3>2. s[i] = <<T[i].typeTLV, T[i].lengthTLV>> \o T[i].valueTLV
        BY <1>4, <2>2
      <3> QED BY <2>1, <3>1, <3>2, Zenon
    <2>3. CASE i = n + 1
      BY <1>1, <1>7, <2>1, <2>3, Zenon DEF x
    <2> QED BY <2>0, <2>2, <2>3
  <1>9. Encs(A) = B
    BY <1>6, <1>7, <1>8, SeqEqual
  <1>10. Body(A) = FlattenSeq(s) \o x
    BY <1>2, <1>3, <1>9, FlattenAppend DEF Body, B
  <1>11. FlattenSeq(s) \in Seq(Byte)
    BY <1>2, FlattenIs
  <1>12. Behind(Body(A), FlattenSeq(s), x)
    BY <1>3, <1>10, <1>11, ConcatAt, Zenon
  <1> QED BY <1>3, <1>12, Zenon DEF Behind, A, Body, s

\* A frame with headers h and TLVs T.
LEMMA SentFrame ==
  ASSUME NEW src \in Octets(6), NEW h \in Seq(Byte), NEW T, Body(T) \in Seq(Byte)
  PROVE  LET f == buildEthernetFrame(l1_multicast, src, Serialize(h, T))
         IN /\ f \in Seq(Byte) /\ Len(f) = (14 + Len(h)) + Len(Body(T))
            /\ \A j \in 1..6 : f[6 + j] = src[j]
            /\ \A j \in 1..Len(h) : f[14 + j] = h[j]
            /\ \A j \in 1..Len(Body(T)) : f[(14 + Len(h)) + j] = Body(T)[j]
  <1> DEFINE b == Body(T)
             p == Serialize(h, T)
             f == buildEthernetFrame(l1_multicast, src, p)
             m == Len(h)
             n == Len(b)
  <1>1. p \in Seq(Byte) /\ Behind(p, h, b)
    <2>1. p = h \o b
      BY SerializeIs
    <2> HIDE DEF p, b
    <2>2. b \in Seq(Byte)
      BY DEF b
    <2> QED BY <2>1, <2>2, ConcatAt, Zenon
  <1>2. m \in Nat /\ n \in Nat
    BY LenProperties
  <1>3. l1_multicast \in Octets(6)
    BY DEF l1_multicast, Octets
  <1> HIDE DEF p
  <1>4. /\ f \in Seq(Byte) /\ Len(f) = 14 + Len(p)
        /\ \A j \in 1..6 : f[6 + j] = src[j]
        /\ \A j \in 1..Len(p) : f[14 + j] = p[j]
    BY <1>1, <1>3, FrameIs
  <1> HIDE DEF f, m, n, b
  <1>5. Len(p) = m + n /\ (\A i \in 1..m : p[i] = h[i]) /\ \A i \in 1..n : p[m + i] = b[i]
    BY <1>1, Zenon DEF Behind, m, n
  <1>6. Len(f) = (14 + m) + n
    <2>1. Len(f) = 14 + (m + n)
      BY <1>4, <1>5, Zenon
    <2> QED BY <1>2, <2>1
  <1>7. \A j \in 1..m : f[14 + j] = h[j]
    <2>1. \A j \in 1..m : j \in 1..(m + n)
      BY <1>2
    <2> QED BY <1>4, <1>5, <2>1, Zenon
  <1>8. ASSUME NEW j \in 1..n PROVE f[(14 + m) + j] = b[j]
    <2>1. m + j \in 1..(m + n) /\ 14 + (m + j) = (14 + m) + j
      BY <1>2
    <2>2. f[14 + (m + j)] = p[m + j]
      BY <1>4, <1>5, <2>1, Zenon
    <2> QED BY <1>5, <2>1, <2>2, Zenon
  <1>9. (\A j \in 1..6 : f[6 + j] = src[j]) /\ f \in Seq(Byte)
    BY <1>4
  <1> QED BY <1>6, <1>7, <1>8, <1>9, Zenon DEF f, p, b, m, n

\* It carries its TLVs if their lengths are right and it fits the buffer.
LEMMA SentCarries ==
  ASSUME NEW src \in Octets(6), NEW h \in Seq(Byte), NEW T \in Seq(Exact), NEW base, base = 14 + Len(h),
         base + Len(Body(T)) <= 1000
  PROVE  Carries(buildEthernetFrame(l1_multicast, src, Serialize(h, T)), base, T)
  <1> DEFINE f == buildEthernetFrame(l1_multicast, src, Serialize(h, T))
  <1>1. Body(T) \in Seq(Byte)
    BY BodyIs
  <1>2. /\ f \in Seq(Byte) /\ Len(f) = (14 + Len(h)) + Len(Body(T))
        /\ \A j \in 1..Len(Body(T)) : f[(14 + Len(h)) + j] = Body(T)[j]
    BY <1>1, SentFrame
  <1> HIDE DEF f
  <1> QED BY <1>2, Zenon DEF Carries, f

-----------------------------------------------------------------------------
(* What receivers read of the headers                                      *)

\* recvFrame cuts a frame off at the end of the buffer.
LEMMA RecvIs ==
  ASSUME NEW f \in Seq(Byte)
  PROVE  LET r == recvFrame(f)
         IN /\ r \in Seq(Byte) /\ Len(r) <= 1000
            /\ Len(f) <= 1000 => r = f
            /\ Len(f) > 1000 => Len(r) = 1000
            /\ \A j \in 1..Len(r) : r[j] = f[j]
  <1>0. Len(f) \in Nat
    BY LenProperties
  <1>1. CASE Len(f) <= 1000
    <2>1. recvFrame(f) = f
      BY <1>1 DEF recvFrame, READ_BUF_SIZE
    <2> QED BY <1>0, <1>1, <2>1
  <1>2. CASE Len(f) > 1000
    <2> DEFINE r == SubSeq(f, 1, 1000)
    <2>1. recvFrame(f) = r
      BY <1>0, <1>2 DEF recvFrame, READ_BUF_SIZE
    <2>2. \A i \in 1..1000 : f[i] \in Byte
      BY <1>0, <1>2, ElementOfSeq
    <2>3. r \in Seq(Byte) /\ Len(r) = 1000 /\ \A i \in 1..1000 : r[i] = f[i]
      <3>1. /\ r \in Seq(Byte)
            /\ Len(r) = IF 1 <= 1000 THEN (1000 - 1) + 1 ELSE 0
            /\ \A i \in 1..((1000 - 1) + 1) : r[i] = f[(1 + i) - 1]
        BY <2>2, SubSeqProperties
      <3> HIDE DEF r
      <3>2. Len(r) = 1000
        BY <3>1
      <3>3. ASSUME NEW i \in 1..1000 PROVE r[i] = f[i]
        <4>1. i \in 1..((1000 - 1) + 1) /\ (1 + i) - 1 = i
          OBVIOUS
        <4>2. r[i] = f[(1 + i) - 1]
          BY <3>1, <4>1
        <4> QED BY <4>1, <4>2
      <3> QED BY <3>1, <3>2, <3>3
    <2> HIDE DEF r
    <2>4. ~(Len(f) <= 1000)
      BY <1>0, <1>2
    <2>5. r \in Seq(Byte) /\ Len(r) <= 1000 /\ (Len(f) > 1000 => Len(r) = 1000)
      BY <2>3
    <2>6. \A j \in 1..Len(r) : r[j] = f[j]
      <3>0. \A i \in 1..1000 : r[i] = f[i]
        BY <2>3
      <3>1. Len(r) = 1000
        BY <2>3
      <3>2. 1..Len(r) = 1..1000
        BY <3>1
      <3> TAKE j \in 1..Len(r)
      <3>3. j \in 1..1000
        BY <3>2
      <3> QED BY <3>0, <3>3
    <2> QED BY <2>1, <2>4, <2>5, <2>6
  <1> QED BY <1>0, <1>1, <1>2

\* f is an LSP of this daemon with number seq.
IsLsp(f, seq) ==
  /\ f \in Seq(Byte) /\ Len(f) >= 41
  /\ \A j \in 1..27 : f[14 + j] = LspHeads(seq)[j]

\* What is read of an LSP's headers is what buildEmptyLSP wrote.
LEMMA LspReads ==
  ASSUME NEW seq \in Sequences, NEW f, IsLsp(f, seq)
  PROVE  /\ f[15] = 131 /\ pduType(f) = L1_LSP /\ tlvOffset(f) = 41
         /\ LspHeaders(f) = LspHeads(seq) /\ LspSource(f) = Sid /\ LspSequence(f) = seq
  <1> DEFINE h == LspHeads(seq)
             p == PutUint32(seq)
  <1>1. /\ h \in Seq(Byte) /\ Len(h) = 27
        /\ h[1] = 131 /\ h[5] = L1_LSP
        /\ \A j \in 1..6 : h[12 + j] = Sid[j]
        /\ \A j \in 1..4 : h[20 + j] = p[j]
    BY LspHeadsIs
  <1>2. p \in Octets(4) /\ Uint32(p) = seq
    BY AdvertiseAssumption, Uint32Inverse, SMT
  <1>3. Sid \in Octets(6)
    BY AdvertiseAssumption, SMT
  <1> HIDE DEF h, p
  <1>4. f \in Seq(Byte) /\ Len(f) >= 41 /\ Len(f) \in Nat /\ \A j \in 1..27 : f[14 + j] = h[j]
    BY DEF IsLsp, h
  <1>5. 1 \in 1..27 /\ 5 \in 1..27 /\ 14 + 1 = 15 /\ 14 + 5 = 19
    OBVIOUS
  <1>6. f[15] = 131 /\ f[19] = L1_LSP
    BY <1>1, <1>4, <1>5
  <1>7. pduType(f) = L1_LSP /\ tlvOffset(f) = 41
    BY <1>6 DEF pduType, tlvOffset, ETHERNET_HEADER_SIZE
  <1>8. LspHeaders(f) = h
    <2>1. h \in [1..27 -> Byte]
      BY <1>1, LenProperties
    <2>2. Slice(f, 14, 27) = h
      <3>1. 14 \in Nat /\ 27 \in Nat /\ 14 + 27 <= Len(f)
        BY <1>4
      <3> QED BY <1>4, <2>1, <3>1, SliceIs, Zenon
    <2>3. 8 + 19 = 27
      OBVIOUS
    <2> QED BY <2>2, <2>3, Zenon DEF LspHeaders, ETHERNET_HEADER_SIZE
  <1>9. LspSource(f) = Sid
    <2>1. Sid \in [1..6 -> Byte]
      BY <1>3 DEF Octets, Byte
    <2>2. ASSUME NEW j \in 1..6 PROVE f[26 + j] = Sid[j]
      <3>1. 12 + j \in 1..27 /\ 14 + (12 + j) = 26 + j
        OBVIOUS
      <3>2. f[14 + (12 + j)] = h[12 + j]
        BY <1>4, <3>1
      <3>3. h[12 + j] = Sid[j]
        BY <1>1
      <3> QED BY <3>1, <3>2, <3>3, Zenon
    <2>3. Slice(f, 26, 6) = Sid
      <3>1. 26 \in Nat /\ 6 \in Nat /\ 26 + 6 <= Len(f)
        BY <1>4
      <3> QED BY <1>4, <2>1, <2>2, <3>1, SliceIs, Zenon
    <2>4. (14 + 8) + 4 = 26
      OBVIOUS
    <2> QED BY <2>3, <2>4, Zenon DEF LspSource, ETHERNET_HEADER_SIZE
  <1>10. LspSequence(f) = seq
    <2>1. p \in [1..4 -> Byte]
      BY <1>2 DEF Octets, Byte
    <2>2. ASSUME NEW j \in 1..4 PROVE f[34 + j] = p[j]
      <3>1. 20 + j \in 1..27 /\ 14 + (20 + j) = 34 + j
        OBVIOUS
      <3>2. f[14 + (20 + j)] = h[20 + j]
        BY <1>4, <3>1
      <3>3. h[20 + j] = p[j]
        BY <1>1
      <3> QED BY <3>1, <3>2, <3>3, Zenon
    <2>3. Slice(f, 34, 4) = p
      <3>1. 34 \in Nat /\ 4 \in Nat /\ 34 + 4 <= Len(f)
        BY <1>4
      <3> QED BY <1>4, <2>1, <2>2, <3>1, SliceIs, Zenon
    <2>4. (14 + 8) + 12 = 34
      OBVIOUS
    <2> QED BY <1>2, <2>3, <2>4, Zenon DEF LspSequence, ETHERNET_HEADER_SIZE
  <1> QED BY <1>6, <1>7, <1>8, <1>9, <1>10 DEF h

\* A frame that is cut off keeps its headers.
LEMMA LspReceived ==
  ASSUME NEW seq, NEW f, IsLsp(f, seq)
  PROVE  IsLsp(recvFrame(f), seq) /\ Len(recvFrame(f)) <= 1000
  <1> DEFINE r == recvFrame(f)
  <1>1. f \in Seq(Byte) /\ Len(f) >= 41 /\ Len(f) \in Nat
    BY DEF IsLsp
  <1>2. /\ r \in Seq(Byte) /\ Len(r) <= 1000
        /\ Len(f) <= 1000 => r = f
        /\ Len(f) > 1000 => Len(r) = 1000
        /\ \A j \in 1..Len(r) : r[j] = f[j]
    BY <1>1, RecvIs
  <1> HIDE DEF r
  <1>3. Len(r) \in Nat /\ Len(r) >= 41
    <2>1. Len(r) \in Nat
      BY <1>2, LenProperties
    <2>2. CASE Len(f) <= 1000
      BY <1>1, <1>2, <2>1, <2>2
    <2>3. CASE Len(f) > 1000
      <3>1. Len(r) = 1000
        BY <1>2, <2>3
      <3> QED BY <3>1
    <2> QED BY <1>1, <2>2, <2>3
  <1>4. \A j \in 1..27 : 14 + j \in 1..Len(r)
    BY <1>3
  <1>5. \A j \in 1..27 : r[14 + j] = LspHeads(seq)[j]
    <2> TAKE j \in 1..27
    <2>0. 14 + j \in 1..Len(r)
      BY <1>4
    <2>1. r[14 + j] = f[14 + j]
      <3> DEFINE k == 14 + j
      <3> HIDE DEF k
      <3>1. k \in 1..Len(r)
        BY <2>0 DEF k
      <3>2. \A i \in 1..Len(r) : r[i] = f[i]
        BY <1>2
      <3>3. r[k] = f[k]
        BY <3>1, <3>2
      <3> QED BY <3>3 DEF k
    <2>2. f[14 + j] = LspHeads(seq)[j]
      BY DEF IsLsp
    <2> QED BY <2>1, <2>2
  <1> QED BY <1>2, <1>3, <1>5 DEF IsLsp, r

\* f is a hello of sid.
IsHello(f, sid) ==
  /\ f \in Seq(Byte) /\ Len(f) >= 42
  /\ \A j \in 1..28 : f[14 + j] = HelloHeads(sid)[j]

\* What is read of a hello's headers is what buildL1HelloPDU wrote.
LEMMA HelloReads ==
  ASSUME NEW sid \in Octets(6), NEW f, IsHello(f, sid)
  PROVE  /\ f[15] = 131 /\ pduType(f) = L1_LAN_HELLO /\ tlvOffset(f) = 42
         /\ HelloSource(f) = sid
  <1> DEFINE h == HelloHeads(sid)
  <1>1. /\ h \in Seq(Byte) /\ Len(h) = 28
        /\ h[1] = 131 /\ h[5] = L1_LAN_HELLO
        /\ \A j \in 1..6 : h[9 + j] = sid[j]
    BY HelloHeadsIs
  <1> HIDE DEF h
  <1>4. f \in Seq(Byte) /\ Len(f) >= 42 /\ Len(f) \in Nat /\ \A j \in 1..28 : f[14 + j] = h[j]
    BY DEF IsHello, h
  <1>5. 1 \in 1..28 /\ 5 \in 1..28 /\ 14 + 1 = 15 /\ 14 + 5 = 19
    OBVIOUS
  <1>6. f[15] = 131 /\ f[19] = L1_LAN_HELLO
    BY <1>1, <1>4, <1>5
  <1>7. pduType(f) = L1_LAN_HELLO /\ tlvOffset(f) = 42
    BY <1>6 DEF pduType, tlvOffset, ETHERNET_HEADER_SIZE, L1_LAN_HELLO, L1_LSP
  <1>9. HelloSource(f) = sid
    <2>1. sid \in [1..6 -> Byte]
      BY DEF Octets, Byte
    <2>2. ASSUME NEW j \in 1..6 PROVE f[23 + j] = sid[j]
      <3>1. 9 + j \in 1..28 /\ 14 + (9 + j) = 23 + j
        OBVIOUS
      <3>2. f[14 + (9 + j)] = h[9 + j]
        BY <1>4, <3>1
      <3>3. h[9 + j] = sid[j]
        BY <1>1
      <3> QED BY <3>1, <3>2, <3>3, Zenon
    <2>3. Slice(f, 23, 6) = sid
      <3>1. 23 \in Nat /\ 6 \in Nat /\ 23 + 6 <= Len(f)
        BY <1>4
      <3> QED BY <1>4, <2>1, <2>2, <3>1, SliceIs, Zenon
    <2>4. (14 + 8) + 1 = 23
      OBVIOUS
    <2> QED BY <2>3, <2>4, Zenon DEF HelloSource, ETHERNET_HEADER_SIZE
  <1> QED BY <1>6, <1>7, <1>9

\* The MAC a hello came from.
LEMMA MacReads ==
  ASSUME NEW mac \in Octets(6), NEW f \in Seq(Byte), Len(f) >= 42, \A j \in 1..6 : f[6 + j] = mac[j]
  PROVE  SourceMac(f) = mac
  <1>1. mac \in [1..6 -> Byte] /\ 6 + 6 <= Len(f)
    BY DEF Octets, Byte
  <1>2. 6 \in Nat
    OBVIOUS
  <1> QED BY <1>1, <1>2, SliceIs, Zenon DEF SourceMac

-----------------------------------------------------------------------------
(* The two TLVs of an LSP, written and read back                           *)

\* Pieces of one length c: piece i begins behind c * (i - 1).
LEMMA ChunksIs ==
  ASSUME NEW B, NEW s \in Seq(Seq(B)), NEW c \in Nat, \A i \in 1..Len(s) : Len(s[i]) = c
  PROVE  /\ FlattenSeq(s) \in Seq(B) /\ Len(FlattenSeq(s)) = c * Len(s)
         /\ \A i \in 1..Len(s) : \A j \in 1..c : FlattenSeq(s)[c * (i - 1) + j] = s[i][j]
  <1> DEFINE n == Len(s)
             e == Ends(s)
             F == FlattenSeq(s)
  <1>1. n \in Nat
    BY LenProperties
  <1>2. \A i \in 0..n : e[i] = c * i
    BY FlattenChunks
  <1>3. F \in Seq(B) /\ Len(F) = e[n] /\ \A i \in 1..n : \A j \in 1..Len(s[i]) : F[e[i - 1] + j] = s[i][j]
    BY FlattenIs
  <1> HIDE DEF n, e, F
  <1>4. Len(F) = c * n
    <2>1. n \in 0..n
      BY <1>1
    <2> QED BY <1>2, <1>3, <2>1
  <1>5. ASSUME NEW i \in 1..n, NEW j \in 1..c PROVE F[c * (i - 1) + j] = s[i][j]
    <2>1. i - 1 \in 0..n
      BY <1>1
    <2>2. Len(s[i]) = c
      BY DEF n
    <2>3. e[i - 1] = c * (i - 1)
      BY <1>2, <2>1
    <2>4. F[e[i - 1] + j] = s[i][j]
      BY <1>3, <2>2
    <2> QED BY <2>3, <2>4, Zenon
  <1> QED BY <1>3, <1>4, <1>5, Zenon DEF F, n

\* A part of a value that holds x there is x.
LEMMA SubSeqIs ==
  \A V \in Seq(Byte), x \in Seq(Byte), from \in Nat, n \in Nat :
    Len(x) = n /\ from + n <= Len(V) /\ (\A j \in 1..n : V[from + j] = x[j])
      => SubSeq(V, from + 1, from + n) = x
  <1> TAKE V \in Seq(Byte), x \in Seq(Byte), from \in Nat, n \in Nat
  <1> HAVE Len(x) = n /\ from + n <= Len(V) /\ (\A j \in 1..n : V[from + j] = x[j])
  <1> DEFINE a == from + 1
             b == from + n
             y == SubSeq(V, a, b)
  <1>1. a \in Int /\ b \in Int /\ a >= 1 /\ b <= Len(V) /\ Len(V) \in Nat
    OBVIOUS
  <1>2. \A i \in a..b : V[i] \in Byte
    <2> TAKE i \in a..b
    <2>1. i \in 1..Len(V)
      BY <1>1
    <2> QED BY <2>1, ElementOfSeq
  <1>3. /\ y \in Seq(Byte)
        /\ Len(y) = IF a <= b THEN (b - a) + 1 ELSE 0
        /\ \A i \in 1..((b - a) + 1) : y[i] = V[(a + i) - 1]
    <2> HIDE DEF a, b
    <2> QED BY <1>1, <1>2, SubSeqProperties
  <1>4. (b - a) + 1 = n /\ (a <= b <=> n > 0)
    OBVIOUS
  <1> HIDE DEF y
  <1>5. Len(y) = n
    BY <1>3, <1>4
  <1>6. ASSUME NEW i \in 1..n PROVE y[i] = x[i]
    <2>1. i \in 1..((b - a) + 1) /\ (a + i) - 1 = from + i
      BY <1>4
    <2>2. y[i] = V[(a + i) - 1]
      BY <1>3, <2>1
    <2>3. V[from + i] = x[i]
      OBVIOUS
    <2> QED BY <2>1, <2>2, <2>3, Zenon
  <1>7. Len(x) = n
    OBVIOUS
  <1>8. y = x
    <2>1. y \in Seq(Byte) /\ Len(y) = Len(x)
      BY <1>3, <1>5, <1>7, Zenon
    <2>2. \A i \in 1..Len(y) : y[i] = x[i]
      BY <1>5, <1>6, Zenon
    <2> QED BY <2>1, <2>2, SeqEqual
  <1> QED BY <1>8 DEF y

LEMMA MetricIs == Metric \in Seq(Byte) /\ Len(Metric) = 4 /\ Uint32(Metric) = 10 /\ Metric[4] = 10
  <1>1. 10 \div 16777216 <= 255 /\ 10 % 256 = 10
    BY SMT
  <1>2. Metric \in Octets(4) /\ Uint32(Metric) = 10
    BY <1>1, Uint32Inverse, SMT DEF Metric
  <1>3. Metric[4] = 10
    BY <1>1, SMT DEF Metric, PutUint32
  <1> QED BY <1>2, <1>3, OctetsSeq

\* The TLVs made of given routes and adjacencies.
ReachTLV(R) ==
  [typeTLV |-> ISIS_IP_INTERNAL_REACH_TLV,
   lengthTLV |-> (12 * Len(R)) % 256,
   valueTLV |-> FlattenSeq([r \in DOMAIN R |-> R[r].IP \o R[r].Mask \o Metric])]
NeighborsTLV(U) ==
  [typeTLV |-> ISIS_NEIGHBORS_TLV,
   lengthTLV |-> (1 + 11 * Len(U)) % 256,
   valueTLV |-> <<0>> \o FlattenSeq([i \in DOMAIN U |-> Metric \o U[i].neighborSystemID \o <<0>>])]

\* What the builders of TLVs depend on.
LEMMA TLVsOf ==
  ASSUME NEW I
  PROVE  getIPReachTLV(I) = ReachTLV(RoutesOf(I)) /\ getNeighborTLV(I) = NeighborsTLV(UpAdjsOf(I))
  BY Zenon DEF getIPReachTLV, getNeighborTLV, ReachTLV, NeighborsTLV

\* What 12 bytes of a route are.
LEMMA ReachChunks ==
  ASSUME NEW R \in Seq(Prefix)
  PROVE  LET V == ReachTLV(R).valueTLV
         IN /\ V \in Seq(Byte) /\ Len(V) = 12 * Len(R)
            /\ \A i \in 1..Len(R) :
                 /\ R[i].IP \o R[i].Mask \in Seq(Byte) /\ Len(R[i].IP \o R[i].Mask) = 8
                 /\ \A j \in 1..4 : V[12 * (i - 1) + j] = R[i].IP[j]
                 /\ \A j \in 1..4 : V[(12 * (i - 1) + 4) + j] = R[i].Mask[j]
                 /\ \A j \in 1..8 : V[12 * (i - 1) + j] = (R[i].IP \o R[i].Mask)[j]
                 /\ \A j \in 1..4 : V[(12 * (i - 1) + 8) + j] = Metric[j]
  <1> DEFINE n == Len(R)
             s == [r \in DOMAIN R |-> (R[r].IP \o R[r].Mask) \o Metric]
             V == FlattenSeq(s)
             Of(r) == R[r].IP \o R[r].Mask
  <1>0. ReachTLV(R).valueTLV = V
    BY DEF ReachTLV
  <1>1. n \in Nat /\ DOMAIN R = 1..n
    BY LenProperties
  <1>2. ASSUME NEW i \in 1..n
        PROVE  /\ Of(i) \in Seq(Byte) /\ Len(Of(i)) = 8
               /\ \A j \in 1..4 : Of(i)[j] = R[i].IP[j]
               /\ \A j \in 1..4 : Of(i)[4 + j] = R[i].Mask[j]
    <2> DEFINE a == R[i].IP
               b == R[i].Mask
    <2>0. R[i] \in Prefix
      BY <1>1, ElementOfSeq
    <2>1. a \in Octets(4) /\ b \in Octets(4)
      BY <2>0 DEF Prefix
    <2> HIDE DEF a, b
    <2>2. a \in Seq(Byte) /\ Len(a) = 4 /\ b \in Seq(Byte) /\ Len(b) = 4
      BY <2>1, OctetsSeq
    <2> DEFINE x == a \o b
    <2>3. x \in Seq(Byte) /\ Behind(x, a, b)
      BY <2>2, ConcatAt, Zenon
    <2> HIDE DEF x
    <2>4. Len(x) = 4 + 4 /\ (\A j \in 1..4 : x[j] = a[j]) /\ \A j \in 1..4 : x[4 + j] = b[j]
      BY <2>2, <2>3, Zenon DEF Behind
    <2>5. Len(x) = 8
      BY <2>4
    <2> QED BY <2>3, <2>4, <2>5, Zenon DEF x, a, b
  <1>3. ASSUME NEW i \in 1..n
        PROVE  /\ s[i] \in Seq(Byte) /\ Len(s[i]) = 12
               /\ \A j \in 1..8 : s[i][j] = Of(i)[j]
               /\ \A j \in 1..4 : s[i][8 + j] = Metric[j]
    <2>1. s[i] = Of(i) \o Metric
      BY <1>1
    <2> DEFINE a == Of(i)
               x == s[i]
    <2>2. a \in Seq(Byte) /\ Len(a) = 8
      BY <1>2
    <2> HIDE DEF s, a, x
    <2>3. x = a \o Metric
      BY <2>1 DEF x, a
    <2>4. x \in Seq(Byte) /\ Behind(x, a, Metric)
      BY <2>2, <2>3, MetricIs, ConcatAt, Zenon
    <2>5. Len(x) = 8 + 4 /\ (\A j \in 1..8 : x[j] = a[j]) /\ \A j \in 1..4 : x[8 + j] = Metric[j]
      BY <2>2, <2>4, MetricIs, Zenon DEF Behind
    <2>6. Len(x) = 12
      BY <2>5
    <2> QED BY <2>4, <2>5, <2>6, Zenon DEF x, a
  <1>4. s \in [1..n -> Seq(Byte)]
    <2>1. DOMAIN s = 1..n /\ s = [i \in 1..n |-> s[i]]
      BY <1>1
    <2> HIDE DEF s
    <2> QED BY <1>3, <2>1
  <1> HIDE DEF s, n
  <1>5. s \in Seq(Seq(Byte)) /\ Len(s) = n
    BY <1>1, <1>4, FunctionSeq
  <1>6. V \in Seq(Byte) /\ Len(V) = 12 * n /\ \A i \in 1..n : \A j \in 1..12 : V[12 * (i - 1) + j] = s[i][j]
    <2> DEFINE c == 12
    <2>1. c \in Nat /\ \A i \in 1..Len(s) : Len(s[i]) = c
      BY <1>3, <1>5
    <2> HIDE DEF c
    <2>2. V \in Seq(Byte) /\ Len(V) = c * Len(s)
      BY <1>5, <2>1, ChunksIs
    <2>3. \A i \in 1..Len(s) : \A j \in 1..c : V[c * (i - 1) + j] = s[i][j]
      BY <1>5, <2>1, ChunksIs
    <2> HIDE DEF V
    <2> QED BY <1>5, <2>2, <2>3, Zenon DEF c
  <1> HIDE DEF V
  <1>7. ASSUME NEW i \in 1..n
        PROVE  /\ \A j \in 1..8 : V[12 * (i - 1) + j] = Of(i)[j]
               /\ \A j \in 1..4 : V[12 * (i - 1) + j] = R[i].IP[j]
               /\ \A j \in 1..4 : V[(12 * (i - 1) + 4) + j] = R[i].Mask[j]
               /\ \A j \in 1..4 : V[(12 * (i - 1) + 8) + j] = Metric[j]
    <2> DEFINE b == 12 * (i - 1)
               x == Of(i)
    <2>1. b \in Nat
      BY <1>1
    <2> HIDE DEF b, x
    <2>2. /\ \A j \in 1..12 : V[b + j] = s[i][j]
          /\ \A j \in 1..8 : s[i][j] = x[j]
          /\ \A j \in 1..4 : s[i][8 + j] = Metric[j]
      BY <1>3, <1>6, Zenon DEF b, x
    <2>3. /\ \A j \in 1..4 : x[j] = R[i].IP[j]
          /\ \A j \in 1..4 : x[4 + j] = R[i].Mask[j]
      BY <1>2, Zenon DEF x
    <2>4. /\ \A j \in 1..8 : j \in 1..12
          /\ \A j \in 1..4 : j \in 1..8 /\ 4 + j \in 1..8 /\ 8 + j \in 1..12
          /\ \A j \in 1..4 : b + (4 + j) = (b + 4) + j /\ b + (8 + j) = (b + 8) + j
      BY <2>1
    <2>5. \A j \in 1..8 : V[b + j] = x[j]
      BY <2>2, <2>4, Zenon
    <2>6. \A j \in 1..4 : V[b + j] = R[i].IP[j]
      BY <2>3, <2>4, <2>5, Zenon
    <2>7. ASSUME NEW j \in 1..4 PROVE V[(b + 4) + j] = R[i].Mask[j]
      <3>1. 4 + j \in 1..8 /\ b + (4 + j) = (b + 4) + j
        BY <2>4
      <3>2. V[b + (4 + j)] = x[4 + j]
        BY <2>5, <3>1
      <3>3. x[4 + j] = R[i].Mask[j]
        BY <2>3
      <3> QED BY <3>1, <3>2, <3>3, Zenon
    <2>8. ASSUME NEW j \in 1..4 PROVE V[(b + 8) + j] = Metric[j]
      <3>1. 8 + j \in 1..12 /\ b + (8 + j) = (b + 8) + j
        BY <2>4
      <3>2. V[b + (8 + j)] = s[i][8 + j]
        BY <2>2, <3>1
      <3>3. s[i][8 + j] = Metric[j]
        BY <2>2
      <3> QED BY <3>1, <3>2, <3>3, Zenon
    <2> QED BY <2>5, <2>6, <2>7, <2>8, Zenon DEF b, x
  <1> QED BY <1>0, <1>2, <1>6, <1>7, Zenon DEF n

\* What 11 bytes of a neighbor are.
LEMMA NeighborChunks ==
  ASSUME NEW U \in Seq(Adjacency), \A i \in 1..Len(U) : Len(U[i].neighborSystemID) = 6
  PROVE  LET V == NeighborsTLV(U).valueTLV
         IN /\ V \in Seq(Byte) /\ Len(V) = 1 + 11 * Len(U)
            /\ \A i \in 1..Len(U) :
                 /\ U[i].neighborSystemID \in Seq(Byte)
                 /\ \A j \in 1..4 : V[(11 * (i - 1) + 1) + j] = Metric[j]
                 /\ \A j \in 1..6 : V[(11 * (i - 1) + 5) + j] = U[i].neighborSystemID[j]
  <1> DEFINE n == Len(U)
             s == [i \in DOMAIN U |-> (Metric \o U[i].neighborSystemID) \o <<0>>]
             W == FlattenSeq(s)
             V == <<0>> \o W
             Id(i) == U[i].neighborSystemID
  <1>0. NeighborsTLV(U).valueTLV = V
    BY DEF NeighborsTLV
  <1>1. n \in Nat /\ DOMAIN U = 1..n
    BY LenProperties
  <1>2. ASSUME NEW i \in 1..n PROVE Id(i) \in Seq(Byte) /\ Len(Id(i)) = 6
    <2>1. U[i] \in Adjacency
      BY <1>1, ElementOfSeq
    <2> QED BY <2>1 DEF Adjacency, Byte
  <1>3. ASSUME NEW i \in 1..n
        PROVE  /\ s[i] \in Seq(Byte) /\ Len(s[i]) = 11
               /\ \A j \in 1..4 : s[i][j] = Metric[j]
               /\ \A j \in 1..6 : s[i][4 + j] = Id(i)[j]
    <2>1. s[i] = (Metric \o Id(i)) \o <<0>>
      BY <1>1
    <2> DEFINE d == Id(i)
               a == Metric \o d
               x == s[i]
    <2>2. d \in Seq(Byte) /\ Len(d) = 6
      BY <1>2
    <2> HIDE DEF s, d
    <2>3. a \in Seq(Byte) /\ Behind(a, Metric, d)
      BY <2>2, MetricIs, ConcatAt, Zenon
    <2> HIDE DEF a
    <2>4. Len(a) = 4 + 6 /\ (\A j \in 1..4 : a[j] = Metric[j]) /\ \A j \in 1..6 : a[4 + j] = d[j]
      BY <2>2, <2>3, MetricIs, Zenon DEF Behind
    <2>5. Len(a) = 10 /\ <<0>> \in Seq(Byte) /\ Len(<<0>>) = 1
      BY <2>4 DEF Byte
    <2> HIDE DEF x
    <2>6. x = a \o <<0>>
      BY <2>1 DEF x, a, d
    <2>7. x \in Seq(Byte) /\ Behind(x, a, <<0>>)
      BY <2>3, <2>5, <2>6, ConcatAt, Zenon
    <2>8. Len(x) = 10 + 1 /\ \A j \in 1..10 : x[j] = a[j]
      BY <2>5, <2>7, Zenon DEF Behind
    <2>9. Len(x) = 11 /\ \A j \in 1..4 : x[j] = Metric[j]
      <3>1. \A j \in 1..4 : j \in 1..10
        OBVIOUS
      <3>2. \A j \in 1..4 : x[j] = Metric[j]
        BY <2>4, <2>8, <3>1, Zenon
      <3> QED BY <2>8, <3>2
    <2>10. \A j \in 1..6 : x[4 + j] = d[j]
      <3>1. \A j \in 1..6 : 4 + j \in 1..10
        OBVIOUS
      <3> QED BY <2>4, <2>8, <3>1, Zenon
    <2> QED BY <2>7, <2>9, <2>10, Zenon DEF x, d
  <1>4. s \in [1..n -> Seq(Byte)]
    <2>1. DOMAIN s = 1..n /\ s = [i \in 1..n |-> s[i]]
      BY <1>1
    <2> HIDE DEF s
    <2> QED BY <1>3, <2>1
  <1> HIDE DEF s, n
  <1>5. s \in Seq(Seq(Byte)) /\ Len(s) = n
    BY <1>1, <1>4, FunctionSeq
  <1>6. W \in Seq(Byte) /\ Len(W) = 11 * n /\ \A i \in 1..n : \A j \in 1..11 : W[11 * (i - 1) + j] = s[i][j]
    <2> DEFINE c == 11
    <2>1. c \in Nat /\ \A i \in 1..Len(s) : Len(s[i]) = c
      BY <1>3, <1>5
    <2> HIDE DEF c
    <2>2. W \in Seq(Byte) /\ Len(W) = c * Len(s)
      BY <1>5, <2>1, ChunksIs
    <2>3. \A i \in 1..Len(s) : \A j \in 1..c : W[c * (i - 1) + j] = s[i][j]
      BY <1>5, <2>1, ChunksIs
    <2> HIDE DEF W
    <2> QED BY <1>5, <2>2, <2>3, Zenon DEF c
  <1> HIDE DEF W
  <1>7. V \in Seq(Byte) /\ Len(V) = 1 + 11 * n /\ \A k \in 1..(11 * n) : V[1 + k] = W[k]
    <2>1. <<0>> \in Seq(Byte) /\ Len(<<0>>) = 1
      BY DEF Byte
    <2>2. V \in Seq(Byte) /\ Behind(V, <<0>>, W)
      BY <1>6, <2>1, ConcatAt, Zenon
    <2> HIDE DEF V
    <2> QED BY <1>6, <2>1, <2>2, Zenon DEF Behind
  <1> HIDE DEF V
  <1>8. ASSUME NEW i \in 1..n
        PROVE  /\ \A j \in 1..4 : V[(11 * (i - 1) + 1) + j] = Metric[j]
               /\ \A j \in 1..6 : V[(11 * (i - 1) + 5) + j] = Id(i)[j]
    <2> DEFINE b == 11 * (i - 1)
               m == 11 * n
    <2>1. b \in Nat /\ b + 11 <= m /\ m \in Nat
      BY <1>1
    <2>2. /\ \A j \in 1..11 : W[b + j] = s[i][j]
          /\ \A j \in 1..4 : s[i][j] = Metric[j]
          /\ \A j \in 1..6 : s[i][4 + j] = Id(i)[j]
          /\ \A k \in 1..m : V[1 + k] = W[k]
      BY <1>3, <1>6, <1>7, Zenon
    <2> HIDE DEF b, m
    <2>3. ASSUME NEW j \in 1..4 PROVE V[(b + 1) + j] = Metric[j]
      <3>1. j \in 1..11 /\ b + j \in 1..m /\ 1 + (b + j) = (b + 1) + j
        BY <2>1
      <3>2. V[1 + (b + j)] = W[b + j]
        BY <2>2, <3>1
      <3>3. W[b + j] = s[i][j] /\ s[i][j] = Metric[j]
        BY <2>2, <3>1
      <3> QED BY <3>1, <3>2, <3>3, Zenon
    <2>4. ASSUME NEW j \in 1..6 PROVE V[(b + 5) + j] = Id(i)[j]
      <3>1. 4 + j \in 1..11 /\ b + (4 + j) \in 1..m /\ 1 + (b + (4 + j)) = (b + 5) + j
        BY <2>1
      <3>2. V[1 + (b + (4 + j))] = W[b + (4 + j)]
        BY <2>2, <3>1
      <3>3. W[b + (4 + j)] = s[i][4 + j] /\ s[i][4 + j] = Id(i)[j]
        BY <2>2, <3>1
      <3> QED BY <3>1, <3>2, <3>3, Zenon
    <2> QED BY <2>3, <2>4 DEF b
  <1> QED BY <1>0, <1>2, <1>7, <1>8, Zenon DEF n

\* They are TLVs whatever they were made of.
LEMMA TLVsType ==
  ASSUME NEW R \in Seq(Prefix), NEW U \in Seq(Adjacency)
  PROVE  ReachTLV(R) \in TLV /\ NeighborsTLV(U) \in TLV
  <1>1. Len(R) \in Nat /\ Len(U) \in Nat
    BY LenProperties
  <1>2. (12 * Len(R)) % 256 \in Byte /\ (1 + 11 * Len(U)) % 256 \in Byte
    <2> DEFINE a == 12 * Len(R)
               b == 1 + 11 * Len(U)
    <2>1. a \in Nat /\ b \in Nat
      BY <1>1
    <2> HIDE DEF a, b
    <2>2. a % 256 \in Byte /\ b % 256 \in Byte
      BY <2>1 DEF Byte
    <2> QED BY <2>2 DEF a, b
  <1>3. ReachTLV(R).valueTLV \in Seq(Byte)
    BY ReachChunks
  <1>4. NeighborsTLV(U).valueTLV \in Seq(Byte)
    <2> DEFINE n == Len(U)
               s == [i \in DOMAIN U |-> (Metric \o U[i].neighborSystemID) \o <<0>>]
    <2>1. n \in Nat /\ DOMAIN U = 1..n
      BY LenProperties
    <2>2. ASSUME NEW i \in 1..n PROVE (Metric \o U[i].neighborSystemID) \o <<0>> \in Seq(Byte)
      <3>1. U[i] \in Adjacency
        BY <2>1, ElementOfSeq
      <3>2. U[i].neighborSystemID \in Seq(Byte) /\ <<0>> \in Seq(Byte)
        BY <3>1 DEF Adjacency, Byte
      <3>3. Metric \o U[i].neighborSystemID \in Seq(Byte)
        BY <3>2, MetricIs, ConcatAt, Zenon
      <3> QED BY <3>2, <3>3, ConcatAt, Zenon
    <2>3. s = [i \in 1..n |-> (Metric \o U[i].neighborSystemID) \o <<0>>]
      BY <2>1
    <2>4. s \in [1..n -> Seq(Byte)]
      <3> HIDE DEF s
      <3> QED BY <2>2, <2>3
    <2> HIDE DEF s
    <2>5. s \in Seq(Seq(Byte))
      BY <2>1, <2>4, FunctionSeq
    <2>6. FlattenSeq(s) \in Seq(Byte) /\ <<0>> \in Seq(Byte)
      BY <2>5, FlattenIs DEF Byte
    <2>7. <<0>> \o FlattenSeq(s) \in Seq(Byte)
      BY <2>6, ConcatAt, Zenon
    <2> QED BY <2>7 DEF NeighborsTLV, s
  <1>5. ReachTLV(R).typeTLV \in Byte /\ NeighborsTLV(U).typeTLV \in Byte
    BY DEF ReachTLV, NeighborsTLV, ISIS_IP_INTERNAL_REACH_TLV, ISIS_NEIGHBORS_TLV, Byte
  <1>6. ReachTLV(R) \in TLV
    BY <1>2, <1>3, <1>5 DEF ReachTLV, TLV
  <1>7. NeighborsTLV(U) \in TLV
    BY <1>2, <1>4, <1>5 DEF NeighborsTLV, TLV
  <1> QED BY <1>6, <1>7

\* Routes and adjacencies whose TLVs have the right lengths.
Fit(R, U) ==
  /\ R \in Seq(Prefix) /\ Len(R) <= 21
  /\ U \in Seq(Adjacency) /\ Len(U) <= 23
  /\ \A i \in 1..Len(U) : Len(U[i].neighborSystemID) = 6

\* Then neither length byte wraps around, and both TLVs fit a frame.
LEMMA FitLengths ==
  ASSUME NEW R, NEW U, Fit(R, U)
  PROVE  /\ Len(R) \in Nat /\ Len(U) \in Nat
         /\ ReachTLV(R).lengthTLV = 12 * Len(R) /\ NeighborsTLV(U).lengthTLV = 1 + 11 * Len(U)
         /\ <<ReachTLV(R), NeighborsTLV(U)>> \in Seq(Exact)
         /\ Len(Body(<<ReachTLV(R), NeighborsTLV(U)>>)) <= 510
  <1> DEFINE r == ReachTLV(R)
             u == NeighborsTLV(U)
             m == Len(R)
             n == Len(U)
             T == <<r, u>>
  <1>1. R \in Seq(Prefix) /\ m <= 21 /\ U \in Seq(Adjacency) /\ n <= 23 /\ m \in Nat /\ n \in Nat
    BY LenProperties DEF Fit
  <1>2. r \in TLV /\ u \in TLV
    BY <1>1, TLVsType
  <1>3. Len(r.valueTLV) = 12 * m
    BY <1>1, ReachChunks
  <1>4. Len(u.valueTLV) = 1 + 11 * n
    BY <1>1, NeighborChunks DEF Fit
  <1>5. r.lengthTLV = (12 * m) % 256 /\ u.lengthTLV = (1 + 11 * n) % 256
    BY DEF ReachTLV, NeighborsTLV
  <1> HIDE DEF r, u, m, n
  <1>6. (12 * m) % 256 = 12 * m /\ (1 + 11 * n) % 256 = 1 + 11 * n
    BY <1>1
  <1>7. r.lengthTLV = 12 * m /\ u.lengthTLV = 1 + 11 * n
    BY <1>5, <1>6, Zenon
  <1>8. r \in Exact /\ u \in Exact
    BY <1>2, <1>3, <1>4, <1>7, Zenon DEF Exact, TLV
  <1>9. T \in Seq(Exact) /\ Len(T) = 2 /\ T[1] = r /\ T[2] = u
    BY <1>8
  <1>10. Len(Body(T)) <= 510
    <2> DEFINE e == Ends(Encs(T))
    <2> HIDE DEF T
    <2>1. e[0] = 0 /\ Len(Body(T)) = e[Len(T)]
      BY <1>9, BodyIs
    <2>2. \A i \in 1..Len(T) : e[i] = e[i - 1] + (2 + T[i].lengthTLV)
      BY <1>9, BodyIs
    <2> HIDE DEF e
    <2>3. 1 \in 1..Len(T) /\ 2 \in 1..Len(T) /\ 1 - 1 = 0 /\ 2 - 1 = 1
      BY <1>9
    <2>4. e[1] = e[1 - 1] + (2 + T[1].lengthTLV)
      BY <2>2, <2>3
    <2>5. e[2] = e[2 - 1] + (2 + T[2].lengthTLV)
      BY <2>2, <2>3
    <2>6. e[1] = 0 + (2 + 12 * m)
      BY <1>7, <1>9, <2>1, <2>3, <2>4, Zenon
    <2>7. e[2] = e[1] + (2 + (1 + 11 * n))
      BY <1>7, <1>9, <2>3, <2>5, Zenon
    <2>8. Len(Body(T)) = e[2]
      BY <1>9, <2>1, Zenon
    <2> QED BY <1>1, <2>6, <2>7, <2>8
  <1> QED BY <1>1, <1>7, <1>9, <1>10, Zenon DEF T, r, u, m, n

LEMMA FlattenOne == \A B : \A x \in Seq(B) : FlattenSeq(<<x>>) = x
  <1> TAKE B
  <1> TAKE x \in Seq(B)
  <1>1. <<>> \in Seq(Seq(B)) /\ Append(<<>>, x) = <<x>>
    OBVIOUS
  <1>2. FlattenSeq(Append(<<>>, x)) = FlattenSeq(<<>>) \o x
    BY <1>1, FlattenAppend
  <1>3. <<>> \o x = x
    BY ConcatEmptySeq
  <1> QED BY <1>1, <1>2, <1>3, FlattenEmpty, Zenon

LEMMA FlattenTwo == \A B : \A x, y \in Seq(B) : FlattenSeq(<<x, y>>) = x \o y
  <1> TAKE B
  <1> TAKE x, y \in Seq(B)
  <1>1. <<x>> \in Seq(Seq(B)) /\ Append(<<x>>, y) = <<x, y>>
    <2> DEFINE a == Append(<<x>>, y)
               c == <<x, y>>
    <2>1. <<x>> \in Seq(Seq(B)) /\ Len(<<x>>) = 1 /\ <<x>>[1] = x
      OBVIOUS
    <2>2. c \in Seq(Seq(B)) /\ Len(c) = 2 /\ c[1] = x /\ c[2] = y
      OBVIOUS
    <2>3. a \in Seq(Seq(B)) /\ Len(a) = 2 /\ a[1] = x /\ a[2] = y
      OBVIOUS
    <2> HIDE DEF a, c
    <2>4. \A i \in 1..Len(a) : a[i] = c[i]
      <3>1. \A i \in 1..2 : i = 1 \/ i = 2
        OBVIOUS
      <3>2. \A i \in 1..2 : a[i] = c[i]
        BY <2>2, <2>3, <3>1
      <3> QED BY <2>3, <3>2
    <2>5. a = c
      BY <2>2, <2>3, <2>4, SeqEqual
    <2> QED BY <2>1, <2>5 DEF a, c
  <1>2. FlattenSeq(Append(<<x>>, y)) = FlattenSeq(<<x>>) \o y
    BY <1>1, FlattenAppend
  <1>3. FlattenSeq(<<x>>) = x
    BY FlattenOne, Zenon
  <1> QED BY <1>1, <1>2, <1>3, Zenon

\* The first TLV of a type among two.
LEMMA LookupTwo ==
  ASSUME NEW r, NEW u, r.typeTLV = ISIS_IP_INTERNAL_REACH_TLV, u.typeTLV = ISIS_NEIGHBORS_TLV
  PROVE  /\ Lookup(<<r, u>>, ISIS_IP_INTERNAL_REACH_TLV) = <<r>>
         /\ Lookup(<<r, u>>, ISIS_NEIGHBORS_TLV) = <<u>>
  <1> DEFINE T == <<r, u>>
             Found(type) == {t \in DOMAIN T : T[t].typeTLV = type}
  <1>0. DOMAIN T = {1, 2} /\ T[1] = r /\ T[2] = u
    OBVIOUS
  <1>1. Found(ISIS_IP_INTERNAL_REACH_TLV) = {1} /\ Found(ISIS_NEIGHBORS_TLV) = {2}
    <2> HIDE DEF T
    <2> QED BY <1>0 DEF ISIS_IP_INTERNAL_REACH_TLV, ISIS_NEIGHBORS_TLV
  <1>2. Min({1}) = 1 /\ Min({2}) = 2
    BY DEF Min
  <1>3. Lookup(T, ISIS_IP_INTERNAL_REACH_TLV) = <<T[1]>>
    <2> HIDE DEF T
    <2>1. {1} # {}
      OBVIOUS
    <2> QED BY <1>1, <1>2, <2>1, Zenon DEF Lookup
  <1>4. Lookup(T, ISIS_NEIGHBORS_TLV) = <<T[2]>>
    <2> HIDE DEF T
    <2>1. {2} # {}
      OBVIOUS
    <2> QED BY <1>1, <1>2, <2>1, Zenon DEF Lookup
  <1> QED BY <1>0, <1>3, <1>4, Zenon

\* What is read of a route, and what is shown of it.
LEMMA ReachReads ==
  ASSUME NEW R \in Seq(Prefix), NEW i \in 1..Len(R)
  PROVE  LET V == ReachTLV(R).valueTLV
         IN /\ SubSeq(V, 12 * i - 11, 12 * i - 8) = R[i].IP
            /\ SubSeq(V, 12 * i - 7, 12 * i - 4) = R[i].Mask
            /\ SubSeq(V, 12 * i - 11, 12 * i - 4) = R[i].IP \o R[i].Mask
            /\ Uint32(SubSeq(V, 12 * i - 3, 12 * i)) = 10
  <1> DEFINE V == ReachTLV(R).valueTLV
             n == Len(R)
             b == 12 * (i - 1)
             p == R[i].IP
             q == R[i].Mask
             x == p \o q
             lV == Len(V)
  <1>1. n \in Nat /\ i \in 1..n
    BY LenProperties
  <1>2. V \in Seq(Byte) /\ lV = 12 * n
    BY ReachChunks
  <1>3. /\ x \in Seq(Byte) /\ Len(x) = 8
        /\ \A j \in 1..4 : V[b + j] = p[j]
        /\ \A j \in 1..4 : V[(b + 4) + j] = q[j]
        /\ \A j \in 1..8 : V[b + j] = x[j]
        /\ \A j \in 1..4 : V[(b + 8) + j] = Metric[j]
    BY ReachChunks
  <1>4. R[i] \in Prefix
    BY ElementOfSeq
  <1>5. p \in Octets(4) /\ q \in Octets(4)
    BY <1>4 DEF Prefix
  <1> HIDE DEF V, n, p, q, x
  <1>6. p \in Seq(Byte) /\ Len(p) = 4 /\ q \in Seq(Byte) /\ Len(q) = 4
    BY <1>5, OctetsSeq
  <1>7. /\ b \in Nat /\ b + 4 \in Nat /\ b + 8 \in Nat /\ 4 \in Nat /\ 8 \in Nat
        /\ b + 4 <= lV /\ b + 8 <= lV /\ (b + 4) + 4 <= lV /\ (b + 8) + 4 <= lV
        /\ 12 * i - 11 = b + 1 /\ 12 * i - 8 = b + 4
        /\ 12 * i - 7 = (b + 4) + 1 /\ 12 * i - 4 = (b + 4) + 4 /\ 12 * i - 4 = b + 8
        /\ 12 * i - 3 = (b + 8) + 1 /\ 12 * i = (b + 8) + 4
    <2> HIDE DEF lV
    <2> QED BY <1>1, <1>2
  <1> HIDE DEF b
  <1>8. SubSeq(V, b + 1, b + 4) = p
    BY <1>2, <1>3, <1>6, <1>7, SubSeqIs, Zenon
  <1>9. SubSeq(V, (b + 4) + 1, (b + 4) + 4) = q
    BY <1>2, <1>3, <1>6, <1>7, SubSeqIs, Zenon
  <1>10. SubSeq(V, b + 1, b + 8) = x
    BY <1>2, <1>3, <1>7, SubSeqIs, Zenon
  <1>11. SubSeq(V, (b + 8) + 1, (b + 8) + 4) = Metric
    BY <1>2, <1>3, <1>7, MetricIs, SubSeqIs, Zenon
  <1>12. SubSeq(V, 12 * i - 11, 12 * i - 8) = p /\ SubSeq(V, 12 * i - 7, 12 * i - 4) = q
    BY <1>7, <1>8, <1>9, Zenon
  <1>13. SubSeq(V, 12 * i - 11, 12 * i - 4) = x /\ Uint32(SubSeq(V, 12 * i - 3, 12 * i)) = 10
    BY <1>7, <1>10, <1>11, MetricIs, Zenon
  <1> QED BY <1>12, <1>13, Zenon DEF V, p, q, x

\* What is read of a neighbor, and what is shown of it.
LEMMA NeighborReads ==
  ASSUME NEW U \in Seq(Adjacency), \A i \in 1..Len(U) : Len(U[i].neighborSystemID) = 6,
         NEW i \in 1..Len(U)
  PROVE  LET V == NeighborsTLV(U).valueTLV
         IN /\ Uint32(SubSeq(V, 11 * i - 9, 11 * i - 6)) = 10
            /\ SubSeq(V, 11 * i - 5, 11 * i) = U[i].neighborSystemID
            /\ V[11 * i - 6] = 10
  <1> DEFINE V == NeighborsTLV(U).valueTLV
             n == Len(U)
             b == 11 * (i - 1)
             d == U[i].neighborSystemID
             lV == Len(V)
  <1>1. n \in Nat /\ i \in 1..n
    BY LenProperties
  <1>2. V \in Seq(Byte) /\ lV = 1 + 11 * n
    BY NeighborChunks
  <1>3. /\ d \in Seq(Byte)
        /\ \A j \in 1..4 : V[(b + 1) + j] = Metric[j]
        /\ \A j \in 1..6 : V[(b + 5) + j] = d[j]
    BY NeighborChunks
  <1>4. Len(d) = 6
    OBVIOUS
  <1> HIDE DEF V, n, d
  <1>7. /\ b + 1 \in Nat /\ b + 5 \in Nat /\ 4 \in Nat /\ 6 \in Nat
        /\ (b + 1) + 4 <= lV /\ (b + 5) + 6 <= lV
        /\ 11 * i - 9 = (b + 1) + 1 /\ 11 * i - 6 = (b + 1) + 4
        /\ 11 * i - 5 = (b + 5) + 1 /\ 11 * i = (b + 5) + 6
    <2> HIDE DEF lV
    <2> QED BY <1>1, <1>2
  <1> HIDE DEF b
  <1>8. SubSeq(V, (b + 1) + 1, (b + 1) + 4) = Metric
    BY <1>2, <1>3, <1>7, MetricIs, SubSeqIs, Zenon
  <1>9. SubSeq(V, (b + 5) + 1, (b + 5) + 6) = d
    BY <1>2, <1>3, <1>4, <1>7, SubSeqIs, Zenon
  <1>10. V[(b + 1) + 4] = Metric[4]
    <2>1. 4 \in 1..4
      OBVIOUS
    <2> QED BY <1>3, <2>1
  <1>11. Uint32(SubSeq(V, 11 * i - 9, 11 * i - 6)) = 10 /\ SubSeq(V, 11 * i - 5, 11 * i) = d
    BY <1>7, <1>8, <1>9, MetricIs, Zenon
  <1>12. V[11 * i - 6] = 10
    <2>1. V[11 * i - 6] = Metric[4]
      BY <1>7, <1>10, Zenon
    <2> QED BY <2>1, MetricIs
  <1> QED BY <1>11, <1>12, Zenon DEF V, d

\* Routes and adjacencies that fit come back from their TLVs.
LEMMA TLVsRead ==
  ASSUME NEW R, NEW U, Fit(R, U)
  PROVE  LET T == <<ReachTLV(R), NeighborsTLV(U)>>
         IN /\ getDirectlyConnectedPrefixes(T) = R
            /\ lookupNeighbors(T) = [i \in DOMAIN U |-> [metric |-> 10, systemID |-> U[i].neighborSystemID]]
            /\ String(T) = [i \in DOMAIN R |-> <<R[i].IP \o R[i].Mask, 10>>] \o
                           [i \in DOMAIN U |-> <<U[i].neighborSystemID, 10>>]
  <1> DEFINE r == ReachTLV(R)
             u == NeighborsTLV(U)
             m == Len(R)
             n == Len(U)
             T == <<r, u>>
             P == [i \in 1..m |-> [IP |-> SubSeq(r.valueTLV, 12 * i - 11, 12 * i - 8),
                                   Mask |-> SubSeq(r.valueTLV, 12 * i - 7, 12 * i - 4)]]
             N == [i \in 1..n |-> [metric |-> Uint32(SubSeq(u.valueTLV, 11 * i - 9, 11 * i - 6)),
                                   systemID |-> SubSeq(u.valueTLV, 11 * i - 5, 11 * i)]]
             SP == [i \in 1..m |-> << SubSeq(r.valueTLV, 12 * i - 11, 12 * i - 4),
                                      Uint32(SubSeq(r.valueTLV, 12 * i - 3, 12 * i)) >>]
             SN == [i \in 1..n |-> << SubSeq(u.valueTLV, 11 * i - 5, 11 * i), u.valueTLV[11 * i - 6] >>]
             WN == [i \in 1..n |-> [metric |-> 10, systemID |-> U[i].neighborSystemID]]
             WSP == [i \in 1..m |-> <<R[i].IP \o R[i].Mask, 10>>]
             WSN == [i \in 1..n |-> <<U[i].neighborSystemID, 10>>]
  <1>1. R \in Seq(Prefix) /\ U \in Seq(Adjacency) /\ m <= 21 /\ n <= 23
    BY DEF Fit
  <1>2. m \in Nat /\ n \in Nat /\ DOMAIN R = 1..m /\ DOMAIN U = 1..n
    BY <1>1, LenProperties
  <1>3. r.lengthTLV = 12 * m /\ u.lengthTLV = 1 + 11 * n
    BY FitLengths
  <1>4. r.typeTLV = ISIS_IP_INTERNAL_REACH_TLV /\ u.typeTLV = ISIS_NEIGHBORS_TLV
    BY DEF ReachTLV, NeighborsTLV
  <1>5. \A i \in 1..m :
          /\ SubSeq(r.valueTLV, 12 * i - 11, 12 * i - 8) = R[i].IP
          /\ SubSeq(r.valueTLV, 12 * i - 7, 12 * i - 4) = R[i].Mask
          /\ SubSeq(r.valueTLV, 12 * i - 11, 12 * i - 4) = R[i].IP \o R[i].Mask
          /\ Uint32(SubSeq(r.valueTLV, 12 * i - 3, 12 * i)) = 10
    BY <1>1, ReachReads
  <1>6. \A i \in 1..n :
          /\ Uint32(SubSeq(u.valueTLV, 11 * i - 9, 11 * i - 6)) = 10
          /\ SubSeq(u.valueTLV, 11 * i - 5, 11 * i) = U[i].neighborSystemID
          /\ u.valueTLV[11 * i - 6] = 10
    BY <1>1, NeighborReads DEF Fit
  <1> HIDE DEF r, u, m, n
  <1>7. (12 * m) \div 12 = m /\ 1 + 11 * n # 0 /\ ((1 + 11 * n) - 1) \div 11 = n
    BY <1>2
  <1>8. (((1 + 11 * n) + 255) % 256) \div 11 = n
    <2>1. ((1 + 11 * n) + 255) % 256 = 11 * n
      <3>1. (1 + 11 * n) + 255 = 256 * 1 + 11 * n /\ 11 * n \in Nat /\ 11 * n < 256
        BY <1>1, <1>2
      <3> DEFINE w == 11 * n
      <3> HIDE DEF w
      <3>2. w \in Nat /\ w < 256 /\ (256 + w) % 256 = w
        BY <3>1 DEF w
      <3> QED BY <3>1, <3>2 DEF w
    <2> QED BY <1>2, <2>1
  <1>9. R = P
    <2>1. \A i \in 1..m : R[i] \in Prefix
      BY <1>1, ElementOfSeq DEF m
    <2>2. \A i \in 1..m : R[i] = [IP |-> R[i].IP, Mask |-> R[i].Mask]
      BY <2>1 DEF Prefix
    <2>3. R = [i \in 1..m |-> R[i]]
      BY <1>1, <1>2, LenProperties
    <2> DEFINE V == r.valueTLV
    <2> HIDE DEF V
    <2>4. \A i \in 1..m : R[i] = [IP |-> SubSeq(V, 12 * i - 11, 12 * i - 8), Mask |-> SubSeq(V, 12 * i - 7, 12 * i - 4)]
      BY <1>5, <2>2, Zenon DEF V
    <2>5. [i \in 1..m |-> R[i]] =
            [i \in 1..m |-> [IP |-> SubSeq(V, 12 * i - 11, 12 * i - 8), Mask |-> SubSeq(V, 12 * i - 7, 12 * i - 4)]]
      BY <2>4, Zenon
    <2> QED BY <2>3, <2>5, Zenon DEF V
  <1>10. N = WN
    BY <1>6, Zenon
  <1>11. SP = WSP
    BY <1>5, Zenon
  <1>12. SN = WSN
    BY <1>6, Zenon
  <1>13. getDirectlyConnectedPrefixes(T) = FlattenSeq(<<P>>)
    <2> DEFINE L == Lookup(T, ISIS_IP_INTERNAL_REACH_TLV)
               X(t) == [i \in 1..(t.lengthTLV \div 12) |->
                          [IP |-> SubSeq(t.valueTLV, 12 * i - 11, 12 * i - 8),
                           Mask |-> SubSeq(t.valueTLV, 12 * i - 7, 12 * i - 4)]]
    <2>1. L = <<r>>
      BY <1>4, LookupTwo, Zenon
    <2>2. getDirectlyConnectedPrefixes(T) = FlattenSeq([t \in DOMAIN L |-> X(L[t])])
      BY Zenon DEF getDirectlyConnectedPrefixes
    <2>3. X(r) = P
      BY <1>3, <1>7, Zenon
    <2> HIDE DEF X, P, L
    <2>4. [t \in DOMAIN L |-> X(L[t])] = <<X(r)>>
      BY <2>1
    <2> QED BY <2>2, <2>3, <2>4, Zenon
  <1>14. lookupNeighbors(T) = FlattenSeq(<<N>>)
    <2> DEFINE L == Lookup(T, ISIS_NEIGHBORS_TLV)
               X(t) == [i \in 1..(IF t.lengthTLV = 0 THEN 0 ELSE (t.lengthTLV - 1) \div 11) |->
                          [metric |-> Uint32(SubSeq(t.valueTLV, 11 * i - 9, 11 * i - 6)),
                           systemID |-> SubSeq(t.valueTLV, 11 * i - 5, 11 * i)]]
    <2>1. L = <<u>>
      BY <1>4, LookupTwo, Zenon
    <2>2. lookupNeighbors(T) = FlattenSeq([t \in DOMAIN L |-> X(L[t])])
      BY Zenon DEF lookupNeighbors
    <2>3. X(u) = N
      <3>1. (IF u.lengthTLV = 0 THEN 0 ELSE (u.lengthTLV - 1) \div 11) = n
        BY <1>3, <1>7, Zenon
      <3> QED BY <3>1, Zenon
    <2> HIDE DEF X, N, L
    <2>4. [t \in DOMAIN L |-> X(L[t])] = <<X(u)>>
      BY <2>1
    <2> QED BY <2>2, <2>3, <2>4, Zenon
  <1>15. String(T) = FlattenSeq(<<SP, SN>>)
    <2>1. String(T) = FlattenSeq([t \in DOMAIN T |-> Shown(T[t])])
      BY Zenon DEF String
    <2>2. Shown(r) = SP
      <3>1. Shown(r) = [i \in 1..(r.lengthTLV \div 12) |->
                         << SubSeq(r.valueTLV, 12 * i - 11, 12 * i - 4),
                            Uint32(SubSeq(r.valueTLV, 12 * i - 3, 12 * i)) >>]
        BY <1>4, SMT DEF Shown, ISIS_IP_INTERNAL_REACH_TLV, ISIS_NEIGHBORS_TLV
      <3> QED BY <1>3, <1>7, <3>1, Zenon
    <2>3. Shown(u) = SN
      <3>1. Shown(u) = [i \in 1..(((u.lengthTLV + 255) % 256) \div 11) |->
                         << SubSeq(u.valueTLV, 11 * i - 5, 11 * i), u.valueTLV[11 * i - 6] >>]
        BY <1>4, SMT DEF Shown, ISIS_IP_INTERNAL_REACH_TLV, ISIS_NEIGHBORS_TLV
      <3> QED BY <1>3, <1>8, <3>1, Zenon
    <2> HIDE DEF SP, SN
    <2>4. [t \in DOMAIN T |-> Shown(T[t])] = <<Shown(r), Shown(u)>>
      OBVIOUS
    <2> QED BY <2>1, <2>2, <2>3, <2>4, Zenon
  <1>16. FlattenSeq(<<P>>) = P
    <2>1. P \in Seq(Prefix)
      BY <1>1, <1>9, Zenon
    <2> HIDE DEF P
    <2> QED BY <2>1, FlattenOne, Zenon
  <1>17. FlattenSeq(<<N>>) = N
    <2> DEFINE S == {[metric |-> 10, systemID |-> U[i].neighborSystemID] : i \in 1..n}
    <2>1. WN \in [1..n -> S]
      OBVIOUS
    <2> HIDE DEF S, WN
    <2>2. WN \in Seq(S)
      BY <1>2, <2>1, FunctionSeq
    <2>3. N \in Seq(S)
      BY <1>10, <2>2, Zenon
    <2> HIDE DEF N
    <2> QED BY <2>3, FlattenOne, Zenon
  <1>18. FlattenSeq(<<SP, SN>>) = SP \o SN
    <2> DEFINE S == {<<R[i].IP \o R[i].Mask, 10>> : i \in 1..m} \cup {<<U[i].neighborSystemID, 10>> : i \in 1..n}
    <2>1. WSP \in [1..m -> S] /\ WSN \in [1..n -> S]
      OBVIOUS
    <2> HIDE DEF S, WSP, WSN
    <2>2. WSP \in Seq(S) /\ WSN \in Seq(S)
      BY <1>2, <2>1, FunctionSeq
    <2>3. SP \in Seq(S) /\ SN \in Seq(S)
      BY <1>11, <1>12, <2>2, Zenon
    <2> HIDE DEF SP, SN
    <2> QED BY <2>3, FlattenTwo, Zenon
  <1>19. getDirectlyConnectedPrefixes(T) = R
    <2> HIDE DEF T, P
    <2> QED BY <1>9, <1>13, <1>16, Zenon
  <1>20. lookupNeighbors(T) = [i \in DOMAIN U |-> [metric |-> 10, systemID |-> U[i].neighborSystemID]]
    <2> HIDE DEF T, N
    <2> QED BY <1>2, <1>10, <1>14, <1>17, Zenon
  <1>21. String(T) = [i \in DOMAIN R |-> <<R[i].IP \o R[i].Mask, 10>>] \o
                           [i \in DOMAIN U |-> <<U[i].neighborSystemID, 10>>]
    <2> HIDE DEF T, SP, SN
    <2> QED BY <1>2, <1>11, <1>12, <1>15, <1>18, Zenon
  <1> QED BY <1>19, <1>20, <1>21, Zenon DEF T, r, u

-----------------------------------------------------------------------------
(* Boot                                                                    *)

\* The addresses with a slot when address a of interface i comes next.
Scanned(h, i, a) == {p \in V4Addrs(h) : Before(p, <<i, a>>)}

Made(h, p) == NewIntf(h.ifaces[p[1]], h.ifaces[p[1]].addrs[p[2]])

\* What HostsAssumption says of one host.
LEMMA HostType ==
  ASSUME NEW h \in Hosts
  PROVE  /\ h.ifaces \in Seq(Iface) /\ Len(h.ifaces) \in Nat /\ DOMAIN h.ifaces = 1..Len(h.ifaces)
         /\ \A i \in 1..Len(h.ifaces) :
              /\ h.ifaces[i] \in Iface /\ h.ifaces[i].addrs \in Seq(Addr)
              /\ Len(h.ifaces[i].addrs) \in Nat
              /\ DOMAIN h.ifaces[i].addrs = 1..Len(h.ifaces[i].addrs)
         /\ \A i, j \in 1..Len(h.ifaces) : h.ifaces[i].name = h.ifaces[j].name => i = j
  <1>1. h.ifaces \in Seq(Iface)
    BY HostsAssumption
  <1>2. Len(h.ifaces) \in Nat /\ DOMAIN h.ifaces = 1..Len(h.ifaces)
    BY <1>1, LenProperties
  <1>3. ASSUME NEW i \in 1..Len(h.ifaces)
        PROVE  h.ifaces[i] \in Iface /\ h.ifaces[i].addrs \in Seq(Addr)
    <2>1. h.ifaces[i] \in Iface
      BY <1>1, ElementOfSeq
    <2> QED BY <2>1 DEF Iface
  <1>4. ASSUME NEW i \in 1..Len(h.ifaces)
        PROVE  /\ Len(h.ifaces[i].addrs) \in Nat
               /\ DOMAIN h.ifaces[i].addrs = 1..Len(h.ifaces[i].addrs)
    BY <1>3, LenProperties
  <1>5. \A i, j \in 1..Len(h.ifaces) : h.ifaces[i].name = h.ifaces[j].name => i = j
    BY <1>2, HostsAssumption
  <1> QED BY <1>1, <1>2, <1>3, <1>4, <1>5

\* The addresses that get a slot, by interface and address.
LEMMA V4Is ==
  ASSUME NEW h \in Hosts, NEW p
  PROVE  p \in V4Addrs(h) <=>
           \E i \in 1..Len(h.ifaces) : \E a \in 1..Len(h.ifaces[i].addrs) :
             /\ p = <<i, a>> /\ h.ifaces[i].name # "lo" /\ h.ifaces[i].readable
             /\ h.ifaces[i].addrs[a].kind = "v4"
  <1>1. /\ DOMAIN h.ifaces = 1..Len(h.ifaces)
        /\ \A i \in 1..Len(h.ifaces) : DOMAIN h.ifaces[i].addrs = 1..Len(h.ifaces[i].addrs)
    BY HostType
  <1>2. ASSUME p \in V4Addrs(h)
        PROVE  \E i \in 1..Len(h.ifaces) : \E a \in 1..Len(h.ifaces[i].addrs) :
             /\ p = <<i, a>> /\ h.ifaces[i].name # "lo" /\ h.ifaces[i].readable
             /\ h.ifaces[i].addrs[a].kind = "v4"
    <2>1. PICK i \in Links(h) : p \in {i} \X DOMAIN h.ifaces[i].addrs
      BY <1>2 DEF V4Addrs
    <2>2. PICK a \in DOMAIN h.ifaces[i].addrs : p = <<i, a>>
      BY <2>1
    <2>3. h.ifaces[i].readable /\ h.ifaces[i].addrs[a].kind = "v4"
      BY <1>2, <2>2 DEF V4Addrs
    <2>4. i \in 1..Len(h.ifaces) /\ h.ifaces[i].name # "lo" /\ a \in 1..Len(h.ifaces[i].addrs)
      BY <1>1, <2>1, <2>2 DEF Links
    <2> QED BY <2>2, <2>3, <2>4
  <1>3. ASSUME NEW i \in 1..Len(h.ifaces), NEW a \in 1..Len(h.ifaces[i].addrs),
               p = <<i, a>>, h.ifaces[i].name # "lo", h.ifaces[i].readable,
               h.ifaces[i].addrs[a].kind = "v4"
        PROVE  p \in V4Addrs(h)
    <2>1. i \in Links(h) /\ a \in DOMAIN h.ifaces[i].addrs
      BY <1>1, <1>3 DEF Links
    <2>2. p \in {i} \X DOMAIN h.ifaces[i].addrs
      BY <1>3, <2>1
    <2>3. p \in UNION {{j} \X DOMAIN h.ifaces[j].addrs : j \in Links(h)}
      BY <2>1, <2>2
    <2>4. p[1] = i /\ p[2] = a
      BY <1>3
    <2> QED BY <1>3, <2>3, <2>4 DEF V4Addrs
  <1> QED BY <1>2, <1>3

\* What initInterfaces makes for such an address.
LEMMA MadeType ==
  ASSUME NEW h \in Hosts, NEW p \in V4Addrs(h)
  PROVE  /\ Made(h, p) \in Intf /\ Made(h, p).name = h.ifaces[p[1]].name
         /\ Made(h, p).prefix = h.ifaces[p[1]].addrs[p[2]].ip
  <1>0. PICK i \in 1..Len(h.ifaces) : \E a \in 1..Len(h.ifaces[i].addrs) :
             p = <<i, a>> /\ h.ifaces[i].addrs[a].kind = "v4"
    BY V4Is
  <1>1. PICK a \in 1..Len(h.ifaces[i].addrs) : p = <<i, a>> /\ h.ifaces[i].addrs[a].kind = "v4"
    BY <1>0
  <1> DEFINE f == h.ifaces[i]
             x == f.addrs[a]
  <1>2. f \in Iface /\ f.addrs \in Seq(Addr)
    BY HostType
  <1>3. x \in Addr
    BY <1>2, ElementOfSeq
  <1>4. x.ip \in Octets(4)
    BY <1>1, <1>3 DEF Addr
  <1>5. f.name \in STRING /\ f.routes \in Seq(Prefix)
    BY <1>2 DEF Iface
  <1>6. Made(h, p) = NewIntf(f, x)
    BY <1>1 DEF Made
  <1> HIDE DEF f, x
  <1>7. NewIntf(f, x) \in Intf
    <2>1. [state |-> "NEW", neighborSystemID |-> <<>>] \in Adjacency
      BY DEF Adjacency
    <2> QED BY <1>4, <1>5, <2>1 DEF NewIntf, Intf
  <1>8. NewIntf(f, x).name = f.name /\ NewIntf(f, x).prefix = x.ip
    BY DEF NewIntf
  <1>9. p[1] = i /\ p[2] = a
    BY <1>1
  <1> QED BY <1>6, <1>7, <1>8, <1>9 DEF f, x

\* A container has one IPv4 address for each interface but lo.
LEMMA ContainerCount ==
  ASSUME NEW h \in Hosts, Container(h)
  PROVE  /\ IsFiniteSet(V4Addrs(h)) /\ Cardinality(V4Addrs(h)) = Len(h.ifaces) - 1
         /\ \A p, q \in V4Addrs(h) : p[1] = q[1] => p = q
         /\ \A i \in Links(h) : \E p \in V4Addrs(h) : p[1] = i
         /\ \A p \in V4Addrs(h) : p[1] \in Links(h)
  <1> DEFINE n == Len(h.ifaces)
             V == V4Addrs(h)
             K == Links(h)
  <1>1. /\ n \in Nat /\ DOMAIN h.ifaces = 1..n
        /\ \A i \in 1..n : DOMAIN h.ifaces[i].addrs = 1..Len(h.ifaces[i].addrs)
        /\ \A i, j \in 1..n : h.ifaces[i].name = h.ifaces[j].name => i = j
    BY HostType
  <1>2. PICK l \in 1..n : h.ifaces[l].name = "lo"
    BY <1>1 DEF Container
  <1>3. K = (1..n) \ {l}
    BY <1>1, <1>2 DEF Links
  <1>4. ASSUME NEW i \in K
        PROVE  h.ifaces[i].readable /\
               \E a \in 1..Len(h.ifaces[i].addrs) : \A b \in 1..Len(h.ifaces[i].addrs) :
                  h.ifaces[i].addrs[b].kind = "v4" <=> b = a
    <2>1. h.ifaces[i].readable /\
          \E a \in DOMAIN h.ifaces[i].addrs : \A b \in DOMAIN h.ifaces[i].addrs :
             h.ifaces[i].addrs[b].kind = "v4" <=> b = a
      BY Zenon DEF Container
    <2>2. DOMAIN h.ifaces[i].addrs = 1..Len(h.ifaces[i].addrs)
      BY <1>1, <1>3
    <2> DEFINE f == h.ifaces[i].addrs
               D == DOMAIN f
               E == 1..Len(f)
    <2> HIDE DEF f, D, E
    <2>3. \E a \in D : \A b \in D : f[b].kind = "v4" <=> b = a
      BY <2>1 DEF D, f
    <2>4. D = E
      BY <2>2 DEF D, E, f
    <2>5. \E a \in E : \A b \in E : f[b].kind = "v4" <=> b = a
      BY <2>3, <2>4
    <2> QED BY <2>1, <2>5 DEF E, f
  <1>5. IsFiniteSet(K) /\ Cardinality(K) = n - 1
    <2>1. IsFiniteSet(1..n) /\ Cardinality(1..n) = n
      BY <1>1, <1>2, FS_Interval
    <2> QED BY <1>2, <1>3, <2>1, FS_RemoveElement
  <1>6. ASSUME NEW p \in V
        PROVE  p[1] \in K /\ p = <<p[1], p[2]>> /\ p[2] \in 1..Len(h.ifaces[p[1]].addrs)
               /\ h.ifaces[p[1]].addrs[p[2]].kind = "v4"
    <2>0. PICK i \in 1..n : \E a \in 1..Len(h.ifaces[i].addrs) :
             p = <<i, a>> /\ h.ifaces[i].name # "lo" /\ h.ifaces[i].addrs[a].kind = "v4"
      BY V4Is
    <2>1. PICK a \in 1..Len(h.ifaces[i].addrs) :
             p = <<i, a>> /\ h.ifaces[i].name # "lo" /\ h.ifaces[i].addrs[a].kind = "v4"
      BY <2>0
    <2>2. p[1] = i /\ p[2] = a
      BY <2>1
    <2>3. i \in K
      BY <1>1, <2>1 DEF Links
    <2> QED BY <2>1, <2>2, <2>3
  <1>7. ASSUME NEW p \in V, NEW q \in V, p[1] = q[1] PROVE p = q
    <2>1. PICK a \in 1..Len(h.ifaces[p[1]].addrs) : \A b \in 1..Len(h.ifaces[p[1]].addrs) :
                  h.ifaces[p[1]].addrs[b].kind = "v4" <=> b = a
      BY <1>4, <1>6
    <2>2. p[2] \in 1..Len(h.ifaces[p[1]].addrs) /\ h.ifaces[p[1]].addrs[p[2]].kind = "v4" /\ p = <<p[1], p[2]>>
      BY <1>6
    <2>3. q[2] \in 1..Len(h.ifaces[q[1]].addrs) /\ h.ifaces[q[1]].addrs[q[2]].kind = "v4" /\ q = <<q[1], q[2]>>
      BY <1>6
    <2>4. p[2] = a
      BY <2>1, <2>2
    <2>5. q[2] \in 1..Len(h.ifaces[p[1]].addrs) /\ h.ifaces[p[1]].addrs[q[2]].kind = "v4"
      BY <1>7, <2>3, Zenon
    <2>6. q[2] = a
      BY <2>1, <2>5
    <2> QED BY <1>7, <2>2, <2>3, <2>4, <2>6, Zenon
  <1>8. ASSUME NEW i \in K PROVE \E p \in V : p[1] = i
    <2>1. PICK a \in 1..Len(h.ifaces[i].addrs) : h.ifaces[i].addrs[a].kind = "v4"
      BY <1>4
    <2>2. i \in 1..n /\ h.ifaces[i].name # "lo" /\ h.ifaces[i].readable
      BY <1>1, <1>4 DEF Links
    <2>3. <<i, a>> \in V
      BY <2>1, <2>2, V4Is
    <2> QED BY <2>3
  <1> DEFINE f == [p \in V |-> p[1]]
  <1> HIDE DEF V, K, n
  <1>9. f \in Injection(V, K)
    <2>1. f \in [V -> K]
      BY <1>6
    <2>2. \A p, q \in V : f[p] = f[q] => p = q
      BY <1>7
    <2> QED BY <2>1, <2>2 DEF Injection, IsInjective
  <1>10. f \in Surjection(V, K)
    <2>1. f \in [V -> K]
      BY <1>6
    <2>2. \A i \in K : \E p \in V : f[p] = i
      BY <1>8
    <2> QED BY <2>1, <2>2 DEF Surjection
  <1>11. IsFiniteSet(V) /\ Cardinality(V) = Cardinality(K)
    <2> HIDE DEF f
    <2> QED BY <1>5, <1>9, <1>10, FS_Injection
  <1> QED BY <1>5, <1>6, <1>7, <1>8, <1>11 DEF V, K, n

\* Before booting is over: the addresses scanned so far have their slots.
ScanInv ==
  /\ host.listed
  /\ iface \in 1..(Len(host.ifaces) + 1) /\ addr \in Nat \ {0}
  /\ interfaces \in Seq(Intf \cup {Nil}) /\ Len(interfaces) = Len(host.ifaces) - 1
  /\ IsFiniteSet(Scanned(host, iface, addr))
  /\ index = 1 + Cardinality(Scanned(host, iface, addr)) /\ index <= Len(interfaces) + 1
  /\ \A p \in Scanned(host, iface, addr) :
       Slot(host, p) \in 1..(index - 1) /\ interfaces[Slot(host, p)] = Made(host, p)
  /\ \A s \in 1..(index - 1) : \E p \in Scanned(host, iface, addr) : Slot(host, p) = s
  /\ \A s \in index..Len(interfaces) : interfaces[s] = Nil

BootInv ==
  /\ host \in Hosts
  /\ phase \in {"list", "scan", "running", "panicked"}
  /\ phase = "list" => interfaces = <<>> /\ index = 1 /\ iface = 1 /\ addr = 1
  /\ phase = "scan" => ScanInv
  /\ phase = "running" => interfaces \in Seq(Intf)
  /\ SlotsMatchLinks

\* SlotsMatchLinks is about hosts that have panicked and hosts that run.
LEMMA NotYet ==
  ASSUME phase \in {"list", "scan"}
  PROVE  SlotsMatchLinks
  BY DEF SlotsMatchLinks

LEMMA BootInitInv == BootInit => BootInv
  <1> SUFFICES ASSUME BootInit PROVE BootInv
    OBVIOUS
  <1>1. phase = "list" /\ host \in Hosts /\ interfaces = <<>> /\ index = 1 /\ iface = 1 /\ addr = 1
    BY DEF BootInit
  <1>2. SlotsMatchLinks
    BY <1>1, NotYet
  <1> QED BY <1>1, <1>2 DEF BootInv

\* ListInterfaces: no address has been looked at, all slots are empty.
LEMMA ListStep ==
  ASSUME BootInv, ListInterfaces
  PROVE  BootInv'
  <1> DEFINE h == host
             n == Len(host.ifaces)
  <1>0. host \in Hosts /\ host' = host /\ phase = "list" /\ index = 1 /\ iface = 1 /\ addr = 1
        /\ interfaces = <<>> /\ index' = 1 /\ iface' = 1 /\ addr' = 1
    BY DEF BootInv, ListInterfaces
  <1>1. /\ host.ifaces \in Seq(Iface) /\ n \in Nat
    BY <1>0, HostType
  <1>2. CASE host.listed /\ host.ifaces # <<>>
    <2>1. phase' = "scan" /\ interfaces' = [i \in 1..(n - 1) |-> Nil]
      BY <1>2 DEF ListInterfaces
    <2>2. n \in Nat \ {0} /\ n - 1 \in Nat
      BY <1>1, <1>2, EmptySeq
    <2>3. interfaces' \in [1..(n - 1) -> Intf \cup {Nil}]
      BY <2>1
    <2>4. interfaces' \in Seq(Intf \cup {Nil}) /\ Len(interfaces') = n - 1
      BY <2>2, <2>3, FunctionSeq
    <2>5. Scanned(host, 1, 1) = {}
      <3> SUFFICES ASSUME NEW p \in Scanned(host, 1, 1) PROVE FALSE
        OBVIOUS
      <3>1. p \in V4Addrs(host) /\ Before(p, <<1, 1>>)
        BY DEF Scanned
      <3>2. PICK i \in 1..n : \E a \in 1..Len(host.ifaces[i].addrs) : p = <<i, a>>
        BY <1>0, <3>1, V4Is
      <3>3. PICK a \in 1..Len(host.ifaces[i].addrs) : p = <<i, a>>
        BY <3>2
      <3>4. i \in Nat /\ i >= 1 /\ a >= 1 /\ a \in Int
        OBVIOUS
      <3> QED BY <3>1, <3>3, <3>4 DEF Before
    <2>6. IsFiniteSet({}) /\ Cardinality({}) = 0
      BY FS_EmptySet
    <2>7. ScanInv'
      <3>1. \A s \in 1..(n - 1) : interfaces'[s] = Nil
        BY <2>1
      <3>2. 1 + 0 = 1 /\ 1 <= (n - 1) + 1 /\ 1 \in 1..(n + 1) /\ 1 \in Nat \ {0} /\ 1..(1 - 1) = {}
        BY <2>2
      <3>3. /\ host'.listed
            /\ iface' \in 1..(Len(host'.ifaces) + 1) /\ addr' \in Nat \ {0}
            /\ Len(interfaces') = Len(host'.ifaces) - 1
        BY <1>0, <1>2, <2>4, <3>2, Zenon
      <3>4. Scanned(host', iface', addr') = {}
        BY <1>0, <2>5, Zenon
      <3>5. index' = 1 + Cardinality(Scanned(host', iface', addr')) /\ index' <= Len(interfaces') + 1
            /\ IsFiniteSet(Scanned(host', iface', addr'))
        BY <1>0, <2>4, <2>6, <3>2, <3>4, Zenon
      <3>6. 1..(index' - 1) = {}
        BY <1>0, <3>2, Zenon
      <3>7. \A s \in index'..Len(interfaces') : interfaces'[s] = Nil
        BY <1>0, <2>4, <3>1, Zenon
      <3> QED BY <2>4, <3>3, <3>4, <3>5, <3>6, <3>7, Zenon DEF ScanInv
    <2>8. SlotsMatchLinks'
      BY <2>1 DEF SlotsMatchLinks
    <2> QED BY <1>0, <2>1, <2>7, <2>8 DEF BootInv
  <1>3. CASE ~(host.listed /\ host.ifaces # <<>>)
    <2>1. phase' = "panicked"
      <3>1. CASE host.listed
        BY <1>3, <3>1 DEF ListInterfaces
      <3>2. CASE ~host.listed
        BY <3>2 DEF ListInterfaces
      <3> QED BY <3>1, <3>2
    <2>2. ~Container(host)
      <3> SUFFICES ASSUME Container(host) PROVE FALSE
        OBVIOUS
      <3>1. host.listed /\ DOMAIN host.ifaces # {}
        BY DEF Container
      <3> QED BY <1>3, <3>1
    <2>3. SlotsMatchLinks'
      BY <1>0, <2>1, <2>2 DEF SlotsMatchLinks
    <2> QED BY <1>0, <2>1, <2>3 DEF BootInv
  <1> QED BY <1>2, <1>3

\* The addresses that come before the next interface, or the next address.
LEMMA ScannedNext ==
  ASSUME NEW h \in Hosts, NEW i \in 1..Len(h.ifaces), NEW a \in Nat \ {0}
  PROVE  LET f == h.ifaces[i]
             addrs == IF f.name = "lo" \/ ~f.readable THEN <<>> ELSE f.addrs
         IN /\ a > Len(addrs) => Scanned(h, i + 1, 1) = Scanned(h, i, a)
            /\ a <= Len(addrs) /\ addrs[a].kind # "v4" => Scanned(h, i, a + 1) = Scanned(h, i, a)
            /\ a <= Len(addrs) /\ addrs[a].kind = "v4" =>
                 /\ Scanned(h, i, a + 1) = Scanned(h, i, a) \cup {<<i, a>>}
                 /\ <<i, a>> \in V4Addrs(h) /\ <<i, a>> \notin Scanned(h, i, a)
                 /\ addrs[a] = h.ifaces[i].addrs[a]
  <1> DEFINE f == h.ifaces[i]
             addrs == IF f.name = "lo" \/ ~f.readable THEN <<>> ELSE f.addrs
             n == Len(h.ifaces)
  <1>0. n \in Nat /\ Len(f.addrs) \in Nat /\ f.addrs \in Seq(Addr)
    BY HostType
  <1>1. ASSUME NEW p
        PROVE  p \in V4Addrs(h) => \E j, b \in Nat : p = <<j, b>> /\ b >= 1 /\ (j = i => b <= Len(addrs) /\ addrs[b].kind = "v4")
    <2> SUFFICES ASSUME p \in V4Addrs(h)
                 PROVE  \E j, b \in Nat : p = <<j, b>> /\ b >= 1 /\ (j = i => b <= Len(addrs) /\ addrs[b].kind = "v4")
      OBVIOUS
    <2>1. PICK j \in 1..n : \E b \in 1..Len(h.ifaces[j].addrs) :
             /\ p = <<j, b>> /\ h.ifaces[j].name # "lo" /\ h.ifaces[j].readable
             /\ h.ifaces[j].addrs[b].kind = "v4"
      BY V4Is
    <2>2. PICK b \in 1..Len(h.ifaces[j].addrs) :
             /\ p = <<j, b>> /\ h.ifaces[j].name # "lo" /\ h.ifaces[j].readable
             /\ h.ifaces[j].addrs[b].kind = "v4"
      BY <2>1
    <2>3. Len(h.ifaces[j].addrs) \in Nat
      BY HostType
    <2>4. j \in Nat /\ b \in Nat /\ b >= 1 /\ b <= Len(h.ifaces[j].addrs)
      BY <1>0, <2>3
    <2>5. j = i => addrs = h.ifaces[j].addrs
      BY <2>2
    <2> HIDE DEF addrs, f
    <2>6. j = i => b <= Len(addrs) /\ addrs[b].kind = "v4"
      BY <2>2, <2>4, <2>5, Zenon
    <2> QED BY <2>2, <2>4, <2>6
  <1>2. Len(addrs) \in Nat
    BY <1>0
  <1>3. ASSUME a <= Len(addrs), addrs[a].kind = "v4"
        PROVE  <<i, a>> \in V4Addrs(h) /\ addrs[a] = f.addrs[a]
    <2>1. ~(f.name = "lo" \/ ~f.readable)
      <3> SUFFICES ASSUME f.name = "lo" \/ ~f.readable PROVE FALSE
        OBVIOUS
      <3>1. Len(addrs) = 0
        OBVIOUS
      <3> QED BY <1>3, <3>1
    <2>2. addrs = f.addrs
      BY <2>1
    <2>3. a \in 1..Len(f.addrs) /\ f.addrs[a].kind = "v4"
      BY <1>0, <1>3, <2>2
    <2>4. f.name # "lo" /\ f.readable
      BY <2>1
    <2>5. <<i, a>> \in V4Addrs(h)
      BY <2>3, <2>4, V4Is
    <2> QED BY <2>2, <2>5
  <1> HIDE DEF addrs, f, n
  <1>4. ASSUME a > Len(addrs) PROVE Scanned(h, i + 1, 1) = Scanned(h, i, a)
    <2>1. ASSUME NEW p \in V4Addrs(h) PROVE Before(p, <<i + 1, 1>>) <=> Before(p, <<i, a>>)
      <3>1. PICK j, b \in Nat : p = <<j, b>> /\ b >= 1 /\ (j = i => b <= Len(addrs))
        BY <1>1
      <3>2. Before(p, <<i + 1, 1>>) <=> (j < i + 1 \/ (j = i + 1 /\ b < 1))
        BY <3>1 DEF Before
      <3>3. Before(p, <<i, a>>) <=> (j < i \/ (j = i /\ b < a))
        BY <3>1 DEF Before
      <3>4. (j < i + 1 \/ (j = i + 1 /\ b < 1)) <=> (j < i \/ (j = i /\ b < a))
        BY <1>2, <1>4, <3>1
      <3> QED BY <3>2, <3>3, <3>4
    <2> QED BY <2>1 DEF Scanned
  <1>5. ASSUME a <= Len(addrs), addrs[a].kind # "v4" PROVE Scanned(h, i, a + 1) = Scanned(h, i, a)
    <2>1. ASSUME NEW p \in V4Addrs(h) PROVE Before(p, <<i, a + 1>>) <=> Before(p, <<i, a>>)
      <3>1. PICK j, b \in Nat : p = <<j, b>> /\ (j = i => addrs[b].kind = "v4")
        BY <1>1
      <3>2. Before(p, <<i, a + 1>>) <=> (j < i \/ (j = i /\ b < a + 1))
        BY <3>1 DEF Before
      <3>3. Before(p, <<i, a>>) <=> (j < i \/ (j = i /\ b < a))
        BY <3>1 DEF Before
      <3>4. j = i => b # a
        BY <1>5, <3>1, Zenon
      <3>5. (j < i \/ (j = i /\ b < a + 1)) <=> (j < i \/ (j = i /\ b < a))
        BY <3>1, <3>4
      <3> QED BY <3>2, <3>3, <3>5
    <2> QED BY <2>1 DEF Scanned
  <1>6. ASSUME a <= Len(addrs), addrs[a].kind = "v4"
        PROVE  /\ Scanned(h, i, a + 1) = Scanned(h, i, a) \cup {<<i, a>>}
               /\ <<i, a>> \notin Scanned(h, i, a)
    <2>1. ASSUME NEW p \in V4Addrs(h) PROVE Before(p, <<i, a + 1>>) <=> (Before(p, <<i, a>>) \/ p = <<i, a>>)
      <3>1. PICK j, b \in Nat : p = <<j, b>>
        BY <1>1
      <3>2. Before(p, <<i, a + 1>>) <=> (j < i \/ (j = i /\ b < a + 1))
        BY <3>1 DEF Before
      <3>3. Before(p, <<i, a>>) <=> (j < i \/ (j = i /\ b < a))
        BY <3>1 DEF Before
      <3>4. p = <<i, a>> <=> (j = i /\ b = a)
        BY <3>1
      <3>5. (j < i \/ (j = i /\ b < a + 1)) <=> (j < i \/ (j = i /\ b < a) \/ (j = i /\ b = a))
        BY <3>1
      <3> QED BY <3>2, <3>3, <3>4, <3>5
    <2>2. <<i, a>> \in V4Addrs(h)
      BY <1>3, <1>6
    <2>3. ~Before(<<i, a>>, <<i, a>>)
      BY DEF Before
    <2> QED BY <2>1, <2>2, <2>3 DEF Scanned
  <1> QED BY <1>3, <1>4, <1>5, <1>6 DEF addrs, f

\* NextInterface: no address is passed over.
LEMMA NextInterfaceStep ==
  ASSUME BootInv, NextInterface
  PROVE  BootInv'
  <1>0. /\ host \in Hosts /\ phase = "scan" /\ ScanInv /\ iface <= Len(host.ifaces)
        /\ host' = host /\ phase' = phase /\ interfaces' = interfaces /\ index' = index
        /\ iface' = iface + 1 /\ addr' = 1
    BY DEF BootInv, NextInterface, Scanning
  <1>1. Len(host.ifaces) \in Nat
    BY <1>0, HostType
  <1>2. iface \in 1..Len(host.ifaces) /\ iface + 1 \in 1..(Len(host.ifaces) + 1) /\ addr \in Nat \ {0}
    BY <1>0, <1>1 DEF ScanInv
  <1>3. Scanned(host, iface + 1, 1) = Scanned(host, iface, addr)
    BY <1>0, <1>2, ScannedNext DEF NextInterface, AddrsOf
  <1>4. 1 \in Nat \ {0}
    OBVIOUS
  <1>5. ScanInv'
    <2>1. Scanned(host', iface', addr') = Scanned(host, iface, addr)
      BY <1>0, <1>3, Zenon
    <2>2. /\ host'.listed
          /\ iface' \in 1..(Len(host'.ifaces) + 1) /\ addr' \in Nat \ {0}
      BY <1>0, <1>2, <1>4, Zenon DEF ScanInv
    <2> QED BY <1>0, <2>1, <2>2, Zenon DEF ScanInv
  <1>6. SlotsMatchLinks'
    BY <1>0 DEF SlotsMatchLinks
  <1> QED BY <1>0, <1>5, <1>6 DEF BootInv

\* ScanAddress: an IPv4 address gets the next slot, if there is one.
LEMMA ScanAddressStep ==
  ASSUME BootInv, ScanAddress
  PROVE  BootInv'
  <1> DEFINE S == Scanned(host, iface, addr)
             SS == Scanned(host, iface, addr + 1)
             p == <<iface, addr>>
             n == Len(interfaces)
             a == AddrsOf(iface)[addr]
  <1>0. /\ host \in Hosts /\ phase = "scan" /\ ScanInv /\ iface <= Len(host.ifaces)
        /\ addr <= Len(AddrsOf(iface)) /\ host' = host /\ iface' = iface
    BY DEF BootInv, ScanAddress, Scanning
  <1>1. Len(host.ifaces) \in Nat
    BY <1>0, HostType
  <1>2. iface \in 1..Len(host.ifaces) /\ addr \in Nat \ {0} /\ addr + 1 \in Nat \ {0}
    BY <1>0, <1>1 DEF ScanInv
  <1>3. n \in Nat /\ n = Len(host.ifaces) - 1 /\ interfaces \in Seq(Intf \cup {Nil})
    BY <1>0, LenProperties DEF ScanInv
  <1>4. a.kind # "v4" => SS = S
    BY <1>0, <1>2, ScannedNext DEF AddrsOf
  <1>5. a.kind = "v4" => SS = S \cup {p} /\ p \in V4Addrs(host) /\ p \notin S /\ a = host.ifaces[iface].addrs[addr]
    BY <1>0, <1>2, ScannedNext DEF AddrsOf
  <1>6. IsFiniteSet(S) /\ index = 1 + Cardinality(S) /\ index <= n + 1 /\ Cardinality(S) \in Nat
    BY <1>0, FS_CardinalityType DEF ScanInv
  <1>7. \A q \in S : Slot(host, q) \in 1..(index - 1) /\ interfaces[Slot(host, q)] = Made(host, q)
    BY <1>0 DEF ScanInv
  <1>8. \A s \in 1..(index - 1) : \E q \in S : Slot(host, q) = s
    BY <1>0 DEF ScanInv
  <1>9. \A s \in index..n : interfaces[s] = Nil
    BY <1>0 DEF ScanInv
  <1>10. CASE /\ ~HasIntf(a)
              /\ addr' = addr + 1
              /\ UNCHANGED <<phase, interfaces, index>>
    <2>1. SS = S
      BY <1>4, <1>10 DEF HasIntf
    <2>2. Scanned(host', iface', addr') = Scanned(host, iface, addr)
      BY <1>0, <1>10, <2>1, Zenon
    <2>3. addr' \in Nat \ {0}
      BY <1>2, <1>10, Zenon
    <2>4. ScanInv'
      BY <1>0, <1>10, <2>2, <2>3, Zenon DEF ScanInv
    <2>5. SlotsMatchLinks'
      BY <1>0, <1>10 DEF SlotsMatchLinks
    <2> QED BY <1>0, <1>10, <2>4, <2>5 DEF BootInv
  <1>11. CASE /\ HasIntf(a) /\ index > Len(interfaces)
              /\ phase' = "panicked"
              /\ UNCHANGED <<interfaces, index, addr>>
    <2>1. ~Container(host)
      <3> SUFFICES ASSUME Container(host) PROVE FALSE
        OBVIOUS
      <3>1. p \in V4Addrs(host) /\ p \notin S
        BY <1>5, <1>11 DEF HasIntf
      <3>2. S \cup {p} \subseteq V4Addrs(host)
        BY <3>1 DEF Scanned
      <3> HIDE DEF S, p
      <3>3. Cardinality(S \cup {p}) = Cardinality(S) + 1
        BY <1>6, <3>1, FS_AddElement
      <3>4. IsFiniteSet(V4Addrs(host)) /\ Cardinality(V4Addrs(host)) = n
        BY <1>0, <1>3, ContainerCount
      <3>5. Cardinality(S \cup {p}) <= Cardinality(V4Addrs(host))
        BY <3>2, <3>4, FS_Subset
      <3>6. Cardinality(S) + 1 <= n
        BY <3>3, <3>4, <3>5, Zenon
      <3>7. index > n
        BY <1>11
      <3> HIDE DEF n
      <3> QED BY <1>3, <1>6, <3>6, <3>7
    <2>2. SlotsMatchLinks'
      BY <1>0, <1>11, <2>1 DEF SlotsMatchLinks
    <2> QED BY <1>0, <1>11, <2>2 DEF BootInv
  <1>12. CASE /\ HasIntf(a) /\ index <= Len(interfaces)
              /\ interfaces' = [interfaces EXCEPT ![index] = NewIntf(host.ifaces[iface], a)]
              /\ index' = index + 1
              /\ addr' = addr + 1
              /\ UNCHANGED phase
    <2>1. SS = S \cup {p} /\ p \in V4Addrs(host) /\ p \notin S /\ a = host.ifaces[iface].addrs[addr]
      BY <1>5, <1>12 DEF HasIntf
    <2>2. Slot(host, p) = index
      BY <1>6 DEF Slot, Scanned
    <2>3. NewIntf(host.ifaces[iface], a) = Made(host, p)
      <3>1. p[1] = iface /\ p[2] = addr
        OBVIOUS
      <3> HIDE DEF p, a
      <3> QED BY <2>1, <3>1, Zenon DEF Made
    <2>4. Made(host, p) \in Intf \cup {Nil}
      <3> HIDE DEF p
      <3> QED BY <1>0, <2>1, MadeType
    <2>5. index \in 1..n
      BY <1>3, <1>6, <1>12
    <2> DEFINE x == Made(host, p)
               I == [interfaces EXCEPT ![index] = x]
    <2>6. interfaces' = I
      BY <1>12, <2>3, Zenon
    <2>7. I \in Seq(Intf \cup {Nil}) /\ Len(I) = n /\ \A j \in 1..n : I[j] = IF j = index THEN x ELSE interfaces[j]
      <3> HIDE DEF x
      <3> QED BY <1>3, <2>4, <2>5, ExceptSeq DEF x
    <2> HIDE DEF I, x, S, SS, p, a, n
    <2>8. IsFiniteSet(SS) /\ Cardinality(SS) = Cardinality(S) + 1
      BY <1>6, <2>1, FS_AddElement
    <2>9. index + 1 = 1 + Cardinality(SS) /\ index + 1 <= n + 1 /\ (index + 1) - 1 = index /\ index \in Nat
      <3> DEFINE c == Cardinality(S)
                 cc == Cardinality(SS)
      <3>1. index = 1 + c /\ c \in Nat /\ cc = c + 1
        BY <1>6, <2>8
      <3> HIDE DEF c, cc
      <3>2. index + 1 = 1 + cc /\ index + 1 <= n + 1 /\ (index + 1) - 1 = index /\ index \in Nat
        BY <1>3, <2>5, <3>1
      <3> QED BY <3>2 DEF cc
    <2>10. ASSUME NEW q \in SS
           PROVE  Slot(host, q) \in 1..index /\ I[Slot(host, q)] = Made(host, q)
      <3>1. CASE q = p
        <4>1. index \in 1..index /\ I[index] = x
          BY <2>5, <2>7, <2>9
        <4> QED BY <2>2, <3>1, <4>1, Zenon DEF x
      <3>2. CASE q \in S
        <4>1. Slot(host, q) \in 1..(index - 1) /\ interfaces[Slot(host, q)] = Made(host, q)
          BY <1>7, <3>2
        <4> DEFINE k == Slot(host, q)
        <4> HIDE DEF k
        <4>2. k \in 1..(index - 1)
          BY <4>1 DEF k
        <4>3. k \in 1..index /\ k \in 1..n /\ k # index
          BY <1>3, <2>5, <2>9, <4>2
        <4>4. I[k] = interfaces[k]
          BY <2>7, <4>3
        <4> QED BY <4>1, <4>3, <4>4 DEF k
      <3> QED BY <2>1, <3>1, <3>2
    <2>11. ASSUME NEW s \in 1..index PROVE \E q \in SS : Slot(host, q) = s
      <3>1. CASE s = index
        BY <2>1, <2>2, <3>1
      <3>2. CASE s # index
        <4>1. s \in 1..(index - 1)
          BY <2>9, <3>2
        <4> QED BY <1>8, <2>1, <4>1
      <3> QED BY <3>1, <3>2
    <2>12. ASSUME NEW s \in (index + 1)..n PROVE I[s] = Nil
      <3>1. s \in index..n /\ s \in 1..n /\ s # index
        BY <1>3, <2>5, <2>9
      <3> QED BY <1>9, <2>7, <3>1
    <2>13. ScanInv'
      <3>1. Scanned(host', iface', addr') = SS
        BY <1>0, <1>12, Zenon DEF SS
      <3>2. /\ host'.listed
            /\ iface' \in 1..(Len(host'.ifaces) + 1) /\ addr' \in Nat \ {0}
        BY <1>0, <1>2, <1>12, Zenon DEF ScanInv
      <3>3. interfaces' \in Seq(Intf \cup {Nil}) /\ Len(interfaces') = n
        BY <2>6, <2>7
      <3>4. Len(interfaces') = Len(host'.ifaces) - 1
        BY <1>0, <1>3, <3>3, Zenon
      <3>5. /\ IsFiniteSet(Scanned(host', iface', addr'))
            /\ index' = 1 + Cardinality(Scanned(host', iface', addr')) /\ index' <= Len(interfaces') + 1
        BY <1>12, <2>8, <2>9, <3>1, <3>3, Zenon
      <3>6. index' - 1 = index /\ index' = index + 1
        BY <1>12, <2>9, Zenon
      <3>7. /\ \A q \in SS : Slot(host', q) \in 1..(index' - 1) /\ interfaces'[Slot(host', q)] = Made(host', q)
            /\ \A s \in 1..(index' - 1) : \E q \in SS : Slot(host', q) = s
            /\ \A s \in index'..Len(interfaces') : interfaces'[s] = Nil
        BY <1>0, <2>6, <2>10, <2>11, <2>12, <3>3, <3>6, Zenon
      <3> QED BY <3>1, <3>2, <3>3, <3>4, <3>5, <3>7, Zenon DEF ScanInv
    <2>14. SlotsMatchLinks'
      BY <1>0, <1>12 DEF SlotsMatchLinks
    <2> QED BY <1>0, <1>12, <2>13, <2>14 DEF BootInv
  <1> QED BY <1>10, <1>11, <1>12 DEF ScanAddress

\* The scan is over: every address has been looked at.
LEMMA ScanOver ==
  ASSUME host \in Hosts, ScanInv, iface > Len(host.ifaces)
  PROVE  /\ Scanned(host, iface, addr) = V4Addrs(host)
         /\ Len(interfaces) \in Nat /\ DOMAIN interfaces = 1..Len(interfaces)
         /\ index \in 1..(Len(interfaces) + 1) /\ Cardinality(V4Addrs(host)) \in Nat
         /\ index = 1 + Cardinality(V4Addrs(host))
  <1>1. Len(host.ifaces) \in Nat
    BY HostType
  <1>2. iface \in Nat
    BY <1>1 DEF ScanInv
  <1>3. ASSUME NEW p \in V4Addrs(host) PROVE Before(p, <<iface, addr>>)
    <2>1. PICK j \in 1..Len(host.ifaces) : \E b \in 1..Len(host.ifaces[j].addrs) : p = <<j, b>>
      BY V4Is
    <2>2. PICK b \in 1..Len(host.ifaces[j].addrs) : p = <<j, b>>
      BY <2>1
    <2>3. p[1] = j /\ <<iface, addr>>[1] = iface
      BY <2>2
    <2>4. j < iface
      BY <1>1, <1>2
    <2> QED BY <2>3, <2>4 DEF Before
  <1>4. Scanned(host, iface, addr) = V4Addrs(host)
    BY <1>3 DEF Scanned
  <1>5. Len(interfaces) \in Nat /\ DOMAIN interfaces = 1..Len(interfaces)
    BY LenProperties DEF ScanInv
  <1>6. IsFiniteSet(V4Addrs(host)) /\ index = 1 + Cardinality(V4Addrs(host)) /\ index <= Len(interfaces) + 1
    BY <1>4, Zenon DEF ScanInv
  <1>7. Cardinality(V4Addrs(host)) \in Nat
    BY <1>6, FS_CardinalityType
  <1> DEFINE c == Cardinality(V4Addrs(host))
             n == Len(interfaces)
  <1> HIDE DEF c, n
  <1>8. index \in 1..(n + 1)
    <2>1. c \in Nat /\ n \in Nat /\ index = 1 + c /\ index <= n + 1
      BY <1>5, <1>6, <1>7 DEF c, n
    <2> QED BY <2>1
  <1> QED BY <1>4, <1>5, <1>6, <1>7, <1>8 DEF n

\* No slot is empty: there is one for each address.
LEMMA SlotsFilled ==
  ASSUME host \in Hosts, ScanInv, iface > Len(host.ifaces),
         \A s \in DOMAIN interfaces : interfaces[s] # Nil
  PROVE  /\ interfaces \in Seq(Intf) /\ Len(interfaces) = Cardinality(V4Addrs(host))
         /\ \A p \in V4Addrs(host) :
              /\ Slot(host, p) \in DOMAIN interfaces
              /\ interfaces[Slot(host, p)].name = host.ifaces[p[1]].name
              /\ interfaces[Slot(host, p)].prefix = host.ifaces[p[1]].addrs[p[2]].ip
         /\ \A s \in DOMAIN interfaces : \E p \in V4Addrs(host) : Slot(host, p) = s
  <1> DEFINE n == Len(interfaces)
             c == Cardinality(V4Addrs(host))
  <1>1. /\ Scanned(host, iface, addr) = V4Addrs(host) /\ n \in Nat /\ DOMAIN interfaces = 1..n
        /\ index \in 1..(n + 1) /\ c \in Nat /\ index = 1 + c
    BY ScanOver
  <1>2. index = n + 1
    <2> SUFFICES ASSUME index # n + 1 PROVE FALSE
      OBVIOUS
    <2> HIDE DEF n
    <2>1. index \in index..n /\ index \in 1..n
      BY <1>1
    <2>2. interfaces[index] = Nil
      BY <2>1 DEF ScanInv, n
    <2> QED BY <1>1, <2>1, <2>2
  <1>3. n = c /\ index - 1 = n
    <2> HIDE DEF n, c
    <2> QED BY <1>1, <1>2
  <1>4. ASSUME NEW p \in V4Addrs(host)
        PROVE  Slot(host, p) \in 1..n /\ interfaces[Slot(host, p)] = Made(host, p)
    BY <1>1, <1>3, Zenon DEF ScanInv
  <1>5. ASSUME NEW s \in 1..n PROVE \E p \in V4Addrs(host) : Slot(host, p) = s
    BY <1>1, <1>3, Zenon DEF ScanInv
  <1>6. ASSUME NEW s \in 1..n PROVE interfaces[s] \in Intf
    <2>1. PICK p \in V4Addrs(host) : Slot(host, p) = s
      BY <1>5
    <2>2. interfaces[s] = Made(host, p)
      BY <1>4, <2>1
    <2>3. Made(host, p) \in Intf
      BY MadeType
    <2> QED BY <2>2, <2>3
  <1>7. interfaces \in Seq(Intf)
    <2>1. interfaces = [s \in 1..n |-> interfaces[s]]
      BY <1>1, LenProperties DEF ScanInv
    <2>2. interfaces \in [1..n -> Intf]
      BY <1>6, <2>1
    <2> HIDE DEF n
    <2> QED BY <1>1, <2>2, FunctionSeq
  <1>8. ASSUME NEW p \in V4Addrs(host)
        PROVE  /\ interfaces[Slot(host, p)].name = host.ifaces[p[1]].name
               /\ interfaces[Slot(host, p)].prefix = host.ifaces[p[1]].addrs[p[2]].ip
    BY <1>4, MadeType, Zenon
  <1> HIDE DEF n, c
  <1>9. /\ \A p \in V4Addrs(host) : Slot(host, p) \in DOMAIN interfaces
        /\ \A s \in DOMAIN interfaces : \E p \in V4Addrs(host) : Slot(host, p) = s
    BY <1>1, <1>4, <1>5
  <1>10. Len(interfaces) = Cardinality(V4Addrs(host))
    BY <1>3 DEF n, c
  <1> QED BY <1>7, <1>8, <1>9, <1>10

\* On a container, the slots are the links, by name.
LEMMA ContainerSlots ==
  ASSUME host \in Hosts, ScanInv, iface > Len(host.ifaces), Container(host),
         \A s \in DOMAIN interfaces : interfaces[s] # Nil
  PROVE  /\ {interfaces[s].name : s \in DOMAIN interfaces} = {host.ifaces[i].name : i \in Links(host)}
         /\ \A s, t \in DOMAIN interfaces : interfaces[s].name = interfaces[t].name => s = t
  <1> DEFINE D == DOMAIN interfaces
             V == V4Addrs(host)
             K == Links(host)
  <1>1. /\ \A p \in V : Slot(host, p) \in D /\ interfaces[Slot(host, p)].name = host.ifaces[p[1]].name
        /\ \A s \in D : \E p \in V : Slot(host, p) = s
    BY SlotsFilled
  <1>2. /\ \A p, q \in V : p[1] = q[1] => p = q
        /\ \A i \in K : \E p \in V : p[1] = i
        /\ \A p \in V : p[1] \in K
    BY ContainerCount
  <1>3. \A i, j \in K : host.ifaces[i].name = host.ifaces[j].name => i = j
    BY HostType DEF Links
  <1> HIDE DEF D, V, K
  <1>4. ASSUME NEW s \in D PROVE \E i \in K : interfaces[s].name = host.ifaces[i].name
    <2>1. PICK p \in V : Slot(host, p) = s
      BY <1>1
    <2>2. interfaces[s].name = host.ifaces[p[1]].name
      BY <1>1, <2>1
    <2> QED BY <1>2, <2>2
  <1>5. ASSUME NEW i \in K PROVE \E s \in D : interfaces[s].name = host.ifaces[i].name
    <2>1. PICK p \in V : p[1] = i
      BY <1>2
    <2>2. Slot(host, p) \in D /\ interfaces[Slot(host, p)].name = host.ifaces[i].name
      BY <1>1, <2>1
    <2> QED BY <2>2
  <1>6. ASSUME NEW s \in D, NEW t \in D, interfaces[s].name = interfaces[t].name PROVE s = t
    <2>1. PICK p \in V : Slot(host, p) = s
      BY <1>1
    <2>2. PICK q \in V : Slot(host, q) = t
      BY <1>1
    <2>3. host.ifaces[p[1]].name = host.ifaces[q[1]].name
      BY <1>1, <1>6, <2>1, <2>2, Zenon
    <2>4. p = q
      BY <1>2, <1>3, <2>3
    <2> QED BY <2>1, <2>2, <2>4
  <1>7. {interfaces[s].name : s \in D} = {host.ifaces[i].name : i \in K}
    <2>1. ASSUME NEW x \in {interfaces[s].name : s \in D} PROVE x \in {host.ifaces[i].name : i \in K}
      BY <1>4
    <2>2. ASSUME NEW x \in {host.ifaces[i].name : i \in K} PROVE x \in {interfaces[s].name : s \in D}
      BY <1>5
    <2> QED BY <2>1, <2>2
  <1> QED BY <1>6, <1>7, Zenon DEF D, K

\* On a container, no slot stays empty.
LEMMA ContainerFills ==
  ASSUME host \in Hosts, ScanInv, iface > Len(host.ifaces), Container(host)
  PROVE  \A s \in DOMAIN interfaces : interfaces[s] # Nil
  <1> DEFINE n == Len(interfaces)
             c == Cardinality(V4Addrs(host))
             m == Len(host.ifaces)
  <1>1. /\ Scanned(host, iface, addr) = V4Addrs(host) /\ n \in Nat /\ DOMAIN interfaces = 1..n
        /\ index = 1 + c /\ c \in Nat
    BY ScanOver
  <1>2. c = m - 1 /\ n = m - 1 /\ m \in Nat
    BY ContainerCount, HostType DEF ScanInv
  <1>3. index - 1 = n
    <2> HIDE DEF n, c, m
    <2> QED BY <1>1, <1>2
  <1> SUFFICES ASSUME NEW s \in 1..n PROVE interfaces[s] # Nil
    BY <1>1
  <1>4. PICK p \in V4Addrs(host) : Slot(host, p) = s
    BY <1>1, <1>3, Zenon DEF ScanInv
  <1>5. interfaces[s] = Made(host, p)
    BY <1>1, <1>4, Zenon DEF ScanInv
  <1>6. Made(host, p) \in Intf
    BY MadeType
  <1> QED BY <1>5, <1>6, HostsAssumption

\* OpenSockets: all slots are filled or it panics, not on a container.
LEMMA OpenSocketsStep ==
  ASSUME BootInv, OpenSockets
  PROVE  BootInv'
  <1>0. /\ host \in Hosts /\ phase = "scan" /\ ScanInv /\ iface > Len(host.ifaces)
        /\ host' = host /\ interfaces' = interfaces
    BY DEF BootInv, OpenSockets, scanVars
  <1>1. CASE /\ \E i \in DOMAIN interfaces : interfaces[i] = Nil \/ ~SocketsOpen
             /\ phase' = "panicked"
    <2>1. ~Container(host)
      <3> SUFFICES ASSUME Container(host) PROVE FALSE
        OBVIOUS
      <3>1. \A s \in DOMAIN interfaces : interfaces[s] # Nil
        BY <1>0, ContainerFills
      <3>2. SocketsOpen
        BY DEF Container, SocketsOpen
      <3> QED BY <1>1, <3>1, <3>2
    <2>2. SlotsMatchLinks'
      BY <1>0, <1>1, <2>1 DEF SlotsMatchLinks
    <2> QED BY <1>0, <1>1, <2>2 DEF BootInv
  <1>2. CASE /\ \A i \in DOMAIN interfaces : interfaces[i] # Nil /\ SocketsOpen
             /\ phase' = "running"
             /\ RawSocks' = [name \in {interfaces[i].name : i \in DOMAIN interfaces} |->
                  CHOOSE i \in DOMAIN interfaces :
                    /\ interfaces[i].name = name
                    /\ \A j \in DOMAIN interfaces : interfaces[j].name = name => j <= i]
    <2>1. \A s \in DOMAIN interfaces : interfaces[s] # Nil
      BY <1>2
    <2>2. /\ interfaces \in Seq(Intf) /\ Len(interfaces) = Cardinality(V4Addrs(host))
          /\ \A p \in V4Addrs(host) :
              /\ Slot(host, p) \in DOMAIN interfaces
              /\ interfaces[Slot(host, p)].name = host.ifaces[p[1]].name
              /\ interfaces[Slot(host, p)].prefix = host.ifaces[p[1]].addrs[p[2]].ip
      BY <1>0, <2>1, SlotsFilled
    <2>3. ASSUME Container(host)
          PROVE  /\ {interfaces[s].name : s \in DOMAIN interfaces} = {host.ifaces[i].name : i \in Links(host)}
                 /\ \A s \in DOMAIN interfaces : RawSocks'[interfaces[s].name] = s
      <3> DEFINE D == DOMAIN interfaces
                 LastSlot(name, i) == /\ interfaces[i].name = name
                                  /\ \A j \in D : interfaces[j].name = name => j <= i
      <3>1. /\ {interfaces[s].name : s \in D} = {host.ifaces[i].name : i \in Links(host)}
            /\ \A s, t \in D : interfaces[s].name = interfaces[t].name => s = t
        BY <1>0, <2>1, <2>3, ContainerSlots
      <3>2. \A i \in D : i <= i
        <4>1. D = 1..Len(interfaces) /\ Len(interfaces) \in Nat
          BY <1>0, ScanOver
        <4> QED BY <4>1
      <3>3. RawSocks' = [name \in {interfaces[i].name : i \in D} |-> CHOOSE i \in D : LastSlot(name, i)]
        BY <1>2
      <3> HIDE DEF D
      <3>4. ASSUME NEW s \in D PROVE RawSocks'[interfaces[s].name] = s
        <4> DEFINE x == interfaces[s].name
        <4>1. RawSocks'[x] = CHOOSE i \in D : LastSlot(x, i)
          BY <3>3
        <4>2. LastSlot(x, s)
          BY <3>1, <3>2
        <4>3. ASSUME NEW i \in D, LastSlot(x, i) PROVE i = s
          BY <3>1, <4>3
        <4> HIDE DEF LastSlot, x
        <4>4. (CHOOSE i \in D : LastSlot(x, i)) = s
          BY <4>2, <4>3
        <4> QED BY <4>1, <4>4 DEF x
      <3> QED BY <3>1, <3>4 DEF D
    <2>4. SlotsMatchLinks'
      <3>1. phase' # "panicked"
        BY <1>2
      <3>2. Len(interfaces') = Cardinality(V4Addrs(host'))
        BY <1>0, <2>2, Zenon
      <3>3. \A p \in V4Addrs(host') :
              /\ Slot(host', p) \in DOMAIN interfaces'
              /\ interfaces'[Slot(host', p)].name = host'.ifaces[p[1]].name
              /\ interfaces'[Slot(host', p)].prefix = host'.ifaces[p[1]].addrs[p[2]].ip
        BY <1>0, <2>2, Zenon
      <3>4. Container(host') =>
                 /\ {interfaces'[s].name : s \in DOMAIN interfaces'} = {host'.ifaces[i].name : i \in Links(host')}
                 /\ \A s \in DOMAIN interfaces' : RawSocks'[interfaces'[s].name] = s
        <4>1. interfaces' = interfaces /\ host' = host
          BY <1>0
        <4> QED BY <2>3, <4>1
      <3> QED BY <3>1, <3>2, <3>3, <3>4, Zenon DEF SlotsMatchLinks
    <2> QED BY <1>0, <1>2, <2>2, <2>4 DEF BootInv
  <1> QED BY <1>1, <1>2 DEF OpenSockets

LEMMA BootStepInv ==
  ASSUME BootInv, BootNext
  PROVE  BootInv'
  BY ListStep, NextInterfaceStep, ScanAddressStep, OpenSocketsStep DEF BootNext

-----------------------------------------------------------------------------
(* What is sent                                                            *)

LEMMA IntfType ==
  ASSUME NEW I \in Seq(Intf)
  PROVE  /\ Len(I) \in Nat /\ DOMAIN I = 1..Len(I)
         /\ \A i \in 1..Len(I) :
              I[i] \in Intf /\ I[i].prefix \in Octets(4) /\ I[i].routes \in Seq(Prefix) /\ I[i].adj \in Adjacency
  <1>1. Len(I) \in Nat /\ DOMAIN I = 1..Len(I)
    BY LenProperties
  <1>2. ASSUME NEW i \in 1..Len(I) PROVE I[i] \in Intf
    BY ElementOfSeq
  <1>3. ASSUME NEW i \in 1..Len(I)
        PROVE  I[i].prefix \in Octets(4) /\ I[i].routes \in Seq(Prefix) /\ I[i].adj \in Adjacency
    BY <1>2 DEF Intf
  <1> QED BY <1>1, <1>2, <1>3

\* What is advertised has its types.
LEMMA RoutesType ==
  ASSUME NEW I \in Seq(Intf)
  PROVE  RoutesOf(I) \in Seq(Prefix) /\ UpAdjsOf(I) \in Seq(Adjacency)
  <1> DEFINE n == Len(I)
             R == [i \in 1..n |-> I[i].routes]
             U == [i \in 1..n |-> IF I[i].adj.state = "UP" THEN <<I[i].adj>> ELSE <<>>]
  <1>1. n \in Nat /\ DOMAIN I = 1..n
    BY IntfType
  <1>2. R \in [1..n -> Seq(Prefix)]
    BY IntfType
  <1>3. U \in [1..n -> Seq(Adjacency)]
    <2>1. ASSUME NEW i \in 1..n
          PROVE  (IF I[i].adj.state = "UP" THEN <<I[i].adj>> ELSE <<>>) \in Seq(Adjacency)
      <3>1. I[i].adj \in Adjacency
        BY IntfType
      <3> QED BY <3>1
    <2> QED BY <2>1
  <1> HIDE DEF n
  <1>4. RoutesOf(I) = FlattenSeq(R) /\ UpAdjsOf(I) = FlattenSeq(U)
    BY <1>1, Zenon DEF RoutesOf, UpAdjsOf
  <1> HIDE DEF R, U
  <1>5. R \in Seq(Seq(Prefix)) /\ U \in Seq(Seq(Adjacency))
    BY <1>1, <1>2, <1>3, FunctionSeq
  <1>6. FlattenSeq(R) \in Seq(Prefix)
    BY <1>5, FlattenIs
  <1>7. FlattenSeq(U) \in Seq(Adjacency)
    BY <1>5, FlattenIs
  <1> QED BY <1>4, <1>6, <1>7

\* Fits is Fit of what is advertised.
LEMMA FitsIs ==
  ASSUME NEW I \in Seq(Intf), Len(RoutesOf(I)) <= 21, Len(UpAdjsOf(I)) <= 23,
         \A i \in DOMAIN UpAdjsOf(I) : Len(UpAdjsOf(I)[i].neighborSystemID) = 6
  PROVE  Fit(RoutesOf(I), UpAdjsOf(I))
  <1> DEFINE R == RoutesOf(I)
             U == UpAdjsOf(I)
  <1>1. R \in Seq(Prefix) /\ U \in Seq(Adjacency)
    BY RoutesType
  <1> HIDE DEF R, U
  <1>2. DOMAIN U = 1..Len(U)
    BY <1>1, LenProperties
  <1>3. Len(R) <= 21 /\ Len(U) <= 23 /\ \A i \in DOMAIN U : Len(U[i].neighborSystemID) = 6
    BY DEF R, U
  <1>4. Fit(R, U)
    BY <1>1, <1>2, <1>3 DEF Fit
  <1> QED BY <1>4 DEF R, U

LEMMA MacType == Mac(1) \in Octets(6) /\ PeerMac \in Octets(6) /\ PeerSid \in Octets(6) /\ Sid \in Octets(6)
  <1>1. Mac(1) \in Octets(6)
    BY SMT DEF Mac, Octets
  <1>2. PeerMac \in Octets(6) /\ PeerSid \in Octets(6) /\ Sid \in Octets(6)
    BY SMT, AdvertiseAssumption
  <1> QED BY <1>1, <1>2

\* The TLVs of an answer have right lengths and hold what they should.
LEMMA AnswerIs ==
  ASSUME NEW mac \in Octets(6), NEW prefix \in Octets(4)
  PROVE  /\ AnswerTLVs(mac, prefix) \in Seq(Exact) /\ AnswerTLVs(mac, prefix) # <<>>
         /\ Len(Body(AnswerTLVs(mac, prefix))) = 14
         /\ AnswerTLVs(mac, prefix)[1].valueTLV = mac /\ AnswerTLVs(mac, prefix)[2].valueTLV = prefix
  <1> DEFINE a == [typeTLV |-> IS_NEIGHBOR_MAC_TLV, lengthTLV |-> 6, valueTLV |-> mac]
             b == [typeTLV |-> ISIS_IP_INTF_ADDR_TLV, lengthTLV |-> 4, valueTLV |-> prefix]
  <1>1. mac \in Seq(Byte) /\ Len(mac) = 6 /\ prefix \in Seq(Byte) /\ Len(prefix) = 4
    BY OctetsSeq
  <1>2. IS_NEIGHBOR_MAC_TLV \in Byte /\ ISIS_IP_INTF_ADDR_TLV \in Byte /\ 6 \in Byte /\ 4 \in Byte
    BY SMT DEF Byte, IS_NEIGHBOR_MAC_TLV, ISIS_IP_INTF_ADDR_TLV
  <1>3. a \in Exact
    <2>1. a \in [typeTLV : Byte, lengthTLV : Byte, valueTLV : Seq(Byte)] /\ a.lengthTLV = 6 /\ a.valueTLV = mac
      BY <1>1, <1>2
    <2> HIDE DEF a
    <2> QED BY <1>1, <2>1, Zenon DEF Exact
  <1>4. b \in Exact
    <2>1. b \in [typeTLV : Byte, lengthTLV : Byte, valueTLV : Seq(Byte)] /\ b.lengthTLV = 4 /\ b.valueTLV = prefix
      BY <1>1, <1>2
    <2> HIDE DEF b
    <2> QED BY <1>1, <2>1, Zenon DEF Exact
  <1>5. AnswerTLVs(mac, prefix) = <<a, b>>
    BY DEF AnswerTLVs
  <1>6. a.lengthTLV = 6 /\ a.valueTLV = mac /\ b.lengthTLV = 4 /\ b.valueTLV = prefix
    OBVIOUS
  <1> HIDE DEF a, b
  <1>7. /\ <<a>> \in Seq(Exact) /\ <<a, b>> \in Seq(Exact) /\ <<>> \in Seq(Exact)
        /\ <<a>> = Append(<<>>, a) /\ <<a, b>> = Append(<<a>>, b)
    BY <1>3, <1>4
  <1>8. Len(Body(<<>>)) = 0
    <2>1. Encs(<<>>) = <<>>
      BY DEF Encs
    <2> QED BY <2>1, FlattenEmpty DEF Body
  <1>9. Len(Body(<<a>>)) = 0 + (2 + 6)
    <2>1. Len(Body(Append(<<>>, a))) = Len(Body(<<>>)) + (2 + a.lengthTLV)
      BY <1>3, <1>7, BodyAppend
    <2> QED BY <1>6, <1>7, <1>8, <2>1, Zenon
  <1>10. Len(Body(<<a, b>>)) = (0 + (2 + 6)) + (2 + 4)
    <2>1. Len(Body(Append(<<a>>, b))) = Len(Body(<<a>>)) + (2 + b.lengthTLV)
      BY <1>4, <1>7, BodyAppend
    <2> QED BY <1>6, <1>7, <1>9, <2>1, Zenon
  <1>11. (0 + (2 + 6)) + (2 + 4) = 14
    OBVIOUS
  <1>12. <<a, b>>[1] = a /\ <<a, b>>[2] = b /\ <<a, b>> # <<>>
    OBVIOUS
  <1>13. Len(Body(<<a, b>>)) = 14
    BY <1>10, <1>11, Zenon
  <1> QED BY <1>5, <1>6, <1>7, <1>12, <1>13, Zenon

LEMMA BodyEmpty == <<>> \in Seq(Exact) /\ Len(Body(<<>>)) = 0
  <1>1. Encs(<<>>) = <<>>
    BY DEF Encs
  <1> QED BY <1>1, FlattenEmpty DEF Body

\* A TLV that was read without a panic: its value is as long as it says, and ends
\* within the buffer.
LEMMA TLVAtIs ==
  ASSUME NEW f \in Seq(Byte), NEW a \in Nat, ~TLVPanics(f, a)
  PROVE  TLVAt(f, a) \in Exact /\ (a + TLVAt(f, a).lengthTLV) + 2 <= 1000
  <1>1. a + 1 < Len(f) /\ a + 2 + f[a + 2] <= 1000 /\ a < Len(f) /\ f[a + 1] \in Byte /\ f[a + 2] \in Byte
    <2>1. Len(f) \in Nat /\ \A i \in 1..Len(f) : f[i] \in Byte
      BY LenProperties, ElementOfSeq
    <2>2. a + 1 < Len(f)
      BY <2>1 DEF TLVPanics
    <2>3. a + 1 \in 1..Len(f) /\ a + 2 \in 1..Len(f)
      BY <2>1, <2>2
    <2>4. f[a + 1] \in Byte /\ f[a + 2] \in Byte
      BY <2>1, <2>3
    <2> DEFINE x == f[a + 2]
    <2>5. ~(a + 2 + x > READ_BUF_SIZE)
      BY DEF TLVPanics
    <2> HIDE DEF x
    <2>6. a + 2 + x <= 1000
      <3>1. x \in 0..255
        BY <2>4 DEF x, Byte
      <3> QED BY <2>5, <3>1, SMT DEF READ_BUF_SIZE
    <2> QED BY <2>1, <2>2, <2>4, <2>6 DEF x
  <1> DEFINE n == f[a + 2]
             v == Slice(f, a + 2, n)
  <1>2. ByteAt(f, a + 1) = n /\ ByteAt(f, a) = f[a + 1]
    <2>1. (a + 1) + 1 = a + 2
      OBVIOUS
    <2>2. ByteAt(f, a + 1) = f[(a + 1) + 1]
      BY <1>1, Zenon DEF ByteAt
    <2>3. ByteAt(f, a) = f[a + 1]
      BY <1>1, Zenon DEF ByteAt
    <2> QED BY <2>1, <2>2, <2>3
  <1>3. TLVAt(f, a) = [typeTLV |-> f[a + 1], lengthTLV |-> n, valueTLV |-> v]
    BY <1>2, Zenon DEF TLVAt
  <1>4. n \in Byte /\ n \in Nat /\ a + 2 + n <= 1000
    <2>1. n \in Byte /\ a + 2 + n <= 1000
      BY <1>1
    <2> HIDE DEF n
    <2>2. n \in Nat
      BY <2>1, SMT DEF Byte
    <2> QED BY <2>1, <2>2
  <1>5. v \in [1..n -> Byte]
    <2> DEFINE k == a + 2
    <2>1. k \in Nat
      OBVIOUS
    <2> HIDE DEF n, k
    <2>2. ASSUME NEW j \in 1..n PROVE ByteAt(f, k + j - 1) \in Byte
      <3> DEFINE i == k + j - 1
      <3>1. i \in Nat
        BY <1>4, <2>1
      <3> HIDE DEF i
      <3>2. CASE i < Len(f)
        <4>1. i + 1 \in 1..Len(f)
          BY <3>1, <3>2, LenProperties
        <4>2. f[i + 1] \in Byte
          BY <4>1, ElementOfSeq
        <4> QED BY <3>2, <4>2 DEF ByteAt, i
      <3>3. CASE ~(i < Len(f))
        <4>1. 0 \in Byte
          BY DEF Byte
        <4> QED BY <3>3, <4>1 DEF ByteAt, i
      <3> QED BY <3>2, <3>3
    <2>3. v = [j \in 1..n |-> ByteAt(f, k + j - 1)]
      BY DEF Slice, k
    <2> HIDE DEF v
    <2> QED BY <2>2, <2>3
  <1> HIDE DEF n, v
  <1>6. v \in Seq(Byte) /\ Len(v) = n
    BY <1>4, <1>5, FunctionSeq
  <1> DEFINE t == [typeTLV |-> f[a + 1], lengthTLV |-> n, valueTLV |-> v]
  <1>7. t \in [typeTLV : Byte, lengthTLV : Byte, valueTLV : Seq(Byte)] /\ t.lengthTLV = n /\ t.valueTLV = v
    BY <1>1, <1>4, <1>6
  <1>8. t \in Exact
    <2> HIDE DEF t
    <2> QED BY <1>6, <1>7, Zenon DEF Exact
  <1>9. (a + n) + 2 <= 1000
    BY <1>4
  <1> HIDE DEF t
  <1>10. TLVAt(f, a) = t
    BY <1>3 DEF t
  <1> QED BY <1>7, <1>8, <1>9, <1>10, Zenon

\* The daemon's adjacencies change, its interfaces stay the ones it booted with.
LEMMA GenerateBoot ==
  ASSUME BootInv, NEW seq \in Sequences, NEW adjs \in Adjacencies, GenerateLocalLsp(seq, adjs)
  PROVE  BootInv' /\ interfaces' \in Seq(Intf) /\ interfaces' # <<>>
  <1> DEFINE n == Len(interfaces)
  <1>1. /\ host \in Hosts /\ phase = "running" /\ interfaces \in Seq(Intf) /\ interfaces # <<>>
        /\ Len(adjs) = n /\ host' = host /\ phase' = phase /\ RawSocks' = RawSocks
        /\ interfaces' = [i \in DOMAIN interfaces |-> [interfaces[i] EXCEPT !.adj = adjs[i]]]
        /\ SlotsMatchLinks
    BY DEF BootInv, GenerateLocalLsp
  <1>2. n \in Nat /\ DOMAIN interfaces = 1..n /\ \A i \in 1..n : interfaces[i] \in Intf
    BY <1>1, IntfType
  <1>3. \A i \in 1..n : adjs[i] \in Adjacency
    <2>1. adjs \in Seq(Adjacency)
      BY AdvertiseAssumption, SMT
    <2> QED BY <1>1, <2>1, ElementOfSeq
  <1>4. interfaces' \in [1..n -> Intf]
    <2>1. ASSUME NEW i \in 1..n PROVE [interfaces[i] EXCEPT !.adj = adjs[i]] \in Intf
      BY <1>2, <1>3 DEF Intf
    <2> HIDE DEF n
    <2> QED BY <1>1, <1>2, <2>1
  <1>5. interfaces' \in Seq(Intf) /\ Len(interfaces') = n /\ DOMAIN interfaces' = DOMAIN interfaces
    <2> HIDE DEF n
    <2> QED BY <1>2, <1>4, FunctionSeq
  <1>6. \A i \in DOMAIN interfaces :
          interfaces'[i].name = interfaces[i].name /\ interfaces'[i].prefix = interfaces[i].prefix
    BY <1>1, <1>2 DEF Intf
  <1>7. interfaces' # <<>>
    BY <1>1, <1>5
  <1>8. SlotsMatchLinks'
    <2>1. phase' # "panicked"
      BY <1>1
    <2>2. Len(interfaces') = Cardinality(V4Addrs(host'))
      BY <1>1, <1>5, Zenon DEF SlotsMatchLinks
    <2>3. ASSUME NEW p \in V4Addrs(host')
          PROVE  /\ Slot(host', p) \in DOMAIN interfaces'
                 /\ interfaces'[Slot(host', p)].name = host'.ifaces[p[1]].name
                 /\ interfaces'[Slot(host', p)].prefix = host'.ifaces[p[1]].addrs[p[2]].ip
      <3>1. /\ Slot(host, p) \in DOMAIN interfaces
            /\ interfaces[Slot(host, p)].name = host.ifaces[p[1]].name
            /\ interfaces[Slot(host, p)].prefix = host.ifaces[p[1]].addrs[p[2]].ip
        BY <1>1, Zenon DEF SlotsMatchLinks
      <3> QED BY <1>1, <1>5, <1>6, <3>1, Zenon
    <2>4. ASSUME Container(host')
          PROVE  /\ {interfaces'[s].name : s \in DOMAIN interfaces'} = {host'.ifaces[i].name : i \in Links(host')}
                 /\ \A s \in DOMAIN interfaces' : RawSocks'[interfaces'[s].name] = s
      <3>0. Container(host)
        BY <1>1, <2>4, Zenon
      <3>1. /\ {interfaces[s].name : s \in DOMAIN interfaces} = {host.ifaces[i].name : i \in Links(host)}
            /\ \A s \in DOMAIN interfaces : RawSocks[interfaces[s].name] = s
        BY <1>1, <3>0, Zenon DEF SlotsMatchLinks
      <3>2. {interfaces'[s].name : s \in DOMAIN interfaces'} = {interfaces[s].name : s \in DOMAIN interfaces}
        <4> DEFINE D == DOMAIN interfaces
        <4>1. \A s \in D : interfaces'[s].name = interfaces[s].name
          BY <1>6
        <4>2. DOMAIN interfaces' = D
          BY <1>5
        <4> HIDE DEF D
        <4>3. {interfaces'[s].name : s \in D} = {interfaces[s].name : s \in D}
          BY <4>1
        <4> QED BY <4>2, <4>3, Zenon DEF D
      <3>3. \A s \in DOMAIN interfaces' : RawSocks'[interfaces'[s].name] = s
        BY <1>1, <1>5, <1>6, <3>1, Zenon
      <3>4. host' = host
        BY <1>1
      <3>5. {host'.ifaces[i].name : i \in Links(host')} = {host.ifaces[i].name : i \in Links(host)}
        BY <3>4
      <3> QED BY <3>1, <3>2, <3>3, <3>5
    <2> QED BY <2>1, <2>2, <2>3, <2>4, Zenon DEF SlotsMatchLinks
  <1> QED BY <1>1, <1>5, <1>7, <1>8 DEF BootInv

-----------------------------------------------------------------------------
(* The invariant of the wire                                               *)

\* The TLVs the LSP was made with; what every receiver from now on makes of it,
\* which is settled as soon as one has read it, or if it fits; and what a receiver
\* files then.
Written == <<getIPReachTLV(interfaces), getNeighborTLV(interfaces)>>
What == IF learnt = <<>> THEN Written ELSE learnt[1].tlvs
Known == learnt # <<>> \/ Fits
Heard(ts) == [source |-> Sid, seq |-> sent, tlvs |-> ts]

\* Parsing begins behind the headers and has got as far as the TLVs found so far
\* are long, within the buffer.
Reading ==
  /\ Len(frame) <= 1000
  /\ tlvs \in Seq(Exact) /\ at = 41 + Len(Body(tlvs)) /\ at <= 1000

\* What is settled is on its way unharmed.
Settled ==
  /\ What \in Seq(Exact) /\ pc # "panicked"
  /\ pc \in {"wire", "parse"} => Carries(frame, 41, What)
  /\ pc = "parse" => Upto(41, What, tlvs, at)

LspInv ==
  /\ sent \in Sequences
  /\ pc \in {"wire", "parse"} => IsLsp(frame, sent)
  /\ pc = "parse" => Reading
  /\ learnt \in Seq({Heard(learnt[1].tlvs)})
  /\ Known => Settled
  /\ Fits => What = Written

\* A hello of the neighbor, without TLVs, and the answer to it.
Asking ==
  /\ IsHello(frame, PeerSid)
  /\ \A j \in 1..6 : frame[6 + j] = PeerMac[j]
  /\ Carries(frame, 42, <<>>)
  /\ pc = "parse" => Upto(42, <<>>, tlvs, at)

Answer == AnswerTLVs(PeerMac, interfaces[1].prefix)

Answering ==
  /\ IsHello(frame, Sid)
  /\ Carries(frame, 42, Answer)
  /\ pc = "parse" => Upto(42, Answer, tlvs, at)

HelloInv ==
  /\ pc \in {"wire", "parse", "done"}
  /\ pc \in {"wire", "parse"} => learnt = <<>> /\ (Asking \/ Answering)
  /\ pc = "done" =>
       learnt = <<[state |-> "UP", neighborSystemID |-> Sid, neighborIP |-> interfaces[1].prefix]>>

WireInv ==
  /\ pc = "idle" => sent = 0 /\ learnt = <<>>
  /\ pc # "idle" => phase = "running" /\ interfaces # <<>>
  /\ sent # 0 => LspInv
  /\ sent = 0 /\ pc # "idle" => HelloInv

Inv == BootInv /\ WireInv

\* What was written is made of bytes; it is exact, and fits a frame, if it fits.
LEMMA WrittenType ==
  ASSUME NEW I \in Seq(Intf)
  PROVE  LET T == <<getIPReachTLV(I), getNeighborTLV(I)>>
         IN /\ Body(T) \in Seq(Byte) /\ Len(Body(T)) \in Nat
            /\ Fit(RoutesOf(I), UpAdjsOf(I)) => T \in Seq(Exact) /\ Len(Body(T)) <= 510
  <1> DEFINE r == getIPReachTLV(I)
             u == getNeighborTLV(I)
  <1>1. r = ReachTLV(RoutesOf(I)) /\ u = NeighborsTLV(UpAdjsOf(I))
    BY TLVsOf
  <1>2. r \in TLV /\ u \in TLV
    BY <1>1, RoutesType, TLVsType
  <1>3. Fit(RoutesOf(I), UpAdjsOf(I)) => <<r, u>> \in Seq(Exact) /\ Len(Body(<<r, u>>)) <= 510
    BY <1>1, FitLengths, Zenon
  <1> HIDE DEF r, u
  <1>4. <<r, u>> \in Seq(TLV)
    BY <1>2
  <1>5. Body(<<r, u>>) \in Seq(Byte) /\ Len(Body(<<r, u>>)) \in Nat
    BY <1>4, BodyType
  <1> QED BY <1>3, <1>5 DEF r, u

\* A frame made of the headers of an LSP and TLVs.
LEMMA LspSent ==
  ASSUME NEW src \in Octets(6), NEW seq \in Sequences, NEW T, Body(T) \in Seq(Byte), Len(Body(T)) \in Nat
  PROVE  LET f == buildEthernetFrame(l1_multicast, src, Serialize(LspHeads(seq), T))
         IN /\ IsLsp(f, seq)
            /\ T \in Seq(Exact) /\ 41 + Len(Body(T)) <= 1000 => Carries(f, 41, T)
  <1> DEFINE h == LspHeads(seq)
             f == buildEthernetFrame(l1_multicast, src, Serialize(h, T))
             n == Len(Body(T))
  <1>1. h \in Seq(Byte) /\ Len(h) = 27
    BY LspHeadsIs
  <1>2. 14 + 27 = 41
    OBVIOUS
  <1>3. 14 + Len(h) = 41
    BY <1>1, <1>2, Zenon
  <1> HIDE DEF h
  <1>4. f \in Seq(Byte) /\ Len(f) = (14 + Len(h)) + n /\ \A j \in 1..Len(h) : f[14 + j] = h[j]
    <2>1. h \in Seq(Byte) /\ Body(T) \in Seq(Byte)
      BY <1>1
    <2> QED BY <2>1, SentFrame
  <1>5. T \in Seq(Exact) /\ 41 + n <= 1000 => Carries(f, 41, T)
    BY <1>1, <1>3, SentCarries, Zenon
  <1> HIDE DEF f, n
  <1>6. Len(f) = 41 + n /\ \A j \in 1..27 : f[14 + j] = h[j]
    BY <1>1, <1>3, <1>4, Zenon
  <1>7. n \in Nat
    BY DEF n
  <1>8. Len(f) >= 41
    BY <1>6, <1>7, SMT
  <1>9. IsLsp(f, seq)
    BY <1>4, <1>6, <1>8, Zenon DEF IsLsp, h
  <1> QED BY <1>5, <1>9 DEF f, n, h

\* A frame made of the headers of a hello and few TLVs.
LEMMA HelloSent ==
  ASSUME NEW src \in Octets(6), NEW sid \in Octets(6), NEW T \in Seq(Exact), Len(Body(T)) <= 14
  PROVE  LET f == buildEthernetFrame(l1_multicast, src, Serialize(HelloHeads(sid), T))
         IN /\ IsHello(f, sid) /\ Carries(f, 42, T)
            /\ \A j \in 1..6 : f[6 + j] = src[j]
  <1> DEFINE h == HelloHeads(sid)
             f == buildEthernetFrame(l1_multicast, src, Serialize(h, T))
             n == Len(Body(T))
  <1>1. h \in Seq(Byte) /\ Len(h) = 28 /\ Body(T) \in Seq(Byte) /\ n \in Nat
    BY HelloHeadsIs, BodyIs
  <1>2. 14 + 28 = 42
    OBVIOUS
  <1>3. 14 + Len(h) = 42
    BY <1>1, <1>2, Zenon
  <1> HIDE DEF h
  <1>4. /\ f \in Seq(Byte) /\ Len(f) = (14 + Len(h)) + n /\ \A j \in 1..Len(h) : f[14 + j] = h[j]
        /\ \A j \in 1..6 : f[6 + j] = src[j]
    <2>1. h \in Seq(Byte) /\ Body(T) \in Seq(Byte)
      BY <1>1
    <2> QED BY <2>1, SentFrame
  <1>5. 42 + n <= 1000
    <2>1. n <= 14
      OBVIOUS
    <2> HIDE DEF n
    <2> QED BY <1>1, <2>1, SMT
  <1>6. Carries(f, 42, T)
    BY <1>1, <1>3, <1>5, SentCarries, Zenon
  <1> HIDE DEF f, n
  <1>7. Len(f) = 42 + n /\ \A j \in 1..28 : f[14 + j] = h[j]
    BY <1>1, <1>3, <1>4, Zenon
  <1>8. Len(f) >= 42
    BY <1>1, <1>7, SMT
  <1>9. IsHello(f, sid)
    BY <1>4, <1>7, <1>8, Zenon DEF IsHello, h
  <1> QED BY <1>4, <1>6, <1>9 DEF f, h

\* GenerateLocalLsp: the frame is an LSP, and carries what fits.
LEMMA GenerateStep ==
  ASSUME Inv, NEW seq \in Sequences, NEW adjs \in Adjacencies, GenerateLocalLsp(seq, adjs)
  PROVE  Inv'
  <1>1. BootInv' /\ interfaces' \in Seq(Intf) /\ interfaces' # <<>>
    BY GenerateBoot DEF Inv
  <1>2. /\ learnt = <<>> /\ learnt' = learnt /\ sent' = seq /\ pc' = "wire" /\ phase' = "running"
        /\ frame' = buildEthernetFrame(l1_multicast, Mac(1), Serialize(LspHeads(seq), Written'))
    BY DEF Inv, WireInv, GenerateLocalLsp, LspHeads, Written
  <1>3. seq # 0
    BY SMT, AdvertiseAssumption
  <1>4. /\ Body(Written') \in Seq(Byte) /\ Len(Body(Written')) \in Nat
        /\ Fit(RoutesOf(interfaces'), UpAdjsOf(interfaces')) =>
             Written' \in Seq(Exact) /\ Len(Body(Written')) <= 510
    BY <1>1, WrittenType DEF Written
  <1>5. Fits' => Written' \in Seq(Exact) /\ 41 + Len(Body(Written')) <= 1000
    <2> SUFFICES ASSUME Fits' PROVE Written' \in Seq(Exact) /\ 41 + Len(Body(Written')) <= 1000
      OBVIOUS
    <2>1. Fit(RoutesOf(interfaces'), UpAdjsOf(interfaces'))
      BY <1>1, FitsIs DEF Fits, Routes, UpAdjs
    <2> DEFINE n == Len(Body(Written'))
    <2>2. n <= 510 /\ n \in Nat
      BY <1>4, <2>1
    <2> HIDE DEF n
    <2>3. 41 + n <= 1000
      BY <2>2, SMT
    <2> QED BY <1>4, <2>1, <2>3 DEF n
  <1>6. IsLsp(frame', seq) /\ (Fits' => Carries(frame', 41, Written'))
    <2> DEFINE T == Written'
               f == buildEthernetFrame(l1_multicast, Mac(1), Serialize(LspHeads(seq), T))
    <2>1. IsLsp(f, seq) /\ (T \in Seq(Exact) /\ 41 + Len(Body(T)) <= 1000 => Carries(f, 41, T))
      <3>1. Body(T) \in Seq(Byte) /\ Len(Body(T)) \in Nat
        BY <1>4
      <3> HIDE DEF T
      <3> QED BY <3>1, MacType, LspSent
    <2> HIDE DEF T
    <2>2. frame' = f /\ T = Written'
      BY <1>2 DEF T
    <2> HIDE DEF f
    <2> QED BY <1>5, <2>1, <2>2, Zenon
  <1>7. What' = Written' /\ (Known' <=> Fits')
    BY <1>2 DEF What, Known
  <1>8. LspInv'
    <2>1. learnt' \in Seq({Heard(learnt[1].tlvs)'})
      BY <1>2
    <2>2. Known' => Settled'
      BY <1>2, <1>5, <1>6, <1>7, Zenon DEF Settled
    <2>3. pc' = "wire" /\ sent' \in Sequences /\ IsLsp(frame', sent')
      BY <1>2, <1>6, Zenon
    <2>4. "wire" # "parse"
      OBVIOUS
    <2> QED BY <1>7, <2>1, <2>2, <2>3, <2>4, Zenon DEF LspInv
  <1>9. sent' # 0 /\ pc' # "idle" /\ phase' = "running"
    BY <1>2, <1>3
  <1>10. WireInv'
    BY <1>1, <1>8, <1>9, Zenon DEF WireInv
  <1> QED BY <1>1, <1>10 DEF Inv

\* A step that leaves the booted daemon alone.
LEMMA BootSame ==
  ASSUME BootInv, UNCHANGED bootVars
  PROVE  BootInv'
  <1>1. /\ host' = host /\ phase' = phase /\ interfaces' = interfaces /\ index' = index
        /\ iface' = iface /\ addr' = addr /\ RawSocks' = RawSocks
    BY DEF bootVars, scanVars
  <1>2. SlotsMatchLinks'
    <2>1. SlotsMatchLinks
      BY DEF BootInv
    <2> DEFINE D == DOMAIN interfaces
               Names == {interfaces[s].name : s \in D}
               Wanted == {host.ifaces[i].name : i \in Links(host)}
    <2>2. Names' = Names /\ Wanted' = Wanted
      BY <1>1
    <2>3. /\ Container(host) => phase # "panicked"
          /\ phase = "running" =>
               /\ Len(interfaces) = Cardinality(V4Addrs(host))
               /\ \A p \in V4Addrs(host) :
                    /\ Slot(host, p) \in D
                    /\ interfaces[Slot(host, p)].name = host.ifaces[p[1]].name
                    /\ interfaces[Slot(host, p)].prefix = host.ifaces[p[1]].addrs[p[2]].ip
          /\ Container(host) /\ phase = "running" =>
               Names = Wanted /\ \A s \in D : RawSocks[interfaces[s].name] = s
      BY <2>1, Zenon DEF SlotsMatchLinks
    <2> HIDE DEF Names, Wanted
    <2>4. /\ Container(host') => phase' # "panicked"
          /\ phase' = "running" =>
               /\ Len(interfaces') = Cardinality(V4Addrs(host'))
               /\ \A p \in V4Addrs(host') :
                    /\ Slot(host', p) \in DOMAIN interfaces'
                    /\ interfaces'[Slot(host', p)].name = host'.ifaces[p[1]].name
                    /\ interfaces'[Slot(host', p)].prefix = host'.ifaces[p[1]].addrs[p[2]].ip
          /\ Container(host') /\ phase' = "running" =>
               Names' = Wanted' /\ \A s \in DOMAIN interfaces' : RawSocks'[interfaces'[s].name] = s
      BY <1>1, <2>2, <2>3, Zenon
    <2> QED BY <2>4, Zenon DEF SlotsMatchLinks, Names, Wanted
  <1>3. phase = "scan" => ScanInv'
    BY <1>1, Zenon DEF BootInv, ScanInv
  <1> QED BY <1>1, <1>2, <1>3 DEF BootInv

\* What was written is a matter of the interfaces.
LEMMA SameWritten ==
  ASSUME interfaces' = interfaces
  PROVE  Written' = Written /\ (Fits' <=> Fits) /\ Answer' = Answer
  BY Zenon DEF Written, Fits, Routes, UpAdjs, Answer

\* What receivers make of it, also of what has been learnt.
LEMMA SameWhat ==
  ASSUME interfaces' = interfaces, learnt' = learnt, sent' = sent
  PROVE  What' = What /\ (Known' <=> Known) /\ Heard(learnt[1].tlvs)' = Heard(learnt[1].tlvs)
  BY SameWritten, Zenon DEF What, Known, Heard

\* PeerHello: the frame is a hello without TLVs.
LEMMA PeerHelloStep ==
  ASSUME Inv, PeerHello
  PROVE  Inv'
  <1>1. /\ pc = "idle" /\ sent = 0 /\ learnt = <<>> /\ sent' = sent /\ learnt' = learnt
        /\ phase = "running" /\ interfaces # <<>> /\ phase' = phase /\ interfaces' = interfaces /\ pc' = "wire"
        /\ frame' = buildEthernetFrame(l1_multicast, PeerMac, Serialize(HelloHeads(PeerSid), <<>>))
    BY DEF Inv, WireInv, PeerHello, HelloHeads, bootVars, scanVars
  <1>2. BootInv'
    BY BootSame DEF Inv, PeerHello
  <1> DEFINE f == buildEthernetFrame(l1_multicast, PeerMac, Serialize(HelloHeads(PeerSid), <<>>))
  <1>3. /\ IsHello(f, PeerSid) /\ Carries(f, 42, <<>>)
        /\ \A j \in 1..6 : f[6 + j] = PeerMac[j]
    <2>1. 0 <= 14
      OBVIOUS
    <2>2. Len(Body(<<>>)) <= 14 /\ <<>> \in Seq(Exact)
      BY <2>1, BodyEmpty
    <2> QED BY <2>2, MacType, HelloSent
  <1> HIDE DEF f
  <1>4. frame' = f
    BY <1>1 DEF f
  <1>5. pc' # "parse" /\ pc' # "done" /\ pc' # "idle" /\ sent' = 0
    BY <1>1
  <1>6. Asking'
    BY <1>3, <1>4, <1>5, Zenon DEF Asking
  <1>7. pc' \in {"wire", "parse", "done"} /\ learnt' = <<>>
    BY <1>1
  <1>8. HelloInv'
    BY <1>5, <1>6, <1>7, Zenon DEF HelloInv
  <1>9. WireInv'
    BY <1>1, <1>5, <1>8, Zenon DEF WireInv
  <1> QED BY <1>2, <1>9 DEF Inv

\* Receive: a frame that is settled is not cut off; parsing begins.
LEMMA ReceiveStep ==
  ASSUME Inv, Receive
  PROVE  Inv'
  <1>0. BootInv'
    BY BootSame DEF Inv, Receive
  <1>1. /\ pc = "wire" /\ pc' = "parse" /\ frame' = recvFrame(frame) /\ at' = tlvOffset(frame')
        /\ tlvs' = <<>> /\ sent' = sent /\ learnt' = learnt /\ interfaces' = interfaces /\ phase' = phase
        /\ WireInv
    BY DEF Inv, Receive, bootVars, scanVars
  <1>2. pc # "idle" /\ pc' # "idle" /\ pc' # "panicked" /\ pc' # "done" /\ pc \in {"wire", "parse"}
        /\ pc' \in {"wire", "parse", "done"} /\ pc' \in {"wire", "parse"}
    BY <1>1
  <1>3. phase' = "running" /\ interfaces' # <<>>
    BY <1>1, <1>2, Zenon DEF WireInv
  <1>4. CASE sent # 0
    <2>1. LspInv
      BY <1>1, <1>4 DEF WireInv
    <2>2. sent \in Sequences /\ IsLsp(frame, sent)
      BY <1>2, <2>1, Zenon DEF LspInv
    <2>3. IsLsp(frame', sent') /\ Len(frame') <= 1000
      <3>1. IsLsp(recvFrame(frame), sent) /\ Len(recvFrame(frame)) <= 1000
        BY <2>2, LspReceived
      <3> QED BY <1>1, <3>1
    <2>4. at' = 41
      <3>1. sent' = sent /\ sent' \in Sequences
        BY <1>1, <2>2
      <3>2. tlvOffset(frame') = 41
        BY <2>3, <3>1, LspReads
      <3> QED BY <1>1, <3>2
    <2>5. Reading'
      <3>1. 41 = 41 + 0 /\ 41 <= 1000
        BY SMT
      <3>2. tlvs' \in Seq(Exact) /\ Len(Body(tlvs')) = 0
        BY <1>1, BodyEmpty
      <3>3. at' = 41 + Len(Body(tlvs')) /\ at' <= 1000
        BY <2>4, <3>1, <3>2
      <3> QED BY <2>3, <3>2, <3>3 DEF Reading
    <2>6. What' = What /\ (Known' <=> Known) /\ Heard(learnt[1].tlvs)' = Heard(learnt[1].tlvs)
          /\ Written' = Written /\ (Fits' <=> Fits)
      BY <1>1, SameWhat, SameWritten, Zenon
    <2>7. Known' => Settled'
      <3> SUFFICES ASSUME Known' PROVE Settled'
        OBVIOUS
      <3>1. What \in Seq(Exact) /\ Carries(frame, 41, What)
        BY <1>2, <2>1, <2>6, Zenon DEF LspInv, Settled
      <3>2. frame' = frame
        <4>1. frame \in Seq(Byte) /\ Len(frame) <= 1000
          BY <3>1 DEF Carries
        <4>2. recvFrame(frame) = frame
          BY <4>1, RecvIs
        <4> QED BY <1>1, <4>2, Zenon
      <3>3. 41 \in Nat
        OBVIOUS
      <3>4. Upto(41, What, <<>>, 41)
        BY <3>1, <3>3, ParseBegin
      <3> QED BY <1>1, <1>2, <2>4, <2>6, <3>1, <3>2, <3>4, Zenon DEF Settled
    <2>8. learnt' \in Seq({Heard(learnt[1].tlvs)'})
      BY <1>1, <2>1, <2>6, Zenon DEF LspInv
    <2>9. Fits' => What' = Written'
      BY <2>1, <2>6, Zenon DEF LspInv
    <2>10. sent' \in Sequences
      BY <1>1, <2>2
    <2>11. LspInv'
      BY <2>3, <2>5, <2>7, <2>8, <2>9, <2>10, Zenon DEF LspInv
    <2>12. sent' # 0
      BY <1>1, <1>4
    <2>13. WireInv'
      BY <1>2, <1>3, <2>11, <2>12, Zenon DEF WireInv
    <2> QED BY <1>0, <2>13 DEF Inv
  <1>5. CASE sent = 0
    <2>1. HelloInv
      BY <1>1, <1>2, <1>5, Zenon DEF WireInv
    <2>2. learnt = <<>> /\ (Asking \/ Answering)
      BY <1>2, <2>1, Zenon DEF HelloInv
    <2>3. ASSUME NEW T, Carries(frame, 42, T), NEW sid \in Octets(6), IsHello(frame, sid)
          PROVE  frame' = frame /\ at' = 42 /\ Upto(42, T, <<>>, 42)
      <3>1. frame \in Seq(Byte) /\ Len(frame) <= 1000
        BY <2>3 DEF Carries
      <3>2. recvFrame(frame) = frame
        BY <3>1, RecvIs
      <3>3. frame' = frame
        BY <1>1, <3>2, Zenon
      <3>4. at' = 42
        <4>1. tlvOffset(frame) = 42
          BY <2>3, HelloReads
        <4> QED BY <1>1, <3>3, <4>1
      <3>5. 42 \in Nat
        OBVIOUS
      <3>6. Upto(42, T, <<>>, 42)
        BY <2>3, <3>5, ParseBegin
      <3> QED BY <3>3, <3>4, <3>6
    <2>4. Asking => Asking'
      <3> SUFFICES ASSUME Asking PROVE Asking'
        OBVIOUS
      <3>1. /\ IsHello(frame, PeerSid) /\ Carries(frame, 42, <<>>)
            /\ \A j \in 1..6 : frame[6 + j] = PeerMac[j]
        BY Zenon DEF Asking
      <3>2. frame' = frame /\ at' = 42 /\ Upto(42, <<>>, <<>>, 42)
        BY <2>3, <3>1, MacType, Zenon
      <3> QED BY <1>1, <3>1, <3>2, Zenon DEF Asking
    <2>5. Answering => Answering'
      <3> SUFFICES ASSUME Answering PROVE Answering'
        OBVIOUS
      <3>1. IsHello(frame, Sid) /\ Carries(frame, 42, Answer) /\ Answer' = Answer
        BY <1>1, SameWritten, Zenon DEF Answering
      <3>2. frame' = frame /\ at' = 42 /\ Upto(42, Answer, <<>>, 42)
        BY <2>3, <3>1, MacType, Zenon
      <3> QED BY <1>1, <3>1, <3>2, Zenon DEF Answering
    <2>6. learnt' = <<>> /\ (Asking' \/ Answering')
      BY <1>1, <2>2, <2>4, <2>5, Zenon
    <2>7. HelloInv'
      BY <1>2, <2>6, Zenon DEF HelloInv
    <2>8. sent' = 0
      BY <1>1, <1>5
    <2>9. WireInv'
      BY <1>2, <1>3, <2>7, <2>8, Zenon DEF WireInv
    <2> QED BY <1>0, <2>9 DEF Inv
  <1> QED BY <1>4, <1>5

\* ParseTLV: a frame that is settled does not panic.
LEMMA ParseStep ==
  ASSUME Inv, ParseTLV
  PROVE  Inv'
  <1>0. BootInv'
    BY BootSame DEF Inv, ParseTLV
  <1> DEFINE t == TLVAt(frame, at)
  <1>1. /\ pc = "parse" /\ at < Len(frame)
        /\ frame' = frame /\ sent' = sent /\ learnt' = learnt /\ interfaces' = interfaces /\ phase' = phase
        /\ WireInv
    BY DEF Inv, ParseTLV, bootVars, scanVars
  <1>2. \/ TLVPanics(frame, at) /\ pc' = "panicked" /\ at' = at /\ tlvs' = tlvs
        \/ ~TLVPanics(frame, at) /\ pc' = pc /\ tlvs' = Append(tlvs, t) /\ at' = (at + t.lengthTLV) + 2
    BY DEF ParseTLV
  <1> HIDE DEF t
  <1>3. pc # "idle" /\ pc' # "idle" /\ pc \in {"wire", "parse"}
    BY <1>1, <1>2
  <1>4. phase' = "running" /\ interfaces' # <<>>
    BY <1>1, <1>3, Zenon DEF WireInv
  <1>5. CASE sent # 0
    <2>1. LspInv
      BY <1>1, <1>5 DEF WireInv
    <2>2. sent \in Sequences /\ IsLsp(frame, sent) /\ Reading
      BY <1>1, <1>3, <2>1, Zenon DEF LspInv
    <2>3. What' = What /\ (Known' <=> Known) /\ Heard(learnt[1].tlvs)' = Heard(learnt[1].tlvs)
          /\ Written' = Written /\ (Fits' <=> Fits)
      BY <1>1, SameWhat, SameWritten, Zenon
    <2>4. pc' = "parse" => Reading'
      <3> SUFFICES ASSUME pc' = "parse" PROVE Reading'
        OBVIOUS
      <3>1. ~TLVPanics(frame, at) /\ tlvs' = Append(tlvs, t) /\ at' = (at + t.lengthTLV) + 2
        BY <1>2
      <3> DEFINE n == Len(Body(tlvs))
                 m == Len(Body(tlvs'))
                 k == t.lengthTLV
      <3>2. tlvs \in Seq(Exact) /\ at = 41 + n
        BY <2>2 DEF Reading
      <3>3. n \in Nat
        BY <3>2, BodyIs
      <3>4. frame \in Seq(Byte)
        BY <2>2 DEF IsLsp
      <3>5. at \in Nat
        <4> HIDE DEF n
        <4> QED BY <3>2, <3>3
      <3>6. t \in Exact /\ (at + k) + 2 <= 1000
        BY <3>1, <3>4, <3>5, TLVAtIs DEF t
      <3>7. tlvs' \in Seq(Exact) /\ m = n + (2 + k)
        <4>1. Append(tlvs, t) \in Seq(Exact)
          BY <3>2, <3>6, AppendProperties
        <4>2. Len(Body(Append(tlvs, t))) = Len(Body(tlvs)) + (2 + t.lengthTLV)
          BY <3>2, <3>6, BodyAppend
        <4> QED BY <3>1, <4>1, <4>2, Zenon
      <3>8. k \in 0..255
        BY <3>6 DEF Exact, Byte
      <3> HIDE DEF n, m, k
      <3>9. at' = (at + k) + 2
        BY <3>1 DEF k
      <3>10. at' = 41 + m /\ at' <= 1000
        BY <3>2, <3>3, <3>6, <3>7, <3>8, <3>9, SMT
      <3>11. Len(frame') <= 1000
        BY <1>1, <2>2 DEF Reading
      <3> QED BY <3>7, <3>10, <3>11 DEF Reading, m
    <2>5. Known' => Settled'
      <3> SUFFICES ASSUME Known' PROVE Settled'
        OBVIOUS
      <3>1. What \in Seq(Exact) /\ Carries(frame, 41, What) /\ Upto(41, What, tlvs, at)
        BY <1>1, <1>3, <2>1, <2>3, Zenon DEF LspInv, Settled
      <3>2. 41 \in Nat
        OBVIOUS
      <3>3. ~TLVPanics(frame, at) /\ Upto(41, What, Append(tlvs, t), (at + t.lengthTLV) + 2)
        BY <1>1, <3>1, <3>2, ParseTurn DEF t
      <3>4. pc' = pc /\ tlvs' = Append(tlvs, t) /\ at' = (at + t.lengthTLV) + 2
        BY <1>2, <3>3
      <3>5. pc' # "panicked"
        BY <1>1, <3>4
      <3>6. What' \in Seq(Exact) /\ Carries(frame', 41, What')
        BY <1>1, <2>3, <3>1, Zenon
      <3>7. Upto(41, What', tlvs', at')
        BY <2>3, <3>3, <3>4, Zenon
      <3> QED BY <3>5, <3>6, <3>7, Zenon DEF Settled
    <2>6. learnt' \in Seq({Heard(learnt[1].tlvs)'})
      BY <1>1, <2>1, <2>3, Zenon DEF LspInv
    <2>7. Fits' => What' = Written'
      BY <2>1, <2>3, Zenon DEF LspInv
    <2>8. sent' \in Sequences /\ IsLsp(frame', sent')
      BY <1>1, <2>2, Zenon
    <2>9. LspInv'
      BY <2>4, <2>5, <2>6, <2>7, <2>8, Zenon DEF LspInv
    <2>10. sent' # 0
      BY <1>1, <1>5
    <2>11. WireInv'
      BY <1>3, <1>4, <2>9, <2>10, Zenon DEF WireInv
    <2> QED BY <1>0, <2>11 DEF Inv
  <1>6. CASE sent = 0
    <2>1. HelloInv
      BY <1>1, <1>3, <1>6, Zenon DEF WireInv
    <2>2. learnt = <<>> /\ (Asking \/ Answering)
      BY <1>3, <2>1, Zenon DEF HelloInv
    <2>3. ASSUME NEW T, Carries(frame, 42, T), Upto(42, T, tlvs, at)
          PROVE  pc' = pc /\ Upto(42, T, tlvs', at')
      <3>1. 42 \in Nat
        OBVIOUS
      <3>2. ~TLVPanics(frame, at) /\ Upto(42, T, Append(tlvs, t), (at + t.lengthTLV) + 2)
        BY <1>1, <2>3, <3>1, ParseTurn DEF t
      <3>3. pc' = pc /\ tlvs' = Append(tlvs, t) /\ at' = (at + t.lengthTLV) + 2
        BY <1>2, <3>2
      <3> QED BY <3>2, <3>3, Zenon
    <2>4. Asking => pc' = pc /\ Asking'
      <3> SUFFICES ASSUME Asking PROVE pc' = pc /\ Asking'
        OBVIOUS
      <3>1. /\ IsHello(frame, PeerSid) /\ Carries(frame, 42, <<>>) /\ Upto(42, <<>>, tlvs, at)
            /\ \A j \in 1..6 : frame[6 + j] = PeerMac[j]
        BY <1>1, Zenon DEF Asking
      <3>2. pc' = pc /\ Upto(42, <<>>, tlvs', at')
        BY <2>3, <3>1
      <3> QED BY <1>1, <3>1, <3>2, Zenon DEF Asking
    <2>5. Answering => pc' = pc /\ Answering'
      <3> SUFFICES ASSUME Answering PROVE pc' = pc /\ Answering'
        OBVIOUS
      <3>1. /\ IsHello(frame, Sid) /\ Carries(frame, 42, Answer) /\ Upto(42, Answer, tlvs, at)
            /\ Answer' = Answer
        BY <1>1, SameWritten, Zenon DEF Answering
      <3>2. pc' = pc /\ Upto(42, Answer, tlvs', at')
        BY <2>3, <3>1
      <3> QED BY <1>1, <3>1, <3>2, Zenon DEF Answering
    <2>6. learnt' = <<>> /\ pc' = "parse" /\ (Asking' \/ Answering')
      BY <1>1, <2>2, <2>4, <2>5, Zenon
    <2>7. pc' \in {"wire", "parse", "done"} /\ pc' # "done"
      BY <2>6
    <2>8. HelloInv'
      BY <2>6, <2>7, Zenon DEF HelloInv
    <2>9. sent' = 0
      BY <1>1, <1>6
    <2>10. WireInv'
      BY <1>3, <1>4, <2>8, <2>9, Zenon DEF WireInv
    <2> QED BY <1>0, <2>10 DEF Inv
  <1> QED BY <1>5, <1>6

\* The two types of PDU are told apart.
LEMMA FlowType ==
  ASSUME Inv, pc = "parse"
  PROVE  /\ sent # 0 => pduType(frame) = L1_LSP
         /\ sent = 0 => pduType(frame) = L1_LAN_HELLO
  <1>1. pc # "idle" /\ pc \in {"wire", "parse"} /\ WireInv
    BY DEF Inv
  <1>2. ASSUME sent # 0 PROVE pduType(frame) = L1_LSP
    <2>1. sent \in Sequences /\ IsLsp(frame, sent)
      BY <1>1, <1>2, Zenon DEF WireInv, LspInv
    <2> QED BY <2>1, LspReads
  <1>3. ASSUME sent = 0 PROVE pduType(frame) = L1_LAN_HELLO
    <2>1. Asking \/ Answering
      BY <1>1, <1>3, Zenon DEF WireInv, HelloInv
    <2>2. IsHello(frame, PeerSid) \/ IsHello(frame, Sid)
      BY <2>1, Zenon DEF Asking, Answering
    <2> QED BY <2>2, HelloReads, MacType
  <1> QED BY <1>2, <1>3

\* RelayLsp: what has been read is settled from now on, and sent on.
LEMMA RelayStep ==
  ASSUME Inv, RelayLsp
  PROVE  Inv'
  <1>0. BootInv'
    BY BootSame DEF Inv, RelayLsp
  <1>1. /\ pc = "parse" /\ at >= Len(frame) /\ pduType(frame) = L1_LSP
        /\ learnt' = Append(learnt, [source |-> LspSource(frame), seq |-> LspSequence(frame), tlvs |-> tlvs])
        /\ frame' = buildEthernetFrame(l1_multicast, PeerMac, Serialize(LspHeaders(frame), tlvs))
        /\ pc' \in {"done", "wire"}
        /\ sent' = sent /\ interfaces' = interfaces /\ phase' = phase
        /\ at' = at /\ tlvs' = tlvs /\ WireInv
    BY DEF Inv, RelayLsp, Parsed, bootVars, scanVars
  <1>2. pc # "idle" /\ pc' # "idle" /\ pc' # "panicked" /\ pc' # "parse" /\ pc \in {"wire", "parse"}
    BY <1>1
  <1>3. phase' = "running" /\ interfaces' # <<>>
    BY <1>1, <1>2, Zenon DEF WireInv
  <1>4. sent # 0
    <2>1. L1_LSP # L1_LAN_HELLO
      BY DEF L1_LSP, L1_LAN_HELLO
    <2> QED BY <1>1, <2>1, FlowType, Zenon
  <1>5. LspInv
    BY <1>1, <1>4 DEF WireInv
  <1>6. sent \in Sequences /\ IsLsp(frame, sent) /\ Reading
    BY <1>1, <1>2, <1>5, Zenon DEF LspInv
  <1>7. LspSource(frame) = Sid /\ LspSequence(frame) = sent /\ LspHeaders(frame) = LspHeads(sent)
    BY <1>6, LspReads
  <1>8. learnt' = Append(learnt, Heard(tlvs))
    BY <1>1, <1>7, Zenon DEF Heard
  <1> DEFINE n == Len(Body(tlvs))
             f == buildEthernetFrame(l1_multicast, PeerMac, Serialize(LspHeads(sent), tlvs))
  <1>9. tlvs \in Seq(Exact) /\ Body(tlvs) \in Seq(Byte) /\ n \in Nat /\ 41 + n <= 1000
    <2>1. tlvs \in Seq(Exact) /\ 41 + n <= 1000
      BY <1>6 DEF Reading
    <2> QED BY <2>1, BodyIs
  <1>10. IsLsp(f, sent) /\ Carries(f, 41, tlvs)
    BY <1>6, <1>9, MacType, LspSent
  <1> HIDE DEF f, n
  <1>11. IsLsp(frame', sent') /\ Carries(frame', 41, tlvs)
    <2>1. frame' = f /\ sent' = sent
      BY <1>1, <1>7, Zenon DEF f
    <2> QED BY <1>10, <2>1, Zenon
  <1>12. Known => tlvs = What
    <2> SUFFICES ASSUME Known PROVE tlvs = What
      OBVIOUS
    <2>1. Carries(frame, 41, What) /\ Upto(41, What, tlvs, at)
      BY <1>1, <1>2, <1>5, Zenon DEF LspInv, Settled
    <2>2. 41 \in Nat
      OBVIOUS
    <2>3. ~(at < Len(frame))
      <3>1. Len(frame) \in Nat /\ at \in Nat
        <4>1. frame \in Seq(Byte)
          BY <1>6 DEF IsLsp
        <4>2. at = 41 + n
          BY <1>6 DEF Reading, n
        <4> QED BY <1>9, <4>1, <4>2, LenProperties
      <3> QED BY <1>1, <3>1
    <2> QED BY <2>1, <2>2, <2>3, ParseEnd
  <1> DEFINE x == Heard(tlvs)
  <1>13. /\ learnt' # <<>> /\ learnt'[1] = x /\ learnt' \in Seq({x})
    <2>1. learnt \in Seq({x})
      <3>1. CASE learnt = <<>>
        BY <3>1
      <3>2. CASE learnt # <<>>
        <4>1. tlvs = learnt[1].tlvs
          BY <1>12, <3>2, Zenon DEF Known, What
        <4> QED BY <1>5, <4>1, Zenon DEF LspInv
      <3> QED BY <3>1, <3>2
    <2> HIDE DEF x
    <2>2. Append(learnt, x) \in Seq({x}) /\ Append(learnt, x) # <<>> /\ Append(learnt, x)[1] = x
      <3>1. x \in {x}
        OBVIOUS
      <3>2. Append(learnt, x) \in Seq({x}) /\ Len(Append(learnt, x)) = Len(learnt) + 1 /\ Len(learnt) \in Nat
        BY <2>1, <3>1, AppendProperties, LenProperties
      <3>3. 1 \in 1..Len(Append(learnt, x))
        BY <3>2
      <3>4. Append(learnt, x)[1] \in {x}
        BY <3>2, <3>3, ElementOfSeq
      <3> QED BY <3>2, <3>3, <3>4
    <2>3. learnt' = Append(learnt, x)
      BY <1>8 DEF x
    <2> QED BY <2>2, <2>3, Zenon
  <1>14. learnt'[1].tlvs = tlvs
    BY <1>13 DEF Heard
  <1>15. What' = tlvs
    BY <1>13, <1>14, Zenon DEF What
  <1>16. learnt' \in Seq({Heard(learnt[1].tlvs)'})
    <2>1. Heard(learnt[1].tlvs)' = x
      BY <1>1, <1>14, Zenon DEF Heard
    <2> HIDE DEF x
    <2> QED BY <1>13, <2>1, Zenon
  <1>17. Written' = Written /\ (Fits' <=> Fits)
    BY <1>1, SameWritten
  <1>18. Fits' => What' = Written'
    BY <1>5, <1>12, <1>15, <1>17, Zenon DEF LspInv, Known
  <1>19. Settled'
    BY <1>2, <1>9, <1>11, <1>15, Zenon DEF Settled
  <1>20. sent' \in Sequences /\ sent' # 0
    BY <1>1, <1>4, <1>6
  <1>21. LspInv'
    BY <1>2, <1>11, <1>16, <1>18, <1>19, <1>20, Zenon DEF LspInv
  <1>22. WireInv'
    BY <1>2, <1>3, <1>20, <1>21, Zenon DEF WireInv
  <1> QED BY <1>0, <1>22 DEF Inv

\* The end of a hello: the neighbor's had no TLVs, ours had the two of an answer.
LEMMA HelloParsed ==
  ASSUME Inv, Parsed(L1_LAN_HELLO)
  PROVE  /\ sent = 0 /\ learnt = <<>>
         /\ \/ Asking /\ tlvs = <<>>
            \/ Answering /\ tlvs = Answer
  <1>1. pc = "parse" /\ at >= Len(frame) /\ pduType(frame) = L1_LAN_HELLO /\ WireInv
    BY DEF Inv, Parsed
  <1>2. pc # "idle" /\ pc \in {"wire", "parse"}
    BY <1>1
  <1>3. sent = 0
    <2>1. L1_LSP # L1_LAN_HELLO
      BY DEF L1_LSP, L1_LAN_HELLO
    <2> QED BY <1>1, <2>1, FlowType, Zenon
  <1>4. learnt = <<>> /\ (Asking \/ Answering)
    BY <1>1, <1>2, <1>3, Zenon DEF WireInv, HelloInv
  <1>5. ASSUME NEW T, Carries(frame, 42, T), Upto(42, T, tlvs, at) PROVE tlvs = T
    <2>1. 42 \in Nat
      OBVIOUS
    <2>2. frame \in Seq(Byte) /\ T \in Seq(Exact) /\ Len(tlvs) \in 0..Len(T)
      <3>1. frame \in Seq(Byte) /\ T \in Seq(Exact) /\ tlvs \in Seq(Exact) /\ Len(tlvs) <= Len(T)
        BY <1>5 DEF Carries, Upto
      <3> QED BY <3>1, LenProperties
    <2>3. at \in Nat
      <3> DEFINE e == Ends(Encs(T))[Len(tlvs)]
      <3>1. e \in Nat
        BY <2>2, BodyIs
      <3>2. at = 42 + e
        BY <1>5 DEF Upto
      <3> HIDE DEF e
      <3> QED BY <3>1, <3>2
    <2>4. ~(at < Len(frame))
      BY <1>1, <2>2, <2>3, LenProperties
    <2> QED BY <1>5, <2>1, <2>4, ParseEnd
  <1>6. Asking => tlvs = <<>>
    BY <1>1, <1>5, Zenon DEF Asking
  <1>7. Answering => tlvs = Answer
    BY <1>1, <1>5, Zenon DEF Answering
  <1> QED BY <1>3, <1>4, <1>6, <1>7

\* The answer the daemon gives on interface 1.
LEMMA AnswerType ==
  ASSUME BootInv, phase = "running", interfaces # <<>>
  PROVE  /\ Answer \in Seq(Exact) /\ Answer # <<>> /\ Len(Body(Answer)) <= 14
         /\ Answer[1].valueTLV = PeerMac /\ Answer[2].valueTLV = interfaces[1].prefix
  <1>1. interfaces \in Seq(Intf)
    BY DEF BootInv
  <1>2. 1 \in 1..Len(interfaces)
    BY <1>1, EmptySeq, LenProperties
  <1>3. interfaces[1].prefix \in Octets(4)
    BY <1>1, <1>2, IntfType
  <1> DEFINE x == interfaces[1].prefix
  <1> HIDE DEF x
  <1>4. Answer = AnswerTLVs(PeerMac, x)
    BY DEF Answer, x
  <1>5. 14 <= 14
    OBVIOUS
  <1>6. /\ AnswerTLVs(PeerMac, x) \in Seq(Exact) /\ AnswerTLVs(PeerMac, x) # <<>>
        /\ Len(Body(AnswerTLVs(PeerMac, x))) = 14
        /\ AnswerTLVs(PeerMac, x)[1].valueTLV = PeerMac /\ AnswerTLVs(PeerMac, x)[2].valueTLV = x
    <2>1. x \in Octets(4)
      BY <1>3 DEF x
    <2> QED BY <2>1, MacType, AnswerIs
  <1> QED BY <1>4, <1>5, <1>6, Zenon DEF x

\* AnswerHello: the frame is a hello with the answer.
LEMMA AnswerStep ==
  ASSUME Inv, AnswerHello
  PROVE  Inv'
  <1>0. BootInv'
    BY BootSame DEF Inv, AnswerHello
  <1>1. /\ Parsed(L1_LAN_HELLO) /\ tlvs = <<>> /\ pc' = "wire"
        /\ frame' = buildEthernetFrame(l1_multicast, Mac(1),
                      Serialize(HelloHeads(Sid), AnswerTLVs(SourceMac(frame), interfaces[1].prefix)))
        /\ sent' = sent /\ interfaces' = interfaces /\ phase' = phase /\ learnt' = learnt
        /\ pc = "parse" /\ WireInv /\ BootInv
    BY DEF Inv, AnswerHello, Parsed, HelloHeads, bootVars, scanVars
  <1>2. pc # "idle" /\ pc' # "idle" /\ pc' # "parse" /\ pc' # "done" /\ pc' \in {"wire", "parse", "done"}
    BY <1>1
  <1>3. phase = "running" /\ interfaces # <<>>
    BY <1>1, <1>2, Zenon DEF WireInv
  <1>4. Answer \in Seq(Exact) /\ Answer # <<>> /\ Len(Body(Answer)) <= 14
    BY <1>1, <1>3, AnswerType
  <1>5. sent = 0 /\ learnt = <<>> /\ Asking
    BY <1>1, <1>4, HelloParsed, Zenon
  <1>6. SourceMac(frame) = PeerMac
    <2>1. frame \in Seq(Byte) /\ Len(frame) >= 42 /\ \A j \in 1..6 : frame[6 + j] = PeerMac[j]
      BY <1>5, Zenon DEF Asking, IsHello
    <2> QED BY <2>1, MacType, MacReads
  <1> DEFINE f == buildEthernetFrame(l1_multicast, Mac(1), Serialize(HelloHeads(Sid), Answer))
  <1>7. frame' = f
    BY <1>1, <1>6, Zenon DEF Answer
  <1>8. IsHello(f, Sid) /\ Carries(f, 42, Answer)
    BY <1>4, MacType, HelloSent
  <1> HIDE DEF f
  <1>9. Answering'
    <2>1. Answer' = Answer
      BY <1>1, SameWritten
    <2> QED BY <1>2, <1>7, <1>8, <2>1, Zenon DEF Answering
  <1>10. learnt' = <<>> /\ sent' = 0 /\ phase' = "running" /\ interfaces' # <<>>
    BY <1>1, <1>3, <1>5
  <1>11. HelloInv'
    BY <1>2, <1>9, <1>10, Zenon DEF HelloInv
  <1>12. WireInv'
    BY <1>2, <1>10, <1>11, Zenon DEF WireInv
  <1> QED BY <1>0, <1>12 DEF Inv

\* PeerUp: the answer names the neighbor's MAC, so it comes UP.
LEMMA PeerUpStep ==
  ASSUME Inv, PeerUp
  PROVE  Inv'
  <1>0. BootInv'
    BY BootSame DEF Inv, PeerUp
  <1> DEFINE up == [state |-> "UP", neighborSystemID |-> HelloSource(frame), neighborIP |-> tlvs[2].valueTLV]
             new == [state |-> "NEW", neighborSystemID |-> <<>>, neighborIP |-> <<>>]
             want == [state |-> "UP", neighborSystemID |-> Sid, neighborIP |-> interfaces[1].prefix]
  <1>1. /\ Parsed(L1_LAN_HELLO) /\ tlvs # <<>> /\ pc' = "done"
        /\ learnt' = Append(learnt, IF tlvs[1].valueTLV = PeerMac THEN up ELSE new)
        /\ sent' = sent /\ interfaces' = interfaces /\ phase' = phase
        /\ pc = "parse" /\ WireInv /\ BootInv
    BY DEF Inv, PeerUp, Parsed, bootVars, scanVars
  <1>2. pc # "idle" /\ pc' # "idle" /\ pc' # "parse" /\ pc' # "wire" /\ pc' \in {"wire", "parse", "done"}
        /\ pc' \notin {"wire", "parse"}
    BY <1>1
  <1>3. phase = "running" /\ interfaces # <<>>
    BY <1>1, <1>2, Zenon DEF WireInv
  <1>4. Answer[1].valueTLV = PeerMac /\ Answer[2].valueTLV = interfaces[1].prefix
    BY <1>1, <1>3, AnswerType
  <1>5. sent = 0 /\ learnt = <<>> /\ Answering /\ tlvs = Answer
    BY <1>1, HelloParsed, Zenon
  <1>6. HelloSource(frame) = Sid
    <2>1. IsHello(frame, Sid)
      BY <1>5, Zenon DEF Answering
    <2> QED BY <2>1, MacType, HelloReads
  <1>7. up = want
    BY <1>4, <1>5, <1>6, Zenon
  <1>8. learnt' = <<want>>
    <2>1. learnt' = Append(learnt, up)
      BY <1>1, <1>4, <1>5, Zenon
    <2> HIDE DEF up, want
    <2>2. Append(<<>>, want) = <<want>>
      OBVIOUS
    <2> QED BY <1>5, <1>7, <2>1, <2>2, Zenon
  <1>9. learnt' = <<want'>> /\ sent' = 0 /\ phase' = "running" /\ interfaces' # <<>>
    <2>1. want' = want
      BY <1>1, Zenon
    <2> HIDE DEF want
    <2> QED BY <1>1, <1>3, <1>5, <1>8, <2>1, Zenon
  <1>10. HelloInv'
    BY <1>2, <1>9, Zenon DEF HelloInv
  <1>11. WireInv'
    BY <1>2, <1>9, <1>10, Zenon DEF WireInv
  <1> QED BY <1>0, <1>11 DEF Inv

\* Booting is over before anything is sent.
LEMMA BootStepStep ==
  ASSUME Inv, BootStep
  PROVE  Inv'
  <1>1. BootInv'
    BY BootStepInv DEF Inv, BootStep
  <1>2. phase # "running"
    BY DEF BootStep, BootNext, ListInterfaces, NextInterface, ScanAddress, OpenSockets, Scanning
  <1>3. pc' = pc /\ sent' = sent /\ learnt' = learnt
    BY DEF BootStep, wireVars
  <1>4. pc = "idle" /\ sent = 0 /\ learnt = <<>>
    BY <1>2, Zenon DEF Inv, WireInv
  <1>5. WireInv'
    BY <1>3, <1>4, Zenon DEF WireInv
  <1> QED BY <1>1, <1>5 DEF Inv

LEMMA InvInit == Init => Inv
  <1> SUFFICES ASSUME Init PROVE Inv
    OBVIOUS
  <1>1. BootInv
    BY BootInitInv DEF Init
  <1>2. pc = "idle" /\ sent = 0 /\ learnt = <<>>
    BY DEF Init
  <1>3. WireInv
    BY <1>2, Zenon DEF WireInv
  <1> QED BY <1>1, <1>3 DEF Inv

LEMMA InvStutter ==
  ASSUME Inv, UNCHANGED vars
  PROVE  Inv'
  <1>1. BootInv'
    BY BootSame DEF Inv, vars
  <1>2. /\ pc' = pc /\ sent' = sent /\ frame' = frame /\ at' = at /\ tlvs' = tlvs /\ learnt' = learnt
        /\ interfaces' = interfaces /\ phase' = phase /\ WireInv
    BY DEF Inv, vars, wireVars, bootVars, scanVars
  <1>3. What' = What /\ (Known' <=> Known) /\ Heard(learnt[1].tlvs)' = Heard(learnt[1].tlvs)
        /\ Written' = Written /\ (Fits' <=> Fits) /\ Answer' = Answer
    BY <1>2, SameWhat, SameWritten, Zenon
  <1>4. (Settled' <=> Settled) /\ (Reading' <=> Reading)
    <2>1. Settled' <=> Settled
      BY <1>2, <1>3, Zenon DEF Settled
    <2>2. Reading' <=> Reading
      BY <1>2 DEF Reading
    <2> QED BY <2>1, <2>2
  <1>5. LspInv => LspInv'
    BY <1>2, <1>3, <1>4, Zenon DEF LspInv
  <1>6. (Asking => Asking') /\ (Answering => Answering')
    BY <1>2, <1>3, Zenon DEF Asking, Answering
  <1>7. HelloInv => HelloInv'
    BY <1>2, <1>6, Zenon DEF HelloInv
  <1>8. WireInv'
    BY <1>2, <1>5, <1>7, Zenon DEF WireInv
  <1> QED BY <1>1, <1>8 DEF Inv

LEMMA InvStep ==
  ASSUME Inv, [Next]_vars
  PROVE  Inv'
  BY BootStepStep, GenerateStep, PeerHelloStep, ReceiveStep, ParseStep, RelayStep, AnswerStep,
     PeerUpStep, InvStutter, Zenon DEF Next

LEMMA InvAlways == Spec => []Inv
  BY InvInit, InvStep, PTL DEF Spec

-----------------------------------------------------------------------------
(* Theorems                                                                *)

\* SlotsMatchLinks, for main and initInterfaces on every host: a container never
\* panics, and a daemon that runs has one slot of cfg.interfaces for each IPv4
\* address, in the order of the scan, with sockets of its own on a container.
THEOREM SlotsMatchLinksAlways == Spec => []SlotsMatchLinks
  <1>1. Inv => SlotsMatchLinks
    BY DEF Inv, BootInv
  <1> QED BY <1>1, InvAlways, PTL

\* HopsAgree, for parseTLVs, serializeLsp and recvFrame, whatever the number of
\* routes, adjacencies and hops: all receivers of an LSP file the same TLVs, those
\* the first one read, and only the first can panic over them.
THEOREM HopsAgreeAlways == Spec => []HopsAgree
  <1>1. Inv => HopsAgree
    <2> SUFFICES ASSUME Inv PROVE HopsAgree
      OBVIOUS
    <2>1. WireInv
      BY DEF Inv
    <2>2. CASE sent # 0
      <3>1. LspInv
        BY <2>1, <2>2 DEF WireInv
      <3> DEFINE x == Heard(learnt[1].tlvs)
      <3>2. learnt \in Seq({x})
        BY <3>1 DEF LspInv
      <3> HIDE DEF x
      <3>3. ASSUME NEW h \in DOMAIN learnt PROVE learnt[h] = learnt[1]
        <4>1. Len(learnt) \in Nat /\ DOMAIN learnt = 1..Len(learnt) /\ \A i \in 1..Len(learnt) : learnt[i] \in {x}
          BY <3>2, LenProperties, ElementOfSeq
        <4>2. h \in 1..Len(learnt) /\ 1 \in 1..Len(learnt)
          BY <4>1
        <4> QED BY <4>1, <4>2
      <3>4. pc = "panicked" => learnt = <<>>
        BY <3>1, Zenon DEF LspInv, Known, Settled
      <3> QED BY <3>3, <3>4 DEF HopsAgree
    <2>3. CASE sent = 0
      <3>1. pc # "panicked" /\ (learnt = <<>> \/ \E x : learnt = <<x>>)
        <4>1. CASE pc = "idle"
          BY <2>1, <4>1 DEF WireInv
        <4>2. CASE pc # "idle"
          <5>1. HelloInv
            BY <2>1, <2>3, <4>2, Zenon DEF WireInv
          <5>2. pc \in {"wire", "parse", "done"}
            BY <5>1, Zenon DEF HelloInv
          <5>3. learnt = <<>> \/ \E x : learnt = <<x>>
            BY <5>1, <5>2, Zenon DEF HelloInv
          <5> QED BY <5>2, <5>3
        <4> QED BY <4>1, <4>2
      <3>2. CASE learnt = <<>>
        BY <3>1, <3>2 DEF HopsAgree
      <3>3. CASE \E x : learnt = <<x>>
        <4>1. PICK x : learnt = <<x>>
          BY <3>3
        <4>2. DOMAIN learnt = {1}
          BY <4>1
        <4> QED BY <3>1, <4>2 DEF HopsAgree
      <3> QED BY <3>1, <3>2, <3>3
    <2> QED BY <2>2, <2>3
  <1> QED BY <1>1, InvAlways, PTL

\* AnswerUnderstood, for sendHello, deserializeIsisHelloPDU and isisHelloRecv: with
\* any IDs, MACs and addresses, the answer to a hello brings the neighbor UP with
\* the ID of the daemon and the address of its interface, and nobody panics.
THEOREM AnswerUnderstoodAlways == Spec => []AnswerUnderstood
  <1>1. Inv => AnswerUnderstood
    <2> SUFFICES ASSUME Inv, sent = 0, pc # "idle"
                 PROVE  /\ pc # "panicked"
                        /\ \A h \in DOMAIN learnt :
                             learnt[h] = [state |-> "UP", neighborSystemID |-> Sid, neighborIP |-> interfaces[1].prefix]
      BY DEF AnswerUnderstood
    <2>1. HelloInv
      BY DEF Inv, WireInv
    <2>2. pc \in {"wire", "parse", "done"}
      BY <2>1, Zenon DEF HelloInv
    <2>3. CASE pc \in {"wire", "parse"}
      <3>1. learnt = <<>>
        BY <2>1, <2>3, Zenon DEF HelloInv
      <3> QED BY <2>2, <3>1
    <2>4. CASE pc = "done"
      <3> DEFINE x == [state |-> "UP", neighborSystemID |-> Sid, neighborIP |-> interfaces[1].prefix]
      <3>1. learnt = <<x>>
        BY <2>1, <2>4, Zenon DEF HelloInv
      <3> HIDE DEF x
      <3>2. \A h \in DOMAIN learnt : learnt[h] = x
        BY <3>1
      <3> QED BY <2>2, <3>2 DEF x
    <2> QED BY <2>2, <2>3, <2>4
  <1> QED BY <1>1, InvAlways, PTL

\* LspArrives, for generateLocalLsp, serializeLsp, deserializeLsp, lookupNeighbors,
\* getDirectlyConnectedPrefixes and IsisLsp.String: with any IDs, sequence numbers
\* and addresses and over any number of hops, all receivers of an LSP read exactly
\* the routes and neighbors it was made from, as long as the length bytes hold them.
THEOREM LspArrivesAlways == Spec => []LspArrives
  <1>1. Inv => LspArrives
    <2> SUFFICES ASSUME Inv, sent # 0, Fits
                 PROVE  /\ pc # "panicked"
                        /\ \A h \in DOMAIN learnt :
                             /\ learnt[h].source = Sid /\ learnt[h].seq = sent
                             /\ getDirectlyConnectedPrefixes(learnt[h].tlvs) = Routes
                             /\ lookupNeighbors(learnt[h].tlvs) =
                                  [i \in DOMAIN UpAdjs |-> [metric |-> 10, systemID |-> UpAdjs[i].neighborSystemID]]
                             /\ String(learnt[h].tlvs) =
                                  [r \in DOMAIN Routes |-> <<Routes[r].IP \o Routes[r].Mask, 10>>] \o
                                  [i \in DOMAIN UpAdjs |-> <<UpAdjs[i].neighborSystemID, 10>>]
      BY DEF LspArrives
    <2>1. LspInv /\ WireInv /\ BootInv
      BY DEF Inv, WireInv
    <2>2. pc # "panicked" /\ What = Written
      BY <2>1, Zenon DEF LspInv, Known, Settled
    <2>3. phase = "running"
      BY <2>1, Zenon DEF WireInv
    <2>4. interfaces \in Seq(Intf)
      BY <2>1, <2>3, Zenon DEF BootInv
    <2> DEFINE T == <<ReachTLV(Routes), NeighborsTLV(UpAdjs)>>
    <2>5. Written = T
      BY TLVsOf, Zenon DEF Written, Routes, UpAdjs
    <2>6. Fit(Routes, UpAdjs)
      BY <2>4, FitsIs DEF Fits, Routes, UpAdjs
    <2>7. /\ getDirectlyConnectedPrefixes(T) = Routes
          /\ lookupNeighbors(T) =
               [i \in DOMAIN UpAdjs |-> [metric |-> 10, systemID |-> UpAdjs[i].neighborSystemID]]
          /\ String(T) = [r \in DOMAIN Routes |-> <<Routes[r].IP \o Routes[r].Mask, 10>>] \o
                         [i \in DOMAIN UpAdjs |-> <<UpAdjs[i].neighborSystemID, 10>>]
      BY <2>6, TLVsRead
    <2> HIDE DEF T
    <2>8. ASSUME NEW h \in DOMAIN learnt
          PROVE  learnt[h].source = Sid /\ learnt[h].seq = sent /\ learnt[h].tlvs = T
      <3> DEFINE ts == learnt[1].tlvs
                 x == Heard(ts)
      <3>1. learnt \in Seq({x})
        BY <2>1 DEF LspInv
      <3>2. learnt # <<>>
        <4>1. DOMAIN learnt # {}
          OBVIOUS
        <4> QED BY <4>1
      <3>3. ts = T
        BY <2>2, <2>5, <3>2, Zenon DEF What
      <3> HIDE DEF ts
      <3>4. x.source = Sid /\ x.seq = sent /\ x.tlvs = ts
        BY DEF Heard
      <3> HIDE DEF x
      <3>5. learnt[h] = x
        <4>1. DOMAIN learnt = 1..Len(learnt) /\ \A i \in 1..Len(learnt) : learnt[i] \in {x}
          BY <3>1, LenProperties, ElementOfSeq
        <4> QED BY <4>1
      <3> QED BY <3>3, <3>4, <3>5, Zenon
    <2> QED BY <2>2, <2>7, <2>8, Zenon
  <1> QED BY <1>1, InvAlways, PTL
=============================================================================
