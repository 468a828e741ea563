--------------------------- MODULE ProtocolProofs ---------------------------
(***************************************************************************)
(* For every number, string and message, every width of the integer types  *)
(* and every place where a buffer may end: what src/jni/jce/Jce.h writes   *)
(* comes back from its reads, and a cut buffer gives the old value, an     *)
(* exception, or a field that is missing, never a value nobody wrote.      *)
(* With it the requests of the protocol are what the client asked for,     *)
(* whatever one recv returns of them.                                      *)
(***************************************************************************)
EXTENDS ObserverProtocol, WellFoundedInduction, TLAPS

-----------------------------------------------------------------------------
(* Induction over numbers, without an operator for what is proved: in a set of
   numbers for which something fails there is a least one. *)

\* A set of numbers that is not empty has a least one.
LEMMA NatMin ==
  ASSUME NEW S \in SUBSET Nat, S # {}
  PROVE  \E n \in S : \A m \in S : n <= m
PROOF
<1> DEFINE R == {p \in Nat \X Nat : p[1] < p[2]}
<1>1. IsWellFoundedOn(R, Nat)
  BY NatLessThanWellFounded DEF OpToRel
<1>2. PICK n \in S : \A m \in S : ~ (<<m, n>> \in R)
  <2> HIDE DEF R
  <2>1. S \subseteq Nat /\ S # {}
    OBVIOUS
  <2> QED  BY <1>1, <2>1, WFMin, Zenon
<1>3. ASSUME NEW m \in S  PROVE n <= m
  <2>1. <<m, n>> \in Nat \X Nat /\ <<m, n>>[1] = m /\ <<m, n>>[2] = n
    OBVIOUS
  <2>2. ~ (m < n)
    BY <1>2, <2>1
  <2> QED  BY <2>2
<1> QED  BY <1>3

\* f goes on from c by 256 and the numbers a.
Recurs(f, c, a) ==
  /\ f \in [Nat -> Int] /\ f[0] = c
  /\ \A n \in Nat : f[n + 1] = 256 * f[n] + a[n + 1]

\* There is such a sequence for every c and a: the function the recursive
\* definitions of Power and FromBytes choose is one.
LEMMA AffineRecursion ==
  ASSUME NEW a \in [Nat -> Int], NEW c \in Int
  PROVE  \E f : Recurs(f, c, a)
PROOF
<1> DEFINE Upto(f, n) == /\ f \in [0..n -> Int] /\ f[0] = c
                         /\ \A i \in 1..n : f[i] = 256 * f[i - 1] + a[i]
           Bad == {n \in Nat : \A f : ~Upto(f, n)}
<1>1. \A n \in Nat : \E f : Upto(f, n)
  <2> SUFFICES ASSUME Bad # {} PROVE FALSE
    <3> HIDE DEF Upto
    <3> QED  OBVIOUS
  <2>1. PICK n \in Bad : \A m \in Bad : n <= m
    <3> HIDE DEF Bad
    <3>1. Bad \in SUBSET Nat
      BY DEF Bad
    <3> QED  BY <3>1, NatMin
  <2>2. n \in Nat /\ \A f : ~Upto(f, n)
    OBVIOUS
  <2>3. n # 0
    <3> SUFFICES ASSUME n = 0 PROVE FALSE
      OBVIOUS
    <3>1. Upto([i \in 0..n |-> c], n)
      OBVIOUS
    <3> HIDE DEF Upto
    <3> QED  BY <3>1, <2>2
  <2>4. n - 1 \in Nat /\ n - 1 \notin Bad
    <3> HIDE DEF Bad
    <3> QED  BY <2>1, <2>2, <2>3
  <2>5. PICK f : Upto(f, n - 1)
    <3> HIDE DEF Upto
    <3> QED  BY <2>4
  <2> DEFINE g == [i \in 0..n |-> IF i = n THEN 256 * f[n - 1] + a[n] ELSE f[i]]
  <2>6. g \in [0..n -> Int] /\ g[0] = c
    <3>1. /\ n \in Nat /\ n # 0 /\ n - 1 \in Nat /\ n - 1 \in 0..(n - 1) /\ 0 \in 0..(n - 1) /\ 0 \in 0..n
          /\ \A i \in 0..n : i # n => i \in 0..(n - 1)
      BY <2>2, <2>3
    <3>2. f \in [0..(n - 1) -> Int] /\ f[0] = c
      BY <2>5
    <3>3. 256 * f[n - 1] + a[n] \in Int
      BY <3>1, <3>2
    <3> DEFINE last == 256 * f[n - 1] + a[n]
    <3> HIDE DEF last, Bad, Upto
    <3>4. g = [i \in 0..n |-> IF i = n THEN last ELSE f[i]]
      BY DEF last
    <3>5. last \in Int
      BY <3>3 DEF last
    <3> HIDE DEF g
    <3> QED  BY <3>1, <3>2, <3>4, <3>5
  <2>7. ASSUME NEW i \in 1..n  PROVE g[i] = 256 * g[i - 1] + a[i]
    <3>1. CASE i = n
      BY <3>1, <2>2, <2>3, <2>4
    <3>2. CASE i # n
      <4>1. i \in 1..(n - 1) /\ i \in 0..n /\ i - 1 \in 0..n /\ i - 1 # n
        BY <3>2, <2>2
      <4>2. f[i] = 256 * f[i - 1] + a[i]
        BY <4>1, <2>5
      <4> QED  BY <4>1, <4>2, <3>2
    <3> QED  BY <3>1, <3>2
  <2>8. Upto(g, n)
    <3> HIDE DEF g
    <3> QED  BY <2>6, <2>7
  <2> HIDE DEF Upto, g
  <2> QED  BY <2>2, <2>8
<1> DEFINE F == [n \in Nat |-> CHOOSE f : Upto(f, n)]
<1>2. ASSUME NEW n \in Nat
      PROVE  /\ F[n] \in [0..n -> Int] /\ F[n][0] = c
             /\ \A i \in 1..n : F[n][i] = 256 * F[n][i - 1] + a[i]
  <2> HIDE DEF Upto
  <2>1. Upto(F[n], n)
    BY <1>1
  <2> QED  BY <2>1 DEF Upto
<1> HIDE DEF F
<1>3. ASSUME NEW n \in Nat, NEW k \in Nat, k >= n
      PROVE  F[k][n] = F[n][n]
  <2> DEFINE Off == {i \in 0..n : F[k][i] # F[n][i]}
  <2> SUFFICES ASSUME Off # {} PROVE FALSE
    OBVIOUS
  <2>1. PICK i \in Off : \A m \in Off : i <= m
    <3> HIDE DEF Off
    <3>1. Off \in SUBSET Nat
      BY DEF Off
    <3> QED  BY <3>1, NatMin
  <2>2. i # 0 /\ i \in 0..n
    <3>1. F[k][0] = c /\ F[n][0] = c
      BY <1>2
    <3>2. i \in 0..n /\ F[k][i] # F[n][i]
      OBVIOUS
    <3> HIDE DEF Off
    <3> QED  BY <3>1, <3>2
  <2>3. i \in 1..n /\ i \in 1..k /\ i - 1 \in 0..n
    BY <2>2, <1>3
  <2>4. i - 1 \notin Off
    <3> HIDE DEF Off
    <3> QED  BY <2>1, <2>3
  <2>5. F[k][i - 1] = F[n][i - 1]
    BY <2>3, <2>4
  <2>6. F[k][i] = 256 * F[k][i - 1] + a[i]
    <3> HIDE DEF Off
    <3>1. \A j \in 1..k : F[k][j] = 256 * F[k][j - 1] + a[j]
      BY <1>2
    <3> QED  BY <3>1, <2>3
  <2>8. F[n][i] = 256 * F[n][i - 1] + a[i]
    <3> HIDE DEF Off
    <3>1. \A j \in 1..n : F[n][j] = 256 * F[n][j - 1] + a[j]
      BY <1>2
    <3> QED  BY <3>1, <2>3
  <2>7. F[k][i] = F[n][i]
    BY <2>5, <2>6, <2>8
  <2> QED  BY <2>7
<1> DEFINE f == [n \in Nat |-> F[n][n]]
<1>4. f \in [Nat -> Int] /\ f[0] = c
  <2>1. ASSUME NEW n \in Nat  PROVE F[n][n] \in Int
    BY <1>2
  <2> QED  BY <2>1, <1>2
<1>5. ASSUME NEW n \in Nat  PROVE f[n + 1] = 256 * f[n] + a[n + 1]
  <2>1. n + 1 \in Nat /\ n + 1 \in 1..(n + 1) /\ (n + 1) - 1 = n /\ n + 1 >= n
    OBVIOUS
  <2>2. F[n + 1][n + 1] = 256 * F[n + 1][n] + a[n + 1]
    <3>1. F[n + 1][n + 1] = 256 * F[n + 1][(n + 1) - 1] + a[n + 1]
      BY <2>1, <1>2
    <3> QED  BY <3>1, <2>1
  <2>3. F[n + 1][n] = F[n][n]
    BY <2>1, <1>3
  <2> QED  BY <2>1, <2>2, <2>3
<1> HIDE DEF f
<1> QED  BY <1>4, <1>5 DEF Recurs

\* Power is what its definition says of it.
LEMMA PowerDef ==
  /\ Power \in [Nat -> Int]
  /\ Power[0] = 1
  /\ \A w \in Nat : Power[w + 1] = 256 * Power[w]
PROOF
<1> DEFINE zeros == [m \in Nat |-> 0]
<1>1. PICK f : Recurs(f, 1, zeros)
  <2>1. zeros \in [Nat -> Int] /\ 1 \in Int
    OBVIOUS
  <2> HIDE DEF zeros
  <2> QED  BY <2>1, AffineRecursion
<1>2. f = [w \in Nat |-> IF w = 0 THEN 1 ELSE 256 * f[w - 1]]
  <2>0. f \in [Nat -> Int]
    BY <1>1 DEF Recurs
  <2>1. ASSUME NEW w \in Nat PROVE f[w] = IF w = 0 THEN 1 ELSE 256 * f[w - 1]
    <3>1. CASE w = 0
      BY <3>1, <1>1 DEF Recurs
    <3>2. CASE w # 0
      <4>1. w - 1 \in Nat /\ (w - 1) + 1 = w
        BY <3>2
      <4>2. f[w] = 256 * f[w - 1] + zeros[w]
        BY <4>1, <1>1 DEF Recurs
      <4>3. f[w - 1] \in Int /\ zeros[w] = 0
        BY <4>1, <2>0
      <4> QED  BY <4>2, <4>3, <3>2
    <3> QED  BY <3>1, <3>2
  <2> QED  BY <2>0, <2>1
<1>3. Power = [w \in Nat |-> IF w = 0 THEN 1 ELSE 256 * Power[w - 1]]
  <2> DEFINE Is(g) == g = [w \in Nat |-> IF w = 0 THEN 1 ELSE 256 * g[w - 1]]
             N == CHOOSE g : Is(g)
  <2>1. Is(f)
    BY <1>2
  <2>2. Is(N)
    <3> HIDE DEF Is
    <3> QED  BY <2>1
  <2>3. Power = N
    BY DEF Power
  <2> HIDE DEF N
  <2> QED  BY <2>2, <2>3
<1>4. \A w \in Nat : Power[w + 1] = 256 * Power[w]
  <2>1. ASSUME NEW w \in Nat  PROVE w + 1 \in Nat /\ w + 1 # 0 /\ (w + 1) - 1 = w
    OBVIOUS
  <2> QED  BY <2>1, <1>3
<1> DEFINE Off == {w \in Nat : Power[w] \notin Int}
<1>5. Off = {}
  <2> SUFFICES ASSUME Off # {} PROVE FALSE
    OBVIOUS
  <2>1. PICK w \in Off : \A m \in Off : w <= m
    <3> HIDE DEF Off
    <3>1. Off \in SUBSET Nat
      BY DEF Off
    <3> QED  BY <3>1, NatMin
  <2>2. w # 0 /\ w \in Nat
    BY <1>3
  <2>3. w - 1 \notin Off /\ w - 1 \in Nat
    <3> HIDE DEF Off
    <3> QED  BY <2>1, <2>2
  <2>4. Power[w] = 256 * Power[w - 1]
    BY <2>2, <1>3
  <2> QED  BY <2>3, <2>4, <2>2
<1>6. DOMAIN Power = Nat /\ Power[0] = 1
  BY <1>3
<1>7. Power = [w \in Nat |-> Power[w]]
  BY <1>3
<1> QED  BY <1>4, <1>5, <1>6, <1>7
-----------------------------------------------------------------------------
(* Division and powers of 256. *)

\* A product with a number grows with the other factor.
LEMMA TimesMonotone ==
  ASSUME NEW p \in Nat, NEW a \in Int, NEW b \in Int, a <= b
  PROVE  p * a <= p * b /\ p * a \in Int /\ p * b \in Int
OBVIOUS

\* What a quotient is.
LEMMA DivOf ==
  ASSUME NEW n \in Int, NEW p \in Nat, p > 0
  PROVE  n \div p \in Int /\ p * (n \div p) <= n /\ n < p * (n \div p) + p
OBVIOUS

\* Only the quotient is that.
LEMMA DivUnique ==
  ASSUME NEW n \in Int, NEW p \in Nat, p > 0, NEW q \in Int, p * q <= n, n < p * q + p
  PROVE  n \div p = q
PROOF
<1> DEFINE d == n \div p
<1>1. d \in Int /\ p * d <= n /\ n < p * d + p
  BY DivOf
<1> HIDE DEF d
<1>2. ~ (d < q)
  <2> SUFFICES ASSUME d + 1 <= q PROVE FALSE
    BY <1>1
  <2>1. p * (d + 1) <= p * q
    BY <1>1, TimesMonotone
  <2>2. p * (d + 1) = p * d + p
    BY <1>1
  <2> QED  BY <1>1, <2>1, <2>2
<1>3. ~ (q < d)
  <2> SUFFICES ASSUME q + 1 <= d PROVE FALSE
    BY <1>1
  <2>1. p * (q + 1) <= p * d
    BY <1>1, TimesMonotone
  <2>2. p * (q + 1) = p * q + p
    BY <1>1
  <2> QED  BY <1>1, <2>1, <2>2
<1>4. d = q
  BY <1>1, <1>2, <1>3
<1> QED  BY <1>4 DEF d

\* Dividing by 256 * p is dividing by p, then by 256.
LEMMA DivDiv ==
  ASSUME NEW n \in Int, NEW p \in Nat, p > 0
  PROVE  n \div (256 * p) = (n \div p) \div 256
PROOF
<1> DEFINE q == n \div p
           r == q \div 256
<1>1. q \in Int /\ p * q <= n /\ n < p * q + p
  BY DivOf
<1>2. r \in Int /\ 256 * r <= q /\ q + 1 <= 256 * r + 256
  BY <1>1, DivOf
<1> HIDE DEF q, r
<1>3. p * (256 * r) <= p * q /\ p * (q + 1) <= p * (256 * r + 256)
  BY <1>1, <1>2, TimesMonotone
<1>4. p * (q + 1) = p * q + p /\ p * (256 * r + 256) = p * (256 * r) + 256 * p
  BY <1>1, <1>2
<1>5. p * (256 * r) = (256 * p) * r
  BY <1>2
<1>6. (256 * p) * r <= n /\ n < (256 * p) * r + 256 * p
  BY <1>1, <1>2, <1>3, <1>4, <1>5
<1>7. 256 * p \in Nat /\ 256 * p > 0
  OBVIOUS
<1>8. n \div (256 * p) = r
  BY <1>2, <1>6, <1>7, DivUnique
<1> QED  BY <1>8 DEF q, r

\* A number is 256 times its quotient and its rest.
LEMMA Rest256 ==
  ASSUME NEW q \in Int
  PROVE  256 * (q \div 256) + (q % 256) = q
OBVIOUS

\* The bytes of n above p, shifted by one byte, and the byte at p.
LEMMA LastByte ==
  ASSUME NEW n \in Int, NEW p \in Nat, p > 0
  PROVE  256 * (n \div (256 * p)) + ((n \div p) % 256) = n \div p
PROOF
<1> DEFINE d == n \div p
           e == n \div (256 * p)
<1>1. d \in Int
  BY DivOf
<1>2. e = d \div 256
  BY DivDiv, SMTT(40)
<1> HIDE DEF d, e
<1>3. 256 * (d \div 256) + (d % 256) = d
  BY <1>1, Rest256
<1>4. 256 * e + (d % 256) = d
  BY <1>2, <1>3
<1> QED  BY <1>4 DEF d, e

\* The powers of 256 are positive, and each is at least 256 times the one before.
LEMMA PowerGrows ==
  ASSUME NEW v \in Nat, NEW w \in Nat, v <= w
  PROVE  /\ Power[v] \in Nat /\ Power[v] > 0
         /\ Power[v] <= Power[w]
         /\ v < w => 256 * Power[v] <= Power[w]
PROOF
<1>1. \A i \in Nat : Power[i] \in Nat /\ Power[i] > 0
  <2> DEFINE Off == {i \in Nat : ~ (Power[i] \in Nat /\ Power[i] > 0)}
  <2> SUFFICES ASSUME Off # {} PROVE FALSE
    OBVIOUS
  <2>1. PICK i \in Off : \A m \in Off : i <= m
    <3> HIDE DEF Off
    <3>1. Off \in SUBSET Nat
      BY DEF Off
    <3> QED  BY <3>1, NatMin
  <2>2. i \in Nat /\ i # 0
    BY PowerDef
  <2>3. i - 1 \in Nat /\ i - 1 \notin Off /\ (i - 1) + 1 = i
    <3> HIDE DEF Off
    <3> QED  BY <2>1, <2>2
  <2>4. Power[i] = 256 * Power[i - 1]
    BY <2>3, PowerDef
  <2> QED  BY <2>2, <2>3, <2>4
<1>2. \A d \in Nat : Power[v + d] >= Power[v] /\ (d > 0 => Power[v + d] >= 256 * Power[v])
  <2> DEFINE Off == {d \in Nat : ~ (Power[v + d] >= Power[v] /\ (d > 0 => Power[v + d] >= 256 * Power[v]))}
  <2> SUFFICES ASSUME Off # {} PROVE FALSE
    OBVIOUS
  <2>1. PICK d \in Off : \A m \in Off : d <= m
    <3> HIDE DEF Off
    <3>1. Off \in SUBSET Nat
      BY DEF Off
    <3> QED  BY <3>1, NatMin
  <2>2. d \in Nat /\ d # 0
    BY <1>1
  <2>3. d - 1 \in Nat /\ d - 1 \notin Off
    <3> HIDE DEF Off
    <3> QED  BY <2>1, <2>2
  <2>4. v + (d - 1) \in Nat /\ (v + (d - 1)) + 1 = v + d
    BY <2>2, <2>3
  <2>5. Power[v + d] = 256 * Power[v + (d - 1)]
    BY <2>4, PowerDef
  <2>6. Power[v + (d - 1)] >= Power[v] /\ Power[v + (d - 1)] \in Nat /\ Power[v] \in Nat
    BY <2>3, <2>4, <1>1
  <2> QED  BY <2>2, <2>5, <2>6
<1>3. w - v \in Nat /\ v + (w - v) = w /\ (v < w => w - v > 0)
  OBVIOUS
<1>4. Power[w] >= Power[v] /\ (w - v > 0 => Power[w] >= 256 * Power[v])
  BY <1>2, <1>3
<1> QED  BY <1>1, <1>3, <1>4

\* The numbers that FromBytes(top, rest) passes through.
Counts(number, top, rest) ==
  /\ number \in [0..Len(rest) -> Int] /\ number[0] = top
  /\ \A i \in 1..Len(rest) : number[i] = 256 * number[i - 1] + rest[i]

\* FromBytes is the last of them.
LEMMA FromBytesDef ==
  ASSUME NEW top \in Int, NEW rest \in Seq(Int)
  PROVE  \E number : Counts(number, top, rest) /\ FromBytes(top, rest) = number[Len(rest)]
PROOF
<1> DEFINE a == [i \in Nat |-> IF i \in 1..Len(rest) THEN rest[i] ELSE 0]
           L == Len(rest)
           Is(number) == number = [i \in 0..L |-> IF i = 0 THEN top ELSE 256 * number[i - 1] + rest[i]]
<1>0. L \in Nat /\ \A i \in 1..L : rest[i] \in Int
  OBVIOUS
<1>1. a \in [Nat -> Int]
  OBVIOUS
<1>2. PICK f : Recurs(f, top, a)
  <2> HIDE DEF a
  <2> QED  BY <1>1, AffineRecursion
<1> DEFINE g == [i \in 0..L |-> f[i]]
<1>3. Is(g)
  <2> HIDE DEF L
  <2>1. ASSUME NEW i \in 0..L
        PROVE  g[i] = IF i = 0 THEN top ELSE 256 * g[i - 1] + rest[i]
    <3>1. CASE i = 0
      BY <3>1, <1>2, <1>0 DEF Recurs
    <3>2. CASE i # 0
      <4>1. i - 1 \in Nat /\ (i - 1) + 1 = i /\ i - 1 \in 0..L /\ i \in 1..L
        <5>1. L \in Nat
          BY <1>0
        <5> QED  BY <3>2, <5>1
      <4>2. f[i] = 256 * f[i - 1] + a[i]
        <5>1. \A n \in Nat : f[n + 1] = 256 * f[n] + a[n + 1]
          BY <1>2 DEF Recurs
        <5> DEFINE m == i - 1
        <5>2. m \in Nat /\ m + 1 = i
          BY <4>1
        <5> HIDE DEF a, m
        <5>3. f[m + 1] = 256 * f[m] + a[m + 1]
          BY <5>1, <5>2, Zenon
        <5>4. f[i] = 256 * f[m] + a[i]
          BY <5>2, <5>3, Zenon
        <5> QED  BY <5>4 DEF m
      <4>3. a[i] = rest[i]
        BY <4>1, <1>0 DEF L
      <4> QED  BY <4>1, <4>2, <4>3, <3>2
    <3> QED  BY <3>1, <3>2
  <2> QED  BY <2>1
<1> DEFINE N == CHOOSE number : Is(number)
<1>4. Is(N)
  <2> HIDE DEF Is
  <2> QED  BY <1>3
<1>5. FromBytes(top, rest) = N[L]
  BY DEF FromBytes
<1> HIDE DEF N, L
<1>6. N[0] = top /\ \A i \in 1..L : N[i] = 256 * N[i - 1] + rest[i]
  <2>1. ASSUME NEW i \in 1..L  PROVE i \in 0..L /\ i # 0
    BY <1>0
  <2>2. 0 \in 0..L
    BY <1>0
  <2>3. N[0] = top
    BY <1>4, <2>2
  <2>4. ASSUME NEW i \in 1..L  PROVE N[i] = 256 * N[i - 1] + rest[i]
    BY <1>4, <2>1
  <2> QED  BY <2>3, <2>4
<1> HIDE DEF Is
<1>7. \A i \in 0..L : N[i] \in Int
  <2> DEFINE Off == {i \in 0..L : N[i] \notin Int}
  <2> SUFFICES ASSUME Off # {} PROVE FALSE
    OBVIOUS
  <2>1. PICK i \in Off : \A m \in Off : i <= m
    <3> HIDE DEF Off
    <3>1. Off \in SUBSET Nat
      BY <1>0 DEF Off
    <3> QED  BY <3>1, NatMin
  <2>2. i \in 1..L
    BY <1>0, <1>6
  <2>3. i - 1 \in 0..L /\ i - 1 \notin Off
    <3> HIDE DEF Off
    <3> QED  BY <2>1, <2>2, <1>0
  <2>4. N[i] = 256 * N[i - 1] + rest[i]
    BY <2>2, <1>6
  <2>5. N[i - 1] \in Int /\ rest[i] \in Int
    BY <2>2, <2>3, <1>0
  <2>6. N[i] \in Int
    <3> HIDE DEF Off
    <3> DEFINE x == N[i - 1]
               y == rest[i]
    <3> HIDE DEF x, y
    <3>1. N[i] = 256 * x + y /\ x \in Int /\ y \in Int
      BY <2>4, <2>5 DEF x, y
    <3> QED  BY <3>1
  <2> QED  BY <2>6
<1>8. DOMAIN N = 0..L /\ N = [i \in 0..L |-> N[i]]
  BY <1>4 DEF Is
<1>9. N \in [0..L -> Int]
  BY <1>7, <1>8
<1> QED  BY <1>5, <1>6, <1>9 DEF L, Counts

-----------------------------------------------------------------------------
(* Numbers as bytes, and back. *)

\* A sequence of bytes is a sequence of numbers.
LEMMA BytesAreNumbers ==
  ASSUME NEW s \in Seq(Byte)
  PROVE  s \in Seq(Int)
PROOF
<1>1. s = [i \in 1..Len(s) |-> s[i]] /\ Len(s) \in Nat
  OBVIOUS
<1>2. ASSUME NEW i \in 1..Len(s)  PROVE s[i] \in Int
  <2>1. s[i] \in Byte
    OBVIOUS
  <2>2. \A x \in Byte : x \in Int
    BY DEF Byte
  <2> QED  BY <2>1, <2>2
<1> QED  BY <1>1, <1>2

\* The v lower bytes of n behind what is above them are n, for negative n too.
LEMMA FromBytesBack ==
  ASSUME NEW n \in Int, NEW v \in Nat, NEW rest \in Seq(Int), Len(rest) = v,
         \A i \in 1..v : rest[i] = (n \div Power[v - i]) % 256
  PROVE  FromBytes(n \div Power[v], rest) = n
PROOF
<1> DEFINE top == n \div Power[v]
<1>1. v \in Nat
  OBVIOUS
<1>2. \A w \in Nat : Power[w] \in Nat /\ Power[w] > 0 /\ Power[w + 1] = 256 * Power[w]
  <2> TAKE w \in Nat
  <2>1. Power[w] \in Nat /\ Power[w] > 0
    BY PowerGrows
  <2> QED  BY <2>1, PowerDef
<1>3. top \in Int
  BY <1>1, <1>2, DivOf
<1> HIDE DEF top
<1>9. PICK number : Counts(number, top, rest) /\ FromBytes(top, rest) = number[Len(rest)]
  BY <1>3, FromBytesDef
<1>4. /\ number \in [0..v -> Int] /\ number[0] = top
      /\ \A i \in 1..v : number[i] = 256 * number[i - 1] + rest[i]
      /\ FromBytes(top, rest) = number[v]
  BY <1>9 DEF Counts
<1>5. \A i \in 0..v : number[i] = n \div Power[v - i]
  <2> DEFINE Off == {i \in 0..v : number[i] # n \div Power[v - i]}
  <2> SUFFICES ASSUME Off # {} PROVE FALSE
    OBVIOUS
  <2>1. PICK i \in Off : \A m \in Off : i <= m
    <3> HIDE DEF Off
    <3>1. Off \in SUBSET Nat
      BY <1>1 DEF Off
    <3> QED  BY <3>1, NatMin
  <2>2. i \in 0..v /\ number[i] # n \div Power[v - i]
    OBVIOUS
  <2>3. i # 0
    BY <2>2, <1>1, <1>4 DEF top
  <2>4. i \in 1..v /\ i - 1 \in 0..v /\ i - 1 \notin Off
    <3> HIDE DEF Off
    <3> QED  BY <2>1, <2>2, <2>3, <1>1
  <2>5. number[i - 1] = n \div Power[v - (i - 1)]
    BY <2>4
  <2> DEFINE p == Power[v - i]
  <2>6. v - i \in Nat /\ v - (i - 1) = (v - i) + 1
    <3>1. v \in Nat /\ i \in Int /\ i <= v
      BY <2>2, <1>1
    <3> QED  BY <3>1
  <2>7. p \in Nat /\ p > 0 /\ Power[v - (i - 1)] = 256 * p
    <3> DEFINE w == v - i
    <3>1. w \in Nat /\ v - (i - 1) = w + 1
      BY <2>6
    <3> HIDE DEF Off, w, p
    <3>2. Power[w] \in Nat /\ Power[w] > 0 /\ Power[w + 1] = 256 * Power[w]
      BY <3>1, <1>2
    <3>3. Power[v - (i - 1)] = 256 * Power[w]
      BY <3>1, <3>2, Zenon
    <3> QED  BY <3>2, <3>3 DEF w, p
  <2>8. rest[i] = (n \div p) % 256
    BY <2>4
  <2>9. number[i] = 256 * (n \div (256 * p)) + ((n \div p) % 256)
    <3> HIDE DEF Off, p
    <3>1. number[i] = 256 * number[i - 1] + rest[i]
      BY <2>4, <1>4
    <3> QED  BY <3>1, <2>5, <2>7, <2>8
  <2> HIDE DEF Off
  <2>10. number[i] = n \div p
    <3> HIDE DEF p
    <3> QED  BY <2>7, <2>9, LastByte
  <2> QED  BY <2>2, <2>10
<1>6. number[v] = n \div Power[0]
  <2>1. v \in 0..v /\ v - v = 0
    BY <1>1
  <2> QED  BY <2>1, <1>5
<1>7. n \div Power[0] = n
  BY PowerDef
<1> QED  BY <1>4, <1>6, <1>7 DEF top

\* What BigEndian writes is a byte each.
LEMMA OneByte ==
  ASSUME NEW n \in Int, NEW w \in Nat
  PROVE  (n \div Power[w]) % 256 \in Byte
PROOF
<1>1. Power[w] \in Nat /\ Power[w] > 0
  BY PowerGrows
<1>2. n \div Power[w] \in Int
  BY <1>1, DivOf
<1> QED  BY <1>2 DEF Byte

\* BigEndian writes as many bytes as it is told to.
LEMMA BigEndianBytes ==
  ASSUME NEW n \in Int, NEW w \in Nat
  PROVE  BigEndian(n, w) \in Seq(Byte) /\ Len(BigEndian(n, w)) = w
PROOF
<1>1. ASSUME NEW i \in 1..w  PROVE (n \div Power[w - i]) % 256 \in Byte
  <2>1. w - i \in Nat
    OBVIOUS
  <2> QED  BY <2>1, OneByte
<1> QED  BY <1>1 DEF BigEndian

\* A number below 256^w is read back unsigned from the w bytes it is written to.
LEMMA UnsignedBack ==
  ASSUME NEW w \in Nat, NEW n \in 0..(Power[w] - 1)
  PROVE  Unsigned(BigEndian(n, w)) = n
PROOF
<1> DEFINE enc == BigEndian(n, w)
<1>0. Power[w] \in Nat /\ Power[w] > 0 /\ n \in Int
  BY PowerGrows
<1>1. enc \in Seq(Byte) /\ Len(enc) = w
  BY BigEndianBytes, <1>0
<1>2. \A i \in 1..w : enc[i] = (n \div Power[w - i]) % 256
  BY DEF BigEndian
<1>3. n \div Power[w] = 0
  BY <1>0, DivUnique
<1> HIDE DEF enc
<1>4. enc \in Seq(Int)
  BY <1>1, BytesAreNumbers
<1>5. FromBytes(n \div Power[w], enc) = n
  BY <1>0, <1>1, <1>2, <1>4, FromBytesBack
<1> QED  BY <1>1, <1>3, <1>5 DEF Unsigned, enc

\* A number in the range of w bytes of two's complement is read back signed.
LEMMA SignedBack ==
  ASSUME NEW w \in Nat, w > 0, NEW n \in (-128 * Power[w - 1])..(128 * Power[w - 1] - 1)
  PROVE  Signed(BigEndian(n, w)) = n
PROOF
<1> DEFINE enc == BigEndian(n, w)
           p == Power[w - 1]
           q == n \div p
<1>0. w - 1 \in Nat /\ p \in Nat /\ p > 0 /\ n \in Int
  BY PowerGrows
<1>9. enc \in Seq(Byte) /\ Len(enc) = w
  BY BigEndianBytes, <1>0
<1>10. \A i \in 1..w : enc[i] = (n \div Power[w - i]) % 256
  BY DEF BigEndian
<1>1. enc \in Seq(Byte) /\ Len(enc) = w /\ \A i \in 1..w : enc[i] = (n \div Power[w - i]) % 256
  BY <1>9, <1>10
<1>2. q \in Int /\ p * q <= n /\ n < p * q + p
  BY <1>0, DivOf
<1> HIDE DEF q
<1>3. -128 <= q /\ q <= 127
  <2> HIDE DEF p
  <2>0. -128 * p <= n /\ n < 128 * p
    BY <1>0 DEF p
  <2>1. ASSUME q <= -129  PROVE FALSE
    <3>1. p * (q + 1) <= p * (-128)
      BY <1>0, <1>2, <2>1, TimesMonotone
    <3>2. p * (q + 1) = p * q + p /\ p * (-128) = -128 * p
      BY <1>0, <1>2
    <3> QED  BY <1>0, <1>2, <2>0, <3>1, <3>2
  <2>2. ASSUME q >= 128  PROVE FALSE
    <3>1. p * 128 <= p * q
      BY <1>0, <1>2, <2>2, TimesMonotone
    <3> QED  BY <1>0, <1>2, <2>0, <3>1
  <2> QED  BY <1>2, <2>1, <2>2
<1>4. Head(enc) = q % 256
  <2> HIDE DEF enc
  <2>1. Head(enc) = enc[1]
    BY <1>1
  <2>2. enc[1] = (n \div Power[w - 1]) % 256
    BY <1>1
  <2> QED  BY <2>1, <2>2 DEF q
<1>5. (IF Head(enc) < 128 THEN Head(enc) ELSE Head(enc) - 256) = q
  <2> HIDE DEF enc
  <2>1. CASE q >= 0
    <3>1. q % 256 = q
      BY <2>1, <1>2, <1>3
    <3> QED  BY <3>1, <1>2, <1>3, <1>4
  <2>2. CASE q < 0
    <3>1. q % 256 = q + 256
      BY <2>2, <1>2, <1>3
    <3> QED  BY <3>1, <2>2, <1>2, <1>3, <1>4
  <2> QED  BY <1>2, <2>1, <2>2
<1> DEFINE rest == Tail(enc)
<1>6. rest \in Seq(Int) /\ Len(rest) = w - 1 /\ \A i \in 1..(w - 1) : rest[i] = enc[i + 1]
  <2> HIDE DEF enc, p
  <2>1. Tail(enc) \in Seq(Byte) /\ Len(Tail(enc)) = w - 1
    BY <1>9
  <2>2. \A i \in 1..(w - 1) : Tail(enc)[i] = enc[i + 1]
    BY <1>9
  <2> QED  BY <2>1, <2>2, BytesAreNumbers
<1>7. ASSUME NEW i \in 1..(w - 1)  PROVE rest[i] = (n \div Power[(w - 1) - i]) % 256
  <2> HIDE DEF rest, enc
  <2>1. i + 1 \in 1..w /\ w - (i + 1) = (w - 1) - i
    BY <1>0
  <2> QED  BY <2>1, <1>1, <1>6
<1> HIDE DEF rest, enc
<1>8. FromBytes(n \div Power[w - 1], rest) = n
  <2> HIDE DEF p
  <2> QED  BY <1>0, <1>6, <1>7, FromBytesBack
<1> QED  BY <1>5, <1>8 DEF Signed, rest, q, enc

-----------------------------------------------------------------------------
(* What a reader finds at a cursor. *)

\* From c on buf has the bytes of f, as far as it goes: it may end before f does.
Begins(buf, c, f) == \A i \in 1..Len(f) : c + i <= Len(buf) => buf[c + i] = f[i]

\* Of two sequences of bytes, one behind the other.
LEMMA ConcatBytes ==
  ASSUME NEW f \in Seq(Byte), NEW g \in Seq(Byte)
  PROVE  /\ f \o g \in Seq(Byte) /\ Len(f \o g) = Len(f) + Len(g)
         /\ Len(f) \in Nat /\ Len(g) \in Nat
         /\ \A i \in 1..Len(f) : (f \o g)[i] = f[i]
         /\ \A i \in 1..Len(g) : (f \o g)[Len(f) + i] = g[i]
OBVIOUS

\* Where buf has f and then g, it has f, and g behind it.
LEMMA BeginsParts ==
  ASSUME NEW buf \in Seq(Byte), NEW c \in Nat, NEW f \in Seq(Byte), NEW g \in Seq(Byte),
         Begins(buf, c, f \o g)
  PROVE  Begins(buf, c, f) /\ Begins(buf, c + Len(f), g)
PROOF
<1>1. Len(f) \in Nat /\ Len(g) \in Nat /\ Len(buf) \in Nat /\ Len(f \o g) = Len(f) + Len(g)
  BY ConcatBytes
<1>2. ASSUME NEW i \in 1..Len(f), c + i <= Len(buf)  PROVE buf[c + i] = f[i]
  <2>1. i \in 1..Len(f \o g) /\ (f \o g)[i] = f[i]
    BY <1>1, ConcatBytes
  <2> QED  BY <2>1, <1>2 DEF Begins
<1>3. ASSUME NEW i \in 1..Len(g), (c + Len(f)) + i <= Len(buf)  PROVE buf[(c + Len(f)) + i] = g[i]
  <2>1. Len(f) + i \in 1..Len(f \o g) /\ (f \o g)[Len(f) + i] = g[i] /\ (c + Len(f)) + i = c + (Len(f) + i)
    BY <1>1, ConcatBytes
  <2> QED  BY <2>1, <1>3 DEF Begins
<1> QED  BY <1>2, <1>3 DEF Begins

\* The first n bytes of s are s as far as they go.
LEMMA BeginsPrefix ==
  ASSUME NEW s \in Seq(Byte), NEW n \in 0..Len(s)
  PROVE  /\ SubSeq(s, 1, n) \in Seq(Byte) /\ Len(SubSeq(s, 1, n)) = n
         /\ Begins(SubSeq(s, 1, n), 0, s)
BY DEF Begins

\* readBuf returns what is there.
LEMMA ReadBufWhole ==
  ASSUME NEW buf \in Seq(Byte), NEW c \in Nat, NEW f \in Seq(Byte), Begins(buf, c, f),
         c + Len(f) <= Len(buf)
  PROVE  ReadBuf(buf, c, Len(f)) = Value(f, c + Len(f))
PROOF
<1>1. SubSeq(buf, c + 1, c + Len(f)) = f
  BY DEF Begins
<1>2. ~ (c + Len(f) > Len(buf))
  OBVIOUS
<1> QED  BY <1>1, <1>2 DEF ReadBuf

\* readBuf throws where the buffer ends too early (Jce.h:206-215).
LEMMA ReadBufCut ==
  ASSUME NEW buf \in Seq(Byte), NEW c \in Nat, NEW len \in Nat, c + len > Len(buf)
  PROVE  ~Ok(ReadBuf(buf, c, len))
BY DEF ReadBuf, Throw, Ok

\* A head has one byte or two.
LEMMA HeadBytes ==
  ASSUME NEW type \in 0..15, NEW tag \in Byte
  PROVE  HeadOf(type, tag) \in Seq(Byte) /\ Len(HeadOf(type, tag)) \in {1, 2}
PROOF
<1>1. CASE tag < 15
  <2>1. type + 16 * tag \in Byte
    BY <1>1 DEF Byte
  <2> QED  BY <1>1, <2>1 DEF HeadOf
<1>2. CASE ~ (tag < 15)
  <2>1. type + 16 * 15 \in Byte
    BY DEF Byte
  <2> QED  BY <1>2, <2>1 DEF HeadOf
<1> QED  BY <1>1, <1>2

\* A whole head is read as it was written.
LEMMA HeadWhole ==
  ASSUME NEW buf \in Seq(Byte), NEW c \in Nat, NEW type \in 0..15, NEW tag \in Byte,
         Begins(buf, c, HeadOf(type, tag)), c + Len(HeadOf(type, tag)) <= Len(buf)
  PROVE  PeekHead(buf, c) = Value([type |-> type, tag |-> tag], c + Len(HeadOf(type, tag)))
PROOF
<1>0. Len(buf) \in Nat /\ tag \in Int /\ tag >= 0 /\ tag <= 255
  BY DEF Byte
<1>1. CASE tag < 15
  <2>1. HeadOf(type, tag) = <<type + 16 * tag>>
    BY <1>1 DEF HeadOf
  <2>2. Len(HeadOf(type, tag)) = 1 /\ buf[c + 1] = type + 16 * tag /\ c + 1 <= Len(buf)
    BY <2>1, <1>0 DEF Begins
  <2>3. (type + 16 * tag) % 16 = type /\ (type + 16 * tag) \div 16 = tag
    BY <1>0, <1>1
  <2>4. ~ (c + 1 > Len(buf)) /\ tag # 15
    BY <1>0, <1>1, <2>2
  <2> QED  BY <2>2, <2>3, <2>4 DEF PeekHead
<1>2. CASE ~ (tag < 15)
  <2>1. HeadOf(type, tag) = <<type + 16 * 15, tag>>
    BY <1>2 DEF HeadOf
  <2>2. Len(HeadOf(type, tag)) = 2 /\ buf[c + 1] = type + 16 * 15 /\ buf[c + 2] = tag /\ c + 2 <= Len(buf)
    BY <2>1, <1>0 DEF Begins
  <2>3. (type + 16 * 15) % 16 = type /\ (type + 16 * 15) \div 16 = 15
    OBVIOUS
  <2>4. ~ (c + 1 > Len(buf)) /\ ~ (c + 2 > Len(buf))
    BY <1>0, <2>2
  <2> QED  BY <2>2, <2>3, <2>4 DEF PeekHead
<1> QED  BY <1>1, <1>2

\* A head of which bytes are missing is not read.
LEMMA HeadCut ==
  ASSUME NEW buf \in Seq(Byte), NEW c \in Nat, NEW type \in 0..15, NEW tag \in Byte,
         Begins(buf, c, HeadOf(type, tag)), c + Len(HeadOf(type, tag)) > Len(buf)
  PROVE  ~Ok(PeekHead(buf, c))
PROOF
<1>0. Len(buf) \in Nat
  OBVIOUS
<1>1. CASE c + 1 > Len(buf)
  BY <1>1 DEF PeekHead, Throw, Ok
<1>2. CASE ~ (c + 1 > Len(buf))
  <2>1. ~ (tag < 15)
    <3> SUFFICES ASSUME tag < 15  PROVE FALSE
      OBVIOUS
    <3>1. Len(HeadOf(type, tag)) = 1
      BY DEF HeadOf
    <3> QED  BY <3>1, <1>0, <1>2
  <2>2. HeadOf(type, tag) = <<type + 16 * 15, tag>>
    BY <2>1 DEF HeadOf
  <2>3. Len(HeadOf(type, tag)) = 2 /\ buf[c + 1] = type + 16 * 15 /\ c + 2 > Len(buf)
    BY <2>2, <1>0, <1>2 DEF Begins
  <2>4. (type + 16 * 15) \div 16 = 15
    OBVIOUS
  <2> QED  BY <2>3, <2>4, <1>2 DEF PeekHead, Throw, Ok
<1> QED  BY <1>1, <1>2

\* The search for a tag ends at once at a field that has it.
LEMMA SearchFinds ==
  ASSUME NEW skip, NEW buf \in Seq(Byte), NEW c \in Nat, NEW type \in 0..15, NEW tag \in Byte,
         Begins(buf, c, HeadOf(type, tag)), c + Len(HeadOf(type, tag)) <= Len(buf),
         type # eStructEnd
  PROVE  SkipToTag(skip, buf, c, tag) = Value(TRUE, c)
PROOF
<1>1. PeekHead(buf, c) = Value([type |-> type, tag |-> tag], c + Len(HeadOf(type, tag)))
  BY HeadWhole
<1>2. ~HasEnd(buf, c)
  <2>1. Len(HeadOf(type, tag)) \in {1, 2}
    BY HeadBytes
  <2>2. Len(buf) \in Nat
    OBVIOUS
  <2> DEFINE h == Len(HeadOf(type, tag))
  <2>3. h \in {1, 2} /\ c + h <= Len(buf)
    BY <2>1
  <2> HIDE DEF h
  <2> QED  BY <2>2, <2>3 DEF HasEnd
<1>3. tag <= tag
  BY DEF Byte
<1>4. Stops(buf, c, tag)
  BY <1>1, <1>3 DEF Stops, Value
<1>5. Finds(buf, c, tag) = TRUE
  BY <1>1, <1>2 DEF Finds, Value, Ok
<1> QED  BY <1>4, <1>5 DEF SkipToTag

\* The search ends without the tag where its head is cut off.
LEMMA SearchEnds ==
  ASSUME NEW skip, NEW buf \in Seq(Byte), NEW c \in Nat, NEW type \in 0..15, NEW tag \in Byte,
         Begins(buf, c, HeadOf(type, tag)), c + Len(HeadOf(type, tag)) > Len(buf)
  PROVE  SkipToTag(skip, buf, c, tag) = Value(FALSE, c)
PROOF
<1>1. ~Ok(PeekHead(buf, c))
  BY HeadCut
<1>2. Stops(buf, c, tag)
  BY <1>1 DEF Stops
<1>3. Finds(buf, c, tag) = FALSE
  BY <1>1 DEF Finds
<1> QED  BY <1>2, <1>3 DEF SkipToTag

-----------------------------------------------------------------------------
(* The integer types. *)

\* The types an integer is written as, their values, and the length of a head.
Signeds == {"Char", "Short", "Int32", "Int64"}
ValuesOf(k) == (-HalfRange(k))..(HalfRange(k) - 1)
HeadLen(tag) == IF tag < 15 THEN 1 ELSE 2

\* The order of the integer types.
LEMMA Ranks ==
  /\ \A i \in 1..4 : Integers[i] \in Signeds /\ Rank(Integers[i]) = i
  /\ \A k \in Signeds : Rank(k) \in 1..4 /\ Integers[Rank(k)] = k
  /\ Rank("Char") = 1 /\ Rank("Short") = 2 /\ Rank("Int32") = 3 /\ Rank("Int64") = 4
PROOF
<1>1. Integers[1] = "Char" /\ Integers[2] = "Short" /\ Integers[3] = "Int32" /\ Integers[4] = "Int64"
  BY DEF Integers
<1>2. ASSUME NEW k, NEW i \in 1..4, Integers[i] = k, \A j \in 1..4 : Integers[j] = k => j = i
      PROVE  Rank(k) = i
  <2> DEFINE P(x) == x \in 1..4 /\ Integers[x] = k
  <2>1. P(CHOOSE x : P(x))
    <3>1. P(i)
      BY <1>2
    <3> QED  BY <3>1
  <2>2. Rank(k) = CHOOSE x : P(x)
    BY DEF Rank
  <2> QED  BY <1>2, <2>1, <2>2
<1>3. ASSUME NEW i \in 1..4, NEW j \in 1..4, Integers[i] = Integers[j]  PROVE i = j
  BY <1>1, <1>3
<1>4. ASSUME NEW i \in 1..4  PROVE Rank(Integers[i]) = i
  BY <1>2, <1>3
<1> QED  BY <1>1, <1>4 DEF Signeds

\* A wider type has more bytes.
LEMMA Sizes ==
  /\ \A k \in Signeds : SizeOf[k] \in Nat /\ SizeOf[k] >= 1 /\ SizeOf[k] - 1 \in Nat
  /\ \A i, j \in 1..4 : i <= j => SizeOf[Integers[i]] <= SizeOf[Integers[j]]
PROOF
<1>1. /\ SizeOf["Char"] \in Nat /\ SizeOf["Short"] \in Nat /\ SizeOf["Int32"] \in Nat /\ SizeOf["Int64"] \in Nat
  BY JceAssumption
<1>2. /\ SizeOf["Char"] = 1 /\ SizeOf["Char"] < SizeOf["Short"] /\ SizeOf["Short"] < SizeOf["Int32"]
      /\ SizeOf["Int32"] < SizeOf["Int64"]
  BY JceAssumption
<1>3. Integers[1] = "Char" /\ Integers[2] = "Short" /\ Integers[3] = "Int32" /\ Integers[4] = "Int64"
  BY DEF Integers
<1> QED  BY <1>1, <1>2, <1>3 DEF Signeds

\* A wider type has more values.
LEMMA HalfRanges ==
  ASSUME NEW i \in 1..4, NEW j \in 1..4, i <= j
  PROVE  /\ HalfRange(Integers[i]) \in Nat /\ HalfRange(Integers[i]) >= 128
         /\ HalfRange(Integers[j]) \in Nat
         /\ HalfRange(Integers[i]) <= HalfRange(Integers[j])
PROOF
<1> DEFINE v == SizeOf[Integers[i]] - 1
           w == SizeOf[Integers[j]] - 1
<1>1. v \in Nat /\ w \in Nat /\ v <= w
  BY Sizes, Ranks
<1> HIDE DEF v, w
<1>2. Power[v] \in Nat /\ Power[v] >= 1 /\ Power[w] \in Nat /\ Power[v] <= Power[w]
  BY <1>1, PowerGrows
<1>3. HalfRange(Integers[i]) = 128 * Power[v] /\ HalfRange(Integers[j]) = 128 * Power[w]
  BY DEF HalfRange, v, w
<1> QED  BY <1>2, <1>3

\* An integer is written in a type that holds it, and in no wider one than needed
\* (Jce.h:1248-1311).
LEMMA NarrowestFits ==
  ASSUME NEW k \in Signeds, NEW n \in ValuesOf(k)
  PROVE  \E i \in 1..Rank(k) : /\ Narrowest(n, k) = Integers[i]
                               /\ n \in ValuesOf(Integers[i])
                               /\ \A j \in 1..(i - 1) : ~Fits(n, Integers[j])
PROOF
<1> DEFINE Holds(i) == i = Rank(k) \/ Fits(n, Integers[i])
           S == {i \in 1..Rank(k) : Holds(i)}
           Is(i) == i \in 1..Rank(k) /\ Holds(i) /\ \A j \in 1..(i - 1) : ~Fits(n, Integers[j])
<1>1. Rank(k) \in 1..4 /\ Integers[Rank(k)] = k
  BY Ranks
<1>2. Rank(k) \in S /\ S \in SUBSET Nat
  BY <1>1
<1>3. PICK i \in S : \A m \in S : i <= m
  <2> HIDE DEF S
  <2> QED  BY <1>2, NatMin
<1>4. i \in 1..Rank(k) /\ Holds(i)
  OBVIOUS
<1>5. ASSUME NEW j \in 1..(i - 1)  PROVE ~Fits(n, Integers[j])
  <2>1. j \notin S /\ j \in 1..Rank(k)
    <3> HIDE DEF S
    <3> QED  BY <1>1, <1>3, <1>4
  <2> QED  BY <2>1
<1>6. Is(i)
  <2> HIDE DEF Holds, S
  <2> QED  BY <1>4, <1>5
<1> DEFINE c == CHOOSE x : Is(x)
<1>7. Is(c)
  <2> HIDE DEF Is
  <2> QED  BY <1>6
<1>8. Narrowest(n, k) = Integers[c]
  BY DEF Narrowest
<1> HIDE DEF c
<1>9. n \in ValuesOf(Integers[c])
  <2>1. CASE c = Rank(k)
    BY <2>1, <1>1
  <2>2. CASE c # Rank(k)
    <3>1. Fits(n, Integers[c])
      BY <2>2, <1>7
    <3>2. c \in 1..3 /\ Integers[c] # "Int64"
      BY <2>2, <1>1, <1>7 DEF Integers
    <3> QED  BY <3>1, <3>2 DEF Fits, ValuesOf
  <2> QED  BY <2>1, <2>2
<1> QED  BY <1>7, <1>8, <1>9

\* Every overload hands its value to one of the integer types.
LEMMA Carriers ==
  ASSUME NEW k, IsInteger(k)
  PROVE  Carrier(k) \in Signeds
BY DEF IsInteger, Carrier, Signeds

\* The bytes of an integer field that is not zero.
LEMMA IntegerBytes ==
  ASSUME NEW k \in Signeds, NEW n \in ValuesOf(k), n # 0, NEW tag \in Byte
  PROVE  \E i \in 1..Rank(k) :
           /\ WriteInteger(n, k, tag) = HeadOf(i - 1, tag) \o BigEndian(n, SizeOf[Integers[i]])
           /\ n \in ValuesOf(Integers[i])
           /\ \A j \in 1..(i - 1) : ~Fits(n, Integers[j])
PROOF
<1>1. PICK i \in 1..Rank(k) : /\ Narrowest(n, k) = Integers[i]
                              /\ n \in ValuesOf(Integers[i])
                              /\ \A j \in 1..(i - 1) : ~Fits(n, Integers[j])
  BY NarrowestFits
<1>2. Rank(Integers[i]) = i
  BY Ranks
<1>3. WriteInteger(n, k, tag) = HeadOf(i - 1, tag) \o BigEndian(n, SizeOf[Integers[i]])
  BY <1>1, <1>2 DEF WriteInteger
<1> QED  BY <1>1, <1>3

\* A type holds an integer if and only if it is no narrower than the one written.
LEMMA WideEnough ==
  ASSUME NEW i \in 1..4, NEW n \in ValuesOf(Integers[i]), \A j \in 1..(i - 1) : ~Fits(n, Integers[j]),
         NEW k \in Signeds
  PROVE  Fits(n, k) <=> i <= Rank(k)
PROOF
<1>1. Rank(k) \in 1..4 /\ Integers[Rank(k)] = k
  BY Ranks
<1>2. CASE i <= Rank(k)
  <2>1. /\ HalfRange(Integers[i]) \in Nat /\ HalfRange(k) \in Nat
        /\ HalfRange(Integers[i]) <= HalfRange(k)
    BY <1>1, <1>2, HalfRanges
  <2> QED  BY <1>2, <2>1 DEF ValuesOf, Fits
<1>3. CASE ~ (i <= Rank(k))
  BY <1>1, <1>3
<1> QED  BY <1>2, <1>3

\* The bytes of an integer are read behind its head, or the buffer ends in them.
LEMMA IntegerBody ==
  ASSUME NEW buf \in Seq(Byte), NEW c \in Nat, NEW i \in 1..4, NEW n \in ValuesOf(Integers[i]),
         Begins(buf, c, BigEndian(n, SizeOf[Integers[i]]))
  PROVE  LET r == ReadBuf(buf, c, SizeOf[Integers[i]])
             p == c + SizeOf[Integers[i]]
         IN  IF p > Len(buf) THEN ~Ok(r) ELSE r = Value(r.val, p) /\ Signed(r.val) = n
PROOF
<1> DEFINE w == SizeOf[Integers[i]]
           enc == BigEndian(n, w)
<1>1. w \in Nat /\ w > 0 /\ w - 1 \in Nat
  <2>1. Integers[i] \in Signeds
    BY Ranks
  <2>2. SizeOf[Integers[i]] \in Nat /\ SizeOf[Integers[i]] >= 1
    BY <2>1, Sizes
  <2> QED  BY <2>2
<1>2. n \in (-128 * Power[w - 1])..(128 * Power[w - 1] - 1) /\ n \in Int
  <2>1. HalfRange(Integers[i]) = 128 * Power[w - 1] /\ Power[w - 1] \in Nat
    BY <1>1, PowerGrows DEF HalfRange
  <2> QED  BY <2>1 DEF ValuesOf
<1> HIDE DEF w
<1>3. enc \in Seq(Byte) /\ Len(enc) = w
  BY <1>1, <1>2, BigEndianBytes
<1>4. Signed(enc) = n
  BY <1>1, <1>2, SignedBack
<1>5. CASE c + w > Len(buf)
  <2>1. ~Ok(ReadBuf(buf, c, w))
    BY <1>1, <1>5, ReadBufCut
  <2> QED  BY <2>1, <1>5 DEF w
<1>6. CASE ~ (c + w > Len(buf))
  <2>1. Begins(buf, c, enc) /\ c + Len(enc) <= Len(buf)
    BY <1>1, <1>3, <1>6 DEF w
  <2> HIDE DEF enc
  <2>2. ReadBuf(buf, c, w) = Value(enc, c + w)
    BY <1>3, <2>1, ReadBufWhole
  <2> QED  BY <2>2, <1>4, <1>6 DEF w, Value
<1> QED  BY <1>5, <1>6

-----------------------------------------------------------------------------
(* Integer fields. *)

\* The length of a head depends on its tag alone.
LEMMA HeadLength ==
  ASSUME NEW type, NEW tag \in Byte
  PROVE  Len(HeadOf(type, tag)) = HeadLen(tag) /\ HeadLen(tag) \in {1, 2}
BY DEF HeadOf, HeadLen

\* An integer of any type k, written with any tag and read as any type m, wherever
\* the buffer ends (Jce.h:639-808, 1209-1311): it comes back as what the cast to m
\* makes of it if m's carrier holds it, and is a mismatch, never another number, if
\* it does not.  Where the buffer ends in front of the field an optional field keeps
\* its old value and a required one is missing; where it ends inside, the read
\* throws.
THEOREM IntegersComeBack ==
  ASSUME NEW k, IsInteger(k), NEW n \in ValuesOf(Carrier(k)), NEW m, IsInteger(m),
         NEW tag \in Byte, NEW old, NEW isRequire \in BOOLEAN,
         NEW buf \in Seq(Byte), NEW c \in 0..Len(buf),
         Begins(buf, c, WriteInteger(n, Carrier(k), tag))
  PROVE  LET f == WriteInteger(n, Carrier(k), tag)
             r == ReadTagged(LAMBDA p, type : ReadInteger(buf, p, type, m),
                             buf, c, old, tag, isRequire)
         IN  IF c + HeadLen(tag) > Len(buf)
               THEN r = IF isRequire THEN Throw("missing", c) ELSE Value(old, c)
             ELSE IF Fits(n, Carrier(m)) /\ c + Len(f) <= Len(buf)
               THEN r = Value(CastBack(m, n), c + Len(f))
             ELSE ~Ok(r)
PROOF
<1> DEFINE kk == Carrier(k)
           f == WriteInteger(n, kk, tag)
           r == ReadTagged(LAMBDA p, type : ReadInteger(buf, p, type, m), buf, c, old, tag, isRequire)
           h == HeadLen(tag)
           at == SkipToTag(Skip(buf), buf, c, tag)
<1>0. kk \in Signeds /\ Carrier(m) \in Signeds /\ Rank(kk) \in 1..4 /\ Rank(Carrier(m)) \in 1..4
  BY Carriers, Ranks
<1>1. Len(buf) \in Nat /\ c \in Nat /\ h \in {1, 2}
  BY HeadLength
<1>2. ASSUME NEW type \in 0..15, type # eStructEnd, NEW rest \in Seq(Byte),
             f = HeadOf(type, tag) \o rest
      PROVE  /\ c + h > Len(buf) =>
                  r = IF isRequire THEN Throw("missing", c) ELSE Value(old, c)
             /\ c + h <= Len(buf) => r = ReadInteger(buf, c + h, type, m)
             /\ Begins(buf, c + h, rest) /\ Len(f) = h + Len(rest) /\ Len(rest) \in Nat
  <2>1. HeadOf(type, tag) \in Seq(Byte) /\ Len(HeadOf(type, tag)) = h
    BY HeadBytes, HeadLength
  <2>2. Begins(buf, c, HeadOf(type, tag)) /\ Begins(buf, c + h, rest)
    BY <2>1, <1>1, <1>2, BeginsParts
  <2>3. ASSUME c + h > Len(buf)
        PROVE  r = IF isRequire THEN Throw("missing", c) ELSE Value(old, c)
    <3>1. at = Value(FALSE, c)
      BY <2>1, <2>2, <2>3, <1>1, SearchEnds
    <3> HIDE DEF at
    <3> QED  BY <3>1 DEF ReadTagged, Then, Ok, Value, at
  <2>4. ASSUME c + h <= Len(buf)
        PROVE  r = ReadInteger(buf, c + h, type, m)
    <3>1. at = Value(TRUE, c)
      BY <2>1, <2>2, <2>4, <1>1, <1>2, SearchFinds
    <3>2. PeekHead(buf, c) = Value([type |-> type, tag |-> tag], c + h)
      BY <2>1, <2>2, <2>4, <1>1, HeadWhole
    <3> QED  BY <3>1, <3>2 DEF ReadTagged, Then, Ok, Value
  <2>5. Len(f) = h + Len(rest) /\ Len(rest) \in Nat
    BY <2>1, <1>2, ConcatBytes
  <2> QED  BY <2>2, <2>3, <2>4, <2>5
<1> HIDE DEF r, f, h, kk
<1> SUFFICES IF c + h > Len(buf)
               THEN r = IF isRequire THEN Throw("missing", c) ELSE Value(old, c)
             ELSE IF Fits(n, Carrier(m)) /\ c + Len(f) <= Len(buf)
               THEN r = Value(CastBack(m, n), c + Len(f))
             ELSE ~Ok(r)
  BY DEF r, f, h, kk
<1>3. CASE n = 0
  <2>1. f = HeadOf(eZeroTag, tag) \o <<>> /\ <<>> \in Seq(Byte) /\ eZeroTag \in 0..15 /\ eZeroTag # eStructEnd
    <3>1. f = HeadOf(eZeroTag, tag) /\ HeadOf(eZeroTag, tag) \in Seq(Byte)
      BY <1>3, HeadBytes DEF f, WriteInteger, eZeroTag
    <3> QED  BY <3>1 DEF eZeroTag, eStructEnd
  <2>2. /\ c + h > Len(buf) =>
                  r = IF isRequire THEN Throw("missing", c) ELSE Value(old, c)
        /\ c + h <= Len(buf) => r = ReadInteger(buf, c + h, eZeroTag, m)
        /\ Len(f) = h + 0
    <3>1. Len(<<>>) = 0
      OBVIOUS
    <3> QED  BY <2>1, <1>2, <3>1, Zenon
  <2>3. ReadInteger(buf, c + h, eZeroTag, m) = Value(0, c + h)
    BY DEF ReadInteger
  <2>4. CastBack(m, 0) = 0
    <3>1. Power[SizeOf["Short"]] \in Nat /\ Power[SizeOf["Short"]] > 0
          /\ Power[SizeOf["Int32"]] \in Nat /\ Power[SizeOf["Int32"]] > 0
      <4>1. "Short" \in Signeds /\ "Int32" \in Signeds
        BY DEF Signeds
      <4>2. SizeOf["Short"] \in Nat /\ SizeOf["Int32"] \in Nat
        BY <4>1, Sizes
      <4>3. SizeOf["Short"] <= SizeOf["Short"] /\ SizeOf["Int32"] <= SizeOf["Int32"]
        BY <4>2
      <4> QED  BY <4>2, <4>3, PowerGrows
    <3>2. 0 % Power[SizeOf["Short"]] = 0 /\ 0 % Power[SizeOf["Int32"]] = 0 /\ 0 % 256 = 0
      BY <3>1
    <3> QED  BY <3>2 DEF CastBack
  <2>5. Fits(n, Carrier(m))
    <3>1. HalfRange(Carrier(m)) \in Nat /\ HalfRange(Carrier(m)) >= 128
      BY <1>0, Ranks, HalfRanges
    <3> QED  BY <1>3, <3>1 DEF Fits
  <2> QED  BY <1>1, <1>3, <2>2, <2>3, <2>4, <2>5
<1>4. CASE n # 0
  <2>1. PICK i \in 1..Rank(kk) :
           /\ f = HeadOf(i - 1, tag) \o BigEndian(n, SizeOf[Integers[i]])
           /\ n \in ValuesOf(Integers[i])
           /\ \A j \in 1..(i - 1) : ~Fits(n, Integers[j])
    BY <1>0, <1>4, IntegerBytes DEF f, kk
  <2> DEFINE w == SizeOf[Integers[i]]
             rest == BigEndian(n, w)
  <2>2. i \in 1..4 /\ i - 1 \in 0..3 /\ i - 1 \in 0..15 /\ i - 1 # eStructEnd /\ i - 1 # eZeroTag
    BY <1>0, <2>1 DEF eStructEnd, eZeroTag
  <2>3. n \in Int /\ w \in Nat
    <3>1. HalfRange(Integers[i]) \in Nat
      BY <2>2, HalfRanges
    <3>2. SizeOf[Integers[i]] \in Nat
      BY <2>2, Ranks, Sizes
    <3> QED  BY <2>1, <3>1, <3>2 DEF ValuesOf
  <2>4. rest \in Seq(Byte) /\ Len(rest) = w
    BY <2>3, BigEndianBytes
  <2> HIDE DEF rest
  <2>5. /\ c + h > Len(buf) =>
                  r = IF isRequire THEN Throw("missing", c) ELSE Value(old, c)
        /\ c + h <= Len(buf) => r = ReadInteger(buf, c + h, i - 1, m)
        /\ Begins(buf, c + h, rest) /\ Len(f) = h + w
    <3>1. f = HeadOf(i - 1, tag) \o rest
      BY <2>1 DEF rest
    <3> QED  BY <2>2, <2>4, <3>1, <1>2
  <2>6. Fits(n, Carrier(m)) <=> i <= Rank(Carrier(m))
    BY <1>0, <2>1, <2>2, WideEnough
  <2> DEFINE b == ReadBuf(buf, c + h, w)
  <2>7. IF (c + h) + w > Len(buf) THEN ~Ok(b) ELSE b = Value(b.val, (c + h) + w) /\ Signed(b.val) = n
    <3>1. c + h \in Nat
      BY <1>1
    <3> QED  BY <3>1, <2>1, <2>2, <2>5, IntegerBody DEF rest
  <2>8. ReadInteger(buf, c + h, i - 1, m) =
          IF i - 1 >= Rank(Carrier(m)) THEN Throw("mismatch", c + h)
          ELSE IF Ok(b) THEN Value(CastBack(m, Signed(b.val)), b.cur) ELSE b
    <3>1. (i - 1) + 1 = i
      BY <2>2
    <3> QED  BY <2>2, <3>1 DEF ReadInteger, Then
  <2> HIDE DEF b, w
  <2>9. CASE c + h > Len(buf)
    BY <2>5, <2>9
  <2>10. CASE c + h <= Len(buf) /\ ~ (i <= Rank(Carrier(m)))
    <3>1. i - 1 >= Rank(Carrier(m))
      BY <1>0, <2>2, <2>10
    <3>2. ~Ok(Throw("mismatch", c + h))
      BY DEF Ok, Throw
    <3> QED  BY <1>1, <2>5, <2>6, <2>8, <2>10, <3>1, <3>2
  <2>11. CASE c + h <= Len(buf) /\ i <= Rank(Carrier(m))
    <3>1. ~ (i - 1 >= Rank(Carrier(m)))
      BY <1>0, <2>2, <2>11
    <3>2. r = IF Ok(b) THEN Value(CastBack(m, Signed(b.val)), b.cur) ELSE b
      BY <2>5, <2>8, <2>11, <3>1
    <3>3. CASE (c + h) + w > Len(buf)
      BY <1>1, <2>3, <2>5, <2>7, <2>11, <3>2, <3>3
    <3>4. CASE ~ ((c + h) + w > Len(buf))
      <4>1. Ok(b) /\ b.cur = c + Len(f) /\ Signed(b.val) = n
        <5>1. Ok(b) /\ b.cur = (c + h) + w
          BY <2>7, <3>4 DEF Ok, Value
        <5> QED  BY <5>1, <2>7, <3>4, <2>5, <1>1, <2>3
      <4>2. r = Value(CastBack(m, n), c + Len(f))
        BY <3>2, <4>1
      <4> QED  BY <4>2, <1>1, <2>3, <2>5, <2>6, <2>11, <3>4
    <3> QED  BY <3>3, <3>4
  <2> QED  BY <1>0, <1>1, <2>2, <2>9, <2>10, <2>11
<1> QED  BY <1>3, <1>4

-----------------------------------------------------------------------------
(* Strings. *)

\* A field starts at c, as far as buf goes: a head, and rest behind it at p.
FieldAt(buf, c, type, tag, rest, p) ==
  /\ type \in 0..15 /\ type # eStructEnd /\ tag \in Byte /\ rest \in Seq(Byte)
  /\ Begins(buf, c, HeadOf(type, tag) \o rest) /\ p = c + HeadLen(tag)

\* What the search for its tag says of it, and where it leads.
Found(buf, c, type, tag, rest, p) ==
  /\ p > Len(buf) => SkipToTag(Skip(buf), buf, c, tag) = Value(FALSE, c)
  /\ p <= Len(buf) => /\ SkipToTag(Skip(buf), buf, c, tag) = Value(TRUE, c)
                      /\ PeekHead(buf, c) = Value([type |-> type, tag |-> tag], p)
  /\ p \in Nat /\ Begins(buf, p, rest)
  /\ Len(HeadOf(type, tag) \o rest) = HeadLen(tag) + Len(rest)

\* A field is found by its tag, unless its head is cut off.
LEMMA FieldHead ==
  ASSUME NEW buf \in Seq(Byte), NEW c \in Nat, NEW type, NEW tag, NEW rest, NEW p,
         FieldAt(buf, c, type, tag, rest, p)
  PROVE  Found(buf, c, type, tag, rest, p)
PROOF
<1>7. /\ type \in 0..15 /\ type # eStructEnd /\ tag \in Byte /\ rest \in Seq(Byte)
      /\ Begins(buf, c, HeadOf(type, tag) \o rest) /\ p = c + HeadLen(tag)
  BY DEF FieldAt
<1> DEFINE g == HeadOf(type, tag)
<1>1. g \in Seq(Byte) /\ Len(g) = HeadLen(tag) /\ HeadLen(tag) \in {1, 2}
  BY <1>7, HeadBytes, HeadLength
<1>2. Begins(buf, c, g) /\ Begins(buf, c + Len(g), rest)
  <2> HIDE DEF g
  <2>1. Begins(buf, c, g \o rest)
    BY <1>7 DEF g
  <2> QED  BY <1>1, <1>7, <2>1, BeginsParts
<1>3. Len(g \o rest) = Len(g) + Len(rest)
  <2> HIDE DEF g
  <2> QED  BY <1>1, <1>7, ConcatBytes
<1>4. ASSUME c + Len(g) > Len(buf)  PROVE SkipToTag(Skip(buf), buf, c, tag) = Value(FALSE, c)
  BY <1>2, <1>4, <1>7, SearchEnds
<1>5. ASSUME c + Len(g) <= Len(buf)
      PROVE  /\ SkipToTag(Skip(buf), buf, c, tag) = Value(TRUE, c)
             /\ PeekHead(buf, c) = Value([type |-> type, tag |-> tag], c + Len(g))
  BY <1>2, <1>5, <1>7, SearchFinds, HeadWhole
<1>6. c + HeadLen(tag) \in Nat
  BY <1>1
<1> HIDE DEF g
<1> QED
  <2>1. Len(g) = HeadLen(tag) /\ p = c + Len(g)
    BY <1>1, <1>7
  <2>2. p > Len(buf) => SkipToTag(Skip(buf), buf, c, tag) = Value(FALSE, c)
    BY <1>4, <2>1
  <2>3. p <= Len(buf) => /\ SkipToTag(Skip(buf), buf, c, tag) = Value(TRUE, c)
                         /\ PeekHead(buf, c) = Value([type |-> type, tag |-> tag], p)
    BY <1>5, <2>1
  <2>4. p \in Nat /\ Begins(buf, p, rest)
    BY <1>2, <1>6, <1>7, <2>1
  <2>5. Len(HeadOf(type, tag) \o rest) = HeadLen(tag) + Len(rest)
    BY <1>3, <2>1 DEF g
  <2> QED  BY <2>2, <2>3, <2>4, <2>5 DEF Found

\* Two parts read one after the other.
LEMMA TwoParts ==
  ASSUME NEW buf \in Seq(Byte), NEW c \in Nat, NEW g \in Seq(Byte), NEW s \in Seq(Byte),
         Begins(buf, c, g \o s)
  PROVE  LET p == c + Len(g)
             q == p + Len(s)
         IN  /\ IF p > Len(buf) THEN ~Ok(ReadBuf(buf, c, Len(g)))
                ELSE ReadBuf(buf, c, Len(g)) = Value(g, p)
             /\ IF q > Len(buf) THEN ~Ok(ReadBuf(buf, p, Len(s)))
                ELSE ReadBuf(buf, p, Len(s)) = Value(s, q) /\ p <= Len(buf)
             /\ Len(g \o s) = Len(g) + Len(s)
             /\ p \in Nat /\ q \in Nat /\ Len(s) \in Nat /\ Len(g) \in Nat
PROOF
<1>1. Len(g) \in Nat /\ Len(s) \in Nat /\ Len(buf) \in Nat /\ Len(g \o s) = Len(g) + Len(s)
  BY ConcatBytes
<1>2. Begins(buf, c, g) /\ Begins(buf, c + Len(g), s) /\ c + Len(g) \in Nat
  BY <1>1, BeginsParts
<1>3. CASE c + Len(g) > Len(buf)
  BY <1>1, <1>2, <1>3, ReadBufCut
<1>4. CASE c + Len(g) <= Len(buf)
  <2>1. ReadBuf(buf, c, Len(g)) = Value(g, c + Len(g))
    BY <1>2, <1>4, ReadBufWhole
  <2>2. CASE (c + Len(g)) + Len(s) > Len(buf)
    BY <1>1, <1>2, <1>4, <2>1, <2>2, ReadBufCut
  <2>3. CASE (c + Len(g)) + Len(s) <= Len(buf)
    BY <1>1, <1>2, <1>4, <2>1, <2>3, ReadBufWhole
  <2> QED  BY <1>1, <2>2, <2>3
<1>5. (c + Len(g) > Len(buf)) => (c + Len(g)) + Len(s) > Len(buf) /\ ~Ok(ReadBuf(buf, c + Len(g), Len(s)))
  BY <1>1, <1>2, ReadBufCut
<1> QED  BY <1>1, <1>2, <1>3, <1>4, <1>5

\* A string's length has room for any size that a vector can have.
LEMMA LengthSize ==
  /\ SizeOf["Length"] \in Nat /\ SizeOf["Length"] >= 1
  /\ Power[SizeOf["Int32"]] \in Nat /\ Power[SizeOf["Length"]] \in Nat
  /\ Power[SizeOf["Int32"]] <= Power[SizeOf["Length"]]
PROOF
<1>1. SizeOf["Int32"] \in Nat /\ SizeOf["Int32"] >= 1
  BY Sizes DEF Signeds
<1>2. SizeOf["Length"] \in Nat /\ SizeOf["Int32"] <= SizeOf["Length"]
  BY JceAssumption
<1>3. SizeOf["Length"] >= 1
  BY <1>1, <1>2
<1>4. Power[SizeOf["Int32"]] \in Nat /\ Power[SizeOf["Int32"]] <= Power[SizeOf["Length"]]
  BY <1>1, <1>2, PowerGrows
<1>5. Power[SizeOf["Length"]] \in Nat
  <2>1. SizeOf["Length"] <= SizeOf["Length"]
    BY <1>2
  <2> QED  BY <1>2, <2>1, PowerGrows
<1> QED  BY <1>2, <1>3, <1>4, <1>5

\* A string is a head, its length in one byte or in four, and its bytes.
LEMMA StringBytes ==
  ASSUME NEW s \in Seq(Byte), Len(s) <= JCE_MAX_STRING_LENGTH, Len(s) < Power[SizeOf["Length"]],
         NEW tag \in Byte
  PROVE  \E type \in {eString1, eString4}, g \in Seq(Byte) :
           /\ WriteString(s, tag) = HeadOf(type, tag) \o (g \o s)
           /\ IF type = eString1 THEN Len(g) = 1 /\ g[1] = Len(s)
              ELSE Len(g) = SizeOf["Length"] /\ Unsigned(g) = Len(s)
PROOF
<1>0. eString1 # eString4 /\ SizeOf["Length"] \in Nat /\ Len(s) \in Nat /\ kString1Max \in 1..255
      /\ Power[SizeOf["Length"]] \in Nat
  <2> QED  BY LengthSize, JceAssumption DEF eString1, eString4
<1>1. CASE Len(s) > kString1Max
  <2> DEFINE g == BigEndian(Len(s), SizeOf["Length"])
             head == HeadOf(eString4, tag)
  <2>1. g \in Seq(Byte) /\ Len(g) = SizeOf["Length"]
    BY <1>0, BigEndianBytes
  <2>2. Unsigned(g) = Len(s)
    BY <1>0, UnsignedBack
  <2>3. head \in Seq(Byte)
    BY HeadBytes DEF eString4
  <2>4. WriteString(s, tag) = head \o g \o s
    BY <1>1 DEF WriteString
  <2> HIDE DEF g, head
  <2>5. head \o g \o s = head \o (g \o s)
    BY <2>1, <2>3
  <2> QED  BY <1>0, <2>1, <2>2, <2>4, <2>5 DEF head
<1>2. CASE ~ (Len(s) > kString1Max)
  <2> DEFINE g == <<Len(s)>>
             head == HeadOf(eString1, tag)
  <2>9. Len(s) \in Byte
    <3> DEFINE l == Len(s)
    <3>1. l \in 0..255
      <4> HIDE DEF l
      <4>1. l \in Nat /\ l <= kString1Max
        BY <1>0, <1>2 DEF l
      <4> QED  BY <4>1, <1>0
    <3> QED  BY <3>1 DEF Byte
  <2>1. g \in Seq(Byte) /\ Len(g) = 1 /\ g[1] = Len(s)
    BY <2>9
  <2>3. head \in Seq(Byte)
    BY HeadBytes DEF eString1
  <2>4. WriteString(s, tag) = head \o g \o s
    BY <1>2 DEF WriteString
  <2> HIDE DEF g, head
  <2>5. head \o g \o s = head \o (g \o s)
    BY <2>1, <2>3
  <2> QED  BY <1>0, <2>1, <2>4, <2>5 DEF head
<1> QED  BY <1>1, <1>2

\* A string that a write does not refuse, of any length and with any tag, wherever
\* the buffer ends (Jce.h:876-929, 1331-1353): it comes back whole, or the read keeps
\* the old value or reports it missing in front of the field and throws inside.
THEOREM StringsComeBack ==
  ASSUME NEW s \in Seq(Byte), Len(s) <= JCE_MAX_STRING_LENGTH, Len(s) < Power[SizeOf["Length"]],
         NEW tag \in Byte, NEW old, NEW isRequire \in BOOLEAN,
         NEW buf \in Seq(Byte), NEW c \in 0..Len(buf), Begins(buf, c, WriteString(s, tag))
  PROVE  LET f == WriteString(s, tag)
             r == ReadTagged(LAMBDA p, type : ReadString(buf, p, type), buf, c, old, tag, isRequire)
         IN  IF c + HeadLen(tag) > Len(buf)
               THEN r = IF isRequire THEN Throw("missing", c) ELSE Value(old, c)
             ELSE IF c + Len(f) <= Len(buf) THEN r = Value(s, c + Len(f))
             ELSE ~Ok(r)
PROOF
<1> DEFINE f == WriteString(s, tag)
           r == ReadTagged(LAMBDA p, type : ReadString(buf, p, type), buf, c, old, tag, isRequire)
           p == c + HeadLen(tag)
<1>0. Len(buf) \in Nat /\ c \in Nat /\ Len(s) \in Nat
  OBVIOUS
<1>1. PICK type \in {eString1, eString4}, g \in Seq(Byte) :
        /\ f = HeadOf(type, tag) \o (g \o s)
        /\ IF type = eString1 THEN Len(g) = 1 /\ g[1] = Len(s)
           ELSE Len(g) = SizeOf["Length"] /\ Unsigned(g) = Len(s)
  BY StringBytes
<1>2. type \in 0..15 /\ type # eStructEnd /\ g \o s \in Seq(Byte)
  BY DEF eString1, eString4, eStructEnd
<1> DEFINE rest == g \o s
<1>9. Len(rest) = Len(g) + Len(s) /\ rest \in Seq(Byte)
  BY ConcatBytes
<1>3. FieldAt(buf, c, type, tag, rest, p)
  <2>1. f = HeadOf(type, tag) \o rest /\ tag \in Byte /\ Begins(buf, c, f)
    BY <1>1
  <2> HIDE DEF f, rest
  <2>2. Begins(buf, c, HeadOf(type, tag) \o rest)
    BY <2>1
  <2> QED  BY <1>2, <1>9, <2>1, <2>2 DEF FieldAt
<1> HIDE DEF rest, p
<1>4. Found(buf, c, type, tag, rest, p)
  BY <1>0, <1>3, FieldHead
<1>5. /\ p > Len(buf) => r = IF isRequire THEN Throw("missing", c) ELSE Value(old, c)
      /\ p <= Len(buf) => r = ReadString(buf, p, type)
  BY <1>4 DEF ReadTagged, Then, Ok, Value, Found
<1>6. Len(f) = HeadLen(tag) + (Len(g) + Len(s)) /\ HeadLen(tag) \in {1, 2} /\ p \in Nat
      /\ p = c + HeadLen(tag)
  BY <1>1, <1>4, <1>9, HeadLength DEF rest, Found, p
<1> DEFINE q == p + Len(g)
           b == ReadBuf(buf, p, Len(g))
           t == ReadBuf(buf, q, Len(s))
<1>7. /\ IF q > Len(buf) THEN ~Ok(b) ELSE b = Value(g, q)
      /\ IF q + Len(s) > Len(buf) THEN ~Ok(t) ELSE t = Value(s, q + Len(s)) /\ q <= Len(buf)
      /\ q \in Nat /\ Len(g) \in Nat
  <2>1. Begins(buf, p, g \o s) /\ p \in Nat
    BY <1>4 DEF rest, Found
  <2> QED  BY <2>1, TwoParts
<1>8. ReadString(buf, p, type) = IF Ok(b) THEN (IF b.val = g /\ b.cur = q THEN t ELSE ReadString(buf, p, type)) ELSE b
  <2> HIDE DEF q
  <2>1. CASE type = eString1
    <3>1. Len(g) = 1 /\ g[1] = Len(s)
      BY <1>1, <2>1
    <3>2. ReadString(buf, p, type) =
            IF Ok(ReadBuf(buf, p, 1))
              THEN ReadBuf(buf, ReadBuf(buf, p, 1).cur, ReadBuf(buf, p, 1).val[1])
              ELSE ReadBuf(buf, p, 1)
      BY <2>1 DEF ReadString, Then, eString1, eString4
    <3> QED  BY <3>1, <3>2
  <2>2. CASE type = eString4
    <3>1. type # eString1 /\ ~ (Len(s) > JCE_MAX_STRING_LENGTH)
      BY <1>0, <2>2, JceAssumption DEF eString1, eString4
    <3>2. ReadString(buf, p, type) =
            LET l == ReadBuf(buf, p, SizeOf["Length"])
            IN  IF Ok(l)
                  THEN IF Unsigned(l.val) > JCE_MAX_STRING_LENGTH THEN Throw("invalid", l.cur)
                       ELSE ReadBuf(buf, l.cur, Unsigned(l.val))
                  ELSE l
      BY <2>2, <3>1 DEF ReadString, Then, eString1, eString4
    <3> QED  BY <1>1, <3>1, <3>2
  <2> QED  BY <2>1, <2>2
<1>10. c + Len(f) = q + Len(s) /\ p \in Nat
  <2> DEFINE h == HeadLen(tag)
             n == Len(f)
             lg == Len(g)
             ls == Len(s)
  <2>1. n = h + (lg + ls) /\ h \in {1, 2} /\ p \in Nat /\ p = c + h /\ lg \in Nat /\ ls \in Nat
    BY <1>0, <1>6, <1>7
  <2> HIDE DEF h, n, lg, ls
  <2>2. c + n = (p + lg) + ls
    BY <2>1, <1>0
  <2> QED  BY <2>1, <2>2 DEF n, lg, ls
<1> HIDE DEF r, f, p, q, b, t
<1>11. CASE p > Len(buf)
  BY <1>5, <1>11 DEF p, r
<1>12. CASE p <= Len(buf) /\ q > Len(buf)
  <2>1. ~Ok(r)
    BY <1>5, <1>7, <1>8, <1>12
  <2>2. ~ (c + Len(f) <= Len(buf))
    BY <1>0, <1>7, <1>10, <1>12
  <2>3. ~ (p > Len(buf))
    BY <1>0, <1>10, <1>12
  <2> QED  BY <2>1, <2>2, <2>3 DEF p, r, f
<1>13. CASE p <= Len(buf) /\ q <= Len(buf)
  <2>1. Ok(b) /\ b.val = g /\ b.cur = q
    BY <1>0, <1>7, <1>13 DEF Ok, Value
  <2>2. r = t
    BY <1>5, <1>8, <1>13, <2>1
  <2>3. IF c + Len(f) <= Len(buf) THEN r = Value(s, c + Len(f)) ELSE ~Ok(r)
    BY <1>0, <1>7, <1>10, <2>2
  <2>4. ~ (p > Len(buf))
    BY <1>0, <1>10, <1>13
  <2> QED  BY <2>3, <2>4 DEF p, r, f
<1> QED
  <2>1. p > Len(buf) \/ (p <= Len(buf) /\ q > Len(buf)) \/ (p <= Len(buf) /\ q <= Len(buf))
    BY <1>0, <1>10, <1>7
  <2> QED  BY <2>1, <1>11, <1>12, <1>13

-----------------------------------------------------------------------------
(* Sizes and byte vectors. *)

\* A head is not empty.
LEMMA HeadIsThere ==
  ASSUME NEW type, NEW tag
  PROVE  Len(HeadOf(type, tag)) >= 1
BY DEF HeadOf

\* An integer field is a sequence of bytes, and not an empty one.
LEMMA IntegerSeq ==
  ASSUME NEW k \in Signeds, NEW n \in ValuesOf(k), NEW tag \in Byte
  PROVE  WriteInteger(n, k, tag) \in Seq(Byte) /\ Len(WriteInteger(n, k, tag)) >= 1
PROOF
<1>1. CASE n = 0
  <2>1. HeadOf(eZeroTag, tag) \in Seq(Byte) /\ Len(HeadOf(eZeroTag, tag)) >= 1
    <3>1. eZeroTag \in 0..15
      BY DEF eZeroTag
    <3> QED  BY <3>1, HeadBytes, HeadIsThere
  <2> QED  BY <1>1, <2>1 DEF WriteInteger
<1>2. CASE n # 0
  <2>1. PICK i \in 1..Rank(k) :
           /\ WriteInteger(n, k, tag) = HeadOf(i - 1, tag) \o BigEndian(n, SizeOf[Integers[i]])
           /\ n \in ValuesOf(Integers[i])
    BY <1>2, IntegerBytes
  <2>2. i \in 1..4 /\ i - 1 \in 0..15
    BY Ranks
  <2>3. SizeOf[Integers[i]] \in Nat /\ n \in Int
    <3>1. HalfRange(k) \in Nat
      BY Ranks, HalfRanges
    <3> QED  BY <3>1, <2>2, Ranks, Sizes DEF ValuesOf
  <2>4. BigEndian(n, SizeOf[Integers[i]]) \in Seq(Byte)
    BY <2>3, BigEndianBytes
  <2>5. HeadOf(i - 1, tag) \in Seq(Byte) /\ Len(HeadOf(i - 1, tag)) >= 1
    BY <2>2, HeadBytes, HeadIsThere
  <2> DEFINE f == HeadOf(i - 1, tag)
             g == BigEndian(n, SizeOf[Integers[i]])
  <2> HIDE DEF f, g
  <2>7. f \in Seq(Byte) /\ g \in Seq(Byte) /\ Len(f) >= 1
    BY <2>4, <2>5 DEF f, g
  <2>6. f \o g \in Seq(Byte) /\ Len(f \o g) >= 1
    <3>1. f \o g \in Seq(Byte) /\ Len(f \o g) = Len(f) + Len(g) /\ Len(f) \in Nat /\ Len(g) \in Nat
      BY <2>7, ConcatBytes
    <3> QED  BY <2>7, <3>1
  <2> QED  BY <2>1, <2>6 DEF f, g
<1> QED  BY <1>1, <1>2

\* The size in front of a container's elements is read as it was written.
LEMMA SizeBack ==
  ASSUME NEW buf \in Seq(Byte), NEW c \in Nat, NEW n \in 0..(HalfRange("Int32") - 1),
         Begins(buf, c, WriteInteger(n, "Int32", 0)),
         NEW q, q = c + Len(WriteInteger(n, "Int32", 0))
  PROVE  IF q > Len(buf) THEN ~Ok(ReadSize(Skip(buf), buf, c, "Int64"))
         ELSE ReadSize(Skip(buf), buf, c, "Int64") = Value(n, q)
PROOF
<1> DEFINE f == WriteInteger(n, "Int32", 0)
           r == ReadSize(Skip(buf), buf, c, "Int64")
           p == c + HeadLen(0)
<1>0. Len(buf) \in Nat /\ 0 \in Byte /\ "Int32" \in Signeds /\ Rank("Int64") = 4 /\ Rank("Int32") = 3
      /\ Rank("Int32") \in 1..4 /\ HeadLen(0) = 1 /\ HalfRange("Int32") \in Nat /\ n \in ValuesOf("Int32")
  <2>1. "Int32" \in Signeds
    BY DEF Signeds
  <2>2. HalfRange("Int32") \in Nat
    BY <2>1, Ranks, HalfRanges
  <2>3. n \in ValuesOf("Int32")
    BY <2>2 DEF ValuesOf
  <2> QED  BY <2>1, <2>2, <2>3, Ranks DEF HeadLen, Byte
<1>1. ASSUME NEW type \in 0..15, type # eStructEnd, NEW rest \in Seq(Byte), f = HeadOf(type, 0) \o rest
      PROVE  /\ p > Len(buf) => ~Ok(r)
             /\ p <= Len(buf) => r = (IF type = eZeroTag THEN Value(0, p)
                                      ELSE IF type >= 4 THEN Throw("mismatch", p)
                                      ELSE LET b == ReadBuf(buf, p, SizeOf[Integers[type + 1]])
                                           IN  IF Ok(b) THEN Value(Signed(b.val), b.cur) ELSE b)
             /\ p \in Nat /\ Begins(buf, p, rest) /\ Len(f) = 1 + Len(rest)
  <2>1. FieldAt(buf, c, type, 0, rest, p)
    <3>1. Begins(buf, c, f)
      OBVIOUS
    <3> HIDE DEF f
    <3>2. Begins(buf, c, HeadOf(type, 0) \o rest)
      BY <1>1, <3>1
    <3> QED  BY <1>0, <1>1, <3>2 DEF FieldAt
  <2> HIDE DEF p
  <2>2. Found(buf, c, type, 0, rest, p)
    BY <2>1, FieldHead
  <2>3. ASSUME p > Len(buf)  PROVE ~Ok(r)
    <3>1. SkipToTag(Skip(buf), buf, c, 0) = Value(FALSE, c)
      BY <2>2, <2>3 DEF Found
    <3> DEFINE at == SkipToTag(Skip(buf), buf, c, 0)
    <3>4. Ok(at) /\ at.val = FALSE /\ at.cur = c
      BY <3>1 DEF Ok, Value
    <3>2. r = Throw("missing", c)
      BY <3>4 DEF ReadSize, Then
    <3>3. ~Ok(Throw("missing", c))
      BY DEF Throw, Ok
    <3> QED  BY <3>2, <3>3
  <2>4. ASSUME p <= Len(buf)
        PROVE  r = (IF type = eZeroTag THEN Value(0, p)
                    ELSE IF type >= 4 THEN Throw("mismatch", p)
                    ELSE LET b == ReadBuf(buf, p, SizeOf[Integers[type + 1]])
                         IN  IF Ok(b) THEN Value(Signed(b.val), b.cur) ELSE b)
    <3>1. SkipToTag(Skip(buf), buf, c, 0) = Value(TRUE, c)
          /\ PeekHead(buf, c) = Value([type |-> type, tag |-> 0], p)
      BY <2>2, <2>4 DEF Found
    <3>2. Ok(PeekHead(buf, c))
      BY <3>1 DEF Ok, Value
    <3>3. r = LET h == PeekHead(buf, c)
              IN  IF h.val.type = eZeroTag THEN Value(0, h.cur)
                  ELSE IF h.val.type >= Rank("Int64") THEN Throw("mismatch", h.cur)
                  ELSE LET b == ReadBuf(buf, h.cur, SizeOf[Integers[h.val.type + 1]])
                       IN  IF Ok(b) THEN Value(Signed(b.val), b.cur) ELSE b
      <4>1. /\ SkipToTag(Skip(buf), buf, c, 0).val = TRUE /\ SkipToTag(Skip(buf), buf, c, 0).cur = c
            /\ Ok(SkipToTag(Skip(buf), buf, c, 0))
        BY <3>1 DEF Ok, Value
      <4> QED  BY <3>2, <4>1 DEF ReadSize, Then
    <3> QED  BY <3>1, <3>3, <1>0 DEF Value
  <2>5. p \in Nat /\ Begins(buf, p, rest) /\ Len(f) = 1 + Len(rest)
    BY <2>2, <1>0, <1>1 DEF Found
  <2> QED  BY <2>3, <2>4, <2>5
<1> HIDE DEF p, r, f
<1>2. CASE n = 0
  <2>1. f = HeadOf(eZeroTag, 0) \o <<>> /\ <<>> \in Seq(Byte) /\ eZeroTag \in 0..15 /\ eZeroTag # eStructEnd
    <3>1. f = HeadOf(eZeroTag, 0) /\ HeadOf(eZeroTag, 0) \in Seq(Byte)
      BY <1>0, <1>2, HeadBytes DEF f, WriteInteger, eZeroTag
    <3> QED  BY <3>1 DEF eZeroTag, eStructEnd
  <2>2. /\ p > Len(buf) => ~Ok(r)
        /\ p <= Len(buf) => r = Value(0, p)
        /\ Len(f) = 1 + Len(<<>>)
    BY <2>1, <1>1
  <2>3. q = p
    <3>1. Len(<<>>) = 0
      OBVIOUS
    <3>2. q = c + Len(f) /\ p = c + 1 /\ Len(f) = 1 + 0
      BY <1>0, <2>2, <3>1 DEF f, p
    <3> QED  BY <3>2
  <2> QED  BY <1>0, <1>2, <2>2, <2>3 DEF r, p
<1>3. CASE n # 0
  <2>1. PICK i \in 1..Rank("Int32") :
           /\ f = HeadOf(i - 1, 0) \o BigEndian(n, SizeOf[Integers[i]])
           /\ n \in ValuesOf(Integers[i])
    BY <1>0, <1>3, IntegerBytes DEF f
  <2>2. i \in 1..4 /\ i - 1 \in 0..15 /\ i - 1 # eStructEnd /\ i - 1 # eZeroTag /\ ~ (i - 1 >= 4) /\ (i - 1) + 1 = i
    BY <1>0, <2>1 DEF eStructEnd, eZeroTag
  <2> DEFINE w == SizeOf[Integers[i]]
             rest == BigEndian(n, w)
  <2>3. n \in Int /\ w \in Nat
    <3>4. i \in 1..4
      BY <2>2
    <3>2. HalfRange(Integers[i]) \in Nat
      BY <3>4, HalfRanges
    <3>3. Integers[i] \in Signeds
      BY <3>4, Ranks
    <3>1. HalfRange(Integers[i]) \in Nat /\ SizeOf[Integers[i]] \in Nat
      BY <3>2, <3>3, Sizes
    <3> QED  BY <2>1, <3>1 DEF ValuesOf
  <2>4. rest \in Seq(Byte) /\ Len(rest) = w
    BY <2>3, BigEndianBytes
  <2>5. f = HeadOf(i - 1, 0) \o rest
    BY <2>1
  <2> HIDE DEF rest, w
  <2> DEFINE b == ReadBuf(buf, p, w)
  <2>6. /\ p > Len(buf) => ~Ok(r)
        /\ p <= Len(buf) => r = IF Ok(b) THEN Value(Signed(b.val), b.cur) ELSE b
        /\ p \in Nat /\ Begins(buf, p, rest) /\ Len(f) = 1 + w
    <3>1. /\ p > Len(buf) => ~Ok(r)
          /\ p <= Len(buf) => r = (IF i - 1 = eZeroTag THEN Value(0, p)
                                      ELSE IF i - 1 >= 4 THEN Throw("mismatch", p)
                                      ELSE LET d == ReadBuf(buf, p, SizeOf[Integers[(i - 1) + 1]])
                                           IN  IF Ok(d) THEN Value(Signed(d.val), d.cur) ELSE d)
          /\ p \in Nat /\ Begins(buf, p, rest) /\ Len(f) = 1 + Len(rest)
      BY <2>2, <2>4, <2>5, <1>1
    <3> QED  BY <3>1, <2>2, <2>4 DEF w
  <2>7. IF p + w > Len(buf) THEN ~Ok(b) ELSE b = Value(b.val, p + w) /\ Signed(b.val) = n
    BY <2>1, <2>2, <2>6, IntegerBody DEF rest, w
  <2>8. q = p + w
    <3>1. q = c + Len(f) /\ p = c + 1
      BY <1>0 DEF f, p
    <3> QED  BY <3>1, <2>3, <2>6
  <2> HIDE DEF b
  <2>9. CASE p > Len(buf)
    BY <2>9, <2>3, <2>6, <2>8, <1>0 DEF r
  <2>10. CASE p <= Len(buf) /\ q > Len(buf)
    BY <2>10, <2>6, <2>7, <2>8 DEF r
  <2>11. CASE p <= Len(buf) /\ ~ (q > Len(buf))
    <3>1. Ok(b) /\ b.cur = q /\ Signed(b.val) = n
      BY <2>7, <2>8, <2>11 DEF Ok, Value
    <3> QED  BY <2>11, <2>6, <3>1 DEF r
  <2> QED  BY <1>0, <2>6, <2>9, <2>10, <2>11
<1> QED  BY <1>2, <1>3

\* Half of the values of an Int32 are negative.
LEMMA HalfOfPower ==
  /\ HalfRange("Int32") \in Nat /\ HalfRange("Int32") >= 128
  /\ Power[SizeOf["Int32"]] = 2 * HalfRange("Int32")
PROOF
<1> DEFINE v == SizeOf["Int32"] - 1
<1>1. v \in Nat /\ SizeOf["Int32"] = v + 1
  BY Sizes DEF Signeds
<1> HIDE DEF v
<1>2. Power[v] \in Nat /\ Power[v] >= 1 /\ Power[v + 1] = 256 * Power[v]
  <2>1. Power[v] \in Nat /\ Power[v] > 0
    BY <1>1, PowerGrows
  <2>2. Power[v + 1] = 256 * Power[v]
    BY <1>1, PowerDef
  <2> QED  BY <2>1, <2>2
<1>3. HalfRange("Int32") = 128 * Power[v]
  BY DEF HalfRange, v
<1> QED  BY <1>1, <1>2, <1>3

\* A size comes back from the unsigned overload, and one above the limit is refused.
LEMMA CountBack ==
  ASSUME NEW buf \in Seq(Byte), NEW c \in Nat, NEW n \in 0..(HalfRange("Int32") - 1),
         Begins(buf, c, WriteInteger(n, "Int32", 0)), NEW limit \in Nat,
         NEW q, q = c + Len(WriteInteger(n, "Int32", 0))
  PROVE  IF q > Len(buf) \/ n > limit THEN ~Ok(ReadCount(buf, c, limit))
         ELSE ReadCount(buf, c, limit) = Value(n, q)
PROOF
<1> DEFINE r == ReadSize(Skip(buf), buf, c, "Int64")
<1>1. IF q > Len(buf) THEN ~Ok(r) ELSE r = Value(n, q)
  BY SizeBack
<1>2. CastBack("UInt32", n) = n
  <2>1. n \in Nat /\ n < Power[SizeOf["Int32"]] /\ Power[SizeOf["Int32"]] \in Nat
    BY HalfOfPower
  <2>2. n % Power[SizeOf["Int32"]] = n
    <3> DEFINE m == Power[SizeOf["Int32"]]
    <3> HIDE DEF m
    <3>1. n \in Nat /\ n < m /\ m \in Nat
      BY <2>1 DEF m
    <3>2. n % m = n
      BY <3>1
    <3> QED  BY <3>2 DEF m
  <2> QED  BY <2>2 DEF CastBack
<1>3. ReadCount(buf, c, limit) =
        IF Ok(r) THEN LET size == CastBack("UInt32", r.val)
                      IN  IF size > limit THEN Throw("invalid", r.cur) ELSE Value(size, r.cur)
        ELSE r
  BY DEF ReadCount, Then
<1> HIDE DEF r
<1>4. CASE q > Len(buf)
  BY <1>1, <1>3, <1>4
<1>5. CASE ~ (q > Len(buf))
  <2>1. Ok(r) /\ r.val = n /\ r.cur = q
    BY <1>1, <1>5 DEF Ok, Value
  <2>2. ~Ok(Throw("invalid", q))
    BY DEF Ok, Throw
  <2> QED  BY <1>2, <1>3, <1>5, <2>1, <2>2
<1> QED  BY <1>4, <1>5

\* Of three sequences of bytes it does not matter which two are joined first.
LEMMA Associates ==
  ASSUME NEW f \in Seq(Byte), NEW g \in Seq(Byte), NEW s \in Seq(Byte)
  PROVE  (f \o g) \o s = f \o (g \o s) /\ f \o g \in Seq(Byte)
OBVIOUS

\* From p on buf has, as far as it goes, what WriteBytes puts behind its first head.
BytesAt(buf, p, s, z, q) ==
  /\ z = WriteInteger(Len(s), "Int32", 0) /\ q = ((p + 1) + Len(z)) + Len(s)
  /\ Begins(buf, p, HeadOf(eChar, 0) \o (z \o s))

\* What ReadBytes makes of it.
BytesReadAt(buf, p, s, z, q) ==
  /\ IF q > Len(buf) THEN ~Ok(ReadBytes(buf, p, Len(buf)))
     ELSE ReadBytes(buf, p, Len(buf)) = Value(s, q)
  /\ q \in Nat
  /\ Len(HeadOf(eChar, 0) \o (z \o s)) = (1 + Len(z)) + Len(s)

\* The bytes are read back, or the buffer ends before they do.
LEMMA BytesBody ==
  ASSUME NEW buf \in Seq(Byte), NEW p \in Nat, NEW s \in Seq(Byte), Len(s) < HalfRange("Int32"),
         NEW z, NEW q, BytesAt(buf, p, s, z, q)
  PROVE  BytesReadAt(buf, p, s, z, q)
PROOF
<1>15. /\ z = WriteInteger(Len(s), "Int32", 0) /\ q = ((p + 1) + Len(z)) + Len(s)
       /\ Begins(buf, p, HeadOf(eChar, 0) \o (z \o s))
  BY DEF BytesAt
<1> DEFINE e == HeadOf(eChar, 0)
           zs == z \o s
           q1 == (p + 1) + Len(z)
           r == ReadBytes(buf, p, Len(buf))
           n == Len(s)
           limit == Len(buf)
<1>0. limit \in Nat /\ n \in 0..(HalfRange("Int32") - 1) /\ n \in Nat /\ eChar \in 0..15 /\ 0 \in Byte
  BY HalfOfPower DEF eChar, Byte
<1>1. z \in Seq(Byte) /\ e \in Seq(Byte) /\ Len(e) = 1
  <2>1. "Int32" \in Signeds
    BY DEF Signeds
  <2>2. n \in ValuesOf("Int32")
    BY <1>0, HalfOfPower DEF ValuesOf
  <2>3. z \in Seq(Byte)
    BY <1>0, <1>15, <2>1, <2>2, IntegerSeq
  <2>4. Len(e) = HeadLen(0) /\ HeadLen(0) = 1
    BY <1>0, HeadLength DEF HeadLen
  <2> QED  BY <1>0, <2>3, <2>4, HeadBytes
<1>2. zs \in Seq(Byte) /\ Len(zs) = Len(z) + Len(s) /\ Len(z) \in Nat /\ Len(s) \in Nat
  BY <1>1, ConcatBytes
<1>3. Begins(buf, p, e) /\ Begins(buf, p + 1, zs) /\ Len(e \o zs) = 1 + Len(zs)
  <2>1. Begins(buf, p, e \o zs)
    BY <1>15
  <2> HIDE DEF e, zs
  <2>2. Begins(buf, p, e) /\ Begins(buf, p + Len(e), zs)
    BY <1>1, <1>2, <2>1, BeginsParts
  <2>3. Len(e \o zs) = Len(e) + Len(zs)
    BY <1>1, <1>2, ConcatBytes
  <2> QED  BY <1>1, <2>2, <2>3
<1> HIDE DEF n, limit
<1>4. Begins(buf, p + 1, z) /\ Begins(buf, q1, s) /\ p + 1 \in Nat
  <2> HIDE DEF e
  <2> QED  BY <1>1, <1>3, BeginsParts
<1>5. IF q1 > limit \/ n > limit THEN ~Ok(ReadCount(buf, p + 1, limit))
      ELSE ReadCount(buf, p + 1, limit) = Value(n, q1)
  <2> DEFINE c == p + 1
  <2>1. c \in Nat /\ q1 = c + Len(z) /\ Begins(buf, c, z) /\ z = WriteInteger(n, "Int32", 0)
    BY <1>4, <1>15 DEF n
  <2> HIDE DEF c, q1
  <2>2. q1 = c + Len(WriteInteger(n, "Int32", 0)) /\ Begins(buf, c, WriteInteger(n, "Int32", 0))
    BY <2>1
  <2>3. IF q1 > Len(buf) \/ n > limit THEN ~Ok(ReadCount(buf, c, limit))
        ELSE ReadCount(buf, c, limit) = Value(n, q1)
    <3>1. n \in 0..(HalfRange("Int32") - 1) /\ limit \in Nat /\ c \in Nat
      BY <1>0, <2>1
    <3> HIDE DEF e, zs, r
    <3> QED  BY <3>1, <2>2, CountBack
  <2> QED  BY <2>3 DEF limit, c
<1>6. IF p + 1 > limit THEN ~Ok(PeekHead(buf, p))
      ELSE PeekHead(buf, p) = Value([type |-> eChar, tag |-> 0], p + 1)
  <2>1. CASE p + 1 > limit
    BY <1>0, <1>1, <1>3, <2>1, HeadCut DEF limit
  <2>2. CASE ~ (p + 1 > limit)
    <3>1. p + Len(e) <= Len(buf)
      <4> HIDE DEF e
      <4> QED  BY <1>0, <1>1, <2>2 DEF limit
    <3>2. PeekHead(buf, p) = Value([type |-> eChar, tag |-> 0], p + Len(e))
      BY <1>0, <1>3, <3>1, HeadWhole
    <3> QED  BY <1>1, <2>2, <3>2
  <2> QED  BY <2>1, <2>2
<1>7. IF q1 + n > limit THEN ~Ok(ReadBuf(buf, q1, n)) ELSE ReadBuf(buf, q1, n) = Value(s, q1 + n)
  <2>1. Begins(buf, p + 1, z \o s)
    BY <1>3
  <2> DEFINE c == p + 1
  <2>2. c \in Nat /\ q1 = c + Len(z)
    OBVIOUS
  <2> HIDE DEF c, q1
  <2> QED  BY <1>1, <2>1, <2>2, TwoParts DEF n, limit, c
<1>8. r = LET h == PeekHead(buf, p)
              k == ReadCount(buf, h.cur, limit)
          IN  IF ~Ok(h) THEN h
              ELSE IF h.val.type # eChar THEN Throw("mismatch", h.cur)
              ELSE IF Ok(k) THEN ReadBuf(buf, k.cur, k.val) ELSE k
  BY DEF ReadBytes, Then, limit
<1>9. q1 \in Nat /\ q = q1 + n /\ q1 >= p + 1
  <2> DEFINE lz == Len(z)
             ls == Len(s)
  <2>1. lz \in Nat /\ ls \in Nat /\ q = ((p + 1) + lz) + ls
    BY <1>2, <1>15
  <2> HIDE DEF lz, ls
  <2>2. (p + 1) + lz \in Nat /\ (p + 1) + lz >= p + 1
    BY <2>1
  <2> QED  BY <2>1, <2>2 DEF lz, ls, n
<1>10. Len(e \o zs) = (1 + Len(z)) + Len(s)
  BY <1>2, <1>3
<1> HIDE DEF q1, r, e, zs
<1>11. ASSUME p + 1 > limit  PROVE IF q > limit THEN ~Ok(r) ELSE r = Value(s, q)
  <2>1. ~Ok(PeekHead(buf, p))
    BY <1>6, <1>11
  <2>2. r = PeekHead(buf, p)
    BY <1>8, <2>1
  <2>3. q > limit
    BY <1>0, <1>9, <1>11
  <2> QED  BY <2>1, <2>2, <2>3
<1>12. ASSUME ~ (p + 1 > limit), q1 > limit \/ n > limit
       PROVE  IF q > limit THEN ~Ok(r) ELSE r = Value(s, q)
  <2>1. Ok(PeekHead(buf, p)) /\ PeekHead(buf, p).cur = p + 1 /\ PeekHead(buf, p).val.type = eChar
    BY <1>6, <1>12 DEF Ok, Value
  <2>2. ~Ok(ReadCount(buf, p + 1, limit))
    BY <1>5, <1>12
  <2>3. r = ReadCount(buf, p + 1, limit)
    BY <1>8, <2>1, <2>2
  <2>4. q > limit
    BY <1>0, <1>9, <1>12
  <2> QED  BY <2>2, <2>3, <2>4
<1>13. ASSUME ~ (p + 1 > limit), ~ (q1 > limit \/ n > limit)
       PROVE  IF q > limit THEN ~Ok(r) ELSE r = Value(s, q)
  <2>1. Ok(PeekHead(buf, p)) /\ PeekHead(buf, p).cur = p + 1 /\ PeekHead(buf, p).val.type = eChar
    BY <1>6, <1>13 DEF Ok, Value
  <2>2. Ok(ReadCount(buf, p + 1, limit)) /\ ReadCount(buf, p + 1, limit).val = n
        /\ ReadCount(buf, p + 1, limit).cur = q1
    BY <1>5, <1>13 DEF Ok, Value
  <2>3. r = ReadBuf(buf, q1, n)
    BY <1>8, <2>1, <2>2
  <2> QED  BY <1>7, <1>9, <2>3
<1>14. IF q > limit THEN ~Ok(r) ELSE r = Value(s, q)
  BY <1>11, <1>12, <1>13
<1>16. q \in Nat
  BY <1>0, <1>9
<1> QED  BY <1>10, <1>14, <1>16 DEF limit, r, e, zs, BytesReadAt

\* The same of a vector of bytes, whose size is a field of its own (Jce.h:1025-1089,
\* 1404-1414).
THEOREM ByteVectorsComeBack ==
  ASSUME NEW s \in Seq(Byte), Len(s) < HalfRange("Int32"),
         NEW tag \in Byte, NEW old, NEW isRequire \in BOOLEAN,
         NEW buf \in Seq(Byte), NEW c \in 0..Len(buf), Begins(buf, c, WriteBytes(s, "Int32", tag))
  PROVE  LET f == WriteBytes(s, "Int32", tag)
             r == ReadTagged(LAMBDA p, type : ReadChars(buf, p, type), buf, c, old, tag, isRequire)
         IN  IF c + HeadLen(tag) > Len(buf)
               THEN r = IF isRequire THEN Throw("missing", c) ELSE Value(old, c)
             ELSE IF c + Len(f) <= Len(buf) THEN r = Value(s, c + Len(f))
             ELSE ~Ok(r)
PROOF
<1> DEFINE f == WriteBytes(s, "Int32", tag)
           r == ReadTagged(LAMBDA p, type : ReadChars(buf, p, type), buf, c, old, tag, isRequire)
           at == c + HeadLen(tag)
           z == WriteInteger(Len(s), "Int32", 0)
           e == HeadOf(eChar, 0)
           head == HeadOf(eSimpleList, tag)
           rest == e \o (z \o s)
           q == ((at + 1) + Len(z)) + Len(s)
<1>0. Len(buf) \in Nat /\ c \in Nat /\ Len(s) \in Nat /\ 0 \in Byte /\ eChar \in 0..15
      /\ eSimpleList \in 0..15 /\ eSimpleList # eStructEnd
  BY DEF Byte, eChar, eSimpleList, eStructEnd
<1>1. head \in Seq(Byte) /\ e \in Seq(Byte) /\ z \in Seq(Byte)
  <2>1. "Int32" \in Signeds /\ Len(s) \in ValuesOf("Int32")
    BY <1>0, HalfOfPower DEF Signeds, ValuesOf
  <2> QED  BY <1>0, <2>1, IntegerSeq, HeadBytes
<1>2. f = head \o rest /\ rest \in Seq(Byte)
  <2>1. f = head \o e \o z \o s
    BY DEF WriteBytes
  <2> HIDE DEF f, head, e, z
  <2>2. head \o e \o z \o s = head \o (e \o (z \o s))
    <3>1. head \o e \in Seq(Byte) /\ z \o s \in Seq(Byte)
      BY <1>1, Associates
    <3> DEFINE he == head \o e
               zs == z \o s
    <3>4. he \in Seq(Byte) /\ zs \in Seq(Byte)
      BY <3>1
    <3>2. (he \o z) \o s = he \o zs
      <4> HIDE DEF he
      <4>1. he \in Seq(Byte) /\ z \in Seq(Byte) /\ s \in Seq(Byte)
        BY <1>1, <3>4
      <4>2. (he \o z) \o s = he \o (z \o s)
        BY <4>1, Associates, SMTT(40)
      <4> QED  BY <4>2
    <3>3. he \o zs = head \o (e \o zs)
      <4> HIDE DEF zs
      <4>1. (head \o e) \o zs = head \o (e \o zs)
        BY <1>1, <3>4, Associates, SMTT(40)
      <4> QED  BY <4>1
    <3> QED  BY <3>2, <3>3
  <2>3. e \o (z \o s) \in Seq(Byte)
    <3> DEFINE zs == z \o s
    <3>1. zs \in Seq(Byte)
      BY <1>1, Associates
    <3> HIDE DEF zs
    <3> QED  BY <1>1, <3>1, Associates DEF zs
  <2> QED  BY <2>1, <2>2, <2>3
<1>3. FieldAt(buf, c, eSimpleList, tag, rest, at)
  <2>1. Begins(buf, c, f)
    OBVIOUS
  <2> HIDE DEF f, rest
  <2>2. Begins(buf, c, HeadOf(eSimpleList, tag) \o rest)
    BY <1>2, <2>1
  <2> QED  BY <1>0, <1>2, <2>2 DEF FieldAt
<1>4. HeadLen(tag) \in {1, 2}
  BY HeadLength
<1> HIDE DEF at, rest, f, e, z, head
<1>5. Found(buf, c, eSimpleList, tag, rest, at)
  BY <1>0, <1>3, FieldHead
<1>6. at \in Nat /\ Begins(buf, at, HeadOf(eChar, 0) \o (z \o s))
      /\ Len(f) = HeadLen(tag) + Len(rest)
  BY <1>2, <1>5 DEF Found, rest, e, head
<1>14. BytesReadAt(buf, at, s, z, q)
  <2>1. z = WriteInteger(Len(s), "Int32", 0) /\ q = ((at + 1) + Len(z)) + Len(s)
    BY DEF z
  <2> HIDE DEF q
  <2>2. BytesAt(buf, at, s, z, q)
    BY <2>1, <1>6 DEF BytesAt
  <2> QED  BY <2>2, <1>6, BytesBody
<1>7. /\ IF q > Len(buf) THEN ~Ok(ReadBytes(buf, at, Len(buf)))
         ELSE ReadBytes(buf, at, Len(buf)) = Value(s, q)
      /\ q \in Nat
      /\ Len(HeadOf(eChar, 0) \o (z \o s)) = (1 + Len(z)) + Len(s)
  <2> HIDE DEF q
  <2> QED  BY <1>14 DEF BytesReadAt
<1>8. c + Len(f) = q
  <2> DEFINE lz == Len(z)
             ls == Len(s)
             lf == Len(f)
             h == HeadLen(tag)
  <2>1. lf = h + ((1 + lz) + ls) /\ at = c + h /\ h \in {1, 2} /\ lz \in Nat /\ ls \in Nat
    BY <1>0, <1>1, <1>4, <1>6, <1>7 DEF rest, e, at
  <2> HIDE DEF lz, ls, lf, h
  <2>2. c + lf = ((at + 1) + lz) + ls
    BY <1>0, <2>1
  <2> QED  BY <2>2 DEF lf, lz, ls
<1>9. /\ at > Len(buf) => r = IF isRequire THEN Throw("missing", c) ELSE Value(old, c)
      /\ at <= Len(buf) => r = ReadChars(buf, at, eSimpleList)
  BY <1>5 DEF ReadTagged, Then, Ok, Value, Found
<1>10. ReadChars(buf, at, eSimpleList) = ReadBytes(buf, at, Len(buf))
  BY DEF ReadChars, eSimpleList, eList
<1> HIDE DEF r, q
<1>11. CASE at > Len(buf)
  BY <1>9, <1>11 DEF at, r, f
<1>12. CASE at <= Len(buf)
  <2>1. ~ (at > Len(buf))
    BY <1>0, <1>6, <1>12
  <2>2. IF c + Len(f) <= Len(buf) THEN r = Value(s, c + Len(f)) ELSE ~Ok(r)
    BY <1>0, <1>7, <1>8, <1>9, <1>10, <1>12
  <2> QED  BY <2>1, <2>2 DEF at, r, f
<1>13. at > Len(buf) \/ at <= Len(buf)
  BY <1>0, <1>6
<1> QED  BY <1>11, <1>12, <1>13

-----------------------------------------------------------------------------
(* Messages. *)

\* A field that is optional, read where buf has f as far as it goes: old where it
\* ends before the field, v where it has all of it, and an exception between.
OptionalRead(r, buf, c, f, v, old) ==
  IF c + 1 > Len(buf) THEN r = Value(old, c)
  ELSE IF c + Len(f) <= Len(buf) THEN r = Value(v, c + Len(f))
  ELSE ~Ok(r)

\* A message's type is read that way.
LEMMA CtrlRead ==
  ASSUME NEW ctrl \in 0..2, NEW buf \in Seq(Byte), NEW c \in 0..Len(buf),
         Begins(buf, c, WriteInteger(ctrl, "Int32", 0))
  PROVE  /\ OptionalRead(ReadCtrl(buf, c, 0), buf, c, WriteInteger(ctrl, "Int32", 0), ctrl, E_CTRL_HELLO)
         /\ WriteInteger(ctrl, "Int32", 0) \in Seq(Byte)
PROOF
<1>1. /\ "Int32" \in Signeds /\ ctrl \in ValuesOf("Int32") /\ IsInteger("Int32") /\ IsInteger("Enum")
      /\ Carrier("Int32") = "Int32" /\ Carrier("Enum") = "Int32" /\ CastBack("Enum", ctrl) = ctrl
      /\ 0 \in Byte /\ HeadLen(0) = 1 /\ FALSE \in BOOLEAN
  <2>1. ctrl \in ValuesOf("Int32")
    BY HalfOfPower DEF ValuesOf
  <2> QED  BY <2>1 DEF Signeds, IsInteger, Carrier, CastBack, Byte, HeadLen
<1>2. Fits(ctrl, "Int32")
  BY <1>1 DEF Fits, ValuesOf
<1>3. WriteInteger(ctrl, "Int32", 0) \in Seq(Byte)
  BY <1>1, IntegerSeq
<1> DEFINE f == WriteInteger(ctrl, "Int32", 0)
<1>4. IF c + HeadLen(0) > Len(buf) THEN ReadCtrl(buf, c, 0) = Value(E_CTRL_HELLO, c)
      ELSE IF Fits(ctrl, Carrier("Enum")) /\ c + Len(f) <= Len(buf)
        THEN ReadCtrl(buf, c, 0) = Value(CastBack("Enum", ctrl), c + Len(f))
      ELSE ~Ok(ReadCtrl(buf, c, 0))
  <2>1. Begins(buf, c, WriteInteger(ctrl, Carrier("Int32"), 0)) /\ ctrl \in ValuesOf(Carrier("Int32"))
    BY <1>1
  <2>2. IF c + HeadLen(0) > Len(buf)
               THEN ReadCtrl(buf, c, 0) = IF FALSE THEN Throw("missing", c) ELSE Value(E_CTRL_HELLO, c)
             ELSE IF Fits(ctrl, Carrier("Enum")) /\ c + Len(WriteInteger(ctrl, Carrier("Int32"), 0)) <= Len(buf)
               THEN ReadCtrl(buf, c, 0) = Value(CastBack("Enum", ctrl), c + Len(WriteInteger(ctrl, Carrier("Int32"), 0)))
             ELSE ~Ok(ReadCtrl(buf, c, 0))
    BY <1>1, <2>1, IntegersComeBack DEF ReadCtrl, ReadTagged, Then
  <2> QED  BY <1>1, <2>2
<1> QED  BY <1>1, <1>2, <1>3, <1>4 DEF OptionalRead

\* So is a text.
LEMMA TextRead ==
  ASSUME NEW s \in Seq(Byte), Len(s) <= JCE_MAX_STRING_LENGTH, NEW tag \in 0..14,
         NEW buf \in Seq(Byte), NEW c \in 0..Len(buf), Begins(buf, c, WriteString(s, tag))
  PROVE  OptionalRead(ReadText(buf, c, tag), buf, c, WriteString(s, tag), s, <<>>)
PROOF
<1>1. tag \in Byte /\ HeadLen(tag) = 1 /\ FALSE \in BOOLEAN
  BY DEF Byte, HeadLen
<1>2. Len(s) < Power[SizeOf["Length"]]
  <2>1. JCE_MAX_STRING_LENGTH \in Nat
    BY JceAssumption
  <2> QED  BY <2>1, LengthSize, HalfOfPower, ProtocolAssumption
<1>3. IF c + HeadLen(tag) > Len(buf)
        THEN ReadText(buf, c, tag) = IF FALSE THEN Throw("missing", c) ELSE Value(<<>>, c)
      ELSE IF c + Len(WriteString(s, tag)) <= Len(buf)
        THEN ReadText(buf, c, tag) = Value(s, c + Len(WriteString(s, tag)))
      ELSE ~Ok(ReadText(buf, c, tag))
  BY <1>1, <1>2, StringsComeBack DEF ReadText, ReadTagged, Then
<1> QED  BY <1>1, <1>3 DEF OptionalRead

\* The field of a text fits an Int32's size, for the vector that carries it.
LEMMA TextBytes ==
  ASSUME NEW s \in Seq(Byte), Len(s) <= JCE_MAX_STRING_LENGTH, NEW tag \in 0..14
  PROVE  /\ WriteString(s, tag) \in Seq(Byte) /\ Len(WriteString(s, tag)) >= 2
         /\ Len(WriteString(s, tag)) < HalfRange("Int32")
PROOF
<1>1. tag \in Byte /\ HeadLen(tag) = 1
  BY DEF Byte, HeadLen
<1>0. JCE_MAX_STRING_LENGTH \in Nat /\ SizeOf["Length"] \in Nat /\ SizeOf["Length"] >= 1
  BY JceAssumption, LengthSize
<1>2. Len(s) < Power[SizeOf["Length"]] /\ Len(s) + SizeOf["Length"] + 1 < HalfRange("Int32")
  BY <1>0, LengthSize, HalfOfPower, ProtocolAssumption
<1>3. PICK type \in {eString1, eString4}, g \in Seq(Byte) :
           /\ WriteString(s, tag) = HeadOf(type, tag) \o (g \o s)
           /\ IF type = eString1 THEN Len(g) = 1 /\ g[1] = Len(s)
              ELSE Len(g) = SizeOf["Length"] /\ Unsigned(g) = Len(s)
  BY <1>1, <1>2, StringBytes
<1> DEFINE head == HeadOf(type, tag)
           rest == g \o s
<1>4. head \in Seq(Byte) /\ Len(head) = 1
  <2>1. type \in 0..15
    BY DEF eString1, eString4
  <2> QED  BY <1>1, <2>1, HeadBytes, HeadLength
<1>5. rest \in Seq(Byte) /\ Len(rest) = Len(g) + Len(s) /\ Len(g) \in Nat /\ Len(s) \in Nat
  BY ConcatBytes
<1> HIDE DEF head, rest
<1>6. head \o rest \in Seq(Byte) /\ Len(head \o rest) = 1 + Len(rest)
  <2>1. head \o rest \in Seq(Byte) /\ Len(head \o rest) = Len(head) + Len(rest)
    BY <1>4, <1>5, ConcatBytes
  <2> QED  BY <1>4, <2>1
<1>7. Len(g) >= 1 /\ Len(g) <= SizeOf["Length"]
  <2>1. Len(g) = 1 \/ Len(g) = SizeOf["Length"]
    BY <1>3
  <2> DEFINE lg == Len(g)
             w == SizeOf["Length"]
  <2>2. (lg = 1 \/ lg = w) /\ w \in Nat /\ w >= 1
    BY <2>1, <1>0
  <2> HIDE DEF lg, w
  <2>3. lg >= 1 /\ lg <= w
    BY <2>2
  <2> QED  BY <2>3 DEF lg, w
<1>8. WriteString(s, tag) = head \o rest
  BY <1>3 DEF head, rest
<1> DEFINE lg == Len(g)
           ls == Len(s)
<1>9. Len(WriteString(s, tag)) = 1 + (lg + ls)
  BY <1>5, <1>6, <1>8
<1>10. 1 + (lg + ls) >= 2 /\ 1 + (lg + ls) < HalfRange("Int32")
  <2>1. lg \in Nat /\ ls \in Nat /\ lg >= 1 /\ lg <= SizeOf["Length"] /\ ls + SizeOf["Length"] + 1 < HalfRange("Int32")
    BY <1>2, <1>5, <1>7
  <2> HIDE DEF lg, ls
  <2> QED  BY <1>0, <2>1, HalfOfPower
<1> QED  BY <1>6, <1>8, <1>9, <1>10

\* And so is a message's data.
LEMMA DataRead ==
  ASSUME NEW s \in Seq(Byte), Len(s) < HalfRange("Int32"), NEW tag \in 0..14,
         NEW buf \in Seq(Byte), NEW c \in 0..Len(buf), Begins(buf, c, WriteBytes(s, "Int32", tag))
  PROVE  OptionalRead(ReadData(buf, c, tag), buf, c, WriteBytes(s, "Int32", tag), s, <<>>)
PROOF
<1>1. tag \in Byte /\ HeadLen(tag) = 1 /\ FALSE \in BOOLEAN
  BY DEF Byte, HeadLen
<1>3. IF c + HeadLen(tag) > Len(buf)
        THEN ReadData(buf, c, tag) = IF FALSE THEN Throw("missing", c) ELSE Value(<<>>, c)
      ELSE IF c + Len(WriteBytes(s, "Int32", tag)) <= Len(buf)
        THEN ReadData(buf, c, tag) = Value(s, c + Len(WriteBytes(s, "Int32", tag)))
      ELSE ~Ok(ReadData(buf, c, tag))
  BY <1>1, ByteVectorsComeBack DEF ReadData, ReadTagged, Then
<1> QED  BY <1>1, <1>3 DEF OptionalRead

\* The field of the data has a head and a size at least.
LEMMA DataBytes ==
  ASSUME NEW s \in Seq(Byte), Len(s) < HalfRange("Int32"), NEW tag \in 0..14
  PROVE  WriteBytes(s, "Int32", tag) \in Seq(Byte) /\ Len(WriteBytes(s, "Int32", tag)) >= 2
PROOF
<1> DEFINE z == WriteInteger(Len(s), "Int32", 0)
           e == HeadOf(eChar, 0)
           head == HeadOf(eSimpleList, tag)
           he == head \o e
           hez == he \o z
<1>0. Len(s) \in Nat /\ 0 \in Byte /\ tag \in Byte /\ eChar \in 0..15 /\ eSimpleList \in 0..15
      /\ HeadLen(0) = 1 /\ HeadLen(tag) = 1
  BY DEF Byte, eChar, eSimpleList, HeadLen
<1>1. z \in Seq(Byte) /\ e \in Seq(Byte) /\ head \in Seq(Byte) /\ Len(e) = 1 /\ Len(head) = 1
  <2>1. "Int32" \in Signeds /\ Len(s) \in ValuesOf("Int32")
    BY <1>0, HalfOfPower DEF Signeds, ValuesOf
  <2> QED  BY <1>0, <2>1, IntegerSeq, HeadBytes, HeadLength
<1>5. WriteBytes(s, "Int32", tag) = hez \o s
  BY DEF WriteBytes
<1> HIDE DEF e, head, z
<1>2. he \in Seq(Byte) /\ Len(he) = 2
  <2>1. he \in Seq(Byte) /\ Len(he) = Len(head) + Len(e)
    BY <1>1, ConcatBytes
  <2> QED  BY <1>1, <2>1
<1> HIDE DEF he
<1>3. hez \in Seq(Byte) /\ Len(hez) = 2 + Len(z) /\ Len(z) \in Nat
  <2>1. hez \in Seq(Byte) /\ Len(hez) = Len(he) + Len(z) /\ Len(z) \in Nat
    BY <1>1, <1>2, ConcatBytes
  <2> QED  BY <1>2, <2>1
<1> HIDE DEF hez
<1> DEFINE f == hez \o s
<1>4. f \in Seq(Byte) /\ Len(f) = Len(hez) + Len(s)
  BY <1>3, ConcatBytes
<1> HIDE DEF f
<1>6. Len(f) >= 2
  <2> DEFINE lz == Len(z)
             ls == Len(s)
  <2>1. lz \in Nat /\ ls \in Nat /\ Len(f) = (2 + lz) + ls
    BY <1>0, <1>3, <1>4
  <2> HIDE DEF lz, ls
  <2> QED  BY <2>1
<1> QED  BY <1>4, <1>5, <1>6 DEF f

\* Where an optional field is followed by g, what is read next starts with g.
OptionalThen(r, buf, c, f, g, v, old) ==
  /\ Ok(r) => /\ r.cur \in c..Len(buf) /\ Begins(buf, r.cur, g)
              /\ \/ r.cur = c /\ c = Len(buf) /\ r.val = old
                 \/ r.cur = c + Len(f) /\ r.val = v
  /\ c + Len(f) <= Len(buf) => r = Value(v, c + Len(f))

\* That is so of every optional field that is read that way.
LEMMA OptionalNext ==
  ASSUME NEW r, NEW buf \in Seq(Byte), NEW c \in 0..Len(buf), NEW f \in Seq(Byte), NEW g \in Seq(Byte),
         NEW v, NEW old, OptionalRead(r, buf, c, f, v, old), Begins(buf, c + Len(f), g), Len(f) >= 1
  PROVE  OptionalThen(r, buf, c, f, g, v, old)
PROOF
<1>1. Begins(buf, c + Len(f), g)
  OBVIOUS
<1>2. Len(f) \in Nat /\ Len(buf) \in Nat /\ c \in Nat /\ Len(g) \in Nat
  OBVIOUS
<1>3. ASSUME c + 1 > Len(buf)
      PROVE  r.cur = c /\ c = Len(buf) /\ r.val = old /\ Begins(buf, c, g) /\ ~ (c + Len(f) <= Len(buf))
  <2>1. r = Value(old, c)
    BY <1>3 DEF OptionalRead
  <2>2. c = Len(buf) /\ ~ (c + Len(f) <= Len(buf))
    BY <1>2, <1>3
  <2>3. Begins(buf, c, g)
    BY <1>2, <2>2 DEF Begins
  <2> QED  BY <2>1, <2>2, <2>3 DEF Value
<1>4. ASSUME ~ (c + 1 > Len(buf)), c + Len(f) <= Len(buf)
      PROVE  r = Value(v, c + Len(f)) /\ r.cur = c + Len(f) /\ r.val = v
  BY <1>4 DEF OptionalRead, Value
<1>5. ASSUME ~ (c + 1 > Len(buf)), ~ (c + Len(f) <= Len(buf))
      PROVE  ~Ok(r)
  BY <1>5 DEF OptionalRead
<1> USE DEF OptionalThen
<1>6. CASE c + 1 > Len(buf)
  <2>1. c \in c..Len(buf)
    BY <1>2
  <2> QED  BY <1>1, <1>3, <1>6, <2>1
<1>7. CASE ~ (c + 1 > Len(buf)) /\ c + Len(f) <= Len(buf)
  <2>1. c + Len(f) \in c..Len(buf)
    BY <1>2, <1>7
  <2> QED  BY <1>1, <1>4, <1>7, <2>1
<1>8. CASE ~ (c + 1 > Len(buf)) /\ ~ (c + Len(f) <= Len(buf))
  BY <1>1, <1>5, <1>8
<1> QED  BY <1>6, <1>7, <1>8

\* The fields of a message.
Fields(a, b, d, ctrl, data) ==
  /\ a = WriteInteger(ctrl, "Int32", 0) /\ b = WriteString(sSeq, 1) /\ d = WriteBytes(data, "Int32", 2)
  /\ sSeq \in Seq(Byte) /\ Len(sSeq) <= JCE_MAX_STRING_LENGTH
  /\ a \in Seq(Byte) /\ Len(a) \in Nat /\ Len(a) >= 1
  /\ b \in Seq(Byte) /\ Len(b) \in Nat /\ Len(b) >= 2
  /\ d \in Seq(Byte) /\ Len(d) \in Nat /\ Len(d) >= 2
  /\ Message(ctrl, data) = a \o (b \o d) /\ b \o d \in Seq(Byte)
  /\ Message(ctrl, data) \in Seq(Byte)
  /\ Len(Message(ctrl, data)) = (Len(a) + Len(b)) + Len(d)

\* A message is its three fields.
LEMMA MessageFields ==
  ASSUME NEW ctrl \in 0..2, NEW data \in Seq(Byte), Len(data) < HalfRange("Int32")
  PROVE  Fields(WriteInteger(ctrl, "Int32", 0), WriteString(sSeq, 1), WriteBytes(data, "Int32", 2), ctrl, data)
PROOF
<1> DEFINE a == WriteInteger(ctrl, "Int32", 0)
           b == WriteString(sSeq, 1)
           d == WriteBytes(data, "Int32", 2)
           m == Message(ctrl, data)
           la == Len(a)
           lb == Len(b)
           ld == Len(d)
<1>1. sSeq \in Seq(Byte) /\ Len(sSeq) <= JCE_MAX_STRING_LENGTH /\ Len(sSeq) = 1
  <2>1. 48 \in Byte /\ JCE_MAX_STRING_LENGTH >= 1
    BY JceAssumption DEF Byte
  <2> QED  BY <2>1 DEF sSeq
<1>2. b \in Seq(Byte) /\ lb \in Nat /\ lb >= 2
  <2>1. 1 \in 0..14
    OBVIOUS
  <2>2. b \in Seq(Byte) /\ Len(b) >= 2
    BY <1>1, <2>1, TextBytes
  <2> HIDE DEF b
  <2> QED  BY <2>2
<1>3. d \in Seq(Byte) /\ ld \in Nat /\ ld >= 2
  BY DataBytes
<1>4. a \in Seq(Byte) /\ la \in Nat /\ la >= 1
  <2>1. "Int32" \in Signeds /\ ctrl \in ValuesOf("Int32") /\ 0 \in Byte
    BY HalfOfPower DEF Signeds, ValuesOf, Byte
  <2>2. a \in Seq(Byte) /\ Len(a) >= 1
    BY <2>1, IntegerSeq
  <2> HIDE DEF a
  <2> QED  BY <2>2
<1>5. m = a \o (b \o d) /\ m = (a \o b) \o d /\ b \o d \in Seq(Byte)
  <2>1. m = a \o b \o d
    BY DEF Message, WriteControlMsg
  <2> HIDE DEF m, a, b, d
  <2>2. (a \o b) \o d = a \o (b \o d)
    <3>1. a \in Seq(Byte) /\ b \in Seq(Byte) /\ d \in Seq(Byte)
      BY <1>2, <1>3, <1>4
    <3> QED  BY <3>1, Associates, SMTT(40)
  <2>3. b \o d \in Seq(Byte)
    BY <1>2, <1>3, ConcatBytes
  <2> QED  BY <2>1, <2>2, <2>3
<1> HIDE DEF a, b, d, m
<1>6. m \in Seq(Byte) /\ Len(m) = (la + lb) + ld
  <2> DEFINE ab == a \o b
  <2>1. ab \in Seq(Byte) /\ Len(ab) = la + lb
    BY <1>2, <1>4, ConcatBytes
  <2>2. m = ab \o d
    BY <1>5
  <2> HIDE DEF ab
  <2>3. m \in Seq(Byte) /\ Len(m) = Len(ab) + ld
    BY <1>3, <2>1, <2>2, ConcatBytes
  <2> QED  BY <2>1, <2>3
<1>7. a = WriteInteger(ctrl, "Int32", 0) /\ b = WriteString(sSeq, 1) /\ d = WriteBytes(data, "Int32", 2)
  BY DEF a, b, d
<1>8. Fields(a, b, d, ctrl, data)
  BY <1>1, <1>2, <1>3, <1>4, <1>5, <1>6, <1>7 DEF Fields, m
<1> QED  BY <1>8 DEF a, b, d

\* A message of any of the three types with any data, cut anywhere (Observer.h:
\* 63-79): whole, it is read as it was written; cut, it is not read at all, or its
\* type is right, unless nothing is left of it, and its data is empty.
THEOREM RequestsComeBack ==
  ASSUME NEW ctrl \in 0..2, NEW data \in Seq(Byte), Len(data) < HalfRange("Int32"),
         NEW n \in 0..Len(Message(ctrl, data))
  PROVE  LET m == Message(ctrl, data)
             r == ReadControlMsg(SubSeq(m, 1, n))
         IN  /\ n = Len(m) => r = Value([ctrl |-> ctrl, sSeq |-> sSeq, data |-> data], n)
             /\ Ok(r) => /\ r.val.ctrl = IF n = 0 THEN E_CTRL_HELLO ELSE ctrl
                         /\ r.val.data = IF n = Len(m) THEN data ELSE <<>>
             /\ m \in Seq(Byte) /\ Len(m) > 0
PROOF
<1> DEFINE a == WriteInteger(ctrl, "Int32", 0)
           b == WriteString(sSeq, 1)
           d == WriteBytes(data, "Int32", 2)
           m == Message(ctrl, data)
           buf == SubSeq(m, 1, n)
           r == ReadControlMsg(buf)
           la == Len(a)
           lb == Len(b)
           ld == Len(d)
<1>1. Fields(a, b, d, ctrl, data)
  BY MessageFields
<1> HIDE DEF a, b, d
<1>2. a = WriteInteger(ctrl, "Int32", 0) /\ b = WriteString(sSeq, 1) /\ d = WriteBytes(data, "Int32", 2)
  BY <1>1 DEF Fields
<1>3. sSeq \in Seq(Byte) /\ Len(sSeq) <= JCE_MAX_STRING_LENGTH
  BY <1>1 DEF Fields
<1>4. /\ a \in Seq(Byte) /\ la \in Nat /\ la >= 1
      /\ b \in Seq(Byte) /\ lb \in Nat /\ lb >= 2
      /\ d \in Seq(Byte) /\ ld \in Nat /\ ld >= 2
  BY <1>1 DEF Fields
<1>5. m = a \o (b \o d) /\ b \o d \in Seq(Byte)
  BY <1>1 DEF Fields
<1>6. m \in Seq(Byte) /\ Len(m) = (la + lb) + ld
  BY <1>1 DEF Fields
<1> HIDE DEF m
<1>7. buf \in Seq(Byte) /\ Len(buf) = n /\ Begins(buf, 0, m) /\ n \in 0..Len(m)
  <2>1. n \in 0..Len(m)
    BY DEF m
  <2> QED  BY <1>6, <2>1, BeginsPrefix
<1> DEFINE r1 == ReadCtrl(buf, 0, 0)
           r2 == ReadText(buf, r1.cur, 1)
           r3 == ReadData(buf, r2.cur, 2)
<1>8. r = IF Ok(r1)
            THEN IF Ok(r2)
                   THEN IF Ok(r3)
                          THEN Value([ctrl |-> r1.val, sSeq |-> r2.val, data |-> r3.val], r3.cur)
                          ELSE r3
                   ELSE r2
            ELSE r1
  <2> HIDE DEF buf
  <2> QED  BY DEF ReadControlMsg, Then
<1> HIDE DEF buf
<1>9. /\ Ok(r1) => /\ r1.cur \in 0..n /\ Begins(buf, r1.cur, b \o d)
                   /\ \/ r1.cur = 0 /\ 0 = n /\ r1.val = E_CTRL_HELLO
                      \/ r1.cur = la /\ r1.val = ctrl
      /\ la <= n => r1 = Value(ctrl, la)
  <2> DEFINE g == b \o d
  <2>1. g \in Seq(Byte) /\ Begins(buf, 0, a \o g)
    BY <1>5, <1>7
  <2> HIDE DEF g
  <2>2. Begins(buf, 0, a) /\ Begins(buf, 0 + la, g)
    BY <1>4, <1>7, <2>1, BeginsParts
  <2>3. OptionalRead(ReadCtrl(buf, 0, 0), buf, 0, a, ctrl, E_CTRL_HELLO)
    BY <1>2, <1>7, <2>2, CtrlRead
  <2> HIDE DEF r1
  <2>4. OptionalRead(r1, buf, 0, a, ctrl, E_CTRL_HELLO)
    BY <2>3 DEF r1
  <2>5. /\ Ok(r1) => /\ r1.cur \in 0..n /\ Begins(buf, r1.cur, g)
                     /\ \/ r1.cur = 0 /\ 0 = n /\ r1.val = E_CTRL_HELLO
                        \/ r1.cur = 0 + la /\ r1.val = ctrl
        /\ 0 + la <= n => r1 = Value(ctrl, 0 + la)
    <3>1. /\ a \in Seq(Byte) /\ buf \in Seq(Byte) /\ 0 \in 0..Len(buf) /\ Len(a) >= 1 /\ Len(buf) = n
          /\ Begins(buf, 0 + Len(a), g)
      BY <1>4, <1>7, <2>2
    <3>2. OptionalThen(r1, buf, 0, a, g, ctrl, E_CTRL_HELLO)
      BY <2>1, <2>4, <3>1, OptionalNext
    <3> QED  BY <3>1, <3>2 DEF OptionalThen
  <2>6. 0 + la = la
    BY <1>4
  <2> QED  BY <2>5, <2>6 DEF g
<1> HIDE DEF r1
<1>10. ASSUME Ok(r1)
       PROVE  /\ Ok(r2) => /\ r2.cur \in (r1.cur)..n /\ Begins(buf, r2.cur, d)
                           /\ \/ r2.cur = r1.cur /\ r1.cur = n /\ r2.val = <<>>
                              \/ r2.cur = r1.cur + lb /\ r2.val = sSeq
              /\ r1.cur + lb <= n => r2 = Value(sSeq, r1.cur + lb)
  <2> DEFINE c == r1.cur
  <2>1. c \in 0..n /\ Begins(buf, c, b \o d) /\ c \in Nat
    BY <1>9, <1>10
  <2> HIDE DEF c
  <2>2. Begins(buf, c, b) /\ Begins(buf, c + lb, d)
    BY <1>4, <1>7, <2>1, BeginsParts
  <2>3. OptionalRead(ReadText(buf, c, 1), buf, c, b, sSeq, <<>>)
    <3>1. 1 \in 0..14
      OBVIOUS
    <3> QED  BY <1>2, <1>3, <1>7, <2>1, <2>2, <3>1, TextRead
  <2> HIDE DEF r2
  <2>4. OptionalRead(r2, buf, c, b, sSeq, <<>>)
    BY <2>3 DEF r2, c
  <2>5. /\ Ok(r2) => /\ r2.cur \in c..n /\ Begins(buf, r2.cur, d)
                     /\ \/ r2.cur = c /\ c = n /\ r2.val = <<>>
                        \/ r2.cur = c + lb /\ r2.val = sSeq
        /\ c + lb <= n => r2 = Value(sSeq, c + lb)
    <3>1. /\ b \in Seq(Byte) /\ buf \in Seq(Byte) /\ c \in 0..Len(buf) /\ Len(b) >= 1 /\ Len(buf) = n
          /\ Begins(buf, c + Len(b), d) /\ d \in Seq(Byte)
      BY <1>4, <1>7, <2>1, <2>2
    <3>2. OptionalThen(r2, buf, c, b, d, sSeq, <<>>)
      BY <2>4, <3>1, OptionalNext
    <3> QED  BY <3>1, <3>2 DEF OptionalThen
  <2> QED  BY <2>5 DEF c
<1> HIDE DEF r2
<1>11. ASSUME Ok(r1), Ok(r2)
       PROVE  /\ Ok(r3) => \/ r2.cur = n /\ r3.val = <<>>
                           \/ r2.cur + ld <= n /\ r3.val = data
              /\ r2.cur + ld <= n => r3 = Value(data, r2.cur + ld)
  <2> DEFINE c == r2.cur
  <2>1. c \in 0..n /\ Begins(buf, c, d) /\ c \in Nat
    <3>1. r1.cur \in 0..n /\ r2.cur \in (r1.cur)..n /\ Begins(buf, r2.cur, d)
      BY <1>9, <1>10, <1>11
    <3> QED  BY <3>1
  <2> HIDE DEF c
  <2>2. OptionalRead(ReadData(buf, c, 2), buf, c, d, data, <<>>)
    <3>1. 2 \in 0..14
      OBVIOUS
    <3> QED  BY <1>2, <1>7, <2>1, <3>1, DataRead
  <2> HIDE DEF r3
  <2>3. OptionalRead(r3, buf, c, d, data, <<>>)
    BY <2>2 DEF r3, c
  <2>4. IF c + 1 > n THEN r3 = Value(<<>>, c)
        ELSE IF c + ld <= n THEN r3 = Value(data, c + ld)
        ELSE ~Ok(r3)
    BY <1>7, <2>3 DEF OptionalRead
  <2>5. c + 1 > n => c = n /\ ~ (c + ld <= n)
    BY <1>4, <1>7, <2>1
  <2> QED  BY <2>4, <2>5 DEF c, Value
<1> HIDE DEF r3, r, la, lb, ld
<1>12. n \in Nat /\ n <= (la + lb) + ld /\ Len(m) = (la + lb) + ld /\ Len(m) > 0
  BY <1>4, <1>6, <1>7
<1>13. ASSUME n = Len(m)
       PROVE  r = Value([ctrl |-> ctrl, sSeq |-> sSeq, data |-> data], n)
  <2>1. Ok(r1) /\ r1.cur = la /\ r1.val = ctrl
    <3>1. la <= n
      BY <1>4, <1>12, <1>13
    <3> QED  BY <3>1, <1>9 DEF Ok, Value
  <2>2. Ok(r2) /\ r2.cur = la + lb /\ r2.val = sSeq
    <3>1. r1.cur + lb <= n
      BY <1>4, <1>12, <1>13, <2>1
    <3> QED  BY <3>1, <1>10, <2>1 DEF Ok, Value
  <2>3. Ok(r3) /\ r3.cur = n /\ r3.val = data
    <3>1. r2.cur + ld = n /\ n <= n
      BY <1>4, <1>12, <1>13, <2>2
    <3> QED  BY <3>1, <1>11, <2>1, <2>2 DEF Ok, Value
  <2> QED  BY <1>8, <2>1, <2>2, <2>3
<1>14. ASSUME Ok(r)
       PROVE  /\ r.val.ctrl = IF n = 0 THEN E_CTRL_HELLO ELSE ctrl
              /\ r.val.data = IF n = Len(m) THEN data ELSE <<>>
  <2>1. Ok(r1) /\ Ok(r2) /\ Ok(r3)
    BY <1>8, <1>14
  <2>2. r.val = [ctrl |-> r1.val, sSeq |-> r2.val, data |-> r3.val]
    BY <1>8, <2>1 DEF Value
  <2>3. r1.val = IF n = 0 THEN E_CTRL_HELLO ELSE ctrl
    BY <1>4, <1>9, <1>12, <2>1
  <2>4. CASE n = Len(m)
    BY <1>13, <2>2, <2>3, <2>4 DEF Value
  <2>5. CASE n # Len(m)
    <3>1. ~ (r2.cur + ld <= n)
      <4> SUFFICES ASSUME r2.cur + ld <= n  PROVE FALSE
        OBVIOUS
      <4>1. \/ r1.cur = 0 /\ 0 = n
            \/ r1.cur = la
        BY <1>9, <2>1
      <4>2. \/ r2.cur = n
            \/ r2.cur = r1.cur + lb
        BY <1>10, <2>1
      <4>3. la \in Nat /\ lb \in Nat /\ lb >= 1 /\ ld \in Nat /\ ld >= 1
        BY <1>4
      <4>4. n < (la + lb) + ld
        BY <1>12, <2>5, <4>3
      <4>5. CASE r2.cur = n
        BY <1>12, <4>3, <4>5
      <4>6. CASE r1.cur = 0 /\ 0 = n /\ r2.cur = r1.cur + lb
        BY <4>3, <4>6
      <4>7. CASE r1.cur = la /\ r2.cur = r1.cur + lb
        BY <1>12, <4>3, <4>4, <4>7
      <4> QED  BY <4>1, <4>2, <4>5, <4>6, <4>7
    <3>2. r3.val = <<>>
      BY <1>11, <2>1, <3>1
    <3> QED  BY <2>2, <2>3, <2>5, <3>2
  <2> QED  BY <2>4, <2>5
<1> QED  BY <1>6, <1>12, <1>13, <1>14 DEF r, m, buf

-----------------------------------------------------------------------------
(* What handle decodes. *)

\* A text a write does not refuse.
Writable(text) == text \in Seq(Byte) /\ Len(text) <= JCE_MAX_STRING_LENGTH

\* What a request of the client carries, and its message.
Carried(ctrl, text) == IF ctrl = E_CTRL_HELLO THEN <<>> ELSE WriteText(text)
Requested(ctrl, text) == Message(ctrl, Carried(ctrl, text))

\* What a request carries fits a vector of bytes.
LEMMA CarriedBytes ==
  ASSUME NEW ctrl, NEW text, Writable(text)
  PROVE  Carried(ctrl, text) \in Seq(Byte) /\ Len(Carried(ctrl, text)) < HalfRange("Int32")
PROOF
<1>1. Len(<<>>) = 0 /\ <<>> \in Seq(Byte) /\ 0 < HalfRange("Int32")
  BY HalfOfPower
<1>2. WriteText(text) \in Seq(Byte) /\ Len(WriteText(text)) < HalfRange("Int32")
  <2>1. 0 \in 0..14
    OBVIOUS
  <2> QED  BY <2>1, TextBytes DEF WriteText, Writable
<1> QED  BY <1>1, <1>2 DEF Carried

\* handle reads from it the text it carries, or an empty one from nothing.
LEMMA CarriedRead ==
  ASSUME NEW text, Writable(text), NEW data \in {<<>>, WriteText(text)}
  PROVE  /\ Ok(ReadText(data, 0, 0))
         /\ ReadText(data, 0, 0).val = IF data = WriteText(text) THEN text ELSE <<>>
PROOF
<1> DEFINE f == WriteText(text)
           r == ReadText(data, 0, 0)
<1>1. f \in Seq(Byte) /\ Len(f) >= 2 /\ Len(f) \in Nat
  <2>1. 0 \in 0..14
    OBVIOUS
  <2>2. f \in Seq(Byte) /\ Len(f) >= 2
    BY <2>1, TextBytes DEF WriteText, Writable
  <2> HIDE DEF f
  <2> QED  BY <2>2
<1>2. data \in Seq(Byte) /\ 0 \in 0..Len(data) /\ Begins(data, 0, f)
  <2> HIDE DEF f
  <2>1. CASE data = <<>>
    BY <2>1 DEF Begins
  <2>2. CASE data = f
    BY <1>1, <2>2 DEF Begins
  <2> QED  BY <2>1, <2>2 DEF f
<1>3. OptionalRead(r, data, 0, f, text, <<>>)
  <2>1. 0 \in 0..14
    OBVIOUS
  <2> QED  BY <1>2, <2>1, TextRead DEF WriteText, Writable
<1> HIDE DEF f, r
<1>4. CASE data = <<>>
  <2>1. Len(data) = 0 /\ data # f
    BY <1>1, <1>4
  <2>2. r = Value(<<>>, 0)
    BY <1>3, <2>1 DEF OptionalRead
  <2> QED  BY <2>1, <2>2 DEF Ok, Value, f, r
<1>5. CASE data = f
  <2>1. ~ (0 + 1 > Len(f)) /\ 0 + Len(f) <= Len(f)
    BY <1>1
  <2>2. r = Value(text, 0 + Len(f))
    BY <1>3, <1>5, <2>1 DEF OptionalRead
  <2> QED  BY <1>5, <2>2 DEF Ok, Value, f, r
<1> QED  BY <1>4, <1>5 DEF f

\* Of a request cut anywhere handle decodes the type that was sent, and the text that
\* was sent or an empty one; of a whole one it decodes the text wherever it uses it
\* (BackendServer.cpp:228-278).
LEMMA DecodedBack ==
  ASSUME NEW ctrl \in 0..2, NEW text, Writable(text), NEW n \in 1..Len(Requested(ctrl, text))
  PROVE  LET m == Requested(ctrl, text)
             r == Decoded(SubSeq(m, 1, n))
         IN  /\ Ok(r) => r.val.ctrl = ctrl /\ r.val.text \in {text, <<>>}
             /\ n = Len(m) =>
                  /\ Ok(r)
                  /\ ctrl = E_CTRL_FILE_PATH \/ (ctrl = E_CTRL_REQ_ON_DEL /\ observer # None)
                       => r.val.text = text
PROOF
<1> DEFINE data == Carried(ctrl, text)
           m == Message(ctrl, data)
           buf == SubSeq(m, 1, n)
           q == ReadControlMsg(buf)
           r == Decoded(buf)
           t == ReadText(q.val.data, 0, 0)
           reads == q.val.ctrl = E_CTRL_FILE_PATH \/ (q.val.ctrl = E_CTRL_REQ_ON_DEL /\ observer # None)
<1>1. data \in Seq(Byte) /\ Len(data) < HalfRange("Int32")
  BY CarriedBytes
<1>2. n \in 0..Len(Message(ctrl, data)) /\ n # 0 /\ n \in 1..Len(m)
  BY DEF Requested
<1> HIDE DEF data
<1>3. /\ n = Len(m) => q = Value([ctrl |-> ctrl, sSeq |-> sSeq, data |-> data], n)
      /\ Ok(q) => /\ q.val.ctrl = IF n = 0 THEN E_CTRL_HELLO ELSE ctrl
                  /\ q.val.data = IF n = Len(m) THEN data ELSE <<>>
  BY <1>1, <1>2, RequestsComeBack
<1> HIDE DEF m
<1>4. r = IF ~Ok(q) THEN q
          ELSE IF reads
            THEN IF Ok(t) THEN Value([ctrl |-> q.val.ctrl, text |-> t.val], t.cur) ELSE t
          ELSE Value([ctrl |-> q.val.ctrl, text |-> <<>>], q.cur)
  <2> HIDE DEF buf
  <2> QED  BY DEF Decoded, Then
<1> HIDE DEF buf, q
<1>5. ASSUME Ok(q), reads
      PROVE  /\ Ok(t) /\ t.val \in {text, <<>>}
             /\ n = Len(m) => t.val = text
  <2>1. q.val.ctrl = ctrl
    BY <1>2, <1>3, <1>5
  <2>2. data = WriteText(text)
    BY <1>5, <2>1 DEF data, Carried, E_CTRL_HELLO, E_CTRL_FILE_PATH, E_CTRL_REQ_ON_DEL
  <2>3. q.val.data \in {<<>>, WriteText(text)} /\ (n = Len(m) => q.val.data = WriteText(text))
    BY <1>3, <1>5, <2>2
  <2>4. /\ Ok(t)
        /\ t.val = IF q.val.data = WriteText(text) THEN text ELSE <<>>
    BY <2>3, CarriedRead
  <2> QED  BY <2>3, <2>4
<1> HIDE DEF t, r
<1>6. ASSUME Ok(r)  PROVE r.val.ctrl = ctrl /\ r.val.text \in {text, <<>>}
  <2>1. Ok(q)
    BY <1>4, <1>6
  <2>2. q.val.ctrl = ctrl
    BY <1>2, <1>3, <2>1
  <2>3. CASE reads
    <3>1. r = Value([ctrl |-> ctrl, text |-> t.val], t.cur) /\ t.val \in {text, <<>>}
      BY <1>4, <1>5, <2>1, <2>2, <2>3
    <3> QED  BY <3>1 DEF Value
  <2>4. CASE ~reads
    <3>1. r = Value([ctrl |-> ctrl, text |-> <<>>], q.cur)
      BY <1>4, <2>1, <2>2, <2>4
    <3> QED  BY <3>1 DEF Value
  <2> QED  BY <2>3, <2>4
<1>7. ASSUME n = Len(m)
      PROVE  /\ Ok(r)
             /\ ctrl = E_CTRL_FILE_PATH \/ (ctrl = E_CTRL_REQ_ON_DEL /\ observer # None)
                       => r.val.text = text
  <2>1. Ok(q) /\ q.val.ctrl = ctrl
    BY <1>3, <1>7 DEF Ok, Value
  <2>2. CASE reads
    <3>1. r = Value([ctrl |-> ctrl, text |-> text], t.cur)
      BY <1>4, <1>5, <1>7, <2>1, <2>2
    <3> QED  BY <3>1 DEF Value, Ok
  <2>3. CASE ~reads
    <3>1. r = Value([ctrl |-> ctrl, text |-> <<>>], q.cur)
      BY <1>4, <2>1, <2>3
    <3> QED  BY <2>1, <2>3, <3>1 DEF Value, Ok
  <2> QED  BY <2>2, <2>3
<1> QED  BY <1>6, <1>7 DEF r, m, buf, data, Requested

-----------------------------------------------------------------------------
(* The protocol. *)

\* The variables' types, as far as they matter here.
ProtocolTypes ==
  /\ alive \in BOOLEAN /\ whole \in BOOLEAN /\ requests \in Nat
  /\ client \in {"idle", "sent", "waiting", "dead"}
  /\ request.ctrl \in 0..2 /\ Writable(request.text)

\* What is on the way to the daemon is the message of the last request.
SentAsAsked ==
  client = "sent" => alive /\ bytes = Requested(request.ctrl, request.text)

\* What is on the way back is the alive check's own message, if all of it was received.
HelloComesBack ==
  client = "waiting" =>
    /\ request.ctrl = E_CTRL_HELLO
    /\ whole => bytes = Requested(request.ctrl, request.text)

\* The inductive invariant.
ProtocolInv == ProtocolTypes /\ SentAsAsked /\ HelloComesBack /\ WholeRequestsArrive

\* A request is not empty.
LEMMA RequestedBytes ==
  ASSUME NEW ctrl \in 0..2, NEW text, Writable(text)
  PROVE  /\ Requested(ctrl, text) \in Seq(Byte) /\ Len(Requested(ctrl, text)) \in Nat
         /\ Len(Requested(ctrl, text)) > 0
PROOF
<1> DEFINE data == Carried(ctrl, text)
           m == Message(ctrl, data)
           a == WriteInteger(ctrl, "Int32", 0)
           b == WriteString(sSeq, 1)
           d == WriteBytes(data, "Int32", 2)
<1>1. data \in Seq(Byte) /\ Len(data) < HalfRange("Int32")
  BY CarriedBytes
<1> HIDE DEF data
<1>2. Fields(a, b, d, ctrl, data)
  BY <1>1, MessageFields
<1> HIDE DEF a, b, d
<1>3. /\ m \in Seq(Byte) /\ Len(m) = (Len(a) + Len(b)) + Len(d)
      /\ Len(a) \in Nat /\ Len(b) \in Nat /\ Len(d) \in Nat /\ Len(a) >= 1
  BY <1>2 DEF Fields
<1> HIDE DEF m
<1>4. Len(m) \in Nat /\ Len(m) > 0
  BY <1>3
<1> QED  BY <1>3, <1>4 DEF m, data, Requested

\* It holds at the start.
LEMMA InitInv == ProtocolInit => ProtocolInv
PROOF
<1> SUFFICES ASSUME ProtocolInit PROVE ProtocolInv
  OBVIOUS
<1>1. Writable(<<>>) /\ requests \in Nat /\ ~ (requests > 0)
  BY JceAssumption DEF ProtocolInit, Writable
<1>2. ProtocolTypes
  BY <1>1 DEF ProtocolInit, ProtocolTypes, E_CTRL_HELLO
<1>3. SentAsAsked /\ HelloComesBack
  BY DEF ProtocolInit, SentAsAsked, HelloComesBack
<1>4. WholeRequestsArrive
  BY <1>1 DEF ProtocolInit, WholeRequestsArrive, WholeRequestsTakeEffect, OnlyCutMessagesThrow, Served
<1> QED  BY <1>2, <1>3, <1>4 DEF ProtocolInv

\* The client's requests keep it.
LEMMA SendKeeps ==
  ASSUME ProtocolInv, NEW ctrl \in 0..2, NEW text, Writable(text),
         Send(ctrl, text, Requested(ctrl, text))
  PROVE  ProtocolInv'
PROOF
<1>1. /\ client = "idle" /\ requests' = requests + 1 /\ whole' = whole /\ alive' = alive
      /\ alive \in BOOLEAN /\ whole \in BOOLEAN /\ requests \in Nat
      /\ request.ctrl \in 0..2 /\ Writable(request.text)
      /\ ~alive => ~whole
  BY DEF ProtocolInv, ProtocolTypes, Send, WholeRequestsArrive, OnlyCutMessagesThrow
<1>2. CASE alive
  <2>1. client' = "sent" /\ bytes' = Requested(ctrl, text) /\ request'.ctrl = ctrl /\ request'.text = text
    BY <1>2 DEF Send
  <2>2. ProtocolTypes' /\ SentAsAsked' /\ HelloComesBack'
    BY <1>1, <1>2, <2>1 DEF ProtocolTypes, SentAsAsked, HelloComesBack
  <2>3. WholeRequestsArrive'
    BY <1>1, <1>2, <2>1 DEF WholeRequestsArrive, WholeRequestsTakeEffect, OnlyCutMessagesThrow, Served
  <2> QED  BY <2>2, <2>3 DEF ProtocolInv
<1>3. CASE ~alive
  <2>1. client' = "idle" /\ request' = request
    BY <1>1, <1>3 DEF Send
  <2>2. ProtocolTypes' /\ SentAsAsked' /\ HelloComesBack'
    BY <1>1, <1>3, <2>1 DEF ProtocolTypes, SentAsAsked, HelloComesBack
  <2>3. WholeRequestsArrive'
    BY <1>1, <1>3, <2>1 DEF WholeRequestsArrive, WholeRequestsTakeEffect, OnlyCutMessagesThrow, Served
  <2> QED  BY <2>2, <2>3 DEF ProtocolInv
<1> QED  BY <1>1, <1>2, <1>3

\* The daemon's recv and handle keep it, and make nothing up.
LEMMA ReceiveKeeps ==
  ASSUME ProtocolInv, NEW n, Receive(n)
  PROVE  /\ ProtocolInv'
         /\ (observer' # observer /\ alive') =>
              \E text \in {request.text, <<>>} : observer' = Effect(request.ctrl, text)
PROOF
<1> DEFINE ctrl == request.ctrl
           text == request.text
           m == Requested(ctrl, text)
           r == Decoded(SubSeq(bytes, 1, n))
<1>1. /\ client = "sent" /\ n \in 1..Len(m) /\ bytes = m /\ whole' = (n = Len(m))
      /\ request' = request /\ requests' = requests /\ answer' = answer
      /\ requests \in Nat /\ ctrl \in 0..2 /\ Writable(text)
  BY DEF ProtocolInv, ProtocolTypes, SentAsAsked, Receive, Some
<1>2. /\ alive' = Ok(r)
      /\ observer' = IF Ok(r) THEN Effect(r.val.ctrl, r.val.text) ELSE None
      /\ client' = IF ctrl = E_CTRL_HELLO THEN "waiting" ELSE "idle"
      /\ bytes' = IF client' = "waiting" /\ Ok(r) /\ r.val.ctrl = E_CTRL_HELLO
                    THEN SubSeq(bytes, 1, n) ELSE <<>>
  BY DEF Receive, Handle
<1>3. m \in Seq(Byte) /\ Len(m) \in Nat
  BY <1>1, RequestedBytes
<1>4. /\ Ok(r) => r.val.ctrl = ctrl /\ r.val.text \in {text, <<>>}
      /\ n = Len(m) =>
           /\ Ok(r)
           /\ ctrl = E_CTRL_FILE_PATH \/ (ctrl = E_CTRL_REQ_ON_DEL /\ observer # None)
                => r.val.text = text
  BY <1>1, DecodedBack
<1> HIDE DEF r, m
<1>5. Ok(r) \in BOOLEAN
  BY DEF Ok
<1>6. ProtocolTypes'
  BY <1>1, <1>2, <1>5 DEF ProtocolTypes
<1>7. SentAsAsked'
  BY <1>2 DEF SentAsAsked
<1>8. HelloComesBack'
  <2> SUFFICES ASSUME client' = "waiting"
               PROVE  request'.ctrl = E_CTRL_HELLO /\ (whole' => bytes' = Requested(request'.ctrl, request'.text))
    BY DEF HelloComesBack
  <2>1. ctrl = E_CTRL_HELLO
    BY <1>2
  <2>2. ASSUME whole'  PROVE bytes' = m
    <3>1. Ok(r) /\ r.val.ctrl = E_CTRL_HELLO /\ n = Len(m)
      BY <1>1, <1>4, <2>1, <2>2
    <3>2. SubSeq(m, 1, Len(m)) = m
      BY <1>3
    <3> QED  BY <1>1, <1>2, <3>1, <3>2
  <2> QED  BY <1>1, <2>1, <2>2 DEF m
<1>9. OnlyCutMessagesThrow'
  BY <1>1, <1>2, <1>4 DEF OnlyCutMessagesThrow
<1>10. WholeRequestsTakeEffect'
  <2> SUFFICES ASSUME client' = "idle", whole'
               PROVE  CASE ctrl = E_CTRL_FILE_PATH -> observer' = <<text, <<>>>>
                        [] ctrl = E_CTRL_REQ_ON_DEL -> observer' # None => observer'[2] = text
                        [] OTHER -> answer' = "yes"
    BY <1>1 DEF WholeRequestsTakeEffect, Served
  <2>1. Ok(r) /\ n = Len(m) /\ observer' = Effect(ctrl, r.val.text) /\ ctrl # E_CTRL_HELLO
    BY <1>1, <1>2, <1>4
  <2>2. CASE ctrl = E_CTRL_FILE_PATH
    BY <1>4, <2>1, <2>2 DEF Effect, E_CTRL_FILE_PATH, E_CTRL_REQ_ON_DEL
  <2>3. CASE ctrl = E_CTRL_REQ_ON_DEL
    <3>1. CASE observer # None
      BY <1>4, <2>1, <2>3, <3>1 DEF Effect, E_CTRL_FILE_PATH, E_CTRL_REQ_ON_DEL
    <3>2. CASE observer = None
      BY <2>1, <2>3, <3>2 DEF Effect, E_CTRL_FILE_PATH, E_CTRL_REQ_ON_DEL
    <3> QED  BY <3>1, <3>2
  <2> QED  BY <1>1, <2>1, <2>2, <2>3 DEF E_CTRL_HELLO, E_CTRL_FILE_PATH, E_CTRL_REQ_ON_DEL
<1>11. (observer' # observer /\ alive') =>
         \E t \in {request.text, <<>>} : observer' = Effect(request.ctrl, t)
  BY <1>2, <1>4
<1> QED  BY <1>6, <1>7, <1>8, <1>9, <1>10, <1>11 DEF ProtocolInv, WholeRequestsArrive

\* The client's recv keeps it.
LEMMA ReplyKeeps ==
  ASSUME ProtocolInv, NEW n \in Nat, ReadReply(n)
  PROVE  ProtocolInv'
PROOF
<1> DEFINE ctrl == request.ctrl
           text == request.text
           m == Requested(ctrl, text)
           r == ReadControlMsg(SubSeq(bytes, 1, n))
<1>1. /\ client = "waiting" /\ whole' = (whole /\ n = Len(bytes)) /\ alive' = alive
      /\ request' = request /\ requests' = requests /\ observer' = observer
      /\ alive \in BOOLEAN /\ whole \in BOOLEAN /\ requests \in Nat /\ ctrl \in 0..2 /\ Writable(text)
      /\ ctrl = E_CTRL_HELLO /\ (whole => bytes = m) /\ (~alive => ~whole)
  BY DEF ProtocolInv, ProtocolTypes, HelloComesBack, ReadReply, WholeRequestsArrive, OnlyCutMessagesThrow
<1>2. /\ client' = IF Ok(r) THEN "idle" ELSE "dead"
      /\ answer' = IF ~Ok(r) THEN "open"
                   ELSE IF n > 0 /\ r.val.ctrl = E_CTRL_HELLO THEN "yes" ELSE "no"
  BY DEF ReadReply
<1>3. ProtocolTypes'
  BY <1>1, <1>2 DEF ProtocolTypes
<1>4. SentAsAsked' /\ HelloComesBack'
  BY <1>2 DEF SentAsAsked, HelloComesBack
<1>5. ASSUME whole'
      PROVE  alive' /\ client' = "idle" /\ answer' = "yes"
  <2>1. bytes = m /\ n = Len(m) /\ alive'
    BY <1>1, <1>5
  <2>2. Len(m) > 0 /\ m = Message(E_CTRL_HELLO, <<>>)
    BY <1>1, RequestedBytes DEF Requested, Carried
  <2>3. r = Value([ctrl |-> E_CTRL_HELLO, sSeq |-> sSeq, data |-> <<>>], n)
    <3>1. <<>> \in Seq(Byte) /\ Len(<<>>) < HalfRange("Int32") /\ E_CTRL_HELLO \in 0..2
      BY HalfOfPower DEF E_CTRL_HELLO
    <3>2. n \in 0..Len(Message(E_CTRL_HELLO, <<>>)) /\ n = Len(Message(E_CTRL_HELLO, <<>>))
      BY <2>1, <2>2
    <3>3. ReadControlMsg(SubSeq(Message(E_CTRL_HELLO, <<>>), 1, n)) =
            Value([ctrl |-> E_CTRL_HELLO, sSeq |-> sSeq, data |-> <<>>], n)
      BY <3>1, <3>2, RequestsComeBack
    <3> QED  BY <2>1, <2>2, <3>3
  <2> QED  BY <1>2, <2>1, <2>2, <2>3 DEF Ok, Value
<1> HIDE DEF r, m
<1>6. OnlyCutMessagesThrow'
  BY <1>1, <1>2, <1>5 DEF OnlyCutMessagesThrow
<1>7. WholeRequestsTakeEffect'
  BY <1>1, <1>5 DEF WholeRequestsTakeEffect, Served, E_CTRL_HELLO, E_CTRL_FILE_PATH, E_CTRL_REQ_ON_DEL
<1> QED  BY <1>3, <1>4, <1>6, <1>7 DEF ProtocolInv, WholeRequestsArrive

\* So does every step, and none but handle changes the observer.
LEMMA NextKeeps ==
  ASSUME ProtocolInv, [ProtocolNext]_protocolVars
  PROVE  /\ ProtocolInv'
         /\ (observer' # observer /\ alive') =>
              \E text \in {request.text, <<>>} : observer' = Effect(request.ctrl, text)
PROOF
<1>1. ASSUME NEW ctrl \in 0..2, NEW text, Writable(text), Send(ctrl, text, Requested(ctrl, text))
      PROVE  ProtocolInv' /\ observer' = observer
  BY <1>1, SendKeeps DEF Send
<1>2. ASSUME NEW text \in Texts  PROVE Writable(text)
  BY ProtocolAssumption DEF Writable
<1>3. ASSUME NEW text \in Texts, StartWatching(text)
      PROVE  ProtocolInv' /\ observer' = observer
  <2>1. Send(1, text, Requested(1, text))
    BY <1>3 DEF StartWatching, Requested, Carried, E_CTRL_FILE_PATH, E_CTRL_HELLO
  <2> QED  BY <1>1, <1>2, <2>1
<1>4. ASSUME NEW text \in Texts, SetOnDeleteRequestInfo(text)
      PROVE  ProtocolInv' /\ observer' = observer
  <2>1. Send(2, text, Requested(2, text))
    BY <1>4 DEF SetOnDeleteRequestInfo, Requested, Carried, E_CTRL_REQ_ON_DEL, E_CTRL_HELLO
  <2> QED  BY <1>1, <1>2, <2>1
<1>5. ASSUME CheckAlive
      PROVE  ProtocolInv' /\ observer' = observer
  <2>1. Send(0, <<>>, Requested(0, <<>>))
    BY <1>5 DEF CheckAlive, Requested, Carried, E_CTRL_HELLO
  <2>2. Writable(<<>>)
    BY JceAssumption DEF Writable
  <2> QED  BY <1>1, <2>1, <2>2
<1>6. ASSUME NEW n \in 0..Len(bytes), Receive(n)
      PROVE  /\ ProtocolInv'
             /\ (observer' # observer /\ alive') =>
                  \E text \in {request.text, <<>>} : observer' = Effect(request.ctrl, text)
  BY <1>6, ReceiveKeeps
<1>7. ASSUME NEW n \in 0..Len(bytes), ReadReply(n)
      PROVE  ProtocolInv' /\ observer' = observer
  <2>1. n \in Nat
    OBVIOUS
  <2> QED  BY <1>7, <2>1, ReplyKeeps DEF ReadReply
<1>8. ASSUME UNCHANGED protocolVars
      PROVE  ProtocolInv' /\ observer' = observer
  BY <1>8 DEF protocolVars, ProtocolInv, ProtocolTypes, SentAsAsked, HelloComesBack, WholeRequestsArrive,
              WholeRequestsTakeEffect, OnlyCutMessagesThrow, Served
<1> QED  BY <1>3, <1>4, <1>5, <1>6, <1>7, <1>8 DEF ProtocolNext

\* For any texts that a write does not refuse, any buffer and any number of requests:
\* what is received is a part of what was asked for.
THEOREM ProtocolCorrect == ProtocolSpec => []ProtocolInv
PROOF
<1>1. ProtocolInv /\ [ProtocolNext]_protocolVars => ProtocolInv'
  BY NextKeeps
<1> QED  BY InitInv, <1>1, PTL DEF ProtocolSpec

\* For the same: a request that one recv returned whole takes effect and kills nobody,
\* and nobody dies but of a message of which a part was returned
\* (BackendServer.cpp:198-214, 228-278).
THEOREM WholeRequestsSuffice == ProtocolSpec => []WholeRequestsArrive
PROOF
<1>1. ProtocolInv => WholeRequestsArrive
  BY DEF ProtocolInv
<1> QED  BY <1>1, ProtocolCorrect, PTL

\* For the same: of a request cut anywhere the observer gets the text that was sent or
\* an empty one.
THEOREM NothingIsMadeUp == ProtocolSpec => CutRequestsMakeNothingUp
PROOF
<1> DEFINE A == (observer' # observer /\ alive') =>
                  \E text \in {request.text, <<>>} : observer' = Effect(request.ctrl, text)
<1>1. ProtocolInv /\ [ProtocolNext]_protocolVars => [A]_protocolVars
  BY NextKeeps
<1>2. CutRequestsMakeNothingUp <=> [][A]_protocolVars
  BY DEF CutRequestsMakeNothingUp
<1> QED  BY <1>1, <1>2, ProtocolCorrect, PTL DEF ProtocolSpec

=============================================================================
