---------------------------- MODULE ProtocolProofs ----------------------------
(***************************************************************************)
(* The parser of requests is the exact inverse of the encoder, for every   *)
(* width of the integers, every limit and every frame.  The second half is *)
(* about the single values of a reply: how the writers lay one out and how *)
(* the printer of the client reads it.  ResponseProofs builds on it.       *)
(***************************************************************************)
EXTENDS Response, WellFoundedInduction, TLAPS

\* Every set of naturals that is not empty has a least element.
LEMMA LeastNatural ==
    ASSUME NEW T \in SUBSET Nat, T # {}
    PROVE  \E x \in T : \A y \in T : x <= y
<1> DEFINE R == OpToRel(<, Nat)
<1>1. IsWellFoundedOn(R, Nat)
  BY NatLessThanWellFounded, Zenon
<1>2. \A y, z \in Nat : y < z => <<y, z>> \in R
  BY DEF OpToRel
<1> HIDE DEF R
<1>3. PICK x \in T : \A y \in T : ~(<<y, x>> \in R)
  BY <1>1, WFMin, Zenon
<1>4. ASSUME NEW y \in T, y < x PROVE FALSE
  <2>1. <<y, x>> \in R
    BY <1>2, <1>4
  <2>2. <<y, x>> \notin R
    BY <1>3
  <2> QED
    BY <2>1, <2>2
<1>5. \A y \in T : x <= y
  BY <1>4
<1> QED
  BY <1>5

\* f is defined by recursion on 0 .. N: Step[i] makes its value at i of the one
\* before.
Unfolds(f, N, S, base, Step) ==
    /\ f \in [0 .. N -> S]
    /\ f[0] = base
    /\ \A i \in 1 .. N : f[i] = Step[i][f[i - 1]]

\* A function defined by recursion on 0 .. N exists.
LEMMA RecursionExists ==
    ASSUME NEW N \in Nat, NEW S, NEW base \in S, NEW Step \in [1 .. N -> [S -> S]]
    PROVE  \E f : Unfolds(f, N, S, base, Step)
<1> DEFINE Upto(n, f) == Unfolds(f, n, S, base, Step)
           T == {n \in 0 .. N : ~ \E f : Upto(n, f)}
<1>1. \E f : Upto(0, f)
  <2>1. Upto(0, [i \in 0 .. 0 |-> base])
    BY DEF Unfolds
  <2> QED  BY <2>1
<1>2. ASSUME NEW n \in 0 .. N, n + 1 \in 0 .. N, NEW f, Upto(n, f)
      PROVE  \E g : Upto(n + 1, g)
  <2> DEFINE g == [i \in 0 .. n + 1 |-> IF i <= n THEN f[i] ELSE Step[n + 1][f[n]]]
  <2>1. Step[n + 1][f[n]] \in S
    BY <1>2 DEF Unfolds
  <2>2. g \in [0 .. n + 1 -> S] /\ g[0] = base
    BY <1>2, <2>1 DEF Unfolds
  <2>3. ASSUME NEW i \in 1 .. n + 1 PROVE g[i] = Step[i][g[i - 1]]
    BY <1>2 DEF Unfolds
  <2>4. Upto(n + 1, g)
    <3> HIDE DEF g
    <3> QED  BY <2>2, <2>3 DEF Unfolds
  <2> QED  BY <2>4
<1>3. T = {}
  <2> HIDE DEF Upto
  <2>1. SUFFICES ASSUME T # {} PROVE FALSE
    OBVIOUS
  <2>2. PICK x \in T : \A y \in T : x <= y
    BY <2>1, LeastNatural, T \in SUBSET Nat, Zenon
  <2>3. x # 0 /\ x \in 0 .. N
    BY <1>1
  <2>4. x - 1 \in 0 .. N /\ x - 1 \notin T
    BY <2>2, <2>3
  <2>5. PICK f : Upto(x - 1, f)
    BY <2>4
  <2>6. \E g : Upto(x, g)
    BY <1>2, <2>3, <2>4, <2>5
  <2> QED  BY <2>6
<1> HIDE DEF Upto
<1>4. \E f : Upto(N, f)
  BY <1>3, N \in 0 .. N
<1> QED  BY <1>4 DEF Upto

\* A set of naturals up to N with 0 and, with each n, n + 1 holds all of them.
LEMMA InductionUpto ==
    ASSUME NEW N \in Nat, NEW G, 0 \in G, \A n \in 0 .. N - 1 : n \in G => n + 1 \in G
    PROVE  \A n \in 0 .. N : n \in G
<1> DEFINE T == {n \in 0 .. N : n \notin G}
<1>1. SUFFICES ASSUME T # {} PROVE FALSE
  OBVIOUS
<1>2. PICK x \in T : \A y \in T : x <= y
  BY <1>1, LeastNatural, T \in SUBSET Nat, Zenon
<1>3. x # 0 /\ x - 1 \in 0 .. N - 1 /\ x - 1 \notin T
  BY <1>2
<1>4. x - 1 \in G
  BY <1>3
<1>5. x \in G
  BY <1>3, <1>4
<1> QED  BY <1>5

\* Division with remainder: the quotient and the rest are the only ones.
LEMMA Division ==
    ASSUME NEW p \in Nat \ {0}, NEW n \in Nat
    PROVE  /\ n \div p \in Nat /\ n % p \in 0 .. p - 1
           /\ n = (n % p) + p * (n \div p)
OBVIOUS

\* Quotient and remainder of what was put together from them.
LEMMA DivisionUnique ==
    ASSUME NEW p \in Nat \ {0}, NEW a \in 0 .. p - 1, NEW q \in Nat
    PROVE  (a + p * q) \div p = q /\ (a + p * q) % p = a
OBVIOUS
-----------------------------------------------------------------------------
\* Sequences with the same elements are the same.
LEMMA SameElements ==
    ASSUME NEW S, NEW s \in Seq(S), NEW t \in Seq(S),
           Len(s) = Len(t), \A i \in 1 .. Len(s) : s[i] = t[i]
    PROVE  s = t
<1>1. Len(s) \in Nat /\ s = [i \in 1 .. Len(s) |-> s[i]] /\ t = [i \in 1 .. Len(t) |-> t[i]]
  OBVIOUS
<1> QED  BY <1>1

\* One sequence after the other.
LEMMA Joined ==
    ASSUME NEW S, NEW s \in Seq(S), NEW t \in Seq(S)
    PROVE  s \o t \in Seq(S) /\ Len(s \o t) = Len(s) + Len(t)
OBVIOUS

Byte == 0 .. B - 1
-----------------------------------------------------------------------------
\* The powers of B, by their recursion.
LEMMA PowerRule ==
    /\ Power \in [0 .. 2 * W -> Nat \ {0}]
    /\ Power[0] = 1
    /\ \A i \in 1 .. 2 * W : Power[i] = B * Power[i - 1]
<1> DEFINE S == Nat \ {0}
           N == 2 * W
           Step == [i \in 1 .. N |-> [x \in S |-> B * x]]
           F(f) == [i \in 0 .. N |-> IF i = 0 THEN 1 ELSE B * f[i - 1]]
<1>0. N \in Nat /\ B \in Nat \ {0} /\ 1 \in S /\ 2 * W = N
  BY WidthAssumption
<1>1. \A x \in S : B * x \in S
  BY <1>0
<1>a. Power = CHOOSE g : g = F(g)
  BY DEF Power
<1> HIDE DEF N
<1>2. Step \in [1 .. N -> [S -> S]]
  BY <1>1
<1>3. PICK f : Unfolds(f, N, S, 1, Step)
  <2> HIDE DEF Step, S
  <2> QED  BY <1>0, <1>2, RecursionExists
<1>4. f = F(f)
  <2>1. ASSUME NEW i \in 1 .. N PROVE f[i - 1] \in S /\ f[i] = B * f[i - 1]
    <3>1. i - 1 \in 0 .. N
      BY <1>0
    <3>2. f[i - 1] \in S /\ f[i] = Step[i][f[i - 1]]
      BY <1>3, <3>1 DEF Unfolds
    <3> QED  BY <3>2
  <2> HIDE DEF Step, S
  <2> QED  BY <1>0, <1>3, <2>1 DEF Unfolds
<1>5. Power = F(Power)
  <2> HIDE DEF F
  <2> QED  BY <1>4, <1>a
<1>6. Power[0] = 1 /\ \A i \in 1 .. N : Power[i] = B * Power[i - 1]
  BY <1>5, <1>0
<1>7. \A i \in 0 .. N : Power[i] \in S
  <2> DEFINE G == {i \in 0 .. N : Power[i] \in S}
  <2>1. 0 \in G
    BY <1>6, <1>0
  <2>2. \A n \in 0 .. N - 1 : n \in G => n + 1 \in G
    <3>1. SUFFICES ASSUME NEW n \in 0 .. N - 1, Power[n] \in S PROVE Power[n + 1] \in S
      BY <1>0
    <3>2. n + 1 \in 1 .. N /\ (n + 1) - 1 = n
      BY <1>0
    <3>3. Power[n + 1] = B * Power[n]
      BY <1>6, <3>2
    <3> HIDE DEF S
    <3> QED  BY <3>1, <3>3, <1>1
  <2> HIDE DEF G
  <2>3. \A n \in 0 .. N : n \in G
    BY <1>0, <2>1, <2>2, InductionUpto
  <2> QED  BY <2>3 DEF G
<1> HIDE DEF S
<1>8. Power \in [0 .. N -> S]
  BY <1>5, <1>7
<1> QED
  BY <1>0, <1>6, <1>8 DEF S

\* Number, by the recursion of its sum.
LEMMA NumberRule ==
    ASSUME NEW w \in 0 .. 2 * W, NEW bs \in [1 .. w -> Byte]
    PROVE  \E low \in [0 .. w -> Nat] :
               /\ low[0] = 0
               /\ \A i \in 1 .. w : low[i] = low[i - 1] + bs[i] * Power[i - 1]
               /\ Number(bs, w) = low[w]
<1> DEFINE Step == [i \in 1 .. w |-> [x \in Nat |-> x + bs[i] * Power[i - 1]]]
           F(f) == [i \in 0 .. w |-> IF i = 0 THEN 0 ELSE f[i - 1] + bs[i] * Power[i - 1]]
           low == CHOOSE f : f = F(f)
<1>0. w \in Nat /\ 2 * W \in Nat /\ B \in Nat
  BY WidthAssumption
<1>1. \A i \in 1 .. w : bs[i] * Power[i - 1] \in Nat
  <2>1. SUFFICES ASSUME NEW i \in 1 .. w PROVE bs[i] * Power[i - 1] \in Nat
    OBVIOUS
  <2>2. bs[i] \in Nat /\ i - 1 \in 0 .. 2 * W
    BY <1>0 DEF Byte
  <2>3. Power[i - 1] \in Nat
    BY <2>2, PowerRule
  <2> QED  BY <2>2, <2>3
<1>2. Step \in [1 .. w -> [Nat -> Nat]]
  <2> DEFINE t(i) == bs[i] * Power[i - 1]
  <2>1. \A i \in 1 .. w : t(i) \in Nat
    BY <1>1
  <2> HIDE DEF t
  <2>2. [i \in 1 .. w |-> [x \in Nat |-> x + t(i)]] \in [1 .. w -> [Nat -> Nat]]
    BY <2>1
  <2> QED  BY <2>2 DEF t
<1>3. PICK f : Unfolds(f, w, Nat, 0, Step)
  <2> HIDE DEF Step
  <2>1. 0 \in Nat
    OBVIOUS
  <2> QED  BY <1>0, <1>2, <2>1, RecursionExists, Zenon
<1>4. f = F(f)
  <2>1. ASSUME NEW i \in 1 .. w PROVE f[i - 1] \in Nat /\ f[i] = f[i - 1] + bs[i] * Power[i - 1]
    <3>1. i - 1 \in 0 .. w
      BY <1>0
    <3>2. f[i - 1] \in Nat /\ f[i] = Step[i][f[i - 1]]
      BY <1>3, <3>1, Zenon DEF Unfolds
    <3> QED  BY <3>2
  <2> HIDE DEF Step
  <2> QED  BY <1>0, <1>3, <2>1 DEF Unfolds
<1>5. low = F(low)
  <2> HIDE DEF F
  <2> QED  BY <1>4
<1>6. Number(bs, w) = low[w]
  BY DEF Number
<1> HIDE DEF low
<1>7. low[0] = 0 /\ \A i \in 1 .. w : low[i] = low[i - 1] + bs[i] * Power[i - 1]
  BY <1>5, <1>0
<1>8. \A i \in 0 .. w : low[i] \in Nat
  <2> DEFINE G == {i \in 0 .. w : low[i] \in Nat}
  <2>1. 0 \in G
    BY <1>7, <1>0
  <2>2. \A n \in 0 .. w - 1 : n \in G => n + 1 \in G
    <3>1. SUFFICES ASSUME NEW n \in 0 .. w - 1, low[n] \in Nat PROVE low[n + 1] \in Nat
      BY <1>0
    <3>2. n + 1 \in 1 .. w /\ (n + 1) - 1 = n
      BY <1>0
    <3>3. low[n + 1] = low[n] + bs[n + 1] * Power[n] /\ bs[n + 1] * Power[n] \in Nat
      BY <1>1, <1>7, <3>2
    <3> QED  BY <3>1, <3>3
  <2> HIDE DEF G
  <2>3. \A n \in 0 .. w : n \in G
    BY <1>0, <2>1, <2>2, InductionUpto
  <2> QED  BY <2>3 DEF G
<1>9. low \in [0 .. w -> Nat]
  BY <1>5, <1>8
<1> QED
  BY <1>6, <1>7, <1>9, Zenon

\* One digit more: what is left of n above k + 1 digits.
LEMMA NextDigit ==
    ASSUME NEW n \in Nat, NEW p \in Nat \ {0}, NEW low \in 0 .. p - 1,
           n = low + p * (n \div p)
    PROVE  LET d == (n \div p) % B
           IN  /\ d \in Byte
               /\ low + d * p \in 0 .. B * p - 1
               /\ n = (low + d * p) + (B * p) * (n \div (B * p))
<1> DEFINE q == n \div p
           d == q % B
           r == q \div B
<1>0. B \in Nat \ {0}
  BY WidthAssumption
<1>1. q \in Nat
  BY Division
<1> HIDE DEF q
<1>2. r \in Nat /\ d \in 0 .. B - 1 /\ q = d + B * r
  BY <1>0, <1>1, Division, Zenon
<1> HIDE DEF r, d
<1>3. low + d * p \in 0 .. B * p - 1
  <2>1. d * p \in Nat /\ B * p \in Nat
    BY <1>0, <1>2
  <2>2. (B - 1 - d) * p >= 0
    BY <1>0, <1>2
  <2>3. (B - 1 - d) * p = B * p - p - d * p
    BY <1>0, <1>2
  <2> QED  BY <2>1, <2>2, <2>3
<1>4. n = (low + d * p) + (B * p) * r
  <2>1. n = low + p * (d + B * r)
    BY <1>2 DEF q
  <2>2. p * (d + B * r) = d * p + (B * p) * r
    BY <1>0, <1>2
  <2>3. d * p \in Int /\ (B * p) * r \in Int
    BY <1>0, <1>2
  <2> QED  BY <2>1, <2>2, <2>3
<1>5. n \div (B * p) = r
  <2> DEFINE a == low + d * p
             P == B * p
  <2>1. P \in Nat \ {0} /\ a \in 0 .. P - 1 /\ n = a + P * r
    BY <1>0, <1>3, <1>4
  <2> HIDE DEF a, P
  <2>2. n \div P = r
    BY <2>1, <1>2, DivisionUnique, Zenon
  <2> QED  BY <2>2 DEF P
<1>6. low + d * p \in 0 .. B * p - 1 /\ n = (low + d * p) + (B * p) * (n \div (B * p))
  BY <1>3, <1>4, <1>5
<1>7. d \in Byte
  BY <1>2 DEF Byte
<1> QED  BY <1>6, <1>7 DEF d, q

\* An integer that fits is read back from its bytes.
LEMMA NumberOfBytes ==
    ASSUME NEW w \in 0 .. 2 * W, NEW n \in Nat, n < Power[w]
    PROVE  Bytes(n, w) \in [1 .. w -> Byte] /\ Number(Bytes(n, w), w) = n
<1> DEFINE bs == Bytes(n, w)
           N == 2 * W
<1>0. N \in Nat /\ w \in Nat /\ w \in 0 .. N /\ B \in Nat \ {0}
  BY WidthAssumption
<1>a. /\ \A i \in 0 .. N : Power[i] \in Nat \ {0}
      /\ Power[0] = 1
      /\ \A i \in 1 .. N : Power[i] = B * Power[i - 1]
  BY PowerRule
<1> HIDE DEF N
<1>1. \A i \in 1 .. w : bs[i] = (n \div Power[i - 1]) % B
  BY DEF Bytes
<1>2. bs \in [1 .. w -> Byte]
  <2>1. ASSUME NEW i \in 1 .. w PROVE (n \div Power[i - 1]) % B \in Byte
    <3>1. i - 1 \in 0 .. N
      BY <1>0
    <3>2. n \div Power[i - 1] \in Nat
      BY <1>a, <3>1, Division, Zenon
    <3> QED  BY <1>0, <3>2, Division, Zenon DEF Byte
  <2> QED  BY <2>1 DEF Bytes
<1> HIDE DEF bs
<1>3. PICK low \in [0 .. w -> Nat] :
               /\ low[0] = 0
               /\ \A i \in 1 .. w : low[i] = low[i - 1] + bs[i] * Power[i - 1]
               /\ Number(bs, w) = low[w]
  BY <1>2, NumberRule, Zenon
<1> DEFINE Good(k) == low[k] \in 0 .. Power[k] - 1 /\ n = low[k] + Power[k] * (n \div Power[k])
           G == {k \in 0 .. w : Good(k)}
<1>4. 0 \in G
  BY <1>0, <1>a, <1>3
<1>5. ASSUME NEW k \in 0 .. w - 1, k \in G PROVE k + 1 \in G
  <2>1. k \in 0 .. N /\ k + 1 \in 1 .. N /\ k + 1 \in 1 .. w /\ (k + 1) - 1 = k /\ k + 1 \in 0 .. w
    BY <1>0
  <2>2. Power[k] \in Nat \ {0} /\ Power[k + 1] = B * Power[k]
    BY <1>a, <2>1
  <2>3. bs[k + 1] = (n \div Power[k]) % B /\ low[k + 1] = low[k] + bs[k + 1] * Power[k]
    BY <1>1, <1>3, <2>1
  <2>4. Good(k)
    BY <1>5
  <2>5. Good(k + 1)
    <3> DEFINE p == Power[k]
               d == (n \div p) % B
    <3>1. low[k] + d * p \in 0 .. B * p - 1 /\ n = (low[k] + d * p) + (B * p) * (n \div (B * p))
      BY <2>2, <2>4, NextDigit, Zenon
    <3> QED  BY <2>2, <2>3, <3>1
  <2> QED  BY <2>1, <2>5
<1> HIDE DEF G
<1>6. w \in G
  <2>1. \A k \in 0 .. w - 1 : k \in G => k + 1 \in G
    BY <1>5
  <2> QED  BY <1>0, <1>4, <2>1, w \in 0 .. w, InductionUpto, Zenon
<1>7. Good(w)
  BY <1>6 DEF G
<1>8. n \div Power[w] = 0
  <2>1. Power[w] \in Nat \ {0} /\ n \in 0 .. Power[w] - 1 /\ n = n + Power[w] * 0
    BY <1>0, <1>a
  <2> HIDE DEF Good
  <2> QED  BY <2>1, DivisionUnique
<1>9. Power[w] * 0 = 0 /\ low[w] \in Nat
  BY <1>0, <1>a, <1>3
<1>10. Number(bs, w) = n
  <2>1. n = low[w] + Power[w] * 0
    BY <1>7, <1>8
  <2> QED  BY <1>3, <1>9, <2>1
<1> QED  BY <1>2, <1>10 DEF bs

\* Bytes are read back from the integer they stand for.
LEMMA BytesOfNumber ==
    ASSUME NEW w \in 0 .. 2 * W, NEW bs \in [1 .. w -> Byte]
    PROVE  Number(bs, w) \in 0 .. Power[w] - 1 /\ Bytes(Number(bs, w), w) = bs
<1> DEFINE n == Number(bs, w)
           N == 2 * W
<1>0. N \in Nat /\ w \in Nat /\ w \in 0 .. N /\ B \in Nat \ {0}
  BY WidthAssumption
<1>a. /\ \A i \in 0 .. N : Power[i] \in Nat \ {0}
      /\ Power[0] = 1
      /\ \A i \in 1 .. N : Power[i] = B * Power[i - 1]
  BY PowerRule
<1> HIDE DEF N
<1>1. PICK low \in [0 .. w -> Nat] :
               /\ low[0] = 0
               /\ \A i \in 1 .. w : low[i] = low[i - 1] + bs[i] * Power[i - 1]
               /\ n = low[w]
  BY NumberRule, Zenon
<1> HIDE DEF n
<1>s. ASSUME NEW k \in 0 .. w - 1
      PROVE  /\ k \in 0 .. N /\ k + 1 \in 1 .. w /\ Power[k] \in Nat \ {0}
             /\ Power[k + 1] = B * Power[k] /\ Power[k + 1] \in Nat \ {0}
             /\ low[k + 1] = low[k] + bs[k + 1] * Power[k] /\ bs[k + 1] \in 0 .. B - 1
             /\ low[k] \in Nat /\ low[k + 1] \in Nat
  <2>1. /\ k \in 0 .. N /\ k + 1 \in 1 .. N /\ k + 1 \in 1 .. w /\ (k + 1) - 1 = k
        /\ k + 1 \in 0 .. N /\ k + 1 \in 0 .. w /\ k \in 0 .. w
    BY <1>0
  <2> QED  BY <1>1, <1>a, <2>1 DEF Byte
\* The value of the first k digits is below the power of k.
<1>2. \A k \in 0 .. w : low[k] \in 0 .. Power[k] - 1
  <2> DEFINE G == {k \in 0 .. w : low[k] \in 0 .. Power[k] - 1}
  <2>1. 0 \in G
    BY <1>0, <1>1, <1>a
  <2>2. ASSUME NEW k \in 0 .. w - 1, k \in G PROVE k + 1 \in G
    <3> DEFINE p == Power[k]
               d == bs[k + 1]
               l == low[k]
    <3>1. p \in Nat \ {0} /\ d \in 0 .. B - 1 /\ l \in 0 .. p - 1
      BY <1>s, <2>2
    <3>2. low[k + 1] = l + d * p /\ Power[k + 1] = B * p
      BY <1>s
    <3> HIDE DEF p, d, l
    <3>3. d * p + p <= B * p
      <4>1. (B - 1 - d) * p >= 0 /\ (B - 1 - d) * p = B * p - p - d * p
        BY <1>0, <3>1
      <4> QED  BY <1>0, <3>1, <4>1
    <3>4. d * p \in Nat /\ B * p \in Nat
      BY <1>0, <3>1
    <3>5. l + d * p \in 0 .. B * p - 1
      <4> DEFINE X == d * p
                 Y == B * p
      <4>1. X \in Nat /\ Y \in Nat /\ X + p <= Y
        BY <3>3, <3>4
      <4> HIDE DEF X, Y
      <4>2. l + X \in 0 .. Y - 1
        BY <3>1, <4>1
      <4> QED  BY <4>2 DEF X, Y
    <3>6. k + 1 \in 0 .. w
      BY <1>0
    <3> QED  BY <3>2, <3>5, <3>6
  <2> HIDE DEF G
  <2>3. \A k \in 0 .. w : k \in G
    <3>1. \A k \in 0 .. w - 1 : k \in G => k + 1 \in G
      BY <2>2
    <3> QED  BY <1>0, <2>1, <3>1, InductionUpto, Zenon
  <2> QED  BY <2>3 DEF G
\* The digits above the first j make up a multiple of the power of j.
<1>3. ASSUME NEW j \in 0 .. w
      PROVE  \E q \in Nat : low[w] = low[j] + Power[j] * q
  <2> DEFINE Good(k) == \E q, m \in Nat : low[k] = low[j] + Power[j] * q /\ Power[k] = Power[j] * m
             G == {k \in 0 .. w : k >= j => Good(k)}
  <2>0. Power[j] \in Nat \ {0} /\ low[j] \in Nat
    BY <1>0, <1>1, <1>a
  <2>1. Good(j)
    <3>1. low[j] = low[j] + Power[j] * 0 /\ Power[j] = Power[j] * 1
      BY <2>0
    <3> QED  BY <3>1
  <2>2. ASSUME NEW k \in 0 .. w - 1, Good(k) PROVE Good(k + 1)
    <3>1. PICK q \in Nat, m \in Nat : low[k] = low[j] + Power[j] * q /\ Power[k] = Power[j] * m
      BY <2>2
    <3> DEFINE d == bs[k + 1]
               P == Power[j]
    <3>2. low[k + 1] = (low[j] + P * q) + d * (P * m) /\ Power[k + 1] = B * (P * m)
      <4>1. low[k + 1] = low[k] + d * Power[k] /\ Power[k + 1] = B * Power[k]
        BY <1>s
      <4> QED  BY <3>1, <4>1
    <3>3. P \in Nat /\ d \in Nat
      <4>1. d \in 0 .. B - 1
        BY <1>s, Zenon
      <4> QED  BY <2>0, <4>1, <1>0
    <3> HIDE DEF d, P
    <3>4. q + d * m \in Nat /\ B * m \in Nat
      BY <1>0, <3>3
    <3>5. (low[j] + P * q) + d * (P * m) = low[j] + P * (q + d * m) /\ B * (P * m) = P * (B * m)
      <4>1. d * (P * m) = P * (d * m) /\ B * (P * m) = P * (B * m)
        BY <1>0, <3>3
      <4>2. P * (q + d * m) = P * q + P * (d * m)
        BY <3>3
      <4>3. P * q \in Nat /\ P * (d * m) \in Nat
        BY <3>3
      <4> QED  BY <2>0, <4>1, <4>2, <4>3
    <3>6. low[k + 1] = low[j] + P * (q + d * m) /\ Power[k + 1] = P * (B * m)
      BY <3>2, <3>5
    <3> QED  BY <3>4, <3>6 DEF P
  <2> HIDE DEF Good
  <2>3. 0 \in G
    BY <1>0, <2>1
  <2>4. ASSUME NEW k \in 0 .. w - 1, k \in G PROVE k + 1 \in G
    <3>1. k + 1 \in 0 .. w
      BY <1>0
    <3>2. CASE k + 1 = j
      BY <2>1, <3>1, <3>2
    <3>3. CASE k >= j
      BY <2>2, <2>4, <3>1, <3>3
    <3> QED  BY <1>0, <3>1, <3>2, <3>3
  <2> HIDE DEF G
  <2>5. w \in G
    <3>1. \A k \in 0 .. w - 1 : k \in G => k + 1 \in G
      BY <2>4
    <3> QED  BY <1>0, <2>3, <3>1, w \in 0 .. w, InductionUpto, Zenon
  <2>6. Good(w)
    BY <1>0, <2>5 DEF G
  <2> QED  BY <2>6 DEF Good
<1>4. ASSUME NEW i \in 1 .. w PROVE (n \div Power[i - 1]) % B = bs[i]
  <2> DEFINE p == Power[i - 1]
             d == bs[i]
             l == low[i - 1]
  <2>0. i - 1 \in 0 .. w - 1 /\ (i - 1) + 1 = i /\ i \in 0 .. w /\ i - 1 \in 0 .. w
    BY <1>0
  <2>1. p \in Nat \ {0} /\ d \in 0 .. B - 1 /\ low[i] = l + d * p /\ Power[i] = B * p
    BY <1>s, <2>0
  <2>2. l \in 0 .. p - 1
    BY <1>2, <2>0
  <2>3. PICK q \in Nat : n = (l + d * p) + (B * p) * q
    BY <1>1, <1>3, <2>0, <2>1, Zenon
  <2> HIDE DEF p, d, l
  <2>4. n = l + p * (d + B * q)
    <3>1. p * (d + B * q) = d * p + (B * p) * q
      BY <1>0, <2>1
    <3>2. d * p \in Int /\ (B * p) * q \in Int
      BY <1>0, <2>1
    <3> QED  BY <2>2, <2>3, <3>1, <3>2
  <2>5. d + B * q \in Nat
    <3>1. B * q \in Nat
      BY <1>0, <2>1
    <3> QED  BY <2>1, <3>1
  <2>6. n \div p = d + B * q
    BY <2>1, <2>2, <2>4, <2>5, DivisionUnique, Zenon
  <2>7. (d + B * q) % B = d
    BY <1>0, <2>1, DivisionUnique, Zenon
  <2> QED  BY <2>6, <2>7 DEF p, d
<1>5. Bytes(n, w) = bs
  <2>1. Bytes(n, w) = [i \in 1 .. w |-> (n \div Power[i - 1]) % B]
    BY DEF Bytes
  <2>2. bs = [i \in 1 .. w |-> bs[i]]
    OBVIOUS
  <2> QED  BY <1>4, <2>1, <2>2
<1>6. n \in 0 .. Power[w] - 1
  BY <1>0, <1>1, <1>2
<1> QED  BY <1>5, <1>6 DEF n
-----------------------------------------------------------------------------
Text    == Seq(Byte)
Command == Seq(Text)

\* What Arguments has written, and RequestSize has counted, after each argument.
Parts(cmd) ==
    CHOOSE buf : buf = [i \in 0 .. Len(cmd) |->
        IF i = 0 THEN <<>> ELSE buf[i - 1] \o u32(Len(cmd[i])) \o cmd[i]]
Sizes(cmd) ==
    CHOOSE len : len = [i \in 0 .. Len(cmd) |->
        IF i = 0 THEN W ELSE AddSize(len[i - 1], cmd[i])]

\* u32 always writes W bytes.
LEMMA u32Bytes ==
    ASSUME NEW n \in Nat
    PROVE  u32(n) \in Text /\ Len(u32(n)) = W /\ W \in Nat /\ W > 0
<1>0. W \in Nat \ {0} /\ B \in Nat \ {0}
  BY WidthAssumption
<1>1. ASSUME NEW i \in 1 .. W PROVE (n \div Power[i - 1]) % B \in Byte
  <2>1. i - 1 \in 0 .. 2 * W
    BY <1>0
  <2>2. n \div Power[i - 1] \in Nat
    BY <2>1, PowerRule, Division, Zenon
  <2> QED  BY <1>0, <2>2, Division, Zenon DEF Byte
<1>2. u32(n) \in [1 .. W -> Byte]
  BY <1>1 DEF u32, Bytes
<1> QED  BY <1>0, <1>2 DEF Text

\* An integer below B^W survives u32 and U32, and so do W bytes.
LEMMA u32Inverse ==
    /\ \A n \in Nat : n < Power[W] => U32(u32(n)) = n
    /\ \A bs \in [1 .. W -> Byte] : U32(bs) \in Nat /\ u32(U32(bs)) = bs
<1>0. W \in 0 .. 2 * W /\ Power[W] \in Nat
  <2>1. W \in 0 .. 2 * W
    BY WidthAssumption
  <2> QED  BY <2>1, PowerRule
<1>1. ASSUME NEW n \in Nat, n < Power[W] PROVE U32(u32(n)) = n
  <2>1. Number(Bytes(n, W), W) = n
    BY <1>0, <1>1, NumberOfBytes
  <2> QED  BY <2>1 DEF U32, u32
<1>2. ASSUME NEW bs \in [1 .. W -> Byte] PROVE U32(bs) \in Nat /\ u32(U32(bs)) = bs
  <2>1. Number(bs, W) \in 0 .. Power[W] - 1 /\ Bytes(Number(bs, W), W) = bs
    BY <1>0, BytesOfNumber
  <2> QED  BY <1>0, <2>1 DEF U32, u32
<1> QED  BY <1>1, <1>2

\* Arguments, by the recursion of its loop.
LEMMA PartsRule ==
    ASSUME NEW cmd \in Command
    PROVE  /\ Parts(cmd) \in [0 .. Len(cmd) -> Text]
           /\ Parts(cmd)[0] = <<>>
           /\ \A i \in 1 .. Len(cmd) :
                 Parts(cmd)[i] = Parts(cmd)[i - 1] \o u32(Len(cmd[i])) \o cmd[i]
           /\ Arguments(cmd) = Parts(cmd)[Len(cmd)]
<1> DEFINE N == Len(cmd)
           head(i) == u32(Len(cmd[i]))
           Step == [i \in 1 .. N |-> [x \in Text |-> x \o head(i) \o cmd[i]]]
           F(f) == [i \in 0 .. N |-> IF i = 0 THEN <<>> ELSE f[i - 1] \o head(i) \o cmd[i]]
<1>0. N \in Nat /\ \A i \in 1 .. N : cmd[i] \in Text
  BY DEF Command
<1>a. Parts(cmd) = CHOOSE f : f = F(f)
  BY DEF Parts
<1>b. Arguments(cmd) = Parts(cmd)[N]
  BY DEF Parts, Arguments
<1>1. \A i \in 1 .. N : head(i) \in Text
  <2>1. \A i \in 1 .. N : Len(cmd[i]) \in Nat
    BY <1>0 DEF Text
  <2> QED  BY <2>1, u32Bytes
<1> HIDE DEF N, head
<1>2. Step \in [1 .. N -> [Text -> Text]]
  <2>1. \A i \in 1 .. N : \A x \in Text : x \o head(i) \o cmd[i] \in Text
    BY <1>0, <1>1 DEF Text
  <2> QED  BY <2>1
<1>3. PICK f : Unfolds(f, N, Text, <<>>, Step)
  <2>1. <<>> \in Text
    BY DEF Text
  <2> HIDE DEF Step
  <2> QED  BY <1>0, <1>2, <2>1, RecursionExists
<1>4. f = F(f)
  <2>1. ASSUME NEW i \in 1 .. N PROVE f[i] = f[i - 1] \o head(i) \o cmd[i]
    <3>1. i - 1 \in 0 .. N
      BY <1>0
    <3>2. f[i - 1] \in Text /\ f[i] = Step[i][f[i - 1]]
      BY <1>3, <3>1, Zenon DEF Unfolds
    <3> QED  BY <3>2, Zenon
  <2> DEFINE t(i) == f[i - 1] \o head(i) \o cmd[i]
  <2>2. \A i \in 1 .. N : f[i] = t(i)
    BY <2>1, Zenon
  <2> HIDE DEF Step, t
  <2>3. f = [i \in 0 .. N |-> IF i = 0 THEN <<>> ELSE t(i)]
    BY <1>0, <1>3, <2>2 DEF Unfolds
  <2> QED  BY <2>3, Zenon DEF t
<1> DEFINE g == Parts(cmd)
<1>5. g = F(g)
  <2> HIDE DEF F
  <2> QED  BY <1>4, <1>a
<1> HIDE DEF g
<1>6. g[0] = <<>> /\ \A i \in 1 .. N : g[i] = g[i - 1] \o head(i) \o cmd[i]
  BY <1>5, <1>0
<1>7. \A i \in 0 .. N : g[i] \in Text
  <2> DEFINE G == {i \in 0 .. N : g[i] \in Text}
  <2>0. <<>> \in Text
    BY DEF Text
  <2>1. 0 \in G
    BY <1>6, <1>0, <2>0
  <2>2. \A n \in 0 .. N - 1 : n \in G => n + 1 \in G
    <3>1. SUFFICES ASSUME NEW n \in 0 .. N - 1, g[n] \in Text PROVE g[n + 1] \in Text
      BY <1>0
    <3>2. n + 1 \in 1 .. N /\ (n + 1) - 1 = n
      BY <1>0
    <3>3. g[n + 1] = g[n] \o head(n + 1) \o cmd[n + 1]
      BY <1>6, <3>2, Zenon
    <3>4. head(n + 1) \in Text /\ cmd[n + 1] \in Text
      BY <1>0, <1>1, <3>2
    <3> QED  BY <3>1, <3>3, <3>4 DEF Text
  <2> HIDE DEF G
  <2>3. \A n \in 0 .. N : n \in G
    BY <1>0, <2>1, <2>2, InductionUpto
  <2> QED  BY <2>3 DEF G
<1>8. g \in [0 .. N -> Text]
  BY <1>5, <1>7
<1> QED
  BY <1>6, <1>8, <1>b DEF g, N, head

\* RequestSize, by the recursion of its loop.
LEMMA SizesRule ==
    ASSUME NEW cmd \in Command
    PROVE  /\ Sizes(cmd)[0] = W
           /\ \A i \in 1 .. Len(cmd) : Sizes(cmd)[i] = AddSize(Sizes(cmd)[i - 1], cmd[i])
           /\ RequestSize(cmd) = Sizes(cmd)[Len(cmd)]
<1> DEFINE N == Len(cmd)
           Step == [i \in 1 .. N |-> [x \in Int |-> AddSize(x, cmd[i])]]
           F(f) == [i \in 0 .. N |-> IF i = 0 THEN W ELSE AddSize(f[i - 1], cmd[i])]
<1>0. N \in Nat /\ W \in Int /\ \A i \in 1 .. N : Len(cmd[i]) \in Nat
  BY WidthAssumption DEF Command, Text
<1>a. Sizes(cmd) = CHOOSE f : f = F(f)
  BY DEF Sizes
<1>b. RequestSize(cmd) = Sizes(cmd)[N]
  BY DEF Sizes, RequestSize
<1> HIDE DEF N
<1>1. \A i \in 1 .. N : \A x \in Int : AddSize(x, cmd[i]) \in Int
  BY <1>0, WidthAssumption, LimitAssumption DEF AddSize
<1>2. Step \in [1 .. N -> [Int -> Int]]
  BY <1>1
<1>3. PICK f : Unfolds(f, N, Int, W, Step)
  <2> HIDE DEF Step
  <2> QED  BY <1>0, <1>2, RecursionExists, Zenon
<1>4. f = F(f)
  <2>1. ASSUME NEW i \in 1 .. N PROVE f[i] = AddSize(f[i - 1], cmd[i])
    <3>1. i - 1 \in 0 .. N
      BY <1>0
    <3>2. f[i - 1] \in Int /\ f[i] = Step[i][f[i - 1]]
      BY <1>3, <3>1 DEF Unfolds
    <3> QED  BY <3>2
  <2> HIDE DEF Step
  <2> QED  BY <1>0, <1>3, <2>1 DEF Unfolds
<1> DEFINE g == Sizes(cmd)
<1>5. g = F(g)
  <2> HIDE DEF F
  <2> QED  BY <1>4, <1>a
<1> HIDE DEF g
<1>6. g[0] = W /\ \A i \in 1 .. N : g[i] = AddSize(g[i - 1], cmd[i])
  <2> DEFINE t(i) == AddSize(g[i - 1], cmd[i])
  <2>1. g = [i \in 0 .. N |-> IF i = 0 THEN W ELSE t(i)]
    BY <1>5, Zenon
  <2> HIDE DEF t
  <2>2. g[0] = W /\ \A i \in 1 .. N : g[i] = t(i)
    <3>1. N \in Nat
      BY <1>0
    <3>2. 0 \in 0 .. N /\ \A i \in 1 .. N : i \in 0 .. N /\ i # 0
      BY <3>1
    <3> QED  BY <2>1, <3>2, Zenon
  <2> QED  BY <2>2 DEF t
<1> QED
  BY <1>6, <1>b DEF g, N

\* Facts about two and three texts put together.
LEMMA JoinText ==
    ASSUME NEW t1 \in Text, NEW t2 \in Text
    PROVE  t1 \o t2 \in Text /\ Len(t1 \o t2) = Len(t1) + Len(t2)
BY DEF Text

\* Joining texts is associative.
LEMMA Grouping == \A t1, t2, t3 \in Text : (t1 \o t2) \o t3 = t1 \o (t2 \o t3)
<1> SUFFICES ASSUME NEW t1 \in Text, NEW t2 \in Text, NEW t3 \in Text
             PROVE  (t1 \o t2) \o t3 = t1 \o (t2 \o t3)
  OBVIOUS
<1> QED  BY DEF Text

\* Three texts joined: their grouping and their length.
LEMMA JoinLength ==
    ASSUME NEW t1 \in Text, NEW t2 \in Text, NEW t3 \in Text
    PROVE  /\ t1 \o t2 \o t3 \in Text /\ t1 \o (t2 \o t3) = t1 \o t2 \o t3
           /\ Len(t1 \o t2 \o t3) = Len(t1) + Len(t2) + Len(t3)
<1>1. t1 \o t2 \in Text /\ Len(t1 \o t2) = Len(t1) + Len(t2)
  BY JoinText
<1>2. (t1 \o t2) \o t3 \in Text /\ Len((t1 \o t2) \o t3) = Len(t1 \o t2) + Len(t3)
  <2>1. t1 \o t2 \in Text
    BY <1>1
  <2> DEFINE x == t1 \o t2
  <2> HIDE DEF x
  <2> QED  BY <2>1, JoinText DEF x
<1>3. t1 \o (t2 \o t3) = t1 \o t2 \o t3
  BY Grouping, Zenon
<1>4. Len(t1 \o t2 \o t3) = Len(t1) + Len(t2) + Len(t3)
  BY <1>1, <1>2
<1> QED  BY <1>2, <1>3, <1>4, Zenon

\* One argument more: what is written, and that its size is known.
LEMMA NextPart ==
    ASSUME NEW cmd \in Command, NEW k \in 0 .. Len(cmd) - 1
    PROVE  /\ Parts(cmd)[k] \in Text /\ cmd[k + 1] \in Text /\ u32(Len(cmd[k + 1])) \in Text
           /\ Parts(cmd)[k + 1] = Parts(cmd)[k] \o u32(Len(cmd[k + 1])) \o cmd[k + 1]
           /\ Sizes(cmd)[k + 1] = AddSize(Sizes(cmd)[k], cmd[k + 1])
           /\ Len(Parts(cmd)[k]) \in Nat /\ Len(cmd[k + 1]) \in Nat
           /\ Len(Parts(cmd)[k + 1]) = Len(Parts(cmd)[k]) + W + Len(cmd[k + 1])
<1>1. Len(cmd) \in Nat
  BY DEF Command
<1>2. k + 1 \in 1 .. Len(cmd) /\ (k + 1) - 1 = k /\ k \in 0 .. Len(cmd)
  BY <1>1
<1>3. Parts(cmd)[k + 1] = Parts(cmd)[k] \o u32(Len(cmd[k + 1])) \o cmd[k + 1]
  BY <1>2, PartsRule, Zenon
<1>4. Sizes(cmd)[k + 1] = AddSize(Sizes(cmd)[k], cmd[k + 1])
  BY <1>2, SizesRule
<1>5. Parts(cmd)[k] \in Text /\ cmd[k + 1] \in Text
  <2>1. Parts(cmd)[k] \in Text
    BY <1>2, PartsRule, Zenon
  <2>2. cmd[k + 1] \in Text
    BY <1>2 DEF Command
  <2> QED  BY <2>1, <2>2
<1> DEFINE p == Parts(cmd)[k]
           s == cmd[k + 1]
           h == u32(Len(s))
<1>6. Len(p) \in Nat /\ Len(s) \in Nat
  BY <1>5 DEF Text
<1>7. h \in Text /\ Len(h) = W
  BY <1>6, u32Bytes
<1>8. Len(p \o h \o s) = Len(p) + W + Len(s)
  <2>1. p \in Text /\ s \in Text
    BY <1>5
  <2> HIDE DEF p, s, h
  <2> QED  BY <1>6, <1>7, <2>1, JoinLength, Zenon
<1> QED  BY <1>3, <1>4, <1>5, <1>6, <1>7, <1>8

\* encode_request computes the size of what it writes, as long as it is allowed.
LEMMA SizeExact ==
    ASSUME NEW cmd \in Command
    PROVE  /\ Arguments(cmd) \in Text /\ Len(Arguments(cmd)) \in Nat
           /\ RequestSize(cmd) = IF W + Len(Arguments(cmd)) <= MaxMsg
                                 THEN W + Len(Arguments(cmd)) ELSE -1
<1> DEFINE N == Len(cmd)
           Good(k) == Sizes(cmd)[k] = IF W + Len(Parts(cmd)[k]) <= MaxMsg
                                      THEN W + Len(Parts(cmd)[k]) ELSE -1
           G == {k \in 0 .. N : Good(k)}
<1>0. N \in Nat /\ W \in Nat \ {0} /\ MaxMsg \in Nat /\ W <= MaxMsg
  BY WidthAssumption, LimitAssumption DEF Command
<1>1. Good(0)
  <2>1. Len(Parts(cmd)[0]) = 0 /\ Sizes(cmd)[0] = W
    <3>1. Parts(cmd)[0] = <<>>
      BY PartsRule, Zenon
    <3> QED  BY <3>1, SizesRule
  <2> QED  BY <1>0, <2>1
<1>2. ASSUME NEW k \in 0 .. N - 1, Good(k) PROVE Good(k + 1)
  <2> DEFINE p == Len(Parts(cmd)[k])
             s == Len(cmd[k + 1])
             z == Sizes(cmd)[k]
  <2>1. p \in Nat /\ s \in Nat /\ Len(Parts(cmd)[k + 1]) = p + W + s
    BY NextPart, Zenon
  <2>2. Sizes(cmd)[k + 1] = IF z < 0 \/ z > MaxMsg - W \/ s > MaxMsg - z - W THEN -1 ELSE z + W + s
    BY NextPart, Zenon DEF AddSize
  <2>3. z = IF W + p <= MaxMsg THEN W + p ELSE -1
    BY <1>2
  <2> HIDE DEF p, s, z
  <2>4. CASE W + p <= MaxMsg
    <3>1. z = W + p
      BY <2>3, <2>4
    <3>2. Sizes(cmd)[k + 1] = IF W + (p + W + s) <= MaxMsg THEN W + (p + W + s) ELSE -1
      BY <1>0, <2>1, <2>2, <2>4, <3>1
    <3> QED  BY <2>1, <3>2
  <2>5. CASE ~(W + p <= MaxMsg)
    <3>1. Sizes(cmd)[k + 1] = -1
      BY <2>2, <2>3, <2>5
    <3>2. ~(W + (p + W + s) <= MaxMsg)
      BY <1>0, <2>1, <2>5
    <3> QED  BY <2>1, <3>1, <3>2
  <2> QED  BY <2>4, <2>5
<1>3. Good(N)
  <2> HIDE DEF Good
  <2>1. 0 \in G
    BY <1>0, <1>1
  <2>2. \A k \in 0 .. N - 1 : k \in G => k + 1 \in G
    BY <1>0, <1>2
  <2> HIDE DEF G
  <2>3. N \in G
    <3> HIDE DEF N
    <3> QED  BY <1>0, <2>1, <2>2, N \in 0 .. N, InductionUpto
  <2> QED  BY <2>3 DEF G
<1>4. Arguments(cmd) = Parts(cmd)[N] /\ RequestSize(cmd) = Sizes(cmd)[N]
  BY PartsRule, SizesRule, Zenon
<1>5. Arguments(cmd) \in Text
  <2>1. N \in 0 .. N
    BY <1>0
  <2>2. Parts(cmd) \in [0 .. N -> Text]
    BY PartsRule, Zenon
  <2> HIDE DEF N
  <2> QED  BY <1>4, <2>1, <2>2
<1>6. Len(Arguments(cmd)) \in Nat
  BY <1>5 DEF Text
<1> QED  BY <1>3, <1>4, <1>5, <1>6

\* Commands that agree on their first k arguments are written alike so far.
LEMMA PartsAgree ==
    ASSUME NEW c \in Command, NEW d \in Command, NEW m \in Nat,
           m <= Len(c), m <= Len(d), \A i \in 1 .. m : c[i] = d[i]
    PROVE  Parts(c)[m] = Parts(d)[m]
<1> DEFINE G == {k \in 0 .. m : Parts(c)[k] = Parts(d)[k]}
<1>0. Len(c) \in Nat /\ Len(d) \in Nat
  BY DEF Command
<1>1. 0 \in G
  <2>1. Parts(c)[0] = Parts(d)[0]
    BY PartsRule, Zenon
  <2> QED  BY <2>1
<1>2. ASSUME NEW k \in 0 .. m - 1, k \in G PROVE k + 1 \in G
  <2>1. k \in 0 .. Len(c) - 1 /\ k \in 0 .. Len(d) - 1 /\ k + 1 \in 1 .. m /\ k + 1 \in 0 .. m
    BY <1>0
  <2>2. Parts(c)[k + 1] = Parts(c)[k] \o u32(Len(c[k + 1])) \o c[k + 1]
    BY <2>1, NextPart, Zenon
  <2>3. Parts(d)[k + 1] = Parts(d)[k] \o u32(Len(d[k + 1])) \o d[k + 1]
    BY <2>1, NextPart, Zenon
  <2>4. c[k + 1] = d[k + 1] /\ Parts(c)[k] = Parts(d)[k]
    BY <1>2, <2>1
  <2>5. Parts(c)[k + 1] = Parts(d)[k + 1]
    BY <2>2, <2>3, <2>4
  <2> QED  BY <2>1, <2>5
<1>3. \A k \in 0 .. m - 1 : k \in G => k + 1 \in G
  BY <1>2
<1> HIDE DEF G
<1>4. m \in G
  BY <1>1, <1>3, m \in 0 .. m, InductionUpto, Zenon
<1> QED  BY <1>4 DEF G

\* What is written stays at the front of what is written later.
LEMMA PartsExtend ==
    ASSUME NEW c \in Command, NEW j \in 0 .. Len(c)
    PROVE  \E rest \in Text : Arguments(c) = Parts(c)[j] \o rest
<1> DEFINE N == Len(c)
           Good(k) == \E rest \in Text : Parts(c)[k] = Parts(c)[j] \o rest
           G == {k \in 0 .. N : k >= j => Good(k)}
<1>0. N \in Nat
  BY DEF Command
<1>1. Good(j)
  <2> DEFINE p == Parts(c)[j]
  <2>1. p \in Text
    BY PartsRule, Zenon
  <2> HIDE DEF p
  <2>2. p = p \o <<>> /\ <<>> \in Text
    BY <2>1 DEF Text
  <2> QED  BY <2>2, Zenon DEF p
<1>2. ASSUME NEW k \in 0 .. N - 1, Good(k) PROVE Good(k + 1)
  <2> DEFINE p == Parts(c)[j]
             h == u32(Len(c[k + 1]))
             s == c[k + 1]
  <2>1. PICK rest \in Text : Parts(c)[k] = p \o rest
    BY <1>2, Zenon
  <2>2. h \in Text /\ s \in Text /\ Parts(c)[k + 1] = (p \o rest) \o h \o s
    BY <2>1, NextPart, Zenon
  <2>3. p \in Text
    BY PartsRule, Zenon
  <2> HIDE DEF p, h, s
  <2>4. h \o s \in Text /\ rest \o (h \o s) \in Text /\ p \o rest \in Text
    BY <2>2, <2>3 DEF Text
  <2>5. (p \o rest) \o h \o s = (p \o rest) \o (h \o s)
    <3> DEFINE u == p \o rest
    <3>1. u \in Text
      BY <2>4
    <3> HIDE DEF u
    <3>2. u \o h \o s = u \o (h \o s)
      BY <2>2, <3>1, JoinLength, Zenon
    <3> QED  BY <3>2 DEF u
  <2>6. (p \o rest) \o (h \o s) = p \o (rest \o (h \o s))
    BY <2>3, <2>4, JoinLength, Zenon
  <2>7. Parts(c)[k + 1] = p \o (rest \o (h \o s))
    BY <2>2, <2>5, <2>6
  <2> QED  BY <2>4, <2>7, Zenon DEF p
<1> HIDE DEF Good
<1>3. 0 \in G
  BY <1>0, <1>1
<1>4. ASSUME NEW k \in 0 .. N - 1, k \in G PROVE k + 1 \in G
  <2>1. k + 1 \in 0 .. N
    BY <1>0
  <2>2. CASE k + 1 = j
    <3>1. Good(k + 1)
      BY <1>1, <2>2, Zenon
    <3> QED  BY <2>1, <3>1
  <2>3. CASE k >= j
    <3>1. Good(k)
      BY <1>4, <2>3
    <3>2. Good(k + 1)
      BY <1>2, <3>1
    <3> QED  BY <2>1, <3>2
  <2> QED  BY <1>0, <2>1, <2>2, <2>3
<1>5. \A k \in 0 .. N - 1 : k \in G => k + 1 \in G
  BY <1>4
<1>6. N \in G
  <2> HIDE DEF G, N
  <2> QED  BY <1>0, <1>3, <1>5, N \in 0 .. N, InductionUpto, Zenon
<1>7. Good(N)
  BY <1>0, <1>6
<1> QED  BY <1>7, PartsRule, Zenon DEF Good

\* What an argument more adds to what encode_request writes.
LEMMA ArgumentsAppend ==
    ASSUME NEW c \in Command, NEW s \in Text
    PROVE  /\ Append(c, s) \in Command
           /\ Arguments(Append(c, s)) = Arguments(c) \o u32(Len(s)) \o s
<1> DEFINE d == Append(c, s)
           m == Len(c)
<1>1. /\ d \in Command /\ Len(d) = m + 1 /\ m \in Nat /\ d[m + 1] = s
      /\ \A i \in 1 .. m : c[i] = d[i]
  BY DEF Command
<1> HIDE DEF d
<1>2. Parts(c)[m] = Parts(d)[m]
  BY <1>1, PartsAgree
<1>3. m \in 0 .. Len(d) - 1
  BY <1>1
<1>4. Parts(d)[m + 1] = Parts(d)[m] \o u32(Len(d[m + 1])) \o d[m + 1]
  BY <1>1, <1>3, NextPart, Zenon
<1>5. Arguments(d) = Parts(d)[m + 1] /\ Arguments(c) = Parts(c)[m]
  BY <1>1, PartsRule, Zenon
<1> QED  BY <1>1, <1>2, <1>4, <1>5 DEF d
-----------------------------------------------------------------------------
\* A read within the frame.
LEMMA SliceInside ==
    ASSUME frame \in Text, NEW a \in Nat, NEW n \in Nat, a + n <= Len(frame)
    PROVE  /\ Slice(a, n) \in [1 .. n -> Byte] /\ Slice(a, n) \in Text /\ Len(Slice(a, n)) = n
           /\ SubSeq(frame, 1, a) \o Slice(a, n) = SubSeq(frame, 1, a + n)
<1> DEFINE t == Slice(a, n)
           p == SubSeq(frame, 1, a)
           q == SubSeq(frame, 1, a + n)
<1>0. frame \in Seq(Byte) /\ Len(frame) \in Nat
  BY DEF Text
<1>1. t = [i \in 1 .. n |-> frame[a + i]]
  BY <1>0 DEF Slice
<1>2. \A i \in 1 .. n : frame[a + i] \in Byte
  <2>1. \A i \in 1 .. n : a + i \in 1 .. Len(frame)
    BY <1>0
  <2> QED  BY <1>0, <2>1
<1>3. t \in [1 .. n -> Byte]
  BY <1>1, <1>2, Zenon
<1>4. t \in Text /\ Len(t) = n
  BY <1>3 DEF Text
<1>5. p \in Seq(Byte) /\ Len(p) = a /\ \A i \in 1 .. a : p[i] = frame[i]
  BY <1>0
<1>6. q \in Seq(Byte) /\ Len(q) = a + n /\ \A i \in 1 .. a + n : q[i] = frame[i]
  BY <1>0
<1>7. t \in Seq(Byte) /\ \A i \in 1 .. n : t[i] = frame[a + i]
  BY <1>1, <1>4 DEF Text
<1> HIDE DEF p, q, t
<1>8. p \o t \in Seq(Byte) /\ Len(p \o t) = a + n
  BY <1>4, <1>5, <1>7, Joined, Zenon
<1>9. ASSUME NEW i \in 1 .. a + n PROVE (p \o t)[i] = q[i]
  <2>1. CASE i <= a
    BY <1>4, <1>5, <1>6, <1>7, <2>1
  <2>2. CASE i > a
    <3>1. i - a \in 1 .. n /\ a + (i - a) = i
      BY <2>2
    <3>2. (p \o t)[i] = t[i - a]
      BY <1>4, <1>5, <1>7, <2>2
    <3> QED  BY <1>6, <1>7, <3>1, <3>2
  <2>3. i <= a \/ i > a
    OBVIOUS
  <2> QED  BY <2>1, <2>2, <2>3, Zenon
<1>10. p \o t = q
  BY <1>6, <1>8, <1>9, SameElements
<1> QED  BY <1>3, <1>4, <1>10 DEF p, q, t

\* A read of a part of the frame that is known.
LEMMA SliceKnown ==
    ASSUME NEW x \in Text, NEW y \in Text, NEW z \in Text, frame = x \o y \o z
    PROVE  /\ frame \in Text /\ Len(x) + Len(y) <= Len(frame)
           /\ Slice(Len(x), Len(y)) = y
<1>1. x \in Seq(Byte) /\ y \in Seq(Byte) /\ z \in Seq(Byte)
  BY DEF Text
<1>2. Len(x) \in Nat /\ Len(y) \in Nat /\ Len(z) \in Nat
  BY <1>1
<1>3. frame \in Text /\ Len(frame) = Len(x) + Len(y) + Len(z)
  <2> DEFINE f == x \o y \o z
  <2>1. f \in Text /\ Len(f) = Len(x) + Len(y) + Len(z)
    BY JoinLength
  <2> QED  BY <2>1
<1>4. ASSUME NEW i \in 1 .. Len(y) PROVE Len(x) + i <= Len(frame) /\ frame[Len(x) + i] = y[i]
  <2>1. x \o y \in Seq(Byte) /\ Len(x \o y) = Len(x) + Len(y)
    BY <1>1
  <2>2. Len(x) + i \in 1 .. Len(x \o y) /\ (Len(x) + i) - Len(x) = i
    BY <1>2, <2>1
  <2>3. (x \o y)[Len(x) + i] = y[i]
    BY <1>1, <1>2, <2>1, <2>2
  <2>4. ((x \o y) \o z)[Len(x) + i] = (x \o y)[Len(x) + i]
    <3> DEFINE u == x \o y
               j == Len(x) + i
    <3>1. u \in Seq(Byte) /\ j \in 1 .. Len(u)
      BY <2>1, <2>2
    <3> HIDE DEF u, j
    <3>2. (u \o z)[j] = u[j]
      BY <1>1, <3>1
    <3> QED  BY <3>2 DEF u, j
  <2> QED  BY <1>2, <1>3, <2>3, <2>4
<1>5. y = [i \in 1 .. Len(y) |-> y[i]]
  BY <1>1
<1>6. Slice(Len(x), Len(y)) = [i \in 1 .. Len(y) |-> y[i]]
  BY <1>4 DEF Slice
<1> QED  BY <1>2, <1>3, <1>5, <1>6

\* Texts that start with as many bytes and are equal have equal rests.
LEMMA Cancel ==
    ASSUME NEW a \in Text, NEW b \in Text, NEW x \in Text, NEW y \in Text,
           Len(a) = Len(b), a \o x = b \o y
    PROVE  x = y
<1>0. a \in Seq(Byte) /\ b \in Seq(Byte) /\ x \in Seq(Byte) /\ y \in Seq(Byte)
  BY DEF Text
<1>1. Len(a) \in Nat /\ Len(b) \in Nat /\ Len(x) \in Nat /\ Len(y) \in Nat
  BY <1>0
<1>2. Len(a \o x) = Len(a) + Len(x) /\ Len(b \o y) = Len(b) + Len(y)
  BY <1>0, Joined, Zenon
<1>3. Len(x) = Len(y)
  BY <1>1, <1>2
<1>4. ASSUME NEW i \in 1 .. Len(x) PROVE x[i] = y[i]
  <2> DEFINE j == Len(a) + i
  <2>1. j \in 1 .. Len(a) + Len(x) /\ j > Len(a) /\ j - Len(a) = i
    BY <1>1
  <2> HIDE DEF j
  <2>2. (a \o x)[j] = x[i]
    BY <1>0, <1>1, <2>1
  <2>3. (b \o y)[j] = y[i]
    BY <1>0, <1>1, <1>3, <2>1
  <2> QED  BY <2>2, <2>3
<1> QED  BY <1>0, <1>3, <1>4, SameElements

\* The frame of a command encode_request takes.
LEMMA FrameOfCommand ==
    ASSUME frame \in Text, NEW c \in Command, encode_request(c) = Framed
    PROVE  /\ frame = u32(Len(c)) \o Arguments(c)
           /\ Len(c) \in Nat /\ Len(c) <= MaxArgs
           /\ Len(frame) = W + Len(Arguments(c)) /\ Len(frame) <= MaxMsg
<1> DEFINE len == RequestSize(c)
           h == u32(len)
           n == u32(Len(c))
           a == Arguments(c)
           f == u32(Len(frame))
<1>0. Len(c) \in Nat /\ Len(frame) \in Nat /\ frame \in Seq(Byte)
  BY DEF Command, Text
<1>1. f \in Text /\ n \in Text /\ Len(f) = W /\ Len(n) = W /\ W \in Nat /\ W > 0
  BY <1>0, u32Bytes
<1>2. a \in Text /\ Len(a) \in Nat /\ len = IF W + Len(a) <= MaxMsg THEN W + Len(a) ELSE -1
  BY SizeExact
<1>3. Framed = f \o frame /\ Framed # Refused
  <2>1. Framed = f \o frame
    BY DEF Framed
  <2>2. Len(f \o frame) = W + Len(frame)
    <3> HIDE DEF f
    <3> QED  BY <1>0, <1>1 DEF Text
  <2>3. Len(Refused) = 0
    BY DEF Refused
  <2> QED  BY <1>0, <1>1, <2>1, <2>2, <2>3
<1>4. Len(c) <= MaxArgs /\ ~(len < 0) /\ encode_request(c) = h \o n \o a
  <2>1. encode_request(c) = IF Len(c) > MaxArgs \/ len < 0 THEN Refused ELSE h \o n \o a
    BY DEF encode_request
  <2>2. ~(Len(c) > MaxArgs) /\ ~(len < 0)
    BY <1>3, <2>1
  <2> QED  BY <1>0, <2>1, <2>2, LimitAssumption
<1>5. W + Len(a) <= MaxMsg /\ len = W + Len(a) /\ len \in Nat
  BY <1>1, <1>2, <1>4
<1>6. h \in Text /\ Len(h) = W
  BY <1>5, u32Bytes
<1> HIDE DEF f, h, n, a, len
<1>7. h \o n \o a = h \o (n \o a) /\ n \o a \in Text /\ Len(n \o a) = Len(n) + Len(a)
  <2>1. n \o a \in Text /\ Len(n \o a) = Len(n) + Len(a)
    BY <1>1, <1>2, Joined, Zenon DEF Text
  <2> QED  BY <1>1, <1>2, <1>6, <2>1, JoinLength, Zenon
<1>8. h \o (n \o a) = f \o frame
  BY <1>3, <1>4, <1>7, Zenon
<1>9. n \o a = frame
  BY <1>1, <1>6, <1>7, <1>8, Cancel, Zenon
<1> QED  BY <1>0, <1>1, <1>4, <1>5, <1>7, <1>9 DEF n, a
-----------------------------------------------------------------------------
TypeInv ==
    /\ frame \in Text
    /\ pc \in {"start", "args", "done", "reject"}
    /\ cur \in Nat
    /\ nstr \in Nat
    /\ out \in Command

\* What the parser has passed is what encode_request writes for what it holds.
Consumed ==
    /\ cur <= Len(frame)
    /\ pc = "start" => cur = 0 /\ out = <<>>
    /\ pc \in {"args", "done"} =>
          /\ W <= Len(frame) /\ Len(frame) <= MaxMsg
          /\ nstr <= MaxArgs /\ Len(out) <= nstr
          /\ SubSeq(frame, 1, cur) = u32(nstr) \o Arguments(out)
    /\ pc = "done" => cur = Len(frame) /\ Len(out) = nstr

\* While it reads the frame of a command it has the command's first arguments.
Tracks ==
    \A c \in Command :
        encode_request(c) = Framed =>
            /\ pc # "reject"
            /\ pc = "args" => nstr = Len(c) /\ \A i \in 1 .. Len(out) : out[i] = c[i]

\* The inductive invariant.
IInv == TypeInv /\ Consumed /\ Tracks

\* No argument: nothing written.
LEMMA NoArguments == <<>> \in Command /\ Arguments(<<>>) = <<>>
<1>1. <<>> \in Command /\ Len(<<>>) = 0
  BY DEF Command
<1> QED  BY <1>1, PartsRule, Zenon

\* Nothing is read when parse_req starts.
LEMMA InitInv == Init => IInv
<1> SUFFICES ASSUME Init PROVE IInv
  OBVIOUS
<1>1. frame \in Text
  <2>1. frame \in Seq(Byte)
    BY FrameAssumption DEF Init, Byte
  <2> QED  BY <2>1 DEF Text
<1>2. pc = "start" /\ cur = 0 /\ nstr = 0 /\ out = <<>>
  BY DEF Init
<1>3. TypeInv
  BY <1>1, <1>2, NoArguments DEF TypeInv
<1>4. Consumed
  BY <1>1, <1>2 DEF Consumed, Text
<1>5. Tracks
  BY <1>2 DEF Tracks
<1> QED  BY <1>3, <1>4, <1>5 DEF IInv

\* The count a frame starts with, and the count of a command's frame.
LEMMA CountRead ==
    ASSUME frame \in Text, Len(frame) >= W
    PROVE  /\ U32(Slice(0, W)) \in Nat
           /\ SubSeq(frame, 1, W) = u32(U32(Slice(0, W))) \o Arguments(<<>>)
<1>0. W \in Nat /\ Len(frame) \in Nat
  BY WidthAssumption DEF Text
<1> DEFINE h == Slice(0, W)
           p == SubSeq(frame, 1, 0)
<1>1. h \in [1 .. W -> Byte] /\ h \in Text /\ p \o h = SubSeq(frame, 1, 0 + W)
  <2>1. 0 \in Nat /\ 0 + W <= Len(frame)
    BY <1>0
  <2> QED  BY <1>0, <2>1, SliceInside
<1>2. p = <<>>
  BY DEF Text
<1>3. U32(h) \in Nat /\ u32(U32(h)) = h
  BY <1>1, u32Inverse
<1> HIDE DEF h, p
<1>4. <<>> \o h = h /\ h \o <<>> = h /\ 0 + W = W
  BY <1>0, <1>1 DEF Text
<1>5. SubSeq(frame, 1, W) = h
  BY <1>1, <1>2, <1>4
<1> QED  BY <1>3, <1>4, <1>5, NoArguments, Zenon DEF h

\* The next argument of a command's frame is read whole.
LEMMA ArgumentRead ==
    ASSUME frame \in Text, cur \in Nat, nstr \in Nat, out \in Command,
           SubSeq(frame, 1, cur) = u32(nstr) \o Arguments(out), cur <= Len(frame),
           NEW c \in Command, encode_request(c) = Framed, nstr = Len(c),
           Len(out) < Len(c), \A i \in 1 .. Len(out) : out[i] = c[i]
    PROVE  LET s == c[Len(out) + 1]
           IN  /\ s \in Text
               /\ U32(Slice(cur, W)) = Len(s)
               /\ cur + W + Len(s) <= Len(frame)
               /\ Slice(cur + W, Len(s)) = s
<1> DEFINE k == Len(out)
           s == c[k + 1]
           h == u32(Len(s))
           p == Arguments(out)
           x == u32(nstr) \o p
<1>0. Len(c) \in Nat /\ k \in Nat /\ Len(frame) \in Nat
  BY DEF Command, Text
<1>1. /\ frame = u32(Len(c)) \o Arguments(c) /\ Len(frame) = W + Len(Arguments(c))
      /\ Len(frame) <= MaxMsg
  BY FrameOfCommand
<1>2. k \in 0 .. Len(c) - 1 /\ k + 1 \in 0 .. Len(c)
  BY <1>0
<1>3. p = Parts(c)[k]
  <2>1. Parts(out)[k] = Parts(c)[k]
    BY <1>0, PartsAgree
  <2> QED  BY <2>1, PartsRule, Zenon
<1>4. /\ p \in Text /\ s \in Text /\ h \in Text /\ Len(s) \in Nat
      /\ Parts(c)[k + 1] = p \o h \o s
  BY <1>2, <1>3, NextPart, Zenon
<1>5. PICK rest \in Text : Arguments(c) = (p \o h \o s) \o rest
  BY <1>2, <1>4, PartsExtend, Zenon
<1>6. u32(nstr) \in Text /\ Len(h) = W /\ W \in Nat
  BY <1>4, u32Bytes
<1>7. x \in Text /\ Len(x) = cur
  <2>1. x \in Text
    <3> HIDE DEF p
    <3> QED  BY <1>4, <1>6 DEF Text
  <2>2. Len(SubSeq(frame, 1, cur)) = cur
    BY <1>0 DEF Text
  <2> QED  BY <2>1, <2>2
<1>8. frame = u32(nstr) \o ((p \o h \o s) \o rest)
  BY <1>1, <1>5
<1> HIDE DEF p, h, s
<1>9. frame = x \o h \o (s \o rest) /\ frame = (x \o h) \o s \o rest
  <2> DEFINE u == u32(nstr)
  <2>u. u \in Text
    BY <1>6
  <2>p. p \in Text
    BY <1>4
  <2>h. h \in Text
    BY <1>4
  <2>s. s \in Text
    BY <1>4
  <2> DEFINE ph == p \o h
             phs == ph \o s
             xh == x \o h
  <2> HIDE DEF u
  <2>1. ph \in Text
    BY <2>p, <2>h, JoinText
  <2>2. u \o ph = (u \o p) \o h
    BY <2>u, <2>p, <2>h, Grouping, Zenon
  <2> HIDE DEF ph
  <2>3. phs \in Text
    BY <2>1, <2>s, JoinText
  <2>4. u \o (ph \o s) = (u \o ph) \o s
    BY <2>u, <2>1, <2>s, Grouping, Zenon
  <2> HIDE DEF phs
  <2>5. u \o (phs \o rest) = (u \o phs) \o rest
    BY <2>u, <2>3, Grouping, Zenon
  <2>6. x = u \o p /\ xh \in Text
    BY <1>7, <2>h, JoinText DEF u
  <2> HIDE DEF xh, x
  <2>7. (xh \o s) \o rest = xh \o (s \o rest)
    BY <2>6, <2>s, Grouping, Zenon
  <2>8. frame = u \o (phs \o rest)
    BY <1>8 DEF u, phs, ph
  <2>9. u \o phs = xh \o s
    BY <2>2, <2>4, <2>6 DEF phs, xh
  <2> QED  BY <2>5, <2>7, <2>8, <2>9, Zenon DEF xh
<1> HIDE DEF x
<1>10. x \o h \in Text /\ Len(x \o h) = cur + W /\ s \o rest \in Text
  BY <1>4, <1>6, <1>7, Joined, Zenon DEF Text
<1>11. Slice(cur, W) = h
  BY <1>4, <1>6, <1>7, <1>9, <1>10, SliceKnown, Zenon
<1>12. Slice(cur + W, Len(s)) = s /\ cur + W + Len(s) <= Len(frame)
  <2> DEFINE y == x \o h
  <2>1. y \in Text /\ Len(y) = cur + W /\ frame = y \o s \o rest
    BY <1>9, <1>10
  <2> HIDE DEF y
  <2> QED  BY <1>4, <2>1, SliceKnown, Zenon
<1>13. U32(h) = Len(s)
  <2>1. Power[W] \in Nat /\ Len(s) < Power[W]
    <3>1. W \in 0 .. 2 * W
      BY WidthAssumption
    <3>2. Power[W] \in Nat
      BY <3>1, PowerRule
    <3> QED  BY <1>0, <1>1, <1>4, <1>6, <1>12, <3>2, RangeAssumption, LimitAssumption
  <2> QED  BY <1>4, <2>1, u32Inverse DEF h
<1> QED  BY <1>4, <1>11, <1>12, <1>13 DEF s

\* The commands of a run are commands.
LEMMA CommandsAre == Commands \subseteq Command
<1>1. ASSUME NEW s \in Strings PROVE s \in Text
  <2>1. PICK n \in 0 .. MaxMsg - 2 * W : s \in [1 .. n -> ArgByte]
    BY DEF Strings
  <2>2. ArgByte \subseteq Byte /\ n \in Nat
    BY FrameAssumption, WidthAssumption, LimitAssumption DEF Byte
  <2>3. s \in [1 .. n -> Byte]
    BY <2>1, <2>2
  <2> QED  BY <2>2, <2>3 DEF Text
<1>2. ASSUME NEW c \in Commands PROVE c \in Command
  <2>1. PICK n \in 0 .. MaxArgs : c \in [1 .. n -> Strings]
    BY DEF Commands
  <2>2. n \in Nat /\ Strings \subseteq Text
    BY <1>1, LimitAssumption
  <2>3. c \in [1 .. n -> Text]
    BY <2>1, <2>2
  <2> QED  BY <2>2, <2>3 DEF Command
<1> QED  BY <1>2

\* The first checks: what holds of a frame they let pass, and that they let
\* every command's frame pass.
LEMMA parse_reqInv == IInv /\ parse_req => IInv'
<1> SUFFICES ASSUME IInv, parse_req PROVE IInv'
  OBVIOUS
<1> DEFINE n == U32(Slice(0, W))
<1>0. /\ frame \in Text /\ cur = 0 /\ out = <<>> /\ nstr \in Nat /\ frame' = frame /\ out' = out
      /\ Len(frame) \in Nat /\ W \in Nat \ {0} /\ MaxMsg \in Nat /\ MaxArgs \in Nat
  BY WidthAssumption, LimitAssumption DEF IInv, TypeInv, Consumed, parse_req, Reject, Text
<1>f. Framed' = Framed
  BY <1>0 DEF Framed
<1>c. ASSUME NEW c \in Command, encode_request(c) = Framed
      PROVE  /\ Len(frame) >= W /\ Len(frame) <= MaxMsg
             /\ n = Len(c) /\ n \in Nat /\ n <= MaxArgs
  <2>1. /\ frame = u32(Len(c)) \o Arguments(c) /\ Len(c) \in Nat /\ Len(c) <= MaxArgs
        /\ Len(frame) = W + Len(Arguments(c)) /\ Len(frame) <= MaxMsg
    BY <1>0, <1>c, FrameOfCommand
  <2> DEFINE h == u32(Len(c))
             a == Arguments(c)
  <2>2. h \in Text /\ Len(h) = W /\ a \in Text /\ Len(a) \in Nat
    BY <2>1, u32Bytes, SizeExact
  <2>3. Slice(0, W) = h
    <3> HIDE DEF h, a
    <3>1. <<>> \in Text /\ Len(<<>>) = 0 /\ <<>> \o h = h
      BY <2>2 DEF Text
    <3>2. frame = <<>> \o h \o a
      BY <2>1, <3>1 DEF h, a
    <3> QED  BY <2>2, <3>1, <3>2, SliceKnown, Zenon
  <2>4. Len(c) < Power[W]
    <3>1. W \in 0 .. 2 * W
      BY <1>0
    <3>2. Power[W] \in Nat
      BY <3>1, PowerRule
    <3> QED  BY <1>0, <2>1, <3>2, RangeAssumption
  <2>5. U32(h) = Len(c)
    BY <2>1, <2>4, u32Inverse
  <2> QED  BY <1>0, <2>1, <2>2, <2>3, <2>5
<1>1. CASE (Len(frame) < W \/ Len(frame) > MaxMsg \/ n > MaxArgs) /\ Reject
  <2>1. pc' = "reject" /\ cur' = cur /\ nstr' = nstr
    BY <1>1 DEF Reject
  <2>2. TypeInv'
    BY <1>0, <2>1 DEF IInv, TypeInv
  <2>3. Consumed'
    BY <1>0, <2>1 DEF Consumed
  <2>4. \A c \in Command : encode_request(c) # Framed
    BY <1>0, <1>1, <1>c
  <2>5. Tracks'
    BY <1>f, <2>4 DEF Tracks
  <2> QED  BY <2>2, <2>3, <2>5 DEF IInv
<1>2. CASE /\ Len(frame) >= W /\ Len(frame) <= MaxMsg /\ n <= MaxArgs
           /\ nstr' = n /\ cur' = W /\ pc' = "args"
  <2>1. n \in Nat /\ SubSeq(frame, 1, W) = u32(n) \o Arguments(<<>>)
    BY <1>0, <1>2, CountRead
  <2> HIDE DEF n
  <2>2. TypeInv'
    BY <1>0, <1>2, <2>1, NoArguments DEF TypeInv
  <2>3. Consumed'
    <3>1. SubSeq(frame, 1, cur)' = (u32(nstr) \o Arguments(out))'
      BY <1>0, <1>2, <2>1
    <3> QED  BY <1>0, <1>2, <2>1, <3>1 DEF Consumed
  <2>4. Tracks'
    <3>1. ASSUME NEW c \in Command, encode_request(c) = Framed PROVE nstr' = Len(c)
      BY <1>2, <1>c, <3>1
    <3>2. Len(out') = 0 /\ pc' # "reject"
      BY <1>0, <1>2
    <3> QED  BY <1>f, <3>1, <3>2 DEF Tracks
  <2> QED  BY <2>2, <2>3, <2>4 DEF IInv
<1> QED  BY <1>1, <1>2 DEF parse_req

\* One argument: it is what encode_request writes next, and of a command's
\* frame it is the command's next argument.
LEMMA ArgumentInv == IInv /\ Argument => IInv'
<1> SUFFICES ASSUME IInv, Argument PROVE IInv'
  OBVIOUS
<1> DEFINE n == U32(Slice(cur, W))
           a == Arguments(out)
<1>0. /\ frame \in Text /\ cur \in Nat /\ nstr \in Nat /\ out \in Command /\ frame' = frame
      /\ Len(frame) \in Nat /\ W \in Nat \ {0} /\ pc = "args" /\ Len(out) < nstr /\ Len(out) \in Nat
  BY WidthAssumption DEF IInv, TypeInv, Argument, Text, Command
<1>1. /\ cur <= Len(frame) /\ W <= Len(frame) /\ Len(frame) <= MaxMsg /\ nstr <= MaxArgs
      /\ SubSeq(frame, 1, cur) = u32(nstr) \o a
  BY <1>0 DEF IInv, Consumed
<1>f. Framed' = Framed
  BY <1>0 DEF Framed
<1>c. ASSUME NEW c \in Command, encode_request(c) = Framed
      PROVE  LET s == c[Len(out) + 1]
             IN  /\ nstr = Len(c) /\ \A i \in 1 .. Len(out) : out[i] = c[i]
                 /\ n = Len(s) /\ n \in Nat /\ cur + W + n <= Len(frame) /\ Slice(cur + W, n) = s
  <2> DEFINE s == c[Len(out) + 1]
  <2>1. nstr = Len(c) /\ \A i \in 1 .. Len(out) : out[i] = c[i]
    BY <1>0, <1>c DEF IInv, Tracks
  <2>2. /\ s \in Text /\ n = Len(s) /\ cur + W + Len(s) <= Len(frame) /\ Slice(cur + W, Len(s)) = s
    BY <1>0, <1>1, <1>c, <2>1, ArgumentRead, Zenon
  <2>3. Len(s) \in Nat
    BY <2>2 DEF Text
  <2> QED  BY <2>1, <2>2, <2>3
<1>2. CASE (Left < W \/ n > Left - W) /\ Reject
  <2>1. pc' = "reject" /\ cur' = cur /\ nstr' = nstr /\ out' = out
    BY <1>2 DEF Reject
  <2>2. TypeInv'
    BY <1>0, <2>1 DEF IInv, TypeInv
  <2>3. Consumed'
    BY <1>0, <1>1, <2>1 DEF Consumed
  <2>4. ASSUME NEW c \in Command, encode_request(c) = Framed PROVE FALSE
    <3>1. n \in Nat /\ cur + W + n <= Len(frame)
      BY <1>c, <2>4
    <3> HIDE DEF n
    <3> QED  BY <1>0, <1>2, <3>1 DEF Left
  <2>5. Tracks'
    BY <1>f, <2>4 DEF Tracks
  <2> QED  BY <2>2, <2>3, <2>5 DEF IInv
<1>3. CASE /\ Left >= W /\ n <= Left - W /\ out' = Append(out, Slice(cur + W, n))
           /\ cur' = cur + W + n /\ UNCHANGED <<pc, nstr>>
  <2> DEFINE h == Slice(cur, W)
             s == Slice(cur + W, n)
             p == SubSeq(frame, 1, cur)
  <2>1. h \in [1 .. W -> Byte] /\ h \in Text /\ p \o h = SubSeq(frame, 1, cur + W)
    <3>1. cur + W <= Len(frame)
      BY <1>0, <1>3 DEF Left
    <3> QED  BY <1>0, <3>1, SliceInside, Zenon
  <2>2. n \in Nat /\ u32(n) = h
    BY <2>1, u32Inverse
  <2>3. cur + W \in Nat /\ cur + W + n <= Len(frame) /\ cur + W + n \in Nat
    <3> HIDE DEF n
    <3> QED  BY <1>0, <1>3, <2>2 DEF Left
  <2>4. s \in Text /\ Len(s) = n /\ SubSeq(frame, 1, cur + W) \o s = SubSeq(frame, 1, cur + W + n)
    <3> HIDE DEF n
    <3> QED  BY <1>0, <2>2, <2>3, SliceInside, Zenon
  <2>5. out' \in Command /\ Arguments(out') = a \o u32(Len(s)) \o s
    BY <1>0, <1>3, <2>4, ArgumentsAppend, Zenon
  <2>6. Len(out') = Len(out) + 1 /\ out'[Len(out) + 1] = s /\ \A i \in 1 .. Len(out) : out'[i] = out[i]
    <3> HIDE DEF n, s
    <3> QED  BY <1>0, <1>3, <2>4 DEF Command, s
  <2>7. SubSeq(frame, 1, cur + W + n) = u32(nstr) \o (a \o u32(Len(s)) \o s)
    <3> DEFINE u == u32(nstr)
    <3>u. u \in Text
      BY <1>0, u32Bytes
    <3>a. a \in Text
      BY <1>0, SizeExact
    <3>h. h \in Text
      BY <2>1
    <3>s. s \in Text
      BY <2>4
    <3>1. p \o h \o s = SubSeq(frame, 1, cur + W + n) /\ p = u \o a /\ u32(Len(s)) = h
      BY <1>1, <2>1, <2>2, <2>4, Zenon
    <3> HIDE DEF u, a, h, s, p, n
    <3> DEFINE ah == a \o h
    <3>2. ah \in Text
      BY <3>a, <3>h, JoinText
    <3>3. (u \o a) \o h = u \o ah
      BY <3>u, <3>a, <3>h, Grouping, Zenon
    <3> HIDE DEF ah
    <3>4. (u \o ah) \o s = u \o (ah \o s)
      BY <3>u, <3>2, <3>s, Grouping, Zenon
    <3> QED  BY <3>1, <3>3, <3>4, Zenon DEF u, ah
  <2> HIDE DEF n, s, h, p, a
  <2>8. TypeInv'
    BY <1>0, <1>3, <2>3, <2>5 DEF TypeInv
  <2>9. Consumed'
    <3>1. SubSeq(frame, 1, cur)' = (u32(nstr) \o Arguments(out))'
      BY <1>0, <1>3, <2>5, <2>7, Zenon
    <3>2. Len(out') <= nstr
      BY <1>0, <2>6
    <3>3. cur' <= Len(frame')
      BY <1>0, <1>3, <2>3
    <3>4. pc' = "args" /\ nstr' = nstr /\ frame' = frame
      BY <1>0, <1>3
    <3>5. W <= Len(frame) /\ Len(frame) <= MaxMsg /\ nstr <= MaxArgs
      BY <1>1
    <3>6. "args" # "start" /\ "args" # "done"
      OBVIOUS
    <3> QED  BY <3>1, <3>2, <3>3, <3>4, <3>5, <3>6, Zenon DEF Consumed
  <2>10. Tracks'
    <3>1. ASSUME NEW c \in Command, encode_request(c) = Framed
          PROVE  nstr = Len(c) /\ \A i \in 1 .. Len(out') : out'[i] = c[i]
      <4>1. nstr = Len(c) /\ (\A i \in 1 .. Len(out) : out[i] = c[i]) /\ s = c[Len(out) + 1]
        BY <1>c, <3>1 DEF s
      <4> QED  BY <1>0, <2>6, <4>1
    <3>2. nstr' = nstr /\ pc' = "args"
      BY <1>0, <1>3
    <3> QED  BY <1>f, <3>1, <3>2 DEF Tracks
  <2> QED  BY <2>8, <2>9, <2>10 DEF IInv
<1> QED  BY <1>2, <1>3 DEF Argument

\* The end: the frame of a command is used up by then.
LEMMA FinishInv == IInv /\ Finish => IInv'
<1> SUFFICES ASSUME IInv, Finish PROVE IInv'
  OBVIOUS
<1>0. /\ frame \in Text /\ cur \in Nat /\ nstr \in Nat /\ out \in Command
      /\ Len(frame) \in Nat /\ pc = "args" /\ Len(out) = nstr
      /\ UNCHANGED <<frame, cur, nstr, out>> /\ pc' = IF cur = Len(frame) THEN "done" ELSE "reject"
  <2>1. Left = 0 <=> cur = Len(frame)
    BY DEF IInv, TypeInv, Left, Text
  <2> QED  BY <2>1 DEF IInv, TypeInv, Finish, Text
<1>1. /\ cur <= Len(frame) /\ W <= Len(frame) /\ Len(frame) <= MaxMsg /\ nstr <= MaxArgs
      /\ SubSeq(frame, 1, cur) = u32(nstr) \o Arguments(out)
  BY <1>0 DEF IInv, Consumed
<1>f. Framed' = Framed
  BY <1>0 DEF Framed
<1>2. TypeInv'
  BY <1>0 DEF TypeInv
<1>3. Consumed'
  <2>1. SubSeq(frame, 1, cur)' = (u32(nstr) \o Arguments(out))'
    BY <1>0, <1>1
  <2> QED  BY <1>0, <1>1, <2>1 DEF Consumed
<1>4. Tracks'
  <2>1. ASSUME NEW c \in Command, encode_request(c) = Framed PROVE cur = Len(frame)
    <3>1. nstr = Len(c) /\ \A i \in 1 .. Len(out) : out[i] = c[i]
      BY <1>0, <2>1 DEF IInv, Tracks
    <3>2. out = c
      BY <1>0, <3>1, SameElements DEF Command
    <3>3. frame = u32(Len(c)) \o Arguments(c)
      BY <1>0, <2>1, FrameOfCommand
    <3>4. SubSeq(frame, 1, cur) = frame
      BY <1>1, <3>1, <3>2, <3>3, Zenon
    <3>5. Len(SubSeq(frame, 1, cur)) = cur
      BY <1>0, <1>1 DEF Text
    <3> QED  BY <3>4, <3>5, Zenon
  <2>2. "args" # "done" /\ "args" # "reject" /\ "done" # "reject"
    OBVIOUS
  <2> QED  BY <1>0, <1>f, <2>1, <2>2 DEF Tracks
<1> QED  BY <1>2, <1>3, <1>4 DEF IInv

\* One step of parse_req, or none.
LEMMA ParserInv == IInv /\ [Next]_vars => IInv'
<1> SUFFICES ASSUME IInv, [Next]_vars PROVE IInv'
  OBVIOUS
<1>1. CASE UNCHANGED vars
  BY <1>1, Zenon DEF vars, IInv, TypeInv, Consumed, Tracks, Framed
<1> QED  BY <1>1, parse_reqInv, ArgumentInv, FinishInv DEF Next

\* IInv holds of every frame parse_req is given, at every step.
LEMMA Invariance == Spec => []IInv
BY InitInv, ParserInv, PTL DEF Spec

\* parse_req never reads past the end of the frame, whatever counts and
\* lengths the frame holds, for every width, limit and frame.
THEOREM BoundedReads == Spec => []ReadsInBounds
<1>1. IInv => ReadsInBounds
  BY DEF IInv, Consumed, ReadsInBounds
<1> QED  BY <1>1, Invariance, PTL

\* A request parse_req accepts is encoded again as the very same frame, and it
\* rejects no frame that encode_request writes for any command.
THEOREM ExactParsing == Spec => []ParsesExactly
<1>1. IInv => ParsesExactly
  <2> SUFFICES ASSUME IInv PROVE ParsesExactly
    OBVIOUS
  <2>0. frame \in Text /\ out \in Command /\ nstr \in Nat /\ Len(frame) \in Nat
    BY DEF IInv, TypeInv, Text
  <2>1. ASSUME pc = "done" PROVE encode_request(out) = Framed
    <3>1. /\ Len(out) = nstr /\ nstr <= MaxArgs /\ cur = Len(frame) /\ Len(frame) <= MaxMsg
          /\ SubSeq(frame, 1, cur) = u32(nstr) \o Arguments(out)
      BY <2>1 DEF IInv, Consumed
    <3>2. SubSeq(frame, 1, cur) = frame
      BY <2>0, <3>1 DEF Text
    <3> DEFINE u == u32(nstr)
               a == Arguments(out)
               f == u32(Len(frame))
    <3>3. u \in Text /\ Len(u) = W /\ f \in Text /\ W \in Nat
      BY <2>0, u32Bytes
    <3>4. /\ a \in Text /\ Len(a) \in Nat
          /\ RequestSize(out) = IF W + Len(a) <= MaxMsg THEN W + Len(a) ELSE -1
      BY <2>0, SizeExact
    <3>5. frame = u \o a
      BY <3>1, <3>2
    <3>6. encode_request(out) = IF Len(out) > MaxArgs \/ RequestSize(out) < 0 THEN Refused
                                ELSE u32(RequestSize(out)) \o u \o a
      BY <3>1 DEF encode_request
    <3> HIDE DEF u, a
    <3>7. Len(frame) = W + Len(a)
      BY <3>3, <3>4, <3>5, JoinText, Zenon
    <3>8. RequestSize(out) = Len(frame)
      BY <3>1, <3>4, <3>7
    <3>9. encode_request(out) = f \o u \o a
      BY <2>0, <3>1, <3>6, <3>8, LimitAssumption
    <3> HIDE DEF f
    <3>10. (f \o u) \o a = f \o (u \o a)
      BY <3>3, <3>4, Grouping, Zenon
    <3> QED  BY <3>5, <3>9, <3>10 DEF f, Framed
  <2>2. ASSUME pc = "reject" PROVE Framed \notin Encodings
    <3>1. \A c \in Command : encode_request(c) # Framed
      BY <2>2 DEF IInv, Tracks
    <3>2. Commands \subseteq Command
      BY CommandsAre
    <3> QED  BY <3>1, <3>2 DEF Encodings
  <2> QED  BY <2>1, <2>2 DEF ParsesExactly
<1> QED  BY <1>1, Invariance, PTL
-----------------------------------------------------------------------------
\* The byte a value starts with is a byte.
LEMMA TagText ==
    ASSUME NEW t \in 0 .. TAG_ARR
    PROVE  <<t>> \in Text /\ Len(<<t>>) = 1 /\ t \in Byte /\ \A x \in Text : (<<t>> \o x)[1] = t
<1>1. t \in Byte
  BY TagAssumption, WidthAssumption DEF Byte, TAG_ARR
<1>2. <<t>> \in Text /\ Len(<<t>>) = 1
  BY <1>1 DEF Text
<1>3. ASSUME NEW x \in Text PROVE (<<t>> \o x)[1] = t
  <2>1. x \in Seq(Byte) /\ <<t>> \in Seq(Byte) /\ Len(x) \in Nat
    BY <1>2 DEF Text
  <2> QED  BY <2>1, <1>2
<1> QED  BY <1>1, <1>2, <1>3

\* A part of a text that is known, and what follows it.
LEMMA AtKnown ==
    ASSUME NEW x \in Text, NEW y \in Text, NEW z \in Text
    PROVE  At(x \o y \o z, Len(x), Len(y)) = y
<1> DEFINE f == x \o y \o z
           a == Len(x)
           n == Len(y)
           t == At(f, a, n)
<1>1. x \in Seq(Byte) /\ y \in Seq(Byte) /\ z \in Seq(Byte)
  BY DEF Text
<1>2. a \in Nat /\ n \in Nat /\ Len(z) \in Nat
  BY <1>1
<1>3. f \in Seq(Byte) /\ Len(f) = a + n + Len(z)
  <2>1. f \in Text /\ Len(f) = Len(x) + Len(y) + Len(z)
    BY JoinLength
  <2> QED  BY <2>1 DEF Text
<1>4. ASSUME NEW i \in 1 .. n PROVE f[a + i] = y[i]
  <2> DEFINE u == x \o y
             j == a + i
  <2>1. u \in Seq(Byte) /\ Len(u) = a + n
    BY <1>1
  <2>2. j \in 1 .. Len(u) /\ j - a = i /\ j > a
    BY <1>2, <2>1
  <2>3. u[j] = y[i]
    <3> HIDE DEF j
    <3> QED  BY <1>1, <1>2, <2>1, <2>2
  <2> HIDE DEF u, j
  <2>4. (u \o z)[j] = u[j]
    BY <1>1, <2>1, <2>2
  <2> QED  BY <2>3, <2>4 DEF u, j
<1>5. t \in Seq(Byte) /\ Len(t) = n /\ \A i \in 1 .. n : t[i] = f[a + i]
  <2> HIDE DEF f, a, n
  <2>1. t = SubSeq(f, a + 1, a + n)
    BY DEF At
  <2>2. \A i \in (a + 1) .. (a + n) : f[i] \in Byte
    <3>1. \A i \in (a + 1) .. (a + n) : i \in 1 .. Len(f)
      BY <1>2, <1>3
    <3> QED  BY <1>3, <3>1
  <2>3. t = [i \in 1 .. n |-> f[a + i]]
    <3>1. (a + n) - (a + 1) + 1 = n
      BY <1>2
    <3>2. \A i \in 1 .. n : i + (a + 1) - 1 = a + i
      BY <1>2
    <3> QED  BY <1>2, <1>3, <2>1, <3>1, <3>2
  <2>4. \A i \in 1 .. n : f[a + i] \in Byte
    BY <1>2, <2>2
  <2> QED  BY <1>2, <2>3, <2>4
<1> HIDE DEF t, f, a
<1>6. t = y
  BY <1>1, <1>4, <1>5, SameElements
<1> QED  BY <1>6 DEF t, f, a, n

\* What follows a prefix of a buffer is the rest of it.
LEMMA AtRest ==
    ASSUME NEW x \in Text, NEW y \in Text
    PROVE  /\ x \o y \in Text /\ Len(x \o y) = Len(x) + Len(y) /\ Len(x) \in Nat /\ Len(y) \in Nat
           /\ At(x \o y, Len(x), Len(x \o y) - Len(x)) = y
<1>1. x \o y \in Text /\ Len(x \o y) = Len(x) + Len(y)
  BY JoinText
<1>2. Len(x) \in Nat /\ Len(y) \in Nat
  BY DEF Text
<1>3. Len(x \o y) - Len(x) = Len(y)
  BY <1>1, <1>2
<1> DEFINE u == x \o y
<1>4. u \o <<>> = u /\ <<>> \in Text
  <2> HIDE DEF u
  <2> QED  BY <1>1 DEF u, Text
<1>5. At(u \o <<>>, Len(x), Len(y)) = y
  BY <1>4, AtKnown, Zenon
<1> QED  BY <1>1, <1>2, <1>3, <1>4, <1>5
-----------------------------------------------------------------------------
\* The values of a response that are not arrays, and all values.
Int64   == (Power[2 * W] \div 2) - Power[2 * W] .. (Power[2 * W] \div 2) - 1
Scalars == {Nil} \cup {Str(s) : s \in Text} \cup {Num64(n) : n \in Int64}
           \cup {Dbl(b) : b \in [1 .. 2 * W -> Byte]}
           \cup {Err(c, s) : c \in 0 .. Power[W] - 1, s \in Text}
Answers == Scalars \cup {Arr(vs) : vs \in Seq(Scalars)}

Item(v) == Put(<<>>, v)

\* i64 always writes 2 * W bytes, and a number it can hold is read back.
LEMMA i64Inverse ==
    ASSUME NEW n \in Int64
    PROVE  i64(n) \in Text /\ Len(i64(n)) = 2 * W /\ I64(i64(n)) = n
<1> DEFINE P == Power[2 * W]
           u == n % P
<1>0. 2 * W \in 0 .. 2 * W /\ 2 * W \in Nat
  BY WidthAssumption
<1>1. P \in Nat \ {0}
  BY <1>0, PowerRule
<1>2. n \in Int /\ n >= (P \div 2) - P /\ n < P \div 2 /\ P \div 2 \in Nat /\ P \div 2 <= P
  <2> HIDE DEF P
  <2>1. P \div 2 \in Nat /\ P \div 2 <= P
    BY <1>1
  <2> QED  BY <1>1, <2>1 DEF Int64, P
<1>3. u = IF n >= 0 THEN n ELSE n + P
  <2> HIDE DEF P
  <2>1. CASE n >= 0
    <3>1. n \in 0 .. P - 1 /\ n = n + P * 0
      BY <1>1, <1>2, <2>1
    <3>2. (n + P * 0) % P = n
      BY <1>1, <3>1, DivisionUnique
    <3> QED  BY <2>1, <3>1, <3>2
  <2>2. CASE n < 0
    <3>1. n + P \in 0 .. P - 1
      BY <1>1, <1>2, <2>2
    <3> QED  BY <1>1, <1>2, <2>2, <3>1
  <2> QED  BY <1>2, <2>1, <2>2
<1>4. u \in Nat /\ u < P
  <2> HIDE DEF P, u
  <2> QED  BY <1>1, <1>2, <1>3
<1> HIDE DEF u
<1>5. Bytes(u, 2 * W) \in [1 .. 2 * W -> Byte] /\ Number(Bytes(u, 2 * W), 2 * W) = u
  BY <1>0, <1>4, NumberOfBytes
<1>6. i64(n) = Bytes(u, 2 * W)
  BY DEF i64, u
<1>7. I64(i64(n)) = IF u >= P \div 2 THEN u - P ELSE u
  BY <1>5, <1>6 DEF I64
<1>8. I64(i64(n)) = n
  <2> HIDE DEF P
  <2> QED  BY <1>1, <1>2, <1>3, <1>7
<1>9. i64(n) \in Text /\ Len(i64(n)) = 2 * W
  <2> DEFINE N == 2 * W
  <2>1. N \in Nat /\ i64(n) \in [1 .. N -> Byte]
    BY <1>0, <1>5, <1>6
  <2> HIDE DEF N
  <2>2. i64(n) \in Text /\ Len(i64(n)) = N
    BY <2>1 DEF Text
  <2> QED  BY <2>2 DEF N
<1> QED  BY <1>8, <1>9

\* What Put writes of each kind of value.
LEMMA ItemIs ==
    /\ Item(Nil) = <<TAG_NIL>>
    /\ \A s : Item(Str(s)) = <<TAG_STR>> \o u32(Len(s)) \o s
    /\ \A n : Item(Num64(n)) = <<TAG_INT>> \o i64(n)
    /\ \A b : Item(Dbl(b)) = <<TAG_DBL>> \o b
    /\ \A c, s : Item(Err(c, s)) = <<TAG_ERR>> \o u32(c) \o u32(Len(s)) \o s
<1>0. \A t : Append(<<>>, t) = <<t>>
  OBVIOUS
<1>1. Item(Nil) = <<TAG_NIL>>
  BY <1>0 DEF Item, Put, Nil, Value, out_nil, TAG_NIL, TAG_ERR, TAG_STR, TAG_INT, TAG_DBL
<1>2. \A s : Item(Str(s)) = <<TAG_STR>> \o u32(Len(s)) \o s
  BY <1>0 DEF Item, Put, Str, Value, out_str, TAG_NIL, TAG_ERR, TAG_STR, TAG_INT, TAG_DBL
<1>3. \A n : Item(Num64(n)) = <<TAG_INT>> \o i64(n)
  BY <1>0 DEF Item, Put, Num64, Value, out_int, TAG_NIL, TAG_ERR, TAG_STR, TAG_INT, TAG_DBL
<1>4. \A b : Item(Dbl(b)) = <<TAG_DBL>> \o b
  BY <1>0 DEF Item, Put, Dbl, Value, out_dbl, TAG_NIL, TAG_ERR, TAG_STR, TAG_INT, TAG_DBL
<1>5. \A c, s : Item(Err(c, s)) = <<TAG_ERR>> \o u32(c) \o u32(Len(s)) \o s
  BY <1>0 DEF Item, Put, Err, Value, out_err, TAG_NIL, TAG_ERR, TAG_STR, TAG_INT, TAG_DBL
<1> QED  BY <1>1, <1>2, <1>3, <1>4, <1>5, Zenon

\* Put writes the same after any output.
LEMMA PutIs ==
    ASSUME NEW buf \in Text
    PROVE  /\ Put(buf, Nil) = Append(buf, TAG_NIL)
           /\ \A s : Put(buf, Str(s)) = Append(buf, TAG_STR) \o u32(Len(s)) \o s
           /\ \A n : Put(buf, Num64(n)) = Append(buf, TAG_INT) \o i64(n)
           /\ \A b : Put(buf, Dbl(b)) = Append(buf, TAG_DBL) \o b
           /\ \A c, s : Put(buf, Err(c, s)) = Append(buf, TAG_ERR) \o u32(c) \o u32(Len(s)) \o s
<1>1. Put(buf, Nil) = Append(buf, TAG_NIL)
  BY DEF Put, Nil, Value, out_nil, TAG_NIL, TAG_ERR, TAG_STR, TAG_INT, TAG_DBL
<1>2. \A s : Put(buf, Str(s)) = Append(buf, TAG_STR) \o u32(Len(s)) \o s
  BY DEF Put, Str, Value, out_str, TAG_NIL, TAG_ERR, TAG_STR, TAG_INT, TAG_DBL
<1>3. \A n : Put(buf, Num64(n)) = Append(buf, TAG_INT) \o i64(n)
  BY DEF Put, Num64, Value, out_int, TAG_NIL, TAG_ERR, TAG_STR, TAG_INT, TAG_DBL
<1>4. \A b : Put(buf, Dbl(b)) = Append(buf, TAG_DBL) \o b
  BY DEF Put, Dbl, Value, out_dbl, TAG_NIL, TAG_ERR, TAG_STR, TAG_INT, TAG_DBL
<1>5. \A c, s : Put(buf, Err(c, s)) = Append(buf, TAG_ERR) \o u32(c) \o u32(Len(s)) \o s
  BY DEF Put, Err, Value, out_err, TAG_NIL, TAG_ERR, TAG_STR, TAG_INT, TAG_DBL
<1> QED  BY <1>1, <1>2, <1>3, <1>4, <1>5, Zenon

\* A tag and the texts written after it.
LEMMA WriteTag ==
    ASSUME NEW buf \in Text, NEW t \in 0 .. TAG_ARR
    PROVE  Append(buf, t) = buf \o <<t>>
BY TagText DEF Text

\* A tag and one field appended to a buffer, as a text after the buffer.
LEMMA WriteOne ==
    ASSUME NEW buf \in Text, NEW t \in 0 .. TAG_ARR, NEW x \in Text
    PROVE  Append(buf, t) \o x = buf \o (<<t>> \o x) /\ <<t>> \o x \in Text
<1> DEFINE tag == <<t>>
<1>0. tag \in Text
  BY TagText
<1>1. Append(buf, t) = buf \o tag
  BY WriteTag
<1> HIDE DEF tag
<1>2. tag \o x \in Text
  BY <1>0, JoinText
<1>3. (buf \o tag) \o x = buf \o (tag \o x)
  BY <1>0, Grouping, Zenon
<1> QED  BY <1>1, <1>2, <1>3 DEF tag

\* A tag and two fields appended to a buffer.
LEMMA WriteTwo ==
    ASSUME NEW buf \in Text, NEW t \in 0 .. TAG_ARR, NEW x \in Text, NEW y \in Text
    PROVE  Append(buf, t) \o x \o y = buf \o (<<t>> \o x \o y) /\ <<t>> \o x \o y \in Text
<1> DEFINE tx == <<t>> \o x
           b == Append(buf, t)
<1>1. tx \in Text /\ b \o x = buf \o tx
  BY WriteOne, SMTT(30)
<1> HIDE DEF tx, b
<1>2. tx \o y \in Text
  BY <1>1, JoinText
<1>3. (buf \o tx) \o y = buf \o (tx \o y)
  BY <1>1, Grouping, Zenon
<1>4. (b \o x) \o y = buf \o (tx \o y)
  BY <1>1, <1>3
<1> QED  BY <1>2, <1>4 DEF tx, b

\* What out_err appends: tag, code, length and text.
LEMMA WriteErr ==
    ASSUME NEW buf \in Text, NEW c \in Nat, NEW n \in Nat
    PROVE  \A z \in Text : Append(buf, TAG_ERR) \o u32(c) \o u32(n) \o z
                            = buf \o (<<TAG_ERR>> \o u32(c) \o u32(n) \o z)
<1> DEFINE h == u32(c)
           u == u32(n)
<1>1. h \in Text /\ u \in Text
  BY u32Bytes
<1>2. TAG_ERR \in 0 .. TAG_ARR
  BY DEF TAG_ERR, TAG_ARR
<1> HIDE DEF h, u
<1> DEFINE txy == <<TAG_ERR>> \o h \o u
           b == Append(buf, TAG_ERR) \o h \o u
<1>3. txy \in Text /\ b = buf \o txy
  BY <1>1, <1>2, WriteTwo, ZenonT(60)
<1> HIDE DEF txy, b
<1>4. \A z \in Text : (buf \o txy) \o z = buf \o (txy \o z)
  BY <1>3, Grouping, Zenon
<1>5. \A z \in Text : b \o z = buf \o (txy \o z)
  BY <1>3, <1>4
<1> QED  BY <1>5, Zenon DEF txy, b, h, u

\* The cases of a value that is not an array.
LEMMA ScalarCases ==
    ASSUME NEW v \in Scalars
    PROVE  \/ v = Nil
           \/ \E s \in Text : v = Str(s)
           \/ \E n \in Int64 : v = Num64(n)
           \/ \E b \in [1 .. 2 * W -> Byte] : v = Dbl(b)
           \/ \E c \in 0 .. Power[W] - 1, s \in Text : v = Err(c, s)
BY DEF Scalars

\* A value that is not an array is written behind what there is, in as many
\* bytes as ScalarSize says, the tag first.
LEMMA PutItem ==
    ASSUME NEW v \in Scalars, NEW buf \in Text
    PROVE  /\ Put(buf, v) = buf \o Item(v)
           /\ Item(v) \in Text /\ Len(Item(v)) = ScalarSize(v) /\ Len(Item(v)) \in Nat \ {0}
           /\ v.tag \in 0 .. TAG_DBL /\ Item(v)[1] = v.tag
<1> DEFINE Good(x) == /\ Put(buf, x) = buf \o Item(x)
                      /\ Item(x) \in Text /\ Len(Item(x)) = ScalarSize(x) /\ Len(Item(x)) \in Nat \ {0}
                      /\ x.tag \in 0 .. TAG_DBL /\ Item(x)[1] = x.tag
<1>0. W \in Nat \ {0} /\ \A t \in 0 .. TAG_DBL : t \in 0 .. TAG_ARR
  BY WidthAssumption DEF TAG_DBL, TAG_ARR
<1>t. ASSUME NEW t \in 0 .. TAG_DBL
      PROVE  <<t>> \in Text /\ Len(<<t>>) = 1 /\ \A x \in Text : (<<t>> \o x)[1] = t
  BY <1>0, TagText
<1>g. TAG_NIL \in 0 .. TAG_DBL /\ TAG_STR \in 0 .. TAG_DBL /\ TAG_INT \in 0 .. TAG_DBL
      /\ TAG_DBL \in 0 .. TAG_DBL /\ TAG_ERR \in 0 .. TAG_DBL
  BY DEF TAG_NIL, TAG_ERR, TAG_STR, TAG_INT, TAG_DBL
<1>a. TAG_NIL \in 0 .. TAG_ARR /\ TAG_STR \in 0 .. TAG_ARR /\ TAG_ERR \in 0 .. TAG_ARR
  BY DEF TAG_NIL, TAG_ERR, TAG_STR, TAG_ARR
<1>1. Good(Nil)
  <2>1. Put(buf, Nil) = buf \o Item(Nil) /\ Item(Nil) = <<TAG_NIL>>
    <3>1. Put(buf, Nil) = Append(buf, TAG_NIL) /\ Item(Nil) = <<TAG_NIL>>
      BY PutIs, ItemIs
    <3>2. Append(buf, TAG_NIL) = buf \o <<TAG_NIL>>
      BY <1>a, WriteTag
    <3> QED  BY <3>1, <3>2
  <2>2. Nil.tag = TAG_NIL /\ ScalarSize(Nil) = 1
    BY DEF Nil, Value, ScalarSize, TAG_NIL, TAG_ERR, TAG_STR, TAG_INT, TAG_DBL
  <2>3. <<TAG_NIL>> \in Text /\ Len(<<TAG_NIL>>) = 1 /\ <<TAG_NIL>>[1] = TAG_NIL
    BY <1>g, <1>t
  <2> QED  BY <1>g, <2>1, <2>2, <2>3
<1>2. ASSUME NEW s \in Text PROVE Good(Str(s))
  <2> DEFINE v1 == Str(s)
             u == u32(Len(s))
             y == u \o s
  <2>1. Len(s) \in Nat /\ u \in Text /\ Len(u) = W
    <3>1. Len(s) \in Nat
      BY DEF Text
    <3> QED  BY <3>1, u32Bytes
  <2>2. Item(v1) = <<TAG_STR>> \o u \o s
    BY ItemIs, Zenon
  <2>3. Put(buf, v1) = buf \o Item(v1)
    <3>1. Put(buf, v1) = Append(buf, TAG_STR) \o u \o s
      BY PutIs, Zenon
    <3> HIDE DEF u, v1
    <3>2. Append(buf, TAG_STR) \o u \o s = buf \o (<<TAG_STR>> \o u \o s)
      BY <1>a, <2>1, WriteTwo, ZenonT(60)
    <3> QED  BY <2>2, <3>1, <3>2, Zenon
  <2>4. v1.tag = TAG_STR /\ ScalarSize(v1) = 1 + W + Len(s)
    BY DEF Str, Value, ScalarSize, TAG_NIL, TAG_ERR, TAG_STR, TAG_INT, TAG_DBL
  <2>5. <<TAG_STR>> \in Text /\ Len(<<TAG_STR>>) = 1
    BY <1>g, <1>t
  <2>6. y \in Text /\ Item(v1) = <<TAG_STR>> \o y /\ Item(v1) \in Text /\ Len(Item(v1)) = 1 + W + Len(s)
    <3> DEFINE g == <<TAG_STR>>
    <3>1. g \in Text /\ Len(g) = 1
      BY <2>5
    <3> HIDE DEF u, g, v1
    <3>2. y \in Text
      BY <2>1, JoinText
    <3>3. g \o u \o s \in Text /\ g \o y = g \o u \o s /\ Len(g \o u \o s) = Len(g) + Len(u) + Len(s)
      BY <2>1, <3>1, JoinLength, Zenon
    <3>4. Item(v1) = g \o u \o s
      BY <2>2 DEF g
    <3> QED  BY <2>1, <3>1, <3>2, <3>3, <3>4 DEF g
  <2>7. Item(v1)[1] = TAG_STR
    BY <1>g, <1>t, <2>6
  <2> HIDE DEF v1
  <2> QED  BY <1>0, <1>g, <2>1, <2>3, <2>4, <2>6, <2>7 DEF v1
<1>3. ASSUME NEW x \in Text, Len(x) = 2 * W, NEW v1, NEW t \in 0 .. TAG_DBL, v1.tag = t,
             ScalarSize(v1) = 1 + 2 * W, Item(v1) = <<t>> \o x, Put(buf, v1) = Append(buf, t) \o x
      PROVE  Good(v1)
  <2>1. <<t>> \in Text /\ Len(<<t>>) = 1 /\ Item(v1)[1] = t
    BY <1>t, <1>3
  <2>2. Item(v1) \in Text /\ Len(Item(v1)) = 1 + 2 * W
    <3> DEFINE g == <<t>>
    <3>1. g \in Text /\ Len(g) = 1 /\ Item(v1) = g \o x
      BY <1>3, <2>1
    <3> HIDE DEF g
    <3> QED  BY <1>3, <3>1, JoinText, Zenon
  <2>3. Put(buf, v1) = buf \o Item(v1)
    <3>1. t \in 0 .. TAG_ARR
      BY <1>0
    <3>2. Append(buf, t) \o x = buf \o (<<t>> \o x)
      BY <3>1, WriteOne
    <3> QED  BY <1>3, <3>2, Zenon
  <2> QED  BY <1>0, <1>3, <2>1, <2>2, <2>3
<1>4. ASSUME NEW n \in Int64 PROVE Good(Num64(n))
  <2>1. Num64(n).tag = TAG_INT /\ ScalarSize(Num64(n)) = 1 + 2 * W
    BY DEF Num64, Value, ScalarSize, TAG_NIL, TAG_ERR, TAG_STR, TAG_INT, TAG_DBL
  <2>2. i64(n) \in Text /\ Len(i64(n)) = 2 * W
    BY i64Inverse
  <2>3. Item(Num64(n)) = <<TAG_INT>> \o i64(n) /\ Put(buf, Num64(n)) = Append(buf, TAG_INT) \o i64(n)
    BY ItemIs, PutIs, Zenon
  <2> HIDE DEF Good
  <2> QED  BY <1>g, <1>3, <2>1, <2>2, <2>3, Zenon
<1>5. ASSUME NEW b \in [1 .. 2 * W -> Byte] PROVE Good(Dbl(b))
  <2>1. Dbl(b).tag = TAG_DBL /\ ScalarSize(Dbl(b)) = 1 + 2 * W
    BY DEF Dbl, Value, ScalarSize, TAG_NIL, TAG_ERR, TAG_STR, TAG_INT, TAG_DBL
  <2>2. b \in Text /\ Len(b) = 2 * W
    <3> DEFINE N == 2 * W
    <3>1. N \in Nat /\ b \in [1 .. N -> Byte]
      BY <1>0
    <3> HIDE DEF N
    <3>2. b \in Text /\ Len(b) = N
      BY <3>1 DEF Text
    <3> QED  BY <3>2 DEF N
  <2>3. Item(Dbl(b)) = <<TAG_DBL>> \o b /\ Put(buf, Dbl(b)) = Append(buf, TAG_DBL) \o b
    BY ItemIs, PutIs, Zenon
  <2> HIDE DEF Good
  <2> QED  BY <1>g, <1>3, <2>1, <2>2, <2>3, Zenon
<1>6. ASSUME NEW c \in 0 .. Power[W] - 1, NEW s \in Text PROVE Good(Err(c, s))
  <2> DEFINE v1 == Err(c, s)
             h == u32(c)
             u == u32(Len(s))
  <2>1. Len(s) \in Nat /\ u \in Text /\ Len(u) = W /\ h \in Text /\ Len(h) = W
    <3>1. Len(s) \in Nat /\ c \in Nat
      BY DEF Text
    <3> QED  BY <3>1, u32Bytes
  <2>2. Item(v1) = <<TAG_ERR>> \o h \o u \o s
    BY ItemIs, Zenon
  <2>3. Put(buf, v1) = buf \o Item(v1)
    <3>1. Put(buf, v1) = Append(buf, TAG_ERR) \o h \o u \o s
      BY DEF Put, Err, Value, out_err, TAG_NIL, TAG_ERR, TAG_STR, TAG_INT, TAG_DBL
    <3>2. Append(buf, TAG_ERR) \o h \o u \o s = buf \o (<<TAG_ERR>> \o h \o u \o s)
      <4>1. c \in Nat
        OBVIOUS
      <4>2. Len(s) \in Nat
        BY <2>1
      <4> QED  BY <4>1, <4>2, WriteErr, Zenon
    <3> HIDE DEF u, v1, h
    <3> QED  BY <2>2, <3>1, <3>2, Zenon
  <2>4. v1.tag = TAG_ERR /\ ScalarSize(v1) = 1 + 2 * W + Len(s)
    BY DEF Err, Value, ScalarSize, TAG_NIL, TAG_ERR, TAG_STR, TAG_INT, TAG_DBL
  <2>5. /\ Item(v1) = <<TAG_ERR>> \o ((h \o u) \o s) /\ (h \o u) \o s \in Text
        /\ Item(v1) \in Text /\ Len(Item(v1)) = 1 + 2 * W + Len(s)
    <3> DEFINE g == <<TAG_ERR>>
               hu == h \o u
               w == hu \o s
    <3>1. g \in Text /\ Len(g) = 1
      BY <1>g, <1>t
    <3>2. Item(v1) = ((g \o h) \o u) \o s
      BY <2>2
    <3> HIDE DEF u, g, h, v1
    <3>3. hu \in Text /\ Len(hu) = 2 * W
      BY <1>0, <2>1, JoinText
    <3>4. (g \o h) \o u = g \o hu
      BY <2>1, <3>1, JoinLength, ZenonT(60)
    <3> HIDE DEF hu
    <3>5. (g \o hu) \o s = g \o w /\ w \in Text /\ Len(w) = 2 * W + Len(s)
      <4>1. g \in Text /\ hu \in Text
        BY <3>1, <3>3
      <4>2. (g \o hu) \o s = g \o w
        BY <4>1, Grouping, ZenonT(60)
      <4>3. w \in Text /\ Len(w) = Len(hu) + Len(s)
        BY <4>1, JoinText
      <4> QED  BY <3>3, <4>2, <4>3
    <3> HIDE DEF w
    <3>6. g \o w \in Text /\ Len(g \o w) = 1 + Len(w)
      BY <3>1, <3>5, JoinText, Zenon
    <3>7. Item(v1) = g \o w
      BY <3>2, <3>4, <3>5
    <3> QED  BY <1>0, <2>1, <3>5, <3>6, <3>7 DEF g, w, hu
  <2>6. Item(v1)[1] = TAG_ERR
    BY <1>g, <1>t, <2>5
  <2> HIDE DEF v1
  <2> QED  BY <1>0, <1>g, <2>1, <2>3, <2>4, <2>5, <2>6 DEF v1
<1>7. Good(v)
  <2> HIDE DEF Good
  <2> QED  BY <1>1, <1>2, <1>4, <1>5, <1>6, ScalarCases
<1> QED  BY <1>7

-----------------------------------------------------------------------------
\* print_response, by the recursion on the levels it may still enter.
LEMMA PrinterRule == \A l \in 1 .. MaxDepth + 1 : Printer[l] = Printing(Printer[l - 1])
<1> DEFINE N == MaxDepth + 1
           base == [data \in Seq(Int) |-> Failed]
           Upto(n, f) == f = [l \in 0 .. n |-> IF l = 0 THEN base ELSE Printing(f[l - 1])]
           G == {n \in 0 .. N : \E f : Upto(n, f)}
<1>0. N \in Nat
  BY DepthAssumption
<1>a. Printer = CHOOSE f : Upto(N, f)
  BY DEF Printer
<1> HIDE DEF N, base
<1>1. 0 \in G
  <2> DEFINE f == [l \in 0 .. 0 |-> base]
  <2>1. f = [l \in 0 .. 0 |-> IF l = 0 THEN base ELSE Printing(f[l - 1])]
    <3>1. \A l \in 0 .. 0 : l = 0
      OBVIOUS
    <3> QED  BY <3>1
  <2> HIDE DEF f
  <2>2. \E g : Upto(0, g)
    BY <2>1
  <2> QED  BY <1>0, <2>2
<1>2. ASSUME NEW n \in 0 .. N - 1, n \in G PROVE n + 1 \in G
  <2>1. PICK f : Upto(n, f)
    BY <1>2
  <2> DEFINE top == Printing(f[n])
             g == [l \in 0 .. n + 1 |-> IF l <= n THEN f[l] ELSE top]
  <2>2. \A l \in 0 .. n : f[l] = IF l = 0 THEN base ELSE Printing(f[l - 1])
    BY <2>1
  <2>3. ASSUME NEW l \in 0 .. n + 1
        PROVE  (IF l <= n THEN f[l] ELSE top) = IF l = 0 THEN base ELSE Printing(g[l - 1])
    <3>1. CASE l = 0
      BY <1>0, <2>2, <3>1
    <3>2. CASE l # 0
      <4>1. l - 1 \in 0 .. n + 1 /\ l - 1 <= n /\ g[l - 1] = f[l - 1]
        BY <3>2
      <4>2. l <= n \/ l = n + 1
        OBVIOUS
      <4>3. l <= n => l \in 0 .. n
        OBVIOUS
      <4>4. l = n + 1 => l - 1 = n /\ ~(l <= n)
        OBVIOUS
      <4> HIDE DEF g
      <4> QED  BY <2>2, <3>2, <4>1, <4>2, <4>3, <4>4
    <3> QED  BY <3>1, <3>2
  <2>4. g = [l \in 0 .. n + 1 |-> IF l = 0 THEN base ELSE Printing(g[l - 1])]
    <3> DEFINE p(l) == IF l <= n THEN f[l] ELSE top
               q(l) == IF l = 0 THEN base ELSE Printing(g[l - 1])
    <3>1. \A l \in 0 .. n + 1 : p(l) = q(l)
      BY <2>3
    <3>2. g = [l \in 0 .. n + 1 |-> p(l)]
      OBVIOUS
    <3> HIDE DEF p, q, g
    <3>3. g = [l \in 0 .. n + 1 |-> q(l)]
      BY <3>1, <3>2
    <3> QED  BY <3>3 DEF q
  <2> HIDE DEF g
  <2>5. \E h : Upto(n + 1, h)
    BY <2>4
  <2>6. n + 1 \in 0 .. N
    BY <1>0
  <2> QED  BY <2>5, <2>6
<1>3. N \in G
  <2>1. \A n \in 0 .. N - 1 : n \in G => n + 1 \in G
    BY <1>2
  <2> HIDE DEF G
  <2> QED  BY <1>0, <1>1, <2>1, N \in 0 .. N, InductionUpto
<1>4. Upto(N, Printer)
  <2>1. \E f : Upto(N, f)
    BY <1>3
  <2> HIDE DEF Upto
  <2> QED  BY <1>a, <2>1
<1>5. ASSUME NEW l \in 1 .. N PROVE Printer[l] = Printing(Printer[l - 1])
  <2>1. l \in 0 .. N /\ l # 0
    BY <1>0
  <2> QED  BY <1>4, <2>1, Zenon
<1> QED  BY <1>5 DEF N

\* The word at place i after the tag, and the loop over the members of an array.
Word(data, i) == U32(At(data, 1 + i * W, W))
Members(inner, data) ==
    CHOOSE loop : loop = [k \in 0 .. Word(data, 0) |->
        IF k = 0 THEN [n |-> 1 + W, v |-> Arr(<<>>)]
        ELSE LET done == loop[k - 1]
                 r    == inner[At(data, done.n, Len(data) - done.n)]
             IN  IF done.n < 0 \/ r.n < 0 THEN Failed
                 ELSE [n |-> done.n + r.n, v |-> Arr(Append(done.v.items, r.v))]]

\* What print_response does on each tag.
LEMMA PrintingIs ==
    ASSUME NEW inner, NEW data \in Seq(Int), NEW size \in Nat \ {0}, size = Len(data)
    PROVE  /\ data[1] = TAG_NIL => Printing(inner)[data] = [n |-> 1, v |-> Nil]
           /\ data[1] = TAG_ERR /\ size >= 1 + 2 * W /\ Word(data, 1) <= size - 1 - 2 * W =>
                 Printing(inner)[data] = [n |-> 1 + 2 * W + Word(data, 1),
                                          v |-> Err(Word(data, 0), At(data, 1 + 2 * W, Word(data, 1)))]
           /\ data[1] = TAG_STR /\ size >= 1 + W /\ Word(data, 0) <= size - 1 - W =>
                 Printing(inner)[data] = [n |-> 1 + W + Word(data, 0),
                                          v |-> Str(At(data, 1 + W, Word(data, 0)))]
           /\ data[1] = TAG_INT /\ size >= 1 + 2 * W =>
                 Printing(inner)[data] = [n |-> 1 + 2 * W, v |-> Num64(I64(At(data, 1, 2 * W)))]
           /\ data[1] = TAG_DBL /\ size >= 1 + 2 * W =>
                 Printing(inner)[data] = [n |-> 1 + 2 * W, v |-> Dbl(At(data, 1, 2 * W))]
           /\ data[1] = TAG_ARR /\ size >= 1 + W =>
                 Printing(inner)[data] = Members(inner, data)[Word(data, 0)]
<1> DEFINE t == data[1]
           c1 == size >= 1 + 2 * W /\ Word(data, 1) <= size - 1 - 2 * W
           c2 == size >= 1 + W /\ Word(data, 0) <= size - 1 - W
           c3 == size >= 1 + 2 * W
           c4 == size >= 1 + W
           e1 == [n |-> 1 + 2 * W + Word(data, 1),
                  v |-> Err(Word(data, 0), At(data, 1 + 2 * W, Word(data, 1)))]
           e2 == [n |-> 1 + W + Word(data, 0), v |-> Str(At(data, 1 + W, Word(data, 0)))]
           e3 == [n |-> 1 + 2 * W, v |-> Num64(I64(At(data, 1, 2 * W)))]
           e4 == [n |-> 1 + 2 * W, v |-> Dbl(At(data, 1, 2 * W))]
           e5 == Members(inner, data)[Word(data, 0)]
<1>1. Printing(inner)[data] =
          CASE size < 1 -> Failed
            [] size >= 1 /\ t = TAG_NIL -> [n |-> 1, v |-> Nil]
            [] size >= 1 + 2 * W /\ t = TAG_ERR /\ Word(data, 1) <= size - 1 - 2 * W -> e1
            [] size >= 1 + W /\ t = TAG_STR /\ Word(data, 0) <= size - 1 - W -> e2
            [] size >= 1 + 2 * W /\ t = TAG_INT -> e3
            [] size >= 1 + 2 * W /\ t = TAG_DBL -> e4
            [] size >= 1 + W /\ t = TAG_ARR -> e5
            [] OTHER -> Failed
  BY Zenon DEF Printing, Members, Word
<1> HIDE DEF e1, e2, e3, e4, e5, t
<1>2. size >= 1 /\ ~(size < 1)
  OBVIOUS
<1>3. t = TAG_NIL => Printing(inner)[data] = [n |-> 1, v |-> Nil]
  BY <1>1, <1>2 DEF TAG_NIL, TAG_ERR, TAG_STR, TAG_INT, TAG_DBL, TAG_ARR
<1>4. t = TAG_ERR /\ c1 => Printing(inner)[data] = e1
  BY <1>1, <1>2 DEF TAG_NIL, TAG_ERR, TAG_STR, TAG_INT, TAG_DBL, TAG_ARR
<1>5. t = TAG_STR /\ c2 => Printing(inner)[data] = e2
  BY <1>1, <1>2 DEF TAG_NIL, TAG_ERR, TAG_STR, TAG_INT, TAG_DBL, TAG_ARR
<1>6. t = TAG_INT /\ c3 => Printing(inner)[data] = e3
  BY <1>1, <1>2 DEF TAG_NIL, TAG_ERR, TAG_STR, TAG_INT, TAG_DBL, TAG_ARR
<1>7. t = TAG_DBL /\ c3 => Printing(inner)[data] = e4
  BY <1>1, <1>2 DEF TAG_NIL, TAG_ERR, TAG_STR, TAG_INT, TAG_DBL, TAG_ARR
<1>8. t = TAG_ARR /\ c4 => Printing(inner)[data] = e5
  BY <1>1, <1>2 DEF TAG_NIL, TAG_ERR, TAG_STR, TAG_INT, TAG_DBL, TAG_ARR
<1> QED  BY <1>3, <1>4, <1>5, <1>6, <1>7, <1>8, Zenon DEF e1, e2, e3, e4, e5, t

\* A text made of four.
Laid(d, g, u, s, rest) == d = g \o u \o s \o rest

\* Two parts of it are known.
LEMMA TwoParts ==
    ASSUME NEW g \in Text, NEW u \in Text, NEW s \in Text, NEW rest \in Text,
           NEW all, Laid(all, g, u, s, rest)
    PROVE  /\ all \in Text /\ Len(all) = Len(g) + Len(u) + Len(s) + Len(rest)
           /\ At(all, Len(g), Len(u)) = u
           /\ At(all, Len(g) + Len(u), Len(s)) = s
           /\ all = (g \o u) \o (s \o rest)
<1> DEFINE gu == g \o u
           sr == s \o rest
           d == gu \o s \o rest
<1>0. all = d
  BY DEF Laid
<1>1. gu \in Text /\ Len(gu) = Len(g) + Len(u)
  BY JoinText
<1>2. sr \in Text /\ Len(sr) = Len(s) + Len(rest)
  BY JoinText
<1>3. At(g \o u \o sr, Len(g), Len(u)) = u
  BY <1>2, AtKnown
<1> HIDE DEF gu
<1>4. d = gu \o sr
  BY <1>1, Grouping, ZenonT(60)
<1>5. At(gu \o s \o rest, Len(gu), Len(s)) = s
  BY <1>1, AtKnown
<1>6. d \in Text /\ Len(d) = Len(gu) + Len(sr)
  <2> HIDE DEF sr, d
  <2> QED  BY <1>1, <1>2, <1>4, JoinText
<1>7. Len(g) \in Nat /\ Len(u) \in Nat /\ Len(s) \in Nat /\ Len(rest) \in Nat
  BY DEF Text
<1>8. Len(d) = Len(g) + Len(u) + Len(s) + Len(rest)
  BY <1>1, <1>2, <1>6, <1>7
<1>9. At(d, Len(g), Len(u)) = u
  <2> HIDE DEF sr, d
  <2> QED  BY <1>3, <1>4 DEF gu
<1>10. At(d, Len(g) + Len(u), Len(s)) = s
  BY <1>1, <1>5
<1> HIDE DEF d, sr
<1>11. d = (g \o u) \o (s \o rest)
  BY <1>4 DEF gu, sr
<1> QED  BY <1>0, <1>6, <1>8, <1>9, <1>10, <1>11

\* A value that is not an array is printed, from whatever level, as the value
\* it was written for, and nothing of what follows it is taken.
LEMMA PrintItem ==
    ASSUME NEW inner, NEW v \in Scalars, NEW rest \in Text, Len(Item(v)) <= MaxMsg
    PROVE  Printing(inner)[Item(v) \o rest] = [n |-> Len(Item(v)), v |-> v]
<1> DEFINE data == Item(v) \o rest
           size == Len(data)
<1>0. /\ W \in Nat \ {0} /\ MaxMsg \in Nat /\ Power[W] \in Nat /\ MaxMsg < Power[W]
      /\ 1 + 0 * W = 1 /\ 1 + 1 * W = 1 + W /\ 2 * W = W + W
  <2>1. W \in Nat \ {0} /\ W \in 0 .. 2 * W
    BY WidthAssumption
  <2>2. Power[W] \in Nat
    BY <2>1, PowerRule
  <2> QED  BY <2>1, <2>2, LimitAssumption, RangeAssumption
<1>1. /\ Item(v) \in Text /\ Len(Item(v)) = ScalarSize(v) /\ Len(Item(v)) \in Nat \ {0}
      /\ Item(v)[1] = v.tag
  <2>1. <<>> \in Text
    BY DEF Text
  <2> QED  BY <2>1, PutItem
<1>2. data \in Text /\ size = Len(Item(v)) + Len(rest) /\ Len(rest) \in Nat /\ size \in Nat \ {0}
  <2>1. data \in Text /\ size = Len(Item(v)) + Len(rest)
    BY <1>1, JoinText
  <2>2. Len(rest) \in Nat
    BY DEF Text
  <2> HIDE DEF data, size
  <2> QED  BY <1>1, <2>1, <2>2
<1>3. data[1] = v.tag
  <2> DEFINE x == Item(v)
  <2>1. x \in Seq(Byte) /\ rest \in Seq(Byte) /\ Len(x) \in Nat \ {0} /\ x[1] = v.tag
    BY <1>1 DEF Text
  <2> HIDE DEF x
  <2>2. (x \o rest)[1] = x[1]
    BY <2>1
  <2> QED  BY <2>1, <2>2 DEF x
<1>4. data \in Seq(Int)
  <2>1. Byte \subseteq Int
    BY WidthAssumption DEF Byte
  <2>2. data \in [1 .. size -> Byte]
    <3> HIDE DEF data
    <3> QED  BY <1>2 DEF Text, size
  <2> HIDE DEF data, size
  <2>3. data \in [1 .. size -> Int]
    BY <2>1, <2>2, Zenon
  <2> QED  BY <1>2, <2>3
<1>t. TAG_NIL \in 0 .. TAG_ARR /\ TAG_STR \in 0 .. TAG_ARR /\ TAG_ERR \in 0 .. TAG_ARR
      /\ TAG_INT \in 0 .. TAG_ARR /\ TAG_DBL \in 0 .. TAG_ARR
  BY DEF TAG_NIL, TAG_ERR, TAG_STR, TAG_INT, TAG_DBL, TAG_ARR
<1>5. CASE v = Nil
  <2>1. v.tag = TAG_NIL /\ ScalarSize(v) = 1
    BY <1>5 DEF Nil, Value, ScalarSize, TAG_NIL, TAG_ERR, TAG_STR, TAG_INT, TAG_DBL
  <2>2. Printing(inner)[data] = [n |-> 1, v |-> Nil]
    <3> HIDE DEF data
    <3> QED  BY <1>2, <1>3, <1>4, <2>1, PrintingIs, Zenon DEF size
  <2> QED  BY <1>1, <1>5, <2>1, <2>2
<1>6. ASSUME NEW s \in Text, v = Str(s) PROVE Printing(inner)[data] = [n |-> Len(Item(v)), v |-> v]
  <2> DEFINE g == <<TAG_STR>>
             u == u32(Len(s))
  <2>1. v.tag = TAG_STR /\ ScalarSize(v) = 1 + W + Len(s) /\ Len(s) \in Nat
    BY <1>6 DEF Str, Value, ScalarSize, TAG_NIL, TAG_ERR, TAG_STR, TAG_INT, TAG_DBL, Text
  <2>2. Item(v) = g \o u \o s
    BY <1>6, ItemIs, Zenon
  <2>3. g \in Text /\ Len(g) = 1 /\ u \in Text /\ Len(u) = W
    BY <1>t, <2>1, TagText, u32Bytes
  <2>4. U32(u) = Len(s)
    <3>1. Len(s) < Power[W]
      BY <1>0, <1>1, <2>1
    <3> QED  BY <2>1, <3>1, u32Inverse
  <2>5. Laid(data, g, u, s, rest)
    BY <2>2 DEF Laid
  <2> HIDE DEF g, u, data
  <2>g. g \in Text
    BY <2>3
  <2>u. u \in Text
    BY <2>3
  <2>6. At(data, Len(g), Len(u)) = u /\ At(data, Len(g) + Len(u), Len(s)) = s
    BY <2>5, <2>g, <2>u, TwoParts
  <2>7. At(data, 1, W) = u /\ At(data, 1 + W, Len(s)) = s
    BY <2>3, <2>6
  <2>8. Word(data, 0) = Len(s)
    BY <1>0, <2>4, <2>7 DEF Word
  <2>9. size >= 1 + W /\ Word(data, 0) <= size - 1 - W
    BY <1>0, <1>1, <1>2, <2>1, <2>8
  <2>10. Printing(inner)[data] = [n |-> 1 + W + Word(data, 0), v |-> Str(At(data, 1 + W, Word(data, 0)))]
    BY <1>2, <1>3, <1>4, <2>1, <2>9, PrintingIs, Zenon DEF size
  <2> QED  BY <1>1, <1>6, <2>1, <2>7, <2>8, <2>10
<1>7. ASSUME NEW g \in Text, Len(g) = 1, NEW x \in Text, Len(x) = 2 * W, Item(v) = g \o x
      PROVE  At(data, 1, 2 * W) = x /\ size >= 1 + 2 * W
  <2>1. At(g \o x \o rest, Len(g), Len(x)) = x
    BY AtKnown
  <2>2. Len(g \o x) = 1 + 2 * W
    BY <1>7, JoinText, ZenonT(60)
  <2>3. size >= Len(g \o x)
    BY <1>1, <1>2, <1>7
  <2> QED  BY <1>7, <2>1, <2>2, <2>3
<1>8. ASSUME NEW n \in Int64, v = Num64(n) PROVE Printing(inner)[data] = [n |-> Len(Item(v)), v |-> v]
  <2>1. v.tag = TAG_INT /\ ScalarSize(v) = 1 + 2 * W
    BY <1>8 DEF Num64, Value, ScalarSize, TAG_NIL, TAG_ERR, TAG_STR, TAG_INT, TAG_DBL
  <2>2. i64(n) \in Text /\ Len(i64(n)) = 2 * W /\ I64(i64(n)) = n
    BY i64Inverse
  <2>3. Item(v) = <<TAG_INT>> \o i64(n)
    BY <1>8, ItemIs, Zenon
  <2>4. <<TAG_INT>> \in Text /\ Len(<<TAG_INT>>) = 1
    BY <1>t, TagText
  <2> HIDE DEF data, size
  <2>5. At(data, 1, 2 * W) = i64(n) /\ size >= 1 + 2 * W
    BY <1>7, <2>2, <2>3, <2>4, Zenon
  <2>6. Printing(inner)[data] = [n |-> 1 + 2 * W, v |-> Num64(I64(At(data, 1, 2 * W)))]
    BY <1>2, <1>3, <1>4, <2>1, <2>5, PrintingIs, Zenon DEF size
  <2> QED  BY <1>1, <1>8, <2>1, <2>2, <2>5, <2>6
<1>9. ASSUME NEW b \in [1 .. 2 * W -> Byte], v = Dbl(b)
      PROVE  Printing(inner)[data] = [n |-> Len(Item(v)), v |-> v]
  <2>1. v.tag = TAG_DBL /\ ScalarSize(v) = 1 + 2 * W
    BY <1>9 DEF Dbl, Value, ScalarSize, TAG_NIL, TAG_ERR, TAG_STR, TAG_INT, TAG_DBL
  <2>2. b \in Text /\ Len(b) = 2 * W
    <3> DEFINE N == 2 * W
    <3>1. N \in Nat /\ b \in [1 .. N -> Byte]
      BY <1>0
    <3> HIDE DEF N
    <3>2. b \in Text /\ Len(b) = N
      BY <3>1 DEF Text
    <3> QED  BY <3>2 DEF N
  <2>3. Item(v) = <<TAG_DBL>> \o b
    BY <1>9, ItemIs, Zenon
  <2>4. <<TAG_DBL>> \in Text /\ Len(<<TAG_DBL>>) = 1
    BY <1>t, TagText
  <2> HIDE DEF data, size
  <2>5. At(data, 1, 2 * W) = b /\ size >= 1 + 2 * W
    BY <1>7, <2>2, <2>3, <2>4, Zenon
  <2>6. Printing(inner)[data] = [n |-> 1 + 2 * W, v |-> Dbl(At(data, 1, 2 * W))]
    BY <1>2, <1>3, <1>4, <2>1, <2>5, PrintingIs, Zenon DEF size
  <2> QED  BY <1>1, <1>9, <2>1, <2>5, <2>6
<1>10. ASSUME NEW c \in 0 .. Power[W] - 1, NEW s \in Text, v = Err(c, s)
       PROVE  Printing(inner)[data] = [n |-> Len(Item(v)), v |-> v]
  <2> DEFINE g == <<TAG_ERR>>
             h == u32(c)
             u == u32(Len(s))
             gh == g \o h
             ur == u \o (s \o rest)
  <2>1. v.tag = TAG_ERR /\ ScalarSize(v) = 1 + 2 * W + Len(s) /\ Len(s) \in Nat /\ c \in Nat /\ c < Power[W]
    BY <1>0, <1>10 DEF Err, Value, ScalarSize, TAG_NIL, TAG_ERR, TAG_STR, TAG_INT, TAG_DBL, Text
  <2>2. Item(v) = gh \o u \o s
    BY <1>10, ItemIs, Zenon
  <2>3. g \in Text /\ Len(g) = 1 /\ u \in Text /\ Len(u) = W /\ h \in Text /\ Len(h) = W
    BY <1>t, <2>1, TagText, u32Bytes
  <2>4. U32(u) = Len(s) /\ U32(h) = c
    <3>1. Len(s) < Power[W]
      BY <1>0, <1>1, <2>1
    <3> QED  BY <2>1, <3>1, u32Inverse
  <2>5. Laid(data, gh, u, s, rest)
    BY <2>2 DEF Laid
  <2> HIDE DEF g, u, h, data
  <2>g. g \in Text
    BY <2>3
  <2>h. h \in Text
    BY <2>3
  <2>u. u \in Text
    BY <2>3
  <2>i. gh \in Text /\ Len(gh) = Len(g) + Len(h)
    BY <2>g, <2>h, JoinText
  <2> HIDE DEF gh
  <2>j. gh \in Text
    BY <2>i
  <2>6. gh \in Text /\ Len(gh) = 1 + W
    BY <2>3, <2>i
  <2>7. /\ At(data, Len(gh), Len(u)) = u /\ At(data, Len(gh) + Len(u), Len(s)) = s
        /\ data = (gh \o u) \o (s \o rest)
    BY <2>u, <2>5, <2>j, TwoParts, SMTT(30)
  <2>8. At(data, Len(g), Len(h)) = h
    <3> DEFINE sr == s \o rest
    <3>1. sr \in Text
      BY JoinText
    <3>2. data = (gh \o u) \o sr
      BY <2>7
    <3> HIDE DEF sr
    <3>4. u \o sr \in Text
      BY <2>u, <3>1, JoinText
    <3>5. (gh \o u) \o sr = gh \o (u \o sr)
      BY <2>j, <2>u, <3>1, Grouping, ZenonT(60)
    <3> DEFINE z == u \o sr
    <3>6. z \in Text /\ data = g \o h \o z
      BY <3>2, <3>4, <3>5 DEF gh
    <3> HIDE DEF z
    <3> QED  BY <2>g, <2>h, <3>6, AtKnown
  <2>9. At(data, 1, W) = h /\ At(data, 1 + W, W) = u /\ At(data, 1 + 2 * W, Len(s)) = s
    <3>1. 1 + W + W = 1 + 2 * W
      BY <1>0
    <3> QED  BY <2>3, <2>6, <2>7, <2>8, <3>1
  <2>10. Word(data, 0) = c /\ Word(data, 1) = Len(s)
    BY <1>0, <2>4, <2>9 DEF Word
  <2>11. size >= 1 + 2 * W /\ Word(data, 1) <= size - 1 - 2 * W
    BY <1>0, <1>1, <1>2, <2>1, <2>10
  <2>12. Printing(inner)[data] = [n |-> 1 + 2 * W + Word(data, 1),
                                  v |-> Err(Word(data, 0), At(data, 1 + 2 * W, Word(data, 1)))]
    BY <1>2, <1>3, <1>4, <2>1, <2>11, PrintingIs, Zenon DEF size
  <2> QED  BY <1>1, <1>10, <2>1, <2>9, <2>10, <2>12
<1> HIDE DEF data
<1>11. Printing(inner)[data] = [n |-> Len(Item(v)), v |-> v]
  BY <1>5, <1>6, <1>8, <1>9, <1>10, ScalarCases, Zenon DEF data
<1> QED  BY <1>11 DEF data

-----------------------------------------------------------------------------
\* The first i of a sequence of texts put together.
Chain(ts) ==
    CHOOSE b : b = [i \in 0 .. Len(ts) |-> IF i = 0 THEN <<>> ELSE b[i - 1] \o ts[i]]

Items(vs)  == [i \in 1 .. Len(vs) |-> Item(vs[i])]
Packed(vs) == Chain(Items(vs))[Len(vs)]

\* Functions that take the same step from the same value are the same.
SameStep(f, g, N) == f[0] = g[0] /\ \A i \in 1 .. N : f[i - 1] = g[i - 1] => f[i] = g[i]

\* Two recursions that start alike and step alike agree all along.
LEMMA SameRecursion ==
    ASSUME NEW N \in Nat, NEW f, NEW g, SameStep(f, g, N)
    PROVE  \A i \in 0 .. N : f[i] = g[i]
<1> USE DEF SameStep
<1> DEFINE G == {i \in 0 .. N : f[i] = g[i]}
<1>1. 0 \in G
  OBVIOUS
<1>2. ASSUME NEW n \in 0 .. N - 1, n \in G PROVE n + 1 \in G
  <2>1. n + 1 \in 1 .. N /\ (n + 1) - 1 = n /\ n + 1 \in 0 .. N
    OBVIOUS
  <2>2. f[n] = g[n]
    BY <1>2
  <2>3. f[n + 1] = g[n + 1]
    BY <2>1, <2>2
  <2> QED  BY <2>1, <2>3
<1>3. \A n \in 0 .. N - 1 : n \in G => n + 1 \in G
  BY <1>2
<1> HIDE DEF G
<1>4. \A n \in 0 .. N : n \in G
  BY <1>1, <1>3, InductionUpto
<1> QED  BY <1>4 DEF G

\* Chain, by its recursion.
LEMMA ChainRule ==
    ASSUME NEW ts \in Command
    PROVE  /\ \A i \in 0 .. Len(ts) : Chain(ts)[i] \in Text
           /\ Chain(ts)[0] = <<>>
           /\ \A i \in 1 .. Len(ts) : Chain(ts)[i] = Chain(ts)[i - 1] \o ts[i]
<1> DEFINE N == Len(ts)
           Step == [i \in 1 .. N |-> [x \in Text |-> x \o ts[i]]]
           F(f) == [i \in 0 .. N |-> IF i = 0 THEN <<>> ELSE f[i - 1] \o ts[i]]
<1>0. N \in Nat /\ \A i \in 1 .. N : ts[i] \in Text
  BY DEF Command
<1>a. Chain(ts) = CHOOSE f : f = F(f)
  BY DEF Chain
<1>e. <<>> \in Text
  BY DEF Text
<1> HIDE DEF N
<1>2. Step \in [1 .. N -> [Text -> Text]]
  <2>1. \A i \in 1 .. N : \A x \in Text : x \o ts[i] \in Text
    BY <1>0, JoinText
  <2> QED  BY <2>1
<1>3. PICK f : Unfolds(f, N, Text, <<>>, Step)
  <2> HIDE DEF Step
  <2> QED  BY <1>0, <1>2, <1>e, RecursionExists
<1>4. f = F(f)
  <2>1. ASSUME NEW i \in 1 .. N PROVE f[i] = f[i - 1] \o ts[i]
    <3>1. i - 1 \in 0 .. N
      BY <1>0
    <3>2. f[i - 1] \in Text /\ f[i] = Step[i][f[i - 1]]
      BY <1>3, <3>1, Zenon DEF Unfolds
    <3> QED  BY <3>2, Zenon
  <2> DEFINE t(i) == f[i - 1] \o ts[i]
  <2>2. \A i \in 1 .. N : f[i] = t(i)
    BY <2>1, Zenon
  <2> HIDE DEF Step, t
  <2>3. f = [i \in 0 .. N |-> IF i = 0 THEN <<>> ELSE t(i)]
    BY <1>0, <1>3, <2>2 DEF Unfolds
  <2> QED  BY <2>3, Zenon DEF t
<1> DEFINE g == Chain(ts)
<1>5. g = F(g)
  <2> HIDE DEF F
  <2> QED  BY <1>4, <1>a
<1> HIDE DEF g
<1>6. g[0] = <<>> /\ \A i \in 1 .. N : g[i] = g[i - 1] \o ts[i]
  BY <1>5, <1>0
<1>7. \A i \in 0 .. N : f[i] = g[i]
  <2>1. f[0] = g[0]
    BY <1>3, <1>6 DEF Unfolds
  <2>2. \A i \in 1 .. N : f[i] = f[i - 1] \o ts[i]
    <3> DEFINE t(i) == f[i - 1] \o ts[i]
    <3>1. f = [i \in 0 .. N |-> IF i = 0 THEN <<>> ELSE t(i)]
      BY <1>4, Zenon
    <3> HIDE DEF t
    <3>2. \A i \in 1 .. N : f[i] = t(i)
      <4>1. \A i \in 1 .. N : i \in 0 .. N /\ i # 0
        BY <1>0
      <4> QED  BY <3>1, <4>1
    <3> QED  BY <3>2, Zenon DEF t
  <2>3. SameStep(f, g, N)
    BY <1>6, <2>1, <2>2, Zenon DEF SameStep
  <2> QED  BY <1>0, <2>3, SameRecursion
<1>8. \A i \in 0 .. N : g[i] \in Text
  <2>1. \A i \in 0 .. N : f[i] \in Text
    BY <1>3 DEF Unfolds
  <2> QED  BY <1>7, <2>1
<1> QED  BY <1>6, <1>8, Zenon DEF g, N

\* What has been put together stays at the front.
LEMMA ChainExtend ==
    ASSUME NEW ts \in Command, NEW j \in 0 .. Len(ts)
    PROVE  \E rest \in Text : Chain(ts)[Len(ts)] = Chain(ts)[j] \o rest
<1> DEFINE N == Len(ts)
           c(k) == Chain(ts)[k]
           Good(k) == \E rest \in Text : c(k) = c(j) \o rest
           G == {k \in 0 .. N : k >= j => Good(k)}
<1>0. N \in Nat
  BY DEF Command
<1>c. /\ \A i \in 0 .. N : c(i) \in Text
      /\ \A i \in 1 .. N : c(i) = c(i - 1) \o ts[i] /\ ts[i] \in Text
  <2>1. \A i \in 1 .. N : ts[i] \in Text
    BY DEF Command
  <2>2. \A i \in 0 .. N : c(i) \in Text
    BY ChainRule, Zenon
  <2>3. \A i \in 1 .. N : c(i) = c(i - 1) \o ts[i]
    BY ChainRule, Zenon
  <2> HIDE DEF N, c
  <2> QED  BY <2>1, <2>2, <2>3, Zenon
<1> HIDE DEF c
<1>1. Good(j)
  <2> DEFINE p == c(j)
  <2>1. p \in Text
    BY <1>c
  <2> HIDE DEF p
  <2>2. p = p \o <<>> /\ <<>> \in Text
    BY <2>1 DEF Text
  <2> QED  BY <2>2, Zenon DEF p
<1>2. ASSUME NEW k \in 0 .. N - 1, Good(k) PROVE Good(k + 1)
  <2> DEFINE p == c(j)
             s == ts[k + 1]
  <2>1. PICK rest \in Text : c(k) = p \o rest
    BY <1>2
  <2>2. k + 1 \in 1 .. N /\ (k + 1) - 1 = k
    BY <1>0
  <2>3. s \in Text /\ c(k + 1) = (p \o rest) \o s
    BY <1>c, <2>1, <2>2, Zenon
  <2>4. p \in Text
    BY <1>c
  <2>5. s \in Text
    BY <2>3
  <2> HIDE DEF p, s
  <2>6. (p \o rest) \o s = p \o (rest \o s)
    BY <2>4, <2>5, Grouping, Zenon
  <2>7. rest \o s \in Text
    BY <2>5, JoinText
  <2>8. c(k + 1) = p \o (rest \o s)
    BY <2>3, <2>6
  <2> QED  BY <2>7, <2>8, Zenon DEF p
<1> HIDE DEF Good
<1>3. 0 \in G
  BY <1>0, <1>1
<1>4. ASSUME NEW k \in 0 .. N - 1, k \in G PROVE k + 1 \in G
  <2>1. k + 1 \in 0 .. N
    BY <1>0
  <2>2. CASE k + 1 = j
    <3>1. Good(k + 1)
      BY <1>1, <2>2, Zenon
    <3> QED  BY <2>1, <3>1
  <2>3. CASE k >= j
    <3>1. Good(k)
      BY <1>4, <2>3
    <3>2. Good(k + 1)
      BY <1>2, <3>1
    <3> QED  BY <2>1, <3>2
  <2> QED  BY <1>0, <2>1, <2>2, <2>3
<1>5. \A k \in 0 .. N - 1 : k \in G => k + 1 \in G
  BY <1>4
<1>6. N \in G
  <2> HIDE DEF G, N
  <2> QED  BY <1>0, <1>3, <1>5, N \in 0 .. N, InductionUpto, Zenon
<1>7. Good(N)
  BY <1>0, <1>6
<1> QED  BY <1>7 DEF Good, c

\* The members of an array, one after the other.
LEMMA ItemsAre ==
    ASSUME NEW vs \in Seq(Scalars)
    PROVE  /\ Items(vs) \in Command /\ Len(Items(vs)) = Len(vs) /\ Len(vs) \in Nat
           /\ \A i \in 1 .. Len(vs) : /\ vs[i] \in Scalars /\ Items(vs)[i] = Item(vs[i])
                                      /\ Item(vs[i]) \in Text
<1> DEFINE N == Len(vs)
<1>0. N \in Nat /\ \A i \in 1 .. N : vs[i] \in Scalars
  OBVIOUS
<1>1. \A i \in 1 .. N : Item(vs[i]) \in Text
  <2>1. <<>> \in Text
    BY DEF Text
  <2> QED  BY <1>0, <2>1, PutItem, Zenon
<1> HIDE DEF N
<1>2. Items(vs) = [i \in 1 .. N |-> Item(vs[i])]
  BY DEF Items, N
<1>3. Items(vs) \in [1 .. N -> Text]
  BY <1>1, <1>2
<1>4. Items(vs) \in Command /\ Len(Items(vs)) = N
  BY <1>0, <1>3 DEF Command
<1> QED  BY <1>0, <1>1, <1>2, <1>4 DEF N

\* Their bytes, up to each of them.
LEMMA ChainItems ==
    ASSUME NEW vs \in Seq(Scalars)
    PROVE  LET N    == Len(vs)
               c(i) == Chain(Items(vs))[i]
           IN  /\ N \in Nat /\ N \in 0 .. N /\ c(0) = <<>>
               /\ \A i \in 0 .. N : c(i) \in Text
               /\ \A i \in 1 .. N : vs[i] \in Scalars /\ c(i) = c(i - 1) \o Item(vs[i]) /\ Item(vs[i]) \in Text
<1> DEFINE N == Len(vs)
           c(i) == Chain(Items(vs))[i]
           ts == Items(vs)
<1>1. /\ ts \in Command /\ Len(ts) = N /\ N \in Nat
      /\ \A i \in 1 .. N : vs[i] \in Scalars /\ ts[i] = Item(vs[i]) /\ Item(vs[i]) \in Text
  BY ItemsAre
<1>2. c(0) = <<>> /\ \A i \in 0 .. N : c(i) \in Text
  <2> HIDE DEF ts, N
  <2> QED  BY <1>1, ChainRule, Zenon DEF ts
<1>3. \A i \in 1 .. N : c(i) = c(i - 1) \o ts[i]
  <2> HIDE DEF ts, N
  <2> QED  BY <1>1, ChainRule, Zenon DEF ts
<1>4. N \in 0 .. N
  BY <1>1
<1> HIDE DEF ts, N, c
<1>5. /\ N \in Nat /\ N \in 0 .. N /\ c(0) = <<>>
      /\ \A i \in 0 .. N : c(i) \in Text
      /\ \A i \in 1 .. N : vs[i] \in Scalars /\ c(i) = c(i - 1) \o Item(vs[i]) /\ Item(vs[i]) \in Text
  BY <1>1, <1>2, <1>3, <1>4, Zenon
<1> QED  BY <1>5, Zenon DEF N, c

\* The loops of do_keys, do_zquery and merge_key_arrays write the members.
LEMMA PutAllIs ==
    ASSUME NEW buf \in Text, NEW vs \in Seq(Scalars)
    PROVE  PutAll(buf, vs) = buf \o Packed(vs) /\ Packed(vs) \in Text
<1> DEFINE N == Len(vs)
           c(i) == Chain(Items(vs))[i]
           w == [i \in 0 .. N |-> buf \o c(i)]
           F(b) == [i \in 0 .. N |-> IF i = 0 THEN buf ELSE Put(b[i - 1], vs[i])]
           b == CHOOSE f : f = F(f)
<1>0. /\ N \in Nat /\ N \in 0 .. N /\ c(0) = <<>>
      /\ \A i \in 0 .. N : c(i) \in Text
      /\ \A i \in 1 .. N : vs[i] \in Scalars /\ c(i) = c(i - 1) \o Item(vs[i]) /\ Item(vs[i]) \in Text
  BY ChainItems, Zenon
<1>a. PutAll(buf, vs) = b[N]
  BY DEF PutAll
<1>b. Packed(vs) = c(N)
  BY DEF Packed
<1> HIDE DEF N, c
<1>1. buf \o c(0) = buf
  BY <1>0 DEF Text
<1>2. ASSUME NEW i \in 1 .. N PROVE Put(buf \o c(i - 1), vs[i]) = buf \o c(i)
  <2> DEFINE p == c(i - 1)
             s == Item(vs[i])
  <2>0. i - 1 \in 0 .. N
    BY <1>0
  <2>1. p \in Text
    BY <1>0, <2>0
  <2>2. s \in Text /\ c(i) = p \o s
    BY <1>0
  <2>3. s \in Text
    BY <2>2
  <2>4. buf \o p \in Text
    BY <2>1, JoinText
  <2>5. Put(buf \o p, vs[i]) = (buf \o p) \o s
    BY <1>0, <2>4, PutItem, Zenon
  <2> HIDE DEF p, s
  <2>6. (buf \o p) \o s = buf \o (p \o s)
    BY <2>1, <2>3, Grouping, Zenon
  <2> QED  BY <2>2, <2>5, <2>6, Zenon DEF p
<1>3. w = F(w)
  <2> DEFINE p(i) == buf \o c(i)
             q(i) == IF i = 0 THEN buf ELSE Put(w[i - 1], vs[i])
  <2>1. ASSUME NEW i \in 0 .. N PROVE p(i) = q(i)
    <3>1. CASE i = 0
      BY <1>1, <3>1
    <3>2. CASE i # 0
      <4>1. i \in 1 .. N /\ i - 1 \in 0 .. N
        BY <1>0, <3>2
      <4>2. w[i - 1] = buf \o c(i - 1)
        BY <4>1
      <4> HIDE DEF w
      <4> QED  BY <1>2, <3>2, <4>1, <4>2
    <3> QED  BY <3>1, <3>2, Zenon
  <2>2. w = [i \in 0 .. N |-> p(i)]
    OBVIOUS
  <2> HIDE DEF p, q, w
  <2>3. w = [i \in 0 .. N |-> q(i)]
    BY <2>1, <2>2
  <2> QED  BY <2>3, Zenon DEF q
<1>4. b = F(b)
  <2> HIDE DEF F, w
  <2> QED  BY <1>3
<1> HIDE DEF b
<1>5. b[0] = buf /\ \A i \in 1 .. N : b[i] = Put(b[i - 1], vs[i])
  <2> DEFINE q(i) == Put(b[i - 1], vs[i])
  <2>1. b = [i \in 0 .. N |-> IF i = 0 THEN buf ELSE q(i)]
    BY <1>4, Zenon
  <2> HIDE DEF q
  <2>2. 0 \in 0 .. N /\ \A i \in 1 .. N : i \in 0 .. N /\ i # 0
    BY <1>0
  <2>3. b[0] = buf /\ \A i \in 1 .. N : b[i] = q(i)
    BY <2>1, <2>2
  <2> QED  BY <2>3 DEF q
<1>6. \A i \in 0 .. N : w[i] = buf \o c(i)
  OBVIOUS
<1> HIDE DEF w
<1>7. \A i \in 0 .. N : b[i] = w[i]
  <2>0. N \in Nat
    BY <1>0
  <2>1. b[0] = w[0]
    <3>1. 0 \in 0 .. N
      BY <2>0
    <3> QED  BY <1>1, <1>5, <1>6, <3>1, Zenon
  <2>2. ASSUME NEW i \in 1 .. N, b[i - 1] = w[i - 1] PROVE b[i] = w[i]
    <3>1. i \in 0 .. N /\ i - 1 \in 0 .. N
      BY <1>0
    <3> QED  BY <1>2, <1>5, <1>6, <2>2, <3>1, Zenon
  <2>3. SameStep(b, w, N)
    BY <2>1, <2>2 DEF SameStep
  <2> QED  BY <2>0, <2>3, SameRecursion
<1> QED  BY <1>0, <1>a, <1>b, <1>6, <1>7, Zenon
=============================================================================
