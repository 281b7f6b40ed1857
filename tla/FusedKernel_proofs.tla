--------------------------- MODULE FusedKernel_proofs ---------------------------
(***************************************************************************)
(* Proofs about Attention and FusedKernel, for any numbers, sizes and      *)
(* scores within MaxScore: the reference, the Triton kernel and the merge  *)
(* of chunks compute the softmax attention over the rows they are given,   *)
(* and so do the threads of the CUDA kernel in any order they may run in.  *)
(***************************************************************************)
EXTENDS FusedKernel, Quant_proofs

(***************************************************************************)
(* Powers of two and sums.                                                 *)
(***************************************************************************)
(* The products of three that the proofs below regroup.                    *)
LEMMA Regroup ==
    ASSUME NEW a \in Int, NEW b \in Int, NEW c \in Int
    PROVE  /\ a * b \in Int /\ a * b = b * a
           /\ (a * b) * c = a * (b * c) /\ (a * b) * c = (a * c) * b
           /\ a * (b + c) = a * b + a * c /\ (a + b) * c = a * c + b * c
           /\ a * (b - c) = a * b - a * c
OBVIOUS

(* A multiple of a number divided by it.                                   *)
LEMMA DivideBack ==
    ASSUME NEW a \in Int, NEW u \in Nat \ {0}
    PROVE  (a * u) \div u = a /\ (u * a) \div u = a
<1>1. PICK n \in Int : n = a * u
  OBVIOUS
<1>2. PICK q \in Int, r \in 0..(u - 1) : q = n \div u /\ n = u * q + r
  OBVIOUS
<1>3. u * (a - q) = r
  <2>1. u * (a - q) = u * a - u * q /\ u * a = a * u
    BY Regroup
  <2>2. QED
    BY <1>1, <1>2, <2>1
<1>4. PICK d \in Int : d = a - q
  OBVIOUS
<1>5. u * d = r
  BY <1>3, <1>4
<1>6. d = 0
  <2>1. CASE d >= 1
    <3>1. u * d >= u
      <4>1. PICK e \in Nat : d = e + 1
        BY <2>1
      <4>2. u * (e + 1) = u * e + u /\ u * e >= 0
        OBVIOUS
      <4>3. QED
        BY <4>1, <4>2
    <3>2. QED
      BY <1>2, <1>5, <3>1
  <2>2. CASE d <= -1
    <3>1. PICK e \in Nat : d = -e - 1
      BY <2>2
    <3>2. u * (-e - 1) = -(u * e) - u /\ u * e >= 0
      OBVIOUS
    <3>3. QED
      BY <1>2, <1>5, <3>1, <3>2
  <2>3. QED
    BY <2>1, <2>2
<1>7. q = a
  BY <1>4, <1>6
<1>8. QED
  BY <1>1, <1>2, <1>7, Regroup

(* 2^(a + b) = 2^a * 2^b                                                   *)
LEMMA PowerPlus ==
    ASSUME NEW a \in Nat, NEW b \in Nat
    PROVE  Power[a + b] = Power[a] * Power[b]
<1> DEFINE T == {i \in Nat : Power[a + i] = Power[a] * Power[i]}
<1>1. 0 \in T
  BY PowerIs
<1>2. ASSUME NEW i \in 1..b, i - 1 \in T
      PROVE  i \in T
  <2>1. a + i \in Nat \ {0} /\ i \in Nat \ {0} /\ (a + i) - 1 = a + (i - 1) /\ i - 1 \in Nat
    OBVIOUS
  <2>2. Power[a + i] = 2 * Power[a + (i - 1)] /\ Power[i] = 2 * Power[i - 1]
    BY <2>1, PowerIs
  <2>3. Power[a + (i - 1)] = Power[a] * Power[i - 1]
    BY <1>2
  <2>4. PICK x \in Nat, y \in Nat : x = Power[a] /\ y = Power[i - 1]
    BY <2>1, PowerIs
  <2>5. 2 * (x * y) = x * (2 * y)
    OBVIOUS
  <2>6. QED
    BY <2>1, <2>2, <2>3, <2>4, <2>5
<1> HIDE DEF T
<1>3. 0..b \subseteq T
  BY <1>1, <1>2, UpTo
<1>4. b \in T
  BY <1>3
<1>5. QED
  BY <1>4 DEF T

(* g has the sums of the first elements of f, n of them.                   *)
Adds(g, f, n) ==
    /\ g \in [0..n -> Int] /\ g[0] = 0
    /\ \A i \in 1..n : f[i] \in Int /\ g[i] = g[i - 1] + f[i]

(* Every sequence of integers has its sums.                                *)
LEMMA SumsExist ==
    ASSUME NEW n \in Nat, NEW f, \A i \in 1..n : f[i] \in Int
    PROVE  \E g : Adds(g, f, n)
<1>1. PICK Step : Step = [p \in Nat \X Int |-> IF p[1] \in 1..n THEN p[2] + f[p[1]] ELSE 0]
  OBVIOUS
<1>2. Step \in [Nat \X Int -> Int] /\ 0 \in Int
  BY <1>1
<1>3. PICK g \in [0..n -> Int] : Iterates(g, 0, Step, n)
  BY <1>2, StepsDefine
<1>4. ASSUME NEW i \in 1..n
      PROVE  g[i] = g[i - 1] + f[i]
  <2>1. g[i] = Step[<<i, g[i - 1]>>]
    BY <1>3 DEF Iterates
  <2>2. g[i - 1] \in Int
    OBVIOUS
  <2>3. QED
    BY <1>1, <2>1, <2>2
<1>5. QED
  BY <1>3, <1>4 DEF Adds, Iterates

(* The sums of a part of f are differences of the sums of f.               *)
LEMMA SumsShift ==
    ASSUME NEW n \in Nat, NEW f, NEW g, Adds(g, f, n),
           NEW m \in Nat, NEW o \in Nat, o + m <= n, NEW e, NEW h, Adds(h, e, m),
           \A i \in 1..m : e[i] = f[o + i]
    PROVE  \A i \in 0..m : h[i] = g[o + i] - g[o]
<1> DEFINE T == {i \in 0..m : h[i] = g[o + i] - g[o]}
<1>1. 0 \in T
  BY DEF Adds
<1>2. ASSUME NEW i \in 1..m, i - 1 \in T
      PROVE  i \in T
  <2>1. h[i] = h[i - 1] + e[i] /\ h[i] \in Int /\ h[i - 1] \in Int
    BY DEF Adds
  <2>2. o + i \in 1..n /\ (o + i) - 1 = o + (i - 1) /\ o \in 0..n /\ o + (i - 1) \in 0..n
    OBVIOUS
  <2>3. g[o + i] = g[o + (i - 1)] + f[o + i] /\ g[o] \in Int /\ g[o + (i - 1)] \in Int
        /\ g[o + i] \in Int
    BY <2>2 DEF Adds
  <2>4. h[i - 1] = g[o + (i - 1)] - g[o]
    BY <1>2
  <2>5. PICK x \in Int, y \in Int, z \in Int, u \in Int :
             x = g[o + i] /\ y = g[o + (i - 1)] /\ z = g[o] /\ u = h[i - 1]
    BY <2>1, <2>3
  <2>6. h[i] = u + f[o + i] /\ x = y + f[o + i] /\ u = y - z /\ h[i] \in Int
    BY <2>1, <2>3, <2>4, <2>5
  <2>7. h[i] = x - z
    <3>1. PICK v : v = f[o + i]
      OBVIOUS
    <3>2. v \in Int
      BY <2>2, <3>1 DEF Adds
    <3>3. QED
      BY <2>5, <2>6, <3>1, <3>2
  <2>8. QED
    BY <2>5, <2>7
<1> HIDE DEF T
<1>3. 0..m \subseteq T
  BY <1>1, <1>2, UpTo
<1>4. QED
  BY <1>3 DEF T

(* Total is the last of the sums.                                          *)
LEMMA TotalIs ==
    ASSUME NEW n \in Nat, NEW f, DOMAIN f = 1..n, f \in Seq(Int), NEW g, Adds(g, f, n)
    PROVE  Total(f) = g[n]
<1>1. Len(f) = n
  OBVIOUS
<1> DEFINE IsSum(s) == s = [i \in 0..n |-> IF i = 0 THEN 0 ELSE s[i - 1] + f[i]]
<1>2. PICK sum : sum = CHOOSE s : IsSum(s)
  OBVIOUS
<1>3. Total(f) = sum[n]
  BY <1>1, <1>2, Zenon DEF Total
<1>4. IsSum(g)
  <2>1. \A i \in 0..n : g[i] = IF i = 0 THEN 0 ELSE g[i - 1] + f[i]
    BY DEF Adds
  <2>2. g = [i \in 0..n |-> g[i]]
    BY DEF Adds
  <2>3. QED
    BY <2>1, <2>2
<1>5. IsSum(sum)
  BY <1>2, <1>4, Zenon
<1>6. sum[0] = 0 /\ \A i \in 1..n : sum[i] = sum[i - 1] + f[i]
  BY <1>5
<1> HIDE DEF IsSum
<1> DEFINE T == {i \in 0..n : sum[i] = g[i]}
<1>7. 0 \in T
  BY <1>6 DEF Adds
<1>8. ASSUME NEW i \in 1..n, i - 1 \in T
      PROVE  i \in T
  BY <1>6, <1>8 DEF Adds
<1> HIDE DEF T
<1>9. 0..n \subseteq T
  BY <1>7, <1>8, UpTo
<1>10. n \in T
  BY <1>9
<1>11. QED
  BY <1>3, <1>10 DEF T

(***************************************************************************)
(* The online softmax.                                                     *)
(***************************************************************************)
Scores == (-MaxScore)..MaxScore

(* x is the sum X in units of the largest score m so far.                  *)
Carries(m, x, X) ==
    \/ m = NegInf /\ x = 0 /\ X = 0
    \/ m \in Scores /\ X \in Int /\ x = Power[MaxScore - m] * X

(* The special values of the instance are no numbers.                      *)
LEMMA Special ==
    /\ NegInf \notin Int /\ NaN \notin Int /\ NegInf # NaN /\ Inf \notin Int /\ Inf # NaN
    /\ MaxScore \in Nat /\ Unit \in Nat \ {0} /\ Scores \subseteq Int /\ NegInf \notin Scores
<1>1. MaxScore \in Nat /\ 2 * MaxScore \in Nat
  BY AttentionAssumption
<1>2. Unit \in Nat \ {0}
  BY <1>1, PowerIs DEF Unit
<1>3. Scores \subseteq Int
  BY <1>1 DEF Scores
<1>4. QED
  BY <1>1, <1>2, <1>3, AttentionAssumption, HalfAssumption

(* Two powers whose exponents add up to that of the unit.                  *)
LEMMA UnitIs ==
    ASSUME NEW a \in Nat, NEW b \in Nat, a + b = 2 * MaxScore
    PROVE  Power[a] * Power[b] = Unit
<1>1. Power[a + b] = Power[a] * Power[b]
  BY PowerPlus
<1>2. QED
  BY <1>1 DEF Unit

(* exp(a - b)                                                              *)
LEMMA ExpIs ==
    ASSUME NEW a \in Scores, NEW b \in Scores, a <= b
    PROVE  /\ 2 * MaxScore - (b - a) \in Nat /\ b - a \in Nat
           /\ Exp(a, b) = Power[2 * MaxScore - (b - a)] /\ Exp(a, b) \in Nat \ {0}
           /\ Exp(a, b) * Power[b - a] = Unit
<1>1. MaxScore \in Nat /\ a \in Int /\ b \in Int /\ a # NegInf /\ -MaxScore <= a
                            /\ b <= MaxScore
  BY Special DEF Scores
<1>2. PICK d \in Nat : d = b - a
  BY <1>1
<1>3. PICK e \in Nat : e = 2 * MaxScore - d /\ e + d = 2 * MaxScore
  BY <1>1, <1>2
<1>4. Power[e] * Power[d] = Unit
  BY <1>3, UnitIs
<1>5. Power[e] \in Nat \ {0} /\ Power[d] \in Nat \ {0}
  BY PowerIs
<1>6. Exp(a, b) = Unit \div Power[d]
  BY <1>1, <1>2 DEF Exp
<1>7. (Power[e] * Power[d]) \div Power[d] = Power[e]
  BY <1>5, DivideBack
<1>8. QED
  BY <1>2, <1>3, <1>4, <1>5, <1>6, <1>7

(* The larger of the running maximum and a score.                          *)
LEMMA LargerIs ==
    ASSUME NEW m \in Scores \cup {NegInf}, NEW s \in Scores
    PROVE  /\ Larger(m, s) \in Scores /\ s <= Larger(m, s)
           /\ m # NegInf => m <= Larger(m, s)
<1>1. s \in Int /\ s # NegInf
  BY Special DEF Scores
<1>2. CASE m = NegInf
  BY <1>1, <1>2 DEF Larger
<1>3. CASE m # NegInf
  <2>1. m \in Scores /\ m \in Int
    BY <1>3, Special DEF Scores
  <2>2. QED
    BY <1>1, <1>3, <2>1 DEF Larger
<1>4. QED
  BY <1>2, <1>3

(* What has been summed is carried over to the new maximum.                *)
LEMMA Rescale ==
    ASSUME NEW m, NEW x, NEW X, Carries(m, x, X), NEW s \in Scores,
           NEW next, next = Larger(m, s)
    PROVE  /\ next \in Scores /\ s <= next /\ Exp(m, next) \in Int
           /\ Carries(next, Scaled(x, Exp(m, next)), X)
<1>1. m \in Scores \cup {NegInf}
  BY DEF Carries
<1>2. next \in Scores /\ s <= next /\ (m # NegInf => m <= next)
  BY <1>1, LargerIs
<1>3. next # NegInf /\ MaxScore - next \in Nat
  BY <1>2, Special DEF Scores
<1>4. CASE m = NegInf
  <2>1. x = 0 /\ X = 0
    BY <1>4, Special DEF Carries
  <2>2. Exp(m, next) = 0
    BY <1>3, <1>4 DEF Exp
  <2>3. Scaled(x, Exp(m, next)) = 0
    <3>1. (0 * 0) \div Unit = 0
      BY Special
    <3>2. QED
      BY <2>1, <2>2, <3>1, Special DEF Scaled
  <2>4. 0 = Power[MaxScore - next] * 0
    BY <1>3, PowerIs
  <2>5. QED
    BY <1>2, <2>1, <2>2, <2>3, <2>4 DEF Carries
<1>5. CASE m # NegInf
  <2>1. m \in Scores /\ X \in Int /\ x = Power[MaxScore - m] * X /\ m <= next
    BY <1>2, <1>5 DEF Carries
  <2>2. PICK d \in Nat, n \in Nat : d = next - m /\ n = MaxScore - next /\ n + d = MaxScore - m
    BY <1>2, <2>1, Special DEF Scores
  <2>3. PICK e \in Nat : e = Exp(m, next) /\ e * Power[d] = Unit
    BY <1>2, <2>1, <2>2, ExpIs
  <2>4. PICK p \in Nat, q \in Nat : p = Power[n] /\ q = Power[d]
    BY PowerIs
  <2>5. x = (p * q) * X /\ X \in Int
    <3>1. Power[n + d] = p * q
      BY <2>4, PowerPlus
    <3>2. Power[MaxScore - m] = p * q
      BY <2>2, <3>1
    <3>3. QED
      BY <2>1, <3>2
  <2>6. PICK u \in Nat \ {0} : u = Unit /\ e * q = u
    BY <2>3, <2>4, Special
  <2>7. x * e = (p * X) * u
    <3>1. ((p * q) * X) * e = (p * X) * (e * q)
      <4>1. PICK a \in Int, b \in Int : a = p * q /\ b = q * X
        BY <2>5
      <4>2. a * X = p * b
        BY <2>5, <4>1, Regroup
      <4>3. (p * b) * e = p * (b * e)
        BY Regroup
      <4>4. b * e = X * (e * q)
        <5>1. (q * X) * e = (q * e) * X
          BY <2>5, Regroup
        <5>2. q * e = e * q /\ (q * e) * X = X * (q * e)
          <6>1. q * e \in Int /\ q * e = e * q
            BY Regroup
          <6>2. QED
            BY <2>5, <6>1, Regroup
        <5>3. QED
          BY <4>1, <5>1, <5>2
      <4>5. PICK f \in Int : f = e * q
        OBVIOUS
      <4>6. p * (X * f) = (p * X) * f
        BY <2>5, <4>5, Regroup
      <4>7. QED
        BY <4>1, <4>2, <4>3, <4>4, <4>5, <4>6
    <3>2. QED
      BY <2>5, <2>6, <3>1
  <2>8. x \in Int /\ x * e \in Int /\ p * X \in Int
    <3>1. p * q \in Int /\ p * X \in Int
      BY <2>5
    <3>2. x \in Int
      BY <2>5, <3>1
    <3>3. QED
      BY <3>1, <3>2
  <2>9. Scaled(x, e) = (x * e) \div u
    BY <2>6, <2>8, Special DEF Scaled
  <2>10. Scaled(x, e) = p * X
    <3>1. ((p * X) * u) \div u = p * X
      BY <2>8, DivideBack
    <3>2. QED
      BY <2>7, <2>9, <3>1
  <2>11. Carries(next, p * X, X)
    BY <1>2, <2>1, <2>2, <2>4 DEF Carries
  <2>12. QED
    BY <1>2, <2>3, <2>10, <2>11
<1>6. QED
  BY <1>4, <1>5

(* The weight of a score is a power of two.                                *)
LEMMA WeightIs ==
    ASSUME NEW s \in Scores
    PROVE  Weight(s) \in Nat \ {0} /\ s + MaxScore \in Nat /\ Weight(s) = Power[s + MaxScore]
<1>1. s + MaxScore \in Nat
  BY Special DEF Scores
<1>2. QED
  BY <1>1, PowerIs DEF Weight

(* What a token adds.                                                      *)
LEMMA Weighs ==
    ASSUME NEW s \in Scores, NEW next \in Scores, s <= next, NEW v \in Int
    PROVE  /\ Exp(s, next) \in Int
           /\ Carries(next, Exp(s, next), Weight(s))
           /\ Carries(next, v * Exp(s, next), Weight(s) * v)
<1>1. PICK a \in Nat, b \in Nat : /\ a = MaxScore - next /\ b = s + MaxScore
                                  /\ a + b = 2 * MaxScore - (next - s)
  BY Special DEF Scores
<1>2. Exp(s, next) = Power[a + b] /\ Exp(s, next) \in Int
  BY <1>1, ExpIs
<1>3. PICK p \in Int, w \in Int : p = Power[a] /\ w = Power[b]
  BY PowerIs
<1>4. Exp(s, next) = p * w
  BY <1>2, <1>3, PowerPlus
<1>5. Weight(s) = w
  BY <1>1, <1>3 DEF Weight
<1>6. v * (p * w) = p * (w * v)
  <2>1. v * (p * w) = (p * w) * v /\ (p * w) * v = p * (w * v)
    BY Regroup
  <2>2. QED
    BY <2>1
<1>7. w * v \in Int
  BY Regroup
<1>8. QED
  BY <1>1, <1>2, <1>3, <1>4, <1>5, <1>6, <1>7 DEF Carries

(* Sums in the same units add up.                                          *)
LEMMA CarryPlus ==
    ASSUME NEW m \in Scores, NEW x, NEW X, NEW y, NEW Y, Carries(m, x, X), Carries(m, y, Y)
    PROVE  /\ x \in Int /\ y \in Int /\ X \in Int /\ Y \in Int
           /\ Carries(m, Plus(x, y), X + Y)
<1>1. m # NegInf
  BY Special
<1>2. /\ X \in Int /\ x = Power[MaxScore - m] * X
      /\ Y \in Int /\ y = Power[MaxScore - m] * Y
  BY <1>1 DEF Carries
<1>3. PICK p \in Int : p = Power[MaxScore - m]
  <2>1. MaxScore - m \in Nat
    BY Special DEF Scores
  <2>2. QED
    BY <2>1, PowerIs
<1>4. x \in Int /\ y \in Int
  BY <1>2, <1>3
<1>5. Plus(x, y) = x + y
  BY <1>4, Special DEF Plus
<1>6. p * (X + Y) = p * X + p * Y
  BY <1>2, Regroup
<1>7. QED
  BY <1>2, <1>3, <1>4, <1>5, <1>6 DEF Carries

(* The sums at the end.                                                    *)
LEMMA Finished ==
    ASSUME NEW m \in Scores, NEW l, NEW W, Carries(m, l, W)
    PROVE  /\ l \in Int /\ W \in Int /\ (l * Power[m + MaxScore]) \div Unit = W
           /\ \A x, X : Carries(m, x, X) => x \in Int /\ X \in Int /\ x * W = X * l
<1>1. m # NegInf
  BY Special
<1>2. PICK a \in Nat, b \in Nat : a = MaxScore - m /\ b = m + MaxScore /\ a + b = 2 * MaxScore
  BY Special DEF Scores
<1>3. PICK p \in Int, q \in Int : p = Power[a] /\ q = Power[b]
  BY PowerIs
<1>4. W \in Int /\ l = p * W
  BY <1>1, <1>2, <1>3 DEF Carries
<1>5. PICK u \in Nat \ {0} : u = Unit /\ p * q = u
  BY <1>2, <1>3, UnitIs, Special
<1>6. l * q = u * W
  <2>1. (p * W) * q = (p * q) * W
    BY <1>4, Regroup
  <2>2. QED
    BY <1>4, <1>5, <2>1
<1>7. (u * W) \div u = W
  BY <1>4, DivideBack
<1>8. ASSUME NEW x, NEW X, Carries(m, x, X)
      PROVE  x \in Int /\ X \in Int /\ x * W = X * l
  <2>1. X \in Int /\ x = p * X
    BY <1>1, <1>2, <1>3, <1>8 DEF Carries
  <2>2. (p * X) * W = X * (p * W)
    <3>1. p * X = X * p /\ (X * p) * W = X * (p * W)
      BY <1>4, <2>1, Regroup
    <3>2. QED
      BY <3>1
  <2>3. QED
    BY <1>4, <2>1, <2>2
<1>9. QED
  BY <1>2, <1>3, <1>4, <1>5, <1>6, <1>7, <1>8

(* A product of positive numbers.                                          *)
LEMMA ProductPositive ==
    ASSUME NEW a \in Nat \ {0}, NEW b \in Nat \ {0}
    PROVE  a * b \in Nat \ {0}
OBVIOUS

(* Carrying on a later maximum leaves a positive sum positive.             *)
LEMMA CarriesPositive ==
    ASSUME NEW m \in Scores, NEW l, NEW W, Carries(m, l, W), W > 0
    PROVE  l > 0
<1>1. m # NegInf
  BY Special
<1>2. PICK a \in Nat : a = MaxScore - m
  BY Special DEF Scores
<1>3. PICK p \in Nat \ {0} : p = Power[a]
  BY PowerIs
<1>4. W \in Int /\ l = p * W
  BY <1>1, <1>2, <1>3 DEF Carries
<1>5. W \in Nat \ {0}
  BY <1>4
<1>6. p * W \in Nat \ {0}
  BY ONLY <1>5, p \in Nat \ {0}, ProductPositive
<1>7. QED
  BY <1>4, <1>6

(* What grows by at least one at every step.                               *)
LEMMA Rises ==
    ASSUME NEW n \in Nat, NEW c, \A i \in 0..n : c[i] \in Int,
           \A i \in 1..n : c[i] >= c[i - 1] + 1, NEW a \in 0..n
    PROVE  \A b \in 0..n : a < b => c[a] < c[b]
<1> DEFINE T == {b \in 0..n : a < b => c[a] < c[b]}
<1>1. 0 \in T
  OBVIOUS
<1>2. ASSUME NEW b \in 1..n, b - 1 \in T
      PROVE  b \in T
  <2>1. c[b] \in Int /\ c[b - 1] \in Int /\ c[a] \in Int /\ c[b] >= c[b - 1] + 1
    OBVIOUS
  <2>2. CASE a < b - 1
    <3>1. c[a] < c[b - 1]
      BY <1>2, <2>2
    <3>2. QED
      BY <2>1, <3>1
  <2>3. CASE ~(a < b - 1)
    <3>1. a = b - 1 \/ ~(a < b)
      BY <2>3
    <3>2. QED
      BY <2>1, <3>1
  <2>4. QED
    BY <2>2, <2>3
<1> HIDE DEF T
<1>3. 0..n \subseteq T
  BY <1>1, <1>2, UpTo
<1>4. QED
  BY <1>3 DEF T

(***************************************************************************)
(* The reference.                                                          *)
(***************************************************************************)
(* w and x are the sums of the weights of the first tokens, and of their   *)
(* values by weight.                                                       *)
Sums(w, x, S, V, n, dim) ==
    /\ w \in [0..n -> Int] /\ w[0] = 0
    /\ x \in [0..n -> [1..dim -> Int]] /\ \A d \in 1..dim : x[0][d] = 0
    /\ \A i \in 1..n :
          /\ S[i] \in Scores /\ w[i] = w[i - 1] + Weight(S[i])
          /\ \A d \in 1..dim : V[i][d] \in Int
                 /\ x[i][d] = x[i - 1][d] + Weight(S[i]) * V[i][d]

(* r is the softmax attention over tokens whose sums are w and x.          *)
Attends(r, w, x, dim) ==
    /\ r.den \in Int /\ r.lse = w /\ (w > 0 => r.den > 0)
    /\ DOMAIN r.num = 1..dim
    /\ \A d \in 1..dim : r.num[d] \in Int /\ r.num[d] * w = x[d] * r.den

(* The reference takes the sums as they are.                               *)
LEMMA SoftmaxAttends ==
    ASSUME NEW n \in Nat, NEW dim \in Nat, NEW S, DOMAIN S = 1..n, NEW V,
           NEW w, NEW x, Sums(w, x, S, V, n, dim)
    PROVE  Attends(SoftmaxOver(S, V, dim), w[n], x[n], dim)
<1>1. PICK weights : weights = [i \in DOMAIN S |-> Weight(S[i])]
  OBVIOUS
<1>2. ASSUME NEW i \in 1..n
      PROVE  weights[i] = Weight(S[i]) /\ weights[i] \in Int
  <2>1. S[i] \in Scores
    BY DEF Sums
  <2>2. QED
    BY <1>1, <2>1, WeightIs
<1>3. weights \in Seq(Int) /\ DOMAIN weights = 1..n
  <2>1. weights \in [1..n -> Int]
    BY <1>1, <1>2
  <2>2. QED
    BY <2>1
<1>4. Total(weights) = w[n]
  <2>1. Adds(w, weights, n)
    BY <1>2 DEF Adds, Sums
  <2>2. QED
    BY <1>3, <2>1, TotalIs
<1>5. ASSUME NEW d \in 1..dim
      PROVE  Total([i \in DOMAIN S |-> weights[i] * V[i][d]]) = x[n][d] /\ x[n][d] \in Int
  <2>1. PICK f : f = [i \in DOMAIN S |-> weights[i] * V[i][d]]
    OBVIOUS
  <2>2. PICK g : g = [i \in 0..n |-> x[i][d]]
    OBVIOUS
  <2>3. ASSUME NEW i \in 1..n
        PROVE  f[i] \in Int /\ g[i] = g[i - 1] + f[i]
    <3>1. V[i][d] \in Int /\ x[i][d] = x[i - 1][d] + Weight(S[i]) * V[i][d]
      BY DEF Sums
    <3>2. f[i] = weights[i] * V[i][d]
      BY <2>1
    <3>3. g[i] = x[i][d] /\ g[i - 1] = x[i - 1][d]
      BY <2>2
    <3>4. PICK a \in Int : a = weights[i] /\ a = Weight(S[i])
      BY <1>2
    <3>5. PICK c \in Int : c = V[i][d]
      BY <3>1
    <3>6. PICK p \in Int : p = a * c
      BY ONLY a \in Int, c \in Int
    <3>7. f[i] = p /\ x[i][d] = x[i - 1][d] + p
      BY ONLY <3>1, <3>2, <3>4, <3>5, <3>6
    <3>8. QED
      BY ONLY <3>3, <3>6, <3>7
  <2>4. f \in Seq(Int) /\ DOMAIN f = 1..n
    <3>1. f \in [1..n -> Int]
      BY <2>1, <2>3
    <3>2. QED
      BY <3>1
  <2>5. ASSUME NEW i \in 0..n
        PROVE  x[i][d] \in Int
    <3>1. x[i] \in [1..dim -> Int]
      BY DEF Sums
    <3>2. QED
      BY <3>1
  <2>6. g \in [0..n -> Int] /\ g[0] = 0 /\ g[n] = x[n][d]
    BY <2>2, <2>5 DEF Sums
  <2>7. Adds(g, f, n)
    BY <2>3, <2>6 DEF Adds
  <2>8. Total(f) = g[n]
    BY <2>4, <2>7, TotalIs
  <2>9. QED
    BY <2>1, <2>5, <2>6, <2>8
<1>6. PICK r : r = SoftmaxOver(S, V, dim)
  OBVIOUS
<1>7. /\ r.den = w[n] /\ r.lse = w[n]
      /\ r.num = [d \in 1..dim |-> Total([i \in DOMAIN S |-> weights[i] * V[i][d]])]
  BY <1>1, <1>4, <1>6 DEF SoftmaxOver
<1>8. w[n] \in Int
  BY DEF Sums
<1>9. ASSUME NEW d \in 1..dim
      PROVE  r.num[d] \in Int /\ r.num[d] * w[n] = x[n][d] * w[n]
  <2>1. r.num[d] = x[n][d]
    BY <1>5, <1>7
  <2>2. QED
    BY <1>5, <2>1
<1>10. DOMAIN r.num = 1..dim
  BY <1>7
<1>11. QED
  BY <1>6, <1>7, <1>8, <1>9, <1>10 DEF Attends

(***************************************************************************)
(* The rows of a batch.                                                    *)
(***************************************************************************)
(* c[b] is how many tokens the first b blocks have, and where the rows of  *)
(* the next one begin.                                                     *)
RowsOf(rows, c, valid, n) ==
    /\ c \in [0..n -> Nat] /\ c[0] = 0 /\ \A b \in 1..n : c[b] = c[b - 1] + valid[b]
    /\ rows \in Seq(Nat \X Nat) /\ Len(rows) = c[n]
    /\ \A b \in 1..n : \A t \in 1..valid[b] :
          c[b - 1] + t <= c[n] /\ rows[c[b - 1] + t] = <<b, t - 1>>
    /\ \A i \in 1..c[n] : \E b \in 1..n : \E t \in 1..valid[b] : i = c[b - 1] + t

(* Every sequence of counts has its sums.                                  *)
LEMMA CountsExist ==
    ASSUME NEW n \in Nat, NEW valid \in [1..n -> Nat]
    PROVE  \E c : c \in [0..n -> Nat] /\ c[0] = 0 /\ \A b \in 1..n : c[b] = c[b - 1] + valid[b]
<1>1. PICK c : Adds(c, valid, n)
  <2>1. \A b \in 1..n : valid[b] \in Int
    OBVIOUS
  <2>2. QED
    BY <2>1, SumsExist
<1> DEFINE T == {b \in 0..n : c[b] \in Nat}
<1>2. 0 \in T
  BY <1>1 DEF Adds
<1>3. ASSUME NEW b \in 1..n, b - 1 \in T
      PROVE  b \in T
  BY <1>1, <1>3 DEF Adds
<1> HIDE DEF T
<1>4. 0..n \subseteq T
  BY <1>2, <1>3, UpTo
<1>5. \A b \in 0..n : c[b] \in Nat
  BY <1>4 DEF T
<1>6. QED
  BY <1>1, <1>5 DEF Adds

(* One block more has its rows behind those of the blocks before.          *)
LEMMA RowsGrow ==
    ASSUME NEW n \in Nat, NEW valid \in [1..n -> Nat], NEW b \in 1..n, NEW c,
           NEW rows, RowsOf(rows, c, valid, b - 1), NEW cc \in [0..b -> Nat],
           \A i \in 0..(b - 1) : cc[i] = c[i], cc[b] = cc[b - 1] + valid[b],
           NEW more, more = rows \o [t \in 1..valid[b] |-> <<b, t - 1>>]
    PROVE  RowsOf(more, cc, valid, b)
<1>1. PICK k \in Nat, v \in Nat : k = c[b - 1] /\ v = valid[b]
  BY DEF RowsOf
<1>2. PICK added : added = [t \in 1..v |-> <<b, t - 1>>]
  OBVIOUS
<1>3. added \in Seq(Nat \X Nat) /\ Len(added) = v /\ \A t \in 1..v : added[t] = <<b, t - 1>>
  <2>1. added \in [1..v -> Nat \X Nat]
    <3>1. \A t \in 1..v : <<b, t - 1>> \in Nat \X Nat
      OBVIOUS
    <3>2. QED
      BY ONLY <1>2, <3>1
  <2>2. QED
    BY <1>2, <2>1
<1>4. rows \in Seq(Nat \X Nat) /\ Len(rows) = k
  BY <1>1 DEF RowsOf
<1>5. /\ more \in Seq(Nat \X Nat) /\ Len(more) = k + v
      /\ \A i \in 1..k : more[i] = rows[i]
      /\ \A t \in 1..v : more[k + t] = added[t]
  <2>1. more = rows \o added
    BY <1>1, <1>2
  <2>2. Joins(rows \o added, rows, added, k, v, Nat \X Nat)
    BY <1>3, <1>4, JoinIs
  <2>3. QED
    BY <2>1, <2>2 DEF Joins
<1>6. cc[b - 1] = k /\ cc[b] = k + v
  BY <1>1
<1>7. ASSUME NEW a \in 1..b, NEW t \in 1..valid[a]
      PROVE  cc[a - 1] + t <= k + v /\ more[cc[a - 1] + t] = <<a, t - 1>>
  <2>0. t \in Nat /\ t >= 1 /\ (a = b => t <= v)
    <3>1. PICK va \in Nat : va = valid[a]
      OBVIOUS
    <3>2. t \in 1..va /\ (a = b => va = v)
      BY <1>1, <3>1
    <3>3. QED
      BY <3>2
  <2>1. CASE a = b
    <3>1. t \in 1..v
      BY <2>0, <2>1
    <3>2. more[k + t] = added[t]
      BY <1>5, <3>1
    <3>3. cc[a - 1] = k /\ added[t] = <<a, t - 1>> /\ k + t <= k + v
      BY <1>3, <1>6, <2>1, <3>1
    <3>4. QED
      BY <3>2, <3>3
  <2>2. CASE a # b
    <3>1. a \in 1..(b - 1) /\ a - 1 \in 0..(b - 1)
      BY <2>2
    <3>2. cc[a - 1] = c[a - 1] /\ c[a - 1] \in Nat
      BY <3>1 DEF RowsOf
    <3>3. c[a - 1] + t <= k /\ rows[c[a - 1] + t] = <<a, t - 1>>
      BY <1>1, <3>1 DEF RowsOf
    <3>4. PICK x \in Nat : x = c[a - 1] + t /\ x >= 1 /\ x <= k
      <4>1. PICK y \in Nat : y = c[a - 1]
        BY <3>2
      <4>2. y + t \in Nat /\ y + t >= 1
        BY ONLY <2>0, y \in Nat
      <4>3. y + t = c[a - 1] + t /\ y + t <= k
        BY <3>3, <4>1
      <4>4. QED
        BY <4>2, <4>3
    <3>5. more[x] = rows[x] /\ x <= k + v
      <4>1. x \in 1..k /\ x <= k + v
        BY ONLY <3>4, k \in Nat, v \in Nat
      <4>2. QED
        BY <1>5, <4>1
    <3>6. QED
      BY <3>2, <3>3, <3>4, <3>5
  <2>3. QED
    BY <2>1, <2>2
<1>8. ASSUME NEW i \in 1..(k + v)
      PROVE  \E a \in 1..b : \E t \in 1..valid[a] : i = cc[a - 1] + t
  <2>1. CASE i <= k
    <3>1. PICK a \in 1..(b - 1) : \E t \in 1..valid[a] : i = c[a - 1] + t
      <4>1. i \in 1..k
        BY <2>1
      <4>2. \A y \in 1..k : \E e \in 1..(b - 1) : \E t \in 1..valid[e] : y = c[e - 1] + t
        BY <1>1, Zenon DEF RowsOf
      <4>3. QED
        BY <4>1, <4>2, Zenon
    <3>2. a \in 1..b /\ cc[a - 1] = c[a - 1]
      BY <3>1
    <3>3. QED
      BY <3>1, <3>2
  <2>2. CASE ~(i <= k)
    <3>1. PICK t \in 1..v : i = k + t
      <4>1. i - k \in 1..v /\ i = k + (i - k)
        BY <2>2
      <4>2. QED
        BY <4>1
    <3>2. b \in 1..b /\ t \in 1..valid[b] /\ i = cc[b - 1] + t
      BY <1>1, <1>6, <3>1
    <3>3. QED
      BY <3>2
  <2>3. QED
    BY <2>1, <2>2
<1>9. cc[0] = 0 /\ \A a \in 1..b : cc[a] = cc[a - 1] + valid[a]
  <2>1. c[0] = 0 /\ \A a \in 1..(b - 1) : c[a] = c[a - 1] + valid[a]
    BY DEF RowsOf
  <2>2. ASSUME NEW a \in 1..b
        PROVE  cc[a] = cc[a - 1] + valid[a]
    <3>1. CASE a = b
      BY <3>1
    <3>2. CASE a # b
      <4>1. a \in 1..(b - 1) /\ a \in 0..(b - 1) /\ a - 1 \in 0..(b - 1)
        BY <3>2
      <4>2. QED
        BY <2>1, <4>1
    <3>3. QED
      BY <3>1, <3>2
  <2>3. 0 \in 0..(b - 1)
    OBVIOUS
  <2>4. QED
    BY <2>1, <2>2, <2>3
<1>10. /\ cc \in [0..b -> Nat] /\ more \in Seq(Nat \X Nat) /\ Len(more) = cc[b]
       /\ \A a \in 1..b : \A t \in 1..valid[a] :
             cc[a - 1] + t <= cc[b] /\ more[cc[a - 1] + t] = <<a, t - 1>>
       /\ \A i \in 1..cc[b] : \E a \in 1..b : \E t \in 1..valid[a] : i = cc[a - 1] + t
  <2>1. cc[b] = k + v
    BY <1>6
  <2>2. \A a \in 1..b : \A t \in 1..valid[a] :
             cc[a - 1] + t <= cc[b] /\ more[cc[a - 1] + t] = <<a, t - 1>>
    BY <1>7, <2>1, Zenon
  <2>3. \A i \in 1..cc[b] : \E a \in 1..b : \E t \in 1..valid[a] : i = cc[a - 1] + t
    BY <1>8, <2>1, Zenon
  <2>4. QED
    BY <1>5, <2>1, <2>2, <2>3, Zenon
<1>11. QED
  BY <1>9, <1>10 DEF RowsOf

(* ValidRows are the valid tokens of the blocks in order.                  *)
LEMMA RowsAre ==
    ASSUME NEW n \in Nat, NEW batch, batch.valid \in [1..n -> Nat]
    PROVE  \E c : RowsOf(ValidRows(batch), c, batch.valid, n)
<1>1. PICK valid \in [1..n -> Nat] : valid = batch.valid
  OBVIOUS
<1>2. Len(batch.valid) = n
  OBVIOUS
<1>3. PICK c \in [0..n -> Nat] : c[0] = 0 /\ \A b \in 1..n : c[b] = c[b - 1] + valid[b]
  BY CountsExist
<1> DEFINE IsRows(r) == r = [b \in 0..n |->
                IF b = 0 THEN <<>> ELSE r[b - 1] \o [t \in 1..batch.valid[b] |-> <<b, t - 1>>]]
<1>4. PICK R : R = Seq(Nat \X Nat)
  OBVIOUS
<1>5. PICK Step : Step = [p \in Nat \X R |->
                            IF p[1] \in 1..n THEN p[2] \o [t \in 1..valid[p[1]] |-> <<p[1],
                                   t - 1>>]
                            ELSE <<>>]
  OBVIOUS
<1>6. <<>> \in R
  BY <1>4
<1>7. Step \in [Nat \X R -> R]
  <2>1. ASSUME NEW p \in Nat \X R
        PROVE  Step[p] \in R
    <3>1. CASE p[1] \in 1..n
      <4>1. PICK b \in 1..n, r \in Seq(Nat \X Nat), v \in Nat :
                p[1] = b /\ p[2] = r /\ v = valid[b]
        BY <1>4, <3>1
      <4>2. PICK added : added = [t \in 1..v |-> <<b, t - 1>>]
        OBVIOUS
      <4>3. added \in Seq(Nat \X Nat)
        <5>1. added \in [1..v -> Nat \X Nat]
          BY <4>2
        <5>2. QED
          BY <5>1
      <4>4. Step[p] = r \o added
        BY <1>5, <3>1, <4>1, <4>2
      <4>5. QED
        BY <1>4, <4>3, <4>4
    <3>2. CASE p[1] \notin 1..n
      BY <1>5, <1>6, <3>2
    <3>3. QED
      BY <3>1, <3>2
  <2>2. QED
    BY <1>5, <2>1
<1>8. PICK g \in [0..n -> R] : Iterates(g, <<>>, Step, n)
  BY <1>6, <1>7, StepsDefine
<1>9. ASSUME NEW b \in 1..n
      PROVE  g[b] = g[b - 1] \o [t \in 1..batch.valid[b] |-> <<b, t - 1>>]
  <2>1. g[b] = Step[<<b, g[b - 1]>>]
    BY <1>8 DEF Iterates
  <2>2. <<b, g[b - 1]>> \in Nat \X R
    BY <1>8
  <2>3. QED
    BY <1>1, <1>5, <2>1, <2>2
<1>10. IsRows(g)
  <2>1. ASSUME NEW b \in 0..n
        PROVE  g[b] = IF b = 0 THEN <<>>
                      ELSE g[b - 1] \o [t \in 1..batch.valid[b] |-> <<b, t - 1>>]
    <3>1. CASE b = 0
      BY <1>8, <3>1 DEF Iterates
    <3>2. CASE b # 0
      <4>1. b \in 1..n
        BY <3>2
      <4>2. QED
        BY <1>9, <3>2, <4>1, Zenon
    <3>3. QED
      BY <3>1, <3>2
  <2>2. g = [b \in 0..n |-> g[b]]
    BY <1>8
  <2>3. QED
    BY <2>1, <2>2, Zenon
<1>11. PICK r : r = CHOOSE s : IsRows(s)
  OBVIOUS
<1>12. ValidRows(batch) = r[n]
  BY <1>2, <1>11, Zenon DEF ValidRows
<1>13. IsRows(r)
  BY <1>10, <1>11, Zenon
<1>14. /\ r[0] = <<>>
       /\ \A b \in 1..n : r[b] = r[b - 1] \o [t \in 1..valid[b] |-> <<b, t - 1>>]
  <2>1. ASSUME NEW b \in 0..n
        PROVE  r[b] = IF b = 0 THEN <<>>
                      ELSE r[b - 1] \o [t \in 1..batch.valid[b] |-> <<b, t - 1>>]
    BY <1>13, Zenon
  <2> HIDE DEF IsRows
  <2>2. r[0] = <<>>
    <3>1. 0 \in 0..n
      OBVIOUS
    <3>2. QED
      BY <2>1, <3>1, Zenon
  <2>3. ASSUME NEW b \in 1..n
        PROVE  r[b] = r[b - 1] \o [t \in 1..valid[b] |-> <<b, t - 1>>]
    <3>1. b \in 0..n /\ b # 0
      OBVIOUS
    <3>2. r[b] = r[b - 1] \o [t \in 1..batch.valid[b] |-> <<b, t - 1>>]
      BY <2>1, <3>1, Zenon
    <3>3. QED
      BY <1>1, <3>2, Zenon
  <2>4. QED
    BY <2>2, <2>3
<1> HIDE DEF IsRows
<1> DEFINE Upto(k) == [i \in 0..k |-> c[i]]
           T == {b \in 0..n : RowsOf(r[b], Upto(b), valid, b)}
<1>15. 0 \in T
  <2>1. /\ Upto(0) \in [0..0 -> Nat] /\ Upto(0)[0] = 0
        /\ r[0] \in Seq(Nat \X Nat) /\ Len(r[0]) = 0
    BY <1>3, <1>14
  <2> HIDE DEF Upto
  <2>2. RowsOf(r[0], Upto(0), valid, 0)
    BY <2>1 DEF RowsOf
  <2>3. QED
    BY <2>2
<1>16. ASSUME NEW b \in 1..n, b - 1 \in T
       PROVE  b \in T
  <2>1. RowsOf(r[b - 1], Upto(b - 1), valid, b - 1)
    BY <1>16
  <2>2. /\ Upto(b) \in [0..b -> Nat] /\ \A i \in 0..(b - 1) : Upto(b)[i] = Upto(b - 1)[i]
        /\ Upto(b)[b] = Upto(b)[b - 1] + valid[b]
    BY <1>3
  <2>3. r[b] = r[b - 1] \o [t \in 1..valid[b] |-> <<b, t - 1>>]
    BY <1>14
  <2> HIDE DEF Upto
  <2>4. RowsOf(r[b], Upto(b), valid, b)
    BY <2>1, <2>2, <2>3, RowsGrow
  <2>5. QED
    BY <2>4
<1> HIDE DEF T
<1>17. 0..n \subseteq T
  BY <1>15, <1>16, UpTo
<1>18. RowsOf(r[n], Upto(n), valid, n)
  BY <1>17 DEF T
<1> HIDE DEF Upto
<1>19. QED
  BY <1>1, <1>12, <1>18

(***************************************************************************)
(* The Triton kernel.                                                      *)
(***************************************************************************)
Runs(dim) == [m : Scores \cup {NegInf}, l : Int, acc : [1..dim -> Int]]

(* A running softmax holds the sums w and x.                               *)
Holds(run, w, x, dim) ==
    /\ run \in Runs(dim)
    /\ Carries(run.m, run.l, w)
    /\ \A d \in 1..dim : Carries(run.m, run.acc[d], x[d])

(* What the kernel makes of a token, its names spelled out.                *)
LEMMA TritonTokenIs ==
    ASSUME NEW run, NEW vector, NEW batch, NEW h, NEW b, NEW t, NEW score,
           score = MaskedScore(Score(vector, batch, b, t, h), t, batch.valid[b]),
           NEW next, next = Larger(run.m, score), NEW old, old = Exp(run.m, next),
           NEW new \in Int, new = Exp(score, next)
    PROVE  TritonToken(run, vector, batch, h, b, t) =
              [m |-> next, l |-> Plus(Scaled(run.l, old), new),
               acc |-> [d \in DOMAIN run.acc |->
                          Plus(Scaled(run.acc[d], old), Value(batch, b, t, h, d - 1) * new)]]
<1>1. new # NaN
  BY Special
<1>2. QED
  BY <1>1 DEF TritonToken

(* A valid token adds its weight and its weighted values.                  *)
OneMore(w, x, W, X, vector, batch, h, b, t, dim) ==
    \E s, V :
       /\ s \in Scores
       /\ t < batch.valid[b] /\ s = Score(vector, batch, b, t, h) /\ W = w + Weight(s)
       /\ \A d \in 1..dim : /\ V[d] \in Int /\ V[d] = Value(batch, b, t, h, d - 1)
                            /\ X[d] = x[d] + Weight(s) * V[d]

(* A valid token goes into the sums.                                       *)
LEMMA ValidToken ==
    ASSUME NEW dim \in Nat, NEW run, NEW w, NEW x, Holds(run, w, x, dim),
           NEW vector, NEW batch, NEW h, NEW b, NEW t,
           NEW W, NEW X, OneMore(w, x, W, X, vector, batch, h, b, t, dim)
    PROVE  /\ Holds(TritonToken(run, vector, batch, h, b, t), W, X, dim)
           /\ TritonToken(run, vector, batch, h, b, t).m \in Scores
<1>0. PICK s, V :
         /\ s \in Scores
         /\ t < batch.valid[b] /\ s = Score(vector, batch, b, t, h) /\ W = w + Weight(s)
         /\ \A d \in 1..dim : /\ V[d] \in Int /\ V[d] = Value(batch, b, t, h, d - 1)
                              /\ X[d] = x[d] + Weight(s) * V[d]
  BY DEF OneMore
<1>1. MaskedScore(Score(vector, batch, b, t, h), t, batch.valid[b]) = s
  BY <1>0 DEF MaskedScore
<1>2. PICK next : next = Larger(run.m, s)
  OBVIOUS
<1>3. PICK old : old = Exp(run.m, next)
  OBVIOUS
<1>4. next \in Scores /\ s <= next /\ Carries(next, Scaled(run.l, old), w)
  BY <1>0, <1>2, <1>3, Rescale DEF Holds
<1>5. PICK new \in Int : new = Exp(s, next) /\ Carries(next, new, Weight(s))
  BY <1>0, <1>4, Weighs, 0 \in Int
<1>6. PICK after : after = TritonToken(run, vector, batch, h, b, t)
  OBVIOUS
<1>7. DOMAIN run.acc = 1..dim
  BY DEF Holds, Runs
<1>8. after = [m |-> next, l |-> Plus(Scaled(run.l, old), new),
               acc |-> [d \in 1..dim |->
                          Plus(Scaled(run.acc[d], old), Value(batch, b, t, h, d - 1) * new)]]
  BY <1>1, <1>2, <1>3, <1>5, <1>6, <1>7, TritonTokenIs
<1>9. Carries(next, after.l, w + Weight(s))
  BY <1>4, <1>5, <1>8, CarryPlus
<1>10. ASSUME NEW d \in 1..dim
       PROVE  Carries(next, after.acc[d], X[d])
  <2>1. Carries(next, Scaled(run.acc[d], old), x[d])
    BY <1>0, <1>2, <1>3, Rescale DEF Holds
  <2>2. Carries(next, V[d] * new, Weight(s) * V[d])
    BY <1>0, <1>4, <1>5, Weighs
  <2>3. after.acc[d] = Plus(Scaled(run.acc[d], old), V[d] * new)
    BY <1>0, <1>8
  <2>4. QED
    BY <1>0, <1>4, <2>1, <2>2, <2>3, CarryPlus
<1>11. after.m = next
  BY <1>8
<1>12. after \in Runs(dim)
  <2>1. after.l \in Int
    BY <1>4, <1>9, Finished
  <2>2. ASSUME NEW d \in 1..dim
        PROVE  after.acc[d] \in Int
    BY <1>4, <1>9, <1>10, Finished
  <2>3. after.acc \in [1..dim -> Int]
    BY <1>8, <2>2
  <2>4. after = [m |-> after.m, l |-> after.l, acc |-> after.acc]
    BY <1>8
  <2>5. QED
    BY <1>4, <1>11, <2>1, <2>3, <2>4 DEF Runs
<1>13. QED
  BY <1>0, <1>4, <1>6, <1>9, <1>10, <1>11, <1>12 DEF Holds

(* A token that is masked adds nothing.                                    *)
LEMMA MaskedToken ==
    ASSUME NEW dim \in Nat, NEW run, NEW w, NEW x, Holds(run, w, x, dim), run.m \in Scores,
           NEW vector, NEW batch, NEW h, NEW b, NEW t, ~(t < batch.valid[b]),
           \A d \in 1..dim : Value(batch, b, t, h, d - 1) \in Int
    PROVE  /\ Holds(TritonToken(run, vector, batch, h, b, t), w, x, dim)
           /\ TritonToken(run, vector, batch, h, b, t).m \in Scores
<1>1. MaskedScore(Score(vector, batch, b, t, h), t, batch.valid[b]) = NegInf
  BY DEF MaskedScore
<1>2. PICK m \in Scores : m = run.m /\ m # NegInf /\ m \in Int
  BY Special
<1>3. Larger(m, NegInf) = m
  BY <1>2 DEF Larger
<1>4. PICK u \in Nat \ {0} : u = Unit
  BY Special
<1>5. Exp(m, m) = u
  <2>1. m - m = 0 /\ 2 * MaxScore - (m - m) = 2 * MaxScore
    BY <1>2, Special
  <2>2. Exp(m, m) = Power[2 * MaxScore - (m - m)]
    BY <1>2, ExpIs
  <2>3. QED
    BY <1>4, <2>1, <2>2 DEF Unit
<1>6. Exp(NegInf, m) = 0
  BY <1>2 DEF Exp
<1>7. ASSUME NEW y \in Int
      PROVE  Plus(Scaled(y, u), 0) = y
  <2>1. (y * u) \div u = y
    BY <1>4, DivideBack
  <2>2. Scaled(y, u) = y
    BY <1>4, <2>1, Special DEF Scaled
  <2>3. QED
    BY <2>2, Special DEF Plus
<1>8. PICK after : after = TritonToken(run, vector, batch, h, b, t)
  OBVIOUS
<1>9. run.l \in Int /\ run.acc \in [1..dim -> Int] /\ run = [m |-> m, l |-> run.l,
                         acc |-> run.acc]
  BY <1>2 DEF Holds, Runs
<1>10. after = [m |-> m, l |-> Plus(Scaled(run.l, u), 0),
                acc |-> [d \in 1..dim |->
                          Plus(Scaled(run.acc[d], u), Value(batch, b, t, h, d - 1) * 0)]]
  <2>1. DOMAIN run.acc = 1..dim /\ 0 \in Int
    BY <1>9
  <2>2. QED
    BY <1>1, <1>2, <1>3, <1>5, <1>6, <1>8, <2>1, TritonTokenIs
<1>11. after.m = m /\ after.l = run.l
  BY <1>7, <1>9, <1>10
<1>12. after.acc = run.acc
  <2>1. ASSUME NEW d \in 1..dim
        PROVE  after.acc[d] = run.acc[d]
    <3>1. Value(batch, b, t, h, d - 1) * 0 = 0
      OBVIOUS
    <3>2. after.acc[d] = Plus(Scaled(run.acc[d], u), 0)
      BY <1>10, <3>1
    <3>3. run.acc[d] \in Int
      BY <1>9
    <3>4. QED
      BY <1>7, <3>2, <3>3
  <2>2. after.acc = [d \in 1..dim |-> after.acc[d]] /\ run.acc = [d \in 1..dim |-> run.acc[d]]
    BY <1>9, <1>10
  <2>3. QED
    BY <2>1, <2>2
<1>13. after = run
  <2>1. after = [m |-> after.m, l |-> after.l, acc |-> after.acc]
    BY <1>10
  <2>2. QED
    BY <1>9, <1>11, <1>12, <2>1
<1>14. QED
  BY <1>2, <1>8, <1>13

(* How a running softmax ends (log normalizer, sums over the common        *)
(* denominator).                                                           *)
LEMMA FinishAttends ==
    ASSUME NEW dim \in Nat, NEW m \in Scores, NEW l, NEW sums, NEW w, NEW x,
           Carries(m, l, w), DOMAIN sums = 1..dim, \A d \in 1..dim : Carries(m, sums[d], x[d])
    PROVE  /\ Attends(Finish(m, l, sums), w, x, dim)
           /\ Finish(m, l, <<>>).lse = w /\ l \in Int
           /\ \A d \in 1..dim : sums[d] \in Int /\ sums[d] * w = x[d] * l
<1>1. /\ l \in Int /\ w \in Int /\ (l * Power[m + MaxScore]) \div Unit = w
      /\ \A y, Y : Carries(m, y, Y) => y \in Int /\ Y \in Int /\ y * w = Y * l
  BY Finished
<1>0. w > 0 => l > 0
  BY CarriesPositive
<1>2. l # NaN
  BY <1>1, Special
<1>3. ASSUME NEW a
      PROVE  Finish(m, l, a) = [num |-> a, den |-> l, lse |-> w]
  BY <1>1, <1>2 DEF Finish
<1>4. QED
  BY <1>0, <1>1, <1>3 DEF Attends

(***************************************************************************)
(* The tokens of a batch, valid or not, in the order of the kernel.        *)
(***************************************************************************)
(* Quotient and remainder are the numbers with their property.             *)
LEMMA DivModIs ==
    ASSUME NEW T \in Nat \ {0}, NEW q \in Int, NEW r \in 0..(T - 1), NEW a, a = T * q + r
    PROVE  a \div T = q /\ a % T = r
<1>1. a \in Int
  <2>1. T * q \in Int
    BY Regroup
  <2>2. QED
    BY <2>1
<1>2. PICK p \in Int, s \in 0..(T - 1) : p = a \div T /\ s = a % T /\ a = T * p + s
  BY <1>1
<1>3. PICK d \in Int : d = p - q
  OBVIOUS
<1>4. T * d = r - s
  <2>1. T * (p - q) = T * p - T * q
    BY Regroup
  <2>2. PICK y \in Int, z \in Int : y = T * p /\ z = T * q
    BY Regroup
  <2>3. a = y + s /\ a = z + r /\ T * d = y - z
    BY <1>2, <1>3, <2>1, <2>2
  <2>4. QED
    BY ONLY <2>3, y \in Int, z \in Int, r \in 0..(T - 1), s \in 0..(T - 1), T \in Nat \ {0}
<1>5. d = 0
  <2>1. CASE d >= 1
    <3>1. PICK e \in Nat : d = e + 1
      BY <2>1
    <3>2. T * (e + 1) = T * e + T /\ T * e >= 0
      OBVIOUS
    <3>3. QED
      BY <1>2, <1>4, <3>1, <3>2
  <2>2. CASE d <= -1
    <3>1. PICK e \in Nat : d = -e - 1
      BY <2>2
    <3>2. T * (-e - 1) = -(T * e) - T /\ T * e >= 0
      OBVIOUS
    <3>3. QED
      BY <1>2, <1>4, <3>1, <3>2
  <2>3. QED
    BY <2>1, <2>2
<1>6. p = q /\ s = r
  <2>1. T * d = 0
    BY <1>5
  <2>2. QED
    BY <1>2, <1>3, <1>4, <1>5, <2>1
<1>7. QED
  BY <1>2, <1>6

(* Index i of n blocks of T is element t of block q, both from 0.          *)
Place(i, n, T, q, t) == i \in 1..(n * T) /\ q = (i - 1) \div T /\ t = (i - 1) % T

(* The next of indices that run through blocks of T.                       *)
LEMMA NextIndex ==
    ASSUME NEW T \in Nat \ {0}, NEW n \in Nat, NEW i,
           NEW q, NEW t, Place(i, n, T, q, t)
    PROVE  /\ q \in 0..(n - 1) /\ t \in 0..(T - 1) /\ i - 1 = T * q + t
           /\ t + 1 < T => i \div T = q /\ i % T = t + 1
           /\ t + 1 = T => i \div T = q + 1 /\ i % T = 0
<1>1. PICK m \in Nat : m = n * T
  OBVIOUS
<1>2. i \in Nat /\ i - 1 \in Nat /\ i <= m
  BY <1>1 DEF Place
<1>3. q \in Nat /\ t \in 0..(T - 1) /\ i - 1 = T * q + t
  BY <1>2 DEF Place
<1>4. q <= n - 1
  <2>1. SUFFICES ASSUME q >= n
                 PROVE  FALSE
    BY <1>3
  <2>2. PICK e \in Nat : q = n + e
    BY <1>3, <2>1
  <2>3. T * (n + e) = n * T + T * e /\ T * e >= 0
    <3>1. T * (n + e) = T * n + T * e /\ T * n = n * T
      BY Regroup
    <3>2. QED
      BY <3>1
  <2>4. QED
    BY <1>1, <1>2, <1>3, <2>2, <2>3
<1>5. ASSUME t + 1 < T
      PROVE  i \div T = q /\ i % T = t + 1
  <2>1. i = T * q + (t + 1) /\ t + 1 \in 0..(T - 1)
    BY <1>2, <1>3, <1>5
  <2>2. PICK u \in 0..(T - 1) : u = t + 1
    BY <2>1
  <2>3. q \in Int /\ i = T * q + u
    BY <1>3, <2>1, <2>2
  <2>4. i \div T = q /\ i % T = u
    BY <2>3, DivModIs
  <2>5. QED
    BY <2>2, <2>4
<1>6. ASSUME t + 1 = T
      PROVE  i \div T = q + 1 /\ i % T = 0
  <2>1. T * (q + 1) = T * q + T
    BY <1>3
  <2>2. i = T * (q + 1) + 0 /\ 0 \in 0..(T - 1)
    <3>1. PICK y \in Int : y = T * q
      BY <1>3
    <3>2. i - 1 = y + t /\ T * (q + 1) = y + T
      BY <1>3, <2>1, <3>1
    <3>3. QED
      BY <1>2, <1>3, <1>6, <3>2
  <2>3. PICK p \in Int : p = q + 1
    BY <1>3
  <2>4. i = T * p + 0
    BY <2>2, <2>3
  <2>5. i \div T = p /\ i % T = 0
    BY <2>2, <2>4, DivModIs
  <2>6. QED
    BY <2>3, <2>5
<1>7. QED
  BY <1>3, <1>4, <1>5, <1>6

(* How many rows are through when the kernel has done i of its tokens.     *)
Through(i, T, c, valid) ==
    IF i % T = 0 THEN c[i \div T]
    ELSE c[i \div T] + (IF i % T < valid[i \div T + 1] THEN i % T ELSE valid[i \div T + 1])

(* What token t of block q is, the i-th of the kernel: the next row, or    *)
(* beyond the valid ones.                                                  *)
FollowsRow(i, T, n, q, t, c, valid, rows) ==
    LET k == Through(i - 1, T, c, valid)
    IN  /\ q + 1 \in 1..n /\ t \in 0..(T - 1) /\ k \in 0..c[n]
        /\ t < valid[q + 1] => /\ Through(i, T, c, valid) = k + 1 /\ k + 1 \in 1..c[n]
                               /\ rows[k + 1] = <<q + 1, t>>
        /\ ~(t < valid[q + 1]) => Through(i, T, c, valid) = k

(* Every token is.                                                         *)
LEMMA ThroughNext ==
    ASSUME NEW T \in Nat \ {0}, NEW n \in Nat, NEW valid \in [1..n -> 1..T],
           NEW rows, NEW c, RowsOf(rows, c, valid, n), NEW i,
           NEW q, NEW t, Place(i, n, T, q, t)
    PROVE  FollowsRow(i, T, n, q, t, c, valid, rows)
<1>1. /\ q \in 0..(n - 1) /\ t \in 0..(T - 1)
      /\ t + 1 < T => i \div T = q /\ i % T = t + 1
      /\ t + 1 = T => i \div T = q + 1 /\ i % T = 0
  BY NextIndex
<1>2. PICK v \in 1..T, f \in Nat, g \in Nat :
          v = valid[q + 1] /\ f = c[q] /\ g = c[q + 1] /\ g = f + v
  <2>1. q + 1 \in 1..n /\ q \in 0..n /\ q + 1 \in 0..n /\ (q + 1) - 1 = q
    BY <1>1
  <2>2. c[q] \in Nat /\ c[q + 1] \in Nat /\ c[q + 1] = c[q] + valid[q + 1]
    BY <2>1 DEF RowsOf
  <2>3. valid[q + 1] \in 1..T
    BY <2>1
  <2>4. QED
    BY <2>2, <2>3
<1>3. PICK N \in Nat : N = c[n]
  <2>1. n \in 0..n
    OBVIOUS
  <2>2. QED
    BY <2>1 DEF RowsOf
<1>4. ASSUME NEW u \in 1..v
      PROVE  f + u <= N /\ rows[f + u] = <<q + 1, u - 1>>
  <2>1. q + 1 \in 1..n /\ (q + 1) - 1 = q /\ u \in 1..valid[q + 1]
    BY <1>1, <1>2
  <2>2. c[q] + u <= c[n] /\ rows[c[q] + u] = <<q + 1, u - 1>>
    BY <2>1 DEF RowsOf
  <2>3. QED
    BY <1>2, <1>3, <2>2
<1>5. f + v <= N
  BY <1>4, v \in 1..v
<1>6. PICK k \in Nat : k = Through(i - 1, T, c, valid) /\ k = f + (IF t < v THEN t ELSE v)
  <2>1. Through(i - 1, T, c, valid) = IF t = 0 THEN f ELSE f + (IF t < v THEN t ELSE v)
    BY <1>2 DEF Through, Place
  <2>2. PICK y \in Nat : y = IF t = 0 THEN f ELSE f + (IF t < v THEN t ELSE v)
    BY <1>1, <1>2
  <2>3. y = f + (IF t < v THEN t ELSE v)
    BY <1>1, <1>2, <2>2
  <2>4. QED
    BY <2>1, <2>2, <2>3
<1>7. Through(i, T, c, valid) = f + (IF t + 1 < v THEN t + 1 ELSE v)
  <2>1. CASE t + 1 < T
    <3>1. i % T = t + 1 /\ i \div T = q /\ i % T # 0
      BY <1>1, <2>1
    <3>2. QED
      BY <1>2, <3>1 DEF Through
  <2>2. CASE t + 1 = T
    <3>1. Through(i, T, c, valid) = g
      BY <1>1, <1>2, <2>2 DEF Through
    <3>2. QED
      BY <1>1, <1>2, <2>2, <3>1
  <2>3. QED
    BY <1>1, <2>1, <2>2
<1>8. k <= N
  <2>1. t \in Nat /\ v \in Nat /\ f \in Nat /\ N \in Nat /\ k \in Nat
    BY <1>1, <1>2, <1>3, <1>6
  <2>2. k = f + (IF t < v THEN t ELSE v) /\ f + v <= N
    BY <1>5, <1>6
  <2>3. QED
    BY ONLY <2>1, <2>2
<1>9. ASSUME t < v
      PROVE  /\ Through(i, T, c, valid) = k + 1 /\ k + 1 \in 1..N
             /\ rows[k + 1] = <<q + 1, t>>
  <2>1. k = f + t /\ t + 1 \in 1..v /\ (t + 1) - 1 = t /\ f + (t + 1) = k + 1
    BY <1>1, <1>2, <1>6, <1>9
  <2>2. f + (t + 1) <= N /\ rows[f + (t + 1)] = <<q + 1, t>>
    BY <1>4, <2>1
  <2>3. Through(i, T, c, valid) = k + 1
    BY <1>2, <1>7, <1>9, <2>1
  <2>4. QED
    BY <1>3, <2>1, <2>2, <2>3
<1>10. ASSUME ~(t < v)
       PROVE  Through(i, T, c, valid) = k
  BY <1>1, <1>2, <1>6, <1>7, <1>10
<1>11. QED
  BY <1>1, <1>2, <1>3, <1>6, <1>8, <1>9, <1>10 DEF FollowsRow

(* The scores and values of the rows of a batch, for one head.             *)
Scored(S, V, vector, batch, h, rows, n, dim) ==
    \A i \in 1..n :
        /\ S[i] = Score(vector, batch, rows[i][1], rows[i][2], h)
        /\ \A d \in 1..dim : V[i][d] = Value(batch, rows[i][1], rows[i][2], h, d - 1)

(* A head of a batch, its rows in order, and the sums over them.           *)
HeadRows(T, n, dim, vector, batch, h, rows, c, S, V, w, x) ==
    /\ DOMAIN vector = 1..dim
    /\ batch.valid \in [1..n -> 1..T] /\ batch.tokens = T
    /\ RowsOf(rows, c, batch.valid, n)
    /\ Sums(w, x, S, V, c[n], dim)
    /\ Scored(S, V, vector, batch, h, rows, c[n], dim)
    /\ \A b \in 1..n : \A t \in 0..(T - 1) : \A d \in 1..dim :
          Value(batch, b, t, h, d - 1) \in Int

(* The kernel's i-th token, from a run over the first k rows to l.          *)
Token(run, vector, batch, h, T, i) ==
    TritonToken(run, vector, batch, h, (i - 1) \div T + 1, (i - 1) % T)

(* The kernel takes its i-th token.                                        *)
Moves(run, after, T, n, dim, vector, batch, h, c, w, x, i, k, l) ==
    /\ i \in 1..(n * T) /\ after = Token(run, vector, batch, h, T, i)
    /\ k = Through(i - 1, T, c, batch.valid) /\ l = Through(i, T, c, batch.valid)
    /\ Holds(run, w[k], x[k], dim) /\ (i # 1 => run.m \in Scores)

(* It then holds the sums over the rows up to there.                       *)
LEMMA TritonNext ==
    ASSUME NEW T \in Nat \ {0}, NEW n \in Nat, NEW dim \in Nat, NEW vector, NEW batch, NEW h,
           NEW rows, NEW c, NEW S, NEW V, NEW w, NEW x,
           HeadRows(T, n, dim, vector, batch, h, rows, c, S, V, w, x),
           NEW i, NEW run, NEW after, NEW k, NEW l,
           Moves(run, after, T, n, dim, vector, batch, h, c, w, x, i, k, l)
    PROVE  Holds(after, w[l], x[l], dim) /\ after.m \in Scores
<1>0. PICK q, t : Place(i, n, T, q, t) /\ q = (i - 1) \div T /\ t = (i - 1) % T
  BY DEF Place, Moves
<1>9. /\ k = Through(i - 1, T, c, batch.valid) /\ l = Through(i, T, c, batch.valid)
      /\ Holds(run, w[k], x[k], dim) /\ (i # 1 => run.m \in Scores)
      /\ after = TritonToken(run, vector, batch, h, q + 1, t)
  BY <1>0 DEF Moves, Token
<1>1. /\ batch.valid \in [1..n -> 1..T] /\ RowsOf(rows, c, batch.valid, n)
      /\ Sums(w, x, S, V, c[n], dim) /\ Scored(S, V, vector, batch, h, rows, c[n], dim)
      /\ \A b \in 1..n : \A u \in 0..(T - 1) : \A d \in 1..dim :
            Value(batch, b, u, h, d - 1) \in Int
  BY DEF HeadRows
<1>2. PICK b : b = q + 1
  OBVIOUS
<1>3. PICK valid \in [1..n -> 1..T] : valid = batch.valid
  BY <1>1
<1>4. /\ b \in 1..n /\ t \in 0..(T - 1) /\ k \in 0..c[n]
      /\ t < valid[b] => l = k + 1 /\ k + 1 \in 1..c[n] /\ rows[k + 1] = <<b, t>>
      /\ ~(t < valid[b]) => l = k
  <2>1. RowsOf(rows, c, valid, n)
    BY <1>1, <1>3
  <2>2. k = Through(i - 1, T, c, valid) /\ l = Through(i, T, c, valid)
    BY <1>3, <1>9
  <2>3. FollowsRow(i, T, n, q, t, c, valid, rows)
    BY ONLY T \in Nat \ {0}, n \in Nat, valid \in [1..n -> 1..T], <2>1,
            <1>0, ThroughNext
  <2>4. QED
    BY ONLY <1>2, <2>2, <2>3 DEF FollowsRow
<1>5. after = TritonToken(run, vector, batch, h, b, t)
  BY <1>2, <1>9
<1>6. CASE t < valid[b]
  <2>1. PICK j : j = k + 1 /\ j \in 1..c[n] /\ rows[j] = <<b, t>> /\ l = j /\ j - 1 = k
    BY ONLY <1>4, <1>6
  <2>2. /\ S[j] \in Scores /\ S[j] = Score(vector, batch, b, t, h)
        /\ w[j] = w[k] + Weight(S[j])
    <3>1. rows[j][1] = b /\ rows[j][2] = t
      BY <2>1
    <3>2. S[j] = Score(vector, batch, rows[j][1], rows[j][2], h)
      BY <1>1, <2>1 DEF Scored
    <3>3. S[j] \in Scores /\ w[j] = w[j - 1] + Weight(S[j])
      BY <1>1, <2>1 DEF Sums
    <3>4. QED
      BY ONLY <2>1, <3>1, <3>2, <3>3
  <2>3. ASSUME NEW d \in 1..dim
        PROVE  /\ V[j][d] \in Int /\ V[j][d] = Value(batch, b, t, h, d - 1)
               /\ x[j][d] = x[k][d] + Weight(S[j]) * V[j][d]
    <3>1. rows[j][1] = b /\ rows[j][2] = t
      BY <2>1
    <3>2. V[j][d] = Value(batch, rows[j][1], rows[j][2], h, d - 1)
      BY <1>1, <2>1 DEF Scored
    <3>3. V[j][d] \in Int /\ x[j][d] = x[j - 1][d] + Weight(S[j]) * V[j][d]
      BY <1>1, <2>1 DEF Sums
    <3>4. QED
      BY ONLY <2>1, <3>1, <3>2, <3>3
  <2>4. t < batch.valid[b]
    BY <1>3, <1>6
  <2>5. PICK s, v, X : s \in Scores /\ s = S[j] /\ v = V[j] /\ X = x[j]
    BY <2>2
  <2>6. \A d \in 1..dim : /\ v[d] \in Int /\ v[d] = Value(batch, b, t, h, d - 1)
                          /\ X[d] = x[k][d] + Weight(s) * v[d]
    BY <2>3, <2>5
  <2>7. Holds(after, w[k] + Weight(s), X, dim) /\ after.m \in Scores
    <3>1. s = Score(vector, batch, b, t, h)
      BY <2>2, <2>5
    <3>2. OneMore(w[k], x[k], w[k] + Weight(s), X, vector, batch, h, b, t, dim)
      <4>1. /\ t < batch.valid[b] /\ s \in Scores
            /\ \A d \in 1..dim : /\ v[d] \in Int /\ v[d] = Value(batch, b, t, h, d - 1)
                                 /\ X[d] = x[k][d] + Weight(s) * v[d]
        BY <2>4, <2>5, <2>6
      <4>2. QED
        BY ONLY <3>1, <4>1 DEF OneMore
    <3>3. QED
      BY <1>5, <1>9, <3>2, ValidToken
  <2>8. QED
    BY <2>1, <2>2, <2>5, <2>7
<1>7. CASE ~(t < valid[b])
  <2>1. l = k
    BY <1>4, <1>7
  <2>2. i # 1
    <3>1. CASE i = 1
      <4>1. t = 0
        <5>1. 0 = T * 0 + 0 /\ 0 \in 0..(T - 1) /\ i - 1 = 0
          BY <3>1
        <5>2. PICK z \in Int : z = 0
          OBVIOUS
        <5>3. T * z = 0
          BY <5>2
        <5>4. 0 % T = 0
          BY <5>1, <5>2, <5>3, DivModIs
        <5>5. t = (i - 1) % T
          BY <1>0
        <5>6. QED
          BY <5>1, <5>4, <5>5
      <4>2. valid[b] \in 1..T
        BY <1>4
      <4>3. 0 < valid[b]
        BY ONLY <4>2, T \in Nat \ {0}
      <4>4. QED
        BY ONLY <1>7, <4>1, <4>3
    <3>2. QED
      BY <3>1
  <2>3. /\ ~(t < batch.valid[b]) /\ run.m \in Scores
        /\ \A d \in 1..dim : Value(batch, b, t, h, d - 1) \in Int
    BY <1>1, <1>3, <1>4, <1>7, <1>9, <2>2
  <2>4. Holds(after, w[k], x[k], dim) /\ after.m \in Scores
    BY <1>5, <1>9, <2>3, MaskedToken
  <2>5. QED
    BY <2>1, <2>4
<1>8. QED
  BY <1>6, <1>7

(* What the kernel begins with.                                            *)
Start(vector) == [m |-> NegInf, l |-> 0, acc |-> [d \in DOMAIN vector |-> 0]]

(* Steps that follow the kernel while its run is one of numbers.           *)
Follows(g, vector, batch, h, T, N, dim) ==
    /\ g[0] = Start(vector)
    /\ \A i \in 1..N : Token(g[i - 1], vector, batch, h, T, i) \in Runs(dim) =>
                          g[i] = Token(g[i - 1], vector, batch, h, T, i)

(* It ends with the sums over all of the rows.                             *)
LEMMA TritonKeeps ==
    ASSUME NEW T \in Nat \ {0}, NEW n \in Nat, NEW dim \in Nat, NEW vector, NEW batch, NEW h,
           NEW rows, NEW c, NEW S, NEW V, NEW w, NEW x,
           HeadRows(T, n, dim, vector, batch, h, rows, c, S, V, w, x),
           NEW N \in Nat, N = n * T, NEW g, Follows(g, vector, batch, h, T, N, dim)
    PROVE  /\ \A i \in 1..N : g[i] = Token(g[i - 1], vector, batch, h, T, i)
           /\ Holds(g[N], w[c[n]], x[c[n]], dim)
           /\ n # 0 => g[N].m \in Scores
<1> DEFINE K(i) == Through(i, T, c, batch.valid)
           Good(i) == Holds(g[i], w[K(i)], x[K(i)], dim) /\ (i # 0 => g[i].m \in Scores)
           U == {i \in 0..N : Good(i)}
<1>1. \A a \in Nat : (a * T) \div T = a /\ (a * T) % T = 0
  <2>1. SUFFICES ASSUME NEW a \in Nat
                 PROVE  (a * T) \div T = a /\ (a * T) % T = 0
    OBVIOUS
  <2>2. PICK y \in Int, z \in 0..(T - 1) : y = a * T /\ z = 0
    BY Regroup
  <2>3. y = T * a + z
    BY <2>2, Regroup
  <2>4. y \div T = a /\ y % T = z
    BY ONLY T \in Nat \ {0}, a \in Int, z \in 0..(T - 1), <2>3, DivModIs
  <2>5. QED
    BY <2>2, <2>4
<1>2. K(0) = c[0] /\ K(N) = c[n]
  <2>1. 0 = 0 * T
    OBVIOUS
  <2>2. 0 \div T = 0 /\ 0 % T = 0
    BY <1>1, <2>1
  <2>3. N \div T = n /\ N % T = 0
    BY <1>1
  <2>4. QED
    BY <2>2, <2>3 DEF Through
<1>3. 0 \in U
  <2>1. c[0] = 0 /\ w[0] = 0 /\ \A d \in 1..dim : x[0][d] = 0
    BY DEF HeadRows, RowsOf, Sums
  <2>2. g[0] = [m |-> NegInf, l |-> 0, acc |-> [d \in 1..dim |-> 0]]
    BY DEF Follows, HeadRows, Start
  <2>3. g[0] \in Runs(dim)
    BY <2>2 DEF Runs
  <2>4. Holds(g[0], 0, x[0], dim)
    BY <2>1, <2>2, <2>3 DEF Holds, Carries
  <2>5. QED
    BY <1>2, <2>1, <2>4
<1>4. ASSUME NEW i \in 1..N, i - 1 \in U
      PROVE  i \in U /\ g[i] = Token(g[i - 1], vector, batch, h, T, i)
  <2>1. PICK after : after = Token(g[i - 1], vector, batch, h, T, i)
    OBVIOUS
  <2>2. Holds(g[i - 1], w[K(i - 1)], x[K(i - 1)], dim) /\ (i # 1 => g[i - 1].m \in Scores)
    BY <1>4
  <2>3. Moves(g[i - 1], after, T, n, dim, vector, batch, h, c, w, x, i, K(i - 1), K(i))
    BY <2>1, <2>2 DEF Moves
  <2> HIDE DEF K
  <2>4. Holds(after, w[K(i)], x[K(i)], dim) /\ after.m \in Scores
    BY <2>3, TritonNext
  <2>6. g[i] = after
    BY <2>1, <2>4 DEF Follows, Holds
  <2>7. QED
    BY <2>1, <2>4, <2>6
<1>5. 0..N \subseteq U
  <2> HIDE DEF U
  <2>1. \A i \in 1..N : i - 1 \in U => i \in U
    BY <1>4
  <2>2. QED
    BY <1>3, <2>1, UpTo
<1>6. \A i \in 1..N : g[i] = Token(g[i - 1], vector, batch, h, T, i)
  BY <1>4, <1>5
<1>7. Good(N)
  BY <1>5
<1>8. n # 0 => N # 0
  <2>1. SUFFICES ASSUME n # 0, N = 0
                 PROVE  FALSE
    OBVIOUS
  <2>2. 0 \div T = n /\ 0 * T = 0 /\ (0 * T) \div T = 0
    BY <1>1, <2>1
  <2>3. QED
    BY <2>1, <2>2
<1>9. QED
  BY <1>2, <1>6, <1>7, <1>8

(* The online softmax of the Triton kernel, masked rows and all, is the    *)
(* softmax over the valid rows.                                            *)
LEMMA TritonAttends ==
    ASSUME NEW T \in Nat \ {0}, NEW n \in Nat \ {0}, NEW dim \in Nat, NEW vector, NEW batch,
           NEW h, NEW rows, NEW c, NEW S, NEW V, NEW w, NEW x,
           HeadRows(T, n, dim, vector, batch, h, rows, c, S, V, w, x)
    PROVE  Attends(TritonHead(vector, batch, h), w[c[n]], x[c[n]], dim)
<1>1. PICK N \in Nat : N = n * T
  OBVIOUS
<1>2. Len(batch.valid) = n /\ batch.tokens = T /\ DOMAIN vector = 1..dim
  BY DEF HeadRows
<1> DEFINE IsFold(f) == f = [i \in 0..(Len(batch.valid) * batch.tokens) |->
            IF i = 0 THEN [m |-> NegInf, l |-> 0, acc |-> [d \in DOMAIN vector |-> 0]]
            ELSE TritonToken(f[i - 1], vector, batch, h, (i - 1) \div batch.tokens + 1,
                             (i - 1) % batch.tokens)]
<1>3. PICK R : R = Runs(dim)
  OBVIOUS
<1>4. PICK first : first = Start(vector)
  OBVIOUS
<1>5. first \in R
  BY <1>2, <1>3, <1>4 DEF Start, Runs
<1>6. PICK Step : Step = [p \in Nat \X R |->
                            IF Token(p[2], vector, batch, h, T, p[1]) \in R
                            THEN Token(p[2], vector, batch, h, T, p[1]) ELSE first]
  OBVIOUS
<1>7. Step \in [Nat \X R -> R]
  BY <1>5, <1>6
<1>8. PICK g \in [0..N -> R] : Iterates(g, first, Step, N)
  BY <1>5, <1>7, StepsDefine
<1>9. Follows(g, vector, batch, h, T, N, dim)
  <2>1. ASSUME NEW i \in 1..N, Token(g[i - 1], vector, batch, h, T, i) \in Runs(dim)
        PROVE  g[i] = Token(g[i - 1], vector, batch, h, T, i)
    <3>1. g[i] = Step[<<i, g[i - 1]>>]
      BY <1>8 DEF Iterates
    <3>2. <<i, g[i - 1]>> \in Nat \X R
      BY <1>8
    <3>3. QED
      BY <1>3, <1>6, <2>1, <3>1, <3>2
  <2>2. QED
    BY <1>4, <1>8, <2>1 DEF Follows, Iterates
<1>10. \A i \in 1..N : g[i] = Token(g[i - 1], vector, batch, h, T, i)
  <2>1. n \in Nat
    OBVIOUS
  <2>2. QED
    BY <1>1, <1>9, <2>1, TritonKeeps
<1>11. IsFold(g)
  <2>1. ASSUME NEW i \in 0..N
        PROVE  g[i] = IF i = 0 THEN [m |-> NegInf, l |-> 0,
               acc |-> [d \in DOMAIN vector |-> 0]]
                      ELSE TritonToken(g[i - 1], vector, batch, h, (i - 1) \div T + 1,
                             (i - 1) % T)
    <3>1. CASE i = 0
      BY <1>9, <3>1 DEF Follows, Start
    <3>2. CASE i # 0
      <4>1. i \in 1..N
        BY <3>2
      <4>2. QED
        BY <1>10, <3>2, <4>1, Zenon DEF Token
    <3>3. QED
      BY <3>1, <3>2
  <2>2. g = [i \in 0..N |-> g[i]]
    BY <1>8
  <2>3. QED
    BY <1>1, <1>2, <2>1, <2>2, Zenon
<1>12. PICK f : f = CHOOSE s : IsFold(s)
  OBVIOUS
<1>13. TritonHead(vector, batch, h) = Finish(f[N].m, f[N].l, f[N].acc)
  BY <1>1, <1>2, <1>12, Zenon DEF TritonHead
<1>14. IsFold(f)
  BY <1>11, <1>12, Zenon
<1>15. Follows(f, vector, batch, h, T, N, dim)
  <2>1. ASSUME NEW i \in 0..N
        PROVE  f[i] = IF i = 0 THEN [m |-> NegInf, l |-> 0,
               acc |-> [d \in DOMAIN vector |-> 0]]
                      ELSE TritonToken(f[i - 1], vector, batch, h, (i - 1) \div T + 1,
                             (i - 1) % T)
    BY <1>1, <1>2, <1>14, Zenon
  <2> HIDE DEF IsFold
  <2>2. QED
    BY <2>1 DEF Follows, Start, Token
<1> HIDE DEF IsFold
<1>16. Holds(f[N], w[c[n]], x[c[n]], dim) /\ f[N].m \in Scores
  BY <1>1, <1>15, TritonKeeps
<1>17. PICK run, W, X : run = f[N] /\ W = w[c[n]] /\ X = x[c[n]]
  OBVIOUS
<1>18. /\ run.m \in Scores /\ Carries(run.m, run.l, W) /\ DOMAIN run.acc = 1..dim
       /\ \A d \in 1..dim : Carries(run.m, run.acc[d], X[d])
  BY <1>16, <1>17 DEF Holds, Runs
<1>19. Attends(Finish(run.m, run.l, run.acc), W, X, dim)
  BY <1>18, FinishAttends
<1>20. QED
  BY <1>13, <1>17, <1>19

(***************************************************************************)
(* The merge of chunks.                                                    *)
(***************************************************************************)
(* The reference's heads.                                                  *)
LEMMA ReferenceAttends ==
    ASSUME NEW T, NEW n \in Nat, NEW dim \in Nat, NEW query, NEW batch, NEW h,
           NEW j \in DOMAIN query,
           h = KVHead(j - 1, Len(query), batch.kv_heads), Len(query[1]) = dim,
           NEW rows, rows = ValidRows(batch), NEW c, NEW S, NEW V, NEW w, NEW x,
           HeadRows(T, n, dim, query[j], batch, h, rows, c, S, V, w, x)
    PROVE  Attends(ReferenceRun(query, batch)[j], w[c[n]], x[c[n]], dim)
<1>1. PICK N \in Nat : N = c[n] /\ DOMAIN rows = 1..N
  <2>1. n \in 0..n /\ rows \in Seq(Nat \X Nat) /\ Len(rows) = c[n] /\ c \in [0..n -> Nat]
    BY DEF HeadRows, RowsOf
  <2>2. QED
    BY <2>1
<1>2. PICK s, v : /\ s = [i \in DOMAIN rows |-> Score(query[j], batch, rows[i][1],
                       rows[i][2], h)]
                  /\ v = [i \in DOMAIN rows |-> [d \in 1..dim |->
                            Value(batch, rows[i][1], rows[i][2], h, d - 1)]]
  OBVIOUS
<1>3. ReferenceRun(query, batch)[j] = SoftmaxOver(s, v, dim)
  BY <1>2, Zenon DEF ReferenceRun
<1>4. Sums(w, x, S, V, N, dim) /\ Scored(S, V, query[j], batch, h, rows, N, dim)
  BY <1>1 DEF HeadRows
<1>5. \A i \in 1..N : s[i] = S[i] /\ \A d \in 1..dim : v[i][d] = V[i][d]
  BY <1>1, <1>2, <1>4 DEF Scored
<1>6. Sums(w, x, s, v, N, dim)
  <2>1. /\ w \in [0..N -> Int] /\ w[0] = 0
        /\ x \in [0..N -> [1..dim -> Int]] /\ \A d \in 1..dim : x[0][d] = 0
    BY <1>4 DEF Sums
  <2>2. ASSUME NEW i \in 1..N
        PROVE  /\ s[i] \in Scores /\ w[i] = w[i - 1] + Weight(s[i])
               /\ \A d \in 1..dim : /\ v[i][d] \in Int
                                    /\ x[i][d] = x[i - 1][d] + Weight(s[i]) * v[i][d]
    <3>1. /\ S[i] \in Scores /\ w[i] = w[i - 1] + Weight(S[i])
          /\ \A d \in 1..dim : /\ V[i][d] \in Int
                               /\ x[i][d] = x[i - 1][d] + Weight(S[i]) * V[i][d]
      BY <1>4 DEF Sums
    <3>2. s[i] = S[i] /\ \A d \in 1..dim : v[i][d] = V[i][d]
      BY <1>5
    <3>3. QED
      BY ONLY <3>1, <3>2
  <2>3. QED
    BY <2>1, <2>2 DEF Sums
<1>7. DOMAIN s = 1..N
  BY <1>1, <1>2
<1>8. Attends(SoftmaxOver(s, v, dim), w[N], x[N], dim)
  BY <1>6, <1>7, SoftmaxAttends
<1>9. QED
  BY <1>1, <1>3, <1>8

(* x over v is a over p.                                                   *)
Balanced(a, v, x, p) == a * v = x * p

(* One element of a merged chunk.                                          *)
LEMMA MergedElement ==
    ASSUME NEW a \in Int, NEW b \in Int, NEW p \in Int, NEW q \in Int, NEW v \in Int,
           NEW w \in Int,
           NEW x \in Int, NEW y \in Int, Balanced(a, v, x, p), Balanced(b, w, y, q)
    PROVE  /\ (a * v) * q + (b * w) * p \in Int
           /\ ((a * v) * q + (b * w) * p) * (v + w) = (x + y) * ((p * q) * (v + w))
<1>0. a * v = x * p /\ b * w = y * q
  BY DEF Balanced
<1>1. PICK r \in Int, u \in Int : r = p * q /\ u = v + w
  BY Regroup
<1>2. (a * v) * q = x * r
  BY <1>0, <1>1, Regroup
<1>3. (b * w) * p = y * r
  <2>1. (y * q) * p = y * (q * p) /\ q * p = p * q
    BY Regroup
  <2>2. QED
    BY <1>0, <1>1, <2>1
<1>4. PICK e \in Int, f \in Int, g \in Int : e = x * r /\ f = y * r /\ g = x + y
  BY <1>1, Regroup
<1>5. e + f = g * r
  BY <1>1, <1>4, Regroup
<1>6. (g * r) * u = g * (r * u)
  BY <1>1, <1>4, Regroup
<1>7. QED
  BY <1>1, <1>2, <1>3, <1>4, <1>5, <1>6

(* The merge of the attention over some tokens with that over others is    *)
(* the attention over them all.                                            *)
LEMMA MergeAttends ==
    ASSUME NEW dim \in Nat, NEW left, NEW right, NEW v \in Nat \ {0}, NEW w \in Nat \ {0},
           NEW x \in [1..dim -> Int], NEW y \in [1..dim -> Int],
           Attends(left, v, x, dim), Attends(right, w, y, dim),
           NEW z, \A d \in 1..dim : z[d] = x[d] + y[d]
    PROVE  Attends(Merge(left, right), v + w, z, dim)
<1>1. PICK p \in Nat \ {0}, q \in Nat \ {0} : p = left.den /\ q = right.den
  <2>1. left.den \in Int /\ left.den > 0 /\ right.den \in Int /\ right.den > 0
    BY DEF Attends
  <2>2. QED
    BY <2>1
<1>2. /\ DOMAIN left.num = 1..dim /\ left.lse = v /\ right.lse = w
      /\ \A d \in 1..dim : /\ left.num[d] \in Int /\ left.num[d] * v = x[d] * p
                           /\ right.num[d] \in Int /\ right.num[d] * w = y[d] * q
  BY <1>1 DEF Attends
<1>3. PICK m : m = Merge(left, right)
  OBVIOUS
<1>4. /\ DOMAIN m.num = 1..dim /\ m.den = (p * q) * (v + w) /\ m.lse = v + w
      /\ \A d \in 1..dim : m.num[d] = (left.num[d] * v) * q + (right.num[d] * w) * p
  BY <1>1, <1>2, <1>3 DEF Merge
<1>5. m.den \in Int /\ m.den > 0
  <2>1. PICK r \in Nat \ {0}, u \in Nat \ {0} : r = p * q /\ u = v + w
    BY ProductPositive
  <2>2. r * u \in Nat \ {0}
    BY ProductPositive
  <2>3. QED
    BY <1>4, <2>1, <2>2
<1>6. ASSUME NEW d \in 1..dim
      PROVE  m.num[d] \in Int /\ m.num[d] * (v + w) = z[d] * m.den
  <2>1. PICK a \in Int, b \in Int, g \in Int, f \in Int :
           a = left.num[d] /\ b = right.num[d] /\ g = x[d] /\ f = y[d] /\ z[d] = g + f
    BY <1>2
  <2>2. Balanced(a, v, g, p) /\ Balanced(b, w, f, q)
    BY <1>2, <2>1 DEF Balanced
  <2>3. /\ (a * v) * q + (b * w) * p \in Int
        /\ ((a * v) * q + (b * w) * p) * (v + w) = (g + f) * ((p * q) * (v + w))
    BY <2>2, MergedElement
  <2>4. m.num[d] = (a * v) * q + (b * w) * p
    BY <1>4, <2>1
  <2>5. QED
    BY <1>4, <2>1, <2>3, <2>4
<1>7. QED
  BY <1>3, <1>4, <1>5, <1>6 DEF Attends

(***************************************************************************)
(* The threads of the CUDA kernel.                                         *)
(***************************************************************************)
(* What one launch works on: k.dim elements, k.threads threads, k.count    *)
(* rows; the products k.part of a row, their sum, its score, its values;   *)
(* the sums w and x over the first rows.                                   *)
Kernel(k, vector, batch, rows, h) ==
    /\ k.dim \in Nat \ {0} /\ Len(vector) = k.dim
    /\ k.threads \in {2, 4, 8, 16, 32, 64, 128, 256} /\ k.dim <= k.threads
    /\ k.count \in Nat \ {0} /\ Len(rows) = k.count
    /\ \A r \in 1..k.count :
          /\ \A i \in 1..k.threads :
                /\ k.part[r][i] \in Int
                /\ k.part[r][i] =
                     IF i <= k.dim
                     THEN vector[i] * Element(batch.key[rows[r][1]], batch, rows[r][2], h,
                            i - 1)
                     ELSE 0
          /\ \E a : Adds(a, k.part[r], k.threads) /\ a[k.threads] = k.sum[r]
          /\ Whole(k.sum[r], batch.bits) = k.score[r]
          /\ \A d \in 1..k.dim :
                Value(batch, rows[r][1], rows[r][2], h, d - 1) = k.value[r][d]
    /\ Sums(k.w, k.x, k.score, k.value, k.count, k.dim)

(* The threads of the launch.                                              *)
Threads(k) == 1..k.threads

(* The threads in D have run the statement and wait to run the next one.   *)
Phase(k, statement, next, D) ==
    /\ D \subseteq Threads(k)
    /\ at = [i \in Threads(k) |-> IF i \in D THEN Barrier(next) ELSE Ready(statement)]

(* Thread 0 has r rows in its running maximum and sum.                     *)
RunAt(k, r) ==
    /\ running \in [m : Scores \cup {NegInf}, l : Int]
    /\ Carries(running.m, running.l, k.w[r])
    /\ r # 0 => running.m \in Scores

(* So have the elements of the output, over the maximum m.                 *)
AccAt(k, m, r, i) == Carries(m, acc[i], k.x[r][i])

(* What the threads write are numbers.                                     *)
Numbers(k) == acc \in [Threads(k) -> Int] /\ reduce \in [Threads(k) -> Int \cup {NaN}]

(* Row r is next and nothing of it has gone into the softmax.              *)
Before(k, r) ==
    /\ r \in 1..k.count /\ row = [i \in Threads(k) |-> r]
    /\ Numbers(k) /\ RunAt(k, r - 1)
    /\ \A i \in 1..k.dim : AccAt(k, running.m, r - 1, i)

(* Row r is about to be multiplied: the threads in D have.                 *)
AtPartial(k, r, D) ==
    /\ Phase(k, "partial", "add", D) /\ Before(k, r)
    /\ stride \in [Threads(k) -> Nat]
    /\ \A i \in D : reduce[i] = k.part[r][i] /\ stride[i] = k.threads \div 2

(* p is what the turn with stride s began with; the 2 * s first of it have *)
(* the sum of the row.                                                     *)
AtAdd(k, r, D, s, p) ==
    /\ Phase(k, "add", IF s > 1 THEN "add" ELSE "state", D) /\ Before(k, r)
    /\ s \in {1, 2, 4, 8, 16, 32, 64, 128} /\ 2 * s <= k.threads
    /\ stride = [i \in Threads(k) |-> IF i \in D THEN s \div 2 ELSE s]
    /\ p \in [Threads(k) -> Int]
    /\ reduce = [i \in Threads(k) |-> IF i \in D /\ i <= s THEN p[i] + p[i + s] ELSE p[i]]
    /\ \E a : Adds(a, p, 2 * s) /\ a[2 * s] = k.sum[r]

(* Row r is in the softmax, not yet in every element of the output: those  *)
(* in D have it, the others stand at the maximum m before.                 *)
Behind(k, r, D, m) ==
    /\ r \in 1..k.count /\ Numbers(k) /\ RunAt(k, r)
    /\ m \in Scores \cup {NegInf} /\ running.m = Larger(m, k.score[r])
    /\ state = <<Exp(m, running.m), Exp(k.score[r], running.m), running.l>>
    /\ \A i \in 1..k.dim : IF i \in D THEN AccAt(k, running.m, r, i) ELSE AccAt(k, m, r - 1, i)

(* The sum of row r is there; thread 0 puts it into the softmax.           *)
AtState(k, r, D) ==
    /\ Phase(k, "state", "weigh", D)
    /\ row = [i \in Threads(k) |-> r]
    /\ IF 1 \in D THEN \E m : Behind(k, r, {}, m)
       ELSE Before(k, r) /\ reduce[1] = k.sum[r]

(* Row r goes into the elements of the output.                             *)
AtWeigh(k, r, D, m) ==
    /\ Phase(k, "weigh", IF r = k.count THEN "store" ELSE "partial", D)
    /\ row = [i \in Threads(k) |-> IF i \in D THEN r + 1 ELSE r]
    /\ Behind(k, r, D, m)

(* All of the rows are in.                                                 *)
AtStore(k) ==
    /\ Phase(k, "store", "store", {})
    /\ Numbers(k) /\ RunAt(k, k.count) /\ state[3] = running.l
    /\ \A i \in 1..k.dim : AccAt(k, running.m, k.count, i)

(* stride is a function of the threads in every phase.                     *)
KernelInv(k) ==
    \/ \E r, D : AtPartial(k, r, D)
    \/ \E r, D, s, p : AtAdd(k, r, D, s, p)
    \/ \E r, D : AtState(k, r, D) /\ stride \in [Threads(k) -> Nat]
    \/ \E r, D, m : AtWeigh(k, r, D, m) /\ stride \in [Threads(k) -> Nat]
    \/ AtStore(k)

(* In a phase a thread that is ready is about to run its statement.        *)
LEMMA PhaseIs ==
    ASSUME NEW k, NEW statement, NEW next, NEW D, Phase(k, statement, next, D),
           NEW i \in Tids, NEW s, at[i] = Ready(s)
    PROVE  i \in Threads(k) /\ i \notin D /\ s = statement
<1>1. i \in Threads(k)
  BY DEF Tids, Phase
<1>2. i \notin D
  BY <1>1 DEF Phase, Ready, Barrier
<1>3. QED
  BY <1>1, <1>2 DEF Phase, Ready

(* A thread that runs the statement joins those that wait.                 *)
LEMMA PhaseStep ==
    ASSUME NEW k, NEW statement, NEW next, NEW D, Phase(k, statement, next, D),
           NEW i, i \in Threads(k), i \notin D, at' = [at EXCEPT ![i] = Barrier(next)]
    PROVE  Phase(k, statement, next, D \cup {i})'
<1>1. at' = [j \in Threads(k) |-> IF j \in D \cup {i} THEN Barrier(next) ELSE Ready(statement)]
  BY DEF Phase
<1>2. QED
  BY <1>1 DEF Phase, Threads

(* The barrier opens when all are there.                                   *)
LEMMA PhaseOver ==
    ASSUME NEW k, NEW statement, NEW next, NEW D, Phase(k, statement, next, D), Released
    PROVE  /\ D = Threads(k) /\ at' = [i \in Threads(k) |-> Ready(next)]
           /\ UNCHANGED <<head, row, stride, acc, reduce, state, running>>
<1>1. \A i \in Threads(k) : at[i].waits
  BY DEF Tids, Phase, Released
<1>2. D = Threads(k)
  BY <1>1 DEF Phase, Ready, Barrier
<1>3. at' = [i \in Threads(k) |-> Ready(next)]
  BY <1>2 DEF Tids, Phase, Released, Ready, Barrier
<1>4. QED
  BY <1>2, <1>3 DEF Released

(* Adding the second half of the numbers to the first keeps their sum.     *)
LEMMA HalfSum ==
    ASSUME NEW s \in Nat \ {0}, NEW p, NEW a, Adds(a, p, 2 * s),
           NEW q, \A i \in 1..s : q[i] = p[i] + p[i + s]
    PROVE  \E b : Adds(b, q, s) /\ b[s] = a[2 * s]
<1>1. /\ a \in [0..(2 * s) -> Int] /\ a[0] = 0
      /\ \A i \in 1..(2 * s) : p[i] \in Int /\ a[i] = a[i - 1] + p[i]
  BY DEF Adds
<1>2. PICK b : b = [i \in 0..s |-> a[i] + a[s + i] - a[s]]
  OBVIOUS
<1>3. b \in [0..s -> Int]
  <2>1. \A i \in 0..s : a[i] \in Int /\ a[s + i] \in Int /\ a[s] \in Int
    BY <1>1
  <2>2. QED
    BY <1>2, <2>1
<1>4. b[0] = 0 /\ b[s] = a[2 * s]
  <2>1. a[0] \in Int /\ a[s] \in Int /\ a[s + s] \in Int /\ s + 0 = s /\ s + s = 2 * s
    BY <1>1
  <2>2. b[0] = a[0] + a[s + 0] - a[s] /\ b[s] = a[s] + a[s + s] - a[s]
    BY <1>2
  <2>3. a[0] = 0
    BY <1>1
  <2>4. QED
    BY <2>1, <2>2, <2>3
<1>5. ASSUME NEW i \in 1..s
      PROVE  q[i] \in Int /\ b[i] = b[i - 1] + q[i]
  <2>1. a[i] = a[i - 1] + p[i] /\ a[i - 1] \in Int /\ p[i] \in Int
    BY <1>1
  <2>2. a[s + i] = a[s + i - 1] + p[s + i] /\ a[s + i - 1] \in Int /\ p[s + i] \in Int
    BY <1>1
  <2>3. a[s] \in Int
    BY <1>1
  <2>4. b[i] = a[i] + a[s + i] - a[s] /\ b[i - 1] = a[i - 1] + a[s + (i - 1)] - a[s]
    BY <1>2
  <2>5. s + (i - 1) = s + i - 1 /\ i + s = s + i
    OBVIOUS
  <2>6. q[i] = p[i] + p[s + i]
    BY <2>5
  <2>7. b[i - 1] = a[i - 1] + a[s + i - 1] - a[s]
    BY <2>4, <2>5
  <2>8. QED
    BY <2>1, <2>2, <2>3, <2>4, <2>6, <2>7
<1>6. QED
  BY <1>3, <1>4, <1>5 DEF Adds

(* Nothing but products is written.                                        *)
LEMMA BeforeKept ==
    ASSUME NEW k, NEW r, Before(k, r), row' = row, acc' = acc, running' = running,
           reduce' \in [Threads(k) -> Int \cup {NaN}]
    PROVE  Before(k, r)'
BY DEF Before, Numbers, RunAt, AccAt, Threads

(* A thread writes its product.                                            *)
LEMMA PartialKeeps ==
    ASSUME NEW k, NEW vector, NEW batch, NEW rows, NEW h, Kernel(k, vector, batch, rows, h),
           NEW r, NEW D, AtPartial(k, r, D), NEW i \in Tids, Partial(i, vector, batch, rows, h)
    PROVE  AtPartial(k, r, D \cup {i})'
<1>1. /\ Phase(k, "partial", "add", D) /\ Before(k, r) /\ stride \in [Threads(k) -> Nat]
      /\ \A j \in D : reduce[j] = k.part[r][j] /\ stride[j] = k.threads \div 2
  BY DEF AtPartial
<1>2. at[i] = Ready("partial") /\ at' = [at EXCEPT ![i] = Barrier("add")]
  BY DEF Partial
<1>3. i \in Threads(k) /\ i \notin D /\ Phase(k, "partial", "add", D \cup {i})'
  <2>1. i \in Threads(k) /\ i \notin D
    BY <1>1, <1>2, PhaseIs
  <2>2. QED
    BY <1>1, <1>2, <2>1, PhaseStep
<1>4. k.threads \in Nat /\ k.threads \div 2 \in Nat /\ Len(at) = k.threads
  BY <1>1 DEF Kernel, Phase, Threads
<1>5. row[i] = r /\ r \in 1..k.count /\ reduce \in [Threads(k) -> Int \cup {NaN}]
  BY <1>1, <1>3 DEF Before, Numbers
<1>6. reduce' = [reduce EXCEPT ![i] = k.part[r][i]] /\ k.part[r][i] \in Int
  <2>1. reduce' = [reduce EXCEPT ![i] =
           IF i <= Len(vector)
           THEN vector[i] * Element(batch.key[rows[row[i]][1]], batch, rows[row[i]][2], h,
                  i - 1)
           ELSE 0]
    BY Zenon DEF Partial
  <2>2. /\ Len(vector) = k.dim /\ k.part[r][i] \in Int
        /\ k.part[r][i] =
              IF i <= k.dim
              THEN vector[i] * Element(batch.key[rows[r][1]], batch, rows[r][2], h, i - 1)
              ELSE 0
    BY <1>3, <1>5 DEF Kernel, Threads
  <2>3. QED
    BY <1>5, <2>1, <2>2, Zenon
<1>7. stride' = [stride EXCEPT ![i] = k.threads \div 2]
  BY <1>4 DEF Partial
<1>8. /\ stride' \in [Threads(k) -> Nat] /\ reduce' \in [Threads(k) -> Int \cup {NaN}]
      /\ \A j \in D \cup {i} : reduce'[j] = k.part[r][j] /\ stride'[j] = k.threads \div 2
  BY <1>1, <1>3, <1>4, <1>5, <1>6, <1>7 DEF Phase
<1>9. Before(k, r)'
  BY <1>1, <1>8, BeforeKept DEF Partial
<1>10. QED
  BY <1>3, <1>8, <1>9 DEF AtPartial

(* A thread adds to its number the one a stride away, which no thread      *)
(* changes in this turn.                                                   *)
LEMMA AddKeeps ==
    ASSUME NEW k, NEW vector, NEW batch, NEW rows, NEW h, Kernel(k, vector, batch, rows, h),
           NEW r, NEW D, NEW s, NEW p, AtAdd(k, r, D, s, p), NEW i \in Tids, Add(i)
    PROVE  AtAdd(k, r, D \cup {i}, s, p)'
<1> DEFINE next == IF s > 1 THEN "add" ELSE "state"
<1>1. /\ Phase(k, "add", next, D) /\ Before(k, r)
      /\ s \in {1, 2, 4, 8, 16, 32, 64, 128} /\ 2 * s <= k.threads
      /\ stride = [j \in Threads(k) |-> IF j \in D THEN s \div 2 ELSE s]
      /\ p \in [Threads(k) -> Int]
      /\ reduce = [j \in Threads(k) |-> IF j \in D /\ j <= s THEN p[j] + p[j + s] ELSE p[j]]
      /\ \E a : Adds(a, p, 2 * s) /\ a[2 * s] = k.sum[r]
  BY DEF AtAdd
<1>2. at[i] = Ready("add")
  BY DEF Add
<1>3. i \in Threads(k) /\ i \notin D
  BY <1>1, <1>2, PhaseIs
<1>4. stride[i] = s
  BY <1>1, <1>3
<1>5. at' = [at EXCEPT ![i] = Barrier(next)]
  BY <1>4 DEF Add
<1>6. Phase(k, "add", next, D \cup {i})'
  BY <1>1, <1>3, <1>5, PhaseStep
<1>7. k.threads \in Nat /\ s \in Nat \ {0} /\ s \div 2 \in Nat
  BY <1>1 DEF Kernel
<1>8. stride' = [j \in Threads(k) |-> IF j \in D \cup {i} THEN s \div 2 ELSE s]
  BY <1>1, <1>3, <1>4 DEF Add
<1>9. reduce' = [j \in Threads(k) |-> IF j \in D \cup {i}
       /\ j <= s THEN p[j] + p[j + s] ELSE p[j]]
  <2>1. CASE i <= s
    <3>1. i + s \in Threads(k) /\ ~(i + s <= s) /\ i \in Nat
      BY <1>1, <1>3, <1>7, <2>1 DEF Threads
    <3>2. reduce[i + s] = p[i + s] /\ reduce[i] = p[i] /\ p[i] \in Int /\ p[i + s] \in Int
      BY <1>1, <1>3, <3>1
    <3>3. reduce' = [reduce EXCEPT ![i] = Plus(@, reduce[i + s])]
      BY <1>4, <2>1 DEF Add
    <3>4. Plus(p[i], p[i + s]) = p[i] + p[i + s]
      BY <3>2, Special DEF Plus
    <3>5. reduce' = [reduce EXCEPT ![i] = p[i] + p[i + s]]
      BY <1>1, <1>3, <3>2, <3>3, <3>4
    <3>6. QED
      BY <1>1, <1>3, <2>1, <3>5
  <2>2. CASE ~(i <= s)
    BY <1>1, <1>3, <1>4, <2>2 DEF Add
  <2>3. QED
    BY <2>1, <2>2
<1>10. reduce' \in [Threads(k) -> Int \cup {NaN}]
  <2>1. ASSUME NEW j \in Threads(k)
        PROVE  reduce'[j] \in Int
    <3>1. CASE j <= s
      <4>1. j + s \in Threads(k)
        BY <1>1, <1>7, <3>1 DEF Threads
      <4>2. p[j] \in Int /\ p[j + s] \in Int
        BY <1>1, <4>1
      <4>3. QED
        BY <1>9, <4>2
    <3>2. CASE ~(j <= s)
      BY <1>1, <1>9, <3>2
    <3>3. QED
      BY <3>1, <3>2
  <2>2. QED
    BY <1>9, <2>1
<1>11. Before(k, r)'
  BY <1>1, <1>10, BeforeKept DEF Add
<1>12. QED
  BY <1>1, <1>6, <1>8, <1>9, <1>11 DEF AtAdd

(* What thread 0 computes from the score of a row.                         *)
LEMMA NextRun ==
    ASSUME NEW m, NEW l, NEW W, Carries(m, l, W), NEW s \in Scores,
           NEW next, next = Larger(m, s), NEW sum, sum = Scaled(l, Exp(m, next)) + Exp(s, next)
    PROVE  /\ next \in Scores /\ sum \in Int
           /\ Carries(next, sum, W + Weight(s))
<1>1. PICK old : old = Scaled(l, Exp(m, next))
  OBVIOUS
<1>2. next \in Scores /\ s <= next /\ Carries(next, old, W)
  BY <1>1, Rescale
<1>3. PICK new \in Int : new = Exp(s, next) /\ Carries(next, new, Weight(s))
  BY <1>2, Weighs, 0 \in Int
<1>4. old \in Int /\ Carries(next, Plus(old, new), W + Weight(s))
  BY <1>2, <1>3, CarryPlus
<1>5. Plus(old, new) = old + new
  BY <1>3, <1>4, Special DEF Plus
<1>6. QED
  BY <1>1, <1>2, <1>3, <1>4, <1>5

(* The facts of row r.                                                     *)
LEMMA RowFacts ==
    ASSUME NEW k, NEW vector, NEW batch, NEW rows, NEW h, Kernel(k, vector, batch, rows, h),
           NEW r \in 1..k.count
    PROVE  /\ Whole(k.sum[r], batch.bits) = k.score[r] /\ k.score[r] \in Scores
           /\ k.w[r] = k.w[r - 1] + Weight(k.score[r])
           /\ \A d \in 1..k.dim :
                 /\ Value(batch, rows[r][1], rows[r][2], h, d - 1) = k.value[r][d]
                 /\ k.value[r][d] \in Int
                 /\ k.x[r][d] = k.x[r - 1][d] + Weight(k.score[r]) * k.value[r][d]
<1>1. Whole(k.sum[r], batch.bits) = k.score[r]
  BY DEF Kernel
<1>2. \A d \in 1..k.dim : Value(batch, rows[r][1], rows[r][2], h, d - 1) = k.value[r][d]
  BY DEF Kernel
<1>3. Sums(k.w, k.x, k.score, k.value, k.count, k.dim)
  BY DEF Kernel
<1>4. /\ k.score[r] \in Scores /\ k.w[r] = k.w[r - 1] + Weight(k.score[r])
      /\ \A d \in 1..k.dim :
            k.value[r][d] \in Int
            /\ k.x[r][d] = k.x[r - 1][d] + Weight(k.score[r]) * k.value[r][d]
  BY <1>3 DEF Sums
<1>5. QED
  BY <1>1, <1>2, <1>4

(* Thread 0 takes the row into the softmax, the others go on.              *)
LEMMA StateKeeps ==
    ASSUME NEW k, NEW vector, NEW batch, NEW rows, NEW h, Kernel(k, vector, batch, rows, h),
           NEW r, NEW D, AtState(k, r, D), NEW i \in Tids, State(i, batch.bits)
    PROVE  AtState(k, r, D \cup {i})'
<1>1. Phase(k, "state", "weigh", D) /\ row = [j \in Threads(k) |-> r]
  BY DEF AtState
<1>2. at[i] = Ready("state") /\ at' = [at EXCEPT ![i] = Barrier("weigh")]
  BY DEF State
<1>3. i \in Threads(k) /\ i \notin D
  BY <1>1, <1>2, PhaseIs
<1>4. Phase(k, "state", "weigh", D \cup {i})' /\ row' = [j \in Threads(k) |-> r]
  BY <1>1, <1>2, <1>3, PhaseStep DEF State
<1>5. CASE i = 1
  <2>1. Before(k, r) /\ reduce[1] = k.sum[r] /\ r \in 1..k.count
    BY <1>3, <1>5 DEF AtState, Before
  <2>2. k.score[r] \in Scores /\ k.w[r] = k.w[r - 1] + Weight(k.score[r])
        /\ Whole(k.sum[r], batch.bits) = k.score[r]
    BY <2>1, RowFacts
  <2>3. PICK m, l, s, W : m = running.m /\ l = running.l /\ s = k.score[r] /\ W = k.w[r - 1]
    OBVIOUS
  <2>4. PICK next, sum : next = Larger(m, s) /\ sum = Scaled(l, Exp(m, next)) + Exp(s, next)
    OBVIOUS
  <2>5. running' = [m |-> next, l |-> sum] /\ state' = <<Exp(m, next), Exp(s, next), sum>>
    BY <1>5, <2>1, <2>2, <2>3, <2>4 DEF State
  <2>6. m \in Scores \cup {NegInf} /\ Carries(m, l, W)
    BY <2>1, <2>3 DEF Before, RunAt
  <2>7. next \in Scores /\ sum \in Int /\ Carries(next, sum, W + Weight(s))
    BY <2>2, <2>3, <2>4, <2>6, NextRun
  <2>8. RunAt(k, r)'
    BY <2>2, <2>3, <2>5, <2>7 DEF RunAt
  <2>9. Numbers(k)' /\ \A j \in 1..k.dim : AccAt(k, m, r - 1, j)'
    BY <2>1, <2>3 DEF State, Before, Numbers, AccAt
  <2>10. Behind(k, r, {}, m)'
    BY <2>1, <2>3, <2>4, <2>5, <2>6, <2>8, <2>9 DEF Behind
  <2>11. QED
    BY <1>4, <1>5, <2>10 DEF AtState
<1>6. CASE i # 1
  <2>1. UNCHANGED <<running, state, reduce, acc, row>>
    BY <1>6 DEF State
  <2>2. CASE 1 \in D
    <3>1. PICK m : Behind(k, r, {}, m)
      BY <2>2 DEF AtState
    <3>2. Behind(k, r, {}, m)'
      BY <2>1, <3>1 DEF Behind, Numbers, RunAt, AccAt
    <3>3. QED
      BY <1>4, <2>2, <3>2 DEF AtState
  <2>3. CASE 1 \notin D
    <3>1. Before(k, r) /\ reduce[1] = k.sum[r]
      BY <2>3 DEF AtState
    <3>2. reduce' \in [Threads(k) -> Int \cup {NaN}]
      BY <2>1, <3>1 DEF Before, Numbers
    <3>3. Before(k, r)' /\ (reduce[1] = k.sum[r])'
      BY <2>1, <3>1, <3>2, BeforeKept
    <3>4. QED
      BY <1>4, <1>6, <2>3, <3>3 DEF AtState
  <2>4. QED
    BY <2>2, <2>3
<1>7. QED
  BY <1>5, <1>6

(* A thread takes the row into its element of the output.                  *)
LEMMA NextElement ==
    ASSUME NEW m, NEW x, NEW X, Carries(m, x, X), NEW s \in Scores, NEW v \in Int,
           NEW next, next = Larger(m, s),
           NEW y, y = Plus(Scaled(x, Exp(m, next)), Scaled(Unit * v, Exp(s, next)))
    PROVE  y \in Int /\ Carries(next, y, X + Weight(s) * v)
<1>1. PICK old : old = Scaled(x, Exp(m, next))
  OBVIOUS
<1>2. next \in Scores /\ s <= next /\ Carries(next, old, X)
  BY <1>1, Rescale
<1>3. PICK new \in Int : new = Exp(s, next)
  BY <1>2, Weighs, 0 \in Int
<1>4. Carries(next, v * new, Weight(s) * v)
  BY <1>2, <1>3, Weighs
<1>5. Scaled(Unit * v, new) = v * new
  <2>1. PICK u \in Nat \ {0} : u = Unit
    BY Special
  <2>2. u * v \in Int /\ (u * v) * new = u * (v * new) /\ v * new \in Int
    BY Regroup
  <2>3. (u * (v * new)) \div u = v * new
    <3>1. PICK e \in Int : e = v * new
      BY <2>2
    <3>2. (u * e) \div u = e
      BY DivideBack
    <3>3. QED
      BY <3>1, <3>2
  <2>4. u * v # NaN /\ new # NaN
    BY <2>2, Special
  <2>5. QED
    BY <2>1, <2>2, <2>3, <2>4 DEF Scaled
<1>6. y = Plus(old, v * new)
  BY <1>1, <1>3, <1>5
<1>7. Carries(next, y, X + Weight(s) * v)
  BY <1>2, <1>4, <1>6, CarryPlus
<1>8. QED
  BY <1>2, <1>7, Finished, CarryPlus

(* A thread puts the row into its element.                                 *)
LEMMA WeighKeeps ==
    ASSUME NEW k, NEW vector, NEW batch, NEW rows, NEW h, Kernel(k, vector, batch, rows, h),
           NEW r, NEW D, NEW m, AtWeigh(k, r, D, m),
           NEW i \in Tids, Weigh(i, batch, rows, h, k.dim)
    PROVE  AtWeigh(k, r, D \cup {i}, m)'
<1> DEFINE next == IF r = k.count THEN "store" ELSE "partial"
<1>1. /\ Phase(k, "weigh", next, D)
      /\ row = [j \in Threads(k) |-> IF j \in D THEN r + 1 ELSE r]
      /\ Behind(k, r, D, m)
  BY DEF AtWeigh
<1>2. at[i] = Ready("weigh")
  BY DEF Weigh
<1>3. i \in Threads(k) /\ i \notin D
  BY <1>1, <1>2, PhaseIs
<1>4. row[i] = r
  BY <1>1, <1>3
<1>5. Len(rows) = k.count
  BY DEF Kernel
<1>6. at' = [at EXCEPT ![i] = Barrier(next)]
  BY <1>4, <1>5 DEF Weigh
<1>7. Phase(k, "weigh", next, D \cup {i})'
  BY <1>1, <1>3, <1>6, PhaseStep
<1>8. row' = [j \in Threads(k) |-> IF j \in D \cup {i} THEN r + 1 ELSE r]
  BY <1>1, <1>3 DEF Weigh
<1>9. UNCHANGED <<running, state, reduce>>
  BY DEF Weigh
<1>10. PICK M, s : M = running.m /\ s = k.score[r]
  OBVIOUS
<1>11. /\ r \in 1..k.count /\ Numbers(k) /\ RunAt(k, r)
       /\ m \in Scores \cup {NegInf} /\ M = Larger(m, s)
       /\ state = <<Exp(m, M), Exp(s, M), running.l>>
       /\ \A j \in 1..k.dim : IF j \in D THEN AccAt(k, M, r, j) ELSE AccAt(k, m, r - 1, j)
  BY <1>1, <1>10 DEF Behind
<1>12. /\ acc' \in [Threads(k) -> Int] /\ \A j \in Threads(k) \ {i} : acc'[j] = acc[j]
       /\ (i \in 1..k.dim => AccAt(k, M, r, i)')
  <2>1. acc \in [Threads(k) -> Int]
    BY <1>11 DEF Numbers
  <2>2. CASE i <= k.dim
    <3>1. i \in 1..k.dim
      BY <1>3, <2>2 DEF Kernel, Threads
    <3>2. PICK v \in Int : v = k.value[r][i]
                           /\ v = Value(batch, rows[r][1], rows[r][2], h, i - 1)
                           /\ k.x[r][i] = k.x[r - 1][i] + Weight(s) * v /\ s \in Scores
      <4>1. k.score[r] \in Scores
        BY <1>11, RowFacts
      <4>2. /\ Value(batch, rows[r][1], rows[r][2], h, i - 1) = k.value[r][i]
            /\ k.value[r][i] \in Int
            /\ k.x[r][i] = k.x[r - 1][i] + Weight(k.score[r]) * k.value[r][i]
        BY <1>11, <3>1, RowFacts
      <4>3. QED
        BY <1>10, <4>1, <4>2
    <3>3. PICK y : y = Plus(Scaled(acc[i], Exp(m, M)), Scaled(Unit * v, Exp(s, M)))
      OBVIOUS
    <3>4. Carries(m, acc[i], k.x[r - 1][i])
      BY <1>3, <1>11, <3>1 DEF AccAt
    <3>5. y \in Int /\ Carries(M, y, k.x[r - 1][i] + Weight(s) * v)
      BY <1>11, <3>2, <3>3, <3>4, NextElement
    <3>6. acc' = [acc EXCEPT ![i] = y]
      <4>1. acc' = [acc EXCEPT ![i] =
                      Plus(Scaled(@, state[1]),
                           Scaled(Unit * Value(batch, rows[row[i]][1], rows[row[i]][2], h,
                                  i - 1),
                                  state[2]))]
        BY <2>2, Zenon DEF Weigh
      <4>2. state[1] = Exp(m, M) /\ state[2] = Exp(s, M)
        BY <1>11
      <4>3. QED
        BY <1>3, <1>4, <2>1, <3>2, <3>3, <4>1, <4>2
    <3>7. /\ acc' \in [Threads(k) -> Int] /\ acc'[i] = y
          /\ \A j \in Threads(k) \ {i} : acc'[j] = acc[j]
      BY <1>3, <2>1, <3>5, <3>6
    <3>8. AccAt(k, M, r, i)'
      BY <3>2, <3>5, <3>7 DEF AccAt
    <3>9. QED
      BY <3>7, <3>8
  <2>3. CASE ~(i <= k.dim)
    <3>1. acc' = acc
      BY <2>3 DEF Weigh
    <3>2. i \notin 1..k.dim
      BY <2>3
    <3>3. QED
      BY <2>1, <3>1, <3>2
  <2>4. QED
    BY <2>2, <2>3
<1>13. Numbers(k)'
  BY <1>9, <1>11, <1>12 DEF Numbers, Threads
<1>14. RunAt(k, r)'
  BY <1>9, <1>11 DEF RunAt
<1>15. ASSUME NEW j \in 1..k.dim
       PROVE  IF j \in D \cup {i} THEN AccAt(k, M, r, j)' ELSE AccAt(k, m, r - 1, j)'
  <2>1. CASE j = i
    BY <1>12, <2>1 DEF AccAt
  <2>2. CASE j # i
    <3>1. j \in Threads(k)
      BY DEF Kernel, Threads
    <3>2. acc'[j] = acc[j]
      BY <1>12, <2>2, <3>1
    <3>3. QED
      BY <1>11, <2>2, <3>2 DEF AccAt
  <2>3. QED
    BY <2>1, <2>2
<1>16. Behind(k, r, D \cup {i}, m)'
  BY <1>9, <1>10, <1>11, <1>13, <1>14, <1>15 DEF Behind
<1>17. QED
  BY <1>7, <1>8, <1>16 DEF AtWeigh

(* The sizes of a launch.                                                  *)
LEMMA ThreadsAre ==
    ASSUME NEW k, NEW vector, NEW batch, NEW rows, NEW h, Kernel(k, vector, batch, rows, h)
    PROVE  /\ k.threads \in Nat /\ 1 \in Threads(k) /\ {} # Threads(k)
           /\ k.threads \div 2 \in {1, 2, 4, 8, 16, 32, 64, 128}
           /\ 2 * (k.threads \div 2) = k.threads
           /\ k.dim \in Nat /\ 1..k.dim \subseteq Threads(k)
<1>1. k.threads \in {2, 4, 8, 16, 32, 64, 128, 256} /\ k.dim <= k.threads /\ k.dim \in Nat
  BY DEF Kernel
<1>2. k.threads \in Nat /\ 1 \in Threads(k) /\ 1..k.dim \subseteq Threads(k)
  BY <1>1 DEF Threads
<1>3. k.threads \div 2 \in {1, 2, 4, 8, 16, 32, 64, 128} /\ 2 * (k.threads \div 2) = k.threads
  BY <1>1
<1>4. {} # Threads(k)
  BY <1>2
<1>5. QED
  BY <1>1, <1>2, <1>3, <1>4

(* All have written their products: the reduction begins.                  *)
LEMMA PartialOver ==
    ASSUME NEW k, NEW vector, NEW batch, NEW rows, NEW h, Kernel(k, vector, batch, rows, h),
           NEW r, NEW D, AtPartial(k, r, D), Released
    PROVE  \E p : AtAdd(k, r, {}, k.threads \div 2, p)'
<1>1. /\ Phase(k, "partial", "add", D) /\ Before(k, r) /\ stride \in [Threads(k) -> Nat]
      /\ \A j \in D : reduce[j] = k.part[r][j] /\ stride[j] = k.threads \div 2
  BY DEF AtPartial
<1>2. /\ D = Threads(k) /\ at' = [i \in Threads(k) |-> Ready("add")]
      /\ UNCHANGED <<head, row, stride, acc, reduce, state, running>>
  BY <1>1, PhaseOver
<1>3. PICK s : s = k.threads \div 2
  OBVIOUS
<1>4. s \in {1, 2, 4, 8, 16, 32, 64, 128} /\ 2 * s = k.threads /\ k.threads \in Nat
  BY <1>3, ThreadsAre
<1>5. r \in 1..k.count /\ reduce \in [Threads(k) -> Int \cup {NaN}]
  BY <1>1 DEF Before, Numbers
<1>6. PICK a : Adds(a, k.part[r], k.threads) /\ a[k.threads] = k.sum[r]
  BY <1>5 DEF Kernel
<1>7. PICK p : p = [i \in Threads(k) |-> k.part[r][i]]
  OBVIOUS
<1>8. p \in [Threads(k) -> Int]
  BY <1>5, <1>7 DEF Kernel, Threads
<1>9. Adds(a, p, 2 * s) /\ a[2 * s] = k.sum[r]
  BY <1>4, <1>6, <1>7 DEF Adds, Threads
<1>10. reduce' = [i \in Threads(k) |-> IF i \in {} /\ i <= s THEN p[i] + p[i + s] ELSE p[i]]
  BY <1>1, <1>2, <1>5, <1>7
<1>11. stride' = [i \in Threads(k) |-> IF i \in {} THEN s \div 2 ELSE s]
  BY <1>1, <1>2, <1>3
<1>12. Before(k, r)'
  BY <1>1, <1>2, <1>5, BeforeKept
<1>13. Phase(k, "add", IF s > 1 THEN "add" ELSE "state", {})'
  BY <1>2 DEF Phase, Threads
<1>14. AtAdd(k, r, {}, s, p)'
  BY <1>4, <1>8, <1>9, <1>10, <1>11, <1>12, <1>13 DEF AtAdd, Threads
<1>15. QED
  BY <1>3, <1>14

(* A turn of the reduction is over.                                        *)
LEMMA AddOver ==
    ASSUME NEW k, NEW vector, NEW batch, NEW rows, NEW h, Kernel(k, vector, batch, rows, h),
           NEW r, NEW D, NEW s, NEW p, AtAdd(k, r, D, s, p), Released
    PROVE  \/ \E q : AtAdd(k, r, {}, s \div 2, q)'
           \/ AtState(k, r, {})' /\ stride' \in [Threads(k) -> Nat]
<1> DEFINE next == IF s > 1 THEN "add" ELSE "state"
<1>1. /\ Phase(k, "add", next, D) /\ Before(k, r)
      /\ s \in {1, 2, 4, 8, 16, 32, 64, 128} /\ 2 * s <= k.threads
      /\ stride = [j \in Threads(k) |-> IF j \in D THEN s \div 2 ELSE s]
      /\ p \in [Threads(k) -> Int]
      /\ reduce = [j \in Threads(k) |-> IF j \in D /\ j <= s THEN p[j] + p[j + s] ELSE p[j]]
  BY DEF AtAdd
<1>2. PICK a : Adds(a, p, 2 * s) /\ a[2 * s] = k.sum[r]
  BY DEF AtAdd
<1>3. /\ D = Threads(k) /\ at' = [i \in Threads(k) |-> Ready(next)]
      /\ UNCHANGED <<head, row, stride, acc, reduce, state, running>>
  BY <1>1, PhaseOver
<1>4. k.threads \in Nat /\ s \in Nat \ {0}
  BY <1>1, ThreadsAre
<1>5. PICK q : q = [j \in Threads(k) |-> IF j <= s THEN p[j] + p[j + s] ELSE p[j]]
  OBVIOUS
<1>6. q \in [Threads(k) -> Int]
  <2>1. ASSUME NEW j \in Threads(k)
        PROVE  q[j] \in Int
    <3>1. CASE j <= s
      <4>1. j + s \in Threads(k)
        BY <1>1, <1>4, <3>1 DEF Threads
      <4>2. p[j] \in Int /\ p[j + s] \in Int
        BY <1>1, <4>1
      <4>3. QED
        BY <1>5, <3>1, <4>2
    <3>2. CASE ~(j <= s)
      BY <1>1, <1>5, <3>2
    <3>3. QED
      BY <3>1, <3>2
  <2>2. QED
    BY <1>5, <2>1
<1>7. reduce' = q
  BY <1>1, <1>3, <1>5
<1>8. \A j \in 1..s : q[j] = p[j] + p[j + s]
  BY <1>1, <1>4, <1>5 DEF Threads
<1>9. PICK b : Adds(b, q, s) /\ b[s] = k.sum[r]
  BY <1>2, <1>4, <1>8, HalfSum
<1>10. Before(k, r)'
  BY <1>1, <1>3, BeforeKept DEF Before, Numbers
<1>11. Phase(k, next, "weigh", {})' /\ row' = [j \in Threads(k) |-> r]
  BY <1>1, <1>3 DEF Phase, Threads, Before
<1>12. CASE s = 1
  <2>1. next = "state"
    BY <1>12
  <2>2. b[1] = q[1] /\ b[1] = k.sum[r]
    BY <1>9, <1>12 DEF Adds
  <2>3. (reduce[1] = k.sum[r])'
    BY <1>7, <2>2
  <2>4. stride' \in [Threads(k) -> Nat]
    BY <1>1, <1>3, <1>12
  <2>5. AtState(k, r, {})'
    BY <1>10, <1>11, <2>1, <2>3 DEF AtState
  <2>6. QED
    BY <2>4, <2>5
<1>13. CASE s # 1
  <2>1. PICK t : t = s \div 2
    OBVIOUS
  <2>2. t \in {1, 2, 4, 8, 16, 32, 64, 128} /\ 2 * t = s /\ s > 1
    BY <1>1, <1>13, <2>1
  <2>3. 2 * t <= k.threads
    BY <1>1, <1>4, <2>2
  <2>4. Adds(b, q, 2 * t) /\ b[2 * t] = k.sum[r]
    BY <1>9, <2>2
  <2>5. reduce' = [i \in Threads(k) |-> IF i \in {} /\ i <= t THEN q[i] + q[i + t] ELSE q[i]]
    BY <1>6, <1>7
  <2>6. stride' = [i \in Threads(k) |-> IF i \in {} THEN t \div 2 ELSE t]
    BY <1>1, <1>3, <2>1
  <2>7. next = "add"
    BY <2>2
  <2>8. Phase(k, "add", IF t > 1 THEN "add" ELSE "state", {})'
    BY <1>3, <2>7 DEF Phase, Threads
  <2>9. AtAdd(k, r, {}, t, q)'
    BY <1>6, <1>10, <2>2, <2>3, <2>4, <2>5, <2>6, <2>8 DEF AtAdd, Threads
  <2>10. QED
    BY <2>1, <2>9
<1>14. QED
  BY <1>12, <1>13

(* A barrier writes nothing.                                               *)
LEMMA BehindKept ==
    ASSUME NEW k, NEW r, NEW D, NEW m, Behind(k, r, D, m),
           UNCHANGED <<acc, reduce, state, running>>
    PROVE  Behind(k, r, D, m)'
BY DEF Behind, Numbers, RunAt, AccAt, Threads

(* Thread 0 has shared the weights.                                        *)
LEMMA StateOver ==
    ASSUME NEW k, NEW vector, NEW batch, NEW rows, NEW h, Kernel(k, vector, batch, rows, h),
           NEW r, NEW D, AtState(k, r, D), Released
    PROVE  \E m : AtWeigh(k, r, {}, m)'
<1>1. Phase(k, "state", "weigh", D) /\ row = [j \in Threads(k) |-> r]
  BY DEF AtState
<1>2. /\ D = Threads(k) /\ at' = [i \in Threads(k) |-> Ready("weigh")]
      /\ UNCHANGED <<head, row, stride, acc, reduce, state, running>>
  BY <1>1, PhaseOver
<1>3. 1 \in D
  BY <1>2, ThreadsAre
<1>4. PICK m : Behind(k, r, {}, m)
  BY <1>3 DEF AtState
<1>5. Behind(k, r, {}, m)'
  BY <1>2, <1>4, BehindKept
<1>6. Phase(k, "weigh", IF r = k.count THEN "store" ELSE "partial", {})'
  BY <1>2 DEF Phase, Threads
<1>7. row' = [j \in Threads(k) |-> IF j \in {} THEN r + 1 ELSE r]
  BY <1>1, <1>2
<1>8. QED
  BY <1>5, <1>6, <1>7 DEF AtWeigh, Threads

(* The row is in every element: the next row, or the end.                  *)
LEMMA WeighOver ==
    ASSUME NEW k, NEW vector, NEW batch, NEW rows, NEW h, Kernel(k, vector, batch, rows, h),
           NEW r, NEW D, NEW m, AtWeigh(k, r, D, m), Released, stride \in [Threads(k) -> Nat]
    PROVE  AtStore(k)' \/ AtPartial(k, r + 1, {})'
<1> DEFINE next == IF r = k.count THEN "store" ELSE "partial"
<1>1. /\ Phase(k, "weigh", next, D)
      /\ row = [j \in Threads(k) |-> IF j \in D THEN r + 1 ELSE r]
      /\ Behind(k, r, D, m)
  BY DEF AtWeigh
<1>2. /\ D = Threads(k) /\ at' = [i \in Threads(k) |-> Ready(next)]
      /\ UNCHANGED <<head, row, stride, acc, reduce, state, running>>
  BY <1>1, PhaseOver
<1>3. /\ r \in 1..k.count /\ Numbers(k) /\ RunAt(k, r) /\ state[3] = running.l
      /\ \A i \in 1..k.dim : IF i \in D THEN AccAt(k, running.m, r, i) ELSE AccAt(k, m,
             r - 1, i)
  BY <1>1 DEF Behind
<1>4. \A i \in 1..k.dim : AccAt(k, running.m, r, i)
  BY <1>2, <1>3, ThreadsAre
<1>5. Numbers(k)' /\ RunAt(k, r)' /\ state'[3] = running'.l
      /\ \A i \in 1..k.dim : AccAt(k, running.m, r, i)'
  BY <1>2, <1>3, <1>4 DEF Numbers, RunAt, AccAt, Threads
<1>6. Phase(k, next, next, {})' /\ Phase(k, next, "add", {})'
  BY <1>2 DEF Phase, Threads
<1>7. running' = running
  BY <1>2
<1>8. \A i \in 1..k.dim : AccAt(k, running.m, r, i)' <=> Carries(running'.m, acc'[i],
       k.x[r][i])
  BY <1>7 DEF AccAt
<1>9. CASE r = k.count
  <2>1. Phase(k, "store", "store", {})'
    BY <1>6, <1>9
  <2>2. QED
    BY <1>5, <1>9, <2>1 DEF AtStore
<1>10. CASE r # k.count
  <2>1. k.count \in Nat /\ r + 1 \in 1..k.count /\ (r + 1) - 1 = r
    BY <1>3, <1>10 DEF Kernel
  <2>2. Phase(k, "partial", "add", {})'
    BY <1>6, <1>10
  <2>3. row' = [j \in Threads(k) |-> r + 1]
    BY <1>1, <1>2
  <2>4. Before(k, r + 1)'
    BY <1>5, <1>7, <2>1, <2>3 DEF Before, Threads
  <2>5. QED
    BY <1>2, <2>2, <2>4 DEF AtPartial, Threads
<1>11. QED
  BY <1>9, <1>10

(* Whatever thread runs next, the invariant stands.                        *)
LEMMA KernelKeeps ==
    ASSUME NEW k, NEW query, NEW batch, NEW h, h = KVHead(head - 1, Len(query),
           batch.kv_heads),
           Kernel(k, query[head], batch, ValidRows(batch), h),
           KernelInv(k), KernelStep(query, batch)
    PROVE  KernelInv(k)' /\ head' = head
<1>1. PICK vector, rows : vector = query[head] /\ rows = ValidRows(batch)
  OBVIOUS
<1>2. Kernel(k, vector, batch, rows, h) /\ Len(vector) = k.dim
  BY <1>1 DEF Kernel
<1>3. \/ Released
      \/ \E i \in Tids : \/ Partial(i, vector, batch, rows, h) \/ Add(i)
                         \/ State(i, batch.bits) \/ Weigh(i, batch, rows, h, k.dim)
  BY <1>1, <1>2 DEF KernelStep
<1>4. head' = head
  BY <1>3 DEF Released, Partial, Add, State, Weigh
<1>5. k.threads \in Nat /\ {} # Threads(k)
  BY <1>2, ThreadsAre
<1>6. ASSUME NEW r, NEW D, AtPartial(k, r, D)
      PROVE  KernelInv(k)'
  <2>1. Phase(k, "partial", "add", D)
    BY <1>6 DEF AtPartial
  <2>2. CASE Released
    BY <1>2, <1>6, <2>2, PartialOver DEF KernelInv
  <2>3. ASSUME NEW i \in Tids, Partial(i, vector, batch, rows, h)
        PROVE  KernelInv(k)'
    BY <1>2, <1>6, <2>3, PartialKeeps DEF KernelInv
  <2>4. ASSUME NEW i \in Tids, Add(i) \/ State(i, batch.bits) \/ Weigh(i, batch, rows, h,
         k.dim)
        PROVE  FALSE
    <3>1. at[i] = Ready("add") \/ at[i] = Ready("state") \/ at[i] = Ready("weigh")
      BY <2>4 DEF Add, State, Weigh
    <3>2. QED
      BY <2>1, <3>1, PhaseIs
  <2>5. QED
    BY <1>3, <2>2, <2>3, <2>4
<1>7. ASSUME NEW r, NEW D, NEW s, NEW p, AtAdd(k, r, D, s, p)
      PROVE  KernelInv(k)'
  <2>1. Phase(k, "add", IF s > 1 THEN "add" ELSE "state", D)
    BY <1>7 DEF AtAdd
  <2>2. CASE Released
    <3>1. \/ \E q : AtAdd(k, r, {}, s \div 2, q)'
          \/ AtState(k, r, {})' /\ stride' \in [Threads(k) -> Nat]
      BY <1>2, <1>7, <2>2, AddOver
    <3>2. QED
      BY <3>1 DEF KernelInv, Threads
  <2>3. ASSUME NEW i \in Tids, Add(i)
        PROVE  KernelInv(k)'
    BY <1>2, <1>7, <2>3, AddKeeps DEF KernelInv
  <2>4. ASSUME NEW i \in Tids, \/ Partial(i, vector, batch, rows, h) \/ State(i, batch.bits)
                               \/ Weigh(i, batch, rows, h, k.dim)
        PROVE  FALSE
    <3>1. at[i] = Ready("partial") \/ at[i] = Ready("state") \/ at[i] = Ready("weigh")
      BY <2>4 DEF Partial, State, Weigh
    <3>2. QED
      BY <2>1, <3>1, PhaseIs
  <2>5. QED
    BY <1>3, <2>2, <2>3, <2>4
<1>8. ASSUME NEW r, NEW D, AtState(k, r, D), stride \in [Threads(k) -> Nat]
      PROVE  KernelInv(k)'
  <2>1. Phase(k, "state", "weigh", D)
    BY <1>8 DEF AtState
  <2>2. CASE Released
    <3>1. \E m : AtWeigh(k, r, {}, m)'
      BY <1>2, <1>8, <2>2, StateOver
    <3>2. stride' \in [Threads(k) -> Nat]
      BY <1>8, <2>2 DEF Released
    <3>3. QED
      BY <3>1, <3>2 DEF KernelInv, Threads
  <2>3. ASSUME NEW i \in Tids, State(i, batch.bits)
        PROVE  KernelInv(k)'
    <3>1. AtState(k, r, D \cup {i})'
      BY <1>2, <1>8, <2>3, StateKeeps
    <3>2. stride' \in [Threads(k) -> Nat]
      BY <1>8, <2>3 DEF State
    <3>3. QED
      BY <3>1, <3>2 DEF KernelInv, Threads
  <2>4. ASSUME NEW i \in Tids, \/ Partial(i, vector, batch, rows, h) \/ Add(i)
                               \/ Weigh(i, batch, rows, h, k.dim)
        PROVE  FALSE
    <3>1. at[i] = Ready("partial") \/ at[i] = Ready("add") \/ at[i] = Ready("weigh")
      BY <2>4 DEF Partial, Add, Weigh
    <3>2. QED
      BY <2>1, <3>1, PhaseIs
  <2>5. QED
    BY <1>3, <2>2, <2>3, <2>4
<1>9. ASSUME NEW r, NEW D, NEW m, AtWeigh(k, r, D, m), stride \in [Threads(k) -> Nat]
      PROVE  KernelInv(k)'
  <2>1. Phase(k, "weigh", IF r = k.count THEN "store" ELSE "partial", D)
    BY <1>9 DEF AtWeigh
  <2>2. CASE Released
    <3>1. AtStore(k)' \/ AtPartial(k, r + 1, {})'
      BY <1>2, <1>9, <2>2, WeighOver
    <3>2. QED
      BY <3>1 DEF KernelInv
  <2>3. ASSUME NEW i \in Tids, Weigh(i, batch, rows, h, k.dim)
        PROVE  KernelInv(k)'
    <3>1. AtWeigh(k, r, D \cup {i}, m)'
      BY <1>2, <1>9, <2>3, WeighKeeps
    <3>2. stride' \in [Threads(k) -> Nat]
      BY <1>9, <2>3 DEF Weigh
    <3>3. QED
      BY <3>1, <3>2 DEF KernelInv, Threads
  <2>4. ASSUME NEW i \in Tids, Partial(i, vector, batch, rows, h) \/ Add(i) \/ State(i,
         batch.bits)
        PROVE  FALSE
    <3>1. at[i] = Ready("partial") \/ at[i] = Ready("add") \/ at[i] = Ready("state")
      BY <2>4 DEF Partial, Add, State
    <3>2. QED
      BY <2>1, <3>1, PhaseIs
  <2>5. QED
    BY <1>3, <2>2, <2>3, <2>4
<1>10. ASSUME AtStore(k)
       PROVE  KernelInv(k)'
  <2>1. Phase(k, "store", "store", {})
    BY <1>10 DEF AtStore
  <2>2. CASE Released
    <3>1. {} = Threads(k)
      BY <2>1, <2>2, PhaseOver
    <3>2. QED
      BY <1>5, <3>1
  <2>3. ASSUME NEW i \in Tids, \/ Partial(i, vector, batch, rows, h) \/ Add(i)
                               \/ State(i, batch.bits) \/ Weigh(i, batch, rows, h, k.dim)
        PROVE  FALSE
    <3>1. \/ at[i] = Ready("partial") \/ at[i] = Ready("add") \/ at[i] = Ready("state")
          \/ at[i] = Ready("weigh")
      BY <2>3 DEF Partial, Add, State, Weigh
    <3>2. QED
      BY <2>1, <3>1, PhaseIs
  <2>4. QED
    BY <1>3, <2>2, <2>3
<1>11. QED
  BY <1>4, <1>6, <1>7, <1>8, <1>9, <1>10 DEF KernelInv

(* What the phases have in common.                                         *)
LEMMA KernelTypes ==
    ASSUME NEW k, KernelInv(k)
    PROVE  /\ Numbers(k) /\ Tids = Threads(k)
           /\ \A i \in Tids : at[i].next \in {"partial", "add", "state", "weigh", "store"}
<1>1. \E statement, next \in {"partial", "add", "state", "weigh", "store"},
        D \in SUBSET Threads(k) :
         at = [i \in Threads(k) |-> IF i \in D THEN Barrier(next) ELSE Ready(statement)]
  <2>1. \E D : \/ Phase(k, "partial", "add", D) \/ Phase(k, "add", "add", D)
                \/ Phase(k, "add", "state", D) \/ Phase(k, "state", "weigh", D)
                \/ Phase(k, "weigh", "partial", D) \/ Phase(k, "weigh", "store", D)
                \/ Phase(k, "store", "store", D)
    BY DEF KernelInv, AtPartial, AtAdd, AtState, AtWeigh, AtStore
  <2>2. QED
    BY <2>1 DEF Phase
<1>2. Numbers(k)
  BY DEF KernelInv, AtPartial, AtAdd, AtState, AtWeigh, AtStore, Before, Behind
<1>3. PICK statement \in {"partial", "add", "state", "weigh", "store"},
           next \in {"partial", "add", "state", "weigh", "store"},
           D \in SUBSET Threads(k) :
         at = [i \in Threads(k) |-> IF i \in D THEN Barrier(next) ELSE Ready(statement)]
  BY <1>1
<1>4. Tids = Threads(k)
  BY <1>3 DEF Tids
<1>5. \A i \in Tids : at[i].next \in {"partial", "add", "state", "weigh", "store"}
  BY <1>3, <1>4 DEF Ready, Barrier
<1>6. QED
  BY <1>2, <1>4, <1>5

(* A block has a thread for every element.                                 *)
LEMMA BlockDimIs ==
    ASSUME NEW dim \in Nat, dim <= 256
    PROVE  BlockDim(dim) \in {2, 4, 8, 16, 32, 64, 128, 256} /\ dim <= BlockDim(dim)
<1> DEFINE sizes == {n \in {2, 4, 8, 16, 32, 64, 128, 256} : n >= MinThreads /\ n >= dim}
<1>1. 256 \in sizes /\ sizes \subseteq Nat
  BY KernelAssumption
<1> HIDE DEF sizes
<1>2. \E n \in sizes : \A m \in sizes : n <= m
  BY <1>1, LeastElement
<1>3. PICK b : b = CHOOSE n \in sizes : \A m \in sizes : n <= m
  OBVIOUS
<1>4. b \in sizes
  BY <1>2, <1>3, Zenon
<1>5. BlockDim(dim) = b
  BY <1>3, Zenon DEF BlockDim, sizes
<1>6. QED
  BY <1>4, <1>5 DEF sizes

(* A launch begins with the first row.                                     *)
LEMMA LaunchStarts ==
    ASSUME NEW k, NEW vector, NEW batch, NEW rows, NEW h, Kernel(k, vector, batch, rows, h),
           NEW e, k.threads = BlockDim(k.dim), Launch(e, k.dim, rows)
    PROVE  KernelInv(k)' /\ head' = e
<1>1. /\ k.threads \in Nat /\ k.threads \div 2 \in Nat /\ 1..k.dim \subseteq Threads(k)
      /\ 1 \in 1..k.count /\ rows # <<>> /\ 1 - 1 = 0
  <2>1. k.threads \in Nat /\ k.threads \div 2 \in Nat /\ 1..k.dim \subseteq Threads(k)
    BY ThreadsAre
  <2>2. 1 \in 1..k.count /\ rows # <<>>
    BY DEF Kernel
  <2>3. QED
    BY <2>1, <2>2
<1>2. k.w[0] = 0 /\ \A d \in 1..k.dim : k.x[0][d] = 0
  BY DEF Kernel, Sums
<1>3. /\ head' = e /\ at' = [i \in Threads(k) |-> Ready("partial")]
      /\ row' = [i \in Threads(k) |-> 1] /\ stride' = [i \in Threads(k) |-> k.threads \div 2]
      /\ acc' = [i \in Threads(k) |-> 0] /\ reduce' = [i \in Threads(k) |-> NaN]
      /\ running' = [m |-> NegInf, l |-> 0]
  BY <1>1 DEF Launch, Threads
<1>4. Phase(k, "partial", "add", {})'
  BY <1>3 DEF Phase, Threads
<1>5. RunAt(k, 0)' /\ \A i \in 1..k.dim : AccAt(k, running.m, 0, i)'
  BY <1>1, <1>2, <1>3 DEF RunAt, AccAt, Carries
<1>6. Before(k, 1)'
  BY <1>1, <1>3, <1>5 DEF Before, Numbers, Threads
<1>7. AtPartial(k, 1, {})'
  BY <1>1, <1>3, <1>4, <1>6 DEF AtPartial, Threads
<1>8. QED
  BY <1>3, <1>7 DEF KernelInv

(* When all threads have come to the store they hold the attention.        *)
LEMMA KernelAttends ==
    ASSUME NEW k, NEW vector, NEW batch, NEW rows, NEW h, Kernel(k, vector, batch, rows, h),
           KernelInv(k), Stored
    PROVE  Attends(KernelResult(k.dim), k.w[k.count], k.x[k.count], k.dim)
<1>1. PICK i \in Tids : at[i] = Ready("store")
  BY DEF Stored
<1>2. AtStore(k)
  <2>1. \A next, D : /\ ~Phase(k, "partial", next, D) /\ ~Phase(k, "add", next, D)
                     /\ ~Phase(k, "state", next, D) /\ ~Phase(k, "weigh", next, D)
    BY <1>1, PhaseIs
  <2>2. QED
    BY <2>1 DEF KernelInv, AtPartial, AtAdd, AtState, AtWeigh
<1>3. PICK m, l, W, X : m = running.m /\ l = running.l /\ W = k.w[k.count] /\ X = k.x[k.count]
  OBVIOUS
<1>4. k.count \in Nat \ {0} /\ k.dim \in Nat
  BY DEF Kernel
<1>5. m \in Scores /\ Carries(m, l, W) /\ state[3] = l
  BY <1>2, <1>3, <1>4 DEF AtStore, RunAt
<1>6. PICK a : a = [d \in 1..k.dim |-> acc[d]]
  OBVIOUS
<1>7. DOMAIN a = 1..k.dim /\ \A d \in 1..k.dim : Carries(m, a[d], X[d])
  BY <1>2, <1>3, <1>6 DEF AtStore, AccAt
<1>8. /\ Attends(Finish(m, l, a), W, X, k.dim)
      /\ Finish(m, l, <<>>).lse = W
  BY <1>4, <1>5, <1>7, FinishAttends
<1>9. KernelResult(k.dim) = [num |-> a, den |-> l, lse |-> W]
  BY <1>3, <1>5, <1>6, <1>8 DEF KernelResult
<1>10. Finish(m, l, a).num = a /\ Finish(m, l, a).den = l
  BY DEF Finish
<1>11. QED
  BY <1>3, <1>8, <1>9, <1>10 DEF Attends
=================================================================================
