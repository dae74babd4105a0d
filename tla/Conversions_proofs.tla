------------------------- MODULE Conversions_proofs -------------------------
(***************************************************************************)
(* Proofs about decimals and units, for every width of mantissas and       *)
(* exponents: products, integers, and durations are the nearest ones.      *)
(***************************************************************************)
EXTENDS Conversions, TLAPS

LOCAL INSTANCE FiniteSetsExt

\* For induction over numbers; its loop is not used.
LOCAL Numbers == INSTANCE Visiting_proofs WITH Step <- Rounded, Good <- Reduced
-----------------------------------------------------------------------------
(* Powers of ten *)

\* What the recursive definition of TenTo says.
IsPowers(f) == f = [n \in Nat |-> IF n = 0 THEN 1 ELSE 10 * f[n - 1]]

\* The recursion has a solution.
LEMMA PowersExist == \E f : IsPowers(f)
<1>. DEFINE Upto(f, m) == /\ DOMAIN f = 0..m
                          /\ \A n \in 0..m : f[n] = IF n = 0 THEN 1 ELSE 10 * f[n - 1]
            S == {m \in Nat : \E f : Upto(f, m)}
<1>1. 0 \in S
  <2>1. Upto([n \in 0..0 |-> 1], 0)
    OBVIOUS
  <2>. QED
    BY <2>1
<1>2. ASSUME NEW m \in Nat, m \in S  PROVE m + 1 \in S
  <2>1. PICK f : Upto(f, m)
    BY <1>2
  <2>. DEFINE g == [n \in 0..(m + 1) |-> IF n = m + 1 THEN 10 * f[m] ELSE f[n]]
  <2>2. ASSUME NEW n \in 0..(m + 1)
        PROVE  g[n] = IF n = 0 THEN 1 ELSE 10 * g[n - 1]
    <3>1. CASE n = m + 1
      BY <3>1
    <3>2. CASE n # m + 1
      <4>1. n \in 0..m /\ f[n] = IF n = 0 THEN 1 ELSE 10 * f[n - 1]
        BY <2>1, <3>2
      <4>2. g[n] = f[n] /\ (n # 0 => g[n - 1] = f[n - 1])
        BY <3>2
      <4>. HIDE DEF g
      <4>. QED
        BY <4>1, <4>2
    <3>. QED
      BY <3>1, <3>2
  <2>3. Upto(g, m + 1)
    BY <2>2
  <2>. HIDE DEF Upto, g
  <2>. QED
    BY <2>3
<1>3. Nat \subseteq S
  <2>. HIDE DEF S
  <2>. QED
    BY <1>1, <1>2, Numbers!InductionOnSet
<1>4. \A f, g : \A m, n \in Nat : Upto(f, m) /\ Upto(g, n) /\ m <= n => f[m] = g[m]
  <2>. SUFFICES ASSUME NEW f, NEW g, NEW k \in Nat, NEW n \in Nat,
                       Upto(f, k), Upto(g, n), k <= n
                PROVE  f[k] = g[k]
    OBVIOUS
  <2>. DEFINE T == {i \in Nat : i <= k => f[i] = g[i]}
  <2>1. 0 \in T
    OBVIOUS
  <2>2. ASSUME NEW i \in Nat, i \in T  PROVE i + 1 \in T
    <3>. SUFFICES ASSUME i + 1 <= k  PROVE f[i + 1] = g[i + 1]
      OBVIOUS
    <3>1. f[i] = g[i]
      BY <2>2
    <3>2. i + 1 \in 0..k /\ i + 1 \in 0..n /\ i + 1 # 0 /\ (i + 1) - 1 = i
      OBVIOUS
    <3>. QED
      BY <3>1, <3>2
  <2>3. Nat \subseteq T
    <3>. HIDE DEF T
    <3>. QED
      BY <2>1, <2>2, Numbers!InductionOnSet
  <2>. QED
    BY <2>3
<1>. DEFINE upto(m) == CHOOSE f : Upto(f, m)
            p == [n \in Nat |-> upto(n)[n]]
<1>5. ASSUME NEW m \in Nat  PROVE Upto(upto(m), m)
  <2>1. \E f : Upto(f, m)
    BY <1>3
  <2>. HIDE DEF Upto
  <2>. QED
    BY <2>1
<1>6. ASSUME NEW n \in Nat  PROVE p[n] = IF n = 0 THEN 1 ELSE 10 * p[n - 1]
  <2>1. CASE n = 0
    <3>1. Upto(upto(n), n) /\ p[n] = upto(n)[n]
      BY <1>5
    <3>. HIDE DEF upto, p
    <3>. QED
      BY <2>1, <3>1
  <2>2. CASE n # 0
    <3>1. /\ n - 1 \in Nat /\ Upto(upto(n), n) /\ Upto(upto(n - 1), n - 1)
          /\ p[n] = upto(n)[n] /\ p[n - 1] = upto(n - 1)[n - 1]
      BY <1>5, <2>2
    <3>. HIDE DEF upto, p
    <3>2. upto(n)[n] = 10 * upto(n)[n - 1]
      BY <2>2, <3>1
    <3>3. upto(n - 1)[n - 1] = upto(n)[n - 1]
      <4>1. n - 1 <= n
        OBVIOUS
      <4>. HIDE DEF Upto
      <4>. QED
        BY <1>4, <3>1, <4>1
    <3>. QED
      BY <2>2, <3>1, <3>2, <3>3
  <2>. QED
    BY <2>1, <2>2
<1>7. p = [n \in Nat |-> IF n = 0 THEN 1 ELSE 10 * p[n - 1]]
  <2>1. p = [n \in Nat |-> p[n]]
    OBVIOUS
  <2>. HIDE DEF p
  <2>. QED
    BY <1>6, <2>1
<1>. QED
  BY <1>7 DEF IsPowers

\* TenTo is that solution.
LEMMA TenToIs ==
  /\ TenTo[0] = 1
  /\ \A n \in Nat : TenTo[n + 1] = 10 * TenTo[n]
<1>1. IsPowers(TenTo)
  <2>1. TenTo = CHOOSE f : IsPowers(f)
    BY DEF TenTo, IsPowers
  <2>. QED
    BY <2>1, PowersExist
<1>2. ASSUME NEW n \in Nat  PROVE TenTo[n + 1] = 10 * TenTo[n]
  <2>1. n + 1 \in Nat /\ n + 1 # 0 /\ (n + 1) - 1 = n
    OBVIOUS
  <2>. QED
    BY <1>1, <2>1 DEF IsPowers
<1>. QED
  BY <1>1, <1>2 DEF IsPowers

\* ... and their sign.
LEMMA TenToType == \A n \in Nat : TenTo[n] \in Nat \ {0}
<1>. DEFINE S == {n \in Nat : TenTo[n] \in Nat \ {0}}
<1>1. 0 \in S
  BY TenToIs
<1>2. ASSUME NEW n \in Nat, n \in S  PROVE n + 1 \in S
  BY <1>2, TenToIs
<1>3. Nat \subseteq S
  <2>. HIDE DEF S
  <2>. QED
    BY <1>1, <1>2, Numbers!InductionOnSet
<1>. QED
  BY <1>3
-----------------------------------------------------------------------------
(* Division *)

\* Quotient and rest.
LEMMA DivMod ==
  ASSUME NEW x \in Int, NEW d \in Nat \ {0}
  PROVE  /\ x \div d \in Int /\ x % d \in 0..(d - 1)
         /\ x = (x \div d) * d + (x % d)
OBVIOUS

\* A positive factor changes no order.
LEMMA Times ==
  ASSUME NEW a \in Int, NEW b \in Int, NEW c \in Nat \ {0}
  PROVE  /\ a < b <=> a * c < b * c
         /\ a <= b <=> a * c <= b * c
         /\ a = b <=> a * c = b * c
OBVIOUS

\* A quotient is the only one with a rest below the divisor.
LEMMA Division ==
  ASSUME NEW d \in Nat \ {0}, NEW q \in Int, NEW r \in 0..(d - 1)
  PROVE  (q * d + r) \div d = q /\ (q * d + r) % d = r
<1>. DEFINE x == q * d + r
            q1 == x \div d
            r1 == x % d
<1>1. x \in Int /\ q1 \in Int /\ r1 \in 0..(d - 1) /\ x = q1 * d + r1
  BY DivMod
<1>2. x = q * d + r
  OBVIOUS
<1>. HIDE DEF x, q1, r1
<1>3. (q - q1) * d = r1 - r
  BY <1>1, <1>2
<1>4. -1 * d < (q - q1) * d /\ (q - q1) * d < 1 * d
  BY <1>1, <1>3
<1>5. -1 < q - q1 /\ q - q1 < 1
  BY <1>1, <1>4, Times
<1>6. q = q1
  BY <1>1, <1>5
<1>7. r = r1
  BY <1>1, <1>2, <1>6
<1>. QED
  BY <1>6, <1>7 DEF x, q1, r1

\* A multiple leaves nothing.
LEMMA Exact ==
  ASSUME NEW d \in Nat \ {0}, NEW q \in Int
  PROVE  (q * d) \div d = q /\ (q * d) % d = 0
<1>. DEFINE r == 0
<1>1. r \in 0..(d - 1) /\ q * d = q * d + r
  OBVIOUS
<1>. HIDE DEF r
<1>2. (q * d + r) \div d = q /\ (q * d + r) % d = r
  BY <1>1, Division
<1>. QED
  BY <1>1, <1>2 DEF r
-----------------------------------------------------------------------------
(* Zeros *)

\* Exponents are added.
LEMMA TenToSum ==
  ASSUME NEW m \in Nat, NEW n \in Nat
  PROVE  TenTo[m + n] = TenTo[m] * TenTo[n]
<1>. DEFINE S == {k \in Nat : TenTo[m + k] = TenTo[m] * TenTo[k]}
<1>1. 0 \in S
  BY TenToIs, TenToType
<1>2. ASSUME NEW k \in Nat, k \in S  PROVE k + 1 \in S
  <2>1. m + (k + 1) = (m + k) + 1 /\ m + k \in Nat
    OBVIOUS
  <2>2. TenTo[m + (k + 1)] = 10 * (TenTo[m] * TenTo[k])
    BY <1>2, <2>1, TenToIs
  <2>3. TenTo[k + 1] = 10 * TenTo[k]
    BY TenToIs
  <2>4. TenTo[m] \in Nat /\ TenTo[k] \in Nat
    BY TenToType
  <2>. QED
    BY <2>2, <2>3, <2>4
<1>3. Nat \subseteq S
  <2>. HIDE DEF S
  <2>. QED
    BY <1>1, <1>2, Numbers!InductionOnSet
<1>. QED
  BY <1>3

\* A larger power is a multiple of a smaller one.
LEMMA TenToGrows ==
  ASSUME NEW m \in Nat, NEW n \in Nat, m <= n
  PROVE  /\ n - m \in Nat /\ TenTo[n] = TenTo[n - m] * TenTo[m]
         /\ TenTo[m] <= TenTo[n]
<1>1. n - m \in Nat /\ (n - m) + m = n
  OBVIOUS
<1>2. TenTo[n] = TenTo[n - m] * TenTo[m]
  BY <1>1, TenToSum
<1>3. TenTo[n - m] \in Nat \ {0} /\ TenTo[m] \in Nat \ {0}
  BY <1>1, TenToType
<1>4. 1 * TenTo[m] <= TenTo[n - m] * TenTo[m]
  BY <1>3, Times
<1>. QED
  BY <1>1, <1>2, <1>3, <1>4

\* The powers of 10 above 1 are even, and multiples of 10.
LEMMA TenToTen ==
  ASSUME NEW n \in Nat \ {0}
  PROVE  /\ n - 1 \in Nat /\ TenTo[n] = 10 * TenTo[n - 1]
         /\ TenTo[n] \in Nat \ {0} /\ TenTo[n] > 1 /\ TenTo[n] % 2 = 0
<1>1. n - 1 \in Nat /\ (n - 1) + 1 = n
  OBVIOUS
<1>2. TenTo[n] = 10 * TenTo[n - 1] /\ TenTo[n - 1] \in Nat \ {0}
  BY <1>1, TenToIs, TenToType
<1>. QED
  BY <1>1, <1>2

\* Zeros at the end are counted in one way.
Zeros10(m, k, r) == k \in Nat /\ r \in Nat \ {0} /\ r % 10 # 0 /\ m = r * TenTo[k]

\* Divide by 10 as long as it can be done.
LEMMA ZerosExist ==
  ASSUME NEW m \in Nat \ {0}
  PROVE  \E k, r : Zeros10(m, k, r)
<1>. DEFINE S == {r \in Nat \ {0} : \E k \in Nat : m = r * TenTo[k]}
<1>1. m \in S
  <2>1. m = m * TenTo[0]
    BY TenToIs
  <2>. QED
    BY <2>1
<1>2. S \in SUBSET Nat /\ S # {}
  BY <1>1
<1>3. PICK r \in S : \A s \in S : r <= s
  <2>. HIDE DEF S
  <2>. QED
    BY <1>2, Numbers!LeastNumber
<1>4. PICK k \in Nat : m = r * TenTo[k]
  OBVIOUS
<1>5. r % 10 # 0
  <2>. SUFFICES ASSUME r % 10 = 0  PROVE FALSE
    OBVIOUS
  <2>. DEFINE s == r \div 10
  <2>1. s \in Nat \ {0} /\ r = 10 * s /\ s < r
    OBVIOUS
  <2>2. TenTo[k + 1] = 10 * TenTo[k] /\ TenTo[k] \in Nat \ {0} /\ k + 1 \in Nat
    BY TenToIs, TenToType
  <2>. HIDE DEF s
  <2>3. m = s * TenTo[k + 1]
    BY <1>4, <2>1, <2>2
  <2>4. s \in S
    BY <2>1, <2>2, <2>3
  <2>. HIDE DEF S
  <2>. QED
    BY <1>3, <2>1, <2>4
<1>. QED
  BY <1>4, <1>5 DEF Zeros10

\* What is left and how often are determined.
LEMMA ZerosUnique ==
  ASSUME NEW m, NEW k1, NEW r1, NEW k2, NEW r2, Zeros10(m, k1, r1), Zeros10(m, k2, r2)
  PROVE  k1 = k2 /\ r1 = r2
<1>1. ASSUME NEW j1, NEW s1, NEW j2, NEW s2, Zeros10(m, j1, s1), Zeros10(m, j2, s2),
             j1 <= j2
      PROVE  j1 = j2 /\ s1 = s2
  <2>1. /\ j1 \in Nat /\ j2 \in Nat /\ s1 \in Nat /\ s2 \in Nat
        /\ m = s1 * TenTo[j1] /\ m = s2 * TenTo[j2] /\ s1 % 10 # 0
    BY <1>1 DEF Zeros10
  <2>2. j2 - j1 \in Nat /\ TenTo[j2] = TenTo[j2 - j1] * TenTo[j1]
    BY <1>1, <2>1, TenToGrows
  <2>3. TenTo[j1] \in Nat \ {0} /\ TenTo[j2 - j1] \in Nat \ {0}
    BY <2>1, <2>2, TenToType
  <2>4. s1 = s2 * TenTo[j2 - j1]
    <3>1. s1 * TenTo[j1] = (s2 * TenTo[j2 - j1]) * TenTo[j1]
      BY <2>1, <2>2, <2>3
    <3>. QED
      BY <2>1, <2>3, <3>1, Times
  <2>5. j2 - j1 = 0
    <3>. SUFFICES ASSUME j2 - j1 # 0  PROVE FALSE
      OBVIOUS
    <3>1. /\ j2 - j1 - 1 \in Nat /\ TenTo[j2 - j1] = 10 * TenTo[j2 - j1 - 1]
      BY <2>2, TenToTen
    <3>2. TenTo[j2 - j1 - 1] \in Nat
      BY <3>1, TenToType
    <3>3. s1 = 10 * (s2 * TenTo[j2 - j1 - 1])
      BY <2>1, <2>4, <3>1, <3>2
    <3>4. s2 * TenTo[j2 - j1 - 1] \in Nat
      BY <2>1, <3>2
    <3>. QED
      BY <2>1, <3>3, <3>4
  <2>6. j1 = j2
    BY <2>1, <2>5
  <2>7. s1 = s2
    BY <2>1, <2>4, <2>5, TenToIs
  <2>. QED
    BY <2>6, <2>7
<1>2. k1 \in Nat /\ k2 \in Nat
  BY DEF Zeros10
<1>3. CASE k1 <= k2
  BY <1>1, <1>3
<1>4. CASE k2 <= k1
  BY <1>1, <1>4
<1>. QED
  BY <1>2, <1>3, <1>4

\* What the recursive definition in Reduced says.
IsStrip(f) == f = [m \in Nat \ {0} |-> IF m % 10 = 0 THEN 1 + f[m \div 10] ELSE 0]

\* One zero less.
LEMMA ZerosStep ==
  ASSUME NEW m, NEW k, NEW r, Zeros10(m, k, r)
  PROVE  /\ m \in Nat \ {0}
         /\ IF m % 10 = 0
            THEN k # 0 /\ m \div 10 \in Nat \ {0} /\ Zeros10(m \div 10, k - 1, r)
            ELSE k = 0
<1>1. k \in Nat /\ r \in Nat \ {0} /\ r % 10 # 0 /\ m = r * TenTo[k]
  BY DEF Zeros10
<1>2. TenTo[k] \in Nat \ {0}
  BY <1>1, TenToType
<1>3. m \in Nat \ {0}
  <2>1. 0 * TenTo[k] < r * TenTo[k]
    BY <1>1, <1>2, Times
  <2>2. r * TenTo[k] \in Int
    BY <1>1, <1>2
  <2>. QED
    BY <1>1, <1>2, <2>1, <2>2
<1>4. CASE k = 0
  <2>1. m = r
    BY <1>1, <1>4, TenToIs
  <2>. QED
    BY <1>1, <1>3, <1>4, <2>1
<1>5. CASE k # 0
  <2>1. k - 1 \in Nat /\ TenTo[k] = 10 * TenTo[k - 1]
    BY <1>1, <1>5, TenToTen
  <2>2. TenTo[k - 1] \in Nat \ {0}
    BY <2>1, TenToType
  <2>. DEFINE s == r * TenTo[k - 1]
  <2>3. s \in Nat /\ m = 10 * s
    BY <1>1, <2>1, <2>2
  <2>. HIDE DEF s
  <2>4. m % 10 = 0 /\ m \div 10 = s /\ s # 0
    BY <1>3, <2>3
  <2>. QED
    BY <1>1, <1>3, <1>5, <2>1, <2>4 DEF Zeros10, s
<1>. QED
  BY <1>4, <1>5

\* Counting zeros solves the recursion,
LEMMA StripExists == \E f : IsStrip(f)
<1>. DEFINE zeros(m) == CHOOSE k : \E r : Zeros10(m, k, r)
            f == [m \in Nat \ {0} |-> zeros(m)]
<1>1. ASSUME NEW m \in Nat \ {0}  PROVE \E r : Zeros10(m, zeros(m), r)
  BY ZerosExist
<1>. HIDE DEF zeros
<1>2. ASSUME NEW m \in Nat \ {0}
      PROVE  f[m] = IF m % 10 = 0 THEN 1 + f[m \div 10] ELSE 0
  <2>1. PICK r : Zeros10(m, zeros(m), r)
    BY <1>1
  <2>2. CASE m % 10 # 0
    BY <2>1, <2>2, ZerosStep
  <2>3. CASE m % 10 = 0
    <3>1. m \div 10 \in Nat \ {0} /\ Zeros10(m \div 10, zeros(m) - 1, r)
      BY <2>1, <2>3, ZerosStep
    <3>2. PICK s : Zeros10(m \div 10, zeros(m \div 10), s)
      BY <1>1, <3>1
    <3>3. zeros(m) - 1 = zeros(m \div 10)
      BY <3>1, <3>2, ZerosUnique
    <3>4. zeros(m) \in Nat /\ zeros(m \div 10) \in Nat
      BY <2>1, <3>2 DEF Zeros10
    <3>5. f[m] = zeros(m) /\ f[m \div 10] = zeros(m \div 10)
      BY <3>1
    <3>. HIDE DEF f
    <3>. QED
      BY <2>3, <3>3, <3>4, <3>5
  <2>. QED
    BY <2>2, <2>3
<1>3. f = [m \in Nat \ {0} |-> f[m]]
  OBVIOUS
<1>4. IsStrip(f)
  <2>. HIDE DEF f
  <2>. QED
    BY <1>2, <1>3 DEF IsStrip
<1>. QED
  BY <1>4

\* ... and nothing else does.
LEMMA StripCounts ==
  ASSUME NEW f, IsStrip(f)
  PROVE  \A k \in Nat : \A m, r : Zeros10(m, k, r) => f[m] = k
<1>. DEFINE S == {k \in Nat : \A m, r : Zeros10(m, k, r) => f[m] = k}
<1>1. 0 \in S
  <2>. SUFFICES ASSUME NEW m, NEW r, Zeros10(m, 0, r)  PROVE f[m] = 0
    OBVIOUS
  <2>1. m \in Nat \ {0} /\ m % 10 # 0
    BY ZerosStep
  <2>. QED
    BY <2>1 DEF IsStrip
<1>2. ASSUME NEW k \in Nat, k \in S  PROVE k + 1 \in S
  <2>. SUFFICES ASSUME NEW m, NEW r, Zeros10(m, k + 1, r)  PROVE f[m] = k + 1
    OBVIOUS
  <2>1. k + 1 # 0 /\ (k + 1) - 1 = k
    OBVIOUS
  <2>2. m \in Nat \ {0} /\ m % 10 = 0 /\ Zeros10(m \div 10, k, r)
    BY <2>1, ZerosStep
  <2>3. f[m \div 10] = k
    BY <1>2, <2>2
  <2>4. f[m] = 1 + f[m \div 10]
    BY <2>2 DEF IsStrip
  <2>. QED
    BY <2>3, <2>4
<1>3. Nat \subseteq S
  <2>. HIDE DEF S
  <2>. QED
    BY <1>1, <1>2, Numbers!InductionOnSet
<1>. QED
  BY <1>3

\* So the zeros are moved to the exponent.
LEMMA ReducedIs ==
  ASSUME NEW d, d.mantissa \in Nat \ {0}, NEW k, NEW r, Zeros10(d.mantissa, k, r)
  PROVE  Reduced(d) = [mantissa |-> r, exponent |-> d.exponent + k]
<1>. DEFINE strip == CHOOSE f : IsStrip(f)
            m == d.mantissa
<1>1. IsStrip(strip)
  BY StripExists
<1>2. Reduced(d) = [mantissa |-> m \div TenTo[strip[m]],
                    exponent |-> d.exponent + strip[m]]
  BY DEF Reduced, IsStrip
<1>. HIDE DEF strip
<1>3. k \in Nat /\ r \in Nat \ {0} /\ m = r * TenTo[k]
  BY DEF Zeros10
<1>4. strip[m] = k
  BY <1>1, <1>3, StripCounts
<1>5. TenTo[k] \in Nat \ {0}
  BY <1>3, TenToType
<1>6. m \div TenTo[k] = r
  <2>1. (r * TenTo[k]) \div TenTo[k] = r
    <3>1. r \in Int
      BY <1>3
    <3>. QED
      BY <1>5, <3>1, Exact, Zenon
  <2>. QED
    BY <1>3, <2>1
<1>. QED
  BY <1>2, <1>4, <1>6

\* Decimal::reduced: the same number, with no zero at the end.
LEMMA ReducedFacts ==
  ASSUME NEW d, d.mantissa \in Nat, d.exponent \in Int
  PROVE  LET r == Reduced(d)
         IN  /\ r = [mantissa |-> r.mantissa, exponent |-> r.exponent]
             /\ r.mantissa \in Nat /\ r.exponent \in Int
             /\ r.mantissa <= d.mantissa
             /\ r.mantissa = 0 <=> d.mantissa = 0
             /\ d.mantissa # 0 =>
                  /\ Zeros10(d.mantissa, r.exponent - d.exponent, r.mantissa)
                  /\ r.exponent - d.exponent \in Nat
                  /\ d.mantissa = r.mantissa * TenTo[r.exponent - d.exponent]
             /\ d.mantissa = 0 => r.exponent = 0
<1>1. CASE d.mantissa = 0
  <2>1. Reduced(d) = [mantissa |-> 0, exponent |-> 0]
    BY <1>1 DEF Reduced
  <2>. QED
    BY <1>1, <2>1
<1>2. CASE d.mantissa # 0
  <2>1. PICK k, r : Zeros10(d.mantissa, k, r)
    BY <1>2, ZerosExist
  <2>2. Reduced(d) = [mantissa |-> r, exponent |-> d.exponent + k]
    BY <1>2, <2>1, ReducedIs
  <2>3. k \in Nat /\ r \in Nat \ {0} /\ d.mantissa = r * TenTo[k]
    BY <2>1 DEF Zeros10
  <2>4. (d.exponent + k) - d.exponent = k
    BY <2>3
  <2>5. r <= d.mantissa
    <3>1. TenTo[k] \in Nat \ {0}
      BY <2>3, TenToType
    <3>2. r * 1 <= r * TenTo[k]
      BY <2>3, <3>1
    <3>. QED
      BY <2>3, <3>1, <3>2
  <2>. QED
    BY <1>2, <2>1, <2>2, <2>3, <2>4, <2>5
<1>. QED
  BY <1>1, <1>2

\* Two decimals are the same number if one has the digits of the other, and
\* zeros for the difference of the exponents.
LEMMA SameIs ==
  ASSUME NEW a, a.mantissa \in Nat, a.exponent \in Int,
         NEW b, b.mantissa \in Nat, b.exponent \in Int,
         a.exponent <= b.exponent
  PROVE  Same(a, b) <=> a.mantissa = b.mantissa * TenTo[b.exponent - a.exponent]
<1>. DEFINE diff == b.exponent - a.exponent
            ra == Reduced(a)
            rb == Reduced(b)
<1>1. diff \in Nat
  OBVIOUS
<1>2. TenTo[diff] \in Nat \ {0}
  BY <1>1, TenToType
<1>3. b.mantissa = 0 <=> b.mantissa * TenTo[diff] = 0
  <2>1. b.mantissa = 0 <=> b.mantissa * TenTo[diff] = 0 * TenTo[diff]
    BY <1>2, Times
  <2>2. 0 * TenTo[diff] = 0
    BY <1>2
  <2>. QED
    BY <2>1, <2>2
<1>4. /\ ra = [mantissa |-> ra.mantissa, exponent |-> ra.exponent]
      /\ ra.mantissa \in Nat /\ ra.exponent \in Int
      /\ ra.mantissa = 0 <=> a.mantissa = 0
      /\ a.mantissa = 0 => ra.exponent = 0
      /\ a.mantissa # 0 => Zeros10(a.mantissa, ra.exponent - a.exponent, ra.mantissa)
  BY ReducedFacts
<1>5. /\ rb = [mantissa |-> rb.mantissa, exponent |-> rb.exponent]
      /\ rb.mantissa \in Nat /\ rb.exponent \in Int
      /\ rb.mantissa = 0 <=> b.mantissa = 0
      /\ b.mantissa = 0 => rb.exponent = 0
      /\ b.mantissa # 0 => Zeros10(b.mantissa, rb.exponent - b.exponent, rb.mantissa)
  BY ReducedFacts
<1>6. Same(a, b) <=> ra.mantissa = rb.mantissa /\ ra.exponent = rb.exponent
  <2>. HIDE DEF ra, rb
  <2>1. ra = rb <=> ra.mantissa = rb.mantissa /\ ra.exponent = rb.exponent
    BY <1>4, <1>5
  <2>. QED
    BY <2>1 DEF Same, ra, rb
<1>. HIDE DEF ra, rb
<1>7. CASE a.mantissa = 0 \/ b.mantissa = 0
  BY <1>3, <1>4, <1>5, <1>6, <1>7
<1>8. CASE a.mantissa # 0 /\ b.mantissa # 0
  <2>. DEFINE ka == ra.exponent - a.exponent
              kb == rb.exponent - b.exponent
  <2>1. Zeros10(a.mantissa, ka, ra.mantissa) /\ Zeros10(b.mantissa, kb, rb.mantissa)
    BY <1>4, <1>5, <1>8
  <2>2. /\ ka \in Nat /\ kb \in Nat
        /\ ra.exponent = a.exponent + ka /\ rb.exponent = b.exponent + kb
        /\ ra.exponent = rb.exponent <=> ka = kb + diff
    BY <1>4, <1>5, <2>1 DEF Zeros10
  <2>. HIDE DEF ka, kb
  <2>3. /\ rb.mantissa \in Nat \ {0} /\ rb.mantissa % 10 # 0
        /\ b.mantissa = rb.mantissa * TenTo[kb]
        /\ a.mantissa = ra.mantissa * TenTo[ka]
    BY <2>1 DEF Zeros10
  <2>4. /\ TenTo[kb + diff] = TenTo[kb] * TenTo[diff]
        /\ TenTo[kb] \in Nat /\ kb + diff \in Nat
    <3>. HIDE DEF diff
    <3>1. TenTo[kb + diff] = TenTo[kb] * TenTo[diff]
      BY <1>1, <2>2, TenToSum
    <3>2. TenTo[kb] \in Nat
      BY <2>2, TenToType
    <3>. QED
      BY <1>1, <2>2, <3>1, <3>2
  <2>5. b.mantissa * TenTo[diff] = rb.mantissa * TenTo[kb + diff]
    BY <1>2, <2>3, <2>4
  <2>6. ASSUME a.mantissa = b.mantissa * TenTo[diff]
        PROVE  ra.mantissa = rb.mantissa /\ ka = kb + diff
    <3>1. Zeros10(a.mantissa, kb + diff, rb.mantissa)
      BY <2>3, <2>4, <2>5, <2>6 DEF Zeros10
    <3>. QED
      BY <2>1, <3>1, ZerosUnique
  <2>7. ASSUME ra.mantissa = rb.mantissa, ka = kb + diff
        PROVE  a.mantissa = b.mantissa * TenTo[diff]
    BY <2>3, <2>5, <2>7
  <2>. QED
    BY <1>6, <2>2, <2>6, <2>7
<1>. QED
  BY <1>7, <1>8
-----------------------------------------------------------------------------
(* Rounding *)

\* By at most one half.
LEMMA RoundedFacts ==
  ASSUME NEW v \in Nat, NEW p \in Nat \ {0}, p % 2 = 0
  PROVE  LET n == RoundedHalfEven(v, p)
         IN  /\ n \in Nat /\ v \div p \in Nat
             /\ n \in {v \div p, v \div p + 1}
             /\ 2 * (n * p - v) \in -p..p
<1>. DEFINE q == v \div p
            r == v % p
            h == p \div 2
<1>1. /\ q \in Int /\ r \in 0..(p - 1) /\ v = q * p + r
  BY DivMod
<1>2. h \in Nat /\ p = 2 * h
  OBVIOUS
<1>3. RoundedHalfEven(v, p) = IF r > h \/ (r = h /\ q % 2 = 1) THEN q + 1 ELSE q
  BY DEF RoundedHalfEven
<1>4. q \in Nat
  <2>. HIDE DEF q, r
  <2>1. -1 * p < q * p
    BY <1>1
  <2>2. -1 < q
    BY <1>1, <2>1, Times
  <2>. QED
    BY <1>1, <2>2
<1>. HIDE DEF q, r, h
<1>5. CASE RoundedHalfEven(v, p) = q
  <2>1. r <= h
    BY <1>1, <1>2, <1>3, <1>4, <1>5
  <2>2. 2 * (q * p - v) = -2 * r
    BY <1>1
  <2>. QED
    BY <1>1, <1>2, <1>4, <1>5, <2>1, <2>2 DEF q
<1>6. CASE RoundedHalfEven(v, p) = q + 1 /\ RoundedHalfEven(v, p) # q
  <2>1. r >= h
    BY <1>1, <1>2, <1>3, <1>4, <1>6
  <2>2. (q + 1) * p - v = p - r
    BY <1>1
  <2>. QED
    BY <1>1, <1>2, <1>4, <1>6, <2>1, <2>2 DEF q
<1>. QED
  BY <1>3, <1>5, <1>6

\* Zeros at the end of both numbers make no difference.
LEMMA RoundedScaled ==
  ASSUME NEW v \in Nat, NEW p \in Nat \ {0}, p % 2 = 0, NEW s \in Nat \ {0}
  PROVE  RoundedHalfEven(v * s, p * s) = RoundedHalfEven(v, p)
<1>. DEFINE q == v \div p
            r == v % p
            h == p \div 2
<1>1. /\ q \in Int /\ r \in 0..(p - 1) /\ v = q * p + r
  BY DivMod
<1>2. h \in Nat /\ p = 2 * h
  OBVIOUS
<1>. HIDE DEF q, r, h
<1>3. p * s \in Nat \ {0} /\ h * s \in Nat /\ p * s = 2 * (h * s)
  <2>1. 0 * s < p * s
    BY Times
  <2>. QED
    BY <1>2, <2>1
<1>4. r * s \in 0..(p * s - 1)
  <2>1. 0 * s <= r * s /\ r * s < p * s
    BY <1>1, Times
  <2>. QED
    BY <1>1, <2>1
<1>5. v * s = q * (p * s) + r * s
  BY <1>1
<1>6. (v * s) \div (p * s) = q /\ (v * s) % (p * s) = r * s
  <2>. DEFINE x == v * s
              d == p * s
              t == r * s
  <2>1. d \in Nat \ {0} /\ t \in 0..(d - 1) /\ x = q * d + t
    BY <1>3, <1>4, <1>5
  <2>. HIDE DEF x, d, t
  <2>2. x \div d = q /\ x % d = t
    BY <1>1, <2>1, Division
  <2>. QED
    BY <2>2 DEF x, d, t
<1>7. (p * s) \div 2 = h * s
  BY <1>3
<1>8. (r * s > h * s <=> r > h) /\ (r * s = h * s <=> r = h)
  BY <1>1, <1>2, Times
<1>. QED
  BY <1>6, <1>7, <1>8 DEF RoundedHalfEven, q, r, h

\* Rounding is at least a bound that is odd if the number is above the bound and a half.
LEMMA RoundedAbove ==
  ASSUME NEW v \in Nat, NEW p \in Nat \ {0}, p % 2 = 0,
         NEW max \in Nat, max % 2 = 1, v >= max * p + p \div 2
  PROVE  RoundedHalfEven(v, p) > max
<1>. DEFINE q == v \div p
            r == v % p
            h == p \div 2
<1>1. /\ q \in Int /\ r \in 0..(p - 1) /\ v = q * p + r
  BY DivMod
<1>2. h \in Nat /\ p = 2 * h
  OBVIOUS
<1>3. RoundedHalfEven(v, p) = IF r > h \/ (r = h /\ q % 2 = 1) THEN q + 1 ELSE q
  BY DEF RoundedHalfEven
<1>4. v >= max * p + h
  OBVIOUS
<1>. HIDE DEF q, r, h
<1>5. max * p < (q + 1) * p
  BY <1>1, <1>2, <1>4
<1>6. max < q + 1
  BY <1>1, <1>5, Times
<1>7. CASE max < q
  BY <1>1, <1>3, <1>7
<1>8. CASE max = q
  <2>1. r >= h
    BY <1>1, <1>2, <1>4, <1>8
  <2>. QED
    BY <1>1, <1>2, <1>3, <1>8, <2>1
<1>. QED
  BY <1>1, <1>6, <1>7, <1>8

\* ... and at most a bound if it is below.
LEMMA RoundedBelow ==
  ASSUME NEW v \in Nat, NEW p \in Nat \ {0}, p % 2 = 0, NEW max \in Nat,
         v < max * p + p \div 2
  PROVE  RoundedHalfEven(v, p) <= max
<1>. DEFINE q == v \div p
            r == v % p
            h == p \div 2
<1>1. /\ q \in Int /\ r \in 0..(p - 1) /\ v = q * p + r
  BY DivMod
<1>2. h \in Nat /\ p = 2 * h
  OBVIOUS
<1>3. RoundedHalfEven(v, p) = IF r > h \/ (r = h /\ q % 2 = 1) THEN q + 1 ELSE q
  BY DEF RoundedHalfEven
<1>4. v < max * p + h
  OBVIOUS
<1>. HIDE DEF q, r, h
<1>5. q * p < (max + 1) * p
  BY <1>1, <1>2, <1>4
<1>6. q < max + 1
  BY <1>1, <1>5, Times
<1>7. CASE q < max
  BY <1>1, <1>3, <1>7
<1>8. CASE max = q
  <2>1. r < h
    BY <1>1, <1>2, <1>4, <1>8
  <2>. QED
    BY <1>1, <1>2, <1>3, <1>8, <2>1
<1>. QED
  BY <1>1, <1>6, <1>7, <1>8

\* If a product can be too large, a power of 10 within the wide type is, too.
LEMMA WidePowSuffices ==
  ASSUME MaxMantissa > 1  PROVE TenTo[WidePow] > MaxMantissa
<1>1. /\ MaxMantissa \in Nat /\ MaxMantissa >= 3
      /\ MaxWide = MaxMantissa * MaxMantissa + 2 * MaxMantissa
      /\ WidePow \in Nat /\ MaxWide \div 10 < TenTo[WidePow]
  BY DecimalAssumption
<1>2. TenTo[WidePow] \in Nat
  BY <1>1, TenToType
<1>3. CASE MaxMantissa >= 9
  <2>1. MaxMantissa * MaxMantissa >= 9 * MaxMantissa
    BY <1>1, <1>3
  <2>2. MaxWide \in Nat /\ MaxWide >= 11 * MaxMantissa
    BY <1>1, <2>1
  <2>3. MaxWide \div 10 >= MaxMantissa
    BY <1>1, <2>2
  <2>4. CASE MaxWide \div 10 > MaxMantissa
    BY <1>1, <1>2, <2>2, <2>4
  <2>5. CASE MaxWide \div 10 = MaxMantissa
    BY <1>1, <1>2, <2>5
  <2>. QED
    BY <1>1, <2>2, <2>3, <2>4, <2>5
<1>4. CASE MaxMantissa < 9
  <2>1. MaxMantissa * MaxMantissa >= 3 * MaxMantissa
    BY <1>1
  <2>2. MaxWide \in Nat /\ MaxWide >= 10
    BY <1>1, <2>1
  <2>3. TenTo[WidePow] > 1
    BY <1>1, <1>2, <2>2
  <2>4. WidePow # 0
    BY <2>3, TenToIs
  <2>5. TenTo[WidePow] = 10 * TenTo[WidePow - 1] /\ WidePow - 1 \in Nat
    BY <1>1, <2>4, TenToTen
  <2>6. TenTo[WidePow - 1] \in Nat \ {0}
    BY <2>5, TenToType
  <2>. QED
    BY <1>1, <1>4, <2>5, <2>6
<1>. QED
  BY <1>1, <1>3, <1>4

\* The power of 10 that checked_mul() divides by.
CutFor(q) == Min({i \in DOMAIN Thresholds : q <= Thresholds[i]})

\* The recorded thresholds.
LEMMA ThresholdIs ==
  /\ DOMAIN Thresholds = {i \in 1..WidePow : PowFits(i - 1, MaxMantissa)}
  /\ \A i \in DOMAIN Thresholds :
       Thresholds[i] = IF PowFits(i, MaxMantissa)
                       THEN MaxMantissa * TenTo[i] + TenTo[i] \div 2 - 1
                       ELSE MaxWide
BY DEF Thresholds

\* One of the thresholds is high enough for every product.
LEMMA CutExists ==
  ASSUME NEW q \in Nat, q > MaxMantissa, q <= MaxMantissa * MaxMantissa
  PROVE  /\ CutFor(q) \in DOMAIN Thresholds /\ q <= Thresholds[CutFor(q)]
         /\ \A i \in DOMAIN Thresholds : q <= Thresholds[i] => CutFor(q) <= i
<1>. DEFINE S == {i \in Nat : TenTo[i] > MaxMantissa}
            G == {i \in DOMAIN Thresholds : q <= Thresholds[i]}
<1>1. /\ MaxMantissa \in Nat \ {0} /\ WidePow \in Nat
      /\ MaxWide = MaxMantissa * MaxMantissa + 2 * MaxMantissa
  BY DecimalAssumption
<1>2. MaxMantissa > 1
  <2>1. MaxMantissa = 1 => MaxMantissa * MaxMantissa = 1
    OBVIOUS
  <2>. QED
    BY <1>1, <2>1
<1>3. WidePow \in S
  BY <1>1, <1>2, WidePowSuffices
<1>4. S \in SUBSET Nat /\ S # {}
  BY <1>3
<1>5. PICK least \in S : \A i \in S : least <= i
  <2>. HIDE DEF S
  <2>. QED
    BY <1>4, Numbers!LeastNumber
<1>6. least \in 1..WidePow /\ PowFits(least - 1, MaxMantissa)
  <2>1. least \in Nat /\ least <= WidePow /\ TenTo[least] > MaxMantissa
    BY <1>3, <1>5
  <2>2. least # 0
    BY <1>1, <2>1, TenToIs
  <2>3. least - 1 \in Nat /\ least - 1 \notin S
    BY <1>5, <2>1, <2>2
  <2>4. ~(TenTo[least - 1] > MaxMantissa) /\ TenTo[least - 1] \in Nat
    BY <2>3, TenToType
  <2>. HIDE DEF S
  <2>. QED
    BY <1>1, <2>1, <2>2, <2>3, <2>4 DEF PowFits
<1>7. least \in G
  <2>1. ~PowFits(least, MaxMantissa)
    <3>1. least \in Nat /\ TenTo[least] > MaxMantissa
      OBVIOUS
    <3>2. TenTo[least] \in Nat
      BY <3>1, TenToType
    <3>. QED
      BY <1>1, <3>1, <3>2 DEF PowFits
  <2>2. least \in DOMAIN Thresholds
    BY <1>6, ThresholdIs
  <2>3. Thresholds[least] = MaxWide
    BY <2>1, <2>2, ThresholdIs
  <2>4. q <= MaxWide
    <3>1. MaxMantissa * MaxMantissa \in Nat
      BY <1>1
    <3>. QED
      BY <1>1, <3>1
  <2>. QED
    BY <2>2, <2>3, <2>4
<1>8. G \in SUBSET Nat /\ G # {}
  BY <1>1, <1>7, ThresholdIs
<1>9. \E i \in G : \A j \in G : i <= j
  <2>. HIDE DEF G
  <2>. QED
    BY <1>8, Numbers!LeastNumber
<1>10. CutFor(q) \in G /\ \A j \in G : CutFor(q) <= j
  <2>1. CutFor(q) = CHOOSE i \in G : \A j \in G : i =< j
    BY DEF CutFor, Min
  <2>. HIDE DEF G
  <2>. QED
    BY <1>9, <2>1
<1>. QED
  BY <1>10

\* What is rounded fits, and with one more digit it would not.
LEMMA CutFacts ==
  ASSUME NEW q \in Nat, q > MaxMantissa, q <= MaxMantissa * MaxMantissa
  PROVE  /\ CutFor(q) \in Nat \ {0}
         /\ RoundedHalfEven(q, TenTo[CutFor(q)]) \in 0..MaxMantissa
         /\ CutFor(q) # 1 =>
              q >= MaxMantissa * TenTo[CutFor(q) - 1] + TenTo[CutFor(q) - 1] \div 2
<1>. DEFINE c == CutFor(q)
            m == MaxMantissa
<1>1. /\ m \in Nat \ {0} /\ m % 2 = 1 /\ WidePow \in Nat
      /\ MaxWide = m * m + 2 * m
  BY DecimalAssumption
<1>2. /\ c \in 1..WidePow /\ PowFits(c - 1, m) /\ c \in DOMAIN Thresholds
      /\ q <= Thresholds[c]
      /\ \A i \in DOMAIN Thresholds : q <= Thresholds[i] => c <= i
  BY CutExists, ThresholdIs
<1>. HIDE DEF c
<1>3. /\ c \in Nat \ {0} /\ TenTo[c] \in Nat \ {0} /\ TenTo[c] % 2 = 0 /\ TenTo[c] > 1
      /\ c - 1 \in Nat /\ TenTo[c] = 10 * TenTo[c - 1]
  <2>1. c \in Nat \ {0}
    BY <1>1, <1>2
  <2>. QED
    BY <2>1, TenToTen
<1>4. q < m * TenTo[c] + TenTo[c] \div 2
  <2>. DEFINE p == TenTo[c]
  <2>1. p \in Nat /\ p > 1 /\ p \div 2 \in Nat /\ p \div 2 > 0 /\ m * p \in Nat
    BY <1>1, <1>3
  <2>2. CASE PowFits(c, m)
    <3>1. Thresholds[c] = m * p + p \div 2 - 1
      BY <1>2, <2>2, ThresholdIs
    <3>. HIDE DEF p
    <3>. QED
      BY <1>2, <2>1, <3>1 DEF p
  <2>3. CASE ~PowFits(c, m)
    <3>1. p > m
      <4>1. c <= WidePow
        BY <1>1, <1>2
      <4>. QED
        BY <1>1, <2>1, <2>3, <4>1 DEF PowFits
    <3>. HIDE DEF p
    <3>2. m * m <= m * p
      BY <1>1, <2>1, <3>1
    <3>3. m * m \in Nat
      BY <1>1
    <3>. QED
      BY <1>1, <2>1, <3>2, <3>3 DEF p
  <2>. QED
    BY <2>2, <2>3
<1>5. RoundedHalfEven(q, TenTo[c]) <= m
  BY <1>1, <1>3, <1>4, RoundedBelow
<1>6. RoundedHalfEven(q, TenTo[c]) \in Nat
  BY <1>3, RoundedFacts
<1>7. ASSUME c # 1  PROVE q >= m * TenTo[c - 1] + TenTo[c - 1] \div 2
  <2>. DEFINE p == TenTo[c - 1]
  <2>1. c - 1 \in 1..WidePow /\ c - 1 # 0 /\ c - 1 \in Nat \ {0}
    BY <1>1, <1>2, <1>7
  <2>2. p \in Nat /\ c - 2 \in Nat /\ (c - 1) - 1 = c - 2 /\ p = 10 * TenTo[c - 2]
    <3>1. c - 2 \in Nat /\ (c - 1) - 1 = c - 2
      BY <1>3, <2>1
    <3>2. TenTo[c - 1] = 10 * TenTo[(c - 1) - 1] /\ TenTo[c - 1] \in Nat
      BY <2>1, TenToTen
    <3>. QED
      BY <3>1, <3>2
  <2>3. TenTo[c - 2] \in Nat
    BY <2>2, TenToType
  <2>4. p <= m /\ c - 1 <= WidePow
    BY <1>2 DEF PowFits
  <2>5. PowFits((c - 1) - 1, m) /\ PowFits(c - 1, m)
    BY <1>1, <2>1, <2>2, <2>3, <2>4 DEF PowFits
  <2>6. c - 1 \in DOMAIN Thresholds
    BY <2>1, <2>5, ThresholdIs
  <2>7. Thresholds[c - 1] = m * p + p \div 2 - 1
    BY <2>5, <2>6, ThresholdIs
  <2>8. ~(q <= Thresholds[c - 1])
    <3>1. ~(c <= c - 1)
      BY <1>3
    <3>. QED
      BY <1>2, <2>6, <3>1
  <2>9. m * p \in Nat /\ p \div 2 \in Nat
    BY <1>1, <2>2
  <2>. HIDE DEF p
  <2>. QED
    BY <2>7, <2>8, <2>9 DEF p
<1>. QED
  BY <1>3, <1>5, <1>6, <1>7 DEF c

\* A decimal as it is while a conversion goes on: the exponent may be any.
IsDecimal(d) ==
  d.mantissa \in Nat /\ d.mantissa <= MaxMantissa /\ d.exponent \in Int

\* What remains of a product: n times a power of 10, exactly or rounded.
Nearest(product, n, cut) ==
  IF product % TenTo[cut] = 0
  THEN n * TenTo[cut] = product
  ELSE /\ cut # 0
       /\ n = RoundedHalfEven(product, TenTo[cut])
       /\ Rounded(product, TenTo[cut - 1]) > MaxMantissa

\* Nothing is rounded if the power is 1.
LEMMA RoundedIs ==
  ASSUME NEW v, NEW n \in Nat
  PROVE  Rounded(v, TenTo[n]) = IF n = 0 THEN v ELSE RoundedHalfEven(v, TenTo[n])
<1>1. CASE n = 0
  BY <1>1, TenToIs DEF Rounded
<1>2. CASE n # 0
  <2>1. TenTo[n] > 1 /\ TenTo[n] \in Nat
    BY <1>2, TenToTen
  <2>. QED
    BY <1>2, <2>1 DEF Rounded
<1>. QED
  BY <1>1, <1>2

\* The product without its zeros is rounded as the product is.
LEMMA CutNearest ==
  ASSUME NEW q \in Nat, q > MaxMantissa, q <= MaxMantissa * MaxMantissa, q % 10 # 0,
         NEW zeros \in Nat, NEW product, product = q * TenTo[zeros],
         NEW c, c = CutFor(q)
  PROVE  Nearest(product, RoundedHalfEven(q, TenTo[c]), zeros + c)
<1>. DEFINE s == TenTo[zeros]
            p == TenTo[c]
            m == MaxMantissa
<1>1. /\ c \in Nat \ {0}
      /\ c # 1 => q >= m * TenTo[c - 1] + TenTo[c - 1] \div 2
  BY CutFacts
<1>2. /\ c - 1 \in Nat /\ p = 10 * TenTo[c - 1] /\ p \in Nat \ {0} /\ p % 2 = 0
      /\ s \in Nat \ {0} /\ m \in Nat /\ m % 2 = 1
  BY <1>1, TenToTen, TenToType, DecimalAssumption
<1>3. TenTo[c - 1] \in Nat \ {0}
  BY <1>2, TenToType
<1>4. TenTo[zeros + c] = p * s /\ zeros + c \in Nat \ {0}
  <2>1. TenTo[zeros + c] = TenTo[zeros] * TenTo[c]
    BY <1>1, TenToSum
  <2>. QED
    BY <1>1, <1>2, <2>1
<1>5. product \in Nat
  BY <1>2
<1>6. product % TenTo[zeros + c] # 0
  <2>. DEFINE d == p * s
              n == product \div d
  <2>. SUFFICES ASSUME product % d = 0  PROVE FALSE
    BY <1>4
  <2>1. d \in Nat \ {0}
    <3>1. 0 * s < p * s
      BY <1>2, Times
    <3>2. 0 * s = 0 /\ p * s \in Int
      BY <1>2
    <3>. HIDE DEF d
    <3>3. d = p * s
      BY DEF d
    <3>. QED
      BY <3>1, <3>2, <3>3
  <2>. HIDE DEF d
  <2>2. product = n * d /\ n \in Int
    <3>1. /\ product \div d \in Int
          /\ product = (product \div d) * d + (product % d)
      <4>1. product \in Int
        BY <1>5
      <4>. QED
        BY <2>1, <4>1, DivMod, Zenon
    <3>2. (product \div d) * d \in Int
      BY <2>1, <3>1
    <3>. QED
      BY <3>1, <3>2
  <2>. HIDE DEF n
  <2>3. q * s = (n * p) * s
    BY <1>2, <2>2 DEF d
  <2>4. q = n * p
    BY <1>2, <2>2, <2>3, Times
  <2>5. q = 10 * (n * TenTo[c - 1])
    BY <1>2, <1>3, <2>2, <2>4
  <2>6. n * TenTo[c - 1] \in Int
    BY <1>3, <2>2
  <2>. QED
    BY <2>5, <2>6
<1>7. RoundedHalfEven(q, p) = RoundedHalfEven(product, TenTo[zeros + c])
  <2>1. product = q * s
    OBVIOUS
  <2>. HIDE DEF p, s
  <2>2. RoundedHalfEven(q * s, p * s) = RoundedHalfEven(q, p)
    BY <1>2, RoundedScaled
  <2>. QED
    BY <1>4, <2>1, <2>2
<1>8. Rounded(product, TenTo[(zeros + c) - 1]) > m
  <2>1. CASE c = 1
    <3>1. (zeros + c) - 1 = zeros
      BY <2>1
    <3>2. CASE zeros = 0
      <4>1. product = q
        BY <3>2, TenToIs
      <4>. QED
        BY <3>1, <3>2, <4>1, RoundedIs
    <3>3. CASE zeros # 0
      <4>1. s > 1 /\ s % 2 = 0
        BY <3>3, TenToTen
      <4>3. product \div s = q /\ product % s = 0
        BY <1>2, Exact
      <4>4. s \div 2 > 0 /\ s \div 2 \in Nat
        BY <1>2, <4>1
      <4>5. RoundedHalfEven(product, s) = q
        BY <4>3, <4>4 DEF RoundedHalfEven
      <4>. QED
        BY <3>1, <3>3, <4>5, RoundedIs
    <3>. QED
      BY <3>2, <3>3
  <2>2. CASE c # 1
    <3>. DEFINE b == c - 1
                t == TenTo[b]
    <3>1. b \in Nat \ {0} /\ (zeros + c) - 1 = zeros + b /\ zeros + b \in Nat \ {0}
      BY <1>1, <2>2
    <3>2. t \in Nat \ {0} /\ t % 2 = 0
      BY <3>1, TenToTen
    <3>3. q >= m * t + t \div 2
      BY <1>1, <2>2
    <3>4. TenTo[zeros + b] = s * t
      BY <3>1, TenToSum
    <3>5. TenTo[zeros + b] = t * s
      BY <1>2, <3>2, <3>4
    <3>. HIDE DEF b, t
    <3>6. RoundedHalfEven(q, t) > m
      BY <1>2, <3>2, <3>3, RoundedAbove
    <3>7. RoundedHalfEven(q * s, t * s) = RoundedHalfEven(q, t)
      <4>. HIDE DEF s
      <4>. QED
        BY <1>2, <3>2, RoundedScaled
    <3>8. product = q * s
      OBVIOUS
    <3>9. Rounded(product, TenTo[zeros + b]) = RoundedHalfEven(product, TenTo[zeros + b])
      BY <3>1, RoundedIs
    <3>. HIDE DEF s
    <3>. QED
      BY <3>1, <3>5, <3>6, <3>7, <3>8, <3>9
  <2>. QED
    BY <2>1, <2>2
<1>. QED
  BY <1>4, <1>6, <1>7, <1>8 DEF Nearest

\* Decimal::checked_mul
LEMMA ProductFacts ==
  ASSUME NEW a, IsDecimal(a), NEW b, IsDecimal(b),
         NEW r, r = CheckedMul(a, b), r.ok
  PROVE  LET product == a.mantissa * b.mantissa
             cut == r.value.exponent - a.exponent - b.exponent
         IN  /\ r.value = [mantissa |-> r.value.mantissa, exponent |-> r.value.exponent]
             /\ IsDecimal(r.value) /\ r.value.exponent \in Exponent
             /\ cut \in Nat
             /\ Nearest(product, r.value.mantissa, cut)
             /\ product <= MaxMantissa => product = r.value.mantissa * TenTo[cut]
<1>. DEFINE product == a.mantissa * b.mantissa
            reduced == Reduced([mantissa |-> product, exponent |-> 0])
            q == reduced.mantissa
            zeros == reduced.exponent
            c == IF q <= MaxMantissa THEN 0 ELSE CutFor(q)
            exp == a.exponent + b.exponent + zeros + c
            n == Rounded(q, TenTo[c])
<1>1. /\ product \in Nat /\ product <= MaxMantissa * MaxMantissa
      /\ MaxMantissa \in Nat /\ MaxExponent \in Nat
  <2>1. /\ a.mantissa \in Nat /\ b.mantissa \in Nat /\ MaxMantissa \in Nat \ {0}
        /\ a.mantissa <= MaxMantissa /\ b.mantissa <= MaxMantissa /\ MaxExponent \in Nat
    BY DecimalAssumption DEF IsDecimal
  <2>2. a.mantissa * b.mantissa <= a.mantissa * MaxMantissa
    BY <2>1
  <2>3. a.mantissa * MaxMantissa <= MaxMantissa * MaxMantissa
    BY <2>1, Times
  <2>4. /\ a.mantissa * b.mantissa \in Nat /\ a.mantissa * MaxMantissa \in Nat
        /\ MaxMantissa * MaxMantissa \in Nat
    BY <2>1
  <2>. QED
    BY <2>1, <2>2, <2>3, <2>4
<1>2. /\ q \in Nat /\ zeros \in Int /\ q <= product
      /\ q = 0 <=> product = 0
      /\ product = 0 => zeros = 0
      /\ product # 0 => Zeros10(product, zeros, q)
  <2>. DEFINE d == [mantissa |-> product, exponent |-> 0]
  <2>1. d.mantissa = product /\ d.exponent = 0
    OBVIOUS
  <2>. HIDE DEF d, product
  <2>2. /\ Reduced(d).mantissa \in Nat /\ Reduced(d).exponent \in Int
        /\ Reduced(d).mantissa <= product
        /\ Reduced(d).mantissa = 0 <=> product = 0
        /\ product = 0 => Reduced(d).exponent = 0
        /\ product # 0 => Zeros10(product, Reduced(d).exponent - 0, Reduced(d).mantissa)
    BY <1>1, <2>1, ReducedFacts
  <2>3. Reduced(d).exponent - 0 = Reduced(d).exponent
    BY <2>2
  <2>. QED
    BY <2>2, <2>3 DEF d
<1>3. r = IF exp \notin Exponent THEN Error ELSE Ok([mantissa |-> n, exponent |-> exp])
  BY DEF CheckedMul, CutFor
<1>. HIDE DEF product, reduced, q, zeros, c
<1>4. /\ zeros \in Nat /\ product = q * TenTo[zeros]
      /\ q > MaxMantissa => q % 10 # 0 /\ q <= MaxMantissa * MaxMantissa
  <2>1. CASE product = 0
    BY <1>1, <1>2, <2>1, TenToIs
  <2>2. CASE product # 0
    <3>1. MaxMantissa * MaxMantissa \in Nat
      BY <1>1
    <3>. QED
      BY <1>1, <1>2, <2>2, <3>1 DEF Zeros10
  <2>. QED
    BY <2>1, <2>2
<1>5. c \in Nat /\ n \in Nat /\ n <= MaxMantissa
  <2>1. CASE q <= MaxMantissa
    <3>1. c = 0
      BY <2>1 DEF c
    <3>. QED
      BY <1>2, <2>1, <3>1, RoundedIs
  <2>2. CASE ~(q <= MaxMantissa)
    <3>1. c = CutFor(q) /\ q > MaxMantissa
      BY <1>1, <1>2, <2>2 DEF c
    <3>2. c \in Nat \ {0} /\ RoundedHalfEven(q, TenTo[c]) \in 0..MaxMantissa
      BY <1>2, <1>4, <3>1, CutFacts
    <3>3. n = RoundedHalfEven(q, TenTo[c])
      BY <3>2, RoundedIs
    <3>. HIDE DEF n
    <3>. QED
      BY <1>1, <3>2, <3>3
  <2>. QED
    BY <2>1, <2>2
<1>6. Nearest(product, n, zeros + c)
  <2>1. CASE q <= MaxMantissa
    <3>1. c = 0 /\ zeros + c = zeros
      BY <1>4, <2>1 DEF c
    <3>2. n = q
      BY <3>1, RoundedIs
    <3>3. TenTo[zeros] \in Nat \ {0}
      BY <1>4, TenToType
    <3>4. product % TenTo[zeros] = 0
      BY <1>2, <1>4, <3>3, Exact
    <3>. QED
      BY <1>4, <3>1, <3>2, <3>4 DEF Nearest
  <2>2. CASE ~(q <= MaxMantissa)
    <3>1. c = CutFor(q) /\ q > MaxMantissa
      BY <1>1, <1>2, <2>2 DEF c
    <3>2. c \in Nat \ {0}
      BY <1>2, <1>4, <3>1, CutFacts
    <3>3. n = RoundedHalfEven(q, TenTo[c])
      BY <3>2, RoundedIs
    <3>. QED
      BY <1>2, <1>4, <3>1, <3>3, CutNearest
  <2>. QED
    BY <2>1, <2>2
<1>7. product <= MaxMantissa => product = n * TenTo[zeros + c]
  <2>. SUFFICES ASSUME product <= MaxMantissa  PROVE product = n * TenTo[zeros + c]
    OBVIOUS
  <2>1. q <= MaxMantissa
    BY <1>1, <1>2
  <2>2. c = 0 /\ zeros + c = zeros
    BY <1>4, <2>1 DEF c
  <2>. QED
    BY <1>4, <2>2, RoundedIs
<1>. HIDE DEF n
<1>8. exp \in Exponent /\ exp \in Int /\ r.value = [mantissa |-> n, exponent |-> exp]
  <2>1. exp \in Exponent
    BY <1>3 DEF Error
  <2>. QED
    BY <1>1, <1>3, <2>1 DEF Ok, Exponent
<1>9. exp - a.exponent - b.exponent = zeros + c /\ zeros + c \in Nat
  BY <1>4, <1>5 DEF IsDecimal
<1>. HIDE DEF exp
<1>. QED
  BY <1>5, <1>6, <1>7, <1>8, <1>9 DEF IsDecimal, product
-----------------------------------------------------------------------------
(* Equality, integers, scaling *)

\* checked_mul(), and checked_pow(), check what they should.
LEMMA FitsIs ==
  ASSUME NEW a \in Nat, NEW p \in Nat \ {0}, NEW max \in Nat
  PROVE  ProductFits(a, p, max) <=> a * p <= max
<1>. DEFINE q == max \div p
            r == max % p
<1>1. q \in Int /\ r \in 0..(p - 1) /\ max = q * p + r
  BY DivMod
<1>2. ProductFits(a, p, max) <=> a <= q
  BY DEF ProductFits
<1>. HIDE DEF q, r
<1>3. ASSUME a <= q  PROVE a * p <= max
  <2>1. a * p <= q * p
    BY <1>1, <1>3, Times
  <2>2. a * p \in Int /\ q * p \in Int
    BY <1>1
  <2>. QED
    BY <1>1, <2>1, <2>2
<1>4. ASSUME a * p <= max  PROVE a <= q
  <2>1. a * p < (q + 1) * p
    BY <1>1, <1>4
  <2>2. a < q + 1
    BY <1>1, <2>1, Times
  <2>. QED
    BY <1>1, <2>2
<1>. QED
  BY <1>2, <1>3, <1>4

\* How the widths are related.
LEMMA Widths ==
  /\ MaxMantissa \in Nat \ {0} /\ MaxWide \in Nat /\ MaxMantissa <= MaxWide
  /\ WidePow \in Nat /\ MaxExponent \in Nat
  /\ TenTo[WidePow] <= MaxWide /\ MaxWide < TenTo[WidePow + 1]
<1>1. /\ MaxMantissa \in Nat \ {0} /\ WidePow \in Nat /\ MaxExponent \in Nat
      /\ MaxWide = MaxMantissa * MaxMantissa + 2 * MaxMantissa
      /\ TenTo[WidePow] <= MaxWide /\ MaxWide \div 10 < TenTo[WidePow]
  BY DecimalAssumption
<1>2. MaxMantissa * MaxMantissa \in Nat
  BY <1>1
<1>3. MaxWide \in Nat /\ MaxMantissa <= MaxWide
  BY <1>1, <1>2
<1>4. TenTo[WidePow + 1] = 10 * TenTo[WidePow] /\ TenTo[WidePow] \in Nat
  BY <1>1, TenToIs, TenToType
<1>. QED
  BY <1>1, <1>3, <1>4

\* checked_pow() finds the powers that fit.
LEMMA PowFitsIs ==
  ASSUME NEW n \in Nat, NEW max \in Nat, max <= MaxWide
  PROVE  /\ PowFits(n, max) <=> TenTo[n] <= max
         /\ PowFits(n, MaxWide) <=> n <= WidePow
<1>1. TenTo[n] \in Nat /\ TenTo[WidePow] \in Nat /\ TenTo[WidePow + 1] \in Nat
  BY Widths, TenToType
<1>2. ASSUME n <= WidePow  PROVE TenTo[n] <= MaxWide
  <2>1. TenTo[n] <= TenTo[WidePow]
    BY <1>2, Widths, TenToGrows
  <2>. QED
    BY <1>1, <2>1, Widths
<1>3. ASSUME ~(n <= WidePow)  PROVE ~(TenTo[n] <= MaxWide)
  <2>1. WidePow + 1 \in Nat /\ WidePow + 1 <= n
    BY <1>3, Widths
  <2>2. TenTo[WidePow + 1] <= TenTo[n]
    BY <2>1, TenToGrows
  <2>. QED
    BY <1>1, <2>2, Widths
<1>. QED
  BY <1>1, <1>2, <1>3, Widths DEF PowFits

\* The decimals that are asked for are decimals.
LEMMA IsDecimalNumber ==
  ASSUME NEW d \in DecimalNumber  PROVE IsDecimal(d)
BY Widths DEF DecimalNumber, IsDecimal, Exponent

\* `PartialEq`: equal decimals are the same number.
LEMMA EqualOrdered ==
  ASSUME NEW a, IsDecimal(a), NEW b, IsDecimal(b), a.exponent <= b.exponent,
         NEW diff, diff = b.exponent - a.exponent
  PROVE  /\ diff \in Nat
         /\ Same(a, b) <=>
              \/ a.mantissa = 0 /\ b.mantissa = 0
              \/ /\ PowFits(diff, MaxMantissa)
                 /\ ProductFits(b.mantissa, TenTo[diff], MaxMantissa)
                 /\ b.mantissa * TenTo[diff] = a.mantissa
<1>1. /\ a.mantissa \in Nat /\ b.mantissa \in Nat
      /\ a.exponent \in Int /\ b.exponent \in Int
      /\ a.mantissa <= MaxMantissa /\ diff \in Nat /\ MaxMantissa \in Nat
  BY Widths DEF IsDecimal
<1>2. TenTo[diff] \in Nat \ {0}
  BY <1>1, TenToType
<1>3. Same(a, b) <=> a.mantissa = b.mantissa * TenTo[diff]
  BY <1>1, SameIs
<1>4. PowFits(diff, MaxMantissa) <=> TenTo[diff] <= MaxMantissa
  BY <1>1, Widths, PowFitsIs
<1>5. ProductFits(b.mantissa, TenTo[diff], MaxMantissa)
        <=> b.mantissa * TenTo[diff] <= MaxMantissa
  BY <1>1, <1>2, FitsIs
<1>6. ASSUME a.mantissa = b.mantissa * TenTo[diff], b.mantissa # 0
      PROVE  TenTo[diff] <= MaxMantissa
  <2>1. 1 * TenTo[diff] <= b.mantissa * TenTo[diff]
    BY <1>1, <1>2, <1>6, Times
  <2>. QED
    BY <1>1, <1>2, <1>6, <2>1
<1>7. b.mantissa = 0 => b.mantissa * TenTo[diff] = 0
  BY <1>2
<1>. QED
  BY <1>1, <1>3, <1>4, <1>5, <1>6, <1>7

\* ... in any order.
LEMMA EqualIsSame ==
  ASSUME NEW a, IsDecimal(a), NEW b, IsDecimal(b)
  PROVE  Equal(a, b) <=> Same(a, b)
<1>1. a.exponent \in Int /\ b.exponent \in Int
  BY DEF IsDecimal
<1>2. CASE a.exponent <= b.exponent
  BY <1>2, EqualOrdered DEF Equal
<1>3. CASE ~(a.exponent <= b.exponent)
  <2>1. b.exponent <= a.exponent
    BY <1>1, <1>3
  <2>2. Same(b, a) <=> Same(a, b)
    BY DEF Same
  <2>. QED
    BY <1>3, <2>1, <2>2, EqualOrdered DEF Equal
<1>. QED
  BY <1>2, <1>3

\* Decimal::to_int
LEMMA ToIntFacts ==
  ASSUME NEW d, IsDecimal(d), NEW r, r = ToInt(d), r.ok
  PROVE  /\ r.value \in Nat
         /\ d.exponent >= 0 => r.value = d.mantissa * TenTo[d.exponent]
         /\ d.exponent < 0 /\ -d.exponent <= WidePow =>
              r.value = RoundedHalfEven(d.mantissa, TenTo[-d.exponent])
<1>1. d.mantissa \in Nat /\ d.exponent \in Int
  BY DEF IsDecimal
<1>2. CASE d.exponent >= 0
  <2>1. r = Ok(d.mantissa * TenTo[d.exponent])
    BY <1>2 DEF ToInt, Error
  <2>2. d.exponent \in Nat /\ ~(d.exponent < 0)
    BY <1>1, <1>2
  <2>3. TenTo[d.exponent] \in Nat
    BY <2>2, TenToType
  <2>. QED
    BY <1>1, <2>1, <2>2, <2>3 DEF Ok
<1>3. CASE d.exponent < 0
  <2>. DEFINE n == -d.exponent
  <2>1. n \in Nat \ {0} /\ ~(d.exponent >= 0)
    BY <1>1, <1>3
  <2>2. r = IF PowFits(n, MaxWide) THEN Ok(Rounded(d.mantissa, TenTo[n])) ELSE Ok(0)
    BY <1>3, <2>1 DEF ToInt, Overflowed
  <2>. HIDE DEF n
  <2>3. PowFits(n, MaxWide) <=> n <= WidePow
    BY <2>1, Widths, PowFitsIs
  <2>4. Rounded(d.mantissa, TenTo[n]) = RoundedHalfEven(d.mantissa, TenTo[n])
    BY <2>1, RoundedIs
  <2>5. RoundedHalfEven(d.mantissa, TenTo[n]) \in Nat
    <3>1. TenTo[n] \in Nat \ {0} /\ TenTo[n] % 2 = 0
      BY <2>1, TenToTen
    <3>. QED
      BY <1>1, <3>1, RoundedFacts
  <2>. QED
    BY <1>3, <2>1, <2>2, <2>3, <2>4, <2>5 DEF Ok, n
<1>. QED
  BY <1>1, <1>2, <1>3

\* Decimal::scale
LEMMA ScaledFacts ==
  ASSUME NEW d, IsDecimal(d), NEW x, x.mantissa = d.mantissa, x.exponent \in Int,
         NEW r, r = ToInt(Reduced(x)), r.ok, Reduced(x).exponent >= 0
  PROVE  Same([mantissa |-> r.value, exponent |-> 0], x)
<1>. DEFINE s == Reduced(x)
            y == [mantissa |-> r.value, exponent |-> 0]
<1>1. x.mantissa \in Nat /\ x.mantissa <= MaxMantissa /\ MaxMantissa \in Nat
  BY Widths DEF IsDecimal
<1>2. /\ s.mantissa \in Nat /\ s.exponent \in Int /\ s.mantissa <= x.mantissa
      /\ s.mantissa = 0 <=> x.mantissa = 0
      /\ x.mantissa # 0 => /\ s.exponent - x.exponent \in Nat
                           /\ x.mantissa = s.mantissa * TenTo[s.exponent - x.exponent]
      /\ x.mantissa = 0 => s.exponent = 0
  BY <1>1, ReducedFacts
<1>3. r = ToInt(s) /\ s.exponent >= 0
  OBVIOUS
<1>. HIDE DEF s
<1>4. IsDecimal(s)
  BY <1>1, <1>2 DEF IsDecimal
<1>5. r.value \in Nat /\ r.value = s.mantissa * TenTo[s.exponent]
  BY <1>3, <1>4, ToIntFacts
<1>6. Same(y, s)
  <2>1. /\ y.mantissa = r.value /\ y.exponent = 0 /\ s.exponent - 0 = s.exponent
    BY <1>2
  <2>. HIDE DEF y
  <2>. QED
    BY <1>2, <1>3, <1>5, <2>1, SameIs
<1>7. Same(x, s)
  <2>1. CASE x.mantissa = 0
    BY <1>2, <2>1 DEF Same, Reduced
  <2>2. CASE x.mantissa # 0
    <3>1. x.exponent <= s.exponent
      BY <1>2, <2>2
    <3>. QED
      BY <1>1, <1>2, <2>2, <3>1, SameIs
  <2>. QED
    BY <2>1, <2>2
<1>. QED
  BY <1>6, <1>7 DEF Same
-----------------------------------------------------------------------------
(* Durations *)

\* By how much a product may be off.
LEMMA NearestError ==
  ASSUME NEW product \in Nat, NEW n \in Nat, NEW cut \in Nat, Nearest(product, n, cut)
  PROVE  /\ product % TenTo[cut] = 0 => n * TenTo[cut] = product
         /\ 2 * (n * TenTo[cut] - product) \in -TenTo[cut]..TenTo[cut]
<1>1. TenTo[cut] \in Nat \ {0}
  BY TenToType
<1>2. CASE product % TenTo[cut] = 0
  <2>1. n * TenTo[cut] = product
    BY <1>2 DEF Nearest
  <2>. QED
    BY <1>1, <2>1
<1>3. CASE product % TenTo[cut] # 0
  <2>1. cut # 0 /\ n = RoundedHalfEven(product, TenTo[cut])
    BY <1>3 DEF Nearest
  <2>2. TenTo[cut] % 2 = 0
    BY <2>1, TenToTen
  <2>. QED
    BY <1>1, <1>3, <2>1, <2>2, RoundedFacts
<1>. QED
  BY <1>2, <1>3

\* A product that is a fraction, rounded to an integer: rounded twice.
LEMMA FractionNear ==
  ASSUME NEW a, IsDecimal(a), NEW b, IsDecimal(b),
         NEW r, r = CheckedMul(a, b), r.ok, NEW i, i = ToInt(r.value), i.ok,
         NEW product, product = a.mantissa * b.mantissa,
         NEW k, k = -(a.exponent + b.exponent), k > 0, k <= WidePow,
         product \div TenTo[k] < MaxMantissa
  PROVE  /\ i.value * TenTo[k] - product \in (1 - TenTo[k])..(TenTo[k] - 1)
         /\ i.value \in Nat /\ i.value <= MaxMantissa
<1>. DEFINE n == r.value.mantissa
            e == r.value.exponent
            cut == e - a.exponent - b.exponent
            d == TenTo[k]
            t == TenTo[cut]
            v == i.value
<1>1. /\ a.mantissa \in Nat /\ b.mantissa \in Nat
      /\ a.exponent \in Int /\ b.exponent \in Int
      /\ product \in Nat /\ k \in Nat \ {0}
  BY DEF IsDecimal
<1>2. /\ IsDecimal(r.value) /\ n \in Nat /\ e \in Int /\ cut \in Nat
      /\ Nearest(product, n, cut)
  BY ProductFacts DEF IsDecimal
<1>3. cut = e + k
  BY <1>1, <1>2
<1>4. d \in Nat \ {0} /\ d >= 10 /\ d % 2 = 0 /\ t \in Nat \ {0}
  <2>1. k - 1 \in Nat /\ d = 10 * TenTo[k - 1] /\ d \in Nat \ {0} /\ d % 2 = 0
    BY <1>1, TenToTen
  <2>2. TenTo[k - 1] \in Nat \ {0}
    BY <2>1, TenToType
  <2>3. t \in Nat \ {0}
    BY <1>2, TenToType
  <2>. QED
    BY <2>1, <2>2, <2>3
<1>5. /\ v \in Nat
      /\ e >= 0 => v = n * TenTo[e]
      /\ e < 0 /\ -e <= WidePow => v = RoundedHalfEven(n, TenTo[-e])
  BY <1>2, ToIntFacts
<1>6. /\ product % t = 0 => n * t = product
      /\ 2 * (n * t - product) \in -t..t
  BY <1>1, <1>2, NearestError
<1>7. product < MaxMantissa * d
  <2>. DEFINE q == product \div d
              rest == product % d
  <2>1. q \in Int /\ rest \in 0..(d - 1) /\ product = q * d + rest
    <3>1. product \in Int /\ d \in Nat \ {0}
      BY <1>1, <1>4
    <3>. HIDE DEF d
    <3>. QED
      BY <3>1, DivMod, Zenon
  <2>2. q < MaxMantissa
    OBVIOUS
  <2>. HIDE DEF q, rest, d
  <2>3. product < (q + 1) * d /\ q + 1 <= MaxMantissa
    BY <1>4, <2>1, <2>2, Widths
  <2>4. (q + 1) * d <= MaxMantissa * d
    BY <1>4, <2>1, <2>3, Widths, Times
  <2>5. (q + 1) * d \in Int /\ MaxMantissa * d \in Int
    BY <1>4, <2>1, Widths
  <2>. QED
    BY <1>1, <2>3, <2>4, <2>5
<1>8. v * d - product \in (1 - d)..(d - 1)
  <2>1. CASE e >= 0
    <3>1. /\ k \in Nat /\ k <= cut /\ cut - k = e /\ t = TenTo[cut - k] * TenTo[k]
      <4>1. k <= cut /\ cut - k = e
        BY <1>1, <1>2, <1>3, <2>1
      <4>2. k \in Nat /\ cut \in Nat
        BY <1>1, <1>2
      <4>. HIDE DEF cut
      <4>. QED
        BY <4>1, <4>2, TenToGrows
    <3>2. t = TenTo[e] * d /\ TenTo[e] \in Nat
      <4>1. e \in Nat
        BY <1>2, <2>1
      <4>. QED
        BY <3>1, <4>1, TenToType
    <3>3. v * d = n * t
      BY <1>2, <1>4, <1>5, <2>1, <3>2
    <3>4. CASE product % t = 0
      BY <1>1, <1>4, <1>6, <3>3, <3>4
    <3>5. CASE product % t # 0
      <4>1. cut # 0 /\ Rounded(product, TenTo[cut - 1]) > MaxMantissa
        BY <1>2, <3>5 DEF Nearest
      <4>2. e = 0
        <5>. SUFFICES ASSUME e # 0  PROVE FALSE
          OBVIOUS
        <5>. DEFINE c == cut - 1
                    p == TenTo[c]
        <5>1. c \in Nat \ {0} /\ k <= c
          BY <1>1, <1>2, <1>3, <2>1
        <5>. HIDE DEF c
        <5>2. p \in Nat \ {0} /\ p % 2 = 0 /\ p > 1 /\ d <= p
          BY <1>1, <5>1, TenToTen, TenToGrows
        <5>3. Rounded(product, p) = RoundedHalfEven(product, p)
          BY <5>1, RoundedIs
        <5>. HIDE DEF p, d
        <5>4. product < MaxMantissa * p + p \div 2
          <6>1. MaxMantissa * d <= MaxMantissa * p
            BY <1>4, <5>2, Widths
          <6>2. MaxMantissa * d \in Int /\ MaxMantissa * p \in Int /\ p \div 2 \in Nat
            BY <1>4, <5>2, Widths
          <6>. QED
            BY <1>1, <1>7, <6>1, <6>2
        <5>5. RoundedHalfEven(product, p) <= MaxMantissa
          BY <1>1, <5>2, <5>4, Widths, RoundedBelow
        <5>6. RoundedHalfEven(product, p) > MaxMantissa
          BY <4>1, <5>3 DEF p, c
        <5>7. RoundedHalfEven(product, p) \in Nat
          BY <1>1, <5>2, RoundedFacts
        <5>. QED
          BY <5>5, <5>6, <5>7, Widths
      <4>3. t = d
        BY <1>4, <3>2, <4>2, TenToIs
      <4>. QED
        BY <1>1, <1>2, <1>4, <1>6, <3>3, <4>3
    <3>. QED
      BY <3>4, <3>5
  <2>2. CASE e < 0
    <3>. DEFINE j == -e
                u == TenTo[j]
    <3>1. j \in Nat \ {0} /\ j <= k /\ j + cut = k /\ j <= WidePow
      BY <1>1, <1>2, <1>3, <2>2, Widths
    <3>2. v = RoundedHalfEven(n, u)
      BY <1>5, <2>2, <3>1
    <3>3. d = u * t
      <4>1. TenTo[j + cut] = TenTo[j] * TenTo[cut]
        <5>. HIDE DEF j, cut
        <5>. QED
          BY <1>2, <3>1, TenToSum
      <4>. QED
        BY <3>1, <4>1
    <3>4. u \in Nat \ {0} /\ u % 2 = 0 /\ u >= 10
      <4>1. u \in Nat \ {0} /\ u % 2 = 0 /\ j - 1 \in Nat /\ u = 10 * TenTo[j - 1]
        <5>. HIDE DEF j
        <5>. QED
          BY <3>1, TenToTen
      <4>2. TenTo[j - 1] \in Nat \ {0}
        BY <4>1, TenToType
      <4>. QED
        BY <4>1, <4>2
    <3>. HIDE DEF j, u, t, d, cut, n, e, v
    <3>5. 2 * (v * u - n) \in -u..u
      BY <1>2, <3>2, <3>4, RoundedFacts
    <3>. DEFINE x == v * u - n
                y == n * t - product
    <3>6. x \in Int /\ 2 * x >= -u /\ 2 * x <= u
      BY <1>2, <1>5, <3>4, <3>5
    <3>7. y \in Int /\ 2 * y >= -t /\ 2 * y <= t
      BY <1>1, <1>2, <1>4, <1>6
    <3>8. v * d - product = x * t + y
      BY <1>1, <1>2, <1>4, <1>5, <3>3, <3>4
    <3>. HIDE DEF x, y
    <3>9. 2 * (x * t) >= -d /\ 2 * (x * t) <= d /\ x * t \in Int
      <4>1. (-u) * t <= (2 * x) * t /\ (2 * x) * t <= u * t
        BY <1>4, <3>4, <3>6, Times
      <4>. QED
        BY <1>4, <3>3, <3>4, <3>6, <4>1
    <3>10. t < d
      <4>1. 1 * t < u * t
        BY <1>4, <3>4, Times
      <4>. QED
        BY <1>4, <3>3, <4>1
    <3>. QED
      BY <1>4, <3>7, <3>8, <3>9, <3>10
  <2>. QED
    BY <1>2, <2>1, <2>2
<1>9. v <= MaxMantissa
  <2>. HIDE DEF v, d
  <2>1. v * d < (MaxMantissa + 1) * d
    <3>1. /\ v * d \in Int /\ MaxMantissa * d \in Int
          /\ (MaxMantissa + 1) * d = MaxMantissa * d + d
      BY <1>4, <1>5, Widths
    <3>. QED
      BY <1>1, <1>4, <1>7, <1>8, <3>1
  <2>2. v < MaxMantissa + 1
    BY <1>4, <1>5, <2>1, Widths, Times
  <2>. QED
    BY <1>5, <2>2, Widths
<1>. QED
  BY <1>5, <1>8, <1>9

\* A product that is an integer is exact.
LEMMA IntegerExact ==
  ASSUME NEW a, IsDecimal(a), NEW b, IsDecimal(b),
         NEW r, r = CheckedMul(a, b), r.ok, NEW i, i = ToInt(r.value), i.ok,
         NEW product, product = a.mantissa * b.mantissa,
         NEW exp, exp = a.exponent + b.exponent, exp >= 0,
         product * TenTo[exp] <= MaxMantissa
  PROVE  i.value = product * TenTo[exp] /\ i.value \in Nat
<1>. DEFINE n == r.value.mantissa
            e == r.value.exponent
            cut == e - a.exponent - b.exponent
<1>1. /\ a.exponent \in Int /\ b.exponent \in Int /\ product \in Nat /\ exp \in Nat
  BY DEF IsDecimal
<1>2. /\ IsDecimal(r.value) /\ n \in Nat /\ e \in Int /\ cut \in Nat
      /\ product <= MaxMantissa => product = n * TenTo[cut]
  BY ProductFacts DEF IsDecimal
<1>3. e = cut + exp /\ e >= 0
  BY <1>1, <1>2
<1>4. i.value = n * TenTo[e] /\ i.value \in Nat
  BY <1>2, <1>3, ToIntFacts
<1>. HIDE DEF n, e, cut
<1>5. TenTo[e] = TenTo[cut] * TenTo[exp] /\ TenTo[cut] \in Nat /\ TenTo[exp] \in Nat \ {0}
  <2>1. TenTo[cut + exp] = TenTo[cut] * TenTo[exp]
    BY <1>1, <1>2, TenToSum
  <2>2. TenTo[cut] \in Nat /\ TenTo[exp] \in Nat \ {0}
    BY <1>1, <1>2, TenToType
  <2>. QED
    BY <1>3, <2>1, <2>2
<1>6. product <= MaxMantissa
  <2>1. 1 <= TenTo[exp]
    BY <1>5
  <2>2. product * 1 <= product * TenTo[exp]
    BY <1>1, <1>5, <2>1
  <2>3. product * TenTo[exp] \in Int
    BY <1>1, <1>5
  <2>. QED
    BY <1>1, <2>2, <2>3, Widths
<1>. QED
  BY <1>1, <1>2, <1>4, <1>5, <1>6

\* TimeUnit
DurationUnits == {"millis", "seconds", "minutes", "hours", "days", "weeks"}

\* Those are the units a duration is parsed with.
LEMMA UnitsOfDuration == DOMAIN UnitNames["duration"] = DurationUnits
BY DEF UnitNames, DurationUnits

\* A unit is a decimal number of milliseconds.
LEMMA MillisInUnit ==
  ASSUME NEW unit \in DurationUnits  PROVE IsDecimal(MillisIn(unit))
<1>1. /\ DOMAIN SecondsIn = {"minutes", "hours", "days", "weeks"}
      /\ \A u \in DOMAIN SecondsIn : SecondsIn[u] \in 1..MaxMantissa
  BY UnitsAssumption
<1>2. ASSUME NEW m \in 1..MaxMantissa, NEW e \in Nat
      PROVE  IsDecimal(Reduced([mantissa |-> m, exponent |-> e]))
  <2>. DEFINE d == [mantissa |-> m, exponent |-> e]
  <2>1. d.mantissa \in Nat /\ d.exponent \in Int /\ d.mantissa <= MaxMantissa
    BY Widths
  <2>. HIDE DEF d
  <2>2. Reduced(d).mantissa \in Nat /\ Reduced(d).exponent \in Int
        /\ Reduced(d).mantissa <= d.mantissa
    BY <2>1, ReducedFacts
  <2>. QED
    BY <2>1, <2>2, Widths DEF IsDecimal, d
<1>3. 1 \in 1..MaxMantissa /\ 0 \in Nat /\ 3 \in Nat
  BY Widths
<1>4. unit \in DOMAIN SecondsIn => SecondsIn[unit] \in 1..MaxMantissa
  BY <1>1
<1>5. CASE unit = "millis"
  BY <1>2, <1>3, <1>5 DEF MillisIn
<1>6. CASE unit = "seconds"
  BY <1>2, <1>3, <1>6 DEF MillisIn
<1>7. CASE unit \notin {"millis", "seconds"}
  <2>1. unit \in DOMAIN SecondsIn
    BY <1>1, <1>7 DEF DurationUnits
  <2>. QED
    BY <1>2, <1>3, <1>4, <1>7, <2>1 DEF MillisIn
<1>. QED
  BY <1>5, <1>6, <1>7

DurationMillis(value) == value.secs * MillisPerSecond + value.millis

\* TimeUnit::into_duration
LEMMA DurationFacts ==
  ASSUME NEW unit \in DurationUnits, NEW raw, IsDecimal(raw),
         NEW r, r = IntoDuration(unit, raw), r.ok,
         NEW product, product = raw.mantissa * MillisIn(unit).mantissa,
         NEW exp, exp = raw.exponent + MillisIn(unit).exponent
  PROVE  /\ exp >= 0 /\ product * TenTo[exp] <= MaxMantissa
              => DurationMillis(r.value) = product * TenTo[exp]
         /\ exp < 0 /\ -exp <= WidePow /\ product \div TenTo[-exp] < MaxMantissa
              => DurationMillis(r.value) * TenTo[-exp] - product
                   \in (1 - TenTo[-exp])..(TenTo[-exp] - 1)
<1>. DEFINE f == MillisIn(unit)
            p == CheckedMul(raw, f)
            i == IF p.ok THEN ToInt(p.value) ELSE p
<1>1. IsDecimal(f)
  BY MillisInUnit
<1>2. r = IF ~i.ok THEN i
          ELSE IF i.value <= MaxMantissa
               THEN Ok([secs   |-> i.value \div MillisPerSecond,
                        millis |-> i.value % MillisPerSecond])
               ELSE IF i.value \div MillisPerSecond <= MaxMantissa
                    THEN Ok([secs |-> i.value \div MillisPerSecond, millis |-> 0])
                    ELSE Error
  BY DEF IntoDuration
<1>. HIDE DEF i
<1>3. i.ok
  BY <1>2
<1>4. p.ok /\ i = ToInt(p.value)
  BY <1>3 DEF i
<1>5. ASSUME i.value \in Nat, i.value <= MaxMantissa
      PROVE  DurationMillis(r.value) = i.value
  <2>1. r.value = [secs   |-> i.value \div MillisPerSecond,
                   millis |-> i.value % MillisPerSecond]
    BY <1>2, <1>3, <1>5 DEF Ok
  <2>2. i.value = (i.value \div 1000) * 1000 + (i.value % 1000)
    <3>. DEFINE x == i.value
    <3>1. x \in Int
      BY <1>5
    <3>. HIDE DEF x
    <3>2. x = (x \div 1000) * 1000 + (x % 1000)
      BY <3>1
    <3>. QED
      BY <3>2 DEF x
  <2>. QED
    BY <2>1, <2>2 DEF DurationMillis, MillisPerSecond
<1>6. product = raw.mantissa * f.mantissa /\ exp = raw.exponent + f.exponent
  OBVIOUS
<1>. HIDE DEF f, p
<1>7. ASSUME exp >= 0, product * TenTo[exp] <= MaxMantissa
      PROVE  DurationMillis(r.value) = product * TenTo[exp]
  <2>1. i.value = product * TenTo[exp] /\ i.value \in Nat
    BY <1>1, <1>3, <1>4, <1>6, <1>7, IntegerExact DEF p
  <2>. QED
    BY <1>5, <1>7, <2>1
<1>8. ASSUME exp < 0, -exp <= WidePow, product \div TenTo[-exp] < MaxMantissa
      PROVE  DurationMillis(r.value) * TenTo[-exp] - product
               \in (1 - TenTo[-exp])..(TenTo[-exp] - 1)
  <2>. DEFINE k == -(raw.exponent + f.exponent)
  <2>1. k = -exp /\ k > 0
    BY <1>1, <1>6, <1>8 DEF IsDecimal
  <2>. HIDE DEF k
  <2>2. k <= WidePow /\ product \div TenTo[k] < MaxMantissa
    BY <1>8, <2>1
  <2>3. /\ i.value * TenTo[k] - product \in (1 - TenTo[k])..(TenTo[k] - 1)
        /\ i.value \in Nat /\ i.value <= MaxMantissa
    BY <1>1, <1>3, <1>4, <1>6, <2>1, <2>2, FractionNear DEF p, k
  <2>. QED
    BY <1>5, <2>1, <2>3
<1>. QED
  BY <1>7, <1>8
-----------------------------------------------------------------------------
(* The chains of requests *)

\* What was returned is what the operation returns, for decimals and units
\* that the program can have.
Answered ==
  /\ asked.op = "multiply" =>
       /\ asked.a \in DecimalNumber /\ asked.b \in DecimalNumber
       /\ returned = CheckedMul(asked.a, asked.b)
  /\ asked.op = "equal" =>
       /\ asked.a \in DecimalNumber /\ asked.b \in DecimalNumber
       /\ returned = Ok(Equal(asked.a, asked.b))
  /\ asked.op = "to_int" =>
       asked.decimal \in DecimalNumber /\ returned = ToInt(asked.decimal)
  /\ asked.op = "scale" =>
       /\ asked.decimal \in DecimalNumber /\ asked.scale \in Exponent
       /\ returned = Scaled(asked.decimal, asked.scale)
  /\ asked.op = "convert" /\ asked.kind = "duration" =>
       /\ asked.unit \in DurationUnits /\ IsDecimal(asked.number)
       /\ returned = IntoDuration(asked.unit, asked.number)
  /\ asked.op = "serialize_in" /\ asked.kind = "duration" =>
       /\ asked.unit \in DurationUnits
       /\ returned.ok => returned.value \in 0..MaxMantissa

\* Other operations are not mentioned.
LEMMA OtherAnswer ==
  ASSUME asked'.op \notin {"multiply", "equal", "to_int", "scale", "convert", "serialize_in"}
  PROVE  Answered'
BY DEF Answered

\* A conversion, of a number that was asked for or read back.
LEMMA ConvertAnswered ==
  ASSUME NEW kind, NEW unit, NEW number, Convert(kind, unit, number),
         kind = "duration" => unit \in DurationUnits /\ IsDecimal(number)
  PROVE  Answered'
<1>1. /\ asked' = [op |-> "convert", kind |-> kind, unit |-> unit, number |-> number]
      /\ returned' = Converted(kind, unit, number)
  BY DEF Convert, Answer
<1>2. /\ asked'.op = "convert" /\ asked'.kind = kind /\ asked'.unit = unit
      /\ asked'.number = number
  BY <1>1
<1>3. kind = "duration" => returned' = IntoDuration(unit, number)
  BY <1>1 DEF Converted
<1>. QED
  BY <1>2, <1>3 DEF Answered

\* A duration in a unit is an integer of the width.
LEMMA SecondsInUnit ==
  ASSUME NEW unit \in DurationUnits, NEW value \in Duration,
         NEW r, r = SerializedIn("duration", unit, value), r.ok
  PROVE  r.value \in 0..MaxMantissa
<1>1. value.secs \in 0..MaxMantissa /\ value.millis \in 0..(1000 - 1)
  BY DEF Duration, MillisPerSecond
<1>2. /\ DOMAIN SecondsIn = {"minutes", "hours", "days", "weeks"}
      /\ \A u \in DOMAIN SecondsIn : SecondsIn[u] \in 1..MaxMantissa
  BY UnitsAssumption
<1>3. CASE unit = "millis"
  <2>. DEFINE millis == value.secs * MillisPerSecond + value.millis
  <2>1. r = IF millis > MaxMantissa THEN Overflowed ELSE Ok(millis)
    BY <1>2, <1>3 DEF SerializedIn
  <2>2. millis \in Nat
    <3>0. MaxMantissa \in Nat
      BY Widths
    <3>1. value.secs \in Nat /\ value.millis \in Nat /\ MillisPerSecond \in Nat
      BY <1>1, <3>0 DEF MillisPerSecond
    <3>. QED
      BY <3>1
  <2>. HIDE DEF millis
  <2>. QED
    BY <2>1, <2>2, Widths DEF Overflowed, Ok
<1>4. CASE unit = "seconds"
  <2>1. r = Ok(value.secs)
    BY <1>2, <1>4 DEF SerializedIn
  <2>. QED
    BY <1>1, <2>1 DEF Ok
<1>5. CASE unit \notin {"millis", "seconds"}
  <2>1. unit \in DOMAIN SecondsIn
    BY <1>2, <1>5 DEF DurationUnits
  <2>2. r = Ok(value.secs \div SecondsIn[unit])
    BY <1>5, <2>1 DEF SerializedIn
  <2>. DEFINE s == value.secs
              d == SecondsIn[unit]
              q == s \div d
              rest == s % d
  <2>3. s \in Nat /\ s <= MaxMantissa /\ d \in Nat \ {0}
    BY <1>1, <1>2, <2>1, Widths
  <2>4. q \in Int /\ rest \in 0..(d - 1) /\ s = q * d + rest
    <3>1. s \in Int
      BY <2>3
    <3>. HIDE DEF s, d
    <3>. QED
      BY <2>3, <3>1, DivMod, Zenon
  <2>5. r.value = q
    BY <2>2 DEF Ok
  <2>. HIDE DEF s, d, q, rest
  <2>6. -1 < q
    <3>1. (-1) * d < q * d
      BY <2>3, <2>4
    <3>. QED
      BY <2>3, <2>4, <3>1, Times
  <2>7. q <= s
    <3>1. q * 1 <= q * d
      BY <2>3, <2>4, <2>6
    <3>2. q * d \in Int
      BY <2>3, <2>4
    <3>. QED
      BY <2>3, <2>4, <3>1, <3>2
  <2>. QED
    BY <2>3, <2>4, <2>5, <2>6, <2>7, Widths
<1>. QED
  BY <1>3, <1>4, <1>5

\* ... and such an integer is a decimal.
LEMMA NumberIsDecimal ==
  ASSUME NEW n \in 0..MaxMantissa  PROVE IsDecimal(NumberFor("duration", n))
<1>. DEFINE d == [mantissa |-> n, exponent |-> 0]
<1>1. d.mantissa \in Nat /\ d.exponent \in Int /\ d.mantissa <= MaxMantissa
  BY Widths
<1>2. NumberFor("duration", n) = Reduced(d)
  BY DEF NumberFor
<1>. HIDE DEF d
<1>3. Reduced(d).mantissa \in Nat /\ Reduced(d).exponent \in Int
      /\ Reduced(d).mantissa <= d.mantissa
  BY <1>1, ReducedFacts
<1>. QED
  BY <1>1, <1>2, <1>3, Widths DEF IsDecimal

\* A step asks for one operation.
LEMMA AnswersKept ==
  ASSUME Answered, [Next]_conversionVars  PROVE Answered'
<1>1. CASE UNCHANGED conversionVars
  BY <1>1 DEF Answered, conversionVars
<1>2. CASE ReadBack
  <2>1. ASSUME NEW text, Parse(text)  PROVE Answered'
    BY <2>1, OtherAnswer DEF Parse, Answer
  <2>2. ASSUME NEW kind, NEW text, ParseWithUnit(kind, text)  PROVE Answered'
    BY <2>2, OtherAnswer DEF ParseWithUnit, Answer
  <2>3. CASE /\ asked.op = "serialize_in"
             /\ Convert(asked.kind, asked.unit, NumberFor(asked.kind, returned.value))
    <3>1. asked.kind = "duration" =>
            /\ asked.unit \in DurationUnits
            /\ IsDecimal(NumberFor(asked.kind, returned.value))
      BY <1>2, <2>3, NumberIsDecimal DEF ReadBack, Answered
    <3>. QED
      BY <2>3, <3>1, ConvertAnswered
  <2>. QED
    BY <1>2, <2>1, <2>2, <2>3 DEF ReadBack
<1>3. ASSUME NEW text, Parse(text)  PROVE Answered'
  BY <1>3, OtherAnswer DEF Parse, Answer
<1>4. ASSUME NEW d, NEW format, Show(d, format)  PROVE Answered'
  BY <1>4, OtherAnswer DEF Show, Answer
<1>5. ASSUME NEW a \in Decimals, NEW b \in Factors, Multiply(a, b)  PROVE Answered'
  BY <1>5, ConversionsAssumption DEF Multiply, Answer, Answered
<1>6. ASSUME NEW a \in Decimals, NEW b \in Factors, Compare(a, b)  PROVE Answered'
  BY <1>6, ConversionsAssumption DEF Compare, Answer, Answered
<1>7. ASSUME NEW d \in Decimals, Integer(d)  PROVE Answered'
  BY <1>7, ConversionsAssumption DEF Integer, Answer, Answered
<1>8. ASSUME NEW d \in Decimals, NEW scale \in Scales, Scale(d, scale)  PROVE Answered'
  BY <1>8, ConversionsAssumption DEF Scale, Answer, Answered
<1>9. ASSUME NEW d \in Decimals, NEW unit \in DOMAIN UnitNames.duration,
             Convert("duration", unit, d)
      PROVE  Answered'
  <2>1. d \in DecimalNumber /\ unit \in DurationUnits
    BY ConversionsAssumption, UnitsOfDuration
  <2>. QED
    BY <1>9, <2>1, IsDecimalNumber, ConvertAnswered
<1>10. ASSUME NEW kind, NEW value, Serialize(kind, value)  PROVE Answered'
  BY <1>10, OtherAnswer DEF Serialize, Answer
<1>11. ASSUME NEW kind \in Kinds \ {"ether"}, NEW value \in Amounts[kind],
              NEW unit \in DOMAIN UnitNames[kind], SerializeIn(kind, unit, value)
       PROVE  Answered'
  <2>1. /\ asked' = [op |-> "serialize_in", kind |-> kind, unit |-> unit, value |-> value]
        /\ returned' = SerializedIn(kind, unit, value)
    BY <1>11 DEF SerializeIn, Answer
  <2>2. asked'.op = "serialize_in" /\ asked'.kind = kind /\ asked'.unit = unit
    BY <2>1
  <2>3. ASSUME kind = "duration"
        PROVE  unit \in DurationUnits /\ (returned'.ok => returned'.value \in 0..MaxMantissa)
    <3>1. unit \in DurationUnits
      BY <2>3, UnitsOfDuration
    <3>2. value \in Duration
      BY <2>3, ConversionsAssumption DEF ValueOf, Kinds
    <3>. QED
      BY <2>1, <2>3, <3>1, <3>2, SecondsInUnit
  <2>. QED
    BY <2>2, <2>3 DEF Answered
<1>12. ASSUME NEW kind, NEW text, ParseWithUnit(kind, text)  PROVE Answered'
  BY <1>12, OtherAnswer DEF ParseWithUnit, Answer
<1>13. ASSUME NEW kind, NEW tag, NEW n, ParseObject(kind, tag, n)  PROVE Answered'
  BY <1>13, OtherAnswer DEF ParseObject, Answer
<1>. QED
  BY <1>1, <1>2, <1>3, <1>4, <1>5, <1>6, <1>7, <1>8, <1>9, <1>10, <1>11, <1>12, <1>13
  DEF Next

\* The invariant in which the theorems find the function that was called.
LEMMA AlwaysAnswered == Spec => []Answered
<1>1. Init => Answered
  BY DEF Init, Nothing, Answered
<1>. QED
  BY <1>1, AnswersKept, PTL DEF Spec
-----------------------------------------------------------------------------
(* What the answers are *)

\* A product is rounded once, and equal decimals are the same number.
LEMMA ProductProperty == Answered => ProductNearest
<1>. SUFFICES ASSUME Answered  PROVE ProductNearest
  OBVIOUS
<1>1. ASSUME asked.op = "multiply", returned.ok
      PROVE  LET product == asked.a.mantissa * asked.b.mantissa
                 cut == returned.value.exponent - asked.a.exponent - asked.b.exponent
             IN  /\ returned.value \in DecimalNumber
                 /\ Nearest(product, returned.value.mantissa, cut)
  <2>. DEFINE v == returned.value
  <2>1. /\ IsDecimal(asked.a) /\ IsDecimal(asked.b)
        /\ returned = CheckedMul(asked.a, asked.b)
    BY <1>1, IsDecimalNumber DEF Answered
  <2>2. /\ v = [mantissa |-> v.mantissa, exponent |-> v.exponent]
        /\ IsDecimal(v) /\ v.exponent \in Exponent
        /\ Nearest(asked.a.mantissa * asked.b.mantissa, v.mantissa,
                   v.exponent - asked.a.exponent - asked.b.exponent)
    BY <1>1, <2>1, ProductFacts
  <2>. HIDE DEF v
  <2>3. v.mantissa \in 0..MaxMantissa
    BY <2>2, Widths DEF IsDecimal
  <2>4. [mantissa |-> v.mantissa, exponent |-> v.exponent] \in DecimalNumber
    BY <2>2, <2>3 DEF DecimalNumber
  <2>. QED
    BY <2>2, <2>4 DEF v
<1>2. ASSUME asked.op = "equal"
      PROVE  returned.value <=> Same(asked.a, asked.b)
  <2>1. /\ IsDecimal(asked.a) /\ IsDecimal(asked.b)
        /\ returned.value = Equal(asked.a, asked.b)
    BY <1>2, IsDecimalNumber DEF Answered, Ok
  <2>. QED
    BY <2>1, EqualIsSame
<1>. QED
  BY <1>1, <1>2 DEF ProductNearest, Returned, Nearest

\* What is answered is the integer.
LEMMA IntegerProperty == Answered => IntegerNearest
<1>. SUFFICES ASSUME Answered  PROVE IntegerNearest
  OBVIOUS
<1>1. ASSUME asked.op = "to_int", returned.ok, NEW d, d = asked.decimal
      PROVE  /\ d.exponent >= 0 => Same(d, [mantissa |-> returned.value, exponent |-> 0])
             /\ d.exponent < 0 /\ -d.exponent <= WidePow =>
                  LET pow == TenTo[-d.exponent]
                      twice == 2 * (d.mantissa % pow)
                  IN  returned.value - d.mantissa \div pow =
                        IF twice < pow THEN 0
                        ELSE IF twice > pow THEN 1
                        ELSE (d.mantissa \div pow) % 2
  <2>1. IsDecimal(d) /\ returned = ToInt(d)
    BY <1>1, IsDecimalNumber DEF Answered
  <2>2. d.mantissa \in Nat /\ d.exponent \in Int
    BY <2>1 DEF IsDecimal
  <2>3. /\ returned.value \in Nat
        /\ d.exponent >= 0 => returned.value = d.mantissa * TenTo[d.exponent]
        /\ d.exponent < 0 /\ -d.exponent <= WidePow =>
             returned.value = RoundedHalfEven(d.mantissa, TenTo[-d.exponent])
    BY <1>1, <2>1, ToIntFacts
  <2>4. ASSUME d.exponent >= 0
        PROVE  Same(d, [mantissa |-> returned.value, exponent |-> 0])
    <3>. DEFINE y == [mantissa |-> returned.value, exponent |-> 0]
    <3>1. y.mantissa = returned.value /\ y.exponent = 0 /\ d.exponent - 0 = d.exponent
      BY <2>2
    <3>. HIDE DEF y
    <3>2. Same(y, d)
      BY <2>2, <2>3, <2>4, <3>1, SameIs
    <3>. QED
      BY <3>2 DEF Same, y
  <2>5. ASSUME d.exponent < 0, -d.exponent <= WidePow, NEW p, p = TenTo[-d.exponent]
        PROVE  returned.value - d.mantissa \div p =
                 IF 2 * (d.mantissa % p) < p THEN 0
                 ELSE IF 2 * (d.mantissa % p) > p THEN 1
                 ELSE (d.mantissa \div p) % 2
    <3>. DEFINE q == d.mantissa \div p
                r == d.mantissa % p
                h == p \div 2
    <3>1. -d.exponent \in Nat \ {0}
      BY <2>2, <2>5
    <3>2. p \in Nat \ {0} /\ p % 2 = 0
      BY <2>5, <3>1, TenToTen
    <3>3. q \in Int /\ r \in 0..(p - 1) /\ d.mantissa \in Int
      <4>1. d.mantissa \in Int
        BY <2>2
      <4>. QED
        BY <3>2, <4>1, DivMod, Zenon
    <3>4. h \in Nat /\ p = 2 * h
      BY <3>2
    <3>5. returned.value = IF r > h \/ (r = h /\ q % 2 = 1) THEN q + 1 ELSE q
      BY <2>3, <2>5 DEF RoundedHalfEven
    <3>. HIDE DEF q, r, h
    <3>6. returned.value - q = IF 2 * r < p THEN 0 ELSE IF 2 * r > p THEN 1 ELSE q % 2
      BY <3>2, <3>3, <3>4, <3>5
    <3>. QED
      BY <3>6 DEF q, r
  <2>. QED
    BY <2>4, <2>5
<1>2. ASSUME asked.op = "scale", returned.ok
      PROVE  Same([mantissa |-> returned.value, exponent |-> 0],
                  [asked.decimal EXCEPT !.exponent = @ + asked.scale])
  <2>. DEFINE d == asked.decimal
              x == [d EXCEPT !.exponent = @ + asked.scale]
  <2>1. d \in DecimalNumber /\ asked.scale \in Int /\ returned = Scaled(d, asked.scale)
    BY <1>2, Widths DEF Answered, Exponent
  <2>2. IsDecimal(d)
    BY <2>1, IsDecimalNumber
  <2>3. x.mantissa = d.mantissa /\ x.exponent = d.exponent + asked.scale
    BY <2>1 DEF DecimalNumber
  <2>4. x.exponent \in Int
    BY <2>1, <2>2, <2>3 DEF IsDecimal
  <2>5. returned = ToInt(Reduced(x)) /\ ~(Reduced(x).exponent < 0)
    BY <1>2, <2>1 DEF Scaled, Error
  <2>6. Reduced(x).exponent \in Int
    BY <2>2, <2>3, <2>4, ReducedFacts DEF IsDecimal
  <2>. HIDE DEF x
  <2>7. Reduced(x).exponent >= 0
    BY <2>5, <2>6
  <2>8. Same([mantissa |-> returned.value, exponent |-> 0], x)
    BY <1>2, <2>2, <2>3, <2>4, <2>5, <2>7, ScaledFacts
  <2>. QED
    BY <2>8 DEF x
<1>3. ASSUME asked.op = "convert", returned.ok, asked.kind = "duration",
             NEW factor, factor = MillisIn(asked.unit),
             NEW product, product = asked.number.mantissa * factor.mantissa,
             NEW exp, exp = asked.number.exponent + factor.exponent,
             NEW millis, millis = DurationMillis(returned.value)
      PROVE  IF exp >= 0
             THEN PowFits(exp, MaxMantissa) /\ ProductFits(product, TenTo[exp], MaxMantissa)
                    => millis = product * TenTo[exp]
             ELSE PowFits(-exp, MaxWide) /\ product \div TenTo[-exp] < MaxMantissa
                    => millis * TenTo[-exp] - product
                         \in (1 - TenTo[-exp])..(TenTo[-exp] - 1)
  <2>1. /\ asked.unit \in DurationUnits /\ IsDecimal(asked.number)
        /\ returned = IntoDuration(asked.unit, asked.number)
    BY <1>3 DEF Answered
  <2>2. IsDecimal(factor)
    BY <1>3, <2>1, MillisInUnit
  <2>3. product \in Nat /\ exp \in Int
    BY <1>3, <2>1, <2>2 DEF IsDecimal
  <2>4. /\ exp >= 0 /\ product * TenTo[exp] <= MaxMantissa => millis = product * TenTo[exp]
        /\ exp < 0 /\ -exp <= WidePow /\ product \div TenTo[-exp] < MaxMantissa
             => millis * TenTo[-exp] - product \in (1 - TenTo[-exp])..(TenTo[-exp] - 1)
    BY <1>3, <2>1, DurationFacts
  <2>5. CASE exp >= 0
    <3>1. exp \in Nat
      BY <2>3, <2>5
    <3>2. TenTo[exp] \in Nat \ {0}
      BY <3>1, TenToType
    <3>3. ProductFits(product, TenTo[exp], MaxMantissa) => product * TenTo[exp] <= MaxMantissa
      BY <2>3, <3>2, Widths, FitsIs
    <3>. QED
      BY <2>4, <2>5, <3>3
  <2>6. CASE ~(exp >= 0)
    <3>1. -exp \in Nat /\ exp < 0
      BY <2>3, <2>6
    <3>2. PowFits(-exp, MaxWide) => -exp <= WidePow
      BY DEF PowFits
    <3>. QED
      BY <2>4, <2>6, <3>1, <3>2
  <2>. QED
    BY <2>5, <2>6
<1>. DEFINE ToIntPart ==
              LET d == asked.decimal
              IN  IF d.exponent >= 0
                  THEN Same(d, [mantissa |-> returned.value, exponent |-> 0])
                  ELSE -d.exponent <= WidePow =>
                         LET pow  == TenTo[-d.exponent]
                             twice == 2 * (d.mantissa % pow)
                         IN  returned.value - d.mantissa \div pow =
                               IF twice < pow THEN 0
                               ELSE IF twice > pow THEN 1
                               ELSE (d.mantissa \div pow) % 2
<1>4. ASSUME Returned("to_int")  PROVE ToIntPart
  <2>1. asked.op = "to_int" /\ returned.ok
    BY <1>4 DEF Returned
  <2>2. asked.decimal.exponent \in Int
    BY <2>1, IsDecimalNumber DEF Answered, IsDecimal
  <2>3. asked.decimal.exponent >= 0 \/ asked.decimal.exponent < 0
    BY <2>2
  <2>. QED
    BY <1>1, <2>1, <2>3
<1>5. ASSUME Returned("convert"), asked.kind = "duration"
      PROVE  LET factor  == MillisIn(asked.unit)
                 product == asked.number.mantissa * factor.mantissa
                 exp     == asked.number.exponent + factor.exponent
                 millis  == returned.value.secs * MillisPerSecond + returned.value.millis
             IN  IF exp >= 0
                 THEN PowFits(exp, MaxMantissa)
                        /\ ProductFits(product, TenTo[exp], MaxMantissa)
                        => millis = product * TenTo[exp]
                 ELSE PowFits(-exp, MaxWide) /\ product \div TenTo[-exp] < MaxMantissa
                        => millis * TenTo[-exp] - product
                             \in (1 - TenTo[-exp])..(TenTo[-exp] - 1)
  BY <1>3, <1>5 DEF Returned, DurationMillis
<1>. QED
  BY <1>2, <1>4, <1>5 DEF IntegerNearest, Returned

\* checked_mul() and `PartialEq`, for all widths.
THEOREM ProductIsNearest == Spec => []ProductNearest
BY AlwaysAnswered, ProductProperty, PTL

\* to_int(), scale() and TimeUnit::into_duration(), for all widths and units.
THEOREM IntegerIsNearest == Spec => []IntegerNearest
BY AlwaysAnswered, IntegerProperty, PTL
=============================================================================
