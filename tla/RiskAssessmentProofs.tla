-------------------------- MODULE RiskAssessmentProofs --------------------------
(***************************************************************************)
(* The invariants of the risk engine, for any indicators, weights, bounds  *)
(* of normalisation, staleness, clock and number of calculations.          *)
(*                                                                         *)
(* The first part is about the arithmetic: what rounding does to a         *)
(* quotient of sums.  The inductive invariant says which readings a        *)
(* transaction has read, as far as they were recorded when it began, that  *)
(* a row is a score of what was read, and that the previous score was the  *)
(* latest one.                                                             *)
(***************************************************************************)
EXTENDS RiskAssessment, DataLemmas, TLAPS

-----------------------------------------------------------------------------
(* Arithmetic.                                                             *)

\* A common factor is cancelled.
LEMMA Cancel ==
  ASSUME NEW a \in Int, NEW b \in Int, NEW d \in Nat \ {0}, a * d < b * d
  PROVE  a < b
<1>1. SUFFICES ASSUME b <= a PROVE FALSE
  OBVIOUS
<1>2. b * d <= a * d
  BY <1>1
<1>. QED BY <1>2

\* Division and remainder, as Python's integers have them.
LEMMA Division ==
  ASSUME NEW n \in Int, NEW d \in Nat \ {0}
  PROVE  /\ n \div d \in Int /\ n % d \in Int
         /\ n = ((n \div d) * d) + (n % d)
         /\ 0 <= n % d /\ n % d < d
OBVIOUS

\* A rounded quotient is a half off at most.
LEMMA RoundNear ==
  ASSUME NEW n \in Int, NEW d \in Nat \ {0}
  PROVE  /\ Round(n, d) \in Int
         /\ 2 * n - d <= 2 * (Round(n, d) * d)
         /\ 2 * (Round(n, d) * d) <= 2 * n + d
<1>. DEFINE q == n \div d
            r == n % d
            p == q * d
<1>1. q \in Int /\ r \in Int /\ p \in Int /\ n = p + r /\ 0 <= r /\ r < d
  BY Division
<1>2. (q + 1) * d = p + d
  BY <1>1
<1>3. \/ Round(n, d) = q /\ 2 * r <= d
      \/ Round(n, d) = q + 1 /\ d <= 2 * r
  <2>1. Round(n, d) = IF 2 * r < d \/ (2 * r = d /\ q % 2 = 0) THEN q ELSE q + 1
    BY DEF Round
  <2>. HIDE DEF q, r
  <2>. QED BY <1>1, <2>1
<1>. DEFINE e == Round(n, d) * d
<1>4. \/ e = p /\ 2 * r <= d
      \/ e = p + d /\ d <= 2 * r
  BY <1>2, <1>3
<1>5. Round(n, d) \in Int
  BY <1>1, <1>3
<1>. HIDE DEF p, q, r, e
<1>6. 2 * n - d <= 2 * e /\ 2 * e <= 2 * n + d
  BY <1>1, <1>4
<1>. QED BY <1>5, <1>6 DEF e

\* A quotient that lies between two integers is rounded to one between them.
LEMMA RoundBetween ==
  ASSUME NEW n \in Int, NEW d \in Nat \ {0}, NEW low \in Int, NEW high \in Int,
         low * d <= n, n <= high * d
  PROVE  low <= Round(n, d) /\ Round(n, d) <= high
<1>. DEFINE x == Round(n, d)
            e == x * d
            l == low * d
            h == high * d
<1>1. x \in Int /\ 2 * n - d <= 2 * e /\ 2 * e <= 2 * n + d
  BY RoundNear
<1>2. (low - 1) * d = l - d /\ (high + 1) * d = h + d
  OBVIOUS
<1>. HIDE DEF x
<1>3. e \in Int /\ l \in Int /\ h \in Int /\ l <= n /\ n <= h
  BY <1>1
<1>. HIDE DEF e, l, h
<1>4. l - d < e /\ e < h + d
  BY <1>1, <1>3
<1>5. low - 1 < x
  BY <1>1, <1>2, <1>4, Cancel DEF e
<1>6. x < high + 1
  BY <1>1, <1>2, <1>4, Cancel DEF e
<1>. QED BY <1>1, <1>5, <1>6 DEF x

\* Quotients that are at most c apart are at most c + 1 apart when they are rounded.
LEMMA RoundApart ==
  ASSUME NEW m \in Int, NEW n \in Int, NEW c \in Int, NEW d \in Nat \ {0}, n <= m + c * d
  PROVE  Round(n, d) <= Round(m, d) + c + 1
<1>. DEFINE x == Round(n, d)
            y == Round(m, d)
            e == x * d
            f == y * d
            k == c * d
<1>1. /\ x \in Int /\ 2 * e <= 2 * n + d
      /\ y \in Int /\ 2 * m - d <= 2 * f
  BY RoundNear
<1>. HIDE DEF x, y
<1>2. (y + c + 2) * d = f + k + 2 * d
  BY <1>1
<1>3. e \in Int /\ f \in Int /\ k \in Int /\ n <= m + k
  BY <1>1
<1>. HIDE DEF e, f, k
<1>4. e < f + k + 2 * d
  BY <1>1, <1>3
<1>5. x * d < (y + c + 2) * d
  BY <1>2, <1>4 DEF e
<1>6. x < y + c + 2
  BY <1>1, <1>5, Cancel
<1>. QED BY <1>1, <1>6 DEF x, y

-----------------------------------------------------------------------------
(* Scores.                                                                 *)

\* Weights count, and what is known has one if anything is.
LEMMA WeightsCount ==
  ASSUME NEW known \in SUBSET Observation, IsFiniteSet(known)
  PROVE  /\ AvailableWeight(known) \in Nat
         /\ known # {} => AvailableWeight(known) > 0
         /\ AvailableWeight(known) = SumFunctionOnSet([o \in known |-> Weight[o.indicator]], known)
<1>. DEFINE w == [o \in known |-> Weight[o.indicator]]
            W(s) == SumFunctionOnSet(w, s)
<1>1. AvailableWeight(known) = W(known)
  BY DEF AvailableWeight, SumFunction
<1>2. \A o \in known : w[o] \in Nat \ {0}
  BY RiskAssumption DEF Observation
<1>. HIDE DEF w
<1>3. \A o \in known : w[o] \in Nat /\ w[o] \in Int
  BY <1>2
<1>4. W({}) = 0 /\ W({}) <= W(known) /\ W(known) \in Int
  BY <1>3, SumUnfolds, FS_EmptySet, SumOfPart, SumOf
<1>5. ASSUME NEW o \in known PROVE W(known) > 0
  <2>1. IsFiniteSet({o}) /\ {o} \ {o} = {} /\ {o} \in SUBSET known
    BY FS_Singleton
  <2>2. W({o}) = w[o] + W({o} \ {o})
    BY <1>3, <2>1, SumOf
  <2>3. W({o}) <= W(known)
    BY <1>3, <2>1, SumOfPart
  <2>. HIDE DEF W
  <2>. QED BY <1>2, <1>4, <2>1, <2>2, <2>3
<1>. HIDE DEF W
<1>6. W(known) \in Nat
  BY <1>4
<1>. QED BY <1>1, <1>5, <1>6 DEF W, w

\* Each contribution is a hundredth of a whole.
LEMMA ContributionRange ==
  ASSUME NEW o \in Observation
  PROVE  Contribution(o) \in 0..100
<1>1. o.value \in 0..100
  BY DEF Observation
<1>. QED BY <1>1 DEF Contribution

\* The base score lies between the extremes of what is known.
LEMMA ScoreBetween ==
  ASSUME NEW readings \in SUBSET Observation, IsFiniteSet(readings), NEW asOf,
         NEW low \in Int, NEW high \in Int, Included(readings, asOf) # {},
         \A o \in Included(readings, asOf) : low <= Contribution(o) /\ Contribution(o) <= high
  PROVE  low <= BaseScore(readings, asOf) /\ BaseScore(readings, asOf) <= high
<1>. DEFINE known == Included(readings, asOf)
            f == [o \in known |-> Weight[o.indicator] * Contribution(o)]
            w == [o \in known |-> Weight[o.indicator]]
            n == SumFunctionOnSet(f, known)
            d == AvailableWeight(known)
<1>1. known \in SUBSET Observation /\ IsFiniteSet(known) /\ known # {}
  BY FS_Subset DEF Included
<1>2. BaseScore(readings, asOf) = Round(n, d)
  BY <1>1 DEF BaseScore, SumFunction
<1>. HIDE DEF known
<1>3. \A o \in known : Weight[o.indicator] \in Nat /\ Contribution(o) \in Int
  BY <1>1, RiskAssumption, ContributionRange DEF Observation
<1>4. \A o \in known : low <= Contribution(o) /\ Contribution(o) <= high
  BY DEF known
<1>5. \A o \in known : /\ f[o] \in Int /\ w[o] \in Int
                       /\ low * w[o] <= f[o] /\ f[o] <= high * w[o]
  <2>. SUFFICES ASSUME NEW o \in known
                PROVE  /\ Weight[o.indicator] * Contribution(o) \in Int
                       /\ low * Weight[o.indicator] <= Weight[o.indicator] * Contribution(o)
                       /\ Weight[o.indicator] * Contribution(o) <= high * Weight[o.indicator]
    BY <1>3
  <2>. DEFINE a == Weight[o.indicator]
              b == Contribution(o)
  <2>1. a \in Nat /\ b \in Int /\ low <= b /\ b <= high
    BY <1>3, <1>4
  <2>. HIDE DEF a, b
  <2>2. a * b \in Int /\ low * a <= a * b /\ a * b <= high * a
    BY <2>1
  <2>. QED BY <2>2 DEF a, b
<1>6. d = SumFunctionOnSet(w, known) /\ d \in Nat \ {0}
  BY <1>1, WeightsCount
<1>7. n \in Int
  BY <1>1, <1>5, SumOf
<1>. HIDE DEF f, w
<1>8. low * d <= n /\ n <= high * d
  BY <1>1, <1>5, <1>6, SumBetween
<1>. HIDE DEF n, d
<1>. QED BY <1>2, <1>6, <1>7, <1>8, RoundBetween

\* A base score is a hundredth of a whole.
LEMMA ScoreRange ==
  ASSUME NEW readings \in SUBSET Observation, IsFiniteSet(readings), NEW asOf
  PROVE  BaseScore(readings, asOf) \in 0..100
<1>. DEFINE known == Included(readings, asOf)
<1>1. CASE known = {}
  BY <1>1 DEF BaseScore
<1>2. CASE known # {}
  <2>. DEFINE x == BaseScore(readings, asOf)
  <2>1. \A o \in known : 0 <= Contribution(o) /\ Contribution(o) <= 100
    BY ContributionRange DEF Included
  <2>2. 0 <= x /\ x <= 100
    BY <1>2, <2>1, ScoreBetween
  <2>3. x \in Int
    <3>. DEFINE n == SumFunction([o \in known |-> Weight[o.indicator] * Contribution(o)])
                d == AvailableWeight(known)
    <3>1. known \in SUBSET Observation /\ IsFiniteSet(known)
      BY FS_Subset DEF Included
    <3>2. x = Round(n, d)
      BY <1>2 DEF BaseScore
    <3>3. n \in Int
      <4>. DEFINE f == [o \in known |-> Weight[o.indicator] * Contribution(o)]
      <4>1. \A o \in known : f[o] \in Int
        BY <3>1, RiskAssumption, ContributionRange DEF Observation
      <4>2. DOMAIN f = known /\ n = SumFunctionOnSet(f, DOMAIN f)
        BY DEF SumFunction
      <4>. HIDE DEF f, known
      <4>. QED BY <3>1, <4>1, <4>2, SumOf
    <3>4. d \in Nat \ {0}
      <4>1. known # {}
        BY <1>2
      <4>. HIDE DEF known, n, x
      <4>2. AvailableWeight(known) \in Nat /\ AvailableWeight(known) > 0
        BY <3>1, <4>1, WeightsCount
      <4>. QED BY <4>2
    <3>. HIDE DEF n, d
    <3>. QED BY <3>2, <3>3, <3>4, RoundNear
  <2>. HIDE DEF x
  <2>. QED BY <2>2, <2>3 DEF x
<1>. QED BY <1>1, <1>2

\* One reading of an indicator at most.
Single(readings) == \A o, p \in readings : o.indicator = p.indicator => o = p

\* What is known has no more weight than all indicators together.
LEMMA WeightKnown ==
  ASSUME NEW known \in SUBSET Observation, IsFiniteSet(known), Single(known)
  PROVE  /\ TotalWeight \in Nat \ {0}
         /\ AvailableWeight(known) <= TotalWeight
<1>. DEFINE w == [o \in known |-> Weight[o.indicator]]
            h == [o \in known |-> o.indicator]
            part == {h[o] : o \in known}
<1>1. TotalWeight = SumFunctionOnSet(Weight, Indicators)
  BY RiskAssumption DEF TotalWeight, SumFunction
<1>2. IsFiniteSet(Indicators) /\ \A i \in Indicators : Weight[i] \in Nat \ {0}
  BY RiskAssumption
<1>3. part \in SUBSET Indicators
  BY DEF Observation
<1>4. AvailableWeight(known) = SumFunctionOnSet(Weight, part)
  <2>1. AvailableWeight(known) = SumFunctionOnSet(w, known)
    BY WeightsCount
  <2>2. \A o \in known : w[o] \in Int /\ w[o] = Weight[h[o]]
    BY <1>2 DEF Observation
  <2>3. \A o, p \in known : h[o] = h[p] => o = p
    BY DEF Single
  <2>. HIDE DEF w, h
  <2>. QED BY <2>1, <2>2, <2>3, SumReindexed
<1>5. \A i \in Indicators : Weight[i] \in Nat /\ Weight[i] \in Int
  BY <1>2
<1>. HIDE DEF part
<1>6. AvailableWeight(known) <= TotalWeight /\ TotalWeight \in Int
  BY <1>1, <1>2, <1>3, <1>4, <1>5, SumOfPart, SumOf
<1>7. TotalWeight > 0
  <2>1. PICK i \in Indicators : TRUE
    BY RiskAssumption
  <2>2. IsFiniteSet({i}) /\ {i} \ {i} = {} /\ {i} \in SUBSET Indicators
    BY FS_Singleton
  <2>. DEFINE W(s) == SumFunctionOnSet(Weight, s)
  <2>3. W({i}) = Weight[i] + W({i} \ {i}) /\ W({}) = 0
    BY <1>5, <2>2, SumOf, SumUnfolds, FS_EmptySet
  <2>4. W({i}) <= W(Indicators)
    BY <1>2, <1>5, <2>2, SumOfPart
  <2>. HIDE DEF W
  <2>. QED BY <1>1, <1>2, <1>6, <2>2, <2>3, <2>4 DEF W
<1>. QED BY <1>6, <1>7

\* Confidence is a hundredth, and no more than the share of the weight that is known.
LEMMA ConfidenceBounded ==
  ASSUME NEW readings \in SUBSET Observation, IsFiniteSet(readings), Single(readings), NEW asOf
  PROVE  /\ Confidence(readings, asOf) \in 0..100
         /\ Confidence(readings, asOf) * TotalWeight <=
              100 * AvailableWeight(Included(readings, asOf))
<1>. DEFINE known == Included(readings, asOf)
            f == [o \in known |-> Weight[o.indicator] * o.confidence]
            w == [o \in known |-> Weight[o.indicator]]
            n == SumFunctionOnSet(f, known)
            a == AvailableWeight(known)
            t == TotalWeight
<1>1. known \in SUBSET Observation /\ IsFiniteSet(known) /\ Single(known)
  BY FS_Subset DEF Included, Single
<1>2. Confidence(readings, asOf) = n \div t
  BY DEF Confidence, SumFunction
<1>3. \A o \in known : Weight[o.indicator] \in Nat /\ o.confidence \in 0..100
  BY <1>1, RiskAssumption DEF Observation
<1>. HIDE DEF known
<1>4. \A o \in known : f[o] \in Int /\ w[o] \in Int /\ 0 * w[o] <= f[o] /\ f[o] <= 100 * w[o]
  <2>. SUFFICES ASSUME NEW o \in known
                PROVE  /\ Weight[o.indicator] * o.confidence \in Int
                       /\ 0 * Weight[o.indicator] <= Weight[o.indicator] * o.confidence
                       /\ Weight[o.indicator] * o.confidence <= 100 * Weight[o.indicator]
    BY <1>3
  <2>. DEFINE x == Weight[o.indicator]
              y == o.confidence
  <2>1. x \in Nat /\ y \in Int /\ 0 <= y /\ y <= 100
    BY <1>3
  <2>. HIDE DEF x, y
  <2>2. x * y \in Int /\ 0 * x <= x * y /\ x * y <= 100 * x
    BY <2>1
  <2>. QED BY <2>2 DEF x, y
<1>5. a = SumFunctionOnSet(w, known) /\ a \in Nat /\ t \in Nat \ {0} /\ a <= t
  BY <1>1, WeightsCount, WeightKnown
<1>. HIDE DEF f, w
<1>6. 0 * a <= n /\ n <= 100 * a /\ n \in Int
  <2>. DEFINE low == 0
              high == 100
              W == SumFunctionOnSet(w, known)
  <2>1. low \in Int /\ high \in Int
    OBVIOUS
  <2>2. \A o \in known : f[o] \in Int /\ w[o] \in Int /\ low * w[o] <= f[o] /\ f[o] <= high * w[o]
    BY <1>4
  <2>. HIDE DEF low, high
  <2>3. low * W <= n /\ n <= high * W /\ n \in Int
    BY <1>1, <2>1, <2>2, SumBetween, SumOf
  <2>. QED BY <1>5, <2>3 DEF low, high
<1>. HIDE DEF n, a, t
<1>. DEFINE q == n \div t
            p == q * t
<1>7. q \in Int /\ p \in Int /\ p <= n /\ n < p + t
  BY <1>5, <1>6, Division
<1>8. (q + 1) * t = p + t /\ 101 * t = 100 * t + t /\ 0 * t = 0
  BY <1>5, <1>7
<1>. HIDE DEF q
<1>9. p < 101 * t /\ 0 * t < p + t
  BY <1>5, <1>6, <1>7, <1>8
<1>10. q < 101 /\ 0 < q + 1
  BY <1>5, <1>7, <1>8, <1>9, Cancel
<1>11. q \in 0..100 /\ p <= 100 * a
  BY <1>5, <1>6, <1>7, <1>10
<1>. QED BY <1>2, <1>11 DEF q, p, n, a, t, known

\* The sum over what is known, by indicator.
LEMMA ByIndicator ==
  ASSUME NEW known \in SUBSET Observation, IsFiniteSet(known), Single(known), NEW g,
         \A o \in known : g[o.indicator] = Weight[o.indicator] * Contribution(o)
  PROVE  LET part == {o.indicator : o \in known}
             n == SumFunction([o \in known |-> Weight[o.indicator] * Contribution(o)])
         IN /\ n \in Int /\ n = SumFunctionOnSet(g, part)
            /\ AvailableWeight(known) = SumFunctionOnSet(Weight, part)
            /\ IsFiniteSet(part) /\ part \in SUBSET Indicators
<1>. DEFINE f == [o \in known |-> Weight[o.indicator] * Contribution(o)]
            w == [o \in known |-> Weight[o.indicator]]
            h == [o \in known |-> o.indicator]
            part == {o.indicator : o \in known}
            n == SumFunction([o \in known |-> Weight[o.indicator] * Contribution(o)])
<1>1. \A o \in known : /\ Weight[o.indicator] \in Nat /\ Contribution(o) \in Int
                       /\ o.indicator \in Indicators
  BY RiskAssumption, ContributionRange DEF Observation
<1>2. /\ \A o \in known : f[o] \in Int /\ f[o] = g[h[o]] /\ w[o] \in Int /\ w[o] = Weight[h[o]]
      /\ \A o, p \in known : h[o] = h[p] => o = p
      /\ part = {h[o] : o \in known}
  BY <1>1 DEF Single
<1>3. n = SumFunctionOnSet(f, known) /\ AvailableWeight(known) = SumFunctionOnSet(w, known)
  BY DEF SumFunction, AvailableWeight
<1>4. part \in SUBSET Indicators /\ IsFiniteSet(part)
  BY <1>1, RiskAssumption, FS_Subset
<1>. HIDE DEF f, w, h, part, n
<1>5. n \in Int
  BY <1>2, <1>3, SumOf
<1>6. n = SumFunctionOnSet(g, part)
  BY <1>2, <1>3, SumReindexed
<1>7. AvailableWeight(known) = SumFunctionOnSet(Weight, part)
  BY <1>2, <1>3, SumReindexed
<1>. QED BY <1>4, <1>5, <1>6, <1>7 DEF part, n

\* Distance bounds either difference, and is bounded by both.
LEMMA DistanceIs ==
  ASSUME NEW x \in Int, NEW y \in Int, NEW c \in Int
  PROVE  /\ Distance(x, y) \in Nat /\ Distance(x, y) = Distance(y, x)
         /\ Distance(x, y) <= c <=> x <= y + c /\ y <= x + c
BY DEF Distance

\* If what is known of each indicator differs by five at most, the scores do by six.
LEMMA SilentIsSmall ==
  ASSUME NEW before \in SUBSET Observation, IsFiniteSet(before), Single(before), NEW s,
         NEW after \in SUBSET Observation, IsFiniteSet(after), Single(after), NEW t,
         ChangedIndicators(before, after) = {},
         {o.indicator : o \in Included(before, s)} = {o.indicator : o \in Included(after, t)}
  PROVE  BaseScore(before, s) <= BaseScore(after, t) + 6
<1>. DEFINE A == Included(before, s)
            B == Included(after, t)
            part == {o.indicator : o \in A}
            a(i) == CHOOSE o \in A : o.indicator = i
            b(i) == CHOOSE o \in B : o.indicator = i
            f == [i \in part |-> Weight[i] * Contribution(a(i))]
            g == [i \in part |-> Weight[i] * Contribution(b(i))]
<1>1. /\ A \in SUBSET Observation /\ IsFiniteSet(A) /\ Single(A) /\ A \subseteq before
      /\ B \in SUBSET Observation /\ IsFiniteSet(B) /\ Single(B) /\ B \subseteq after
      /\ part = {o.indicator : o \in B}
  BY FS_Subset DEF Included, Single
<1>2. CASE A = {}
  <2>1. B = {}
    BY <1>1, <1>2
  <2>. QED BY <1>2, <2>1 DEF BaseScore
<1>3. CASE A # {}
  <2>. DEFINE m == SumFunction([o \in B |-> Weight[o.indicator] * Contribution(o)])
              n == SumFunction([o \in A |-> Weight[o.indicator] * Contribution(o)])
              d == SumFunctionOnSet(Weight, part)
  <2>. HIDE DEF A, B
  <2>1. B # {}
    BY <1>1, <1>3
  <2>2. ASSUME NEW i \in part
        PROVE  /\ a(i) \in A /\ a(i).indicator = i /\ b(i) \in B /\ b(i).indicator = i
    BY <1>1
  <2>3. /\ \A o \in A : a(o.indicator) = o
        /\ \A o \in B : b(o.indicator) = o
    BY <1>1, <2>2 DEF Single
  <2>4. /\ \A o \in A : f[o.indicator] = Weight[o.indicator] * Contribution(o)
        /\ \A o \in B : g[o.indicator] = Weight[o.indicator] * Contribution(o)
    BY <1>1, <2>3
  <2>5. ASSUME NEW i \in part
        PROVE  Contribution(a(i)) <= Contribution(b(i)) + 5
    <3>. DEFINE o == a(i)
                p == b(i)
    <3>1. o \in before /\ p \in after /\ o.indicator = i /\ p.indicator = i
      BY <1>1, <2>2
    <3>2. i \in Indicators /\ o.value \in 0..100 /\ p.value \in 0..100
      BY <3>1 DEF Observation
    <3>. HIDE DEF o, p
    <3>3. ~(Distance(o.value, p.value) > 5)
      BY <3>1, <3>2 DEF ChangedIndicators
    <3>. DEFINE x == o.value
                y == p.value
    <3>4. x \in 0..100 /\ y \in 0..100 /\ ~(Distance(x, y) > 5)
      BY <3>2, <3>3
    <3>5. \/ Contribution(o) = 100 - x /\ Contribution(p) = 100 - y
          \/ Contribution(o) = x /\ Contribution(p) = y
      BY <3>1 DEF Contribution
    <3>. HIDE DEF x, y
    <3>6. x <= y + 5 /\ y <= x + 5
      BY <3>4 DEF Distance
    <3>7. Contribution(o) <= Contribution(p) + 5
      BY <3>4, <3>5, <3>6
    <3>. QED BY <3>7 DEF o, p
  <2>6. ASSUME NEW i \in part
        PROVE  /\ f[i] \in Int /\ g[i] \in Int /\ Weight[i] \in Int
               /\ f[i] <= g[i] + 5 * Weight[i]
    <3>. DEFINE x == Contribution(a(i))
                y == Contribution(b(i))
                z == Weight[i]
    <3>1. f[i] = z * x /\ g[i] = z * y
      OBVIOUS
    <3>2. i \in Indicators /\ a(i) \in Observation /\ b(i) \in Observation
      BY <1>1, <2>2 DEF Observation
    <3>. HIDE DEF a, b, f, g, part
    <3>3. x \in Int /\ y \in Int /\ z \in Nat /\ x <= y + 5
      <4>1. x \in 0..100 /\ y \in 0..100
        BY <3>2, ContributionRange
      <4>2. z \in Nat
        BY <3>2, RiskAssumption
      <4>3. x <= y + 5
        BY <2>5 DEF a, b
      <4>. QED BY <4>1, <4>2, <4>3
    <3>. HIDE DEF x, y, z
    <3>4. z * x \in Int /\ z * y \in Int /\ z * x <= z * y + 5 * z
      <4>1. z * x <= z * (y + 5)
        BY <3>3
      <4>2. z * (y + 5) = z * y + 5 * z
        BY <3>3
      <4>. QED BY <3>3, <4>1, <4>2
    <3>. QED BY <3>1, <3>3, <3>4 DEF z
  <2>. HIDE DEF a, b, f, g
  <2>7. /\ n \in Int /\ n = SumFunctionOnSet(f, part) /\ AvailableWeight(A) = d
        /\ IsFiniteSet(part)
    BY <1>1, <2>4, ByIndicator
  <2>8. m \in Int /\ m = SumFunctionOnSet(g, part) /\ AvailableWeight(B) = d
    BY <1>1, <2>4, ByIndicator
  <2>9. /\ BaseScore(before, s) = Round(n, d)
        /\ BaseScore(after, t) = Round(m, d)
    BY <1>3, <2>1, <2>7, <2>8 DEF BaseScore, A, B
  <2>10. d \in Nat \ {0}
    <3>1. AvailableWeight(A) \in Nat /\ AvailableWeight(A) > 0
      BY <1>1, <1>3, WeightsCount
    <3>. QED BY <2>7, <3>1
  <2>. HIDE DEF n, m, d, part
  <2>11. n <= m + 5 * d
    BY <2>6, <2>7, <2>8, SumWithin DEF d
  <2>12. Round(n, d) <= Round(m, d) + 5 + 1 /\ Round(m, d) \in Int
    <3>. DEFINE c == 5
    <3>1. c \in Int /\ n <= m + c * d
      BY <2>11
    <3>. HIDE DEF c
    <3>2. Round(n, d) <= Round(m, d) + c + 1 /\ Round(m, d) \in Int
      BY <2>7, <2>8, <2>10, <3>1, RoundApart, RoundNear
    <3>. QED BY <3>2 DEF c
  <2>. QED BY <2>9, <2>12
<1>. QED BY <1>2, <1>3

-----------------------------------------------------------------------------
(* The inductive invariant.                                                *)

\* What the statement for indicator i, as of a time, has returned: the latest reading of
\* that time, as far as readings were recorded by then.
AsRead(answer, i, asOf, table) ==
  \/ /\ answer = {}
     /\ \A p \in table : p.indicator = i /\ p.at <= asOf => asOf < p.recorded
  \/ \E o \in table :
       /\ answer = {o} /\ o.indicator = i /\ o.at <= asOf
       /\ \A p \in table :
            p.indicator = i /\ p.at <= asOf /\ p.recorded <= asOf => p.at <= o.at

Of(readings, i) == {o \in readings : o.indicator = i}

\* The statements for all but the unread indicators are done, each once.
ReadUpTo(readings, unread, asOf, table) ==
  \A i \in Indicators :
    IF i \in unread THEN Of(readings, i) = {} ELSE AsRead(Of(readings, i), i, asOf, table)

Begun == {"reading", "advised", "flushed", "committed"}
HasScore == {"advised", "flushed", "committed"}
Stored == {"flushed", "committed"}

\* A calculation has read what was in the table when it began, or more.
IsRead(c, table, time) ==
  /\ c.at <= time /\ c.ended <= time
  /\ c.stage \in Begun => ReadUpTo(c.readings, c.unread, c.at, table)
  /\ c.stage \notin Begun => c.readings = {} /\ c.unread = Indicators

\* A score is computed from what was read, and the row from the score.
IsScored(c) ==
  /\ c.stage \in HasScore => /\ c.unread = {}
                             /\ c.base = BaseScore(c.readings, c.at)
                             /\ c.confidence = Confidence(c.readings, c.at)
  /\ c.stage \in Stored => /\ c.final = FinalScore(c.base, c.adjustment)
                           /\ c.trend = TrendOf(c.final, c.previous)

\* A shadow run reads what its assessment's calculation read, and scores that.
IsReviewed(r, c, table) ==
  /\ r.stage \in {"reading", "done"} => c.stage = "committed"
  /\ r.stage = "reading" => ReadUpTo(r.readings, r.unread, c.at, table)
  /\ r.stage \in {"none", "started"} => r.readings = {} /\ r.unread = Indicators
  /\ r.stage = "done" =>
       \E stored \in SUBSET table, adjustment \in -10..10 :
         /\ ReadUpTo(stored, {}, c.at, table)
         /\ r.final = FinalScore(BaseScore(stored, c.at), adjustment)

ReadingsRecorded == IsFiniteSet(observations) /\ \A o \in observations : o.recorded <= now

CalculationsRead == \A k \in Calculations : IsRead(calculation[k], observations, now)
CalculationsScored == \A k \in Calculations : IsScored(calculation[k])
ReviewsRead == \A k \in Calculations : IsReviewed(review[k], calculation[k], observations)

\* The previous score is that of the latest assessment among those that were committed
\* when the calculation began, at least.
HasPrevious(k) ==
  LET c == calculation[k]
  IN  \/ c.previous = NoScore /\ \A j \in Committed : c.at <= calculation[j].ended
      \/ \E m \in Committed \ {k} :
           /\ c.previous = calculation[m].final
           /\ c.stage = "committed" => calculation[m].at <= c.ended
           /\ \A j \in Committed : calculation[j].ended < c.at =>
                                     calculation[j].at <= calculation[m].at

PreviousIsLatest == \A k \in Calculations : Scored(k) => HasPrevious(k)

RiskInv == /\ TypeOK /\ ReadingsRecorded /\ CalculationsRead /\ CalculationsScored
           /\ PreviousIsLatest /\ ReviewsRead

\* What the invariant says of one calculation and its review.
LEMMA OfOne ==
  ASSUME RiskInv, NEW k \in Calculations
  PROVE  /\ calculation[k] \in CalculationType
         /\ IsRead(calculation[k], observations, now)
         /\ IsScored(calculation[k])
         /\ review[k] \in ReviewType
         /\ IsReviewed(review[k], calculation[k], observations)
BY DEF RiskInv, TypeOK, CalculationsRead, CalculationsScored, ReviewsRead

\* Before anything has begun.
LEMMA InitRiskInv == Init => RiskInv
<1>. SUFFICES ASSUME Init PROVE RiskInv
  OBVIOUS
<1>1. IsFiniteSet(observations) /\ \A o \in observations : o.recorded <= now
  BY FS_EmptySet DEF Init
<1>2. TypeOK
  <2>1. Unborn \in CalculationType /\ NoReview \in ReviewType
    BY DEF Unborn, CalculationType, Stages, NoReview, ReviewType, NoScore
  <2>. QED BY <2>1, RiskAssumption DEF Init, TypeOK
<1>3. ASSUME NEW k \in Calculations
      PROVE  /\ IsRead(calculation[k], observations, now)
             /\ IsScored(calculation[k])
             /\ ~Scored(k)
             /\ IsReviewed(review[k], calculation[k], observations)
  BY DEF Init, Unborn, NoReview, IsRead, IsScored, Scored, IsReviewed, Begun, HasScore, Stored
<1>. QED
  BY <1>1, <1>2, <1>3 DEF RiskInv, ReadingsRecorded, CalculationsRead, CalculationsScored,
     PreviousIsLatest, ReviewsRead

\* What each statement returns is the latest reading of its time.
LEMMA ReadOne ==
  ASSUME observations \in SUBSET Observation, NEW asOf \in Nat, NEW i \in Indicators,
         NEW unread \in SUBSET Indicators, i \in unread,
         NEW readings \in SUBSET observations, NEW answer \in Answers(i, asOf),
         ReadUpTo(readings, unread, asOf, observations)
  PROVE  /\ readings \cup answer \in SUBSET observations
         /\ ReadUpTo(readings \cup answer, unread \ {i}, asOf, observations)
<1>. DEFINE candidates == {o \in observations : o.indicator = i /\ o.at <= asOf}
            latest == {o \in candidates : \A p \in candidates : p.at <= o.at}
            times == {o.at : o \in candidates}
<1>1. LatestObservations(i, asOf) = latest
  BY DEF LatestObservations
<1>2. candidates # {} => latest # {}
  <2>1. SUFFICES ASSUME candidates # {} PROVE latest # {}
    OBVIOUS
  <2>2. \A o \in candidates : o.at \in Nat /\ o.at <= asOf
    BY DEF Observation
  <2>3. times # {} /\ times \in SUBSET (0..asOf)
    BY <2>1, <2>2
  <2>4. PICK t \in times : \A x \in times : x <= t
    <3>. HIDE DEF times
    <3>. QED BY <2>3, GreatestOf
  <2>5. PICK o \in candidates : o.at = t
    BY <2>4
  <2>6. \A p \in candidates : p.at <= o.at
    BY <2>4, <2>5
  <2>. QED BY <2>5, <2>6
<1>3. AsRead(answer, i, asOf, observations)
  <2>1. CASE latest = {}
    <3>1. answer = {} /\ candidates = {}
      BY <1>1, <1>2, <2>1 DEF Answers
    <3>. QED BY <3>1 DEF AsRead
  <2>2. CASE latest # {}
    <3>1. PICK o \in latest : answer = {o}
      BY <1>1, <2>2 DEF Answers
    <3>2. /\ o \in observations /\ o.indicator = i /\ o.at <= asOf
          /\ \A p \in candidates : p.at <= o.at
      BY <3>1
    <3>. QED BY <3>1, <3>2 DEF AsRead
  <2>. QED BY <2>1, <2>2
<1>4. answer \in SUBSET observations /\ \A o \in answer : o.indicator = i
  BY <1>3 DEF AsRead
<1>5. /\ Of(readings \cup answer, i) = answer
      /\ \A j \in Indicators \ {i} : Of(readings \cup answer, j) = Of(readings, j)
  <2>1. Of(readings, i) = {}
    BY DEF ReadUpTo
  <2>. QED BY <1>4, <2>1 DEF Of
<1>. QED BY <1>3, <1>4, <1>5 DEF ReadUpTo

\* A reading that is recorded later changes nothing of what was read before.
LEMMA MoreReadings ==
  ASSUME NEW table, NEW o, NEW readings, NEW unread, NEW asOf \in Nat, o.recorded \in Nat,
         asOf < o.recorded, ReadUpTo(readings, unread, asOf, table)
  PROVE  ReadUpTo(readings, unread, asOf, table \cup {o})
<1>. SUFFICES ASSUME NEW i \in Indicators, i \notin unread,
                     AsRead(Of(readings, i), i, asOf, table)
              PROVE  AsRead(Of(readings, i), i, asOf, table \cup {o})
  BY DEF ReadUpTo
<1>1. ~(o.recorded <= asOf)
  OBVIOUS
<1>. QED BY <1>1 DEF AsRead

\* A normalised value is a hundredth.
LEMMA NormalizeRange ==
  ASSUME NEW i \in Indicators, NEW raw \in Int
  PROVE  Normalize(i, raw) \in 0..100
<1>. DEFINE n == 100 * (raw - Lower[i])
            d == Upper[i] - Lower[i]
            q == n \div d
<1>1. n \in Int /\ d \in Nat \ {0}
  BY RiskAssumption
<1>2. Normalize(i, raw) = Clamp(0, 100, q)
  BY DEF Normalize
<1>. HIDE DEF n, d
<1>3. q \in Int
  BY <1>1, Division
<1>. HIDE DEF q
<1>. QED BY <1>2, <1>3 DEF Clamp

\* A new reading is not read by any transaction that is over or has read its indicator.
LEMMA RecordKeeps ==
  ASSUME RiskInv, NEW i \in Indicators, NEW raw \in Raws, NEW confidence \in Confidences,
         RecordObservation(i, raw, confidence)
  PROVE  RiskInv'
<1>1. PICK at \in SuppliedTimes \cup {now'} :
        observations' = observations \cup
          {[indicator |-> i, at |-> at, value |-> Normalize(i, raw),
            confidence |-> confidence, recorded |-> now']}
  BY DEF RecordObservation
<1>. DEFINE o == [indicator |-> i, at |-> at, value |-> Normalize(i, raw),
                  confidence |-> confidence, recorded |-> now']
<1>2. /\ now < MaxTime /\ now' = now + 1 /\ calculation' = calculation /\ review' = review
      /\ observations' = observations \cup {o}
  BY <1>1 DEF RecordObservation
<1>3. /\ now \in Nat /\ now' \in 0..MaxTime /\ now < now' /\ at \in Nat
      /\ observations \in SUBSET Observation
  BY <1>2, RiskAssumption DEF RiskInv, TypeOK
<1>4. o \in Observation /\ o.recorded = now'
  BY <1>3, NormalizeRange, RiskAssumption DEF Observation
<1>. HIDE DEF o
<1>5. TypeOK'
  <2>1. observations' \in SUBSET Observation /\ observations \in SUBSET observations'
    BY <1>2, <1>3, <1>4
  <2>2. \A k \in Calculations : calculation[k] \in CalculationType'
    <3>. SUFFICES ASSUME NEW k \in Calculations PROVE calculation[k] \in CalculationType'
      OBVIOUS
    <3>1. calculation[k] \in CalculationType
      BY OfOne
    <3>. QED BY <2>1, <3>1 DEF CalculationType
  <2>3. \A k \in Calculations : review[k] \in ReviewType'
    <3>. SUFFICES ASSUME NEW k \in Calculations PROVE review[k] \in ReviewType'
      OBVIOUS
    <3>1. review[k] \in ReviewType
      BY OfOne
    <3>. QED BY <2>1, <3>1 DEF ReviewType
  <2>4. /\ calculation \in [Calculations -> CalculationType]
        /\ review \in [Calculations -> ReviewType]
    BY DEF RiskInv, TypeOK
  <2>5. /\ calculation \in [Calculations -> CalculationType']
        /\ review \in [Calculations -> ReviewType']
    BY <2>2, <2>3, <2>4
  <2>. QED BY <1>2, <1>3, <2>1, <2>5 DEF TypeOK
<1>6. ReadingsRecorded'
  <2>1. \A p \in observations : p.recorded <= now /\ p.recorded \in Nat
    BY <1>3 DEF RiskInv, ReadingsRecorded, Observation
  <2>2. IsFiniteSet(observations')
    BY <1>2, FS_AddElement DEF RiskInv, ReadingsRecorded
  <2>3. \A p \in observations' : p.recorded <= now'
    BY <1>2, <1>3, <1>4, <2>1
  <2>. QED BY <2>2, <2>3 DEF ReadingsRecorded
<1>7. ASSUME NEW k \in Calculations
      PROVE  /\ IsRead(calculation[k], observations', now')
             /\ IsReviewed(review[k], calculation[k], observations')
  <2>. DEFINE c == calculation[k]
              r == review[k]
  <2>1. /\ c.at \in Nat /\ c.ended \in Nat /\ c.at <= now /\ c.ended <= now
        /\ IsRead(c, observations, now) /\ IsReviewed(r, c, observations)
    BY OfOne DEF CalculationType, IsRead
  <2>. HIDE DEF c, r
  <2>2. c.at < now' /\ c.at <= now' /\ c.ended <= now'
    BY <1>2, <1>3, <2>1
  <2>3. ASSUME NEW readings, NEW unread, ReadUpTo(readings, unread, c.at, observations)
        PROVE  ReadUpTo(readings, unread, c.at, observations')
    <3>1. o.recorded \in Nat /\ c.at < o.recorded
      BY <1>3, <1>4, <2>2
    <3>. QED BY <1>2, <2>1, <2>3, <3>1, MoreReadings
  <2>4. IsRead(c, observations', now')
    BY <2>1, <2>2, <2>3 DEF IsRead
  <2>5. IsReviewed(r, c, observations')
    <3>1. SUBSET observations \subseteq SUBSET observations'
      BY <1>2
    <3>. QED BY <2>1, <2>3, <3>1 DEF IsReviewed
  <2>. QED BY <2>4, <2>5 DEF c, r
<1>8. CalculationsScored' /\ PreviousIsLatest'
  BY <1>2 DEF RiskInv, CalculationsScored, PreviousIsLatest, HasPrevious, Scored, Committed
<1>. QED BY <1>2, <1>5, <1>6, <1>7, <1>8 DEF RiskInv, CalculationsRead, ReviewsRead

\* A step of one calculation that is not committed, of its own row only.
LEMMA OneCalculation ==
  ASSUME RiskInv, NEW k \in Calculations, NEW c, calculation[k].stage # "committed",
         c \in CalculationType, IsRead(c, observations, now'), IsScored(c),
         calculation' = [calculation EXCEPT ![k] = c],
         now' \in now..MaxTime, observations' = observations
  PROVE  /\ now' \in 0..MaxTime /\ calculation' \in [Calculations -> CalculationType]'
         /\ ReadingsRecorded' /\ CalculationsRead' /\ CalculationsScored'
         /\ \A m \in Calculations : calculation'[m] = IF m = k THEN c ELSE calculation[m]
         /\ review' = review => TypeOK' /\ ReviewsRead'
<1>1. /\ now \in Nat /\ now' \in 0..MaxTime /\ now <= now' /\ now' \in Nat
      /\ observations \in SUBSET Observation
      /\ calculation \in [Calculations -> CalculationType]
      /\ review \in [Calculations -> ReviewType]
  BY RiskAssumption DEF RiskInv, TypeOK
<1>2. /\ CalculationType' = CalculationType /\ ReviewType' = ReviewType
  BY DEF CalculationType, ReviewType
<1>3. /\ calculation' \in [Calculations -> CalculationType]
      /\ \A m \in Calculations : calculation'[m] = IF m = k THEN c ELSE calculation[m]
  BY <1>1
<1>4. ReadingsRecorded'
  BY <1>1 DEF RiskInv, ReadingsRecorded, Observation
<1>5. CalculationsRead'
  <2>1. ASSUME NEW m \in Calculations PROVE IsRead(calculation'[m], observations, now')
    <3>1. CASE m = k
      BY <1>3, <3>1
    <3>2. CASE m # k
      <4>. DEFINE b == calculation[m]
      <4>1. b.at \in Nat /\ b.ended \in Nat /\ IsRead(b, observations, now)
        BY OfOne DEF CalculationType
      <4>. HIDE DEF b
      <4>2. IsRead(b, observations, now')
        BY <1>1, <4>1 DEF IsRead
      <4>. QED BY <1>3, <3>2, <4>2 DEF b
    <3>. QED BY <3>1, <3>2
  <2>. QED BY <2>1 DEF CalculationsRead
<1>6. CalculationsScored'
  <2>1. ASSUME NEW m \in Calculations PROVE IsScored(calculation'[m])
    BY <1>3, OfOne
  <2>. QED BY <2>1 DEF CalculationsScored
<1>7. ASSUME review' = review PROVE TypeOK' /\ ReviewsRead'
  <2>1. ASSUME NEW m \in Calculations PROVE IsReviewed(review[m], calculation'[m], observations)
    <3>1. IsReviewed(review[m], calculation[m], observations)
      BY OfOne
    <3>2. CASE m # k
      BY <1>3, <3>1, <3>2
    <3>3. CASE m = k
      <4>1. review[m].stage \notin {"reading", "done"}
        BY <3>1, <3>3 DEF IsReviewed
      <4>. QED BY <3>1, <4>1 DEF IsReviewed
    <3>. QED BY <3>2, <3>3
  <2>2. TypeOK'
    BY <1>1, <1>2, <1>3, <1>7 DEF TypeOK
  <2>. QED BY <1>7, <2>1, <2>2 DEF ReviewsRead
<1>. QED BY <1>1, <1>2, <1>3, <1>4, <1>5, <1>6, <1>7

\* The same, where no calculation is committed by it.
LEMMA PreviousKept ==
  ASSUME RiskInv, NEW k \in Calculations, NEW c,
         calculation[k].stage # "committed", c.stage # "committed",
         \A m \in Calculations : calculation'[m] = IF m = k THEN c ELSE calculation[m],
         Scored(k)' => HasPrevious(k)'
  PROVE  PreviousIsLatest' /\ Committed' = Committed
<1>1. Committed' = Committed /\ k \notin Committed
  BY DEF Committed
<1>2. \A m \in Committed : m \in Calculations /\ calculation'[m] = calculation[m]
  BY <1>1 DEF Committed
<1>3. ASSUME NEW m \in Calculations, Scored(m)' PROVE HasPrevious(m)'
  <2>1. CASE m = k
    BY <1>3, <2>1
  <2>2. CASE m # k
    <3>1. calculation'[m] = calculation[m] /\ HasPrevious(m)
      BY <1>3, <2>2 DEF RiskInv, PreviousIsLatest, Scored
    <3>. QED BY <1>1, <1>2, <3>1 DEF HasPrevious
  <2>. QED BY <2>1, <2>2
<1>. QED BY <1>1, <1>3 DEF PreviousIsLatest

\* It has read nothing, so far.
LEMMA BeginKeeps ==
  ASSUME RiskInv, NEW k \in Calculations, Begin(k)
  PROVE  RiskInv'
<1>. DEFINE b == calculation[k]
            c == [calculation[k] EXCEPT !.stage = "reading", !.at = now']
<1>1. /\ calculation' = [calculation EXCEPT ![k] = c] /\ b.stage = "unborn"
      /\ now' = now + 1 /\ now < MaxTime /\ now \in Nat
      /\ observations' = observations /\ review' = review
  <2>1. calculation \in [Calculations -> CalculationType] /\ now \in Nat
    BY RiskAssumption DEF RiskInv, TypeOK
  <2>2. calculation' = [calculation EXCEPT ![k] = c]
    BY <2>1 DEF Begin
  <2>. QED BY <2>1, <2>2 DEF Begin
<1>2. b \in CalculationType /\ IsRead(b, observations, now) /\ IsScored(b)
  BY OfOne
<1>3. /\ c \in CalculationType /\ c.stage = "reading" /\ c.at = now' /\ c.ended = b.ended
      /\ c.readings = b.readings /\ c.unread = b.unread
  <2>1. now' \in Nat
    BY <1>1
  <2>. QED BY <1>2, <2>1 DEF CalculationType, Stages
<1>4. now' \in now..MaxTime /\ b.ended \in Nat
  BY <1>1, <1>2, RiskAssumption DEF CalculationType
<1>5. b.readings = {} /\ b.unread = Indicators /\ b.ended <= now
  BY <1>1, <1>2 DEF IsRead, Begun
<1>. HIDE DEF b, c
<1>6. IsRead(c, observations, now')
  <2>1. ReadUpTo(c.readings, c.unread, c.at, observations)
    BY <1>3, <1>5 DEF ReadUpTo, Of
  <2>. QED BY <1>1, <1>3, <1>4, <1>5, <2>1 DEF IsRead, Begun
<1>7. IsScored(c)
  BY <1>3 DEF IsScored, HasScore, Stored
<1>8. b.stage # "committed" /\ c.stage # "committed"
  BY <1>1, <1>3
<1>9. /\ TypeOK' /\ ReadingsRecorded' /\ CalculationsRead' /\ CalculationsScored'
      /\ ReviewsRead'
      /\ \A m \in Calculations : calculation'[m] = IF m = k THEN c ELSE calculation[m]
  BY <1>1, <1>3, <1>4, <1>6, <1>7, <1>8, OneCalculation DEF b
<1>10. PreviousIsLatest'
  <2>1. ~Scored(k)'
    BY <1>3, <1>9 DEF Scored
  <2>. QED BY <1>8, <1>9, <2>1, PreviousKept DEF b
<1>. QED BY <1>9, <1>10 DEF RiskInv

\* It has read one indicator more.
LEMMA ReadObservationKeeps ==
  ASSUME RiskInv, NEW k \in Calculations, NEW i \in Indicators, ReadObservation(k, i)
  PROVE  RiskInv'
<1>. DEFINE b == calculation[k]
<1>1. PICK answer \in Answers(i, b.at) :
        calculation' = [calculation EXCEPT ![k].unread = @ \ {i}, ![k].readings = @ \cup answer]
  BY DEF ReadObservation
<1>. DEFINE c == [calculation[k] EXCEPT !.unread = @ \ {i}, !.readings = @ \cup answer]
<1>2. /\ calculation' = [calculation EXCEPT ![k] = c] /\ b.stage = "reading" /\ i \in b.unread
      /\ now' = now /\ observations' = observations /\ review' = review
  BY <1>1 DEF ReadObservation, RiskInv, TypeOK
<1>3. b \in CalculationType /\ IsRead(b, observations, now) /\ IsScored(b)
  BY OfOne
<1>4. /\ now \in 0..MaxTime /\ observations \in SUBSET Observation
      /\ b.at \in Nat /\ b.unread \in SUBSET Indicators /\ b.readings \in SUBSET observations
      /\ ReadUpTo(b.readings, b.unread, b.at, observations)
  BY <1>2, <1>3 DEF RiskInv, TypeOK, CalculationType, IsRead, Begun
<1>. HIDE DEF b
<1>5. /\ b.readings \cup answer \in SUBSET observations
      /\ ReadUpTo(b.readings \cup answer, b.unread \ {i}, b.at, observations)
  BY <1>2, <1>4, ReadOne
<1>6. /\ c \in CalculationType /\ c.stage = "reading" /\ c.at = b.at /\ c.ended = b.ended
      /\ c.readings = b.readings \cup answer /\ c.unread = b.unread \ {i}
  BY <1>2, <1>3, <1>4, <1>5 DEF CalculationType, b
<1>. HIDE DEF c
<1>7. IsRead(c, observations, now')
  BY <1>2, <1>3, <1>5, <1>6 DEF IsRead, Begun
<1>8. IsScored(c)
  BY <1>6 DEF IsScored, HasScore, Stored
<1>9. b.stage # "committed" /\ c.stage # "committed" /\ now' \in now..MaxTime
  BY <1>2, <1>4, <1>6, RiskAssumption
<1>10. /\ TypeOK' /\ ReadingsRecorded' /\ CalculationsRead' /\ CalculationsScored'
       /\ ReviewsRead'
       /\ \A m \in Calculations : calculation'[m] = IF m = k THEN c ELSE calculation[m]
  BY <1>2, <1>6, <1>7, <1>8, <1>9, OneCalculation DEF b
<1>11. PreviousIsLatest'
  <2>1. ~Scored(k)'
    BY <1>6, <1>10 DEF Scored
  <2>. QED BY <1>9, <1>10, <2>1, PreviousKept DEF b
<1>. QED BY <1>10, <1>11 DEF RiskInv

\* What has been read up is finite, with one reading of an indicator at most.
LEMMA ReadOnce ==
  ASSUME RiskInv, NEW readings \in SUBSET observations, NEW asOf,
         ReadUpTo(readings, {}, asOf, observations)
  PROVE  readings \in SUBSET Observation /\ IsFiniteSet(readings) /\ Single(readings)
<1>1. readings \in SUBSET Observation /\ IsFiniteSet(readings)
  BY FS_Subset DEF RiskInv, TypeOK, ReadingsRecorded
<1>2. ASSUME NEW o \in readings, NEW p \in readings, o.indicator = p.indicator PROVE o = p
  <2>. DEFINE i == o.indicator
  <2>1. i \in Indicators /\ o \in Of(readings, i) /\ p \in Of(readings, i)
    BY <1>1, <1>2 DEF Of, Observation
  <2>. HIDE DEF i
  <2>2. AsRead(Of(readings, i), i, asOf, observations)
    BY <2>1 DEF ReadUpTo
  <2>. QED BY <2>1, <2>2 DEF AsRead
<1>. QED BY <1>1, <1>2 DEF Single

\* The latest assessment, where there is one.
LEMMA LatestIs ==
  ASSUME RiskInv, Committed # {}
  PROVE  \E m \in Committed : /\ LatestScore = calculation[m].final
                              /\ \A j \in Committed : calculation[j].at <= calculation[m].at
<1>. DEFINE times == {calculation[j].at : j \in Committed}
<1>1. now \in Nat /\ \A j \in Committed : calculation[j].at \in Nat /\ calculation[j].at <= now
  BY OfOne DEF Committed, RiskInv, TypeOK, CalculationType, IsRead
<1>2. times \in SUBSET (0..now) /\ times # {}
  BY <1>1
<1>3. PICK t \in times : \A x \in times : x <= t
  <2>. HIDE DEF times
  <2>. QED BY <1>1, <1>2, GreatestOf
<1>4. \E m \in Committed : \A j \in Committed : calculation[j].at <= calculation[m].at
  BY <1>3
<1>. QED BY <1>4 DEF LatestScore

\* What it has read is scored, and the latest assessment is the previous one.
LEMMA ReadPreviousKeeps ==
  ASSUME RiskInv, NEW k \in Calculations, ReadPrevious(k)
  PROVE  RiskInv'
<1>. DEFINE b == calculation[k]
            base == BaseScore(calculation[k].readings, calculation[k].at)
            confidence == Confidence(calculation[k].readings, calculation[k].at)
            c == [calculation[k] EXCEPT !.stage = "advised", !.base = base,
                                        !.confidence = confidence, !.previous = LatestScore]
<1>1. /\ calculation' = [calculation EXCEPT ![k] = c]
      /\ b.stage = "reading" /\ b.unread = {}
      /\ now' = now /\ observations' = observations /\ review' = review
  <2>1. calculation \in [Calculations -> CalculationType]
    BY DEF RiskInv, TypeOK
  <2>2. calculation' = [calculation EXCEPT ![k] = c]
    BY <2>1 DEF ReadPrevious
  <2>. QED BY <2>2 DEF ReadPrevious
<1>2. b \in CalculationType /\ IsRead(b, observations, now) /\ IsScored(b)
  BY OfOne
<1>3. /\ now \in 0..MaxTime /\ b.at \in Nat /\ b.ended \in Nat
      /\ b.readings \in SUBSET observations
      /\ ReadUpTo(b.readings, {}, b.at, observations)
  BY <1>1, <1>2 DEF RiskInv, TypeOK, CalculationType, IsRead, Begun
<1>4. base \in 0..100 /\ confidence \in 0..100
  <2>. HIDE DEF b
  <2>1. b.readings \in SUBSET Observation /\ IsFiniteSet(b.readings) /\ Single(b.readings)
    BY <1>3, ReadOnce
  <2>. QED BY <2>1, ScoreRange, ConfidenceBounded DEF b
<1>5. \/ Committed = {} /\ LatestScore = NoScore
      \/ \E m \in Committed : /\ LatestScore = calculation[m].final
                              /\ \A j \in Committed : calculation[j].at <= calculation[m].at
  BY LatestIs DEF LatestScore
<1>6. LatestScore \in {NoScore} \cup 0..100
  <2>1. \A m \in Committed : calculation[m].final \in 0..100
    BY OfOne DEF Committed, CalculationType
  <2>. QED BY <1>5, <2>1
<1>. HIDE DEF base, confidence
<1>7. /\ c \in CalculationType /\ c.stage = "advised" /\ c.at = b.at /\ c.ended = b.ended
      /\ c.readings = b.readings /\ c.unread = {} /\ c.base = base
      /\ c.confidence = confidence /\ c.previous = LatestScore
  <2>. DEFINE last == LatestScore
  <2>1. last \in {NoScore} \cup 0..100
    BY <1>6
  <2>. HIDE DEF last
  <2>2. c = [b EXCEPT !.stage = "advised", !.base = base, !.confidence = confidence, !.previous = last]
    BY DEF last
  <2>. HIDE DEF b, c
  <2>. QED BY <1>1, <1>2, <1>4, <2>1, <2>2 DEF CalculationType, Stages, last
<1>. HIDE DEF c
<1>8. IsRead(c, observations, now')
  BY <1>1, <1>2, <1>3, <1>7 DEF IsRead, Begun
<1>9. IsScored(c)
  BY <1>7 DEF IsScored, HasScore, Stored, base, confidence
<1>10. b.stage # "committed" /\ c.stage # "committed" /\ now' \in now..MaxTime
  BY <1>1, <1>3, <1>7, RiskAssumption
<1>11. /\ TypeOK' /\ ReadingsRecorded' /\ CalculationsRead' /\ CalculationsScored'
       /\ ReviewsRead'
       /\ \A m \in Calculations : calculation'[m] = IF m = k THEN c ELSE calculation[m]
  BY <1>1, <1>7, <1>8, <1>9, <1>10, OneCalculation DEF b
<1>12. HasPrevious(k)'
  <2>1. Committed' = Committed /\ k \notin Committed
    BY <1>10, <1>11 DEF Committed
  <2>2. \A m \in Committed : calculation'[m] = calculation[m]
    BY <1>11, <2>1 DEF Committed
  <2>3. calculation'[k] = c
    BY <1>11
  <2>. HIDE DEF b
  <2>4. CASE Committed = {} /\ LatestScore = NoScore
    <3>1. c.previous = NoScore
      BY <1>7, <2>4
    <3>. QED BY <2>1, <2>3, <2>4, <3>1 DEF HasPrevious
  <2>5. ASSUME NEW m \in Committed, LatestScore = calculation[m].final,
               \A j \in Committed : calculation[j].at <= calculation[m].at
        PROVE  HasPrevious(k)'
    <3>1. /\ m \in Committed' \ {k} /\ c.previous = calculation'[m].final
          /\ c.stage # "committed"
          /\ \A j \in Committed' : calculation'[j].at <= calculation'[m].at
      BY <1>7, <1>10, <2>1, <2>2, <2>5
    <3>. QED BY <2>3, <3>1 DEF HasPrevious
  <2>. QED BY <1>5, <2>4, <2>5
<1>13. PreviousIsLatest'
  BY <1>10, <1>11, <1>12, PreviousKept DEF b
<1>. QED BY <1>11, <1>13 DEF RiskInv

\* The range of an answer of the model, as it is taken.
LEMMA AdjustmentRange ==
  ASSUME NEW recommended \in Int
  PROVE  Adjustment(recommended) \in -10..10
BY DEF Adjustment

\* And of what is computed from that.
LEMMA FinalRange ==
  ASSUME NEW base \in 0..100, NEW adjustment \in -10..10
  PROVE  FinalScore(base, adjustment) \in 0..100
BY DEF FinalScore, Clamp

\* The row is computed from the score, and its review may start.
LEMMA PersistKeeps ==
  ASSUME RiskInv, NEW k \in Calculations, Persist(k)
  PROVE  RiskInv'
<1>. DEFINE b == calculation[k]
<1>1. PICK recommended \in Recommendations \cup {0} :
        LET adjustment == Adjustment(recommended)
            final == FinalScore(b.base, adjustment)
        IN  /\ calculation' = [calculation EXCEPT
                 ![k].stage = "flushed", ![k].adjustment = adjustment,
                 ![k].final = final, ![k].trend = TrendOf(final, b.previous)]
            /\ review' = [review EXCEPT ![k].stage =
                 IF IsLargeMove(final, b.previous) THEN "started" ELSE @]
  BY DEF Persist
<1>. DEFINE adjustment == Adjustment(recommended)
            final == FinalScore(b.base, adjustment)
            trend == TrendOf(final, b.previous)
            c == [calculation[k] EXCEPT !.stage = "flushed", !.adjustment = adjustment,
                                        !.final = final, !.trend = trend]
<1>2. /\ calculation' = [calculation EXCEPT ![k] = c] /\ b.stage = "advised"
      /\ now' = now /\ observations' = observations
  <2>1. calculation \in [Calculations -> CalculationType]
    BY DEF RiskInv, TypeOK
  <2>2. calculation' = [calculation EXCEPT ![k] = c]
    BY <1>1, <2>1
  <2>. QED BY <2>2 DEF Persist
<1>3. b \in CalculationType /\ IsRead(b, observations, now) /\ IsScored(b)
  BY OfOne
<1>4. /\ now \in 0..MaxTime /\ b.at \in Nat /\ b.ended \in Nat /\ b.base \in 0..100
      /\ b.unread = {}
      /\ b.base = BaseScore(b.readings, b.at) /\ b.confidence = Confidence(b.readings, b.at)
  BY <1>2, <1>3 DEF RiskInv, TypeOK, CalculationType, IsScored, HasScore
<1>. HIDE DEF b
<1>5. adjustment \in -10..10 /\ final \in 0..100 /\ trend \in {"none", "rising", "falling", "stable"}
  <2>1. adjustment \in -10..10
    BY AdjustmentRange, RiskAssumption
  <2>2. trend \in {"none", "rising", "falling", "stable"}
    BY DEF TrendOf
  <2>. HIDE DEF adjustment
  <2>. QED BY <1>4, <2>1, <2>2, FinalRange
<1>6. /\ final = FinalScore(b.base, adjustment) /\ trend = TrendOf(final, b.previous)
      /\ review' = [review EXCEPT ![k].stage =
                      IF IsLargeMove(final, b.previous) THEN "started" ELSE @]
  BY <1>1
<1>7. /\ c \in CalculationType /\ c.stage = "flushed" /\ c.at = b.at /\ c.ended = b.ended
      /\ c.readings = b.readings /\ c.unread = {} /\ c.base = b.base
      /\ c.confidence = b.confidence /\ c.previous = b.previous
      /\ c.adjustment = adjustment /\ c.final = final /\ c.trend = trend
  <2>1. c = [b EXCEPT !.stage = "flushed", !.adjustment = adjustment, !.final = final, !.trend = trend]
    BY DEF b
  <2>. HIDE DEF c, adjustment, final, trend
  <2>. QED BY <1>3, <1>4, <1>5, <2>1 DEF CalculationType, Stages
<1>. HIDE DEF c, adjustment, final, trend
<1>8. IsRead(c, observations, now')
  BY <1>2, <1>3, <1>4, <1>7 DEF IsRead, Begun
<1>9. IsScored(c)
  BY <1>4, <1>6, <1>7 DEF IsScored
<1>10. b.stage # "committed" /\ c.stage # "committed" /\ now' \in now..MaxTime
  BY <1>2, <1>4, <1>7, RiskAssumption
<1>11. /\ now' \in 0..MaxTime /\ calculation' \in [Calculations -> CalculationType]'
       /\ ReadingsRecorded' /\ CalculationsRead' /\ CalculationsScored'
       /\ \A m \in Calculations : calculation'[m] = IF m = k THEN c ELSE calculation[m]
  BY <1>2, <1>7, <1>8, <1>9, <1>10, OneCalculation DEF b
<1>12. PreviousIsLatest'
  <2>1. HasPrevious(k)'
    <3>1. Committed' = Committed /\ k \notin Committed
      BY <1>10, <1>11 DEF Committed, b
    <3>2. \A m \in Committed : calculation'[m] = calculation[m]
      BY <1>11, <3>1 DEF Committed
    <3>3. calculation'[k] = c
      BY <1>11
    <3>4. HasPrevious(k)
      BY <1>2 DEF RiskInv, PreviousIsLatest, Scored, b
    <3>. QED BY <1>7, <1>10, <3>1, <3>2, <3>3, <3>4 DEF HasPrevious, b
  <2>. QED BY <1>10, <1>11, <2>1, PreviousKept DEF b
<1>. DEFINE r == [review[k] EXCEPT !.stage =
                    IF IsLargeMove(final, b.previous) THEN "started" ELSE @]
<1>13. /\ \A m \in Calculations : m # k => review'[m] = review[m]
       /\ review'[k] = r /\ r \in ReviewType /\ review' \in [Calculations -> ReviewType]
       /\ r.stage \in {"none", "started"}
       /\ r.readings = {} /\ r.unread = Indicators
  <2>1. /\ review[k] \in ReviewType /\ review[k].stage \in {"none", "started"}
        /\ review[k].readings = {} /\ review[k].unread = Indicators
    BY <1>10, OfOne DEF IsReviewed, ReviewType, b
  <2>2. r \in ReviewType /\ r.stage \in {"none", "started"}
        /\ r.readings = {} /\ r.unread = Indicators
    BY <2>1 DEF ReviewType
  <2>3. review \in [Calculations -> ReviewType]
    BY DEF RiskInv, TypeOK
  <2>4. review' = [review EXCEPT ![k] = r]
    BY <1>6, <2>3
  <2>. HIDE DEF r
  <2>. QED BY <2>2, <2>3, <2>4
<1>. HIDE DEF r
<1>14. TypeOK'
  <2>1. ReviewType' = ReviewType /\ observations \subseteq Observation
    BY <1>2 DEF ReviewType, RiskInv, TypeOK
  <2>. QED BY <1>2, <1>11, <1>13, <2>1 DEF TypeOK
<1>15. ReviewsRead'
  <2>1. ASSUME NEW m \in Calculations PROVE IsReviewed(review'[m], calculation'[m], observations)
    <3>1. CASE m = k
      BY <1>13, <3>1 DEF IsReviewed
    <3>2. CASE m # k
      BY <1>11, <1>13, <3>2, OfOne
    <3>. QED BY <3>1, <3>2
  <2>. QED BY <1>2, <2>1 DEF ReviewsRead
<1>. QED BY <1>11, <1>12, <1>14, <1>15 DEF RiskInv

\* It ends after all that others have read.
LEMMA CommitKeeps ==
  ASSUME RiskInv, NEW k \in Calculations, Commit(k)
  PROVE  RiskInv'
<1>. DEFINE b == calculation[k]
            c == [calculation[k] EXCEPT !.stage = "committed", !.ended = now]
<1>1. /\ calculation' = [calculation EXCEPT ![k] = c] /\ b.stage = "flushed"
      /\ now' = now /\ observations' = observations /\ review' = review
  <2>1. calculation \in [Calculations -> CalculationType]
    BY DEF RiskInv, TypeOK
  <2>2. calculation' = [calculation EXCEPT ![k] = c]
    BY <2>1 DEF Commit
  <2>. QED BY <2>2 DEF Commit
<1>2. b \in CalculationType /\ IsRead(b, observations, now) /\ IsScored(b)
  BY OfOne
<1>3. now \in 0..MaxTime /\ now \in Nat /\ b.at \in Nat /\ b.at <= now
  BY <1>2, RiskAssumption DEF RiskInv, TypeOK, CalculationType, IsRead
<1>4. /\ c \in CalculationType /\ c.stage = "committed" /\ c.at = b.at /\ c.ended = now
      /\ c.readings = b.readings /\ c.unread = b.unread /\ c.base = b.base
      /\ c.confidence = b.confidence /\ c.previous = b.previous
      /\ c.adjustment = b.adjustment /\ c.final = b.final /\ c.trend = b.trend
  <2>1. c = [b EXCEPT !.stage = "committed", !.ended = now]
    OBVIOUS
  <2>. HIDE DEF b, c
  <2>. QED BY <1>2, <1>3, <2>1 DEF CalculationType, Stages
<1>. HIDE DEF b, c
<1>5. IsRead(c, observations, now')
  BY <1>1, <1>2, <1>3, <1>4 DEF IsRead, Begun
<1>6. IsScored(c)
  BY <1>1, <1>2, <1>4 DEF IsScored, HasScore, Stored
<1>7. b.stage # "committed" /\ now' \in now..MaxTime
  BY <1>1, <1>3, RiskAssumption
<1>8. /\ TypeOK' /\ ReadingsRecorded' /\ CalculationsRead' /\ CalculationsScored'
      /\ ReviewsRead'
      /\ \A m \in Calculations : calculation'[m] = IF m = k THEN c ELSE calculation[m]
  BY <1>1, <1>4, <1>5, <1>6, <1>7, OneCalculation DEF b
<1>9. /\ k \notin Committed /\ Committed' = Committed \cup {k}
      /\ \A m \in Committed : m \in Calculations /\ m # k /\ calculation'[m] = calculation[m]
      /\ calculation'[k] = c
  BY <1>4, <1>7, <1>8 DEF Committed, b
<1>10. \A m \in Calculations : calculation[m].at \in Nat /\ calculation[m].at <= now
  BY OfOne DEF CalculationType, IsRead
<1>11. PreviousIsLatest'
  <2>1. ASSUME NEW m \in Calculations, Scored(m)' PROVE HasPrevious(m)'
    <3>. DEFINE d == calculation[m]
                e == calculation'[m]
    <3>1. /\ e.previous = d.previous /\ e.at = d.at
          /\ m = k => e.stage = "committed" /\ e.ended = now
          /\ m # k => e.stage = d.stage /\ e.ended = d.ended
      BY <1>4, <1>8 DEF b
    <3>2. HasPrevious(m)
      BY <1>1, <1>8, <2>1 DEF RiskInv, PreviousIsLatest, Scored, b
    <3>3. d.at \in Nat /\ d.at <= now
      BY <1>10
    <3>4. CASE d.previous = NoScore /\ \A j \in Committed : d.at <= calculation[j].ended
      <4>1. \A j \in Committed' : e.at <= calculation'[j].ended
        BY <1>4, <1>9, <3>1, <3>3, <3>4
      <4>. HIDE DEF d, e
      <4>2. e.previous = NoScore
        BY <3>1, <3>4
      <4>. QED BY <4>1, <4>2 DEF HasPrevious, e
    <3>5. CASE \E n \in Committed \ {m} :
                 /\ d.previous = calculation[n].final
                 /\ d.stage = "committed" => calculation[n].at <= d.ended
                 /\ \A j \in Committed : calculation[j].ended < d.at =>
                                           calculation[j].at <= calculation[n].at
      <4>1. PICK n \in Committed \ {m} :
                 /\ d.previous = calculation[n].final
                 /\ d.stage = "committed" => calculation[n].at <= d.ended
                 /\ \A j \in Committed : calculation[j].ended < d.at =>
                                           calculation[j].at <= calculation[n].at
        BY <3>5
      <4>2. n \in Committed' \ {m} /\ calculation'[n] = calculation[n]
        BY <1>9
      <4>3. calculation[n].at <= now
        BY <1>9, <1>10
      <4>4. e.previous = calculation'[n].final
        BY <3>1, <4>1, <4>2
      <4>5. e.stage = "committed" => calculation'[n].at <= e.ended
        BY <3>1, <4>1, <4>2, <4>3
      <4>6. \A j \in Committed' : calculation'[j].ended < e.at =>
                                    calculation'[j].at <= calculation'[n].at
        <5>1. ASSUME NEW j \in Committed', calculation'[j].ended < e.at
              PROVE  calculation'[j].at <= calculation'[n].at
          <6>1. j # k
            BY <1>3, <1>4, <1>9, <3>1, <3>3, <5>1
          <6>. QED BY <1>9, <3>1, <4>1, <4>2, <5>1, <6>1
        <5>. QED BY <5>1
      <4>. HIDE DEF d, e
      <4>. QED BY <4>2, <4>4, <4>5, <4>6 DEF HasPrevious, e
    <3>. QED BY <3>2, <3>4, <3>5 DEF HasPrevious
  <2>. QED BY <2>1 DEF PreviousIsLatest
<1>. QED BY <1>8, <1>11 DEF RiskInv

\* Nothing is kept of it.
LEMMA AbortKeeps ==
  ASSUME RiskInv, NEW k \in Calculations, Abort(k)
  PROVE  RiskInv'
<1>. DEFINE b == calculation[k]
            c == [Unborn EXCEPT !.stage = "aborted"]
<1>1. /\ calculation' = [calculation EXCEPT ![k] = c]
      /\ b.stage \in {"reading", "advised", "flushed"}
      /\ now' = now /\ observations' = observations /\ review' = review
  BY DEF Abort
<1>2. now \in 0..MaxTime /\ now \in Nat
  BY RiskAssumption DEF RiskInv, TypeOK
<1>3. /\ c \in CalculationType /\ c.stage = "aborted" /\ c.at = 0 /\ c.ended = 0
      /\ c.readings = {} /\ c.unread = Indicators
  BY DEF CalculationType, Stages, Unborn, NoScore
<1>. HIDE DEF b, c
<1>4. IsRead(c, observations, now') /\ IsScored(c)
  BY <1>1, <1>2, <1>3 DEF IsRead, IsScored, Begun, HasScore, Stored
<1>5. b.stage # "committed" /\ c.stage # "committed" /\ now' \in now..MaxTime
  BY <1>1, <1>2, <1>3, RiskAssumption
<1>6. /\ TypeOK' /\ ReadingsRecorded' /\ CalculationsRead' /\ CalculationsScored'
      /\ ReviewsRead'
      /\ \A m \in Calculations : calculation'[m] = IF m = k THEN c ELSE calculation[m]
  BY <1>1, <1>3, <1>4, <1>5, OneCalculation DEF b
<1>7. PreviousIsLatest'
  <2>1. ~Scored(k)'
    BY <1>3, <1>6 DEF Scored
  <2>. QED BY <1>5, <1>6, <2>1, PreviousKept DEF b
<1>. QED BY <1>6, <1>7 DEF RiskInv

-----------------------------------------------------------------------------
(* The steps of a shadow run.                                              *)

\* A step of one review only.
LEMMA OneReview ==
  ASSUME RiskInv, NEW k \in Calculations, NEW r \in ReviewType,
         IsReviewed(r, calculation[k], observations),
         review' = [review EXCEPT ![k] = r], UNCHANGED <<now, observations, calculation>>
  PROVE  RiskInv'
<1>1. /\ review \in [Calculations -> ReviewType]
      /\ now' = now /\ observations' = observations /\ calculation' = calculation
  BY DEF RiskInv, TypeOK
<1>2. /\ review' \in [Calculations -> ReviewType]
      /\ \A m \in Calculations : review'[m] = IF m = k THEN r ELSE review[m]
  BY <1>1
<1>3. TypeOK'
  BY <1>1, <1>2 DEF RiskInv, TypeOK, CalculationType, ReviewType
<1>4. ReviewsRead'
  <2>1. ASSUME NEW m \in Calculations PROVE IsReviewed(review'[m], calculation[m], observations)
    BY <1>2, OfOne
  <2>. QED BY <1>1, <2>1 DEF ReviewsRead
<1>5. ReadingsRecorded' /\ CalculationsRead' /\ CalculationsScored'
  BY <1>1 DEF RiskInv, ReadingsRecorded, CalculationsRead, CalculationsScored
<1>6. PreviousIsLatest'
  BY <1>1 DEF RiskInv, PreviousIsLatest, HasPrevious, Scored, Committed
<1>. QED BY <1>3, <1>4, <1>5, <1>6 DEF RiskInv

\* A review is asked for, and has found its assessment committed or is over.
LEMMA AskAndLoadKeep ==
  ASSUME RiskInv, NEW k \in Calculations, AskReview(k) \/ LoadPrimary(k)
  PROVE  RiskInv'
<1>. DEFINE b == review[k]
            stage == IF AskReview(k) THEN "started"
                     ELSE IF IsVisible(k) THEN "reading" ELSE "none"
            r == [review[k] EXCEPT !.stage = stage]
<1>1. b \in ReviewType /\ IsReviewed(b, calculation[k], observations)
  BY OfOne
<1>2. /\ review' = [review EXCEPT ![k] = r] /\ UNCHANGED <<now, observations, calculation>>
      /\ b.stage \in {"none", "started"}
  <2>1. review \in [Calculations -> ReviewType]
    BY DEF RiskInv, TypeOK
  <2>2. CASE AskReview(k)
    BY <2>1, <2>2 DEF AskReview
  <2>3. CASE ~AskReview(k) /\ LoadPrimary(k)
    BY <2>1, <2>3 DEF LoadPrimary
  <2>. QED BY <2>2, <2>3
<1>3. b.readings = {} /\ b.unread = Indicators
  BY <1>1, <1>2 DEF IsReviewed
<1>4. /\ stage \in {"none", "started", "reading"}
      /\ stage = "reading" => calculation[k].stage = "committed"
  BY DEF IsVisible
<1>. HIDE DEF b, stage
<1>5. /\ r \in ReviewType /\ r.stage = stage /\ r.readings = {} /\ r.unread = Indicators
  BY <1>1, <1>3, <1>4 DEF ReviewType, b
<1>. HIDE DEF r
<1>6. IsReviewed(r, calculation[k], observations)
  <2>1. ReadUpTo(r.readings, r.unread, calculation[k].at, observations)
    BY <1>5 DEF ReadUpTo, Of
  <2>. QED BY <1>4, <1>5, <2>1 DEF IsReviewed
<1>. QED BY <1>2, <1>5, <1>6, OneReview

\* It has read one indicator more, as of the time of its assessment.
LEMMA ShadowReadKeeps ==
  ASSUME RiskInv, NEW k \in Calculations, NEW i \in Indicators, ShadowRead(k, i)
  PROVE  RiskInv'
<1>. DEFINE b == review[k]
            asOf == calculation[k].at
<1>1. PICK answer \in Answers(i, asOf) :
        review' = [review EXCEPT ![k].unread = @ \ {i}, ![k].readings = @ \cup answer]
  BY DEF ShadowRead, ShadowAsOf
<1>. DEFINE r == [review[k] EXCEPT !.unread = @ \ {i}, !.readings = @ \cup answer]
<1>2. /\ b \in ReviewType /\ IsReviewed(b, calculation[k], observations) /\ asOf \in Nat
      /\ observations \in SUBSET Observation
  BY OfOne DEF CalculationType, RiskInv, TypeOK
<1>3. /\ review' = [review EXCEPT ![k] = r] /\ UNCHANGED <<now, observations, calculation>>
      /\ b.stage = "reading" /\ i \in b.unread
  <2>1. review \in [Calculations -> ReviewType]
    BY DEF RiskInv, TypeOK
  <2>2. review' = [review EXCEPT ![k] = r]
    BY <1>1, <2>1
  <2>. QED BY <2>2 DEF ShadowRead
<1>4. /\ b.unread \in SUBSET Indicators /\ b.readings \in SUBSET observations
      /\ ReadUpTo(b.readings, b.unread, asOf, observations) /\ calculation[k].stage = "committed"
  BY <1>2, <1>3 DEF ReviewType, IsReviewed
<1>. HIDE DEF b, asOf
<1>5. /\ b.readings \cup answer \in SUBSET observations
      /\ ReadUpTo(b.readings \cup answer, b.unread \ {i}, asOf, observations)
  BY <1>2, <1>3, <1>4, ReadOne
<1>6. /\ r \in ReviewType /\ r.stage = "reading"
      /\ r.readings = b.readings \cup answer /\ r.unread = b.unread \ {i}
  BY <1>2, <1>3, <1>4, <1>5 DEF ReviewType, b
<1>. HIDE DEF r
<1>7. IsReviewed(r, calculation[k], observations)
  BY <1>4, <1>5, <1>6 DEF IsReviewed, asOf
<1>. QED BY <1>3, <1>6, <1>7, OneReview

\* It scores what it has read.
LEMMA StoreReviewKeeps ==
  ASSUME RiskInv, NEW k \in Calculations, StoreReview(k)
  PROVE  RiskInv'
<1>. DEFINE b == review[k]
            asOf == calculation[k].at
            base == BaseScore(review[k].readings, calculation[k].at)
<1>1. PICK recommended \in Recommendations \cup {0} :
        review' = [review EXCEPT
          ![k] = [stage |-> "done", unread |-> {}, readings |-> {},
                  final |-> FinalScore(base, Adjustment(recommended)),
                  agreement |-> Distance(calculation[k].final, FinalScore(base, Adjustment(recommended))) <= Tolerance]]
  BY DEF StoreReview, ShadowAsOf
<1>. DEFINE adjustment == Adjustment(recommended)
            final == FinalScore(base, adjustment)
            agreement == Distance(calculation[k].final, final) <= Tolerance
            r == [stage |-> "done", unread |-> {}, readings |-> {}, final |-> final,
                  agreement |-> agreement]
<1>2. /\ review' = [review EXCEPT ![k] = r] /\ UNCHANGED <<now, observations, calculation>>
      /\ b.stage = "reading" /\ b.unread = {}
  BY <1>1 DEF StoreReview
<1>3. /\ b \in ReviewType /\ IsReviewed(b, calculation[k], observations)
  BY OfOne
<1>4. /\ b.readings \in SUBSET observations /\ calculation[k].stage = "committed"
      /\ ReadUpTo(b.readings, {}, asOf, observations)
  BY <1>2, <1>3 DEF ReviewType, IsReviewed
<1>5. base \in 0..100
  <2>1. b.readings \in SUBSET Observation /\ IsFiniteSet(b.readings)
    <3>. HIDE DEF b, asOf
    <3>. QED BY <1>4, ReadOnce
  <2>. QED BY <2>1, ScoreRange
<1>6. adjustment \in -10..10
  BY AdjustmentRange, RiskAssumption
<1>7. final = FinalScore(BaseScore(b.readings, asOf), adjustment)
  OBVIOUS
<1>. HIDE DEF b, asOf, base, adjustment
<1>8. final \in 0..100
  BY <1>5, <1>6, FinalRange
<1>9. agreement \in BOOLEAN
  OBVIOUS
<1>. HIDE DEF final, agreement
<1>10. r \in ReviewType /\ r.stage = "done" /\ r.final = final
  BY <1>8, <1>9 DEF ReviewType
<1>. HIDE DEF r
<1>11. IsReviewed(r, calculation[k], observations)
  BY <1>4, <1>6, <1>7, <1>10 DEF IsReviewed, asOf
<1>. QED BY <1>2, <1>10, <1>11, OneReview

\* Nothing is kept of it.
LEMMA ReviewFailsKeeps ==
  ASSUME RiskInv, NEW k \in Calculations, ReviewFails(k)
  PROVE  RiskInv'
<1>1. NoReview \in ReviewType /\ IsReviewed(NoReview, calculation[k], observations)
  BY DEF NoReview, ReviewType, IsReviewed
<1>. QED BY <1>1, OneReview DEF ReviewFails

\* The invariant holds throughout.
LEMMA RiskInvariant == Spec => []RiskInv
<1>1. RiskInv /\ [Next]_vars => RiskInv'
  <2>. SUFFICES ASSUME RiskInv, [Next]_vars PROVE RiskInv'
    OBVIOUS
  <2>1. CASE UNCHANGED vars
    BY <2>1 DEF vars, RiskInv, TypeOK, ReadingsRecorded, CalculationsRead, CalculationsScored,
       PreviousIsLatest, HasPrevious, Scored, Committed, ReviewsRead, CalculationType, ReviewType
  <2>. QED
    BY <2>1, RecordKeeps, BeginKeeps, ReadObservationKeeps, ReadPreviousKeeps, PersistKeeps,
       CommitKeeps, AbortKeeps, AskAndLoadKeep, ShadowReadKeeps, StoreReviewKeeps,
       ReviewFailsKeeps DEF Next
<1>. QED BY InitRiskInv, <1>1, PTL DEF Spec

-----------------------------------------------------------------------------
(* The properties.                                                         *)

\* Unless a reading came in late, a calculation has read the answers of its time.
LEMMA OnTime ==
  ASSUME RiskInv, NEW asOf \in Nat, NEW i \in Indicators, NEW answer,
         AsRead(answer, i, asOf, observations),
         \A o \in observations : o.at <= asOf => ~(o.recorded > asOf)
  PROVE  answer \in Answers(i, asOf)
<1>. DEFINE latest == LatestObservations(i, asOf)
<1>1. \A o \in observations : o.at <= asOf => o.recorded <= asOf /\ ~(asOf < o.recorded)
  BY DEF RiskInv, TypeOK, Observation
<1>2. CASE answer = {} /\ \A p \in observations : p.indicator = i /\ p.at <= asOf => asOf < p.recorded
  <2>1. latest = {}
    BY <1>1, <1>2 DEF LatestObservations
  <2>. QED BY <1>2, <2>1 DEF Answers
<1>3. ASSUME NEW o \in observations, answer = {o}, o.indicator = i, o.at <= asOf,
             \A p \in observations : p.indicator = i /\ p.at <= asOf /\ p.recorded <= asOf => p.at <= o.at
      PROVE  answer \in Answers(i, asOf)
  <2>1. o \in latest
    BY <1>1, <1>3 DEF LatestObservations
  <2>. HIDE DEF latest
  <2>2. latest # {} /\ answer \in {{p} : p \in latest}
    BY <1>3, <2>1
  <2>. QED BY <2>2 DEF Answers, latest
<1>. QED BY <1>2, <1>3 DEF AsRead

\* The rows have their types.
THEOREM RowsAreTyped == Spec => []TypeOK
<1>1. RiskInv => TypeOK
  BY DEF RiskInv
<1>. QED BY <1>1, RiskInvariant, PTL

\* A base score can be computed again from the stored readings, unless one came in late:
\* the readings it was computed from are the witness (calculate, get_latest_observation).
THEOREM BasesAreReproducible == Spec => []BaseIsReproducible
<1>1. RiskInv => BaseIsReproducible
  <2>. SUFFICES ASSUME RiskInv, NEW k \in Calculations, Scored(k), ~LateReading(k)
                PROVE  \E stored \in SUBSET observations :
                         /\ \A i \in Indicators :
                              {o \in stored : o.indicator = i} \in Answers(i, calculation[k].at)
                         /\ calculation[k].base = BaseScore(stored, calculation[k].at)
    BY DEF BaseIsReproducible
  <2>. DEFINE c == calculation[k]
  <2>1. /\ c.readings \in SUBSET observations /\ c.at \in Nat
        /\ c.base = BaseScore(c.readings, c.at)
        /\ ReadUpTo(c.readings, {}, c.at, observations)
    BY OfOne DEF CalculationType, IsRead, IsScored, Scored, HasScore, Begun
  <2>2. ASSUME NEW i \in Indicators
        PROVE  {o \in c.readings : o.indicator = i} \in Answers(i, c.at)
    <3>1. AsRead(Of(c.readings, i), i, c.at, observations)
      BY <2>1 DEF ReadUpTo
    <3>2. \A o \in observations : o.at <= c.at => ~(o.recorded > c.at)
      BY DEF LateReading
    <3>. HIDE DEF c
    <3>3. Of(c.readings, i) \in Answers(i, c.at)
      BY <2>1, <3>1, <3>2, OnTime
    <3>. QED BY <3>3 DEF Of
  <2>. HIDE DEF c
  <2>3. \E stored \in SUBSET observations :
          /\ \A i \in Indicators : {o \in stored : o.indicator = i} \in Answers(i, c.at)
          /\ c.base = BaseScore(stored, c.at)
    BY <2>1, <2>2
  <2>. QED BY <2>3 DEF c
<1>. QED BY <1>1, RiskInvariant, PTL

\* A score lies between the extremes of what is known, and its confidence does not exceed
\* the share of the weight that is known (aggregate_contributions).
THEOREM ScoresRestOnWhatIsKnown == Spec => []ScoreRestsOnWhatIsKnown
<1>1. RiskInv => ScoreRestsOnWhatIsKnown
  <2>. SUFFICES ASSUME RiskInv, NEW k \in Calculations, Scored(k)
                PROVE  LET c == calculation[k]
                           known == Included(c.readings, c.at)
                       IN /\ known # {} => /\ \E o \in known : Contribution(o) <= c.base
                                           /\ \E o \in known : c.base <= Contribution(o)
                          /\ c.confidence * TotalWeight <= 100 * AvailableWeight(known)
    BY DEF ScoreRestsOnWhatIsKnown
  <2>. DEFINE c == calculation[k]
              readings == c.readings
              asOf == c.at
              known == Included(readings, asOf)
              values == {Contribution(o) : o \in known}
  <2>1. /\ readings \in SUBSET observations /\ asOf \in Nat
        /\ c.base = BaseScore(readings, asOf) /\ c.confidence = Confidence(readings, asOf)
        /\ ReadUpTo(readings, {}, asOf, observations)
    BY OfOne DEF CalculationType, IsRead, IsScored, Scored, HasScore, Begun
  <2>. HIDE DEF readings, asOf
  <2>2. readings \in SUBSET Observation /\ IsFiniteSet(readings) /\ Single(readings)
    BY <2>1, ReadOnce
  <2>3. ASSUME known # {}
        PROVE  /\ \E o \in known : Contribution(o) <= c.base
               /\ \E o \in known : c.base <= Contribution(o)
    <3>1. values # {} /\ values \in SUBSET (0..100) /\ values \in SUBSET Nat
      BY <2>2, <2>3, ContributionRange DEF Included
    <3>. DEFINE n == 100
                low == Min(values)
                high == Max(values)
    <3>2. n \in Nat /\ values \in SUBSET (0..n)
      BY <3>1
    <3>. HIDE DEF values, n
    <3>3. /\ low \in values /\ \A x \in values : low <= x
          /\ high \in values /\ \A x \in values : x <= high
      BY <3>1, <3>2, LeastOf, GreatestOf
    <3>. HIDE DEF low, high
    <3>4. low \in Int /\ high \in Int
      BY <3>1, <3>3
    <3>5. \A o \in known : low <= Contribution(o) /\ Contribution(o) <= high
      BY <3>3 DEF values
    <3>6. low <= c.base /\ c.base <= high
      BY <2>1, <2>2, <2>3, <3>4, <3>5, ScoreBetween
    <3>. QED BY <3>3, <3>6 DEF values
  <2>4. c.confidence * TotalWeight <= 100 * AvailableWeight(known)
    BY <2>1, <2>2, ConfidenceBounded
  <2>. QED BY <2>3, <2>4 DEF readings, asOf
<1>. QED BY <1>1, RiskInvariant, PTL

\* The previous score and the trend of an assessment are those of the history, where
\* transactions do not overlap (calculate, get_latest_assessment).
THEOREM TrendsMatchHistory == Spec => []TrendMatchesHistory
<1>1. RiskInv => TrendMatchesHistory
  <2>. SUFFICES ASSUME RiskInv, NEW j \in Calculations, NEW k \in Calculations, Follows(j, k)
                PROVE  /\ calculation[k].previous = calculation[j].final
                       /\ calculation[k].trend = TrendOf(calculation[k].final, calculation[j].final)
    BY DEF TrendMatchesHistory
  <2>1. /\ calculation[k].stage = "committed" /\ j \in Committed /\ k \in Committed
        /\ calculation[k].trend = TrendOf(calculation[k].final, calculation[k].previous)
        /\ HasPrevious(k)
    BY OfOne DEF Follows, Committed, IsScored, Stored, RiskInv, PreviousIsLatest, Scored
  <2>2. /\ \A m \in Committed : calculation[m].at \in Nat /\ calculation[m].ended \in Nat
        /\ calculation[j].ended < calculation[k].at
        /\ \A m \in Committed \ {j, k} :
             calculation[m].at < calculation[j].at \/ calculation[m].at > calculation[k].ended
    BY OfOne DEF Follows, Committed, CalculationType
  <2>3. ~\A m \in Committed : calculation[k].at <= calculation[m].ended
    BY <2>1, <2>2
  <2>4. PICK m \in Committed \ {k} :
          /\ calculation[k].previous = calculation[m].final
          /\ calculation[m].at <= calculation[k].ended
          /\ calculation[j].at <= calculation[m].at
    BY <2>1, <2>2, <2>3 DEF HasPrevious
  <2>5. m = j
    BY <2>1, <2>2, <2>4
  <2>. QED BY <2>1, <2>4, <2>5
<1>. QED BY <1>1, RiskInvariant, PTL

\* Where no two readings of an indicator are of one time, there is one answer.
LEMMA OneAnswer ==
  ASSUME RiskInv, NEW k \in Calculations, ~TiedReading(k), NEW i \in Indicators,
         NEW a \in Answers(i, calculation[k].at), NEW b \in Answers(i, calculation[k].at)
  PROVE  a = b
<1>. DEFINE latest == LatestObservations(i, calculation[k].at)
<1>1. \A o, p \in latest : o = p
  <2>1. ASSUME NEW o \in latest, NEW p \in latest PROVE o = p
    <3>1. /\ o \in observations /\ p \in observations /\ o.indicator = p.indicator
          /\ o.at <= calculation[k].at /\ o.at <= p.at /\ p.at <= o.at
      BY DEF LatestObservations
    <3>2. o.at \in Nat /\ p.at \in Nat
      BY <3>1 DEF RiskInv, TypeOK, Observation
    <3>3. o.at = p.at
      BY <3>1, <3>2
    <3>. QED BY <3>1, <3>3 DEF TiedReading
  <2>. QED BY <2>1
<1>. QED BY <1>1 DEF Answers

\* Two adjustments of one score leave results that are twenty apart at most.
LEMMA AdjustedApart ==
  ASSUME NEW base \in 0..100, NEW x \in -10..10, NEW y \in -10..10
  PROVE  Distance(FinalScore(base, x), FinalScore(base, y)) <= 20
BY DEF Distance, FinalScore, Clamp

\* The shadow run is asked about the readings of the first, and scores them alike
\* (review_risk_assessment with as_of = assessed_at).
THEOREM ShadowsDifferByAdjustment == Spec => []ShadowDiffersByAdjustment
<1>1. RiskInv => ShadowDiffersByAdjustment
  <2>. SUFFICES ASSUME RiskInv, NEW k \in Calculations, review[k].stage = "done",
                       ~LateReading(k), ~TiedReading(k)
                PROVE  Distance(review[k].final, calculation[k].final) <= 20
    BY DEF ShadowDiffersByAdjustment
  <2>. DEFINE c == calculation[k]
              asOf == c.at
  <2>1. c.stage = "committed"
    BY OfOne DEF IsReviewed
  <2>2. PICK stored \in SUBSET observations, adjustment \in -10..10 :
          /\ ReadUpTo(stored, {}, asOf, observations)
          /\ review[k].final = FinalScore(BaseScore(stored, asOf), adjustment)
    BY OfOne DEF IsReviewed
  <2>3. /\ c.readings \in SUBSET observations /\ asOf \in Nat
        /\ c.base = BaseScore(c.readings, asOf) /\ c.base \in 0..100
        /\ c.adjustment \in -10..10 /\ c.final = FinalScore(c.base, c.adjustment)
        /\ ReadUpTo(c.readings, {}, asOf, observations)
    BY <2>1, OfOne DEF CalculationType, IsRead, IsScored, HasScore, Begun, Stored
  <2>4. \A o \in observations : o.at <= asOf => ~(o.recorded > asOf)
    BY DEF LateReading
  <2>5. ASSUME NEW i \in Indicators PROVE Of(stored, i) = Of(c.readings, i)
    <3>1. /\ AsRead(Of(stored, i), i, asOf, observations)
          /\ AsRead(Of(c.readings, i), i, asOf, observations)
      BY <2>2, <2>3 DEF ReadUpTo
    <3>. HIDE DEF c, asOf
    <3>2. Of(stored, i) \in Answers(i, asOf) /\ Of(c.readings, i) \in Answers(i, asOf)
      BY <2>3, <2>4, <3>1, OnTime
    <3>. QED BY <3>2, OneAnswer DEF c, asOf
  <2>6. stored = c.readings
    <3>1. \A o \in observations : o.indicator \in Indicators
      BY DEF RiskInv, TypeOK, Observation
    <3>. DEFINE readings == c.readings
    <3>2. readings \in SUBSET observations
      BY <2>3
    <3>3. \A i \in Indicators : Of(stored, i) = Of(readings, i)
      BY <2>5
    <3>. HIDE DEF c, readings
    <3>4. ASSUME NEW o \in observations PROVE o \in stored <=> o \in readings
      <4>1. Of(stored, o.indicator) = Of(readings, o.indicator)
        BY <3>1, <3>3
      <4>. QED BY <4>1 DEF Of
    <3>5. stored = readings
      BY <2>2, <3>2, <3>4
    <3>. QED BY <3>5 DEF readings
  <2>7. review[k].final = FinalScore(c.base, adjustment)
    BY <2>2, <2>3, <2>6
  <2>. HIDE DEF c
  <2>8. Distance(review[k].final, c.final) <= 20
    BY <2>3, <2>7, AdjustedApart
  <2>. QED BY <2>8 DEF c
<1>. QED BY <1>1, RiskInvariant, PTL

\* No review is stored of an assessment that is not in the database, though its task
\* starts before the commit: the shadow run reads in a session of its own (_run_review).
THEOREM ReviewsAreOfCommitted == Spec => []OnlyCommittedIsReviewed
<1>1. RiskInv => OnlyCommittedIsReviewed
  BY OfOne DEF OnlyCommittedIsReviewed, IsReviewed
<1>. QED BY <1>1, RiskInvariant, PTL

\* When no indicator changed, the base score hardly did (diff_changed_indicators against
\* aggregate_contributions).
THEOREM SilenceIsSmall == Spec => []SilentChangesAreSmall
<1>1. RiskInv => SilentChangesAreSmall
  <2>. SUFFICES ASSUME RiskInv, NEW j \in Committed, NEW k \in Committed,
                       ChangedIndicators(calculation[j].readings, calculation[k].readings) = {},
                       {o.indicator : o \in Included(calculation[j].readings, calculation[j].at)} =
                         {o.indicator : o \in Included(calculation[k].readings, calculation[k].at)}
                PROVE  Distance(calculation[j].base, calculation[k].base) <= 6
    BY DEF SilentChangesAreSmall
  <2>. DEFINE before == calculation[j].readings
              after == calculation[k].readings
              s == calculation[j].at
              t == calculation[k].at
              x == calculation[j].base
              y == calculation[k].base
  <2>1. /\ before \in SUBSET observations /\ x = BaseScore(before, s) /\ x \in 0..100
        /\ ReadUpTo(before, {}, s, observations)
    BY OfOne DEF Committed, CalculationType, IsRead, IsScored, HasScore, Begun
  <2>2. /\ after \in SUBSET observations /\ y = BaseScore(after, t) /\ y \in 0..100
        /\ ReadUpTo(after, {}, t, observations)
    BY OfOne DEF Committed, CalculationType, IsRead, IsScored, HasScore, Begun
  <2>3. /\ ChangedIndicators(before, after) = {}
        /\ {o.indicator : o \in Included(before, s)} = {o.indicator : o \in Included(after, t)}
    OBVIOUS
  <2>. HIDE DEF before, after, s, t, x, y
  <2>4. /\ before \in SUBSET Observation /\ IsFiniteSet(before) /\ Single(before)
        /\ after \in SUBSET Observation /\ IsFiniteSet(after) /\ Single(after)
    BY <2>1, <2>2, ReadOnce
  <2>5. ChangedIndicators(after, before) = {}
    <3>1. \A o \in before, p \in after : Distance(o.value, p.value) = Distance(p.value, o.value)
      <4>1. \A o \in Observation : o.value \in Int
        BY DEF Observation
      <4>. QED BY <2>4, <4>1, DistanceIs
    <3>. QED BY <2>3, <3>1 DEF ChangedIndicators
  <2>6. x <= y + 6 /\ y <= x + 6
    BY <2>1, <2>2, <2>3, <2>4, <2>5, SilentIsSmall
  <2>7. Distance(x, y) <= 6
    BY <2>1, <2>2, <2>6 DEF Distance
  <2>. QED BY <2>7 DEF x, y
<1>. QED BY <1>1, RiskInvariant, PTL

\* Whatever number the model recommends, the final score is in range and no further
\* than ten points from the base score (_get_llm_adjustment, calculate).
THEOREM AdjustmentIsBounded ==
  ASSUME NEW base \in 0..100, NEW recommended \in Int
  PROVE  /\ FinalScore(base, Adjustment(recommended)) \in 0..100
         /\ Distance(FinalScore(base, Adjustment(recommended)), base) <= 10
<1>1. Adjustment(recommended) \in -10..10
  BY DEF Adjustment
<1> QED BY <1>1 DEF FinalScore, Clamp, Distance
================================================================================
