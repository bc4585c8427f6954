-------------------------------- MODULE DataLemmas ---------------------------------
(***************************************************************************)
(* What Min, Max and sums of the community modules, which they define by   *)
(* CHOOSE, return of finite sets of numbers, and what becomes of a         *)
(* sequence of rows when one is written.  The proofs about several         *)
(* components rest on it.  Where one would use induction, there is a least *)
(* number or a smallest set for which a statement fails.                   *)
(***************************************************************************)
EXTENDS Naturals, Sequences, FiniteSetsExt, FiniteSetTheorems, WellFoundedInduction, TLAPS

-----------------------------------------------------------------------------
(* Least and greatest numbers.                                             *)

\* Intervals are well founded under inclusion, and so are the numbers.
LEMMA LeastOf ==
  ASSUME NEW S \in SUBSET Nat, S # {}
  PROVE  Min(S) \in S /\ \A y \in S : Min(S) <= y
<1>. DEFINE Upto == {0..x : x \in S}
<1>1. Upto \in SUBSET FiniteSubsetsOf(Nat) /\ Upto # {}
  <2>1. \A x \in S : 0..x \in SUBSET Nat /\ IsFiniteSet(0..x)
    BY FS_Interval
  <2>. QED BY <2>1 DEF FiniteSubsetsOf
<1>2. \E X \in Upto : \A Y \in Upto : ~(<<Y, X>> \in StrictSubsetOrdering(Nat))
  <2>. HIDE DEF Upto
  <2>. QED BY <1>1, FS_StrictSubsetOrderingWellFounded, WFMin
<1>3. PICK x \in S : \A y \in S : ~(<<0..y, 0..x>> \in StrictSubsetOrdering(Nat))
  BY <1>2
<1>4. ASSUME NEW y \in S PROVE x <= y
  <2>1. SUFFICES ASSUME y < x PROVE FALSE
    OBVIOUS
  <2>2. 0..y \in SUBSET Nat /\ 0..x \in SUBSET Nat
    OBVIOUS
  <2>3. 0..y \subseteq 0..x /\ x \in 0..x /\ x \notin 0..y
    BY <2>1
  <2>. QED BY <1>3, <2>2, <2>3 DEF StrictSubsetOrdering
<1>. QED BY <1>4 DEF Min

LEMMA GreatestOf ==
  ASSUME NEW n \in Nat, NEW S \in SUBSET (0..n), S # {}
  PROVE  Max(S) \in S /\ \A x \in S : x <= Max(S)
<1>. DEFINE U == {m \in Nat : \A x \in S : x <= m}
<1>1. U # {} /\ U \in SUBSET Nat
  <2>1. n \in U
    OBVIOUS
  <2>. QED BY <2>1
<1>2. PICK m \in U : \A k \in U : m <= k
  BY <1>1, LeastOf
<1>3. m \in S
  <2>1. SUFFICES ASSUME m \notin S PROVE FALSE
    OBVIOUS
  <2>2. PICK x \in S : TRUE
    OBVIOUS
  <2>3. \A y \in S : y <= m - 1
    BY <2>1
  <2>4. m - 1 \in U
    BY <2>2, <2>3
  <2>. QED BY <1>2, <2>4
<1>4. \E x \in S : \A y \in S : x >= y
  BY <1>3
<1>. QED BY <1>4 DEF Max

-----------------------------------------------------------------------------
(* Sequences of rows.                                                      *)

\* What has the domain of a sequence of rows and rows at each place is one, too.
LEMMA RowsOf ==
  ASSUME NEW R, NEW s \in Seq(R), NEW t, t = [i \in DOMAIN s |-> t[i]],
         \A i \in DOMAIN s : t[i] \in R
  PROVE  t \in Seq(R) /\ DOMAIN t = DOMAIN s
<1>1. DOMAIN s = 1..Len(s) /\ Len(s) \in Nat
  OBVIOUS
<1>2. t \in [1..Len(s) -> R]
  BY <1>1
<1>. QED BY <1>1, <1>2

\* One row is replaced.
LEMMA RowReplaced ==
  ASSUME NEW R, NEW s \in Seq(R), NEW i, NEW v, i \in DOMAIN s => v \in R
  PROVE  /\ [s EXCEPT ![i] = v] \in Seq(R)
         /\ DOMAIN [s EXCEPT ![i] = v] = DOMAIN s
         /\ \A j \in DOMAIN s : [s EXCEPT ![i] = v][j] = IF j = i THEN v ELSE s[j]
<1>. DEFINE t == [s EXCEPT ![i] = v]
<1>1. t = [j \in DOMAIN s |-> IF j = i THEN v ELSE s[j]]
  OBVIOUS
<1>2. \A j \in DOMAIN s : t[j] \in R
  BY <1>1
<1>3. t \in Seq(R) /\ DOMAIN t = DOMAIN s
  <2>1. t = [j \in DOMAIN s |-> t[j]]
    BY <1>1
  <2>. HIDE DEF t
  <2>. QED BY <1>2, <2>1, RowsOf
<1>. QED BY <1>1, <1>3

\* One row is added.
LEMMA RowAdded ==
  ASSUME NEW R, NEW s \in Seq(R), NEW v \in R
  PROVE  /\ Append(s, v) \in Seq(R)
         /\ DOMAIN Append(s, v) = DOMAIN s \cup {Len(s) + 1}
         /\ Len(s) + 1 \notin DOMAIN s
         /\ Append(s, v)[Len(s) + 1] = v
         /\ \A j \in DOMAIN s : Append(s, v)[j] = s[j]
OBVIOUS

-----------------------------------------------------------------------------
(* Sums.                                                                   *)

\* Of finite sets some are smallest.
LEMMA SmallestOf ==
  ASSUME NEW F, F # {}, \A S \in F : IsFiniteSet(S)
  PROVE  \E S \in F : \A T \in F : T \subseteq S => T = S
<1>. DEFINE U == UNION F
<1>1. F \in SUBSET FiniteSubsetsOf(U)
  BY DEF FiniteSubsetsOf
<1>2. \E S \in F : \A T \in F : ~(<<T, S>> \in StrictSubsetOrdering(U))
  BY <1>1, FS_StrictSubsetOrderingWellFounded, WFMin
<1>3. \A S \in F : S \in SUBSET U
  OBVIOUS
<1>. HIDE DEF U
<1>. QED BY <1>2, <1>3 DEF StrictSubsetOrdering

\* SumFunctionOnSet takes one index after the other, which makes it a function on the
\* subsets of the indices.
First(s) == CHOOSE x \in s : TRUE
Iterates(f, S, g) ==
  g = [s \in S |-> IF s = {} THEN 0 ELSE f[First(s)] + g[s \ {First(s)}]]

\* What the definitions of the community modules come to.
LEMMA SumIterates ==
  ASSUME NEW f, NEW S
  PROVE  SumFunctionOnSet(f, S) = (CHOOSE g : Iterates(f, SUBSET S, g))[S]
BY Zenon DEF SumFunctionOnSet, FoldFunctionOnSet, MapThenFoldSet, First, Iterates

\* There is such a function for a finite set: else there would be a least number of
\* indices for which there is none.
LEMMA IteratesExist ==
  ASSUME NEW f, NEW S, IsFiniteSet(S)
  PROVE  \E g : Iterates(f, SUBSET S, g)
<1>. DEFINE Upto(n) == {s \in SUBSET S : Cardinality(s) <= n}
            Fails == {n \in Nat : ~\E g : Iterates(f, Upto(n), g)}
<1>1. \A s \in SUBSET S : IsFiniteSet(s) /\ Cardinality(s) \in Nat /\ Cardinality(s) <= Cardinality(S)
  BY FS_Subset, FS_CardinalityType
<1>2. Fails = {}
  <2>1. SUFFICES ASSUME Fails # {} PROVE FALSE
    OBVIOUS
  <2>2. PICK n \in Fails : \A m \in Fails : n <= m
    BY <2>1, LeastOf
  <2>3. CASE n = 0
    <3>. DEFINE g == [s \in Upto(0) |-> 0]
    <3>1. Upto(0) = {{}}
      BY <1>1, FS_EmptySet
    <3>2. Iterates(f, Upto(0), g)
      BY <3>1 DEF Iterates
    <3>. QED BY <2>2, <2>3, <3>2
  <2>4. CASE n # 0
    <3>1. n - 1 \in Nat /\ n - 1 \notin Fails
      <4>1. n \in Nat
        OBVIOUS
      <4>. HIDE DEF Fails
      <4>. QED BY <2>2, <2>4, <4>1
    <3>2. PICK h : Iterates(f, Upto(n - 1), h)
      BY <3>1
    <3>. DEFINE g == [s \in Upto(n) |-> IF s = {} THEN 0
                                        ELSE f[First(s)] + h[s \ {First(s)}]]
    <3>3. ASSUME NEW s \in Upto(n), s # {}
          PROVE  First(s) \in s /\ s \ {First(s)} \in Upto(n - 1)
      <4>1. First(s) \in s
        BY <3>3 DEF First
      <4>2. Cardinality(s \ {First(s)}) = Cardinality(s) - 1
        BY <1>1, <4>1, FS_RemoveElement
      <4>3. Cardinality(s) \in Nat /\ Cardinality(s) <= n /\ n \in Nat
        BY <1>1, <3>1
      <4>. QED BY <4>1, <4>2, <4>3
    <3>4. \A s \in Upto(n - 1) : h[s] = IF s = {} THEN 0 ELSE f[First(s)] + h[s \ {First(s)}]
      BY <3>2 DEF Iterates
    <3>5. \A s \in Upto(n - 1) : s \in Upto(n)
      BY <1>1, <3>1
    <3>6. \A s \in Upto(n - 1) : g[s] = h[s]
      BY <3>4, <3>5
    <3>. HIDE DEF Upto
    <3>7. g = [s \in Upto(n) |-> IF s = {} THEN 0 ELSE f[First(s)] + g[s \ {First(s)}]]
      BY <3>3, <3>6
    <3>8. Iterates(f, Upto(n), g)
      BY <3>7 DEF Iterates
    <3>. HIDE DEF g
    <3>. QED BY <2>2, <3>8
  <2>. QED BY <2>3, <2>4
<1>3. Cardinality(S) \in Nat /\ Upto(Cardinality(S)) = SUBSET S
  BY <1>1, FS_CardinalityType
<1>4. \A n \in Nat : \E g : Iterates(f, Upto(n), g)
  BY <1>2
<1>. HIDE DEF Upto
<1>. QED BY <1>3, <1>4

\* Two such functions, on the subsets of a set and of one of them, agree.
LEMMA IteratesAgree ==
  ASSUME NEW f, NEW S, IsFiniteSet(S), NEW T \in SUBSET S,
         NEW g, NEW h, Iterates(f, SUBSET S, g), Iterates(f, SUBSET T, h)
  PROVE  g[T] = h[T]
<1>. DEFINE Differ == {s \in SUBSET T : g[s] # h[s]}
<1>1. SUFFICES ASSUME Differ # {} PROVE FALSE
  OBVIOUS
<1>2. PICK s \in Differ : \A t \in Differ : t \subseteq s => t = s
  <2>1. \A s \in Differ : IsFiniteSet(s)
    BY FS_Subset
  <2>. HIDE DEF Differ
  <2>. QED BY <1>1, <2>1, SmallestOf
<1>3. \A t \in SUBSET T : t \subseteq s /\ t # s => g[t] = h[t]
  BY <1>2
<1>4. /\ g[s] = IF s = {} THEN 0 ELSE f[First(s)] + g[s \ {First(s)}]
      /\ h[s] = IF s = {} THEN 0 ELSE f[First(s)] + h[s \ {First(s)}]
  BY DEF Iterates
<1>5. CASE s = {}
  BY <1>4, <1>5
<1>6. CASE s # {}
  <2>1. First(s) \in s
    BY <1>6 DEF First
  <2>2. s \ {First(s)} \notin Differ
    BY <1>3, <2>1
  <2>. QED BY <1>4, <1>6, <2>1, <2>2
<1>. QED BY <1>5, <1>6

\* A sum takes one of the indices and goes on with the others.
LEMMA SumUnfolds ==
  ASSUME NEW f, NEW S, IsFiniteSet(S)
  PROVE  /\ S = {} => SumFunctionOnSet(f, S) = 0
         /\ S # {} => \E x \in S :
              SumFunctionOnSet(f, S) = f[x] + SumFunctionOnSet(f, S \ {x})
<1>. DEFINE It(T) == CHOOSE g : Iterates(f, SUBSET T, g)
            x == First(S)
            R == S \ {x}
<1>1. \A T \in SUBSET S : Iterates(f, SUBSET T, It(T))
  BY IteratesExist, FS_Subset
<1>. HIDE DEF It
<1>2. It(S)[S] = IF S = {} THEN 0 ELSE f[x] + It(S)[R]
  BY <1>1 DEF Iterates
<1>3. It(S)[R] = It(R)[R]
  <2>1. R \in SUBSET S /\ Iterates(f, SUBSET S, It(S)) /\ Iterates(f, SUBSET R, It(R))
    BY <1>1
  <2>. DEFINE g == It(S)
              h == It(R)
  <2>2. Iterates(f, SUBSET S, g) /\ Iterates(f, SUBSET R, h) /\ R \in SUBSET S
    BY <2>1
  <2>3. IsFiniteSet(S)
    OBVIOUS
  <2>. HIDE DEF g, h, R
  <2>4. g[R] = h[R]
    BY <2>2, <2>3, IteratesAgree
  <2>. QED BY <2>4 DEF g, h
<1>4. SumFunctionOnSet(f, S) = It(S)[S] /\ SumFunctionOnSet(f, R) = It(R)[R]
  BY SumIterates DEF It
<1>5. S # {} => x \in S
  BY DEF First
<1>. QED BY <1>2, <1>3, <1>4, <1>5

\* Which one makes no difference.
LEMMA SumOf ==
  ASSUME NEW f, NEW S, IsFiniteSet(S), \A x \in S : f[x] \in Int
  PROVE  /\ SumFunctionOnSet(f, S) \in Int
         /\ \A x \in S : SumFunctionOnSet(f, S) = f[x] + SumFunctionOnSet(f, S \ {x})
<1>. DEFINE Sum(s) == SumFunctionOnSet(f, s)
            Right(s) == Sum(s) \in Int /\ \A x \in s : Sum(s) = f[x] + Sum(s \ {x})
            Wrong == {s \in SUBSET S : ~Right(s)}
<1>1. SUFFICES ASSUME Wrong # {} PROVE FALSE
  OBVIOUS
<1>2. \A s \in SUBSET S : IsFiniteSet(s)
  BY FS_Subset
<1>3. PICK s \in Wrong : \A t \in Wrong : t \subseteq s => t = s
  <2>1. \A s \in Wrong : IsFiniteSet(s)
    BY <1>2
  <2>. HIDE DEF Wrong
  <2>. QED BY <1>1, <2>1, SmallestOf
<1>4. \A x \in s : Right(s \ {x})
  BY <1>3
<1>5. s # {}
  <2>1. Right({})
    BY SumUnfolds, FS_EmptySet
  <2>. QED BY <2>1
<1>. HIDE DEF Sum
<1>6. PICK c \in s : Sum(s) = f[c] + Sum(s \ {c})
  BY <1>2, <1>5, SumUnfolds DEF Sum
<1>7. Sum(s) \in Int
  BY <1>4, <1>6
<1>8. ASSUME NEW x \in s, x # c PROVE Sum(s) = f[x] + Sum(s \ {x})
  <2>1. Sum(s \ {c}) = f[x] + Sum((s \ {c}) \ {x})
    BY <1>4, <1>8
  <2>2. Sum(s \ {x}) = f[c] + Sum((s \ {x}) \ {c})
    BY <1>4, <1>8
  <2>3. (s \ {c}) \ {x} = (s \ {x}) \ {c}
    OBVIOUS
  <2>4. Right((s \ {x}) \ {c})
    <3>1. (s \ {x}) \ {c} \notin Wrong
      BY <1>3
    <3>. QED BY <3>1
  <2>. DEFINE rest == Sum((s \ {x}) \ {c})
  <2>5. rest \in Int /\ Sum(s \ {c}) = f[x] + rest /\ Sum(s \ {x}) = f[c] + rest
    BY <2>1, <2>2, <2>3, <2>4
  <2>6. f[x] \in Int /\ f[c] \in Int
    OBVIOUS
  <2>. HIDE DEF rest
  <2>. QED BY <1>6, <2>5, <2>6
<1>. QED BY <1>6, <1>7, <1>8

\* If no summand exceeds another by more than c times a weight, neither do the sums.
LEMMA SumWithin ==
  ASSUME NEW S, IsFiniteSet(S), NEW f, NEW g, NEW w, NEW c \in Int,
         \A x \in S : f[x] \in Int /\ g[x] \in Int /\ w[x] \in Int /\ f[x] <= g[x] + c * w[x]
  PROVE  SumFunctionOnSet(f, S) <= SumFunctionOnSet(g, S) + c * SumFunctionOnSet(w, S)
<1>. DEFINE F(s) == SumFunctionOnSet(f, s)
            G(s) == SumFunctionOnSet(g, s)
            W(s) == SumFunctionOnSet(w, s)
            Wrong == {s \in SUBSET S : ~(F(s) <= G(s) + c * W(s))}
<1>1. SUFFICES ASSUME Wrong # {} PROVE FALSE
  OBVIOUS
<1>2. \A s \in SUBSET S :
        /\ IsFiniteSet(s) /\ F(s) \in Int /\ G(s) \in Int /\ W(s) \in Int
        /\ \A x \in s : /\ F(s) = f[x] + F(s \ {x}) /\ G(s) = g[x] + G(s \ {x})
                        /\ W(s) = w[x] + W(s \ {x})
  BY FS_Subset, SumOf
<1>3. PICK s \in Wrong : \A t \in Wrong : t \subseteq s => t = s
  <2>1. \A s \in Wrong : IsFiniteSet(s)
    BY <1>2
  <2>. HIDE DEF Wrong
  <2>. QED BY <1>1, <2>1, SmallestOf
<1>4. s # {}
  <2>1. F({}) = 0 /\ G({}) = 0 /\ W({}) = 0
    BY SumUnfolds, FS_EmptySet
  <2>. HIDE DEF F, G, W
  <2>2. F({}) <= G({}) + c * W({})
    BY <2>1
  <2>. QED BY <2>2
<1>. HIDE DEF F, G, W
<1>5. PICK x \in s : TRUE
  BY <1>4
<1>. DEFINE r == s \ {x}
<1>6. F(r) <= G(r) + c * W(r)
  BY <1>3, <1>5
<1>7. /\ F(s) = f[x] + F(r) /\ G(s) = g[x] + G(r) /\ W(s) = w[x] + W(r)
      /\ F(r) \in Int /\ G(r) \in Int /\ W(r) \in Int
  BY <1>2, <1>5
<1>. HIDE DEF r
<1>8. c * W(s) = c * w[x] + c * W(r)
  BY <1>7
<1>. DEFINE k == c * w[x]
            m == c * W(r)
            n == c * W(s)
<1>9. k \in Int /\ m \in Int /\ n = k + m /\ f[x] <= g[x] + k /\ F(r) <= G(r) + m
  BY <1>6, <1>7, <1>8
<1>10. ~(F(s) <= G(s) + n)
  BY <1>3
<1>. HIDE DEF k, m, n
<1>. QED BY <1>7, <1>9, <1>10

\* A sum of multiples between low and high times the weights is between those multiples
\* of the sum of the weights.
LEMMA SumBetween ==
  ASSUME NEW S, IsFiniteSet(S), NEW f, NEW w, NEW low \in Int, NEW high \in Int,
         \A x \in S : f[x] \in Int /\ w[x] \in Int /\ low * w[x] <= f[x] /\ f[x] <= high * w[x]
  PROVE  /\ low * SumFunctionOnSet(w, S) <= SumFunctionOnSet(f, S)
         /\ SumFunctionOnSet(f, S) <= high * SumFunctionOnSet(w, S)
<1>. DEFINE zero == [x \in S |-> 0]
            F == SumFunctionOnSet(f, S)
            W == SumFunctionOnSet(w, S)
            Z == SumFunctionOnSet(zero, S)
<1>1. \A x \in S : zero[x] = 0
  OBVIOUS
<1>2. F \in Int /\ W \in Int /\ Z \in Int
  BY <1>1, SumOf
<1>3. \A x \in S : /\ zero[x] <= zero[x] + 1 * zero[x] /\ zero[x] <= zero[x] + (-1) * zero[x]
                   /\ f[x] <= zero[x] + high * w[x] /\ zero[x] <= f[x] + (-low) * w[x]
  <2>. SUFFICES ASSUME NEW x \in S PROVE f[x] <= 0 + high * w[x] /\ 0 <= f[x] + (-low) * w[x]
    BY <1>1
  <2>1. (-low) * w[x] = -(low * w[x]) /\ low * w[x] \in Int /\ high * w[x] \in Int
    OBVIOUS
  <2>. QED BY <2>1
<1>. HIDE DEF zero
<1>4. Z <= Z + 1 * Z /\ Z <= Z + (-1) * Z
  BY <1>1, <1>3, SumWithin
<1>5. F <= Z + high * W
  BY <1>1, <1>3, SumWithin
<1>6. Z <= F + (-low) * W
  <2>1. -low \in Int
    OBVIOUS
  <2>. DEFINE c == -low
  <2>2. \A x \in S : zero[x] \in Int /\ f[x] \in Int /\ w[x] \in Int /\ zero[x] <= f[x] + c * w[x]
    BY <1>1, <1>3
  <2>. HIDE DEF c
  <2>3. Z <= F + c * W
    BY <2>1, <2>2, SumWithin DEF c
  <2>. QED BY <2>3 DEF c
<1>. HIDE DEF F, W, Z
<1>7. Z = 0
  BY <1>2, <1>4
<1>8. (-low) * W = -(low * W) /\ low * W \in Int /\ high * W \in Int
  BY <1>2
<1>9. F <= high * W /\ low * W <= F
  BY <1>2, <1>5, <1>6, <1>7, <1>8
<1>. QED BY <1>9 DEF F, W

\* A sum over a part is no greater, if no summand is negative.
LEMMA SumOfPart ==
  ASSUME NEW U, IsFiniteSet(U), NEW T \in SUBSET U, NEW f, \A x \in U : f[x] \in Nat
  PROVE  SumFunctionOnSet(f, T) <= SumFunctionOnSet(f, U)
<1>. DEFINE F(s) == SumFunctionOnSet(f, s)
            Wrong == {s \in SUBSET U : T \subseteq s /\ ~(F(T) <= F(s))}
<1>1. SUFFICES ASSUME Wrong # {} PROVE FALSE
  OBVIOUS
<1>2. \A s \in SUBSET U : /\ IsFiniteSet(s) /\ F(s) \in Int
                          /\ \A x \in s : F(s) = f[x] + F(s \ {x})
  BY FS_Subset, SumOf
<1>. HIDE DEF F
<1>3. PICK s \in Wrong : \A t \in Wrong : t \subseteq s => t = s
  <2>1. \A s \in Wrong : IsFiniteSet(s)
    BY <1>2
  <2>. HIDE DEF Wrong
  <2>. QED BY <1>1, <2>1, SmallestOf
<1>4. s # T
  BY <1>2
<1>5. PICK x \in s \ T : TRUE
  BY <1>4
<1>6. F(T) <= F(s \ {x})
  BY <1>3, <1>5
<1>7. F(s) = f[x] + F(s \ {x}) /\ F(s \ {x}) \in Int /\ F(T) \in Int /\ f[x] \in Nat
  BY <1>2, <1>5
<1>. QED BY <1>3, <1>6, <1>7

\* A sum may as well run over what its indices stand for, each of which one stands for.
LEMMA SumReindexed ==
  ASSUME NEW S, IsFiniteSet(S), NEW f, NEW h, NEW g,
         \A x \in S : f[x] \in Int /\ f[x] = g[h[x]],
         \A x, y \in S : h[x] = h[y] => x = y
  PROVE  SumFunctionOnSet(f, S) = SumFunctionOnSet(g, {h[x] : x \in S})
<1>. DEFINE F(s) == SumFunctionOnSet(f, s)
            G(t) == SumFunctionOnSet(g, t)
            Image(s) == {h[x] : x \in s}
            Wrong == {s \in SUBSET S : F(s) # G(Image(s))}
<1>1. SUFFICES ASSUME Wrong # {} PROVE FALSE
  OBVIOUS
<1>2. \A s \in SUBSET S : IsFiniteSet(s) /\ \A x \in s : F(s) = f[x] + F(s \ {x})
  BY FS_Subset, SumOf
<1>3. ASSUME NEW s \in SUBSET S, NEW x \in s
      PROVE  G(Image(s)) = f[x] + G(Image(s) \ {h[x]})
  <2>1. IsFiniteSet(Image(s))
    <3>. DEFINE e == [y \in s |-> h[y]]
    <3>1. e \in Surjection(s, Image(s))
      BY DEF Surjection
    <3>. QED BY <1>2, <3>1, FS_Surjection
  <2>2. \A y \in Image(s) : g[y] \in Int
    OBVIOUS
  <2>3. h[x] \in Image(s) /\ g[h[x]] = f[x]
    OBVIOUS
  <2>. HIDE DEF Image
  <2>. QED BY <2>1, <2>2, <2>3, SumOf
<1>4. F({}) = 0 /\ G(Image({})) = 0
  <2>1. Image({}) = {}
    OBVIOUS
  <2>. HIDE DEF Image
  <2>. QED BY <2>1, SumUnfolds, FS_EmptySet
<1>5. \A s \in SUBSET S : \A x \in s : Image(s) \ {h[x]} = Image(s \ {x})
  OBVIOUS
<1>. HIDE DEF F, G, Image
<1>6. PICK s \in Wrong : \A t \in Wrong : t \subseteq s => t = s
  <2>1. \A s \in Wrong : IsFiniteSet(s)
    BY <1>2
  <2>. HIDE DEF Wrong
  <2>. QED BY <1>1, <2>1, SmallestOf
<1>7. PICK x \in s : TRUE
  BY <1>4
<1>8. F(s \ {x}) = G(Image(s \ {x}))
  BY <1>6, <1>7
<1>. QED BY <1>2, <1>3, <1>5, <1>6, <1>7, <1>8
====================================================================================
