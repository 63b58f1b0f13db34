----------------------------- MODULE Induction -----------------------------
(***************************************************************************)
(* Induction over data, stated for sets instead of predicates: what is to  *)
(* be shown of every member is that a set has all of them.  Both forms     *)
(* rest on well-founded orderings having minimal elements.  With them,     *)
(* what the library's sum over a finite set is.                            *)
(***************************************************************************)
EXTENDS Integers, Functions, FiniteSetTheorems, WellFoundedInduction, TLAPS

\* A set of naturals that is not empty has a least member.
LEMMA LeastOf ==
    ASSUME NEW S, S \subseteq Nat, S # {}
    PROVE  \E m \in S : \A k \in S : m <= k
<1>1. IsWellFoundedOn(OpToRel(<, Nat), Nat)
  BY NatLessThanWellFounded
<1>2. PICK m \in S : \A k \in S : <<k, m>> \notin OpToRel(<, Nat)
  BY <1>1, WFMin
<1>3. \A k \in S : ~(k < m)
  BY <1>2 DEF OpToRel
<1> QED BY <1>3

\* Counting: what holds at 0 and goes over to the next number holds up to n.
LEMMA UpTo ==
    ASSUME NEW n \in Nat, NEW S, 0 \in S, \A k \in 0..(n-1) : k \in S => k + 1 \in S
    PROVE  0..n \subseteq S
<1> SUFFICES ASSUME NEW x \in (0..n) \ S PROVE FALSE
  OBVIOUS
<1>1. PICK m \in (0..n) \ S : \A k \in (0..n) \ S : m <= k
  <2>1. (0..n) \ S \subseteq Nat /\ (0..n) \ S # {}
    OBVIOUS
  <2> QED BY <2>1, LeastOf
<1>2. m # 0 /\ m - 1 \in 0..(n-1) /\ m - 1 \in S
  BY <1>1
<1> QED BY <1>1, <1>2

\* Counting with no bound.
LEMMA AllNat ==
    ASSUME NEW S, 0 \in S, \A k \in Nat : k \in S => k + 1 \in S
    PROVE  Nat \subseteq S
<1> SUFFICES ASSUME NEW x \in Nat \ S PROVE FALSE
  OBVIOUS
<1>1. PICK m \in Nat \ S : \A k \in Nat \ S : m <= k
  <2>1. Nat \ S \subseteq Nat /\ Nat \ S # {}
    OBVIOUS
  <2> QED BY <2>1, LeastOf
<1>2. m # 0 /\ m - 1 \in Nat /\ m - 1 \in S
  BY <1>1
<1> QED BY <1>1, <1>2

\* Adding members one by one: what holds of {} and goes over to a set with
\* one more member holds of the finite set S.
LEMMA OneByOne ==
    ASSUME NEW S, IsFiniteSet(S), NEW F, {} \in F,
           \A T \in SUBSET S, x \in S : T \in F /\ x \notin T => T \cup {x} \in F
    PROVE  S \in F
<1> DEFINE Counts == {k \in 0..Cardinality(S) : \A T \in SUBSET S : Cardinality(T) = k => T \in F}
<1>1. Cardinality(S) \in Nat /\ \A T \in SUBSET S : IsFiniteSet(T) /\ Cardinality(T) \in Nat
  BY FS_CardinalityType, FS_Subset
<1>2. 0 \in Counts
  <2>1. \A T \in SUBSET S : Cardinality(T) = 0 => T = {}
    BY <1>1, FS_EmptySet
  <2>2. 0 \in 0..Cardinality(S)
    BY <1>1
  <2>3. \A T \in SUBSET S : Cardinality(T) = 0 => T \in F
    BY <2>1
  <2> QED BY <2>2, <2>3
<1>3. ASSUME NEW k \in 0..(Cardinality(S) - 1), k \in Counts PROVE k + 1 \in Counts
  <2>1. ASSUME NEW T \in SUBSET S, Cardinality(T) = k + 1 PROVE T \in F
    <3>1. T # {}
      <4>1. Cardinality(T) # 0
        BY <2>1
      <4> QED BY <4>1, FS_EmptySet
    <3>2. PICK x : x \in T
      BY <3>1
    <3>3. Cardinality(T \ {x}) = k
      <4>1. IsFiniteSet(T)
        BY <1>1
      <4>2. Cardinality(T \ {x}) = Cardinality(T) - 1
        BY <3>2, <4>1, FS_RemoveElement
      <4> QED BY <2>1, <4>2
    <3>4. T \ {x} \in F
      <4>1. T \ {x} \in SUBSET S
        OBVIOUS
      <4> QED BY <1>3, <3>3, <4>1
    <3>5. (T \ {x}) \cup {x} = T
      BY <3>2
    <3> QED BY <3>2, <3>4, <3>5
  <2> QED BY <1>1, <1>3, <2>1
<1>4. Cardinality(S) \in Counts
  <2> HIDE DEF Counts
  <2> QED BY <1>1, <1>2, <1>3, UpTo
<1> QED BY <1>4

-----------------------------------------------------------------------------
(* Division *)

\* The quotient is the one number that fits.
LEMMA DivIs ==
    ASSUME NEW y \in Nat, NEW d \in Nat \ {0}, NEW q \in Nat, q * d <= y, y < q * d + d
    PROVE  y \div d = q
  OBVIOUS

\* And the quotient fits.
LEMMA DivBounds ==
    ASSUME NEW y \in Nat, NEW d \in Nat \ {0}
    PROVE  (y \div d) \in Nat /\ (y \div d) * d <= y /\ y < (y \div d) * d + d
  OBVIOUS

\* The multiples of a number ascend.
LEMMA MultiplesAscend ==
    ASSUME NEW j \in Nat, NEW k \in Nat, j <= k, NEW b \in Nat
    PROVE  j * b \in Nat /\ k * b \in Nat /\ j * b <= k * b
<1>1. PICK d \in Nat : k = j + d
  <2>1. k - j \in Nat /\ k = j + (k - j)
    OBVIOUS
  <2> QED BY <2>1
<1>2. j * b \in Nat /\ d * b \in Nat
  OBVIOUS
<1>3. (j + d) * b = j * b + d * b
  OBVIOUS
<1> QED BY <1>1, <1>2, <1>3

-----------------------------------------------------------------------------
(* Sums *)

\* The units that make up the numbers f has on S: a sum is how many they are.
UnitsOf(f, x) == {<<x, i>> : i \in 1..f[x]}
Units(f, S) == UNION {UnitsOf(f, x) : x \in S}

Chosen(s) == CHOOSE x \in s : TRUE

\* What the library's fold chooses: a function that adds member after member.
SumsUp(g, f, S) ==
    g = [s \in SUBSET S |-> IF s = {} THEN 0 ELSE f[Chosen(s)] + g[s \ {Chosen(s)}]]

\* The library's sum is the value such a function has on the set.
LEMMA SumIs ==
    ASSUME NEW f, NEW S
    PROVE  SumFunctionOnSet(f, S) = (CHOOSE g : SumsUp(g, f, S))[S]
  BY DEF SumFunctionOnSet, FoldFunctionOnSet, MapThenFoldSet, SumsUp, Chosen

\* One member more has its units more.
LEMMA UnitsOfOne ==
    ASSUME NEW f, NEW S, IsFiniteSet(Units(f, S)), NEW x, x \notin S, f[x] \in Nat
    PROVE  /\ IsFiniteSet(Units(f, S \cup {x}))
           /\ Cardinality(Units(f, S \cup {x})) = f[x] + Cardinality(Units(f, S))
<1> DEFINE ux == UnitsOf(f, x)
<1>1. Units(f, S \cup {x}) = Units(f, S) \cup ux
  BY DEF Units
<1>2. Units(f, S) \cap ux = {}
  <2>1. \A u \in Units(f, S) : u[1] \in S
    BY DEF Units, UnitsOf
  <2>2. \A u \in ux : u[1] = x
    BY DEF UnitsOf
  <2> HIDE DEF ux
  <2> QED BY <2>1, <2>2
<1>3. IsFiniteSet(ux) /\ Cardinality(ux) = f[x]
  <2>1. ExistsBijection(1..f[x], ux)
    <3> DEFINE unit == [i \in 1..f[x] |-> <<x, i>>]
    <3>1. unit \in [1..f[x] -> ux]
      BY DEF UnitsOf
    <3>2. \A i, j \in 1..f[x] : unit[i] = unit[j] => i = j
      OBVIOUS
    <3>3. \A u \in ux : \E i \in 1..f[x] : unit[i] = u
      BY DEF UnitsOf
    <3>4. unit \in Bijection(1..f[x], ux)
      <4> HIDE DEF unit, ux
      <4>1. DOMAIN unit = 1..f[x]
        BY <3>1
      <4> QED BY <3>1, <3>2, <3>3, <4>1 DEF Bijection, Injection, Surjection, IsInjective
    <3> QED BY <3>4 DEF ExistsBijection
  <2>2. IsFiniteSet(1..f[x]) /\ Cardinality(1..f[x]) = f[x]
    BY FS_Interval
  <2> QED BY <2>1, <2>2, FS_Bijection
<1> HIDE DEF ux
<1>4. IsFiniteSet(Units(f, S) \cup ux)
      /\ Cardinality(Units(f, S) \cup ux) =
            Cardinality(Units(f, S)) + Cardinality(ux) - Cardinality(Units(f, S) \cap ux)
  BY <1>3, FS_Union
<1>5. Cardinality({}) = 0
  BY FS_EmptySet
<1>6. Cardinality(Units(f, S)) \in Nat
  BY FS_CardinalityType
<1>7. Cardinality(Units(f, S) \cap ux) = 0
  BY <1>2, <1>5
<1>8. Cardinality(Units(f, S) \cup ux) = f[x] + Cardinality(Units(f, S))
  BY <1>3, <1>4, <1>6, <1>7
<1> QED BY <1>1, <1>4, <1>8

\* A sum counts units.
LEMMA SumCounts ==
    ASSUME NEW S, IsFiniteSet(S), NEW f, \A x \in S : f[x] \in Nat
    PROVE  /\ IsFiniteSet(Units(f, S))
           /\ SumFunctionOnSet(f, S) = Cardinality(Units(f, S))
<1> DEFINE W == [s \in SUBSET S |-> Cardinality(Units(f, s))]
           Fin == {s \in SUBSET S : IsFiniteSet(Units(f, s))}
           g == CHOOSE h : SumsUp(h, f, S)
<1>1. S \in Fin /\ \A s \in SUBSET S : s \in Fin
  <2>1. {} \in Fin
    <3>1. Units(f, {}) = {}
      BY DEF Units
    <3> QED BY <3>1, FS_EmptySet
  <2>2. ASSUME NEW T \in SUBSET S, NEW x \in S, T \in Fin, x \notin T PROVE T \cup {x} \in Fin
    BY <2>2, UnitsOfOne
  <2>3. \A s \in SUBSET S : IsFiniteSet(s)
    BY FS_Subset
  <2>4. ASSUME NEW s \in SUBSET S PROVE s \in Fin
    <3> HIDE DEF Fin
    <3>1. \A T \in SUBSET s, x \in s : T \in Fin /\ x \notin T => T \cup {x} \in Fin
      BY <2>2
    <3>2. IsFiniteSet(s)
      BY <2>3
    <3> QED BY <2>1, <3>1, <3>2, OneByOne
  <2> QED BY <2>4
<1>2. \A s \in SUBSET S : s # {} => Chosen(s) \in s
  BY DEF Chosen
<1>3. ASSUME NEW s \in SUBSET S, s # {} PROVE W[s] = f[Chosen(s)] + W[s \ {Chosen(s)}]
  <2> DEFINE x == Chosen(s)
             r == s \ {x}
  <2>1. x \in s
    BY <1>2, <1>3
  <2>2. r \in SUBSET S /\ r \cup {x} = s /\ x \notin r /\ f[x] \in Nat
    BY <2>1
  <2>3. IsFiniteSet(Units(f, r))
    BY <1>1, <2>2
  <2> HIDE DEF x, r
  <2>4. Cardinality(Units(f, r \cup {x})) = f[x] + Cardinality(Units(f, r))
    BY <2>2, <2>3, UnitsOfOne
  <2>5. W[s] = f[x] + W[r]
    BY <2>2, <2>4
  <2> QED BY <2>5 DEF x, r
<1>4. W[{}] = 0
  <2>1. Units(f, {}) = {}
    BY DEF Units
  <2> QED BY <2>1, FS_EmptySet
<1>5. SumsUp(W, f, S)
  <2> DEFINE V == [s \in SUBSET S |-> IF s = {} THEN 0 ELSE f[Chosen(s)] + W[s \ {Chosen(s)}]]
  <2>1. \A s \in SUBSET S : W[s] = V[s]
    <3> HIDE DEF W
    <3> QED BY <1>3, <1>4
  <2>2. DOMAIN W = DOMAIN V /\ W = [s \in DOMAIN W |-> W[s]] /\ V = [s \in DOMAIN V |-> V[s]]
    OBVIOUS
  <2>3. W = V
    <3> HIDE DEF W, V
    <3>1. DOMAIN W = SUBSET S
      BY DEF W
    <3> QED BY <2>1, <2>2, <3>1
  <2> QED BY <2>3 DEF SumsUp
<1>6. SumsUp(g, f, S)
  <2> HIDE DEF W
  <2> QED BY <1>5
<1>7. \A s \in SUBSET S : g[s] = IF s = {} THEN 0 ELSE f[Chosen(s)] + g[s \ {Chosen(s)}]
  <2> HIDE DEF g
  <2> QED BY <1>6 DEF SumsUp
<1> DEFINE Same == {k \in 0..Cardinality(S) : \A s \in SUBSET S : Cardinality(s) = k => g[s] = W[s]}
<1>8. Cardinality(S) \in Nat /\ \A s \in SUBSET S : IsFiniteSet(s) /\ Cardinality(s) \in Nat
  BY FS_CardinalityType, FS_Subset
<1>9. 0 \in Same
  <2> HIDE DEF g, W
  <2>1. \A s \in SUBSET S : Cardinality(s) = 0 => s = {}
    BY <1>8, FS_EmptySet
  <2>2. g[{}] = 0
    BY <1>7
  <2> QED BY <1>4, <1>8, <2>1, <2>2
<1>10. ASSUME NEW k \in 0..(Cardinality(S) - 1), k \in Same PROVE k + 1 \in Same
  <2>1. ASSUME NEW s \in SUBSET S, Cardinality(s) = k + 1 PROVE g[s] = W[s]
    <3> DEFINE x == Chosen(s)
               r == s \ {x}
    <3> HIDE DEF g, W
    <3>1. s # {}
      <4>1. Cardinality(s) # 0
        BY <2>1
      <4> QED BY <4>1, FS_EmptySet
    <3>2. x \in s /\ r \in SUBSET S
      BY <1>2, <3>1
    <3>3. Cardinality(r) = k
      <4>1. IsFiniteSet(s)
        BY <1>8
      <4> HIDE DEF x
      <4>2. Cardinality(s \ {x}) = Cardinality(s) - 1
        BY <3>2, <4>1, FS_RemoveElement
      <4> QED BY <2>1, <4>2
    <3>4. g[r] = W[r]
      BY <1>10, <3>2, <3>3
    <3>5. g[s] = f[x] + g[r]
      BY <1>7, <3>1
    <3>6. W[s] = f[x] + W[r]
      BY <1>3, <3>1
    <3> QED BY <3>4, <3>5, <3>6
  <2>2. k + 1 \in 0..Cardinality(S)
    BY <1>8
  <2> HIDE DEF g, W
  <2> QED BY <2>1, <2>2
<1>11. Cardinality(S) \in Same
  <2> HIDE DEF Same
  <2> QED BY <1>8, <1>9, <1>10, UpTo
<1>12. g[S] = W[S]
  <2> HIDE DEF g, W
  <2>1. S \in SUBSET S
    OBVIOUS
  <2> QED BY <1>11, <2>1
<1>13. SumFunctionOnSet(f, S) = g[S]
  BY SumIs
<1> HIDE DEF g
<1> QED BY <1>1, <1>12, <1>13

\* The sum over one member more.
LEMMA SumAdds ==
    ASSUME NEW S, IsFiniteSet(S), NEW f, NEW x, x \notin S, \A y \in S \cup {x} : f[y] \in Nat
    PROVE  SumFunctionOnSet(f, S \cup {x}) = f[x] + SumFunctionOnSet(f, S)
<1>1. IsFiniteSet(S \cup {x})
  BY FS_AddElement
<1>2. IsFiniteSet(Units(f, S)) /\ SumFunctionOnSet(f, S) = Cardinality(Units(f, S))
  BY SumCounts
<1>3. SumFunctionOnSet(f, S \cup {x}) = Cardinality(Units(f, S \cup {x}))
  <2> DEFINE T == S \cup {x}
  <2>1. IsFiniteSet(T) /\ \A y \in T : f[y] \in Nat
    BY <1>1
  <2> HIDE DEF T
  <2>2. SumFunctionOnSet(f, T) = Cardinality(Units(f, T))
    BY <2>1, SumCounts
  <2> QED BY <2>2 DEF T
<1>4. f[x] \in Nat
  OBVIOUS
<1>5. Cardinality(Units(f, S \cup {x})) = f[x] + Cardinality(Units(f, S))
  BY <1>2, <1>4, UnitsOfOne
<1> QED BY <1>2, <1>3, <1>5

\* A sum of naturals is a natural.
LEMMA SumType ==
    ASSUME NEW S, IsFiniteSet(S), NEW f, \A x \in S : f[x] \in Nat
    PROVE  SumFunctionOnSet(f, S) \in Nat
  BY SumCounts, FS_CardinalityType

\* Over nothing it is 0.
LEMMA SumOfNone ==
    ASSUME NEW f PROVE SumFunctionOnSet(f, {}) = 0
<1>1. IsFiniteSet({}) /\ Cardinality({}) = 0
  BY FS_EmptySet
<1>2. Units(f, {}) = {}
  BY DEF Units
<1>3. SumFunctionOnSet(f, {}) = Cardinality(Units(f, {}))
  <2> DEFINE S == {}
  <2>1. IsFiniteSet(S) /\ \A x \in S : f[x] \in Nat
    BY <1>1
  <2> HIDE DEF S
  <2>2. SumFunctionOnSet(f, S) = Cardinality(Units(f, S))
    BY <2>1, SumCounts
  <2> QED BY <2>2 DEF S
<1> QED BY <1>1, <1>2, <1>3

\* It depends on the members' numbers only.
LEMMA SumSame ==
    ASSUME NEW S, IsFiniteSet(S), NEW f, NEW g,
           \A x \in S : f[x] \in Nat, \A x \in S : g[x] = f[x]
    PROVE  SumFunctionOnSet(g, S) = SumFunctionOnSet(f, S)
<1>1. Units(g, S) = Units(f, S)
  BY DEF Units, UnitsOf
<1>2. SumFunctionOnSet(f, S) = Cardinality(Units(f, S))
  BY SumCounts
<1>3. \A x \in S : g[x] \in Nat
  OBVIOUS
<1>4. SumFunctionOnSet(g, S) = Cardinality(Units(g, S))
  BY <1>3, SumCounts
<1> QED BY <1>1, <1>2, <1>4

\* The sum when one member's number grows by n.
LEMMA SumGrows ==
    ASSUME NEW S, IsFiniteSet(S), NEW f, NEW g, NEW y \in S, NEW n \in Nat,
           \A x \in S : f[x] \in Nat, g[y] = f[y] + n, \A x \in S \ {y} : g[x] = f[x]
    PROVE  SumFunctionOnSet(g, S) = SumFunctionOnSet(f, S) + n
<1> DEFINE R == S \ {y}
<1>1. IsFiniteSet(R) /\ y \notin R /\ R \cup {y} = S
  BY FS_RemoveElement
<1>2. \A x \in R : f[x] \in Nat /\ g[x] = f[x]
  OBVIOUS
<1>3. \A x \in R \cup {y} : f[x] \in Nat /\ g[x] \in Nat
  OBVIOUS
<1> HIDE DEF R
<1>4. SumFunctionOnSet(g, R) = SumFunctionOnSet(f, R)
  BY <1>1, <1>2, SumSame
<1>5. SumFunctionOnSet(f, R \cup {y}) = f[y] + SumFunctionOnSet(f, R)
  BY <1>1, <1>3, SumAdds
<1>6. SumFunctionOnSet(g, R \cup {y}) = g[y] + SumFunctionOnSet(g, R)
  BY <1>1, <1>3, SumAdds
<1>7. SumFunctionOnSet(f, R) \in Nat /\ f[y] \in Nat
  BY <1>1, <1>2, SumType
<1> DEFINE a == SumFunctionOnSet(f, R)
<1>8. SumFunctionOnSet(f, S) = f[y] + a /\ SumFunctionOnSet(g, S) = (f[y] + n) + a
  BY <1>1, <1>4, <1>5, <1>6
<1>9. a \in Nat
  BY <1>7
<1> HIDE DEF a
<1>10. (f[y] + n) + a = (f[y] + a) + n
  BY <1>7, <1>9
<1> QED BY <1>8, <1>10

\* The sum of sums.
LEMMA SumPlus ==
    ASSUME NEW S, IsFiniteSet(S), NEW f, NEW g, NEW h,
           \A x \in S : f[x] \in Nat /\ g[x] \in Nat, \A x \in S : h[x] = f[x] + g[x]
    PROVE  SumFunctionOnSet(h, S) = SumFunctionOnSet(f, S) + SumFunctionOnSet(g, S)
<1> DEFINE Good == {T \in SUBSET S :
              SumFunctionOnSet(h, T) = SumFunctionOnSet(f, T) + SumFunctionOnSet(g, T)}
<1>1. {} \in Good
  BY SumOfNone
<1>2. ASSUME NEW T \in SUBSET S, NEW x \in S, T \in Good, x \notin T PROVE T \cup {x} \in Good
  <2>1. IsFiniteSet(T)
    BY FS_Subset
  <2>2. \A y \in T \cup {x} : f[y] \in Nat /\ g[y] \in Nat /\ h[y] \in Nat
    OBVIOUS
  <2>3. SumFunctionOnSet(f, T \cup {x}) = f[x] + SumFunctionOnSet(f, T)
    BY <1>2, <2>1, <2>2, SumAdds
  <2>4. SumFunctionOnSet(g, T \cup {x}) = g[x] + SumFunctionOnSet(g, T)
    BY <1>2, <2>1, <2>2, SumAdds
  <2>5. SumFunctionOnSet(h, T \cup {x}) = h[x] + SumFunctionOnSet(h, T)
    BY <1>2, <2>1, <2>2, SumAdds
  <2>6. SumFunctionOnSet(f, T) \in Nat /\ SumFunctionOnSet(g, T) \in Nat
    BY <2>1, <2>2, SumType
  <2>7. f[x] \in Nat /\ g[x] \in Nat /\ h[x] = f[x] + g[x]
    OBVIOUS
  <2>8. SumFunctionOnSet(h, T) = SumFunctionOnSet(f, T) + SumFunctionOnSet(g, T)
    BY <1>2
  <2>9. SumFunctionOnSet(h, T \cup {x}) =
            SumFunctionOnSet(f, T \cup {x}) + SumFunctionOnSet(g, T \cup {x})
    BY <2>3, <2>4, <2>5, <2>6, <2>7, <2>8
  <2>10. T \cup {x} \in SUBSET S
    OBVIOUS
  <2> QED BY <2>9, <2>10
<1> HIDE DEF Good
<1>3. S \in Good
  BY <1>1, <1>2, OneByOne
<1> QED BY <1>3 DEF Good

\* Members whose number is 0 add nothing.
LEMMA SumOverZeros ==
    ASSUME NEW S, IsFiniteSet(S), NEW R \in SUBSET S, NEW f,
           \A x \in S : f[x] \in Nat, \A x \in S \ R : f[x] = 0
    PROVE  SumFunctionOnSet(f, S) = SumFunctionOnSet(f, R)
<1>1. Units(f, S) = Units(f, R)
  <2>1. \A x \in S \ R : UnitsOf(f, x) = {}
    BY DEF UnitsOf
  <2> QED BY <2>1 DEF Units
<1>2. IsFiniteSet(R) /\ \A x \in R : f[x] \in Nat
  BY FS_Subset
<1>3. SumFunctionOnSet(f, S) = Cardinality(Units(f, S))
  BY SumCounts
<1>4. SumFunctionOnSet(f, R) = Cardinality(Units(f, R))
  BY <1>2, SumCounts
<1> QED BY <1>1, <1>3, <1>4

\* Things counted class by class.
LEMMA SumOfClasses ==
    ASSUME NEW A, IsFiniteSet(A), NEW C, IsFiniteSet(C), NEW class \in [A -> C], NEW f,
           \A c \in C : f[c] = Cardinality({a \in A : class[a] = c})
    PROVE  SumFunctionOnSet(f, C) = Cardinality(A)
<1> DEFINE In(T) == {a \in A : class[a] \in T}
           Good == {T \in SUBSET C : SumFunctionOnSet(f, T) = Cardinality(In(T))}
<1>0. \A B \in SUBSET A : IsFiniteSet(B) /\ Cardinality(B) \in Nat
  BY FS_Subset, FS_CardinalityType
<1>1. \A c \in C : f[c] \in Nat
  <2>1. \A c \in C : {a \in A : class[a] = c} \in SUBSET A
    OBVIOUS
  <2> QED BY <1>0, <2>1
<1>2. {} \in Good
  <2>1. In({}) = {}
    OBVIOUS
  <2> HIDE DEF In
  <2>2. Cardinality(In({})) = 0
    BY <2>1, FS_EmptySet
  <2> QED BY <2>2, SumOfNone
<1>3. ASSUME NEW T \in SUBSET C, NEW x \in C, T \in Good, x \notin T PROVE T \cup {x} \in Good
  <2> DEFINE One == {a \in A : class[a] = x}
  <2>1. In(T \cup {x}) = In(T) \cup One /\ In(T) \cap One = {}
    BY <1>3
  <2>2. IsFiniteSet(In(T)) /\ IsFiniteSet(One)
    <3>1. In(T) \in SUBSET A /\ One \in SUBSET A
      OBVIOUS
    <3> HIDE DEF In, One
    <3> QED BY <1>0, <3>1
  <2>3. f[x] = Cardinality(One)
    OBVIOUS
  <2>4. SumFunctionOnSet(f, T) = Cardinality(In(T))
    BY <1>3
  <2>5. SumFunctionOnSet(f, T \cup {x}) = f[x] + SumFunctionOnSet(f, T)
    <3>1. IsFiniteSet(T) /\ \A y \in T \cup {x} : f[y] \in Nat
      BY <1>1, FS_Subset
    <3> QED BY <1>3, <3>1, SumAdds
  <2> HIDE DEF In, One
  <2>6. Cardinality(In(T) \cup One) =
           Cardinality(In(T)) + Cardinality(One) - Cardinality(In(T) \cap One)
    BY <2>2, FS_Union
  <2>7. Cardinality(In(T) \cap One) = 0
    BY <2>1, FS_EmptySet
  <2>8. Cardinality(In(T)) \in Nat /\ Cardinality(One) \in Nat
    BY <2>2, FS_CardinalityType
  <2>9. Cardinality(In(T \cup {x})) = f[x] + SumFunctionOnSet(f, T)
    <3> DEFINE a == Cardinality(In(T))
               b == Cardinality(One)
    <3>1. a \in Nat /\ b \in Nat
      BY <2>8
    <3>2. Cardinality(In(T \cup {x})) = a + b - 0
      BY <2>1, <2>6, <2>7
    <3>3. f[x] = b /\ SumFunctionOnSet(f, T) = a
      BY <2>3, <2>4
    <3> HIDE DEF a, b
    <3>4. a + b - 0 = b + a
      BY <3>1
    <3> QED BY <3>2, <3>3, <3>4
  <2>10. T \cup {x} \in SUBSET C
    OBVIOUS
  <2> QED BY <2>5, <2>9, <2>10
<1>4. C \in Good
  <2> HIDE DEF Good
  <2> QED BY <1>2, <1>3, OneByOne
<1>5. In(C) = A
  OBVIOUS
<1> HIDE DEF In
<1> QED BY <1>4, <1>5
=============================================================================
