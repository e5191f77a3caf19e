------------------------------ MODULE SumProofs ------------------------------
(***************************************************************************)
(* Sums over finite sets.  The models add up what orders have executed and *)
(* what positions hold with MapThenSumSet and FoldSet, recursive functions *)
(* over the subsets of a set; the proofs need what anybody expects of a    *)
(* sum.  That the recursive function exists is shown by induction over the *)
(* size of the subsets, everything else by taking a smallest subset for    *)
(* which it fails.                                                         *)
(*                                                                         *)
(* Summands are the values of a function, for a lemma cannot be about an   *)
(* operator.                                                               *)
(***************************************************************************)
EXTENDS Integers, FiniteSetsExt, FiniteSetTheorems, WellFoundedInduction, TLAPS

\* The sum of f over S.
SumOf(f, S) == MapThenSumSet(LAMBDA x : f[x], S)

Pick(s) == CHOOSE x \in s : TRUE

\* The function MapThenSumSet evaluates to sum f over the subsets of S.
Folds(it, f, S) ==
    it = [s \in SUBSET S |-> IF s = {} THEN 0 ELSE f[Pick(s)] + it[s \ {Pick(s)}]]

-----------------------------------------------------------------------------

\* The least of a set of numbers.
LEMMA Least == ASSUME NEW S \in SUBSET Nat, S # {} PROVE \E x \in S : \A y \in S : x <= y
<1>1. PICK x \in S : \A y \in S : <<y, x>> \notin OpToRel(<, Nat)
    BY WFMin, NatLessThanWellFounded, Zenon
<1>2. \A y \in S : ~(y < x)
    BY <1>1 DEF OpToRel
<1> QED
    BY <1>2

\* Subsets of a finite set have a size, and one element less makes one less.
LEMMA Sizes ==
    ASSUME NEW S, IsFiniteSet(S), NEW s \in SUBSET S
    PROVE  /\ IsFiniteSet(s) /\ Cardinality(s) \in Nat /\ (Cardinality(s) = 0 <=> s = {})
           /\ \A x \in s : s \ {x} \in SUBSET S /\ Cardinality(s \ {x}) = Cardinality(s) - 1
<1>1. IsFiniteSet(s)
    BY FS_Subset
<1>2. Cardinality(s) \in Nat /\ (Cardinality(s) = 0 <=> s = {})
    BY <1>1, FS_CardinalityType, FS_EmptySet
<1>3. \A x \in s : Cardinality(s \ {x}) = Cardinality(s) - 1
    BY <1>1, FS_RemoveElement
<1> QED
    BY <1>1, <1>2, <1>3

\* Of any subsets of a finite set there is a smallest.
LEMMA Smallest ==
    ASSUME NEW S, IsFiniteSet(S), NEW B \in SUBSET (SUBSET S), B # {}
    PROVE  \E s \in B : \A x \in s : s \ {x} \notin B
<1> DEFINE N == {Cardinality(s) : s \in B}
<1>1. N \in SUBSET Nat /\ N # {}
    BY Sizes
<1>2. PICK n \in N : \A m \in N : n <= m
    <2> HIDE DEF N
    <2> QED
        BY <1>1, Least
<1>3. PICK s \in B : n = Cardinality(s)
    BY <1>2
<1>4. ASSUME NEW x \in s, s \ {x} \in B PROVE FALSE
    <2>1. Cardinality(s \ {x}) = n - 1 /\ n \in Nat
        BY <1>3, Sizes
    <2>2. n <= Cardinality(s \ {x})
        BY <1>2, <1>4
    <2> QED
        BY <2>1, <2>2
<1> QED
    BY <1>4

\* A non-empty set has its Pick.
LEMMA PickIn == ASSUME NEW s, s # {} PROVE Pick(s) \in s
BY DEF Pick

\* Any function can be summed: a function that is right for the subsets of n elements
\* gives one that is right for those of n + 1.
LEMMA FoldExists == ASSUME NEW S, IsFiniteSet(S), NEW f PROVE \E it : Folds(it, f, S)
<1> DEFINE Body(it, s) == IF s = {} THEN 0 ELSE f[Pick(s)] + it[s \ {Pick(s)}]
           Right(n) == \E it : /\ it = [s \in SUBSET S |-> it[s]]
                               /\ \A s \in SUBSET S : Cardinality(s) <= n => it[s] = Body(it, s)
           B == {n \in Nat : ~Right(n)}
<1>1. B = {}
    <2> SUFFICES ASSUME B # {} PROVE FALSE
        OBVIOUS
    <2>1. PICK n \in B : \A m \in B : n <= m
        <3>1. B \in SUBSET Nat
            OBVIOUS
        <3> HIDE DEF B
        <3> QED
            BY <3>1, Least
    <2>2. CASE n = 0
        <3> DEFINE it == [s \in SUBSET S |-> 0]
        <3>1. it = [s \in SUBSET S |-> it[s]]
            OBVIOUS
        <3>2. ASSUME NEW s \in SUBSET S, Cardinality(s) <= 0 PROVE it[s] = Body(it, s)
            <4>1. s = {}
                BY <3>2, Sizes
            <4> QED
                BY <4>1
        <3> HIDE DEF it
        <3>3. Right(0)
            BY <3>1, <3>2
        <3> QED
            BY <2>1, <2>2, <3>3
    <2>3. CASE n # 0
        <3>1. n \in Nat /\ n - 1 \in Nat
            BY <2>1, <2>3
        <3>2. Right(n - 1)
            <4>1. n - 1 \notin B
                <5> HIDE DEF B
                <5> QED
                    BY <2>1, <3>1
            <4> HIDE DEF Right
            <4> QED
                BY <3>1, <4>1
        <3>3. PICK it : /\ it = [s \in SUBSET S |-> it[s]]
                        /\ \A s \in SUBSET S : Cardinality(s) <= n - 1 => it[s] = Body(it, s)
            BY <3>2
        <3> DEFINE jt == [s \in SUBSET S |-> Body(it, s)]
        <3>4. jt = [s \in SUBSET S |-> jt[s]]
            OBVIOUS
        <3>5. ASSUME NEW s \in SUBSET S, Cardinality(s) <= n PROVE jt[s] = Body(jt, s)
            <4>1. jt[s] = Body(it, s)
                OBVIOUS
            <4>2. CASE s = {}
                BY <4>1, <4>2
            <4>3. CASE s # {}
                <5>1. Pick(s) \in s
                    BY <4>3, PickIn
                <5>2. PICK t : t = s \ {Pick(s)}
                    OBVIOUS
                <5>3. t \in SUBSET S /\ Cardinality(t) <= n - 1
                    BY <3>1, <3>5, <5>1, <5>2, Sizes
                <5>4. it[t] = Body(it, t)
                    BY <3>3, <5>3
                <5>5. jt[t] = Body(it, t)
                    BY <5>3
                <5>6. jt[t] = it[t]
                    BY <5>4, <5>5
                <5>7. Body(it, s) = f[Pick(s)] + it[t] /\ Body(jt, s) = f[Pick(s)] + jt[t]
                    BY <4>3, <5>2
                <5> QED
                    BY <4>1, <5>6, <5>7
            <4> QED
                BY <4>2, <4>3
        <3> HIDE DEF jt
        <3>6. Right(n)
            BY <3>4, <3>5
        <3> QED
            BY <2>1, <3>6
    <2> QED
        BY <2>2, <2>3
<1>2. Cardinality(S) \in Nat /\ \A s \in SUBSET S : Cardinality(s) <= Cardinality(S)
    BY FS_CardinalityType, FS_Subset
<1>3. Right(Cardinality(S))
    BY <1>1, <1>2
<1>4. PICK it : /\ it = [s \in SUBSET S |-> it[s]]
                /\ \A s \in SUBSET S : Cardinality(s) <= Cardinality(S) => it[s] = Body(it, s)
    BY <1>3
<1>5. \A s \in SUBSET S : it[s] = Body(it, s)
    BY <1>2, <1>4
<1>6. it = [s \in SUBSET S |-> Body(it, s)]
    BY <1>4, <1>5
<1> QED
    BY <1>6 DEF Folds

\* Its values are numbers, and no matter which element is taken out first the rest is
\* the sum of the others.
LEMMA FoldLaws ==
    ASSUME NEW S, IsFiniteSet(S), NEW f, \A x \in S : f[x] \in Int, NEW it, Folds(it, f, S)
    PROVE  /\ it[{}] = 0
           /\ \A s \in SUBSET S : it[s] \in Int
           /\ \A s \in SUBSET S : \A x \in s : it[s] = f[x] + it[s \ {x}]
<1>1. /\ it[{}] = 0
      /\ \A s \in SUBSET S : s # {} => it[s] = f[Pick(s)] + it[s \ {Pick(s)}]
    BY DEF Folds
<1>2. \A s \in SUBSET S : it[s] \in Int
    <2> DEFINE B == {s \in SUBSET S : it[s] \notin Int}
    <2> SUFFICES ASSUME B # {} PROVE FALSE
        OBVIOUS
    <2>1. PICK s \in B : \A x \in s : s \ {x} \notin B
        <3>1. B \in SUBSET (SUBSET S)
            OBVIOUS
        <3> HIDE DEF B
        <3> QED
            BY <3>1, Smallest
    <2>2. s \in SUBSET S /\ it[s] \notin Int
        BY <2>1
    <2>3. s # {}
        <3>1. CASE s = {}
            <4>1. it[s] = 0
                BY <1>1, <3>1
            <4> QED
                BY <2>2, <4>1
        <3> QED
            BY <3>1
    <2>4. Pick(s) \in s
        BY <2>3, PickIn
    <2>5. PICK x \in s : it[s] = f[x] + it[s \ {x}]
        BY <1>1, <2>2, <2>3, <2>4
    <2>6. it[s \ {x}] \in Int /\ f[x] \in Int
        BY <2>1, <2>2
    <2> QED
        BY <2>2, <2>5, <2>6
<1>3. \A s \in SUBSET S : \A x \in s : it[s] = f[x] + it[s \ {x}]
    <2> DEFINE B == {s \in SUBSET S : \E x \in s : it[s] # f[x] + it[s \ {x}]}
    <2> SUFFICES ASSUME B # {} PROVE FALSE
        OBVIOUS
    <2>1. PICK s \in B : \A x \in s : s \ {x} \notin B
        <3>1. B \in SUBSET (SUBSET S)
            OBVIOUS
        <3> HIDE DEF B
        <3> QED
            BY <3>1, Smallest
    <2>2. PICK x \in s : it[s] # f[x] + it[s \ {x}]
        BY <2>1
    <2>3. PICK c \in s : it[s] = f[c] + it[s \ {c}]
        BY <1>1, <2>1, <2>2, PickIn
    <2>4. x # c /\ s \in SUBSET S
        BY <2>1, <2>2, <2>3
    <2>5. PICK sx, sc, both : sx = s \ {x} /\ sc = s \ {c} /\ both = s \ {x, c}
        OBVIOUS
    <2>6. it[sc] = f[x] + it[both] /\ it[sx] = f[c] + it[both]
        <3>1. x \in sc /\ c \in sx /\ sc \ {x} = both /\ sx \ {c} = both
            BY <2>4, <2>5
        <3>2. sc \in SUBSET S /\ sx \in SUBSET S /\ sc \notin B /\ sx \notin B
            BY <2>1, <2>4, <2>5
        <3> QED
            BY <3>1, <3>2
    <2>7. f[x] \in Int /\ f[c] \in Int /\ it[both] \in Int
        <3>1. both \in SUBSET S
            BY <2>4, <2>5
        <3> QED
            BY <1>2, <2>4, <3>1
    <2>8. it[s] # f[x] + it[sx] /\ it[s] = f[c] + it[sc]
        BY <2>2, <2>3, <2>5
    <2> QED
        BY <2>6, <2>7, <2>8
<1> QED
    BY <1>1, <1>2, <1>3

\* It depends on nothing but the summands.
LEMMA FoldSame ==
    ASSUME NEW S, IsFiniteSet(S), NEW f, \A x \in S : f[x] \in Int,
           NEW T, IsFiniteSet(T), NEW g, \A x \in T : g[x] \in Int,
           NEW it, NEW jt, Folds(it, f, S), Folds(jt, g, T),
           NEW s \in SUBSET S, s \in SUBSET T, \A x \in s : f[x] = g[x]
    PROVE  it[s] = jt[s]
<1> DEFINE B == {t \in SUBSET s : it[t] # jt[t]}
<1> SUFFICES ASSUME B # {} PROVE FALSE
    OBVIOUS
<1>1. PICK t \in B : \A x \in t : t \ {x} \notin B
    <2>1. B \in SUBSET (SUBSET s) /\ IsFiniteSet(s)
        BY FS_Subset
    <2> HIDE DEF B
    <2> QED
        BY <2>1, Smallest
<1>2. t \in SUBSET s /\ t \in SUBSET S /\ t \in SUBSET T /\ it[t] # jt[t]
    BY <1>1
<1>3. it[{}] = 0 /\ jt[{}] = 0
    BY FoldLaws
<1>4. PICK x \in t : TRUE
    BY <1>2, <1>3
<1>5. it[t] = f[x] + it[t \ {x}] /\ jt[t] = g[x] + jt[t \ {x}]
    BY <1>2, <1>4, FoldLaws
<1>6. it[t \ {x}] = jt[t \ {x}] /\ f[x] = g[x]
    BY <1>1, <1>2, <1>4
<1> QED
    BY <1>2, <1>5, <1>6

\* What MapThenSumSet evaluates to.
LEMMA SumFolds ==
    ASSUME NEW S, IsFiniteSet(S), NEW f, \A x \in S : f[x] \in Int, NEW it, Folds(it, f, S)
    PROVE  SumOf(f, S) = it[S]
<1> DEFINE chosen == CHOOSE jt : jt = [s \in SUBSET S |-> IF s = {} THEN 0 ELSE f[Pick(s)] + jt[s \ {Pick(s)}]]
<1>1. SumOf(f, S) = chosen[S]
    BY Zenon DEF SumOf, MapThenSumSet, MapThenFoldSet, Pick
<1>2. Folds(chosen, f, S)
    BY Zenon DEF Folds
<1> HIDE DEF chosen
<1> QED
    BY <1>1, <1>2, FoldSame

-----------------------------------------------------------------------------
(* The laws of sums *)

\* Nothing adds up to zero ...
LEMMA SumEmpty == ASSUME NEW f PROVE SumOf(f, {}) = 0
<1>1. IsFiniteSet({}) /\ \A x \in {} : f[x] \in Int
    BY FS_EmptySet
<1>2. PICK it : Folds(it, f, {})
    BY <1>1, FoldExists
<1> QED
    BY <1>1, <1>2, SumFolds, FoldLaws

\* ... and numbers to a number.
LEMMA SumInt ==
    ASSUME NEW S, IsFiniteSet(S), NEW f, \A x \in S : f[x] \in Int
    PROVE  SumOf(f, S) \in Int
<1>1. PICK it : Folds(it, f, S)
    BY FoldExists
<1> QED
    BY <1>1, SumFolds, FoldLaws

\* Equal summands have equal sums.
LEMMA SumSame ==
    ASSUME NEW S, IsFiniteSet(S), NEW f, \A x \in S : f[x] \in Int, NEW g, \A x \in S : g[x] = f[x]
    PROVE  SumOf(g, S) = SumOf(f, S)
<1>1. PICK it : Folds(it, f, S)
    BY FoldExists
<1>2. PICK jt : Folds(jt, g, S)
    BY FoldExists
<1>3. \A x \in S : g[x] \in Int
    OBVIOUS
<1>4. it[S] = jt[S]
    BY <1>1, <1>2, <1>3, FoldSame
<1> QED
    BY <1>1, <1>2, <1>3, <1>4, SumFolds

\* Any element can be taken out.
LEMMA SumWithout ==
    ASSUME NEW S, IsFiniteSet(S), NEW f, \A x \in S : f[x] \in Int, NEW x \in S
    PROVE  SumOf(f, S) = f[x] + SumOf(f, S \ {x})
<1>1. PICK it : Folds(it, f, S)
    BY FoldExists
<1>2. PICK T : T = S \ {x}
    OBVIOUS
<1>3. IsFiniteSet(T) /\ (\A y \in T : f[y] \in Int) /\ T \in SUBSET S
    BY <1>2, FS_Subset
<1>4. PICK jt : Folds(jt, f, T)
    BY <1>3, FoldExists
<1>5. it[T] = jt[T]
    BY <1>1, <1>3, <1>4, FoldSame
<1>6. SumOf(f, S) = it[S] /\ SumOf(f, T) = jt[T]
    BY <1>1, <1>3, <1>4, SumFolds
<1>7. it[S] = f[x] + it[T]
    BY <1>1, <1>2, FoldLaws
<1> QED
    BY <1>2, <1>5, <1>6, <1>7

\* Sums are added up summand by summand.
LEMMA SumPlus ==
    ASSUME NEW S, IsFiniteSet(S), NEW f, \A x \in S : f[x] \in Int, NEW g, \A x \in S : g[x] \in Int,
           NEW h, \A x \in S : h[x] = f[x] + g[x]
    PROVE  SumOf(h, S) = SumOf(f, S) + SumOf(g, S)
<1> DEFINE B == {t \in SUBSET S : SumOf(h, t) # SumOf(f, t) + SumOf(g, t)}
<1> SUFFICES ASSUME B # {} PROVE FALSE
    OBVIOUS
<1>1. PICK t \in B : \A x \in t : t \ {x} \notin B
    <2>1. B \in SUBSET (SUBSET S)
        OBVIOUS
    <2> HIDE DEF B
    <2> QED
        BY <2>1, Smallest
<1>2. t \in SUBSET S /\ IsFiniteSet(t) /\ SumOf(h, t) # SumOf(f, t) + SumOf(g, t)
    BY <1>1, FS_Subset
<1>3. PICK x \in t : TRUE
    <2>1. SumOf(f, {}) = 0 /\ SumOf(g, {}) = 0 /\ SumOf(h, {}) = 0
        BY SumEmpty
    <2>2. t # {}
        BY <1>2, <2>1
    <2> QED
        BY <2>2
<1>4. PICK u : u = t \ {x}
    OBVIOUS
<1>5. \A y \in t : f[y] \in Int /\ g[y] \in Int /\ h[y] \in Int
    BY <1>2
<1>6. /\ SumOf(f, t) = f[x] + SumOf(f, u) /\ SumOf(g, t) = g[x] + SumOf(g, u)
      /\ SumOf(h, t) = h[x] + SumOf(h, u)
    BY <1>2, <1>4, <1>5, SumWithout
<1>7. IsFiniteSet(u) /\ u \in SUBSET S /\ u \in SUBSET t
    BY <1>2, <1>4, FS_Subset
<1>8. SumOf(f, u) \in Int /\ SumOf(g, u) \in Int
    BY <1>5, <1>7, SumInt
<1>9. SumOf(h, u) = SumOf(f, u) + SumOf(g, u)
    BY <1>1, <1>4, <1>7
<1>10. h[x] = f[x] + g[x] /\ f[x] \in Int /\ g[x] \in Int
    BY <1>2, <1>5
<1> HIDE DEF B
<1> QED
    BY <1>2, <1>6, <1>8, <1>9, <1>10

\* Larger summands have a larger sum.
LEMMA SumMonotone ==
    ASSUME NEW S, IsFiniteSet(S), NEW f, \A x \in S : f[x] \in Int, NEW g, \A x \in S : g[x] \in Int,
           \A x \in S : f[x] <= g[x]
    PROVE  SumOf(f, S) <= SumOf(g, S)
<1> DEFINE B == {t \in SUBSET S : ~(SumOf(f, t) <= SumOf(g, t))}
<1> SUFFICES ASSUME B # {} PROVE FALSE
    OBVIOUS
<1>1. PICK t \in B : \A x \in t : t \ {x} \notin B
    <2>1. B \in SUBSET (SUBSET S)
        OBVIOUS
    <2> HIDE DEF B
    <2> QED
        BY <2>1, Smallest
<1>2. t \in SUBSET S /\ IsFiniteSet(t) /\ ~(SumOf(f, t) <= SumOf(g, t))
    BY <1>1, FS_Subset
<1>3. PICK x \in t : TRUE
    BY <1>2, SumEmpty
<1>4. PICK u : u = t \ {x}
    OBVIOUS
<1>5. \A y \in t : f[y] \in Int /\ g[y] \in Int
    BY <1>2
<1>6. SumOf(f, t) = f[x] + SumOf(f, u) /\ SumOf(g, t) = g[x] + SumOf(g, u)
    BY <1>2, <1>4, <1>5, SumWithout
<1>7. IsFiniteSet(u) /\ u \in SUBSET S /\ u \in SUBSET t
    BY <1>2, <1>4, FS_Subset
<1>8. SumOf(f, u) \in Int /\ SumOf(g, u) \in Int
    BY <1>5, <1>7, SumInt
<1>9. SumOf(f, u) <= SumOf(g, u)
    BY <1>1, <1>4, <1>7
<1>10. f[x] <= g[x] /\ f[x] \in Int /\ g[x] \in Int
    BY <1>2, <1>5
<1> HIDE DEF B
<1> QED
    BY <1>2, <1>6, <1>8, <1>9, <1>10

\* What a sum changes by when one summand changes.
LEMMA SumChange ==
    ASSUME NEW S, IsFiniteSet(S), NEW f, \A x \in S : f[x] \in Int, NEW g, NEW x \in S, g[x] \in Int,
           \A y \in S \ {x} : g[y] = f[y]
    PROVE  SumOf(g, S) = SumOf(f, S) + g[x] - f[x]
<1>1. PICK T : T = S \ {x}
    OBVIOUS
<1>2. IsFiniteSet(T) /\ (\A y \in T : f[y] \in Int /\ g[y] = f[y]) /\ \A y \in S : g[y] \in Int
    BY <1>1, FS_Subset
<1>3. SumOf(f, S) = f[x] + SumOf(f, T) /\ SumOf(g, S) = g[x] + SumOf(g, T)
    BY <1>1, <1>2, SumWithout
<1>4. SumOf(g, T) = SumOf(f, T) /\ SumOf(f, T) \in Int
    BY <1>2, SumSame, SumInt
<1> QED
    BY <1>3, <1>4

\* What one element more adds.
LEMMA SumWith ==
    ASSUME NEW S, IsFiniteSet(S), NEW f, \A y \in S : f[y] \in Int, NEW x, x \notin S, f[x] \in Int
    PROVE  SumOf(f, S \cup {x}) = f[x] + SumOf(f, S)
<1>1. PICK T : T = S \cup {x}
    OBVIOUS
<1>2. IsFiniteSet(T) /\ T \ {x} = S /\ x \in T /\ \A y \in T : f[y] \in Int
    BY <1>1, FS_AddElement
<1> QED
    BY <1>1, <1>2, SumWithout
\* Summands that are not negative have a sum that is not, ...
LEMMA SumNonneg ==
    ASSUME NEW S, IsFiniteSet(S), NEW f, \A x \in S : f[x] \in Int, \A x \in S : f[x] >= 0
    PROVE  SumOf(f, S) \in Int /\ SumOf(f, S) >= 0
<1>1. PICK z : z = [x \in S |-> 0]
    OBVIOUS
<1>2. \A x \in S : z[x] = 0
    BY <1>1
<1>3. \A x \in S : z[x] \in Int /\ z[x] = z[x] + z[x] /\ z[x] <= f[x]
    BY <1>2
<1>4. SumOf(z, S) \in Int /\ SumOf(f, S) \in Int
    BY <1>3, SumInt
<1>5. SumOf(z, S) = SumOf(z, S) + SumOf(z, S)
    BY <1>3, SumPlus
<1>6. SumOf(z, S) <= SumOf(f, S)
    BY <1>3, SumMonotone
<1> QED
    BY <1>4, <1>5, <1>6

\* ... and those that are not positive one that is not positive.
LEMMA SumNonpos ==
    ASSUME NEW S, IsFiniteSet(S), NEW f, \A x \in S : f[x] \in Int, \A x \in S : f[x] <= 0
    PROVE  SumOf(f, S) \in Int /\ SumOf(f, S) <= 0
<1>1. PICK z : z = [x \in S |-> 0]
    OBVIOUS
<1>2. \A x \in S : z[x] = 0
    BY <1>1
<1>3. \A x \in S : z[x] \in Int /\ z[x] = z[x] + z[x] /\ f[x] <= z[x]
    BY <1>2
<1>4. SumOf(z, S) \in Int /\ SumOf(f, S) \in Int
    BY <1>3, SumInt
<1>5. SumOf(z, S) = SumOf(z, S) + SumOf(z, S)
    BY <1>3, SumPlus
<1>6. SumOf(f, S) <= SumOf(z, S)
    BY <1>3, SumMonotone
<1> QED
    BY <1>4, <1>5, <1>6
\* Elements that add nothing can be left out.
LEMMA SumSupport ==
    ASSUME NEW S, IsFiniteSet(S), NEW f, \A x \in S : f[x] \in Int, NEW T \in SUBSET S, \A x \in S \ T : f[x] = 0
    PROVE  SumOf(f, S) = SumOf(f, T)
<1> DEFINE B == {t \in SUBSET S : T \subseteq t /\ SumOf(f, t) # SumOf(f, T)}
<1> SUFFICES ASSUME B # {} PROVE FALSE
    OBVIOUS
<1>1. PICK t \in B : \A x \in t : t \ {x} \notin B
    <2>1. B \in SUBSET (SUBSET S)
        OBVIOUS
    <2> HIDE DEF B
    <2> QED
        BY <2>1, Smallest
<1>2. t \in SUBSET S /\ T \subseteq t /\ IsFiniteSet(t) /\ SumOf(f, t) # SumOf(f, T)
    BY <1>1, FS_Subset
<1>3. PICK x \in t : x \notin T
    BY <1>2
<1>4. PICK u : u = t \ {x}
    OBVIOUS
<1>5. u \in SUBSET S /\ T \subseteq u /\ IsFiniteSet(u) /\ f[x] = 0 /\ (\A y \in t : f[y] \in Int)
    BY <1>2, <1>3, <1>4, FS_Subset
<1>6. SumOf(f, t) = f[x] + SumOf(f, u) /\ SumOf(f, u) \in Int
    BY <1>2, <1>4, <1>5, SumWithout, SumInt
<1>7. SumOf(f, u) = SumOf(f, T)
    BY <1>1, <1>4, <1>5
<1> HIDE DEF B
<1> QED
    BY <1>2, <1>5, <1>6, <1>7

\* What FoldSet evaluates to when it adds an element to what it has so far.
FoldsBack(it, f, S) ==
    it = [s \in SUBSET S |-> IF s = {} THEN 0 ELSE it[s \ {Pick(s)}] + f[Pick(s)]]

\* It is the same sum.
LEMMA FoldedSum ==
    ASSUME NEW S, IsFiniteSet(S), NEW f, \A x \in S : f[x] \in Int
    PROVE  (\E it : FoldsBack(it, f, S)) /\ \A it : FoldsBack(it, f, S) => it[S] = SumOf(f, S)
<1>1. PICK jt : Folds(jt, f, S)
    BY FoldExists
<1>2. jt[{}] = 0 /\ \A s \in SUBSET S : jt[s] \in Int
    BY <1>1, FoldLaws
<1>3. \A s \in SUBSET S : s # {} => Pick(s) \in s /\ jt[s] = f[Pick(s)] + jt[s \ {Pick(s)}]
    BY <1>1, PickIn DEF Folds
<1>4. FoldsBack(jt, f, S)
    <2>1. ASSUME NEW s \in SUBSET S
          PROVE  jt[s] = IF s = {} THEN 0 ELSE jt[s \ {Pick(s)}] + f[Pick(s)]
        <3>1. CASE s = {}
            BY <1>2, <3>1
        <3>2. CASE s # {}
            <4>1. PICK x \in s : x = Pick(s)
                BY <1>3, <3>2
            <4>2. jt[s] = f[x] + jt[s \ {x}] /\ f[x] \in Int /\ jt[s \ {x}] \in Int
                BY <1>2, <1>3, <3>2, <4>1
            <4> QED
                BY <3>2, <4>1, <4>2
        <3> QED
            BY <3>1, <3>2
    <2>2. jt = [s \in SUBSET S |-> jt[s]]
        BY <1>1 DEF Folds
    <2> QED
        BY <2>1, <2>2 DEF FoldsBack
<1>5. ASSUME NEW it, FoldsBack(it, f, S) PROVE it[S] = SumOf(f, S)
    <2> DEFINE B == {s \in SUBSET S : it[s] # jt[s]}
    <2>1. B = {}
        <3> SUFFICES ASSUME B # {} PROVE FALSE
            OBVIOUS
        <3>1. PICK t \in B : \A x \in t : t \ {x} \notin B
            <4>1. B \in SUBSET (SUBSET S)
                OBVIOUS
            <4> HIDE DEF B
            <4> QED
                BY <4>1, Smallest
        <3>2. t \in SUBSET S /\ it[t] # jt[t]
            BY <3>1
        <3>3. t # {}
            BY <1>2, <1>5, <3>2 DEF FoldsBack
        <3>4. PICK x \in t : x = Pick(t)
            BY <1>3, <3>2, <3>3
        <3>5. it[t] = it[t \ {x}] + f[x] /\ jt[t] = f[x] + jt[t \ {x}]
            BY <1>3, <1>5, <3>2, <3>3, <3>4 DEF FoldsBack
        <3>6. it[t \ {x}] = jt[t \ {x}] /\ jt[t \ {x}] \in Int /\ f[x] \in Int
            BY <1>2, <3>1, <3>2
        <3> QED
            BY <3>2, <3>5, <3>6
    <2>2. SumOf(f, S) = jt[S]
        BY <1>1, SumFolds
    <2> QED
        BY <2>1, <2>2
<1> QED
    BY <1>4, <1>5
=============================================================================
