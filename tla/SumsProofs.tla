----------------------------- MODULE SumsProofs -----------------------------
(***************************************************************************)
(* What the modules that add up amounts need to know of Sum, for every     *)
(* finite domain and integers of any size.  Induction over finite sets is  *)
(* stated for a set of sets, a form the provers can instantiate.           *)
(***************************************************************************)
EXTENDS Sums, FiniteSetTheorems, WellFoundedInduction, TLAPS

(* A set of naturals has a least member.                                   *)
LEMMA LeastNatural ==
    ASSUME NEW T \in SUBSET Nat, T # {}
    PROVE  \E x \in T : \A y \in T : x <= y
<1>1. IsWellFoundedOn(OpToRel(<, Nat), Nat)
    BY NatLessThanWellFounded
<1>2. PICK x \in T : \A y \in T : ~(<<y, x>> \in OpToRel(<, Nat))
    BY <1>1, WFMin, Zenon
<1>3. \A y \in T : ~(y < x)
    BY <1>2 DEF OpToRel
<1> QED
    BY <1>3

(* Induction over the subsets of a finite set: what holds of the empty set *)
(* and of a set whenever it holds of the set less any one element, holds   *)
(* of all of them.                                                         *)
LEMMA SubsetInduction ==
    ASSUME NEW D, IsFiniteSet(D), NEW T, {} \in T,
           \A s \in SUBSET D : s # {} /\ (\A d \in s : s \ {d} \in T) => s \in T
    PROVE  \A s \in SUBSET D : s \in T
<1> SUFFICES ASSUME NEW b \in SUBSET D, b \notin T PROVE FALSE
    OBVIOUS
<1>1. \A s \in SUBSET D : IsFiniteSet(s) /\ Cardinality(s) \in Nat
    BY FS_Subset, FS_CardinalityType
<1> DEFINE bad == {s \in SUBSET D : s \notin T}
           sizes == {Cardinality(s) : s \in bad}
<1>2. sizes \in SUBSET Nat /\ sizes # {}
    BY <1>1
<1>3. PICK n \in sizes : \A k \in sizes : n <= k
    <2> HIDE DEF sizes
    <2> QED
        BY <1>2, LeastNatural
<1>4. PICK s \in SUBSET D : s \notin T /\ Cardinality(s) = n
    BY <1>3
<1>5. PICK d \in s : s \ {d} \notin T
    BY <1>4
<1>6. Cardinality(s \ {d}) = Cardinality(s) - 1
    BY <1>1, <1>5, FS_RemoveElement
<1>7. Cardinality(s \ {d}) \in sizes
    BY <1>4, <1>5
<1>8. n <= Cardinality(s \ {d})
    BY <1>3, <1>7
<1>9. Cardinality(s) \in Nat
    BY <1>1, <1>4
<1> HIDE DEF sizes
<1> QED
    BY <1>4, <1>6, <1>8, <1>9

-----------------------------------------------------------------------------
(* Finite domains.                                                         *)

(* The values of a function on a finite set.                               *)
LEMMA FiniteValues ==
    ASSUME NEW S, IsFiniteSet(S), NEW f, DOMAIN f = S, NEW T, T = {f[x] : x \in S},
           f = [x \in S |-> f[x]]
    PROVE  IsFiniteSet(T)
<1>1. f \in Surjection(S, T)
    BY DEF Surjection
<1> QED
    BY <1>1, FS_Surjection

(* Numbers between two bounds.                                             *)
LEMMA FiniteInterval ==
    ASSUME NEW a \in Int, NEW b \in Int
    PROVE  IsFiniteSet(a .. b)
BY FS_Interval

(* Pairs, and the members of either set.                                   *)
LEMMA FinitePairs ==
    ASSUME NEW S, NEW T, IsFiniteSet(S), IsFiniteSet(T)
    PROVE  IsFiniteSet(S \X T) /\ IsFiniteSet(S \cup T)
BY FS_Product, FS_Union

-----------------------------------------------------------------------------
(* The recursion of the fold.                                              *)

(* One step of it: take out one element, add its value to the rest.        *)
SumStep(f, g, s) ==
    IF s = {} THEN 0 ELSE LET x == CHOOSE x \in s : TRUE IN f[x] + g[s \ {x}]

(* The fold over every subset of the domain.                               *)
Partial(f) == CHOOSE g : g = [s \in SUBSET DOMAIN f |-> SumStep(f, g, s)]

(* Sum is this fold over the whole domain.                                 *)
LEMMA SumIsPartial ==
    ASSUME NEW f
    PROVE  Sum(f) = Partial(f)[DOMAIN f]
BY DEF Sum, Fn!SumFunction, Fn!SumFunctionOnSet, Fn!FoldFunctionOnSet, Fn!MapThenFoldSet,
       Partial, SumStep

(* The recursion has a solution.                                           *)
LEMMA PartialExists ==
    ASSUME NEW f, NEW D, D = DOMAIN f, IsFiniteSet(D)
    PROVE  Partial(f) = [s \in SUBSET D |-> SumStep(f, Partial(f), s)]
<1> DEFINE Small(n) == {s \in SUBSET D : Cardinality(s) <= n}
           Good(n, g) == g = [s \in Small(n) |-> SumStep(f, g, s)]
           bad == {n \in Nat : ~\E g : Good(n, g)}
<1>1. \A s \in SUBSET D : IsFiniteSet(s) /\ Cardinality(s) \in Nat
    BY FS_Subset, FS_CardinalityType
<1>2. ASSUME NEW s \in SUBSET D, s # {} PROVE (CHOOSE x \in s : TRUE) \in s
    BY <1>2
<1>3. bad = {}
    <2> SUFFICES ASSUME bad # {} PROVE FALSE
        OBVIOUS
    <2>1. PICK n \in bad : \A k \in bad : n <= k
        <3>1. bad \in SUBSET Nat
            OBVIOUS
        <3> HIDE DEF bad
        <3> QED
            BY <3>1, LeastNatural
    <2>2. CASE n = 0
        <3> DEFINE h == [s \in Small(0) |-> 0]
        <3>1. \A s \in Small(0) : s = {}
            <4> SUFFICES ASSUME NEW s \in SUBSET D, Cardinality(s) <= 0 PROVE s = {}
                OBVIOUS
            <4>1. Cardinality(s) = 0
                BY <1>1
            <4> QED
                BY <1>1, <4>1, FS_EmptySet
        <3>2. \A s \in Small(0) : SumStep(f, h, s) = 0
            BY <3>1 DEF SumStep
        <3>3. Good(0, h)
            BY <3>2
        <3> QED
            BY <2>1, <2>2, <3>3
    <2>3. CASE n # 0
        <3>1. n - 1 \in Nat /\ n - 1 \notin bad
            <4>1. n \in Nat
                BY <2>1
            <4> HIDE DEF bad
            <4> QED
                BY <2>1, <2>3, <4>1
        <3>2. PICK g : Good(n - 1, g)
            BY <3>1
        <3> DEFINE h == [s \in Small(n) |-> SumStep(f, g, s)]
        <3>3. ASSUME NEW s \in Small(n) PROVE SumStep(f, g, s) = SumStep(f, h, s)
            <4>1. CASE s = {}
                BY <4>1 DEF SumStep
            <4>2. CASE s # {}
                <5> DEFINE x == CHOOSE x \in s : TRUE
                           r == s \ {x}
                <5>1. x \in s
                    BY <1>2, <4>2
                <5>2. r \in SUBSET D /\ Cardinality(r) = Cardinality(s) - 1
                    BY <1>1, <5>1, FS_RemoveElement
                <5>3. r \in Small(n - 1) /\ r \in Small(n)
                    BY <1>1, <2>1, <5>2
                <5>4. g[r] = SumStep(f, g, r) /\ h[r] = SumStep(f, g, r)
                    <6> HIDE DEF r, Small
                    <6>1. g[r] = SumStep(f, g, r)
                        BY <3>2, <5>3
                    <6> QED
                        BY <5>3, <6>1
                <5>5. g[r] = h[r]
                    BY <5>4
                <5> QED
                    <6>1. SumStep(f, g, s) = f[x] + g[r] /\ SumStep(f, h, s) = f[x] + h[r]
                        BY <4>2 DEF SumStep
                    <6> HIDE DEF x, r, h
                    <6> QED
                        BY <5>5, <6>1
            <4> QED
                BY <4>1, <4>2
        <3>4. Good(n, h)
            <4> HIDE DEF Small
            <4> QED
                BY <3>3
        <3> QED
            BY <2>1, <3>4
    <2> QED
        BY <2>2, <2>3
<1>4. PICK g : Good(Cardinality(D), g)
    BY <1>1, <1>3
<1>5. Small(Cardinality(D)) = SUBSET D
    BY FS_Subset
<1>6. \E q : q = [s \in SUBSET DOMAIN f |-> SumStep(f, q, s)]
    BY <1>4, <1>5
<1> HIDE DEF Small
<1> QED
    BY <1>6 DEF Partial

-----------------------------------------------------------------------------
(* The facts about sums over a part of the domain.                         *)

(* The sum over the part s.                                                *)
Over(f, s) == Partial(f)[s]

(* One element is taken out first.                                         *)
LEMMA OverStep ==
    ASSUME NEW f, IsFiniteSet(DOMAIN f), NEW s \in SUBSET DOMAIN f
    PROVE  /\ s = {} => Over(f, s) = 0
           /\ s # {} => \E x \in s : Over(f, s) = f[x] + Over(f, s \ {x})
<1>1. Over(f, s) = SumStep(f, Partial(f), s)
    <2>1. Partial(f) = [r \in SUBSET DOMAIN f |-> SumStep(f, Partial(f), r)]
        BY PartialExists
    <2> HIDE DEF Partial
    <2> QED
        BY <2>1 DEF Over
<1>2. s # {} => (CHOOSE x \in s : TRUE) \in s
    OBVIOUS
<1>3. ASSUME s # {} PROVE \E x \in s : SumStep(f, Partial(f), s) = f[x] + Over(f, s \ {x})
    <2> DEFINE x == CHOOSE x \in s : TRUE
    <2>1. SumStep(f, Partial(f), s) = f[x] + Partial(f)[s \ {x}]
        BY <1>3 DEF SumStep
    <2>2. x \in s
        BY <1>2, <1>3
    <2> HIDE DEF x
    <2> QED
        BY <2>1, <2>2 DEF Over
<1> QED
    BY <1>1, <1>3 DEF SumStep

(* A sum of integers is an integer.                                        *)
LEMMA OverType ==
    ASSUME NEW D, IsFiniteSet(D), NEW f \in [D -> Int]
    PROVE  \A s \in SUBSET D : Over(f, s) \in Int
<1> DEFINE T == {s \in SUBSET D : Over(f, s) \in Int}
<1>0. DOMAIN f = D
    OBVIOUS
<1>1. {} \in T
    BY <1>0, OverStep
<1>2. ASSUME NEW s \in SUBSET D, s # {}, \A d \in s : s \ {d} \in T PROVE s \in T
    <2>1. PICK x \in s : Over(f, s) = f[x] + Over(f, s \ {x})
        BY <1>0, <1>2, OverStep
    <2> QED
        BY <1>2, <2>1
<1>3. \A s \in SUBSET D : s \in T
    <2> HIDE DEF T
    <2> QED
        BY <1>1, <1>2, SubsetInduction
<1> QED
    BY <1>3

(* It does not matter which element is taken out.                          *)
LEMMA OverAny ==
    ASSUME NEW D, IsFiniteSet(D), NEW f \in [D -> Int]
    PROVE  \A s \in SUBSET D : \A d \in s : Over(f, s) = f[d] + Over(f, s \ {d})
<1> DEFINE T == {s \in SUBSET D : \A d \in s : Over(f, s) = f[d] + Over(f, s \ {d})}
<1>0. DOMAIN f = D
    OBVIOUS
<1>1. {} \in T
    OBVIOUS
<1>2. ASSUME NEW s \in SUBSET D, s # {}, \A d \in s : s \ {d} \in T PROVE s \in T
    <2>1. PICK x \in s : Over(f, s) = f[x] + Over(f, s \ {x})
        BY <1>0, <1>2, OverStep
    <2>2. ASSUME NEW d \in s PROVE Over(f, s) = f[d] + Over(f, s \ {d})
        <3>1. CASE d = x
            BY <2>1, <3>1
        <3>2. CASE d # x
            <4> DEFINE r == (s \ {x}) \ {d}
            <4>1. /\ Over(f, s \ {x}) = f[d] + Over(f, r)
                  /\ Over(f, s \ {d}) = f[x] + Over(f, (s \ {d}) \ {x})
                BY <1>2, <3>2
            <4>2. (s \ {d}) \ {x} = r
                OBVIOUS
            <4>3. Over(f, r) \in Int /\ f[d] \in Int /\ f[x] \in Int
                BY OverType
            <4>4. \A a, b, c \in Int : a + (b + c) = b + (a + c)
                OBVIOUS
            <4> HIDE DEF r
            <4>5. Over(f, s) = f[x] + (f[d] + Over(f, r))
                BY <2>1, <4>1
            <4>6. f[d] + Over(f, s \ {d}) = f[d] + (f[x] + Over(f, r))
                BY <4>1, <4>2
            <4> QED
                BY <4>3, <4>4, <4>5, <4>6
        <3> QED
            BY <3>1, <3>2
    <2> QED
        BY <2>2
<1>3. \A s \in SUBSET D : s \in T
    <2> HIDE DEF T
    <2> QED
        BY <1>1, <1>2, SubsetInduction
<1> QED
    BY <1>3

(* A sum is at least as large as one with smaller values.                  *)
LEMMA OverMonotone ==
    ASSUME NEW D, IsFiniteSet(D), NEW f \in [D -> Int], NEW g \in [D -> Int]
    PROVE  \A s \in SUBSET D : (\A d \in s : g[d] <= f[d]) => Over(g, s) <= Over(f, s)
<1> DEFINE T == {s \in SUBSET D : (\A d \in s : g[d] <= f[d]) => Over(g, s) <= Over(f, s)}
<1>0. DOMAIN f = D /\ DOMAIN g = D
    OBVIOUS
<1>1. {} \in T
    <2>1. Over(f, {}) = 0 /\ Over(g, {}) = 0
        BY <1>0, OverStep
    <2> QED
        BY <2>1
<1>2. ASSUME NEW s \in SUBSET D, s # {}, \A d \in s : s \ {d} \in T PROVE s \in T
    <2> SUFFICES ASSUME \A d \in s : g[d] <= f[d] PROVE Over(g, s) <= Over(f, s)
        OBVIOUS
    <2>1. PICK d : d \in s
        BY <1>2
    <2>2. /\ Over(f, s) = f[d] + Over(f, s \ {d})
          /\ Over(g, s) = g[d] + Over(g, s \ {d})
        BY <2>1, OverAny
    <2>3. Over(g, s \ {d}) <= Over(f, s \ {d})
        BY <1>2, <2>1
    <2>4. /\ f[d] \in Int /\ g[d] \in Int /\ g[d] <= f[d]
          /\ Over(f, s \ {d}) \in Int /\ Over(g, s \ {d}) \in Int
        BY <2>1, OverType
    <2> QED
        BY <2>2, <2>3, <2>4
<1>3. \A s \in SUBSET D : s \in T
    <2> HIDE DEF T
    <2> QED
        BY <1>1, <1>2, SubsetInduction
<1> QED
    BY <1>3

(* Sums add up row by row.                                                 *)
LEMMA OverAdds ==
    ASSUME NEW D, IsFiniteSet(D), NEW f \in [D -> Int], NEW g \in [D -> Int], NEW h \in [D -> Int],
           \A d \in D : h[d] = f[d] + g[d]
    PROVE  \A s \in SUBSET D : Over(h, s) = Over(f, s) + Over(g, s)
<1> DEFINE T == {s \in SUBSET D : Over(h, s) = Over(f, s) + Over(g, s)}
<1>0. DOMAIN f = D /\ DOMAIN g = D /\ DOMAIN h = D
    OBVIOUS
<1>1. {} \in T
    <2>1. Over(f, {}) = 0 /\ Over(g, {}) = 0 /\ Over(h, {}) = 0
        BY <1>0, OverStep
    <2> QED
        BY <2>1
<1>2. ASSUME NEW s \in SUBSET D, s # {}, \A d \in s : s \ {d} \in T PROVE s \in T
    <2>1. PICK d : d \in s
        BY <1>2
    <2>2. /\ Over(f, s) = f[d] + Over(f, s \ {d})
          /\ Over(g, s) = g[d] + Over(g, s \ {d})
          /\ Over(h, s) = h[d] + Over(h, s \ {d})
        BY <2>1, OverAny
    <2>3. Over(h, s \ {d}) = Over(f, s \ {d}) + Over(g, s \ {d})
        BY <1>2, <2>1
    <2>4. /\ f[d] \in Int /\ g[d] \in Int /\ h[d] = f[d] + g[d]
          /\ Over(f, s \ {d}) \in Int /\ Over(g, s \ {d}) \in Int
        BY <2>1, OverType
    <2> QED
        BY <2>2, <2>3, <2>4
<1>3. \A s \in SUBSET D : s \in T
    <2> HIDE DEF T
    <2> QED
        BY <1>1, <1>2, SubsetInduction
<1> QED
    BY <1>3

-----------------------------------------------------------------------------
(* The theorems about Sum.                                                 *)

(* Sum in terms of the sums over parts.                                    *)
LEMMA SumIsOver ==
    ASSUME NEW D, NEW f, DOMAIN f = D
    PROVE  Sum(f) = Over(f, D)
BY SumIsPartial DEF Over

(* A sum of integers is an integer, and of naturals a natural.             *)
THEOREM SumIsInteger ==
    ASSUME NEW D, IsFiniteSet(D), NEW f \in [D -> Int]
    PROVE  /\ Sum(f) \in Int
           /\ (\A d \in D : f[d] >= 0) => Sum(f) >= 0
<1>1. Sum(f) \in Int
    BY OverType, SumIsOver
<1> DEFINE z == [d \in D |-> 0]
<1>2. z \in [D -> Int] /\ \A d \in D : z[d] = 0 /\ z[d] = z[d] + z[d]
    OBVIOUS
<1> HIDE DEF z
<1>3. Over(z, D) \in Int /\ Over(z, D) = Over(z, D) + Over(z, D)
    BY <1>2, OverType, OverAdds
<1>4. Over(z, D) = 0
    <2>1. \A n \in Int : n = n + n => n = 0
        OBVIOUS
    <2> QED
        BY <1>3, <2>1
<1>5. ASSUME \A d \in D : f[d] >= 0 PROVE Over(z, D) <= Over(f, D)
    <2>1. \A d \in D : z[d] <= f[d]
        BY <1>2, <1>5
    <2> QED
        BY <1>2, <2>1, OverMonotone
<1> QED
    BY <1>1, <1>4, <1>5, SumIsOver

(* Nothing adds up to nothing.                                             *)
THEOREM SumIsZero ==
    ASSUME NEW D, IsFiniteSet(D)
    PROVE  Sum([d \in D |-> 0]) = 0
<1> DEFINE z == [d \in D |-> 0]
<1>2. z \in [D -> Int] /\ DOMAIN z = D /\ \A d \in D : z[d] = 0 /\ z[d] = z[d] + z[d]
    OBVIOUS
<1> HIDE DEF z
<1>3. Over(z, D) \in Int /\ Over(z, D) = Over(z, D) + Over(z, D)
    BY <1>2, OverType, OverAdds
<1>4. Over(z, D) = 0
    <2>1. \A n \in Int : n = n + n => n = 0
        OBVIOUS
    <2> QED
        BY <1>3, <2>1
<1>5. Sum(z) = 0
    BY <1>2, <1>4, SumIsOver
<1> QED
    BY <1>5 DEF z

(* A change of one row changes the sum by as much.                         *)
THEOREM SumChanges ==
    ASSUME NEW D, IsFiniteSet(D), NEW f \in [D -> Int], NEW d \in D, NEW v \in Int
    PROVE  Sum([f EXCEPT ![d] = v]) = Sum(f) - f[d] + v
<1> DEFINE g == [f EXCEPT ![d] = v]
           r == D \ {d}
<1>1. g \in [D -> Int] /\ DOMAIN g = D /\ DOMAIN f = D /\ g[d] = v /\ \A e \in r : g[e] = f[e]
    OBVIOUS
<1> HIDE DEF g
<1>2. Over(f, D) = f[d] + Over(f, r) /\ Over(g, D) = v + Over(g, r)
    BY <1>1, OverAny
<1>3. \A e \in r : g[e] <= f[e] /\ f[e] <= g[e]
    BY <1>1
<1>4. Over(g, r) <= Over(f, r) /\ Over(f, r) <= Over(g, r)
    BY <1>1, <1>3, OverMonotone
<1>5. Over(g, r) \in Int /\ Over(f, r) \in Int /\ f[d] \in Int
    BY <1>1, OverType
<1> HIDE DEF r
<1>6. Sum(g) = Sum(f) - f[d] + v
    BY <1>1, <1>2, <1>4, <1>5, SumIsOver
<1> QED
    BY <1>6 DEF g

(* The sum is monotone.                                                    *)
THEOREM SumGrows ==
    ASSUME NEW D, IsFiniteSet(D), NEW f \in [D -> Int], NEW g \in [D -> Int],
           \A d \in D : g[d] <= f[d]
    PROVE  Sum(g) <= Sum(f)
BY OverMonotone, SumIsOver

(* No row exceeds the sum of rows that are not negative.                   *)
THEOREM SumCovers ==
    ASSUME NEW D, IsFiniteSet(D), NEW f \in [D -> Int], \A d \in D : f[d] >= 0, NEW d \in D
    PROVE  f[d] <= Sum(f)
<1> DEFINE g == [f EXCEPT ![d] = 0]
<1>1. g \in [D -> Int] /\ \A e \in D : g[e] >= 0
    OBVIOUS
<1>2. Sum(g) = Sum(f) - f[d] + 0
    <2>1. 0 \in Int
        OBVIOUS
    <2> QED
        BY <2>1, SumChanges
<1> HIDE DEF g
<1>3. Sum(g) >= 0 /\ Sum(g) \in Int /\ Sum(f) \in Int /\ f[d] \in Int
    BY <1>1, SumIsInteger
<1> QED
    BY <1>2, <1>3

(* The sum of differences is the difference of the sums.                   *)
THEOREM SumSplits ==
    ASSUME NEW D, IsFiniteSet(D), NEW f \in [D -> Int], NEW g \in [D -> Int]
    PROVE  Sum([d \in D |-> f[d] - g[d]]) = Sum(f) - Sum(g)
<1> DEFINE h == [d \in D |-> f[d] - g[d]]
<1>1. h \in [D -> Int] /\ DOMAIN h = D /\ \A d \in D : f[d] = h[d] + g[d]
    OBVIOUS
<1> HIDE DEF h
<1>2. Over(f, D) = Over(h, D) + Over(g, D)
    BY <1>1, OverAdds
<1>3. Over(h, D) \in Int /\ Over(g, D) \in Int
    BY <1>1, OverType
<1>4. Sum(h) = Sum(f) - Sum(g)
    BY <1>1, <1>2, <1>3, SumIsOver
<1> QED
    BY <1>4 DEF h

(* What sums over the rows D of amounts out of V do.                       *)
AddsUp(D, V) ==
    /\ Sum([d \in D |-> 0]) = 0
    /\ \A f \in [D -> V] :
          /\ Sum(f) \in Nat
          /\ \A d \in D : f[d] <= Sum(f)
          /\ \A d \in D, v \in V : Sum([f EXCEPT ![d] = v]) = Sum(f) - f[d] + v
          /\ \A g \in [D -> V] : (\A d \in D : g[d] <= f[d]) => Sum(g) <= Sum(f)

(* The same facts for sums of naturals, in one statement.                  *)
THEOREM NaturalSums ==
    ASSUME NEW D, IsFiniteSet(D), NEW V, V \subseteq Nat
    PROVE  AddsUp(D, V)
<1>1. ASSUME NEW f \in [D -> V] PROVE f \in [D -> Int] /\ \A d \in D : f[d] >= 0
    <2>1. \A d \in D : f[d] \in Nat
        OBVIOUS
    <2>2. \A n \in Nat : n \in Int /\ n >= 0
        OBVIOUS
    <2>3. f = [d \in D |-> f[d]]
        OBVIOUS
    <2> QED
        BY <2>1, <2>2, <2>3
<1>2. ASSUME NEW f \in [D -> V] PROVE Sum(f) \in Nat
    <2>1. Sum(f) \in Int /\ Sum(f) >= 0
        BY <1>1, SumIsInteger
    <2> QED
        BY <2>1
<1>3. ASSUME NEW f \in [D -> V], NEW d \in D PROVE f[d] <= Sum(f)
    BY <1>1, SumCovers
<1>4. ASSUME NEW f \in [D -> V], NEW d \in D, NEW v \in V
      PROVE  Sum([f EXCEPT ![d] = v]) = Sum(f) - f[d] + v
    <2>1. v \in Int
        OBVIOUS
    <2> QED
        BY <1>1, <2>1, SumChanges
<1>5. ASSUME NEW f \in [D -> V], NEW g \in [D -> V], \A d \in D : g[d] <= f[d]
      PROVE  Sum(g) <= Sum(f)
    BY <1>1, <1>5, SumGrows
<1> QED
    BY <1>2, <1>3, <1>4, <1>5, SumIsZero DEF AddsUp

=============================================================================
