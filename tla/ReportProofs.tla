---------------------------- MODULE ReportProofs ----------------------------
(***************************************************************************)
(* Proofs about the output that is kept (OutputSync, in the circumstances  *)
(* its window is made for) and about the figures that pages show of it and *)
(* of the other tables (Calculations): for any window, backlog and output, *)
(* and for any board, floor, plan, requirements and releases, not only the *)
(* bounded ones that the runs enumerate.                                   *)
(***************************************************************************)
EXTENDS OutputSync, Calculations, FiniteSetTheorems, WellFoundedInduction, TLAPS

-----------------------------------------------------------------------------
(***************************************************************************)
(* Numbers, finite sets, and sums over them.                               *)
(***************************************************************************)
\* Every set of natural numbers that is not empty has a smallest member.
Below == {pair \in Nat \X Nat : pair[1] < pair[2]}

LEMMA SmallestExists ==
  ASSUME NEW T \in SUBSET Nat, T # {}
  PROVE  \E n \in T : \A k \in T : n <= k
<1>1. IsWellFoundedOn(Below, Nat)
  BY NatLessThanWellFounded, Zenon DEF OpToRel, Below
<1>2. PICK n \in T : \A k \in T : ~(<<k, n>> \in Below)
  BY <1>1, WFMin, Zenon
<1>3. \A k \in T : ~(k < n)
  BY <1>2 DEF Below
<1> QED BY <1>3

(* A property of numbers, given as the set of those that have it, holds of *)
(* all of them if it holds of 0 and passes on to the next.                 *)
LEMMA StepByStep ==
  ASSUME NEW Good, 0 \in Good, \A n \in Nat : n \in Good => n + 1 \in Good
  PROVE  \A n \in Nat : n \in Good
<1> DEFINE Bad == {n \in Nat : n \notin Good}
<1> SUFFICES ASSUME Bad # {} PROVE FALSE
  OBVIOUS
<1>1. Bad \in SUBSET Nat
  OBVIOUS
<1>2. PICK n \in Bad : \A k \in Bad : n <= k
  <2> HIDE DEF Bad
  <2> QED BY <1>1, SmallestExists
<1>3. n \in Nat /\ n # 0 /\ n - 1 \in Nat /\ (n - 1) + 1 = n
  OBVIOUS
<1>4. n - 1 \notin Bad
  BY <1>2, <1>3
<1>5. n - 1 \in Good
  BY <1>3, <1>4
<1> QED BY <1>3, <1>5

(* A property of sets, given as the set of those that have it, holds of    *)
(* every part of a finite set if it holds of a set as soon as it holds of  *)
(* the set without one of its elements.                                    *)
LEMMA SetInduction ==
  ASSUME NEW D, IsFiniteSet(D), NEW Good,
         \A S \in SUBSET D : (\A x \in S : S \ {x} \in Good) => S \in Good
  PROVE  D \in Good /\ \A S \in SUBSET D : S \in Good
<1> DEFINE Bad == {S \in SUBSET D : S \notin Good}
<1> DEFINE Sizes == {n \in Nat : \E S \in Bad : Cardinality(S) = n}
<1>1. \A S \in SUBSET D : IsFiniteSet(S) /\ Cardinality(S) \in Nat
  BY FS_Subset, FS_CardinalityType
<1>2. SUFFICES ASSUME Bad # {} PROVE FALSE
  OBVIOUS
<1>3. Sizes # {} /\ Sizes \in SUBSET Nat
  BY <1>1, <1>2
<1>4. PICK n \in Sizes : \A k \in Sizes : n <= k
  <2> HIDE DEF Sizes
  <2> QED BY <1>3, SmallestExists
<1>5. PICK S \in Bad : Cardinality(S) = n
  BY <1>4
<1>6. ASSUME NEW x \in S PROVE S \ {x} \in Good
  <2>1. S \ {x} \in SUBSET D /\ Cardinality(S \ {x}) = n - 1 /\ n \in Nat
    BY <1>1, <1>5, FS_RemoveElement
  <2>2. n - 1 \in Nat
    BY <2>1, <1>1
  <2>3. n - 1 \notin Sizes
    BY <1>4, <2>2
  <2>4. S \ {x} \notin Bad
    BY <2>1, <2>2, <2>3
  <2> QED BY <2>1, <2>4
<1> QED BY <1>5, <1>6

(* What a sum is computed by: a function of the parts of D.                *)
Summing(g, f, D) ==
  g = [s \in SUBSET D |-> IF s = {} THEN 0
                          ELSE LET x == CHOOSE x \in s : TRUE IN f[x] + g[s \ {x}]]

(* A sum is computed by such a function, if there is one.                  *)
LEMMA SumIsSumming ==
  ASSUME NEW f, NEW D, \E g : Summing(g, f, D)
  PROVE  \E g : Summing(g, f, D) /\ SumFunctionOnSet(f, D) = g[D]
<1> DEFINE it == CHOOSE iter : iter = [s \in SUBSET D |-> IF s = {} THEN 0
                          ELSE LET x == CHOOSE x \in s : TRUE IN f[x] + iter[s \ {x}]]
<1>1. Summing(it, f, D)
  BY Zenon DEF Summing
<1>2. SumFunctionOnSet(f, D) = it[D]
  BY Zenon DEF SumFunctionOnSet, FoldFunctionOnSet, MapThenFoldSet
<1> QED BY <1>1, <1>2

(* There is such a function for a finite set: it is built up by the size   *)
(* of the parts.                                                           *)
LEMMA SummingExists ==
  ASSUME NEW f, NEW D, IsFiniteSet(D), \A x \in D : f[x] \in Int
  PROVE  \E g : g \in [SUBSET D -> Int] /\ Summing(g, f, D)
<1> DEFINE Pick(s) == CHOOSE x \in s : TRUE
           Upto(n) == {s \in SUBSET D : Cardinality(s) <= n}
           Made(n) == {g \in [Upto(n) -> Int] : \A s \in Upto(n) :
                         g[s] = IF s = {} THEN 0 ELSE f[Pick(s)] + g[s \ {Pick(s)}]}
           Missing == {n \in Nat : Made(n) = {}}
<1>1. \A S \in SUBSET D : IsFiniteSet(S) /\ Cardinality(S) \in Nat
                           /\ (Cardinality(S) = 0 <=> S = {}) /\ Cardinality(S) <= Cardinality(D)
  BY FS_Subset, FS_CardinalityType, FS_EmptySet
<1>2. \A S \in SUBSET D : S # {} => Pick(S) \in S /\ Pick(S) \in D
                                     /\ S \ {Pick(S)} \in SUBSET D
                                     /\ Cardinality(S \ {Pick(S)}) = Cardinality(S) - 1
  <2> SUFFICES ASSUME NEW S \in SUBSET D, S # {}
               PROVE  Pick(S) \in S /\ Cardinality(S \ {Pick(S)}) = Cardinality(S) - 1
    OBVIOUS
  <2>1. Pick(S) \in S
    OBVIOUS
  <2> HIDE DEF Pick
  <2> QED BY <2>1, <1>1, FS_RemoveElement
<1> HIDE DEF Pick
<1>3. Missing = {}
  <2> SUFFICES ASSUME Missing # {} PROVE FALSE
    OBVIOUS
  <2>1. PICK n \in Missing : \A k \in Missing : n <= k
    <3>1. Missing \in SUBSET Nat
      OBVIOUS
    <3> HIDE DEF Missing
    <3> QED BY <3>1, SmallestExists
  <2>2. n # 0
    <3> DEFINE g == [s \in Upto(0) |-> 0]
    <3>1. SUFFICES ASSUME n = 0 PROVE FALSE
      OBVIOUS
    <3>2. \A s \in Upto(0) : s = {}
      BY <1>1
    <3>3. g \in Made(0)
      BY <3>2
    <3> QED BY <3>1, <3>3
  <2>3. PICK m \in Nat : n = m + 1
    <3>1. n - 1 \in Nat /\ n = (n - 1) + 1
      BY <2>2
    <3> QED BY <3>1
  <2>4. PICK g : g \in Made(m)
    <3>1. m \notin Missing
      <4> HIDE DEF Missing
      <4> QED BY <2>1, <2>3
    <3> QED BY <3>1
  <2> DEFINE h == [s \in Upto(n) |-> IF Cardinality(s) <= m THEN g[s]
                                     ELSE f[Pick(s)] + g[s \ {Pick(s)}]]
  <2>5. \A s \in Upto(n) : s # {} => s \ {Pick(s)} \in Upto(m)
    BY <1>1, <1>2, <2>3
  <2>6. \A s \in Upto(m) : g[s] \in Int /\ s \in Upto(n) /\ h[s] = g[s]
    BY <1>1, <2>3, <2>4
  <2>7. \A s \in Upto(n) : h[s] \in Int
    <3> SUFFICES ASSUME NEW s \in Upto(n) PROVE h[s] \in Int
      OBVIOUS
    <3>1. CASE Cardinality(s) <= m
      BY <3>1, <2>6
    <3>2. CASE ~(Cardinality(s) <= m)
      <4>1. s # {}
        BY <3>2, <1>1
      <4>2. f[Pick(s)] \in Int /\ g[s \ {Pick(s)}] \in Int
        BY <4>1, <1>2, <2>5, <2>6
      <4> QED BY <4>2, <3>2
    <3> QED BY <3>1, <3>2
  <2>8. \A s \in Upto(n) : h[s] = IF s = {} THEN 0 ELSE f[Pick(s)] + h[s \ {Pick(s)}]
    <3> SUFFICES ASSUME NEW s \in Upto(n)
                 PROVE  h[s] = IF s = {} THEN 0 ELSE f[Pick(s)] + h[s \ {Pick(s)}]
      OBVIOUS
    <3>1. s # {} => h[s \ {Pick(s)}] = g[s \ {Pick(s)}]
      BY <2>5, <2>6
    <3>2. CASE Cardinality(s) <= m
      BY <3>1, <3>2, <2>4, <2>6
    <3>3. CASE ~(Cardinality(s) <= m)
      <4>1. s # {}
        BY <3>3, <1>1
      <4>2. h[s] = f[Pick(s)] + g[s \ {Pick(s)}]
        BY <3>3
      <4> QED BY <4>1, <4>2, <3>1
    <3> QED BY <3>2, <3>3
  <2>9. h \in Made(n)
    <3>1. h \in [Upto(n) -> Int]
      BY <2>7
    <3> HIDE DEF h
    <3> QED BY <3>1, <2>8
  <2> HIDE DEF h
  <2> QED BY <2>1, <2>9
<1>4. PICK g : g \in Made(Cardinality(D))
  BY <1>1, <1>3
<1>5. Upto(Cardinality(D)) = SUBSET D
  BY <1>1
<1>6. g \in [SUBSET D -> Int]
  BY <1>4, <1>5
<1>7. g = [s \in SUBSET D |-> g[s]]
  BY <1>6
<1>8. \A s \in SUBSET D : g[s] = IF s = {} THEN 0 ELSE f[Pick(s)] + g[s \ {Pick(s)}]
  BY <1>4, <1>5
<1>9. g = [s \in SUBSET D |-> IF s = {} THEN 0 ELSE f[Pick(s)] + g[s \ {Pick(s)}]]
  BY <1>7, <1>8
<1> QED BY <1>6, <1>9, Zenon DEF Summing, Pick

(* Any two of them agree where both are defined.                           *)
LEMMA SummingUnique ==
  ASSUME NEW f, NEW D, IsFiniteSet(D), NEW g, Summing(g, f, D), NEW E \in SUBSET D, NEW h,
           Summing(h, f, E)
  PROVE  g[E] = h[E]
<1> DEFINE Pick(s) == CHOOSE x \in s : TRUE
           Good == {s \in SUBSET E : g[s] = h[s]}
<1>1. IsFiniteSet(E)
  BY FS_Subset
<1>2. \A s \in SUBSET D : g[s] = IF s = {} THEN 0 ELSE f[Pick(s)] + g[s \ {Pick(s)}]
  <2> DEFINE Rec(s) == IF s = {} THEN 0 ELSE f[Pick(s)] + g[s \ {Pick(s)}]
  <2>1. g = [s \in SUBSET D |-> Rec(s)]
    BY Zenon DEF Summing
  <2> HIDE DEF Rec
  <2>2. \A s \in SUBSET D : g[s] = Rec(s)
    BY <2>1
  <2> QED BY <2>2 DEF Rec
<1>3. \A s \in SUBSET E : h[s] = IF s = {} THEN 0 ELSE f[Pick(s)] + h[s \ {Pick(s)}]
  <2> DEFINE Rec(s) == IF s = {} THEN 0 ELSE f[Pick(s)] + h[s \ {Pick(s)}]
  <2>1. h = [s \in SUBSET E |-> Rec(s)]
    BY Zenon DEF Summing
  <2> HIDE DEF Rec
  <2>2. \A s \in SUBSET E : h[s] = Rec(s)
    BY <2>1
  <2> QED BY <2>2 DEF Rec
<1>4. \A s \in SUBSET E : s # {} => Pick(s) \in s
  OBVIOUS
<1> HIDE DEF Pick
<1>5. \A s \in SUBSET E : (\A x \in s : s \ {x} \in Good) => s \in Good
  BY <1>2, <1>3, <1>4
<1>6. E \in Good
  <2> HIDE DEF Good
  <2> QED BY <1>1, <1>5, SetInduction
<1> QED BY <1>6

(* A sum is a number, and is made up of any of its terms and the rest.     *)
LEMMA SumOfNone ==
  ASSUME NEW f
  PROVE  SumFunctionOnSet(f, {}) = 0
<1>1. IsFiniteSet({}) /\ \A x \in {} : f[x] \in Int
  BY FS_EmptySet
<1>2. PICK g : Summing(g, f, {}) /\ SumFunctionOnSet(f, {}) = g[{}]
  BY <1>1, SummingExists, SumIsSumming
<1>3. g[{}] = 0
  BY <1>2 DEF Summing
<1> QED BY <1>2, <1>3

(* A sum of numbers is a number.                                           *)
LEMMA SumInt ==
  ASSUME NEW f, NEW D, IsFiniteSet(D), \A x \in D : f[x] \in Int
  PROVE  SumFunctionOnSet(f, D) \in Int
<1>1. PICK g : g \in [SUBSET D -> Int] /\ Summing(g, f, D)
  BY SummingExists
<1>2. PICK h : Summing(h, f, D) /\ SumFunctionOnSet(f, D) = h[D]
  BY <1>1, SumIsSumming
<1>3. g[D] = h[D]
  BY <1>1, <1>2, SummingUnique
<1> QED BY <1>1, <1>2, <1>3

(* A sum is any of its terms and the sum of the rest.                      *)
LEMMA SumOfRest ==
  ASSUME NEW f, NEW D, IsFiniteSet(D), \A x \in D : f[x] \in Int, NEW y \in D
  PROVE  SumFunctionOnSet(f, D) = f[y] + SumFunctionOnSet(f, D \ {y})
<1> DEFINE Pick(s) == CHOOSE x \in s : TRUE
           S(s) == SumFunctionOnSet(f, s)
           Good == {s \in SUBSET D : \A x \in s : S(s) = f[x] + S(s \ {x})}
<1>1. PICK g : g \in [SUBSET D -> Int] /\ Summing(g, f, D)
  BY SummingExists
<1>2. \A s \in SUBSET D : S(s) = g[s] /\ S(s) \in Int
  <2> SUFFICES ASSUME NEW s \in SUBSET D PROVE S(s) = g[s] /\ S(s) \in Int
    OBVIOUS
  <2>1. IsFiniteSet(s)
    BY FS_Subset
  <2>2. PICK h : Summing(h, f, s) /\ SumFunctionOnSet(f, s) = h[s]
    BY <2>1, SummingExists, SumIsSumming
  <2>3. g[s] = h[s]
    BY <1>1, <2>2, SummingUnique
  <2> QED BY <1>1, <2>2, <2>3
<1>3. \A s \in SUBSET D : s # {} => Pick(s) \in s /\ S(s) = f[Pick(s)] + S(s \ {Pick(s)})
  <2> DEFINE Rec(s) == IF s = {} THEN 0 ELSE f[Pick(s)] + g[s \ {Pick(s)}]
  <2>1. g = [s \in SUBSET D |-> Rec(s)]
    BY <1>1, Zenon DEF Summing
  <2>2. \A s \in SUBSET D : s # {} => Pick(s) \in s
    OBVIOUS
  <2> HIDE DEF Pick, Rec, S
  <2>3. \A s \in SUBSET D : g[s] = Rec(s)
    BY <2>1
  <2> QED BY <1>2, <2>2, <2>3 DEF Rec
<1> HIDE DEF Pick, S
<1>4. ASSUME NEW s \in SUBSET D, \A x \in s : s \ {x} \in Good PROVE s \in Good
  <2> SUFFICES ASSUME NEW x \in s PROVE S(s) = f[x] + S(s \ {x})
    OBVIOUS
  <2> DEFINE p == Pick(s)   r == (s \ {x}) \ {p}
  <2>1. p \in s /\ S(s) = f[p] + S(s \ {p})
    BY <1>3
  <2>2. CASE x = p
    BY <2>1, <2>2
  <2>3. CASE x # p
    <3> HIDE DEF p
    <3>1. S(s \ {p}) = f[x] + S((s \ {p}) \ {x})
      BY <1>4, <2>1, <2>3
    <3>2. S(s \ {x}) = f[p] + S(r)
      BY <1>4, <2>1, <2>3
    <3>3. (s \ {p}) \ {x} = r
      OBVIOUS
    <3>4. S(r) \in Int /\ f[p] \in Int /\ f[x] \in Int
      BY <1>2, <2>1
    <3>5. S(s) = f[p] + (f[x] + S(r)) /\ f[x] + S(s \ {x}) = f[x] + (f[p] + S(r))
      <4> HIDE DEF r
      <4> QED BY <2>1, <3>1, <3>2, <3>3
    <3>6. f[p] + (f[x] + S(r)) = f[x] + (f[p] + S(r))
      <4> HIDE DEF r
      <4> QED BY <3>4
    <3> QED BY <3>5, <3>6, Zenon
  <2> QED BY <2>2, <2>3
<1>5. D \in Good
  <2>1. \A s \in SUBSET D : (\A x \in s : s \ {x} \in Good) => s \in Good
    BY <1>4
  <2> HIDE DEF Good
  <2>2. \A s \in SUBSET D : s \in Good
    BY <2>1, SetInduction
  <2> QED BY <2>2
<1>6. S(D) = f[y] + S(D \ {y})
  BY <1>5
<1> QED BY <1>6 DEF S

(* Sums over one set compare as their terms do.                            *)
LEMMA SumSame ==
  ASSUME NEW f, NEW h, NEW D, IsFiniteSet(D),
         \A x \in D : f[x] \in Int /\ h[x] = f[x]
  PROVE  SumFunctionOnSet(f, D) = SumFunctionOnSet(h, D)
<1> DEFINE F(s) == SumFunctionOnSet(f, s)
           H(s) == SumFunctionOnSet(h, s)
           Good == {s \in SUBSET D : F(s) = H(s)}
<1>1. F({}) = H({})
  BY SumOfNone
<1>2. \A s \in SUBSET D : \A x \in s : /\ F(s) = f[x] + F(s \ {x})
                                        /\ H(s) = f[x] + H(s \ {x})
  <2> SUFFICES ASSUME NEW s \in SUBSET D, NEW x \in s
               PROVE  F(s) = f[x] + F(s \ {x}) /\ H(s) = f[x] + H(s \ {x})
    OBVIOUS
  <2>1. IsFiniteSet(s) /\ \A y \in s : f[y] \in Int /\ h[y] \in Int
    BY FS_Subset
  <2> QED BY <2>1, SumOfRest
<1> HIDE DEF F, H
<1>3. \A s \in SUBSET D : (\A x \in s : s \ {x} \in Good) => s \in Good
  BY <1>1, <1>2
<1>4. D \in Good
  <2> HIDE DEF Good
  <2> QED BY <1>3, SetInduction
<1>5. F(D) = H(D)
  BY <1>4
<1> QED BY <1>5 DEF F, H

(* A sum of smaller terms is smaller, or every term is the same.           *)
LEMMA SumAtMost ==
  ASSUME NEW f, NEW h, NEW D, IsFiniteSet(D),
         \A x \in D : f[x] \in Int /\ h[x] \in Int /\ f[x] <= h[x]
  PROVE  /\ SumFunctionOnSet(f, D) <= SumFunctionOnSet(h, D)
         /\ SumFunctionOnSet(f, D) = SumFunctionOnSet(h, D) => \A x \in D : f[x] = h[x]
<1> DEFINE F(s) == SumFunctionOnSet(f, s)
           H(s) == SumFunctionOnSet(h, s)
           Good == {s \in SUBSET D : F(s) <= H(s)}
<1>1. F({}) <= H({})
  BY SumOfNone
<1>2. \A s \in SUBSET D : /\ F(s) \in Int /\ H(s) \in Int
                          /\ \A x \in s : /\ F(s) = f[x] + F(s \ {x})
                                          /\ H(s) = h[x] + H(s \ {x})
  <2> SUFFICES ASSUME NEW s \in SUBSET D
               PROVE  /\ F(s) \in Int /\ H(s) \in Int
                      /\ \A x \in s : /\ F(s) = f[x] + F(s \ {x})
                                      /\ H(s) = h[x] + H(s \ {x})
    OBVIOUS
  <2>1. IsFiniteSet(s) /\ \A y \in s : f[y] \in Int /\ h[y] \in Int
    BY FS_Subset
  <2> QED BY <2>1, SumOfRest, SumInt
<1> HIDE DEF F, H
<1>3. ASSUME NEW s \in SUBSET D, \A x \in s : s \ {x} \in Good PROVE s \in Good
  <2>1. CASE s = {}
    BY <1>1, <2>1
  <2>2. CASE s # {}
    <3>1. PICK x \in s : TRUE
      BY <2>2
    <3>2. F(s \ {x}) <= H(s \ {x})
      BY <1>3, <3>1
    <3>3. F(s \ {x}) \in Int /\ H(s \ {x}) \in Int /\ f[x] \in Int /\ h[x] \in Int /\ f[x] <= h[x]
      BY <1>2
    <3>4. F(s) = f[x] + F(s \ {x}) /\ H(s) = h[x] + H(s \ {x})
      BY <1>2
    <3> QED BY <3>2, <3>3, <3>4
  <2> QED BY <2>1, <2>2
<1>4. \A s \in SUBSET D : s \in Good
  <2> HIDE DEF Good
  <2>1. \A s \in SUBSET D : (\A x \in s : s \ {x} \in Good) => s \in Good
    BY <1>3
  <2> QED BY <2>1, SetInduction
<1>5. F(D) <= H(D)
  BY <1>4
<1>6. ASSUME F(D) = H(D), NEW x \in D PROVE f[x] = h[x]
  <2>1. F(D \ {x}) <= H(D \ {x})
    BY <1>4
  <2>2. /\ F(D \ {x}) \in Int /\ H(D \ {x}) \in Int
        /\ F(D) = f[x] + F(D \ {x}) /\ H(D) = h[x] + H(D \ {x})
    BY <1>2
  <2>3. f[x] \in Int /\ h[x] \in Int /\ f[x] <= h[x]
    BY <1>6
  <2>4. f[x] + F(D \ {x}) = h[x] + H(D \ {x})
    BY <1>6, <2>2
  <2> QED BY <2>1, <2>2, <2>3, <2>4
<1> QED BY <1>5, <1>6 DEF F, H

(* Sums of what is never negative.                                         *)
LEMMA SumNat ==
  ASSUME NEW f, NEW D, IsFiniteSet(D), \A x \in D : f[x] \in Nat
  PROVE  /\ SumFunctionOnSet(f, D) \in Nat
         /\ SumFunctionOnSet(f, D) = 0 <=> \A x \in D : f[x] = 0
         /\ \A x \in D : f[x] <= SumFunctionOnSet(f, D)
<1> DEFINE F(s) == SumFunctionOnSet(f, s)
           Good == {s \in SUBSET D : F(s) \in Nat /\ (F(s) = 0 <=> \A x \in s : f[x] = 0)}
<1>1. F({}) = 0
  BY SumOfNone
<1>2. \A s \in SUBSET D : \A x \in s : F(s) = f[x] + F(s \ {x})
  <2> SUFFICES ASSUME NEW s \in SUBSET D, NEW x \in s PROVE F(s) = f[x] + F(s \ {x})
    OBVIOUS
  <2>1. IsFiniteSet(s) /\ \A y \in s : f[y] \in Int
    BY FS_Subset
  <2> QED BY <2>1, SumOfRest
<1> HIDE DEF F
<1>3. ASSUME NEW s \in SUBSET D, \A x \in s : s \ {x} \in Good PROVE s \in Good
  <2>1. CASE s = {}
    BY <1>1, <2>1
  <2>2. CASE s # {}
    <3>1. PICK x \in s : TRUE
      BY <2>2
    <3> DEFINE r == s \ {x}
    <3>2. /\ F(r) \in Nat /\ (F(r) = 0 <=> \A y \in r : f[y] = 0)
          /\ F(s) = f[x] + F(r) /\ f[x] \in Nat
          /\ \A y \in s : y = x \/ y \in r
          /\ r \subseteq s
      BY <1>2, <1>3, <3>1
    <3> HIDE DEF r
    <3>3. F(s) \in Nat /\ (F(s) = 0 <=> f[x] = 0 /\ F(r) = 0)
      BY <3>2
    <3> QED BY <3>2, <3>3, <3>1
  <2> QED BY <2>1, <2>2
<1>4. \A s \in SUBSET D : s \in Good
  <2> HIDE DEF Good
  <2>1. \A s \in SUBSET D : (\A x \in s : s \ {x} \in Good) => s \in Good
    BY <1>3
  <2> QED BY <2>1, SetInduction
<1>5. F(D) \in Nat /\ (F(D) = 0 <=> \A x \in D : f[x] = 0)
  BY <1>4
<1>6. ASSUME NEW x \in D PROVE f[x] <= F(D)
  <2>1. F(D \ {x}) \in Nat /\ F(D) = f[x] + F(D \ {x}) /\ f[x] \in Nat
    BY <1>2, <1>4
  <2> QED BY <2>1
<1> QED BY <1>5, <1>6 DEF F

(* A set is counted by a sum of ones, a part of it by ones and zeros.      *)
LEMMA SumCounts ==
  ASSUME NEW D, IsFiniteSet(D), NEW f, \A x \in D : f[x] \in {0, 1}
  PROVE  SumFunctionOnSet(f, D) = Cardinality({x \in D : f[x] = 1})
<1> DEFINE F(s) == SumFunctionOnSet(f, s)
           Ones(s) == {x \in s : f[x] = 1}
           Good == {s \in SUBSET D : F(s) = Cardinality(Ones(s))}
<1>1. F({}) = 0 /\ Cardinality(Ones({})) = 0
  <2>1. Ones({}) = {}
    OBVIOUS
  <2> HIDE DEF Ones
  <2> QED BY <2>1, SumOfNone, FS_EmptySet
<1>2. \A s \in SUBSET D : \A x \in s :
         /\ F(s) = f[x] + F(s \ {x})
         /\ Cardinality(Ones(s)) \in Nat /\ Cardinality(Ones(s \ {x})) \in Nat
         /\ Cardinality(Ones(s)) = f[x] + Cardinality(Ones(s \ {x}))
  <2> SUFFICES ASSUME NEW s \in SUBSET D, NEW x \in s
               PROVE  /\ F(s) = f[x] + F(s \ {x})
                      /\ Cardinality(Ones(s)) \in Nat /\ Cardinality(Ones(s \ {x})) \in Nat
                      /\ Cardinality(Ones(s)) = f[x] + Cardinality(Ones(s \ {x}))
    OBVIOUS
  <2>1. IsFiniteSet(s) /\ \A y \in s : f[y] \in Int
    BY FS_Subset
  <2>2. IsFiniteSet(Ones(s)) /\ IsFiniteSet(Ones(s \ {x}))
    BY <2>1, FS_Subset
  <2>3. F(s) = f[x] + F(s \ {x})
    BY <2>1, SumOfRest
  <2>4. Ones(s \ {x}) = Ones(s) \ {x} /\ (x \in Ones(s) <=> f[x] = 1) /\ f[x] \in {0, 1}
    OBVIOUS
  <2> HIDE DEF Ones, F
  <2>5. Cardinality(Ones(s)) \in Nat /\ Cardinality(Ones(s \ {x})) \in Nat
    BY <2>2, FS_CardinalityType
  <2>6. Cardinality(Ones(s) \ {x}) = IF x \in Ones(s) THEN Cardinality(Ones(s)) - 1
                                                      ELSE Cardinality(Ones(s))
    BY <2>2, FS_RemoveElement
  <2>7. Cardinality(Ones(s \ {x})) = Cardinality(Ones(s) \ {x})
    BY <2>4, Zenon
  <2>8. CASE f[x] = 1
    BY <2>3, <2>4, <2>5, <2>6, <2>7, <2>8
  <2>9. CASE f[x] = 0
    BY <2>3, <2>4, <2>5, <2>6, <2>7, <2>9
  <2> QED BY <2>4, <2>8, <2>9
<1> HIDE DEF F, Ones
<1>3. \A s \in SUBSET D : (\A x \in s : s \ {x} \in Good) => s \in Good
  BY <1>1, <1>2, ZenonT(60)
<1>4. D \in Good
  <2> HIDE DEF Good
  <2> QED BY <1>3, SetInduction
<1>5. F(D) = Cardinality(Ones(D))
  BY <1>4
<1> QED BY <1>5 DEF F, Ones

(* Two sums over one set, or over two sets that have nothing in common.    *)
LEMMA SumUnion ==
  ASSUME NEW f, NEW S, NEW T, IsFiniteSet(S), IsFiniteSet(T), S \cap T = {},
         \A x \in S \cup T : f[x] \in Int
  PROVE  SumFunctionOnSet(f, S \cup T) = SumFunctionOnSet(f, S) + SumFunctionOnSet(f, T)
<1> DEFINE F(s) == SumFunctionOnSet(f, s)
           Good == {s \in SUBSET S : F(s \cup T) = F(s) + F(T)}
<1>1. F({}) = 0 /\ F(T) \in Int /\ {} \cup T = T
  BY SumOfNone, SumInt
<1>2. \A s \in SUBSET S : \A x \in s :
         /\ F(s) = f[x] + F(s \ {x}) /\ F(s \ {x}) \in Int /\ f[x] \in Int
         /\ F(s \cup T) = f[x] + F((s \ {x}) \cup T)
  <2> SUFFICES ASSUME NEW s \in SUBSET S, NEW x \in s
               PROVE  /\ F(s) = f[x] + F(s \ {x}) /\ F(s \ {x}) \in Int /\ f[x] \in Int
                      /\ F(s \cup T) = f[x] + F((s \ {x}) \cup T)
    OBVIOUS
  <2>1. IsFiniteSet(s) /\ IsFiniteSet(s \ {x}) /\ IsFiniteSet(s \cup T)
    BY FS_Subset, FS_Union
  <2>2. (s \cup T) \ {x} = (s \ {x}) \cup T
    OBVIOUS
  <2>3. F(s) = f[x] + F(s \ {x}) /\ F(s \ {x}) \in Int
    BY <2>1, SumOfRest, SumInt
  <2>4. F(s \cup T) = f[x] + F((s \cup T) \ {x})
    BY <2>1, SumOfRest
  <2> HIDE DEF F
  <2> QED BY <2>2, <2>3, <2>4
<1> HIDE DEF F
<1>3. ASSUME NEW s \in SUBSET S, \A x \in s : s \ {x} \in Good PROVE s \in Good
  <2>1. CASE s = {}
    BY <1>1, <2>1
  <2>2. CASE s # {}
    <3>1. PICK x \in s : TRUE
      BY <2>2
    <3>2. F((s \ {x}) \cup T) = F(s \ {x}) + F(T)
      BY <1>3, <3>1
    <3>3. /\ F(s) = f[x] + F(s \ {x}) /\ F(s \ {x}) \in Int /\ f[x] \in Int
          /\ F(s \cup T) = f[x] + F((s \ {x}) \cup T)
      BY <1>2, <3>1
    <3>4. F(s \cup T) = F(s) + F(T)
      BY <1>1, <3>2, <3>3
    <3> QED BY <3>4
  <2> QED BY <2>1, <2>2
<1>4. S \in Good
  <2> HIDE DEF Good
  <2> QED BY <1>3, SetInduction
<1>5. F(S \cup T) = F(S) + F(T)
  BY <1>4
<1> QED BY <1>5 DEF F
Whole(part, K) == UNION {part[k] : k \in K}

(* A sum over parts that have nothing in common is the sum of their sums.  *)
LEMMA SumByParts ==
  ASSUME NEW f, NEW K, IsFiniteSet(K), NEW part, NEW h,
         \A k \in K : IsFiniteSet(part[k]), \A k \in K : \A x \in part[k] : f[x] \in Int,
         \A k \in K : h[k] = SumFunctionOnSet(f, part[k]),
         \A k, l \in K : k # l => part[k] \cap part[l] = {}
  PROVE  /\ IsFiniteSet(Whole(part, K))
         /\ SumFunctionOnSet(f, Whole(part, K)) = SumFunctionOnSet(h, K)
<1> DEFINE F(s) == SumFunctionOnSet(f, s)
           H(s) == SumFunctionOnSet(h, s)
           Of(s) == Whole(part, s)
           Good == {s \in SUBSET K : IsFiniteSet(Of(s)) /\ F(Of(s)) = H(s)}
<1>1. IsFiniteSet(Of({})) /\ F(Of({})) = H({})
  <2>1. Of({}) = {}
    BY DEF Whole
  <2> HIDE DEF Of
  <2> QED BY <2>1, SumOfNone, FS_EmptySet
<1>2. \A k \in K : h[k] \in Int
  BY SumInt
<1>3. \A s \in SUBSET K : \A k \in s : H(s) = h[k] + H(s \ {k})
  <2> SUFFICES ASSUME NEW s \in SUBSET K, NEW k \in s PROVE H(s) = h[k] + H(s \ {k})
    OBVIOUS
  <2>1. IsFiniteSet(s)
    BY FS_Subset
  <2> QED BY <1>2, <2>1, SumOfRest
<1>4. \A s \in SUBSET K : \A k \in s : /\ Of(s) = part[k] \cup Of(s \ {k})
                                       /\ part[k] \cap Of(s \ {k}) = {}
                                       /\ \A x \in Of(s \ {k}) : f[x] \in Int
  BY DEF Whole
<1> HIDE DEF Of
<1>5. ASSUME NEW s \in SUBSET K, \A k \in s : s \ {k} \in Good PROVE s \in Good
  <2>1. CASE s = {}
    BY <1>1, <2>1
  <2>2. CASE s # {}
    <3>1. PICK k \in s : TRUE
      BY <2>2
    <3>2. IsFiniteSet(Of(s \ {k})) /\ F(Of(s \ {k})) = H(s \ {k})
      BY <1>5, <3>1
    <3>3. /\ Of(s) = part[k] \cup Of(s \ {k}) /\ part[k] \cap Of(s \ {k}) = {}
          /\ \A x \in part[k] \cup Of(s \ {k}) : f[x] \in Int
      BY <1>4, <3>1
    <3>4. IsFiniteSet(part[k]) /\ h[k] = F(part[k]) /\ H(s) = h[k] + H(s \ {k})
      BY <1>3, <3>1
    <3>5. IsFiniteSet(Of(s)) /\ F(part[k] \cup Of(s \ {k})) = F(part[k]) + F(Of(s \ {k}))
      <4> DEFINE P == part[k]   Q == Of(s \ {k})
      <4>1. /\ IsFiniteSet(P) /\ IsFiniteSet(Q) /\ P \cap Q = {} /\ Of(s) = P \cup Q
            /\ \A x \in P \cup Q : f[x] \in Int
        BY <3>2, <3>3, <3>4
      <4> HIDE DEF P, Q
      <4>2. IsFiniteSet(P \cup Q) /\ F(P \cup Q) = F(P) + F(Q)
        BY <4>1, FS_Union, SumUnion
      <4> QED BY <4>1, <4>2 DEF P, Q
    <3> HIDE DEF F, H
    <3>6. F(Of(s)) = H(s)
      BY <3>2, <3>3, <3>4, <3>5
    <3> QED BY <3>5, <3>6
  <2> QED BY <2>1, <2>2
<1>6. K \in Good
  <2>1. \A s \in SUBSET K : (\A k \in s : s \ {k} \in Good) => s \in Good
    BY <1>5
  <2> HIDE DEF Good
  <2> QED BY <2>1, SetInduction
<1>7. IsFiniteSet(Of(K)) /\ F(Of(K)) = H(K)
  BY <1>6
<1> QED BY <1>7 DEF F, H, Of

(* The size of a set, by parts.                                            *)
LEMMA CountByParts ==
  ASSUME NEW K, IsFiniteSet(K), NEW part, NEW h,
         \A k \in K : IsFiniteSet(part[k]) /\ h[k] = Cardinality(part[k]),
         \A k, l \in K : k # l => part[k] \cap part[l] = {}
  PROVE  /\ IsFiniteSet(Whole(part, K))
         /\ Cardinality(Whole(part, K)) = SumFunctionOnSet(h, K)
<1> DEFINE All == Whole(part, K)
           one == [x \in All |-> 1]
<1>1. ASSUME NEW s \in SUBSET All, IsFiniteSet(s) PROVE SumFunctionOnSet(one, s) = Cardinality(s)
  <2>1. \A x \in s : one[x] = 1
    OBVIOUS
  <2>2. s = {x \in s : one[x] = 1} /\ \A x \in s : one[x] \in {0, 1}
    BY <2>1
  <2> HIDE DEF one, All
  <2>3. SumFunctionOnSet(one, s) = Cardinality({x \in s : one[x] = 1})
    BY <1>1, <2>2, SumCounts
  <2> QED BY <2>2, <2>3, Zenon
<1>2. \A k \in K : /\ part[k] \in SUBSET All /\ \A x \in part[k] : one[x] \in Int
  BY DEF Whole
<1> HIDE DEF one
<1>3. \A k \in K : h[k] = SumFunctionOnSet(one, part[k])
  <2> HIDE DEF All
  <2> QED BY <1>1, <1>2
<1>4. IsFiniteSet(All) /\ SumFunctionOnSet(one, All) = SumFunctionOnSet(h, K)
  <2>1. \A k \in K : IsFiniteSet(part[k])
    OBVIOUS
  <2>2. \A k \in K : \A x \in part[k] : one[x] \in Int
    BY <1>2
  <2> QED BY <1>3, <2>1, <2>2, SumByParts
<1>5. All \in SUBSET All
  OBVIOUS
<1>6. SumFunctionOnSet(one, All) = Cardinality(All)
  <2> HIDE DEF All
  <2> QED BY <1>1, <1>4, <1>5
<1> QED BY <1>4, <1>6

Images(f, S) == {f[x] : x \in S}

(* The images of a finite set are finitely many.                           *)
LEMMA ImageFinite ==
  ASSUME NEW S, IsFiniteSet(S), NEW f
  PROVE  IsFiniteSet(Images(f, S))
<1> DEFINE T == Images(f, S)   g == [x \in S |-> f[x]]
<1>1. g \in Surjection(S, T)
  BY DEF Surjection, Images
<1> HIDE DEF T, g
<1>2. IsFiniteSet(T)
  BY <1>1, FS_Surjection
<1> QED BY <1>2 DEF T

(* A sum over the images of a set, one for each element.                   *)
LEMMA SumOfImages ==
  ASSUME NEW f, NEW D, IsFiniteSet(D), NEW b, NEW h,
         \A x \in D : h[x] \in Int /\ h[x] = f[b[x]],
         \A x, y \in D : b[x] = b[y] => x = y
  PROVE  /\ IsFiniteSet(Images(b, D))
         /\ SumFunctionOnSet(f, Images(b, D)) = SumFunctionOnSet(h, D)
<1> DEFINE part == [x \in D |-> {b[x]}]
           one(y) == SumFunctionOnSet(f, {y})
<1>1. \A x \in D : one(b[x]) = h[x]
  <2> SUFFICES ASSUME NEW x \in D PROVE one(b[x]) = h[x]
    OBVIOUS
  <2> DEFINE y == b[x]
  <2>1. f[y] \in Int /\ IsFiniteSet({y}) /\ y \in {y} /\ {y} \ {y} = {}
    BY FS_Singleton
  <2> HIDE DEF y
  <2>2. SumFunctionOnSet(f, {y}) = f[y] + SumFunctionOnSet(f, {y} \ {y})
    BY <2>1, SumOfRest
  <2>3. SumFunctionOnSet(f, {y} \ {y}) = 0
    BY <2>1, SumOfNone
  <2>4. SumFunctionOnSet(f, {y}) = f[y]
    BY <2>1, <2>2, <2>3
  <2> QED BY <2>4 DEF y
<1>2. /\ \A x \in D : IsFiniteSet(part[x])
      /\ \A x \in D : \A y \in part[x] : f[y] \in Int
      /\ \A x \in D : h[x] = SumFunctionOnSet(f, part[x])
  BY <1>1, FS_Singleton
<1>3. \A x, y \in D : x # y => part[x] \cap part[y] = {}
  OBVIOUS
<1>4. Whole(part, D) = Images(b, D)
  BY DEF Whole, Images
<1> HIDE DEF part
<1>5. /\ IsFiniteSet(Whole(part, D))
      /\ SumFunctionOnSet(f, Whole(part, D)) = SumFunctionOnSet(h, D)
  BY <1>2, <1>3, SumByParts
<1> QED BY <1>4, <1>5, Zenon

(* A function that counts each element of a set for its image.             *)
Counts(h, D, f, b) ==
  /\ \A x \in D : h[x] \in Int /\ h[x] = f[b[x]]
  /\ \A x, y \in D : b[x] = b[y] => x = y

(* It adds up to the same as over the images.                              *)
LEMMA SumOfCounts ==
  ASSUME NEW D, IsFiniteSet(D), NEW f, NEW b, NEW h, Counts(h, D, f, b)
  PROVE  /\ IsFiniteSet(Images(b, D))
         /\ SumFunctionOnSet(f, Images(b, D)) = SumFunctionOnSet(h, D)
<1>1. \A x \in D : h[x] \in Int /\ h[x] = f[b[x]]
  BY DEF Counts
<1>2. \A x, y \in D : b[x] = b[y] => x = y
  BY DEF Counts
<1> QED BY <1>1, <1>2, SumOfImages

(* A part of a sum of numbers from nought up is no more than the sum.      *)
LEMMA SumOfPart ==
  ASSUME NEW f, NEW B, IsFiniteSet(B), \A x \in B : f[x] \in Nat, NEW A, A \in SUBSET B
  PROVE  SumFunctionOnSet(f, A) <= SumFunctionOnSet(f, B)
<1> DEFINE C == B \ A
<1>1. IsFiniteSet(A) /\ IsFiniteSet(C) /\ A \cap C = {} /\ A \cup C = B
  BY FS_Subset
<1> HIDE DEF C
<1>2. (\A x \in A : f[x] \in Nat) /\ (\A x \in C : f[x] \in Nat) /\ \A x \in A \cup C : f[x] \in Int
  BY <1>1
<1>3. SumFunctionOnSet(f, A) \in Nat /\ SumFunctionOnSet(f, C) \in Nat
  BY <1>1, <1>2, SumNat
<1>4. SumFunctionOnSet(f, A \cup C) = SumFunctionOnSet(f, A) + SumFunctionOnSet(f, C)
  BY <1>1, <1>2, SumUnion
<1> DEFINE a == SumFunctionOnSet(f, A)  c == SumFunctionOnSet(f, C)
<1>5. a \in Nat /\ c \in Nat /\ SumFunctionOnSet(f, B) = a + c
  BY <1>1, <1>3, <1>4, Zenon
<1> HIDE DEF a, c
<1>6. a <= SumFunctionOnSet(f, B)
  BY <1>5
<1> QED BY <1>6 DEF a

(* Two sums over the same set are the sum of both terms.                   *)
LEMMA SumOfBoth ==
  ASSUME NEW D, IsFiniteSet(D), NEW f, NEW g, NEW h,
         \A x \in D : f[x] \in Int /\ g[x] \in Int /\ h[x] = f[x] + g[x]
  PROVE  SumFunctionOnSet(h, D) = SumFunctionOnSet(f, D) + SumFunctionOnSet(g, D)
<1> DEFINE F(s) == SumFunctionOnSet(f, s)
           G(s) == SumFunctionOnSet(g, s)
           H(s) == SumFunctionOnSet(h, s)
           Good == {s \in SUBSET D : H(s) = F(s) + G(s)}
<1>1. H({}) = F({}) + G({})
  <2>1. F({}) = 0 /\ G({}) = 0 /\ H({}) = 0
    BY SumOfNone
  <2> QED BY <2>1
<1>2. \A s \in SUBSET D : \A x \in s :
        /\ F(s) = f[x] + F(s \ {x}) /\ G(s) = g[x] + G(s \ {x}) /\ H(s) = h[x] + H(s \ {x})
        /\ F(s \ {x}) \in Int /\ G(s \ {x}) \in Int
        /\ f[x] \in Int /\ g[x] \in Int /\ h[x] = f[x] + g[x]
  <2> SUFFICES ASSUME NEW s \in SUBSET D, NEW x \in s
               PROVE  /\ F(s) = f[x] + F(s \ {x}) /\ G(s) = g[x] + G(s \ {x}) /\ H(s) = h[x] + H(s \ {x})
                      /\ F(s \ {x}) \in Int /\ G(s \ {x}) \in Int
                      /\ f[x] \in Int /\ g[x] \in Int /\ h[x] = f[x] + g[x]
    OBVIOUS
  <2>1. IsFiniteSet(s) /\ IsFiniteSet(s \ {x})
    BY FS_Subset
  <2>2. \A y \in s : f[y] \in Int /\ g[y] \in Int /\ h[y] \in Int
    OBVIOUS
  <2>3. F(s) = f[x] + F(s \ {x}) /\ G(s) = g[x] + G(s \ {x}) /\ H(s) = h[x] + H(s \ {x})
    BY <2>1, <2>2, SumOfRest
  <2>4. F(s \ {x}) \in Int /\ G(s \ {x}) \in Int
    BY <2>1, <2>2, SumInt
  <2> HIDE DEF F, G, H
  <2> QED BY <2>3, <2>4
<1> HIDE DEF F, G, H
<1>3. \A s \in SUBSET D : (\A x \in s : s \ {x} \in Good) => s \in Good
  <2> SUFFICES ASSUME NEW s \in SUBSET D, \A x \in s : s \ {x} \in Good PROVE H(s) = F(s) + G(s)
    OBVIOUS
  <2>1. CASE s = {}
    BY <1>1, <2>1
  <2>2. CASE s # {}
    <3>1. PICK x : x \in s
      BY <2>2
    <3>2. H(s \ {x}) = F(s \ {x}) + G(s \ {x})
      BY <3>1
    <3> QED BY <1>2, <3>1, <3>2
  <2> QED BY <2>1, <2>2
<1>4. D \in Good
  <2> HIDE DEF Good
  <2> QED BY <1>3, SetInduction
<1> QED BY <1>4 DEF F, G, H

-----------------------------------------------------------------------------
(***************************************************************************)
(* The window.                                                             *)
(***************************************************************************)
\* A set of days that is not empty has a newest one.
LEMMA NewestExists ==
  ASSUME NEW S \in SUBSET Days, S # {}
  PROVE  \E d \in S : \A e \in S : e <= d
<1> DEFINE left == {MaxTime - d : d \in S}
<1>1. MaxTime \in Int /\ \A d \in S : d \in Int /\ MaxTime - d \in Nat
  BY OutputAssumption DEF Days
<1>2. left \in SUBSET Nat /\ left # {}
  BY <1>1
<1>3. PICK n \in left : \A k \in left : n <= k
  <2> HIDE DEF left
  <2> QED BY <1>2, SmallestExists
<1>4. PICK d \in S : MaxTime - d = n
  OBVIOUS
<1>5. ASSUME NEW e \in S PROVE e <= d
  <2>1. MaxTime - d <= MaxTime - e
    BY <1>3, <1>4
  <2> QED BY <1>1, <2>1
<1> QED BY <1>5

\* Nothing is recorded or stored of days to come.
NothingAhead == \A d \in Days : d > today => epicor[d] = 0 /\ table[d] = 0

LastIsNewest ==
  Stored # {} => /\ NewestDay \in Stored /\ NewestDay \in Days /\ NewestDay <= today
                 /\ \A e \in Stored : e <= NewestDay

LEMMA LastIs == TypeOK /\ NothingAhead => LastIsNewest
<1> SUFFICES ASSUME TypeOK, NothingAhead, Stored # {}
             PROVE  /\ NewestDay \in Stored /\ NewestDay \in Days /\ NewestDay <= today
                    /\ \A e \in Stored : e <= NewestDay
  BY DEF LastIsNewest
<1>1. Stored \in SUBSET Days
  BY DEF Stored
<1>2. \E d \in Stored : \A e \in Stored : e <= d
  BY <1>1, NewestExists
<1>3. NewestDay \in Stored /\ \A e \in Stored : e <= NewestDay
  BY <1>2 DEF NewestDay
<1>4. \A d \in Stored : d <= today
  BY OutputAssumption DEF Stored, NothingAhead, TypeOK, Days, Count
<1> QED BY <1>1, <1>3, <1>4

\* A window starts after the newest day, or today, and ends by today; if
\* before, it has MaxDays days.
WindowIsNext ==
  /\ WindowFrom \in Int /\ WindowTo \in Int
  /\ 0 <= WindowFrom /\ WindowFrom <= WindowTo /\ WindowTo <= today
  /\ WindowTo < today => WindowTo = WindowFrom + MaxDays - 1
  /\ Stored = {} => WindowFrom = 0
  /\ Stored # {} => WindowFrom = NewestDay + 1 \/ (WindowFrom = today /\ today = NewestDay)

LEMMA WindowIs == TypeOK /\ NothingAhead => WindowIsNext
<1> SUFFICES ASSUME TypeOK, NothingAhead PROVE WindowIsNext
  OBVIOUS
<1> USE DEF WindowIsNext
<1>1. today \in Int /\ 0 <= today
  BY OutputAssumption DEF TypeOK, Days
<1>2. CASE Stored = {}
  <2>1. WindowFrom = 0
    BY <1>2 DEF WindowFrom
  <2> QED BY <1>1, <1>2, <2>1, OutputAssumption DEF WindowTo, Earlier
<1>3. CASE Stored # {}
  <2>1. NewestDay \in Int /\ 0 <= NewestDay /\ NewestDay <= today
    BY <1>3, LastIs, OutputAssumption DEF Days, LastIsNewest
  <2>2. WindowFrom = Earlier(NewestDay + 1, today)
    BY <1>3 DEF WindowFrom
  <2>3. /\ WindowFrom \in Int /\ 0 <= WindowFrom /\ WindowFrom <= today
        /\ WindowFrom = NewestDay + 1 \/ (WindowFrom = today /\ today = NewestDay)
    BY <1>1, <2>1, <2>2 DEF Earlier
  <2> QED BY <1>1, <1>3, <2>3, OutputAssumption DEF WindowTo, Earlier
<1> QED BY <1>2, <1>3

-----------------------------------------------------------------------------
(***************************************************************************)
(* The invariant.                                                          *)
(***************************************************************************)
\* No stretch of MaxDays days without output has gone by.
GapsAreShort == \A d \in Days : d + MaxDays - 1 < today =>
                  \E e \in d .. (d + MaxDays - 1) : epicor[e] > 0

\* A run in progress: its window is still the one it would get now, and it
\* has what Epicor has of the past days it has fetched.
RunIsOn ==
  run.pc = "fetch" =>
    /\ run.from = WindowFrom /\ run.to = WindowTo
    /\ run.from <= run.next /\ run.next <= run.to + 1
    /\ \A d \in Days : run.from <= d /\ d < run.next /\ d < today => run.got[d] = epicor[d]

OutputInv == /\ TypeOK /\ NothingAhead /\ BehindIsComplete
             /\ GapsAreShort /\ RunIsOn


-----------------------------------------------------------------------------
(***************************************************************************)
(* Steps.                                                                  *)
(***************************************************************************)
LEMMA RunTyped ==
  ASSUME TypeOK
  PROVE  /\ run.from \in Int /\ run.to \in Int /\ run.next \in Int /\ run.got \in Count
         /\ today \in Int /\ Days \subseteq Int /\ MaxDays \in Int /\ Chunk \in Int
BY OutputAssumption DEF TypeOK, Run, Days

LEMMA IdleTyped == Idle \in Run /\ Idle.pc = "idle"
BY OutputAssumption DEF Idle, Run, Empty, Count

\* The window depends on the table and the day.
LEMMA WindowStays ==
  ASSUME UNCHANGED <<table, today>>
  PROVE  UNCHANGED <<Stored, NewestDay, WindowFrom, WindowTo>>
BY DEF Stored, NewestDay, WindowFrom, WindowTo

LEMMA RecordKeeps ==
  ASSUME OutputInv, Record PROVE OutputInv'
<1>1. /\ \A d \in Days : d # today => epicor'[d] = epicor[d]
      /\ \A d \in Days : epicor[d] > 0 => epicor'[d] > 0
      /\ UNCHANGED <<table, today, run>>
  BY OutputAssumption DEF OutputInv, TypeOK, Count, Days, Record
<1>2. TypeOK'
  BY OutputAssumption, SMTT(30) DEF OutputInv, TypeOK, Count, Days, Record
<1>3. NothingAhead'
  BY <1>1, RunTyped DEF OutputInv, NothingAhead
<1>4. GapsAreShort'
  <2>1. ASSUME NEW d \in Days, d + MaxDays - 1 < today
        PROVE  \E e \in d .. (d + MaxDays - 1) : epicor'[e] > 0
    <3>1. PICK e \in d .. (d + MaxDays - 1) : epicor[e] > 0
      BY <2>1 DEF OutputInv, GapsAreShort
    <3>2. e \in Days
      BY <2>1, RunTyped, OutputAssumption DEF Days, OutputInv, TypeOK
    <3> QED BY <1>1, <3>1, <3>2
  <2> QED BY <1>1, <2>1 DEF GapsAreShort
<1>5. RunIsOn'
  BY <1>1, WindowStays, RunTyped DEF OutputInv, RunIsOn
<1>6. BehindIsComplete'
  <2>1. Stored # {} => NewestDay <= today /\ NewestDay \in Int
    BY LastIs, RunTyped DEF OutputInv, LastIsNewest
  <2> QED BY <1>1, <2>1, WindowStays, RunTyped DEF OutputInv, BehindIsComplete
<1> QED BY <1>2, <1>3, <1>4, <1>5, <1>6 DEF OutputInv

LEMMA NextDayKeeps ==
  ASSUME OutputInv, NoGap, DayDone, NextDay PROVE OutputInv'
<1>1. /\ today' = today + 1 /\ UNCHANGED <<table, epicor, run>> /\ today \in Int
      /\ run.pc = "idle" /\ table[today] \in {0, epicor[today]} /\ today \in Days
  BY RunTyped DEF OutputInv, TypeOK, NextDay, DayDone
<1>2. TypeOK'
  BY <1>1, OutputAssumption DEF OutputInv, TypeOK, NextDay, Days
<1>3. NothingAhead' /\ RunIsOn'
  BY <1>1, RunTyped DEF OutputInv, NothingAhead, RunIsOn
<1>4. GapsAreShort'
  BY <1>1, RunTyped DEF OutputInv, NoGap, GapsAreShort
<1>5. BehindIsComplete'
  <2>1. UNCHANGED <<Stored, NewestDay>>
    BY <1>1 DEF Stored, NewestDay
  <2>2. Stored # {} => NewestDay \in Stored /\ NewestDay <= today
    BY LastIs DEF OutputInv, LastIsNewest
  <2>3. Stored # {} => table[NewestDay] > 0
    BY <2>2 DEF Stored
  <2>4. Stored # {} /\ NewestDay = today => table[NewestDay] = epicor[NewestDay]
    BY <1>1, <2>3
  <2> QED BY <1>1, <2>1, <2>2, <2>4, RunTyped DEF OutputInv, BehindIsComplete
<1> QED BY <1>2, <1>3, <1>4, <1>5 DEF OutputInv

LEMMA StartKeeps ==
  ASSUME OutputInv, Start PROVE OutputInv'
<1> DEFINE r == [Idle EXCEPT !.pc = "fetch", !.from = WindowFrom, !.to = WindowTo,
                             !.next = WindowFrom]
<1>1. WindowFrom \in Int /\ WindowTo \in Int /\ WindowFrom <= WindowTo
  BY WindowIs DEF OutputInv, WindowIsNext
<1>2. /\ r \in Run /\ r.from = WindowFrom /\ r.to = WindowTo
      /\ r.next = WindowFrom
  BY <1>1, IdleTyped DEF Idle, Run
<1>3. run' = r /\ UNCHANGED <<today, epicor, table, faults>>
  BY DEF Start, Begin
<1> HIDE DEF r
<1>4. TypeOK'
  BY <1>2, <1>3 DEF OutputInv, TypeOK
<1>5. RunIsOn'
  BY <1>1, <1>2, <1>3, WindowStays, RunTyped DEF OutputInv, RunIsOn
<1> QED BY <1>3, <1>4, <1>5, WindowStays
        DEF OutputInv, NothingAhead, BehindIsComplete, GapsAreShort

LEMMA FetchKeeps ==
  ASSUME OutputInv, FetchChunk PROVE OutputInv'
<1> DEFINE got == [d \in Days |-> IF d \in run.next .. ChunkEnd THEN epicor[d] ELSE run.got[d]]
           r == [run EXCEPT !.next = ChunkEnd + 1, !.got = got]
<1>1. /\ run.pc = "fetch" /\ run.next <= run.to /\ run \in Run
      /\ run' = r /\ UNCHANGED <<today, epicor, table, faults>>
  BY DEF FetchChunk, OutputInv, TypeOK
<1>2. ChunkEnd \in Int /\ run.next <= ChunkEnd /\ ChunkEnd <= run.to
  BY <1>1, RunTyped, OutputAssumption DEF OutputInv, ChunkEnd, Earlier
<1>3. got \in Count
  BY RunTyped DEF OutputInv, TypeOK, Count
<1>4. /\ r \in Run /\ r.from = run.from /\ r.to = run.to
      /\ r.next = ChunkEnd + 1 /\ r.got = got
  <2> DEFINE next == ChunkEnd + 1
  <2>1. next \in Int
    BY <1>2
  <2> HIDE DEF got, next
  <2>2. [run EXCEPT !.next = next, !.got = got] \in Run
    BY <1>1, <1>3, <2>1 DEF Run
  <2>3. LET s == [run EXCEPT !.next = next, !.got = got]
        IN  s.from = run.from /\ s.to = run.to /\ s.next = next /\ s.got = got
    BY <1>1 DEF Run
  <2> QED BY <2>2, <2>3 DEF next
<1>5. \A d \in Days : run.from <= d /\ d < ChunkEnd + 1 /\ d < today => got[d] = epicor[d]
  BY <1>1, <1>2, RunTyped DEF OutputInv, RunIsOn
<1> HIDE DEF r, got
<1>6. TypeOK'
  BY <1>1, <1>4 DEF OutputInv, TypeOK
<1>7. RunIsOn'
  BY <1>1, <1>2, <1>4, <1>5, WindowStays, RunTyped DEF OutputInv, RunIsOn
<1> QED BY <1>1, <1>6, <1>7, WindowStays
        DEF OutputInv, NothingAhead, BehindIsComplete, GapsAreShort

\* What a run that saves has: all past days of its window.
LEMMA SaveIs ==
  ASSUME OutputInv, Save
  PROVE  /\ UNCHANGED <<today, epicor>> /\ TypeOK' /\ NothingAhead'
         /\ run.from = WindowFrom /\ run.to = WindowTo
         /\ \A d \in Days : d < run.from \/ d > run.to => table'[d] = table[d]
         /\ \A d \in Days : run.from <= d /\ d <= run.to /\ d < today => table'[d] = epicor[d]
<1>1. /\ UNCHANGED <<today, epicor, faults>> /\ run.pc = "fetch" /\ run.next > run.to
      /\ run' = Idle
      /\ table' = [d \in Days |-> IF d \in run.from .. run.to THEN run.got[d] ELSE table[d]]
  BY DEF Save
<1>2. /\ run.from = WindowFrom /\ run.to = WindowTo
      /\ \A d \in Days : run.from <= d /\ d <= run.to /\ d < today => run.got[d] = epicor[d]
  BY <1>1, RunTyped DEF OutputInv, RunIsOn
<1>3. run.to <= today
  BY <1>2, WindowIs DEF OutputInv, WindowIsNext
<1>4. TypeOK'
  BY <1>1, RunTyped, IdleTyped DEF OutputInv, TypeOK, Count
<1>5. NothingAhead'
  BY <1>1, <1>3, RunTyped DEF OutputInv, NothingAhead
<1> QED BY <1>1, <1>2, <1>4, <1>5, RunTyped DEF OutputInv

LEMMA NewLast == TypeOK' /\ NothingAhead' => LastIsNewest' /\ WindowIsNext'
BY LastIs, WindowIs, PTL

LEMMA SaveKeeps ==
  ASSUME OutputInv, Save PROVE OutputInv'
<1>1. GapsAreShort' /\ RunIsOn'
  BY IdleTyped DEF Save, OutputInv, GapsAreShort, RunIsOn
<1>2. /\ 0 <= run.from /\ run.from <= run.to /\ run.to <= today
      /\ Stored = {} => run.from = 0
      /\ Stored # {} => run.from = NewestDay + 1 \/ (run.from = today /\ today = NewestDay)
  BY SaveIs, WindowIs DEF OutputInv, WindowIsNext
<1>3. Stored # {} => NewestDay \in Int /\ \A e \in Stored : e <= NewestDay
  BY LastIs, RunTyped DEF OutputInv, LastIsNewest
<1>4. ASSUME Stored' # {}, NEW d \in Days, d < NewestDay' \/ (d = NewestDay' /\ d < today)
      PROVE  table'[d] = epicor[d]
  <2>1. /\ NewestDay' \in Days /\ NewestDay' <= today /\ table'[NewestDay'] > 0
    <3>1. NewestDay' \in Stored' /\ NewestDay' \in Days /\ NewestDay' <= today'
      BY <1>4, SaveIs, NewLast DEF LastIsNewest
    <3> QED BY <3>1, SaveIs DEF Stored
  <2>2. d < today /\ d <= NewestDay'
    BY <1>4, <2>1, RunTyped DEF OutputInv
  <2>3. CASE run.from <= d /\ d <= run.to
    BY <2>2, <2>3, SaveIs
  <2>4. CASE d < run.from
    <3>1. Stored # {} /\ d <= NewestDay
      BY <1>2, <1>3, <2>4, RunTyped, OutputAssumption DEF OutputInv, Days
    <3>2. table[d] = epicor[d]
      BY <1>3, <2>2, <3>1, RunTyped DEF OutputInv, BehindIsComplete
    <3> QED BY <2>4, <3>2, SaveIs
  <2>5. CASE d > run.to
    <3>1. NewestDay' > run.to
      BY <2>1, <2>2, <2>5, RunTyped DEF OutputInv
    <3>2. table[NewestDay'] > 0
      BY <2>1, <3>1, SaveIs
    <3>3. Stored # {} /\ NewestDay' <= NewestDay
      BY <1>3, <2>1, <3>2 DEF Stored
    <3> QED BY <1>2, <1>3, <2>1, <3>1, <3>3, RunTyped DEF OutputInv
  <2> QED BY <2>3, <2>4, <2>5, RunTyped DEF OutputInv
<1>5. BehindIsComplete'
  BY <1>4, SaveIs DEF BehindIsComplete
<1> QED BY <1>1, <1>5, SaveIs DEF OutputInv

LEMMA FailKeeps ==
  ASSUME OutputInv, Fail PROVE OutputInv'
<1>1. UNCHANGED <<today, epicor, table>> /\ run' = Idle
  BY DEF Fail
<1>2. TypeOK'
  BY <1>1, IdleTyped, OutputAssumption DEF OutputInv, TypeOK, Fail
<1>3. RunIsOn'
  BY <1>1, IdleTyped DEF RunIsOn
<1> QED BY <1>1, <1>2, <1>3, WindowStays
        DEF OutputInv, NothingAhead, BehindIsComplete, GapsAreShort

-----------------------------------------------------------------------------
(***************************************************************************)
(* The specification.                                                      *)
(***************************************************************************)
LEMMA InitHolds == ASSUME SteadyInit PROVE OutputInv
<1> USE DEF SteadyInit, Init
<1>1. TypeOK
  BY IdleTyped, OutputAssumption DEF TypeOK, Empty, Count, Days
<1>2. Stored = {}
  BY DEF Stored, Empty
<1>3. NothingAhead
  BY <1>1, RunTyped DEF NothingAhead, Empty
<1>4. GapsAreShort
  BY <1>1, RunTyped DEF NoGap, GapsAreShort
<1> QED BY <1>1, <1>2, <1>3, <1>4, IdleTyped DEF OutputInv, BehindIsComplete, RunIsOn

LEMMA StepKeeps == ASSUME OutputInv, [SteadyNext]_vars PROVE OutputInv'
<1>1. CASE UNCHANGED vars
  BY <1>1, WindowStays DEF vars, OutputInv, TypeOK, NothingAhead, BehindIsComplete,
     GapsAreShort, RunIsOn
<1> QED BY <1>1, RecordKeeps, NextDayKeeps, StartKeeps, FetchKeeps, SaveKeeps, FailKeeps
        DEF SteadyNext

(***************************************************************************)
(* The days behind the newest stored one, which no later run asks for, are *)
(* complete, as long as every day's output is imported before midnight or  *)
(* not at all (get_dynamic_params, _sync_records).                         *)
(***************************************************************************)
THEOREM NothingLeftBehind == SteadySpec => []BehindIsComplete
<1>1. OutputInv => BehindIsComplete
  BY DEF OutputInv
<1> QED BY <1>1, InitHolds, StepKeeps, PTL DEF SteadySpec

\* A window that ends before today has a day with output, which is now the
\* newest one, or comes before it.
LEMMA SaveAdvances ==
  ASSUME OutputInv, Save, run.to < today PROVE WindowFrom' > run.from
<1>1. /\ run.from \in Int /\ 0 <= run.from /\ run.from <= run.to
      /\ run.to = run.from + MaxDays - 1 /\ run.from \in Days
  <2>1. /\ run.from \in Int /\ 0 <= run.from /\ run.from <= run.to
        /\ run.to = run.from + MaxDays - 1
    BY SaveIs, WindowIs DEF OutputInv, WindowIsNext
  <2> QED BY <2>1, RunTyped, OutputAssumption DEF Days, OutputInv, TypeOK
<1>2. PICK e \in run.from .. run.to : epicor[e] > 0
  BY <1>1 DEF OutputInv, GapsAreShort
<1>3. e \in Days /\ e < today
  BY <1>1, RunTyped, OutputAssumption DEF Days, OutputInv, TypeOK
<1>4. table'[e] > 0
  BY <1>2, <1>3, SaveIs, RunTyped DEF OutputInv
<1>5. e \in Stored'
  BY <1>3, <1>4 DEF Stored
<1>6. NewestDay' \in Int /\ e <= NewestDay'
  BY <1>5, SaveIs, NewLast, RunTyped DEF OutputInv, LastIsNewest
<1>7. WindowFrom' = NewestDay' + 1 \/ WindowFrom' = today
  BY <1>5, SaveIs, NewLast DEF WindowIsNext
<1> QED BY <1>1, <1>3, <1>6, <1>7, RunTyped DEF OutputInv

(***************************************************************************)
(* A run that did not reach today moves the window on, as long as no       *)
(* MaxDays days in a row are without output: "each run advances the window *)
(* forward" (get_dynamic_params).                                          *)
(***************************************************************************)
THEOREM WindowAdvances == SteadySpec => EachRunAdvances
<1>1. OutputInv /\ [SteadyNext]_vars =>
        [Save /\ run.to < today => WindowFrom' > run.from]_vars
  BY SaveAdvances
<1> QED BY <1>1, InitHolds, StepKeeps, PTL DEF SteadySpec, EachRunAdvances

-----------------------------------------------------------------------------
(***************************************************************************)
(* Transport: a load is called clear only if all of it is.                 *)
(***************************************************************************)
(* The transport board's sums are the sums above.                          *)
LEMMA TransportSums ==
  ASSUME NEW f PROVE Transport!SumFunction(f) = SumFunction(f)
BY DEF Transport!SumFunction, Transport!SumFunctionOnSet, Transport!FoldFunctionOnSet,
   Transport!MapThenFoldSet,
  SumFunction, SumFunctionOnSet, FoldFunctionOnSet, MapThenFoldSet

(* Its counts are the counts above.                                        *)
LEMMA TransportCounts ==
  ASSUME NEW S PROVE Transport!Cardinality(S) = Cardinality(S)
BY DEF Transport!Cardinality, Cardinality

(* What a release is collapsed to says what its joined rows say.           *)
LEMMA CollapsedSays ==
  ASSUME NEW rows \in SUBSET Transport!JoinedRows, Transport!Collapsible(rows),
         NEW r \in Releases, Transport!RowsOf(rows, r) # {}
  PROVE  LET c == Transport!CollapsedRelease(rows, r) IN
         /\ c.release = r
         /\ \A row \in Transport!RowsOf(rows, r) : c.load = row.load /\ c.qty = row.qty
         /\ Transport!IsComplete(c) <=> \A row \in Transport!RowsOf(rows, r) : row.job = "complete"
         /\ ~Transport!IsHeld(c) /\ ~Transport!HoldUnknown(c) <=>
              \A row \in Transport!RowsOf(rows, r) : row.credit = FALSE /\ row.held = FALSE
<1> DEFINE group == Transport!RowsOf(rows, r)
           first == CHOOSE row \in group : TRUE
<1>1. first \in group
  OBVIOUS
<1>2. \A row \in group : /\ first.load = row.load /\ first.qty = row.qty
                         /\ row.job \in {"complete", "in progress", "blank"}
                         /\ row.credit \in {TRUE, FALSE, Unknown} /\ row.held \in {TRUE, FALSE, Unknown}
  BY <1>1 DEF Transport!Collapsible, Transport!RowsOf, Transport!Assigned, Transport!JoinedRows,
     Transport!JobStatuses, Transport!Flag
<1> DEFINE c == [release |-> r,
     load    |-> first.load,
     qty     |-> first.qty,
   state   |-> Transport!ProductionState(group),
   credit  |-> Transport!CombinedHold({row.credit : row \in group}),
   held    |-> Transport!CombinedHold({row.held : row \in group})]
<1>3. Transport!CollapsedRelease(rows, r) = c
  BY Zenon DEF Transport!CollapsedRelease
<1>4. Transport!IsComplete(c) <=> \A row \in group : row.job = "complete"
  <2>1. c.state = Transport!ProductionState(group)
    OBVIOUS
  <2> HIDE DEF group, c
  <2>2. CASE \A row \in group : row.job = "complete"
    <3>1. ~(\E row \in group : row.job = "in progress")
      BY <2>2
    <3>2. Transport!ProductionState(group) = "complete"
      BY <2>2, <3>1 DEF Transport!ProductionState
    <3> QED BY <2>1, <2>2, <3>2 DEF Transport!IsComplete
  <2>3. CASE ~(\A row \in group : row.job = "complete")
    <3>1. Transport!ProductionState(group) \in {"outstanding", "unknown"}
      BY <2>3 DEF Transport!ProductionState
    <3>2. c.state # "complete"
      BY <2>1, <3>1
    <3> QED BY <2>3, <3>2 DEF Transport!IsComplete
  <2> QED BY <2>2, <2>3
<1>5. ~Transport!IsHeld(c) /\ ~Transport!HoldUnknown(c) <=>
              \A row \in group : row.credit = FALSE /\ row.held = FALSE
  <2> DEFINE credits == {row.credit : row \in group}   holds == {row.held : row \in group}
  <2>1. c.credit = Transport!CombinedHold(credits) /\ c.held = Transport!CombinedHold(holds)
    BY Zenon
  <2>2. Unknown # TRUE /\ Unknown # FALSE /\ TRUE # FALSE
    BY CalculationsAssumption
  <2>3. ASSUME NEW flags, \A x \in flags : x = TRUE \/ x = FALSE \/ x = Unknown
        PROVE  (Transport!CombinedHold(flags) # TRUE /\ Transport!CombinedHold(flags) # Unknown)
                 <=> \A x \in flags : x = FALSE
    BY <2>2, <2>3, Zenon DEF Transport!CombinedHold
  <2>4. (\A x \in credits : x = TRUE \/ x = FALSE \/ x = Unknown)
        /\ (\A x \in holds : x = TRUE \/ x = FALSE \/ x = Unknown)
    BY <1>2, Zenon
  <2>5. (\A x \in credits : x = FALSE) <=> (\A row \in group : row.credit = FALSE)
    BY Zenon
  <2>6. (\A x \in holds : x = FALSE) <=> (\A row \in group : row.held = FALSE)
    BY Zenon
  <2>7. (~Transport!IsHeld(c) /\ ~Transport!HoldUnknown(c)) <=>
          (c.held # TRUE /\ c.credit # TRUE /\ c.held # Unknown /\ c.credit # Unknown)
    <3> HIDE DEF c
    <3> QED BY Zenon DEF Transport!IsHeld, Transport!HoldUnknown
  <2>8. (c.credit # TRUE /\ c.credit # Unknown) <=> (\A row \in group : row.credit = FALSE)
    <3> HIDE DEF c, credits, group
    <3> QED BY <2>1, <2>3, <2>4, <2>5, Zenon
  <2>9. (c.held # TRUE /\ c.held # Unknown) <=> (\A row \in group : row.held = FALSE)
    <3> HIDE DEF c, holds, group
    <3> QED BY <2>1, <2>3, <2>4, <2>6, Zenon
  <2> HIDE DEF c, group
  <2> QED BY <2>7, <2>8, <2>9, Zenon
<1>6. c.release = r /\ \A row \in group : c.load = row.load /\ c.qty = row.qty
  BY <1>2
<1> QED BY <1>3, <1>4, <1>5, <1>6, Zenon

(* The joined rows of a load, their releases, and the releases that the    *)
(* board counts for it.                                                    *)
OnLoad(rows, l)     == {row \in rows : row.load = l}
ReleasesOn(rows, l) == {row.release : row \in OnLoad(rows, l)}
MineOf(rows, l)     == {rel \in Transport!SyncOrders(rows) : rel.load = l}
OneRowOf(rows, l, r) == CHOOSE row \in OnLoad(rows, l) : row.release = r

(* A load's releases are those of its joined rows, each collapsed from all *)
(* of its rows.                                                            *)
LEMMA MineAre ==
  ASSUME NEW rows \in SUBSET Transport!JoinedRows, Transport!Collapsible(rows), NEW l \in Loads
  PROVE  /\ MineOf(rows, l) = {Transport!CollapsedRelease(rows, r) : r \in ReleasesOn(rows, l)}
         /\ \A r \in ReleasesOn(rows, l) : /\ r \in Releases /\ Transport!RowsOf(rows, r) # {}
                                          /\ Transport!RowsOf(rows, r) =
                                               {row \in OnLoad(rows, l) : row.release = r}
         /\ \A row \in OnLoad(rows, l) : row.release \in ReleasesOn(rows, l)
<1>1. ASSUME NEW r \in ReleasesOn(rows, l)
      PROVE  /\ r \in Releases /\ Transport!RowsOf(rows, r) # {}
             /\ Transport!RowsOf(rows, r) = {row \in OnLoad(rows, l) : row.release = r}
  <2>1. PICK x \in rows : x.load = l /\ x.release = r
    BY DEF ReleasesOn, OnLoad
  <2>2. r \in Releases /\ x \in Transport!RowsOf(rows, r)
    BY <2>1, CalculationsAssumption DEF Transport!RowsOf, Transport!Assigned, Transport!JoinedRows
  <2>3. \A row \in Transport!RowsOf(rows, r) : row.load = l
    BY <2>1, <2>2 DEF Transport!Collapsible
  <2>4. \A row : row \in Transport!RowsOf(rows, r) <=> row \in {y \in OnLoad(rows, l) : y.release = r}
    BY <2>3, CalculationsAssumption DEF Transport!RowsOf, Transport!Assigned, OnLoad
  <2> QED BY <2>2, <2>4
<1>2. \A row \in OnLoad(rows, l) : row.release \in ReleasesOn(rows, l)
  BY DEF ReleasesOn
<1>3. ASSUME NEW r \in Releases, Transport!RowsOf(rows, r) # {},
             Transport!CollapsedRelease(rows, r).load = l
      PROVE  r \in ReleasesOn(rows, l)
  <2>1. PICK row \in Transport!RowsOf(rows, r) : row.load = l
    BY <1>3, CollapsedSays, ZenonT(60)
  <2>2. row \in OnLoad(rows, l) /\ row.release = r
    BY <2>1 DEF OnLoad, Transport!RowsOf, Transport!Assigned
  <2> QED BY <1>2, <2>2
<1>4. ASSUME NEW r \in ReleasesOn(rows, l)
      PROVE  Transport!CollapsedRelease(rows, r).load = l
  <2>1. PICK row \in Transport!RowsOf(rows, r) : row.load = l
    BY <1>1 DEF OnLoad
  <2>2. r \in Releases /\ Transport!RowsOf(rows, r) # {}
    BY <1>1
  <2>3. \A x \in Transport!RowsOf(rows, r) :
           /\ Transport!CollapsedRelease(rows, r).load = x.load
           /\ Transport!CollapsedRelease(rows, r).qty = x.qty
    <3> HIDE <2>1
    <3> QED BY <2>2, CollapsedSays, Zenon
  <2> QED BY <2>1, <2>3
<1>5. MineOf(rows, l) = {Transport!CollapsedRelease(rows, r) : r \in ReleasesOn(rows, l)}
  BY <1>1, <1>3, <1>4, Zenon DEF MineOf, Transport!SyncOrders
<1> QED BY <1>1, <1>2, <1>5, Zenon

(* What the board says of the releases of a load is what the joined rows   *)
(* of the load say.                                                        *)
LEMMA MineSay ==
  ASSUME NEW rows \in SUBSET Transport!JoinedRows, IsFiniteSet(rows), Transport!Collapsible(rows),
         NEW l \in Loads
  PROVE  /\ IsFiniteSet(MineOf(rows, l))
         /\ MineOf(rows, l) = {} <=> OnLoad(rows, l) = {}
         /\ (\A rel \in MineOf(rows, l) : Transport!IsComplete(rel))
              <=> (\A row \in OnLoad(rows, l) : row.job = "complete")
         /\ (\A rel \in MineOf(rows, l) : ~Transport!IsHeld(rel) /\ ~Transport!HoldUnknown(rel))
              <=> (\A row \in OnLoad(rows, l) : row.credit = FALSE /\ row.held = FALSE)
         /\ (\A rel \in MineOf(rows, l) : rel.qty # Unknown)
              <=> (\A row \in OnLoad(rows, l) : row.qty # Unknown)
         /\ (\A row \in OnLoad(rows, l) : row.qty # Unknown) =>
              Transport!QtyOf(MineOf(rows, l)) =
                Total(ReleasesOn(rows, l), LAMBDA r : OneRowOf(rows, l, r).qty)
<1> DEFINE D == ReleasesOn(rows, l)
           b == [r \in D |-> Transport!CollapsedRelease(rows, r)]
<1>1. IsFiniteSet(D)
  <2> DEFINE f == [row \in OnLoad(rows, l) |-> row.release]
  <2>1. IsFiniteSet(OnLoad(rows, l))
    BY FS_Subset DEF OnLoad
  <2>2. D = Images(f, OnLoad(rows, l))
    BY DEF ReleasesOn, Images
  <2> HIDE DEF f
  <2> QED BY <2>1, <2>2, ImageFinite
<1>2. MineOf(rows, l) = Images(b, D)
  BY MineAre DEF Images
<1>3. \A r \in D : /\ b[r].release = r
                   /\ \A row \in OnLoad(rows, l) : row.release = r => b[r].qty = row.qty
                   /\ Transport!IsComplete(b[r])
                        <=> \A row \in OnLoad(rows, l) : row.release = r => row.job = "complete"
                   /\ ~Transport!IsHeld(b[r]) /\ ~Transport!HoldUnknown(b[r]) <=>
                        \A row \in OnLoad(rows, l) : row.release = r =>
                          row.credit = FALSE /\ row.held = FALSE
  <2> SUFFICES ASSUME NEW r \in D
               PROVE  /\ b[r].release = r
                      /\ \A row \in OnLoad(rows, l) : row.release = r => b[r].qty = row.qty
                      /\ Transport!IsComplete(b[r])
                           <=> \A row \in OnLoad(rows, l) : row.release = r => row.job = "complete"
                      /\ ~Transport!IsHeld(b[r]) /\ ~Transport!HoldUnknown(b[r]) <=>
                           \A row \in OnLoad(rows, l) : row.release = r =>
                             row.credit = FALSE /\ row.held = FALSE
    OBVIOUS
  <2>1. r \in Releases /\ Transport!RowsOf(rows, r) # {}
    BY MineAre
  <2>2. \A row : row \in Transport!RowsOf(rows, r) <=> row \in OnLoad(rows, l) /\ row.release = r
    BY MineAre
  <2>3. b[r] = Transport!CollapsedRelease(rows, r)
    OBVIOUS
  <2> DEFINE c == Transport!CollapsedRelease(rows, r)
  <2>4. /\ c.release = r
        /\ \A row \in Transport!RowsOf(rows, r) : c.load = row.load /\ c.qty = row.qty
        /\ Transport!IsComplete(c) <=> \A row \in Transport!RowsOf(rows, r) : row.job = "complete"
        /\ ~Transport!IsHeld(c) /\ ~Transport!HoldUnknown(c) <=>
             \A row \in Transport!RowsOf(rows, r) : row.credit = FALSE /\ row.held = FALSE
    BY <2>1, CollapsedSays, Zenon
  <2> HIDE DEF b, D, c
  <2>5. b[r] = c
    BY <2>3 DEF c
  <2>6. b[r].release = r /\ \A row \in OnLoad(rows, l) : row.release = r => b[r].qty = row.qty
    BY <2>2, <2>4, <2>5
  <2>7. Transport!IsComplete(c)
          <=> \A row \in OnLoad(rows, l) : row.release = r => row.job = "complete"
    BY <2>2, <2>4, Zenon
  <2>8. ~Transport!IsHeld(c) /\ ~Transport!HoldUnknown(c) <=>
          \A row \in OnLoad(rows, l) : row.release = r => row.credit = FALSE /\ row.held = FALSE
    BY <2>2, <2>4, Zenon
  <2> QED BY <2>5, <2>6, <2>7, <2>8, Zenon
<1>4. \A row \in OnLoad(rows, l) : row.release \in D
  BY MineAre
<1>5. \A r \in D : \E row \in OnLoad(rows, l) : row.release = r
  BY DEF ReleasesOn
<1> HIDE DEF b, D
<1>6. IsFiniteSet(MineOf(rows, l))
  BY <1>1, <1>2, ImageFinite
<1>7. MineOf(rows, l) = {} <=> OnLoad(rows, l) = {}
  BY <1>2, <1>4, <1>5, ZenonT(60) DEF Images
<1>8. (\A rel \in MineOf(rows, l) : Transport!IsComplete(rel))
              <=> (\A row \in OnLoad(rows, l) : row.job = "complete")
  BY <1>2, <1>3, <1>4, Zenon DEF Images
<1>9. (\A rel \in MineOf(rows, l) : ~Transport!IsHeld(rel) /\ ~Transport!HoldUnknown(rel))
              <=> (\A row \in OnLoad(rows, l) : row.credit = FALSE /\ row.held = FALSE)
  BY <1>2, <1>3, <1>4, Zenon DEF Images
<1>10. (\A rel \in MineOf(rows, l) : rel.qty # Unknown)
              <=> (\A row \in OnLoad(rows, l) : row.qty # Unknown)
  <2>1. \A row \in OnLoad(rows, l) : b[row.release] \in MineOf(rows, l)
                                    /\ b[row.release].qty = row.qty
    BY <1>2, <1>3, <1>4 DEF Images
  <2>2. \A rel \in MineOf(rows, l) : \E row \in OnLoad(rows, l) : rel.qty = row.qty
    BY <1>2, <1>3, <1>5 DEF Images
  <2> QED BY <2>1, <2>2, Zenon
<1>11. ASSUME \A row \in OnLoad(rows, l) : row.qty # Unknown
       PROVE  Transport!QtyOf(MineOf(rows, l)) =
                Total(D, LAMBDA r : OneRowOf(rows, l, r).qty)
  <2> DEFINE M == Images(b, D)
             f == [rel \in M |-> rel.qty]
             h == [r \in D |-> OneRowOf(rows, l, r).qty]
  <2>1. \A r \in D : h[r] \in Int /\ h[r] = f[b[r]]
    <3> SUFFICES ASSUME NEW r \in D PROVE h[r] \in Int /\ h[r] = f[b[r]]
      OBVIOUS
    <3>1. OneRowOf(rows, l, r) \in OnLoad(rows, l) /\ OneRowOf(rows, l, r).release = r
      BY <1>5, Zenon DEF OneRowOf
    <3>2. OneRowOf(rows, l, r).qty \in Nat
      BY <1>11, <3>1, CalculationsAssumption DEF OnLoad, Transport!JoinedRows
    <3>3. b[r].qty = OneRowOf(rows, l, r).qty
      BY <1>3, <3>1
    <3>4. b[r] \in M
      BY DEF Images
    <3> HIDE DEF M
    <3> QED BY <3>2, <3>3, <3>4
  <2>2. \A r, x \in D : b[r] = b[x] => r = x
    BY <1>3
  <2>3. Transport!QtyOf(MineOf(rows, l)) = SumFunctionOnSet(f, M)
    <3>1. DOMAIN f = M
      OBVIOUS
    <3>2. Transport!QtyOf(M) = SumFunction(f)
      BY TransportSums DEF Transport!QtyOf, Transport!Total
    <3> HIDE DEF f, M
    <3>3. SumFunction(f) = SumFunctionOnSet(f, M)
      BY <3>1 DEF SumFunction
    <3> QED BY <1>2, <3>2, <3>3 DEF M
  <2>4. Total(D, LAMBDA r : OneRowOf(rows, l, r).qty) = SumFunctionOnSet(h, D)
    <3>1. DOMAIN h = D
      OBVIOUS
    <3>2. Total(D, LAMBDA r : OneRowOf(rows, l, r).qty) = SumFunction(h)
      BY DEF Total
    <3> HIDE DEF h
    <3> QED BY <3>1, <3>2 DEF SumFunction
  <2> HIDE DEF f, h
  <2>5. SumFunctionOnSet(f, M) = SumFunctionOnSet(h, D)
    BY <1>1, <2>1, <2>2, SumOfImages
  <2> QED BY <2>3, <2>4, <2>5
<1> QED BY <1>6, <1>7, <1>8, <1>9, <1>10, <1>11 DEF D

(* A load's row is right to call it covered, complete and free of holds.   *)
LEMMA LoadReads ==
  ASSUME NEW rows \in SUBSET Transport!JoinedRows, IsFiniteSet(rows), Transport!Collapsible(rows),
         NEW h \in Transport!BoardRows
  PROVE  LET ready == Transport!Readiness(h, Transport!SyncOrders(rows))   l == h.load IN
         /\ {ready.count, ready.complete, ready.held, ready.unchecked} \subseteq Nat
         /\ ready.count > 0 <=> OnLoad(rows, l) # {}
         /\ ready.complete <= ready.count
         /\ ready.complete = ready.count <=> \A row \in OnLoad(rows, l) : row.job = "complete"
         /\ ready.held = 0 /\ ready.unchecked = 0 <=>
              \A row \in OnLoad(rows, l) : row.credit = FALSE /\ row.held = FALSE
         /\ ready.covered \in BOOLEAN
         /\ ready.covered <=>
              /\ \A row \in OnLoad(rows, l) : row.qty # Unknown
              /\ h.qty # Unknown
              /\ h.qty = Total(ReleasesOn(rows, l), LAMBDA r : OneRowOf(rows, l, r).qty)
<1> DEFINE l == h.load
           mine == MineOf(rows, l)
           ready == Transport!Readiness(h, Transport!SyncOrders(rows))
           Complete == {rel \in mine : Transport!IsComplete(rel)}
           Held == {rel \in mine : Transport!IsHeld(rel)}
           Unchecked == {rel \in mine : Transport!HoldUnknown(rel)}
<1>1. l \in Loads
  BY DEF Transport!BoardRows
<1>2. /\ ready.count = Cardinality(mine) /\ ready.complete = Cardinality(Complete)
      /\ ready.held = Cardinality(Held) /\ ready.unchecked = Cardinality(Unchecked)
      /\ ready.covered = Transport!CoverageMatches(h, mine)
  BY TransportCounts DEF Transport!Readiness, Transport!Count, MineOf
<1> HIDE DEF ready
<1>3. /\ IsFiniteSet(mine)
      /\ mine = {} <=> OnLoad(rows, l) = {}
      /\ (\A rel \in mine : Transport!IsComplete(rel))
              <=> (\A row \in OnLoad(rows, l) : row.job = "complete")
      /\ (\A rel \in mine : ~Transport!IsHeld(rel) /\ ~Transport!HoldUnknown(rel))
              <=> (\A row \in OnLoad(rows, l) : row.credit = FALSE /\ row.held = FALSE)
      /\ (\A rel \in mine : rel.qty # Unknown)
              <=> (\A row \in OnLoad(rows, l) : row.qty # Unknown)
      /\ (\A row \in OnLoad(rows, l) : row.qty # Unknown) =>
              Transport!QtyOf(mine) =
                Total(ReleasesOn(rows, l), LAMBDA r : OneRowOf(rows, l, r).qty)
  BY <1>1, MineSay, Zenon
<1>4. /\ IsFiniteSet(Complete) /\ IsFiniteSet(Held) /\ IsFiniteSet(Unchecked)
      /\ Cardinality(Complete) <= Cardinality(mine)
      /\ Cardinality(Complete) = Cardinality(mine) => mine = Complete
  <2>1. Complete \in SUBSET mine /\ Held \in SUBSET mine /\ Unchecked \in SUBSET mine
    OBVIOUS
  <2> HIDE DEF Complete, Held, Unchecked, mine
  <2> QED BY <1>3, <2>1, FS_Subset
<1>5. ready.complete = ready.count <=> \A rel \in mine : Transport!IsComplete(rel)
  <2>1. mine = Complete <=> \A rel \in mine : Transport!IsComplete(rel)
    OBVIOUS
  <2> HIDE DEF Complete, mine
  <2> QED BY <1>2, <1>4, <2>1
<1>6. ready.held = 0 /\ ready.unchecked = 0 <=>
        \A rel \in mine : ~Transport!IsHeld(rel) /\ ~Transport!HoldUnknown(rel)
  <2>1. (Held = {} <=> \A rel \in mine : ~Transport!IsHeld(rel))
        /\ (Unchecked = {} <=> \A rel \in mine : ~Transport!HoldUnknown(rel))
    OBVIOUS
  <2> HIDE DEF Held, Unchecked, mine
  <2>2. (ready.held = 0 <=> Held = {}) /\ (ready.unchecked = 0 <=> Unchecked = {})
    BY <1>2, <1>4, FS_EmptySet
  <2> QED BY <2>1, <2>2, Zenon
<1>7. {ready.count, ready.complete, ready.held, ready.unchecked} \subseteq Nat
      /\ (ready.count > 0 <=> mine # {}) /\ ready.complete <= ready.count
  <2> HIDE DEF Complete, Held, Unchecked, mine
  <2> QED BY <1>2, <1>3, <1>4, FS_EmptySet, FS_CardinalityType
<1>8. ready.covered <=> /\ h.qty # Unknown
                        /\ \A rel \in mine : rel.qty # Unknown
                        /\ Transport!QtyOf(mine) = h.qty
  BY <1>2, Zenon DEF Transport!CoverageMatches
<1>9. ready.covered \in BOOLEAN
  BY <1>2, Zenon DEF Transport!CoverageMatches
<1> HIDE DEF l, mine, Complete, Held, Unchecked
<1>10. /\ ready.count > 0 <=> OnLoad(rows, l) # {}
       /\ ready.complete = ready.count <=> \A row \in OnLoad(rows, l) : row.job = "complete"
       /\ ready.held = 0 /\ ready.unchecked = 0 <=>
              \A row \in OnLoad(rows, l) : row.credit = FALSE /\ row.held = FALSE
  BY <1>3, <1>5, <1>6, <1>7, Zenon
<1>11. ready.covered <=>
              /\ \A row \in OnLoad(rows, l) : row.qty # Unknown
              /\ h.qty # Unknown
              /\ h.qty = Total(ReleasesOn(rows, l), LAMBDA r : OneRowOf(rows, l, r).qty)
  BY <1>3, <1>8, Zenon
<1> QED BY <1>7, <1>9, <1>10, <1>11, Zenon DEF l, ready

(* The row that is compared is the last of its load, and there is one.     *)
LEMMA LastHeaderIs ==
  ASSUME NEW board \in Seq(Transport!BoardRows), NEW l \in Transport!Shown(board)
  PROVE  \E i \in Transport!LastHeaders(board) :
           board[i].load = l /\ Transport!LastRowOf(board, l) = board[i]
<1> DEFINE places == {i \in 1 .. Len(board) : board[i].load = l}
           after == {Len(board) - i : i \in places}
<1>1. Len(board) \in Nat /\ places # {}
  BY DEF Transport!Shown
<1>2. after \in SUBSET Nat /\ after # {}
  BY <1>1
<1>3. PICK n \in after : \A k \in after : n <= k
  <2> HIDE DEF after
  <2> QED BY <1>2, SmallestExists
<1>4. PICK i \in places : Len(board) - i = n
  OBVIOUS
<1>5. \A j \in places : i >= j
  <2> SUFFICES ASSUME NEW j \in places PROVE i >= j
    OBVIOUS
  <2>1. Len(board) - i <= Len(board) - j
    BY <1>3, <1>4
  <2> QED BY <1>1, <2>1
<1>6. Transport!Max(places) = i
  <2> DEFINE m == CHOOSE x \in places : \A y \in places : x >= y
  <2>1. Transport!Max(places) = m
    BY DEF Transport!Max
  <2>2. m \in places /\ \A y \in places : m >= y
    <3> HIDE DEF places
    <3> QED BY <1>5
  <2>3. m >= i /\ i >= m
    <3> HIDE DEF places, m
    <3> QED BY <1>5, <2>2
  <2>4. m \in Int /\ i \in Int
    <3> HIDE DEF m
    <3> QED BY <2>2, <1>1
  <2> HIDE DEF m
  <2> QED BY <2>1, <2>3, <2>4
<1>7. Transport!LastRowOf(board, l) = board[i]
  BY <1>6, Zenon DEF Transport!LastRowOf
<1>8. i \in Transport!LastHeaders(board) /\ board[i].load = l
  <2>1. \A j \in 1 .. Len(board) : j > i => board[j].load # l
    BY <1>5
  <2> QED BY <2>1 DEF Transport!LastHeaders
<1> QED BY <1>7, <1>8

(* A board clears its loads exactly when their joined rows earn it,        *)
(* whatever the loads, the releases, the rows and the quantities, and      *)
(* however many rows a load has.                                           *)
THEOREM ReadinessIsEarned ==
  ASSUME NEW board \in Seq(Transport!BoardRows),
         NEW rows \in SUBSET Transport!JoinedRows, IsFiniteSet(rows), Transport!Collapsible(rows)
  PROVE  Transport!ClearIsEarnedFor(board, rows)
<1> DEFINE orders == Transport!SyncOrders(rows)
           shown == Transport!Shown(board)
           ready == [l \in shown |-> Transport!Readiness(Transport!LastRowOf(board, l), orders)]
           count == [l \in shown |-> ready[l].count]
           complete == [l \in shown |-> ready[l].complete]
           held == [l \in shown |-> ready[l].held]
           unchecked == [l \in shown |-> ready[l].unchecked]
           uncovered == {l \in shown : ~ready[l].covered}
           Sum(f) == SumFunctionOnSet(f, shown)
<1> DEFINE AllComplete(l) == \A row \in OnLoad(rows, l) : row.job = "complete"
           NoHold(l) == \A row \in OnLoad(rows, l) : row.credit = FALSE /\ row.held = FALSE
           Carries(l, h) == /\ \A row \in OnLoad(rows, l) : row.qty # Unknown
                            /\ h.qty # Unknown
                            /\ h.qty = Total(ReleasesOn(rows, l), LAMBDA r : OneRowOf(rows, l, r).qty)
<1>1. IsFiniteSet(shown)
  <2> DEFINE f == [i \in 1 .. Len(board) |-> board[i].load]
  <2>1. shown = Images(f, 1 .. Len(board))
    BY DEF Transport!Shown, Images
  <2>2. IsFiniteSet(1 .. Len(board))
    BY FS_Interval
  <2> HIDE DEF f, shown
  <2> QED BY <2>1, <2>2, ImageFinite
<1> DEFINE headers == Transport!LastHeaders(board)
<1>2. \A i \in headers : /\ board[i] \in Transport!BoardRows /\ board[i].load \in shown
                         /\ Transport!LastRowOf(board, board[i].load) = board[i]
  <2> SUFFICES ASSUME NEW i \in headers
               PROVE  /\ board[i] \in Transport!BoardRows /\ board[i].load \in shown
                      /\ Transport!LastRowOf(board, board[i].load) = board[i]
    OBVIOUS
  <2>1. i \in 1 .. Len(board) /\ \A j \in 1 .. Len(board) : j > i => board[j].load # board[i].load
    BY DEF Transport!LastHeaders
  <2>2. board[i].load \in Transport!Shown(board)
    BY <2>1 DEF Transport!Shown
  <2>3. PICK k \in headers : /\ board[k].load = board[i].load
                            /\ Transport!LastRowOf(board, board[i].load) = board[k]
    BY <2>2, LastHeaderIs
  <2>4. k \in 1 .. Len(board) /\ \A j \in 1 .. Len(board) : j > k => board[j].load # board[k].load
    BY DEF Transport!LastHeaders
  <2>5. k = i
    BY <2>1, <2>3, <2>4
  <2> QED BY <2>1, <2>2, <2>3, <2>5
<1>3. \A l \in shown : \E i \in headers : board[i].load = l
  BY LastHeaderIs
<1> HIDE DEF headers
<1>4. \A i \in headers : LET l == board[i].load IN
        /\ {count[l], complete[l], held[l], unchecked[l]} \subseteq Nat
        /\ count[l] > 0 <=> OnLoad(rows, l) # {}
        /\ complete[l] <= count[l]
        /\ complete[l] = count[l] <=> AllComplete(l)
        /\ held[l] = 0 /\ unchecked[l] = 0 <=> NoHold(l)
        /\ l \notin uncovered <=> Carries(l, board[i])
  <2> SUFFICES ASSUME NEW i \in headers
               PROVE  LET l == board[i].load IN
                      /\ {count[l], complete[l], held[l], unchecked[l]} \subseteq Nat
                      /\ count[l] > 0 <=> OnLoad(rows, l) # {}
                      /\ complete[l] <= count[l]
                      /\ complete[l] = count[l] <=> AllComplete(l)
                      /\ held[l] = 0 /\ unchecked[l] = 0 <=> NoHold(l)
                      /\ l \notin uncovered <=> Carries(l, board[i])
    OBVIOUS
  <2> DEFINE l == board[i].load   h == board[i]   r == Transport!Readiness(h, orders)
  <2>1. h \in Transport!BoardRows /\ l \in shown /\ ready[l] = r
    BY <1>2
  <2>2. /\ {r.count, r.complete, r.held, r.unchecked} \subseteq Nat
        /\ r.count > 0 <=> OnLoad(rows, l) # {}
        /\ r.complete <= r.count
        /\ r.complete = r.count <=> AllComplete(l)
        /\ r.held = 0 /\ r.unchecked = 0 <=> NoHold(l)
        /\ r.covered <=> Carries(l, h)
    BY <2>1, LoadReads, Zenon
  <2>3. /\ count[l] = r.count /\ complete[l] = r.complete /\ held[l] = r.held
        /\ unchecked[l] = r.unchecked
    BY <2>1
  <2>4. l \in uncovered <=> ~r.covered
    BY <2>1
  <2> HIDE DEF count, complete, held, unchecked, uncovered, ready, r, AllComplete, NoHold, Carries, shown
  <2> QED BY <2>2, <2>3, <2>4, Zenon
<1>5. LET s == Transport!Summarise(board, orders) IN
        s.clear <=> /\ Sum(count) > 0 /\ Sum(complete) = Sum(count)
                    /\ Sum(held) = 0 /\ Sum(unchecked) = 0 /\ uncovered = {}
  <2>1. \A f : DOMAIN f = shown => Transport!SumFunction(f) = Sum(f)
    BY TransportSums DEF SumFunction
  <2>2. /\ Transport!SumFunction(count) = Sum(count) /\ Transport!SumFunction(complete) = Sum(complete)
        /\ Transport!SumFunction(held) = Sum(held) /\ Transport!SumFunction(unchecked) = Sum(unchecked)
    BY <2>1
  <2>3. Transport!Summarise(board, orders).clear
          <=> /\ Transport!SumFunction(count) > 0
              /\ Transport!SumFunction(complete) = Transport!SumFunction(count)
              /\ Transport!SumFunction(held) = 0 /\ Transport!SumFunction(unchecked) = 0
              /\ uncovered = {}
    BY DEF Transport!Summarise, Transport!Total
  <2> QED BY <2>2, <2>3
<1>6. Transport!EarnedClear(board, rows) <=>
        /\ \E l \in shown : OnLoad(rows, l) # {}
        /\ \A i \in headers : /\ AllComplete(board[i].load) /\ NoHold(board[i].load)
                              /\ Carries(board[i].load, board[i])
  <2> DEFINE Known(l) == \A row \in OnLoad(rows, l) : row.qty # Unknown
             Says(l) == \A row \in rows : row.load = l =>
                          row.job = "complete" /\ row.credit = FALSE /\ row.held = FALSE /\ row.qty # Unknown
             Fits(i) == board[i].qty # Unknown /\ board[i].qty = Transport!CarriedQty(rows, board[i].load)
  <2>2. Transport!EarnedClear(board, rows) <=>
          /\ \E l \in shown : OnLoad(rows, l) # {}
          /\ \A l \in shown : Says(l)
          /\ \A i \in headers : Fits(i)
    BY Zenon DEF Transport!EarnedClear, Transport!OnLoad, OnLoad, headers
  <2>3. \A l : Says(l) <=> AllComplete(l) /\ NoHold(l) /\ Known(l)
    <3> SUFFICES ASSUME NEW l PROVE Says(l) <=> AllComplete(l) /\ NoHold(l) /\ Known(l)
      OBVIOUS
    <3>1. \A row : row \in OnLoad(rows, l) <=> row \in rows /\ row.load = l
      BY DEF OnLoad
    <3>2. Says(l) => AllComplete(l) /\ NoHold(l) /\ Known(l)
      BY <3>1, Zenon
    <3>3. AllComplete(l) /\ NoHold(l) /\ Known(l) => Says(l)
      BY <3>1, Zenon
    <3> HIDE DEF Says, AllComplete, NoHold, Known
    <3> QED BY <3>2, <3>3, Zenon
  <2>4. \A i \in headers : Carries(board[i].load, board[i]) <=> Known(board[i].load) /\ Fits(i)
    <3> SUFFICES ASSUME NEW i \in headers
                 PROVE  Carries(board[i].load, board[i]) <=> Known(board[i].load) /\ Fits(i)
      OBVIOUS
    <3> DEFINE l == board[i].load
    <3>1. Transport!CarriedQty(rows, l) = Total(ReleasesOn(rows, l), LAMBDA r : OneRowOf(rows, l, r).qty)
      <4> DEFINE f == [r \in ReleasesOn(rows, l) |-> OneRowOf(rows, l, r).qty]
      <4> HIDE DEF l
      <4>1. Transport!CarriedQty(rows, l) = Transport!SumFunction(f)
        BY Zenon DEF Transport!CarriedQty, Transport!Total, Transport!OnLoad, OnLoad, ReleasesOn, OneRowOf
      <4>2. Transport!SumFunction(f) = Total(ReleasesOn(rows, l), LAMBDA r : OneRowOf(rows, l, r).qty)
        BY TransportSums DEF Total
      <4> HIDE DEF f
      <4> QED BY <4>1, <4>2, Zenon
    <3>2. board[i].qty = Transport!CarriedQty(rows, l)
            <=> board[i].qty = Total(ReleasesOn(rows, l), LAMBDA r : OneRowOf(rows, l, r).qty)
      BY <3>1, Zenon
    <3> HIDE DEF l
    <3>3. Fits(i) <=> board[i].qty # Unknown /\ board[i].qty = Transport!CarriedQty(rows, l)
      BY Zenon DEF l
    <3>4. Carries(l, board[i]) <=>
            Known(l) /\ board[i].qty # Unknown
            /\ board[i].qty = Total(ReleasesOn(rows, l), LAMBDA r : OneRowOf(rows, l, r).qty)
      BY Zenon
    <3>5. Carries(l, board[i]) <=> Known(l) /\ Fits(i)
      <4> HIDE DEF Carries, Known, Fits
      <4> QED BY <3>2, <3>3, <3>4, Zenon
    <3> HIDE DEF Carries, Known, Fits
    <3> QED BY <3>5, Zenon DEF l
  <2>5. (\A l \in shown : Says(l)) <=> \A i \in headers : Says(board[i].load)
    <3> HIDE DEF Says, shown
    <3> QED BY <1>2, <1>3, Zenon
  <2> HIDE DEF Says, AllComplete, NoHold, Carries, Known, Fits, shown
  <2> QED BY <2>2, <2>3, <2>4, <2>5, Zenon
<1> HIDE DEF count, complete, held, unchecked, uncovered, ready, AllComplete, NoHold, Carries, shown
<1>7. \A l \in shown : /\ count[l] \in Nat /\ complete[l] \in Nat /\ held[l] \in Nat
                       /\ unchecked[l] \in Nat /\ complete[l] <= count[l]
  BY <1>3, <1>4
<1>8. /\ Sum(count) \in Nat /\ (Sum(count) = 0 <=> \A l \in shown : count[l] = 0)
      /\ Sum(held) = 0 <=> \A l \in shown : held[l] = 0
      /\ Sum(unchecked) = 0 <=> \A l \in shown : unchecked[l] = 0
  BY <1>1, <1>7, SumNat
<1>9. Sum(complete) = Sum(count) <=> \A l \in shown : complete[l] = count[l]
  <2>1. Sum(complete) = Sum(count) => \A l \in shown : complete[l] = count[l]
    BY <1>1, <1>7, SumAtMost
  <2>2. (\A l \in shown : complete[l] = count[l]) => Sum(complete) = Sum(count)
    BY <1>1, <1>7, SumSame
  <2> QED BY <2>1, <2>2
<1>10. Sum(count) > 0 <=> \E l \in shown : OnLoad(rows, l) # {}
  <2>1. Sum(count) > 0 <=> \E l \in shown : count[l] > 0
    <3> HIDE DEF Sum
    <3> QED BY <1>7, <1>8
  <2>2. \A l \in shown : count[l] > 0 <=> OnLoad(rows, l) # {}
    BY <1>3, <1>4, Zenon
  <2> HIDE DEF Sum
  <2> QED BY <2>1, <2>2, Zenon
<1>11. (\A l \in shown : complete[l] = count[l] /\ held[l] = 0 /\ unchecked[l] = 0 /\ l \notin uncovered)
         <=> \A i \in headers : /\ AllComplete(board[i].load) /\ NoHold(board[i].load)
                              /\ Carries(board[i].load, board[i])
  <2>1. \A i \in headers : board[i].load \in shown
    BY <1>2
  <2>2. \A i \in headers : LET l == board[i].load IN
          (complete[l] = count[l] /\ held[l] = 0 /\ unchecked[l] = 0 /\ l \notin uncovered)
            <=> AllComplete(l) /\ NoHold(l) /\ Carries(l, board[i])
    BY <1>4, Zenon
  <2> QED BY <1>3, <2>1, <2>2, ZenonT(60)
<1>12. uncovered = {} <=> \A l \in shown : l \notin uncovered
  BY DEF uncovered
<1> HIDE DEF Sum
<1>13. Transport!Summarise(board, orders).clear <=> Transport!EarnedClear(board, rows)
  BY <1>5, <1>6, <1>8, <1>9, <1>10, <1>11, <1>12, Zenon
<1> QED BY <1>13, Zenon DEF Transport!ClearIsEarnedFor

(* The board and the rows of every transport page.                         *)
TransportPage == On("transport") =>
  /\ page.in.board \in Seq(Transport!BoardRows)
  /\ page.in.rows \in SUBSET Transport!JoinedRows /\ IsFiniteSet(page.in.rows)
  /\ Transport!Collapsible(page.in.rows)

(* The inputs of the run's transport pages are boards and rows as above.   *)
LEMMA TransportInputs ==
  ASSUME NEW h \in Headers, NEW rows \in Joined
  PROVE  /\ h \in Seq(Transport!BoardRows)
         /\ rows \in SUBSET Transport!JoinedRows /\ IsFiniteSet(rows)
         /\ Transport!Collapsible(rows)
<1>1. h \in Seq(Transport!BoardRows)
  <2> DEFINE B == Transport!BoardRows
  <2>1. h = <<>> \/ (\E x \in B : h = <<x>>) \/ (\E x, y \in B : h = <<x, y>>)
    <3> HIDE DEF B
    <3> QED BY DEF Headers, B
  <2> HIDE DEF B
  <2>2. (\A x \in B : <<x>> \in Seq(B)) /\ (\A x, y \in B : <<x, y>> \in Seq(B)) /\ <<>> \in Seq(B)
    OBVIOUS
  <2>3. h \in Seq(B)
    BY <2>1, <2>2
  <2> QED BY <2>3 DEF B
<1>2. JoinedPart \subseteq Transport!JoinedRows
  <2>1. /\ Loads \subseteq Loads \cup {Unknown}
        /\ {"complete", "blank"} \subseteq Transport!JobStatuses
        /\ 1 .. MaxQty \subseteq (0 .. MaxQty) \cup {Unknown}
    BY CalculationsAssumption DEF Transport!JobStatuses
  <2>2. {FALSE, Unknown} \subseteq Transport!Flag /\ {FALSE, TRUE} \subseteq Transport!Flag
    BY Zenon DEF Transport!Flag
  <2> DEFINE J == {"complete", "blank"}   C == {FALSE, Unknown}   H == {FALSE, TRUE}   Q == 1 .. MaxQty
             L == Loads \cup {Unknown}   R == (0 .. MaxQty) \cup {Unknown}
  <2>3. Loads \subseteq L /\ J \subseteq Transport!JobStatuses /\ C \subseteq Transport!Flag
        /\ H \subseteq Transport!Flag /\ Q \subseteq R
    BY <2>1, <2>2
  <2> HIDE DEF J, C, H, Q, L, R
  <2>4. [release : Releases, load : Loads, job : J, credit : C, held : H, qty : Q]
          \subseteq [release : Releases, load : L, job : Transport!JobStatuses,
                     credit : Transport!Flag, held : Transport!Flag, qty : R]
    BY <2>3
  <2> QED BY <2>4 DEF JoinedPart, Transport!JoinedRows, J, C, H, Q, L, R
<1>3. PICK S : S = rows /\ (S = {} \/ \E x, y \in JoinedPart : S = {x, y})
  BY DEF Joined
<1>4. IsFiniteSet(rows)
  <2>1. CASE rows = {}
    BY <2>1, FS_EmptySet
  <2>2. ASSUME NEW x \in JoinedPart, NEW y \in JoinedPart, rows = {x, y} PROVE IsFiniteSet(rows)
    <3>1. IsFiniteSet({x}) /\ {x} \cup {y} = {x, y}
      BY FS_Singleton
    <3>2. IsFiniteSet({x} \cup {y})
      BY <3>1, FS_AddElement
    <3> QED BY <2>2, <3>1, <3>2
  <2> QED BY <1>3, <2>1, <2>2
<1> QED BY <1>1, <1>2, <1>3, <1>4 DEF Joined

(* readiness.py: on every transport page loads are called clear exactly    *)
(* when every row Epicor gave for them is complete, not held, and adds up  *)
(* to the last header of its load.                                         *)
THEOREM ClearStands == PagesSpec => []ClearIsEarned
<1>1. NoPage => TransportPage
  BY DEF NoPage, TransportPage, On
<1>2. TransportPage /\ [OpenPage]_page => TransportPage'
  <2> SUFFICES ASSUME TransportPage, OpenPage PROVE TransportPage'
    BY DEF TransportPage, On
  <2>1. CASE OpenTransport
    <3>1. PICK h \in Headers, rows \in Joined :
             page' = [kind |-> "transport", in |-> [board |-> h, rows |-> rows]]
      BY <2>1 DEF OpenTransport, Open
    <3>2. page'.in.board = h /\ page'.in.rows = rows
      BY <3>1
    <3> QED BY <3>2, TransportInputs DEF TransportPage
  <2>2. CASE ~OpenTransport
    <3>1. page'.kind # "transport"
      BY <2>2 DEF OpenPage, OpenMaterials, OpenSales, OpenMonths, OpenFloor, OpenOutput, OpenBoard,
         OpenBay, Open
    <3> QED BY <3>1 DEF TransportPage, On
  <2> QED BY <2>1, <2>2
<1>3. TransportPage => ClearIsEarned
  BY ReadinessIsEarned, Zenon DEF TransportPage, ClearIsEarned
<1> QED BY <1>1, <1>2, <1>3, PTL DEF PagesSpec

-----------------------------------------------------------------------------
(***************************************************************************)
(* The floor: the list, the pivot and the quick wins.                      *)
(***************************************************************************)
(* The dashboards' sums and counts are the sums and counts above.          *)
LEMMA FloorsFigures ==
  /\ \A f : Floors!SumFunction(f) = SumFunction(f)
  /\ \A S : Floors!Cardinality(S) = Cardinality(S)
<1>1. \A f : Floors!SumFunction(f) = SumFunction(f)
  BY DEF Floors!SumFunction, Floors!SumFunctionOnSet, Floors!FoldFunctionOnSet, Floors!MapThenFoldSet,
         SumFunction, SumFunctionOnSet, FoldFunctionOnSet, MapThenFoldSet
<1>2. \A S : Floors!Cardinality(S) = Cardinality(S)
  BY DEF Floors!Cardinality, Cardinality
<1> QED BY <1>1, <1>2

(* A floor as the tables hold it, and a search with all of its fields.     *)
IsFloor(floor) == /\ IsFiniteSet(floor.jobs)
                  /\ \A j \in floor.jobs : j.week # "Overdue"
                  /\ \A d \in floor.depts : d.name # "" /\ d.flow \in Int
IsSearch(args) == DOMAIN args = {"category", "dept", "week", "found", "fabric", "component", "only"}

(* The list and the file differ in what NOT IN does with no order.         *)
LEMMA ListIsOnFile ==
  ASSUME NEW floor, NEW args
  PROVE  /\ Floors!Listed(floor, args) \subseteq Floors!Exported(floor, args)
         /\ Floors!Exported(floor, args) \ Floors!Listed(floor, args)
              \subseteq (IF args.only = "no_shortage" THEN {j \in floor.jobs : j.order = NoOrder} ELSE {})
<1> DEFINE base == Floors!Base(floor, args)
           Shows(sql, j) == Floors!ShortPasses(sql, floor, base, args, j)
<1>1. \A j \in base : j \in floor.jobs
  BY DEF Floors!Base, Floors!Scope
<1>2. \A j : \/ Shows(TRUE, j) <=> Shows(FALSE, j)
             \/ args.only = "no_shortage" /\ j.order = NoOrder /\ ~Shows(TRUE, j)
  <2> SUFFICES ASSUME NEW j PROVE \/ Shows(TRUE, j) <=> Shows(FALSE, j)
                                  \/ args.only = "no_shortage" /\ j.order = NoOrder /\ ~Shows(TRUE, j)
    OBVIOUS
  <2>1. CASE args.only = "no_shortage"
    <3> DEFINE S == Floors!Short(floor, base, args.only)
    <3>1. Shows(TRUE, j) <=> Floors!NotIn(TRUE, j.order, S)
      BY <2>1 DEF Floors!ShortPasses
    <3>2. Shows(FALSE, j) <=> Floors!NotIn(FALSE, j.order, S)
      BY <2>1 DEF Floors!ShortPasses
    <3> HIDE DEF S, Shows
    <3> QED BY <2>1, <3>1, <3>2, Zenon DEF Floors!NotIn
  <2>2. CASE args.only # "no_shortage"
    BY <2>2 DEF Floors!ShortPasses
  <2> QED BY <2>1, <2>2
<1>3. \A j : j \in Floors!Listed(floor, args) <=>
               j \in base /\ Floors!StatusesPass(floor, args, j) /\ Shows(TRUE, j)
  BY Zenon DEF Floors!Listed
<1>4. \A j : j \in Floors!Exported(floor, args) <=>
               j \in base /\ Floors!StatusesPass(floor, args, j) /\ Shows(FALSE, j)
  BY Zenon DEF Floors!Exported
<1> HIDE DEF base, Shows
<1>5. \A j : Shows(TRUE, j) => Shows(FALSE, j)
  <2> SUFFICES ASSUME NEW j, Shows(TRUE, j) PROVE Shows(FALSE, j)
    OBVIOUS
  <2> QED BY <1>2
<1>6. Floors!Listed(floor, args) \subseteq Floors!Exported(floor, args)
  BY <1>3, <1>4, <1>5
<1>7. \A j \in Floors!Exported(floor, args) \ Floors!Listed(floor, args) :
        args.only = "no_shortage" /\ j.order = NoOrder /\ j \in floor.jobs
  BY <1>1, <1>2, <1>3, <1>4
<1> QED BY <1>6, <1>7

PivotTotal(pivot) == Floors!Total(DOMAIN pivot, LAMBDA op :
                       Floors!Total(DOMAIN pivot[op], LAMBDA c : pivot[op][c].jobs))
Timed(jobs)       == {j \in jobs : j.week # NoWeek \/ Floors!IsBefore(j.due, 0)}
OfOrders(jobs, S) == {j \in jobs : j.order \in S}

(* Every listed job that is overdue or has a week is in one cell.          *)
LEMMA PivotCounts ==
  ASSUME NEW listed, IsFiniteSet(listed), \A j \in listed : j.week # "Overdue"
  PROVE  PivotTotal(Floors!Pivot(listed)) = Cardinality(Timed(listed))
<1> DEFINE Ops == {j.op : j \in listed}
           Cols == Floors!Columns(listed)
           Here(op, c) == {j \in listed : j.op = op /\ Floors!InColumn(j, c)}
           Shown == Timed(listed)
           cell == [op \in Ops |-> [c \in Cols |-> Cardinality(Here(op, c))]]
           row == [op \in Ops |-> SumFunctionOnSet(cell[op], Cols)]
<1>1. PivotTotal(Floors!Pivot(listed)) = SumFunctionOnSet(row, Ops)
  <2> DEFINE pivot == Floors!Pivot(listed)
  <2>1. DOMAIN pivot = Ops
    BY DEF Floors!Pivot
  <2>2. \A op \in Ops : DOMAIN pivot[op] = Cols
    BY DEF Floors!Pivot
  <2>3. \A op \in Ops, c \in Cols : pivot[op][c].jobs = cell[op][c]
    BY FloorsFigures DEF Floors!Pivot
  <2> HIDE DEF pivot, cell, Ops, Cols
  <2>4. ASSUME NEW op \in Ops
        PROVE  SumFunction([c \in DOMAIN pivot[op] |-> pivot[op][c].jobs]) = row[op]
    <3> DEFINE f == [c \in DOMAIN pivot[op] |-> pivot[op][c].jobs]
    <3>1. DOMAIN f = Cols /\ f = [c \in Cols |-> cell[op][c]]
      BY <2>2, <2>3
    <3>2. cell[op] = [c \in Cols |-> cell[op][c]]
      BY DEF cell
    <3>3. f = cell[op]
      BY <3>1, <3>2
    <3> HIDE DEF f
    <3>4. SumFunction(f) = SumFunctionOnSet(cell[op], Cols)
      BY <3>1, <3>3 DEF SumFunction
    <3> QED BY <3>4 DEF f
  <2> DEFINE g == [op \in DOMAIN pivot |-> SumFunction([c \in DOMAIN pivot[op] |-> pivot[op][c].jobs])]
  <2>5. g = row /\ DOMAIN g = Ops
    BY <2>1, <2>4
  <2>6. PivotTotal(pivot) = SumFunction(g)
    BY FloorsFigures DEF PivotTotal, Floors!Total
  <2> HIDE DEF g, row
  <2> QED BY <2>5, <2>6 DEF SumFunction, pivot
<1>2. IsFiniteSet(Ops) /\ IsFiniteSet(Cols)
  <2> DEFINE f == [j \in listed |-> j.op]   g == [j \in listed |-> j.week]
  <2>1. Ops = Images(f, listed) /\ IsFiniteSet(Images(f, listed)) /\ IsFiniteSet(Images(g, listed))
    <3>1. Ops = Images(f, listed)
      BY DEF Images
    <3> HIDE DEF f, g
    <3> QED BY <3>1, ImageFinite
  <2>2. Cols = (Images(g, listed) \ {NoWeek}) \cup {"Overdue"}
    BY DEF Floors!Columns, Images
  <2> DEFINE W == Images(g, listed)
  <2> HIDE DEF Ops, Cols, W
  <2>3. IsFiniteSet(W \ {NoWeek})
    BY <2>1, FS_RemoveElement DEF W
  <2>4. IsFiniteSet((W \ {NoWeek}) \cup {"Overdue"})
    BY <2>3, FS_AddElement
  <2> QED BY <2>1, <2>2, <2>4 DEF W
<1>3. ASSUME NEW op \in Ops
      PROVE  /\ IsFiniteSet({j \in Shown : j.op = op})
             /\ Cardinality({j \in Shown : j.op = op}) = row[op]
  <2> DEFINE part == [c \in Cols |-> Here(op, c)]
  <2>1. \A c \in Cols : part[c] \in SUBSET listed
    OBVIOUS
  <2>2. \A c \in Cols : IsFiniteSet(part[c])
    <3> HIDE DEF part
    <3> QED BY <2>1, FS_Subset
  <2>3. \A c \in Cols : cell[op][c] = Cardinality(part[c])
    OBVIOUS
  <2>4. \A c, d \in Cols : c # d => part[c] \cap part[d] = {}
    BY DEF Floors!InColumn
  <2>5. Whole(part, Cols) = {j \in Shown : j.op = op}
    <3>1. \A j \in listed : (\E c \in Cols : Floors!InColumn(j, c)) <=> j \in Shown
      <4> SUFFICES ASSUME NEW j \in listed
                   PROVE  (\E c \in Cols : Floors!InColumn(j, c)) <=> j \in Shown
        OBVIOUS
      <4>1. "Overdue" \in Cols /\ (j.week # NoWeek => j.week \in Cols)
            /\ \A c \in Cols : c = "Overdue" \/ c # NoWeek
        BY DEF Floors!Columns
      <4>2. Floors!InColumn(j, "Overdue") <=> Floors!IsBefore(j.due, 0)
        BY DEF Floors!InColumn
      <4>3. \A c \in Cols : c # "Overdue" =>
              (Floors!InColumn(j, c) <=> j.week = c /\ ~Floors!IsBefore(j.due, 0))
        BY DEF Floors!InColumn
      <4>4. j \in Shown <=> j.week # NoWeek \/ Floors!IsBefore(j.due, 0)
        BY DEF Timed
      <4> HIDE DEF Cols, Shown
      <4> QED BY <4>1, <4>2, <4>3, <4>4
    <3>2. \A j : j \in Whole(part, Cols) <=> \E c \in Cols :
            j \in listed /\ j.op = op /\ Floors!InColumn(j, c)
      BY DEF Whole
    <3>3. \A j \in Shown : j \in listed
      BY DEF Timed
    <3>4. \A j : j \in Whole(part, Cols) <=> j \in {x \in Shown : x.op = op}
      <4> HIDE DEF Cols, Shown, part
      <4> QED BY <3>1, <3>2, <3>3
    <3> QED BY <3>4
  <2> DEFINE h == cell[op]
  <2> HIDE DEF part, Cols, cell, Shown
  <2>6. IsFiniteSet(Whole(part, Cols)) /\ Cardinality(Whole(part, Cols)) = SumFunctionOnSet(h, Cols)
    <3> HIDE DEF h
    <3>1. \A c \in Cols : IsFiniteSet(part[c]) /\ h[c] = Cardinality(part[c])
      BY <2>2, <2>3 DEF h
    <3> QED BY <1>2, <2>4, <3>1, CountByParts
  <2> QED BY <2>5, <2>6
<1> DEFINE all == [op \in Ops |-> {j \in Shown : j.op = op}]
<1>4. \A op \in Ops : IsFiniteSet(all[op]) /\ row[op] = Cardinality(all[op])
  BY <1>3
<1>5. \A op, oq \in Ops : op # oq => all[op] \cap all[oq] = {}
  OBVIOUS
<1>6. Whole(all, Ops) = Shown
  <2>1. \A j \in Shown : j.op \in Ops
    BY DEF Timed
  <2>2. \A op \in Ops : all[op] = {j \in Shown : j.op = op}
    OBVIOUS
  <2> HIDE DEF all, Ops, Shown
  <2> QED BY <2>1, <2>2 DEF Whole
<1> HIDE DEF Ops, Shown, row, all
<1>7. Cardinality(Whole(all, Ops)) = SumFunctionOnSet(row, Ops)
  BY <1>2, <1>4, <1>5, CountByParts
<1>8. Cardinality(Shown) = SumFunctionOnSet(row, Ops)
  BY <1>6, <1>7
<1> QED BY <1>1, <1>8, Zenon DEF Shown

(* Choosing departments one by one goes through all the work.              *)
LEMMA DepartmentsCover ==
  ASSUME NEW floor, IsFloor(floor), NEW args, IsSearch(args),
         \A j \in Floors!Scope(floor, args) : Floors!Flow(floor, j.op) < Floors!LastPlace
  PROVE  Floors!Base(floor, [args EXCEPT !.dept = ""])
           = UNION {Floors!Base(floor, [args EXCEPT !.dept = d.name]) : d \in Floors!ShownDepts(floor, args)}
<1> DEFINE scope == Floors!Scope(floor, args)
           Of(name) == Floors!Base(floor, [args EXCEPT !.dept = name])
<1>1. \A name, j : j \in Of(name) <=> j \in scope /\ Floors!InDepartment(floor.depts, j, name)
  <2> SUFFICES ASSUME NEW name, NEW j
               PROVE  j \in Of(name) <=> j \in scope /\ Floors!InDepartment(floor.depts, j, name)
    OBVIOUS
  <2> DEFINE other == [args EXCEPT !.dept = name]
  <2>1. other.dept = name /\ other.found = args.found /\ other.category = args.category
        /\ other.week = args.week
    BY DEF IsSearch
  <2> HIDE DEF other
  <2>2. Floors!Scope(floor, other) = scope
    BY <2>1 DEF Floors!Scope
  <2>3. Floors!Base(floor, other) = {x \in Floors!Scope(floor, other) : Floors!InDepartment(floor.depts, x, other.dept)}
    BY DEF Floors!Base
  <2> HIDE DEF scope
  <2> QED BY <2>1, <2>2, <2>3 DEF other
<1>2. \A j \in scope : \E d \in floor.depts : j.op \in d.ops
  <2> SUFFICES ASSUME NEW j \in scope, ~\E d \in floor.depts : j.op \in d.ops PROVE FALSE
    OBVIOUS
  <2>1. {d \in floor.depts : j.op \in d.ops} = {}
    OBVIOUS
  <2>2. Floors!Flow(floor, j.op) = Floors!LastPlace
    BY <2>1 DEF Floors!Flow
  <2>3. Floors!LastPlace < Floors!LastPlace
    BY <2>2
  <2> QED BY <2>3 DEF Floors!LastPlace
<1>3. \A j : Floors!InDepartment(floor.depts, j, "")
  BY DEF IsFloor, Floors!InDepartment, Floors!DeptOps
<1>4. \A j \in scope : \E d \in Floors!ShownDepts(floor, args) :
        Floors!InDepartment(floor.depts, j, d.name)
  <2> SUFFICES ASSUME NEW j \in scope
               PROVE  \E d \in Floors!ShownDepts(floor, args) :
                        Floors!InDepartment(floor.depts, j, d.name)
    OBVIOUS
  <2>1. PICK d \in floor.depts : j.op \in d.ops
    BY <1>2
  <2>2. d \in Floors!ShownDepts(floor, args)
    BY <2>1 DEF Floors!ShownDepts
  <2>3. j.op \in Floors!DeptOps(floor.depts, d.name)
    BY <2>1 DEF Floors!DeptOps
  <2> QED BY <2>2, <2>3 DEF Floors!InDepartment
<1> HIDE DEF scope, Of
<1>5. \A j : j \in Of("") <=> \E d \in Floors!ShownDepts(floor, args) : j \in Of(d.name)
  BY <1>1, <1>3, <1>4
<1>6. \A j : j \in Of("") <=> j \in UNION {Of(d.name) : d \in Floors!ShownDepts(floor, args)}
  BY <1>5
<1>7. Of("") = UNION {Of(d.name) : d \in Floors!ShownDepts(floor, args)}
  BY <1>6
<1> QED BY <1>7 DEF Of

(* What is short of either material is no more than the two together.      *)
LEMMA EitherAtMostBoth ==
  ASSUME NEW base, IsFiniteSet(base), NEW A, NEW B
  PROVE  Cardinality(OfOrders(base, A \cup B))
           <= Cardinality(OfOrders(base, A)) + Cardinality(OfOrders(base, B))
<1> DEFINE a == OfOrders(base, A)   b == OfOrders(base, B)
<1>1. OfOrders(base, A \cup B) = a \cup b /\ a \in SUBSET base /\ b \in SUBSET base
      /\ a \cap b \in SUBSET base
  BY DEF OfOrders
<1> HIDE DEF a, b
<1>2. /\ IsFiniteSet(a) /\ IsFiniteSet(b) /\ IsFiniteSet(a \cap b)
  BY <1>1, FS_Subset
<1>3. Cardinality(a \cup b) = Cardinality(a) + Cardinality(b) - Cardinality(a \cap b)
  BY <1>2, FS_Union
<1>4. Cardinality(a) \in Nat /\ Cardinality(b) \in Nat /\ Cardinality(a \cap b) \in Nat
  BY <1>2, FS_CardinalityType
<1>5. Cardinality(a \cup b) <= Cardinality(a) + Cardinality(b)
  BY <1>3, <1>4
<1> QED BY <1>1, <1>5 DEF a, b

(* The list, the file, the pivot and the departments show the same work,   *)
(* on every floor and under every search.                                  *)
THEOREM SameWorkShown ==
  ASSUME NEW floor, IsFloor(floor), NEW args, IsSearch(args)
  PROVE  Floors!WorkShownAgreesFor(floor, args)
<1> DEFINE overview == Floors!WipOverview(floor, args)
           base == Floors!Base(floor, args)
           fabric == Floors!AtRisk(base, floor.fabric)
           component == Floors!AtRisk(base, floor.component)
           listed == Floors!Listed(floor, args)
<1>1. /\ overview.jobs = listed /\ overview.pivot = Floors!Pivot(listed)
      /\ overview.depts = Floors!ShownDepts(floor, args)
      /\ overview.shortages = Cardinality(OfOrders(base, fabric))
      /\ overview.componentShortages = Cardinality(OfOrders(base, component))
      /\ overview.eitherShortages = Cardinality(OfOrders(base, fabric \cup component))
  BY FloorsFigures DEF Floors!WipOverview, OfOrders
<1>2. /\ base \in SUBSET floor.jobs /\ listed \in SUBSET floor.jobs
  BY DEF Floors!Base, Floors!Scope, Floors!Listed
<1>3. /\ IsFiniteSet(base) /\ IsFiniteSet(listed) /\ \A j \in listed : j.week # "Overdue"
  <2> HIDE DEF base, listed
  <2> QED BY <1>2, FS_Subset DEF IsFloor
<1> HIDE DEF overview, base, fabric, component, listed
<1>4. overview.eitherShortages <= overview.shortages + overview.componentShortages
  BY <1>1, <1>3, EitherAtMostBoth
<1>5. PivotTotal(overview.pivot) = Cardinality(Timed(listed))
  BY <1>1, <1>3, PivotCounts
<1> QED BY <1>1, <1>4, <1>5, ListIsOnFile, DepartmentsCover, FloorsFigures, Zenon
           DEF Floors!WorkShownAgreesFor, overview, listed, PivotTotal, Timed

(* A finite set of numbers has a least one.                                *)
LEMMA LeastExists ==
  ASSUME NEW S, IsFiniteSet(S), S \subseteq Int, S # {}
  PROVE  \E m \in S : \A k \in S : m <= k
<1> DEFINE Least(s, m) == \A k \in s : m <= k
           Good == {s \in SUBSET S : s = {} \/ \E m \in s : Least(s, m)}
<1>1. ASSUME NEW s \in SUBSET S, \A x \in s : s \ {x} \in Good PROVE s \in Good
  <2>1. CASE s = {}
    BY <2>1
  <2>2. CASE s # {}
    <3>1. PICK x \in s : TRUE
      BY <2>2
    <3>2. CASE s \ {x} = {}
      <4>1. Least(s, x)
        BY <3>2
      <4> QED BY <4>1
    <3>3. ASSUME NEW m \in s \ {x}, Least(s \ {x}, m) PROVE s \in Good
      <4>1. CASE m <= x
        <5>1. Least(s, m)
          BY <3>3, <4>1
        <5> QED BY <5>1
      <4>2. CASE ~(m <= x)
        <5>1. Least(s, x)
          BY <3>3, <4>2
        <5> QED BY <5>1
      <4> QED BY <4>1, <4>2
    <3>4. s \ {x} \in Good
      BY <1>1
    <3> QED BY <3>2, <3>3, <3>4
  <2> QED BY <2>1, <2>2
<1>2. S \in Good
  <2>1. \A s \in SUBSET S : (\A x \in s : s \ {x} \in Good) => s \in Good
    BY <1>1
  <2> HIDE DEF Good
  <2> QED BY <2>1, SetInduction
<1> QED BY <1>2

(* Of an order no filter hides a part of, the quick wins are its active    *)
(* jobs exactly when the whole order can be finished now.                  *)
THEOREM QuickWinsAreClear ==
  ASSUME NEW floor, IsFloor(floor), NEW args, IsSearch(args), NEW upholstery
  PROVE  Floors!QuickWinsAreClearFor(floor, args, upholstery)
<1> DEFINE rows == Floors!Scope(floor, args)
           flow(j) == Floors!Flow(floor, j.op)
           from == Floors!Flow(floor, upholstery)
           candidates(a) == Floors!OrdersOnFloor(rows) \cap (Floors!PartlyComplete(floor) \cup Floors!SingleJob(floor, a))
           clear(a) == candidates(a) \ (Floors!AtRisk(rows, floor.fabric) \cup Floors!AtRisk(rows, floor.component))
           Flows(o) == {flow(j) : j \in {x \in rows : x.order = o}}
           ready(a) == {o \in clear(a) : Floors!Min(Flows(o)) >= from}
           wins == Floors!QuickWinsShown(floor, args, upholstery)
           other == [args EXCEPT !.dept = "", !.only = "off"]
<1>1. wins = Floors!QuickWinsExported(floor, other, upholstery)
  <2>1. other.found = args.found /\ other.category = args.category /\ other.week = args.week
    BY DEF IsSearch
  <2> HIDE DEF other
  <2>2. Floors!Scope(floor, other) = Floors!Scope(floor, args)
    BY <2>1 DEF Floors!Scope
  <2>3. Floors!SingleJob(floor, other) = Floors!SingleJob(floor, args)
    BY <2>1 DEF Floors!SingleJob
  <2>4. \A some : Floors!QuickWins(floor, some, other, upholstery) = Floors!QuickWins(floor, some, args, upholstery)
    BY <2>3 DEF Floors!QuickWins
  <2> QED BY <2>2, <2>4 DEF Floors!QuickWinsShown, Floors!QuickWinsExported
<1>2. \A j \in wins : j \in rows /\ j.order \in ready(args) /\ flow(j) >= from
  BY DEF Floors!QuickWinsShown, Floors!QuickWins
<1>3. ASSUME NEW j \in wins, NEW x \in rows, x.order \in ready(args), flow(x) >= from PROVE x \in wins
  BY <1>3 DEF Floors!QuickWinsShown, Floors!QuickWins
<1>4. \A op : Floors!Flow(floor, op) \in Int
  <2> SUFFICES ASSUME NEW op PROVE Floors!Flow(floor, op) \in Int
    OBVIOUS
  <2> DEFINE answering == {d \in floor.depts : op \in d.ops}
             first == CHOOSE d \in answering : TRUE
  <2>1. answering # {} => first \in answering
    OBVIOUS
  <2>2. Floors!Flow(floor, op) = IF answering = {} THEN Floors!LastPlace ELSE first.flow
    BY Zenon DEF Floors!Flow
  <2>3. \A d \in answering : d.flow \in Int
    BY DEF IsFloor
  <2> HIDE DEF answering, first
  <2> QED BY <2>1, <2>2, <2>3 DEF Floors!LastPlace
<1>5. IsFiniteSet(rows)
  <2>1. rows \in SUBSET floor.jobs
    BY DEF Floors!Scope
  <2> HIDE DEF rows
  <2> QED BY <2>1, FS_Subset DEF IsFloor
<1>6. ASSUME NEW o, NEW x \in rows, x.order = o
      PROVE  /\ Floors!Min(Flows(o)) \in Int /\ Floors!Min(Flows(o)) <= flow(x)
             /\ \E y \in rows : y.order = o /\ Floors!Min(Flows(o)) = flow(y)
  <2> DEFINE S == {y \in rows : y.order = o}   f == [j \in S |-> flow(j)]
  <2>1. S \in SUBSET rows /\ Flows(o) = Images(f, S)
    BY DEF Images
  <2>2. /\ flow(x) \in Flows(o) /\ Flows(o) \subseteq Int
        /\ \A m \in Flows(o) : \E y \in rows : y.order = o /\ m = flow(y)
    BY <1>4, <1>6
  <2>3. IsFiniteSet(S)
    <3> HIDE DEF S, rows
    <3> QED BY <1>5, <2>1, FS_Subset
  <2> DEFINE F == Flows(o)
  <2>4. IsFiniteSet(F)
    <3> HIDE DEF f, S, F
    <3> QED BY <2>1, <2>3, ImageFinite DEF F
  <2> HIDE DEF Flows, flow, rows
  <2>5. flow(x) \in F /\ F \subseteq Int /\ \A m \in F : \E y \in rows : y.order = o /\ m = flow(y)
    BY <2>2
  <2> HIDE DEF F
  <2>6. \E m \in F : \A k \in F : m <= k
    BY <2>4, <2>5, LeastExists
  <2>7. Floors!Min(F) \in F /\ \A k \in F : Floors!Min(F) <= k
    BY <2>6 DEF Floors!Min
  <2> QED BY <2>5, <2>7 DEF F
<1>7. ASSUME NEW j \in wins, NEW x \in rows, x.order = j.order
      PROVE  flow(x) >= from /\ x \in wins
  <2>1. x.order \in ready(args)
    BY <1>2, <1>7
  <2>2. flow(x) >= from
    <3> DEFINE m == Floors!Min(Flows(x.order))
    <3>1. m \in Int /\ m <= flow(x) /\ m >= from /\ flow(x) \in Int /\ from \in Int
      <4> HIDE DEF flow, Flows, from, rows, wins
      <4> QED BY <1>4, <1>6, <2>1 DEF flow, from
    <3> HIDE DEF m, flow, from
    <3> QED BY <3>1
  <2> QED BY <1>3, <2>1, <2>2
<1> DEFINE placed == \E d \in floor.depts : upholstery \in d.ops
           CanFinish(o) == Floors!Finishable(floor, upholstery, o)
           active(o) == {j \in Floors!OrderJobs(floor, o) : Floors!Active(j)}
<1>8. ASSUME NEW o \in Floors!OrdersOnFloor(floor.jobs), Floors!InView(floor, args, o)
      PROVE  {j \in wins : j.order = o} = IF placed /\ CanFinish(o) THEN active(o) ELSE {}
  <2>1. o # NoOrder /\ active(o) = {j \in rows : j.order = o}
    BY <1>8 DEF Floors!OrdersOnFloor, Floors!InView, Floors!OrderJobs, Floors!Scope
  <2>2. CASE ~placed \/ active(o) = {}
    <3>1. {j \in wins : j.order = o} = {}
      <4>1. CASE ~placed
        BY <4>1 DEF Floors!QuickWinsShown, Floors!QuickWins
      <4>2. CASE active(o) = {}
        <5> HIDE DEF active, rows, wins
        <5> QED BY <1>2, <2>1, <4>2
      <4> HIDE DEF placed, active, wins
      <4> QED BY <2>2, <4>1, <4>2
    <3> HIDE DEF placed, active, wins, CanFinish
    <3> QED BY <2>2, <3>1
  <2>3. CASE placed /\ active(o) # {}
    <3>1. o \in Floors!OrdersOnFloor(rows)
      <4> HIDE DEF active, rows
      <4> QED BY <2>1, <2>3 DEF Floors!OrdersOnFloor
    <3>2. o \in Floors!PartlyComplete(floor) <=> \E j \in Floors!OrderJobs(floor, o) : j.complete
      BY <2>1 DEF Floors!PartlyComplete, Floors!OrdersOnFloor, Floors!OrderJobs
    <3>3. o \in Floors!SingleJob(floor, args)
            <=> Cardinality({j \in Floors!OrderJobs(floor, o) : j.released}) = 1
      <4> DEFINE found == {j \in floor.jobs : j.released /\ j.id \in args.found
                                               /\ Floors!InCategory(j, args.category)}
                 its == {j \in Floors!OrderJobs(floor, o) : j.released}
      <4>1. {j \in found : j.order = o} = its
        BY <1>8 DEF Floors!InView, Floors!OrderJobs
      <4>2. \E j \in its : TRUE
        BY <2>3 DEF Floors!Active
      <4>3. o \in Floors!OrdersOnFloor(found)
        <5> HIDE DEF found, its
        <5> QED BY <2>1, <4>1, <4>2 DEF Floors!OrdersOnFloor
      <4>4. o \in Floors!SingleJob(floor, args)
              <=> o \in Floors!OrdersOnFloor(found) /\ Floors!Cardinality({j \in found : j.order = o}) = 1
        BY Zenon DEF Floors!SingleJob
      <4> HIDE DEF found, its
      <4>5. Floors!Cardinality(its) = Cardinality(its)
        BY FloorsFigures
      <4> QED BY <4>1, <4>3, <4>4, <4>5 DEF its
    <3>4. \A status : o \notin Floors!AtRisk(rows, status) <=> status[o] \in {"ok", "no_data"}
      <4> HIDE DEF rows
      <4> QED BY <3>1 DEF Floors!AtRisk
    <3>5. Floors!Min(Flows(o)) >= from <=> \A j \in active(o) : flow(j) >= from
      <4> DEFINE m == Floors!Min(Flows(o))
      <4>1. PICK x \in rows : x.order = o
        BY <2>1, <2>3
      <4>2. /\ m \in Int /\ \A y \in active(o) : m <= flow(y)
            /\ \E y \in active(o) : m = flow(y)
        <5> HIDE DEF rows, Flows, flow, active
        <5>1. \A y \in rows : y.order = o => m <= flow(y)
          BY <1>6
        <5>2. m \in Int /\ \E y \in rows : y.order = o /\ m = flow(y)
          BY <1>6, <4>1
        <5> HIDE DEF m
        <5> QED BY <2>1, <5>1, <5>2
      <4>3. from \in Int /\ \A j : flow(j) \in Int
        BY <1>4
      <4> HIDE DEF m, flow, from, active
      <4> QED BY <4>2, <4>3 DEF m
    <3>6. o \in ready(args) <=> CanFinish(o)
      <4>1. o \in ready(args) <=>
              /\ o \in Floors!PartlyComplete(floor) \/ o \in Floors!SingleJob(floor, args)
              /\ o \notin Floors!AtRisk(rows, floor.fabric) /\ o \notin Floors!AtRisk(rows, floor.component)
              /\ Floors!Min(Flows(o)) >= from
        <5> HIDE DEF Flows, from, rows
        <5> QED BY <3>1
      <4>2. CanFinish(o) <=>
              /\ \/ \E j \in Floors!OrderJobs(floor, o) : j.complete
                 \/ Cardinality({j \in Floors!OrderJobs(floor, o) : j.released}) = 1
              /\ floor.fabric[o] \in {"ok", "no_data"} /\ floor.component[o] \in {"ok", "no_data"}
              /\ \A j \in active(o) : flow(j) >= from
        BY FloorsFigures DEF Floors!Finishable
      <4> HIDE DEF CanFinish, ready, active, flow, from, Flows, rows
      <4> QED BY <3>2, <3>3, <3>4, <3>5, <4>1, <4>2, Zenon
    <3>7. \A j : j \in wins <=> j \in rows /\ j.order \in ready(args) /\ flow(j) >= from
      BY <2>3 DEF Floors!QuickWinsShown, Floors!QuickWins
    <3>8. CanFinish(o) => \A j \in active(o) : flow(j) >= from
      BY DEF Floors!Finishable
    <3> HIDE DEF CanFinish, ready, active, flow, from, wins, rows, placed
    <3>9. CASE CanFinish(o)
      BY <2>1, <2>3, <3>6, <3>7, <3>8, <3>9
    <3>10. CASE ~CanFinish(o)
      BY <3>6, <3>7, <3>10
    <3> QED BY <3>9, <3>10
  <2> QED BY <2>2, <2>3
<1>9. ASSUME NEW j \in wins, NEW x \in rows, x.order = j.order
      PROVE  Floors!Flow(floor, x.op) >= Floors!Flow(floor, upholstery) /\ x \in wins
  BY <1>7, <1>9
<1> HIDE DEF wins, other, ready, rows
<1> QED BY <1>1, <1>8, <1>9 DEF Floors!QuickWinsAreClearFor, wins, other, rows

(* The floor of every page of work.                                        *)
FloorPage == On("floor") => IsFloor(page.in)

(* The floors of the run are floors as above.                              *)
LEMMA FloorInputs ==
  ASSUME NEW floor \in FloorStates
  PROVE  IsFloor(floor)
<1>1. PICK op1, op2, w, d1, d2, o3, c3 : w \in {"w1", NoWeek} /\
        floor.jobs = FloorJobs(op1, op2, w, d1, d2, o3, c3) /\ floor.depts = FloorDepts
  BY DEF FloorStates
<1>2. IsFiniteSet(floor.jobs)
  <2> DEFINE a == FloorJob(1, 1, op1, w, d1, FALSE)        b == FloorJob(2, 1, op2, NoWeek, d2, FALSE)
             c == FloorJob(3, o3, "SEW", "w1", 5, c3)      d == FloorJob(4, NoOrder, "UPHOL", "w1", -1, FALSE)
  <2>1. floor.jobs = {a, b, c, d}
    BY <1>1, Zenon DEF FloorJobs
  <2> HIDE DEF a, b, c, d
  <2>2. IsFiniteSet({a}) /\ IsFiniteSet({a} \cup {b})
    BY FS_Singleton, FS_AddElement
  <2>3. IsFiniteSet(({a} \cup {b}) \cup {c})
    BY <2>2, FS_AddElement
  <2>4. IsFiniteSet((({a} \cup {b}) \cup {c}) \cup {d})
    BY <2>3, FS_AddElement
  <2>5. (({a} \cup {b}) \cup {c}) \cup {d} = {a, b, c, d}
    OBVIOUS
  <2> QED BY <2>1, <2>4, <2>5
<1>3. \A j \in floor.jobs : j.week # "Overdue"
  <2>1. \A j \in floor.jobs : j.week \in {w, NoWeek, "w1"}
    BY <1>1 DEF FloorJobs, FloorJob
  <2> QED BY <1>1, <2>1, CalculationsAssumption
<1>4. \A d \in floor.depts : d.name # "" /\ d.flow \in Int
  <2> DEFINE s == [name |-> "Sewing", ops |-> {"SEW"}, flow |-> 1]
             u == [name |-> "Upholstery", ops |-> {"UPHOL"}, flow |-> 2]
  <2>1. floor.depts = {s, u}
    BY <1>1 DEF FloorDepts
  <2>2. s.name # "" /\ s.flow \in Int /\ u.name # "" /\ u.flow \in Int
    OBVIOUS
  <2> HIDE DEF s, u
  <2> QED BY <2>1, <2>2
<1> QED BY <1>2, <1>3, <1>4 DEF IsFloor

(* So are its searches.                                                    *)
LEMMA SearchInputs ==
  ASSUME NEW args \in Searches
  PROVE  IsSearch(args)
  BY DEF Searches, IsSearch

(* operations/services.py: on every page of work the jobs listed, counted  *)
(* in the pivot, exported and offered as quick wins are the same work.     *)
THEOREM WorkListsStand == PagesSpec => []WorkListsAgree
<1>1. NoPage => FloorPage
  BY DEF NoPage, FloorPage, On
<1>2. FloorPage /\ [OpenPage]_page => FloorPage'
  <2> SUFFICES ASSUME FloorPage, OpenPage PROVE FloorPage'
    BY DEF FloorPage, On
  <2>1. CASE OpenFloor
    <3>1. PICK floor \in FloorStates : page' = [kind |-> "floor", in |-> floor]
      BY <2>1 DEF OpenFloor, Open
    <3>2. page'.in = floor
      BY <3>1
    <3> QED BY <3>2, FloorInputs DEF FloorPage
  <2>2. CASE ~OpenFloor
    <3>1. page'.kind # "floor"
      BY <2>2 DEF OpenPage, OpenMaterials, OpenSales, OpenMonths, OpenTransport, OpenOutput,
         OpenBoard, OpenBay, Open
    <3> QED BY <3>1 DEF FloorPage, On
  <2> QED BY <2>1, <2>2
<1>3. FloorPage => WorkListsAgree
  BY SameWorkShown, QuickWinsAreClear, SearchInputs, Zenon DEF FloorPage, WorkListsAgree
<1> QED BY <1>1, <1>2, <1>3, PTL DEF PagesSpec

-----------------------------------------------------------------------------
(***************************************************************************)
(* The capacity board.                                                     *)
(***************************************************************************)
(* The board's sums and counts are the sums and counts above.              *)
LEMMA BoardFigures ==
  /\ \A f : Board!SumFunction(f) = SumFunctionOnSet(f, DOMAIN f)
  /\ \A S : Board!Cardinality(S) = Cardinality(S)
<1>1. \A f : Board!SumFunction(f) = SumFunctionOnSet(f, DOMAIN f)
  BY DEF Board!SumFunction, Board!SumFunctionOnSet, Board!FoldFunctionOnSet, Board!MapThenFoldSet,
         SumFunctionOnSet, FoldFunctionOnSet, MapThenFoldSet
<1>2. \A S : Board!Cardinality(S) = Cardinality(S)
  BY DEF Board!Cardinality, Cardinality
<1> QED BY <1>1, <1>2

(* A plan as the tables hold it: finitely many jobs and groups, quantities *)
(* and capacities that are numbers, members of groups that are active.     *)
IsPlan(plan) ==
  /\ IsFiniteSet(plan.jobs) /\ IsFiniteSet(Board!ActiveGroups(plan))
  /\ \A j \in plan.jobs : /\ j.required \in Int /\ j.completed \in Int
                          /\ j.dept # NoDept => plan.smv[j.dept] \in Int
  /\ \A c \in DOMAIN plan.member : plan.member[c] \in Board!ActiveGroups(plan)
  /\ \A w \in plan.weeks : /\ plan.target[w] \in Int
                           /\ \A g \in Board!ActiveGroups(plan) : plan.groupCap[g][w] \in Int

(* The load of every job of a plan.                                        *)
JobLoads(plan) == [j \in plan.jobs |-> Board!LoadValue(plan, j)]

(* A job's load is a number.                                               *)
LEMMA LoadIsInt ==
  ASSUME NEW plan, IsPlan(plan), NEW j \in plan.jobs
  PROVE  JobLoads(plan)[j] \in Int
<1>1. j.required \in Int /\ j.completed \in Int /\ (j.dept # NoDept => plan.smv[j.dept] \in Int)
  BY DEF IsPlan
<1>2. Board!Remaining(j) \in Int
  BY <1>1 DEF Board!Remaining, Board!Floor
<1>3. Board!LoadValue(plan, j) \in Int
  BY <1>1, <1>2 DEF Board!LoadValue
<1> QED BY <1>3 DEF JobLoads

(* A cell counts its jobs and adds up their loads.                         *)
LEMMA CellSays ==
  ASSUME NEW plan, IsPlan(plan), NEW jobs \in SUBSET plan.jobs
  PROVE  /\ IsFiniteSet(jobs)
         /\ Board!Cell(plan, jobs).jobs = Cardinality(jobs)
         /\ Board!Cell(plan, jobs).load = SumFunctionOnSet(JobLoads(plan), jobs)
<1> DEFINE all == JobLoads(plan)
           here == [j \in jobs |-> Board!LoadValue(plan, j)]
<1>1. IsFiniteSet(jobs)
  BY FS_Subset DEF IsPlan
<1>2. \A j \in jobs : all[j] \in Int /\ here[j] = all[j]
  BY LoadIsInt DEF JobLoads
<1>3. Board!Cell(plan, jobs).jobs = Cardinality(jobs)
  BY BoardFigures DEF Board!Cell
<1>4. Board!Cell(plan, jobs).load = Board!SumFunction(here)
  BY DEF Board!Cell, Board!Total
<1>5. DOMAIN here = jobs
  OBVIOUS
<1> HIDE DEF all, here
<1>6. SumFunctionOnSet(here, jobs) = SumFunctionOnSet(all, jobs)
  BY <1>1, <1>2, SumSame
<1>7. Board!SumFunction(here) = SumFunctionOnSet(here, jobs)
  BY <1>5, BoardFigures
<1> QED BY <1>1, <1>3, <1>4, <1>6, <1>7 DEF all

(* The states of the jobs of a cell make up the cell.                      *)
LEMMA StatesMakeUp ==
  ASSUME NEW plan, IsPlan(plan), NEW jobs \in SUBSET plan.jobs
  PROVE  /\ Board!Sum(Board!StatusCells(plan, jobs)).jobs = Cardinality(jobs)
         /\ Board!Sum(Board!StatusCells(plan, jobs)).load = SumFunctionOnSet(JobLoads(plan), jobs)
<1> DEFINE S == Board!States
           cells == Board!StatusCells(plan, jobs)
           all == JobLoads(plan)
           part == [s \in S |-> {j \in jobs : Board!StateOf(j) = s}]
           counts == [s \in S |-> cells[s].jobs]
           loads == [s \in S |-> cells[s].load]
<1>1. IsFiniteSet(S)
  <2>1. IsFiniteSet({"unfirm"})
    BY FS_Singleton
  <2>2. IsFiniteSet({"unfirm"} \cup {"firm"})
    BY <2>1, FS_AddElement
  <2>3. IsFiniteSet(({"unfirm"} \cup {"firm"}) \cup {"released"})
    BY <2>2, FS_AddElement
  <2>4. S = ({"unfirm"} \cup {"firm"}) \cup {"released"}
    BY DEF Board!States
  <2> HIDE DEF S
  <2> QED BY <2>3, <2>4, Zenon
<1>2. \A s \in S : part[s] \in SUBSET plan.jobs /\ cells[s] = Board!Cell(plan, part[s])
  BY DEF Board!StatusCells
<1>3. Board!Sum(cells).jobs = Board!SumFunction(counts) /\ Board!Sum(cells).load = Board!SumFunction(loads)
  BY DEF Board!Sum, Board!Total
<1>4. DOMAIN counts = S /\ DOMAIN loads = S
  OBVIOUS
<1>5. \A s, t \in S : s # t => part[s] \cap part[t] = {}
  OBVIOUS
<1>6. Whole(part, S) = jobs
  <2>1. \A j \in jobs : Board!StateOf(j) \in S
    BY DEF Board!StateOf, Board!States
  <2>2. \A s \in S : part[s] = {j \in jobs : Board!StateOf(j) = s}
    OBVIOUS
  <2> HIDE DEF part, S
  <2> QED BY <2>1, <2>2 DEF Whole
<1>7. \A s \in S : counts[s] = cells[s].jobs /\ loads[s] = cells[s].load
  OBVIOUS
<1> HIDE DEF S, cells, part, counts, loads
<1>8. \A s \in S : /\ IsFiniteSet(part[s]) /\ counts[s] = Cardinality(part[s])
                   /\ loads[s] = SumFunctionOnSet(all, part[s])
  BY <1>2, <1>7, CellSays
<1>9. \A s \in S : \A j \in part[s] : all[j] \in Int
  BY <1>2, LoadIsInt
<1> HIDE DEF all
<1>10. Cardinality(Whole(part, S)) = SumFunctionOnSet(counts, S)
  BY <1>1, <1>5, <1>8, CountByParts
<1>11. SumFunctionOnSet(all, Whole(part, S)) = SumFunctionOnSet(loads, S)
  <2>1. \A s \in S : IsFiniteSet(part[s])
    BY <1>8
  <2>2. \A s \in S : loads[s] = SumFunctionOnSet(all, part[s])
    BY <1>8
  <2> QED BY <1>1, <1>5, <1>9, <2>1, <2>2, SumByParts
<1>12. Board!SumFunction(counts) = Cardinality(jobs) /\ Board!SumFunction(loads) = SumFunctionOnSet(all, jobs)
  BY <1>4, <1>6, <1>10, <1>11, BoardFigures
<1> QED BY <1>3, <1>12 DEF cells, all

(* The jobs of each group, and what is left of them.                       *)
LEMMA GroupsMakeUp ==
  ASSUME NEW plan, IsPlan(plan), NEW jobs \in SUBSET plan.jobs
  PROVE  LET G == Board!ActiveGroups(plan)
             row == Board!Row(plan, jobs)
             load == [g \in G |-> row.groups[g].load]
         IN  /\ Board!AddsUp(plan, jobs)
             /\ row.total.load = row.standard.load + SumFunctionOnSet(load, G)
             /\ row.total.load \in Int /\ row.standard.load \in Int
             /\ \A g \in G : load[g] \in Int
<1> DEFINE G == Board!ActiveGroups(plan)
           row == Board!Row(plan, jobs)
           all == JobLoads(plan)
           part == [g \in G |-> Board!OfGroup(plan, g, jobs)]
           rest == Board!Ungrouped(plan, jobs)
           counts == [g \in G |-> row.groups[g].jobs]
           loads == [g \in G |-> row.groups[g].load]
<1>1. IsFiniteSet(G) /\ IsFiniteSet(jobs)
  BY FS_Subset DEF IsPlan
<1>2. (\A g \in G : part[g] \in SUBSET jobs) /\ rest \in SUBSET jobs
  BY DEF Board!OfGroup, Board!Ungrouped
<1>3. \A g, h \in G : g # h => part[g] \cap part[h] = {}
  BY DEF Board!OfGroup
<1>4. Whole(part, G) \cup rest = jobs /\ Whole(part, G) \cap rest = {}
  <2>1. \A c \in DOMAIN plan.member : plan.member[c] \in G
    BY DEF IsPlan
  <2>2. \A g \in G : part[g] = {j \in jobs : j.customer \in DOMAIN plan.member
                                             /\ plan.member[j.customer] = g}
    BY DEF Board!OfGroup
  <2>3. rest = {j \in jobs : j.customer \notin DOMAIN plan.member}
    BY DEF Board!Ungrouped
  <2> HIDE DEF part, rest, G
  <2> QED BY <2>1, <2>2, <2>3 DEF Whole
<1>5. /\ row.total = Board!Sum(Board!StatusCells(plan, jobs))
      /\ row.standard = Board!Sum(Board!StatusCells(plan, rest))
      /\ \A g \in G : row.groups[g] = Board!Sum(Board!StatusCells(plan, part[g]))
  BY DEF Board!Row
<1>6. /\ \A g \in G : counts[g] = row.groups[g].jobs /\ loads[g] = row.groups[g].load
      /\ DOMAIN counts = G /\ DOMAIN loads = G
  OBVIOUS
<1>7. Board!AddsUp(plan, jobs) <=> /\ row.total.jobs = row.standard.jobs + Board!SumFunction(counts)
                                   /\ row.total.load = row.standard.load + Board!SumFunction(loads)
  BY DEF Board!AddsUp, Board!Total
<1> HIDE DEF part, rest, row, counts, loads
<1>8. /\ row.total.jobs = Cardinality(jobs) /\ row.total.load = SumFunctionOnSet(all, jobs)
      /\ row.standard.jobs = Cardinality(rest) /\ row.standard.load = SumFunctionOnSet(all, rest)
  BY <1>2, <1>5, StatesMakeUp
<1>9. \A g \in G : /\ counts[g] = Cardinality(part[g]) /\ loads[g] = SumFunctionOnSet(all, part[g])
                   /\ IsFiniteSet(part[g])
  <2> SUFFICES ASSUME NEW g \in G
               PROVE  /\ counts[g] = Cardinality(part[g]) /\ loads[g] = SumFunctionOnSet(all, part[g])
                      /\ IsFiniteSet(part[g])
    OBVIOUS
  <2>1. part[g] \in SUBSET plan.jobs /\ IsFiniteSet(part[g])
    BY <1>1, <1>2, FS_Subset
  <2> QED BY <1>5, <1>6, <2>1, StatesMakeUp
<1>10. \A j \in jobs : all[j] \in Int
  BY LoadIsInt
<1> HIDE DEF all, G
<1>11. /\ IsFiniteSet(Whole(part, G)) /\ Cardinality(Whole(part, G)) = SumFunctionOnSet(counts, G)
       /\ SumFunctionOnSet(all, Whole(part, G)) = SumFunctionOnSet(loads, G)
  <2>1. \A g \in G : IsFiniteSet(part[g]) /\ counts[g] = Cardinality(part[g])
    BY <1>9
  <2>2. \A g \in G : IsFiniteSet(part[g])
    BY <1>9
  <2>3. \A g \in G : \A j \in part[g] : all[j] \in Int
    BY <1>2, <1>10
  <2>4. \A g \in G : loads[g] = SumFunctionOnSet(all, part[g])
    BY <1>9
  <2>5. Cardinality(Whole(part, G)) = SumFunctionOnSet(counts, G)
    BY <1>1, <1>3, <2>1, CountByParts
  <2>6. IsFiniteSet(Whole(part, G)) /\ SumFunctionOnSet(all, Whole(part, G)) = SumFunctionOnSet(loads, G)
    BY <1>1, <1>3, <2>2, <2>3, <2>4, SumByParts
  <2> QED BY <2>5, <2>6
<1> DEFINE W == Whole(part, G)
<1> HIDE DEF W
<1>12. IsFiniteSet(W) /\ IsFiniteSet(rest) /\ W \cap rest = {} /\ W \cup rest = jobs
  BY <1>1, <1>2, <1>4, <1>11, FS_Subset DEF W
<1>13. Cardinality(jobs) = Cardinality(rest) + Cardinality(W)
  <2>1. Cardinality(W \cup rest) = Cardinality(W) + Cardinality(rest) - Cardinality(W \cap rest)
    BY <1>12, FS_Union
  <2>2. Cardinality(W \cap rest) = 0
    BY <1>12, FS_EmptySet
  <2>3. Cardinality(W) \in Nat /\ Cardinality(rest) \in Nat
    BY <1>12, FS_CardinalityType
  <2> DEFINE a == Cardinality(W)  b == Cardinality(rest)  n == Cardinality(W \cup rest)
             m == Cardinality(W \cap rest)
  <2>4. n = a + b - m /\ m = 0 /\ a \in Nat /\ b \in Nat /\ Cardinality(jobs) = n
    BY <1>12, <2>1, <2>2, <2>3
  <2> HIDE DEF a, b, n, m
  <2>5. Cardinality(jobs) = b + a
    BY <2>4
  <2> QED BY <2>5 DEF a, b
<1>14. SumFunctionOnSet(all, jobs) = SumFunctionOnSet(all, rest) + SumFunctionOnSet(all, W)
  <2>1. \A x \in W \cup rest : all[x] \in Int
    BY <1>10, <1>12
  <2>2. SumFunctionOnSet(all, W \cup rest) = SumFunctionOnSet(all, W) + SumFunctionOnSet(all, rest)
    BY <1>12, <2>1, SumUnion
  <2>3. SumFunctionOnSet(all, W) \in Int /\ SumFunctionOnSet(all, rest) \in Int
    BY <1>12, <2>1, SumInt
  <2> DEFINE a == SumFunctionOnSet(all, W)  b == SumFunctionOnSet(all, rest)
  <2>4. SumFunctionOnSet(all, jobs) = a + b /\ a \in Int /\ b \in Int
    BY <1>12, <2>2, <2>3, Zenon
  <2> HIDE DEF a, b
  <2>5. SumFunctionOnSet(all, jobs) = b + a
    BY <2>4
  <2> QED BY <2>5 DEF a, b
<1>15. /\ SumFunctionOnSet(all, jobs) \in Int /\ SumFunctionOnSet(all, rest) \in Int
       /\ \A g \in G : loads[g] \in Int
  <2>1. SumFunctionOnSet(all, jobs) \in Int
    BY <1>1, <1>10, SumInt
  <2>2. SumFunctionOnSet(all, rest) \in Int
    BY <1>2, <1>10, <1>12, SumInt
  <2>3. ASSUME NEW g \in G PROVE loads[g] \in Int
    <3> DEFINE P == part[g]
    <3>1. IsFiniteSet(P) /\ (\A j \in P : all[j] \in Int) /\ loads[g] = SumFunctionOnSet(all, P)
      BY <1>2, <1>9, <1>10
    <3> HIDE DEF P
    <3> QED BY <3>1, SumInt
  <2> QED BY <2>1, <2>2, <2>3
<1>16. /\ row.total.jobs = row.standard.jobs + SumFunctionOnSet(counts, G)
       /\ row.total.load = row.standard.load + SumFunctionOnSet(loads, G)
  BY <1>8, <1>11, <1>13, <1>14 DEF W
<1>17. Board!SumFunction(counts) = SumFunctionOnSet(counts, G) /\ Board!SumFunction(loads) = SumFunctionOnSet(loads, G)
  BY <1>6, BoardFigures
<1>18. Board!AddsUp(plan, jobs)
  BY <1>7, <1>16, <1>17
<1> QED BY <1>8, <1>15, <1>16, <1>18 DEF loads, row, G

(* A cell with no trouble carries no more than its capacity.               *)
LEMMA NoTrouble ==
  ASSUME NEW avail \in Int, NEW load \in Int, NEW s, s = Board!CellStatus(avail, load),
         s # "over", ~(s = "no-data" /\ load > 0)
  PROVE  load <= avail
BY DEF Board!CellStatus

(* An overloaded week shows an overloaded cell, if its groups are promised *)
(* no more than its target: else every cell could be within its own.       *)
LEMMA OverloadShows ==
  ASSUME NEW plan, IsPlan(plan), NEW week \in plan.weeks
  PROVE  Board!NoHiddenOverload(plan, week)
<1> DEFINE G == Board!ActiveGroups(plan)
           jobs == Board!OnBoard(plan, week)
           row == Board!Row(plan, jobs)
           status == Board!WeekStatus(plan, week, row)
           Troubled(s, load) == s = "over" \/ (s = "no-data" /\ load > 0)
           caps == [g \in G |-> plan.groupCap[g][week]]
           loads == [g \in G |-> row.groups[g].load]
           target == plan.target[week]
           named == Board!NamedCapacity(plan, week)
<1>1. SUFFICES ASSUME target > 0, named <= target, status.week = "over",
                      ~Troubled(status.standard, row.standard.load),
                      \A g \in G : ~Troubled(status.groups[g], row.groups[g].load)
               PROVE  FALSE
  BY DEF Board!NoHiddenOverload
<1>2. /\ IsFiniteSet(G) /\ target \in Int /\ \A g \in G : caps[g] \in Int
  BY DEF IsPlan
<1>3. /\ row.total.load = row.standard.load + SumFunctionOnSet(loads, G)
      /\ row.total.load \in Int /\ row.standard.load \in Int
      /\ \A g \in G : loads[g] \in Int
  <2>1. jobs \in SUBSET plan.jobs
    BY DEF Board!OnBoard, Board!AllActive
  <2> HIDE DEF jobs
  <2> QED BY <2>1, GroupsMakeUp
<1>4. named = SumFunctionOnSet(caps, G)
  <2>1. named = Board!SumFunction(caps)
    BY DEF Board!NamedCapacity, Board!Total
  <2>2. DOMAIN caps = G
    OBVIOUS
  <2> HIDE DEF caps, named, G
  <2> QED BY <2>1, <2>2, BoardFigures
<1>5. /\ status.week = Board!CellStatus(target, row.total.load)
      /\ status.standard = Board!CellStatus(Board!StandardCapacity(plan, week), row.standard.load)
      /\ \A g \in G : status.groups[g] = Board!CellStatus(caps[g], loads[g])
      /\ \A g \in G : loads[g] = row.groups[g].load
  <2>1. target > 0
    BY <1>1
  <2> HIDE DEF row, jobs
  <2> QED BY <2>1 DEF Board!WeekStatus
<1>6. Board!StandardCapacity(plan, week) = Board!Floor(target - named)
  BY DEF Board!StandardCapacity
<1> HIDE DEF G, jobs, row, status, caps, loads, target, named
<1>7. named \in Int
  BY <1>2, <1>4, SumInt
<1>8. Board!StandardCapacity(plan, week) = target - named
  BY <1>1, <1>2, <1>6, <1>7 DEF Board!Floor
<1>9. row.standard.load <= target - named
  <2>1. target - named \in Int
    BY <1>2, <1>7
  <2> QED BY <1>1, <1>3, <1>5, <1>8, <2>1, NoTrouble
<1>10. \A g \in G : loads[g] <= caps[g]
  BY <1>1, <1>2, <1>3, <1>5, NoTrouble
<1>11. SumFunctionOnSet(loads, G) <= named /\ SumFunctionOnSet(loads, G) \in Int
  <2>1. SumFunctionOnSet(loads, G) <= SumFunctionOnSet(caps, G)
    BY <1>2, <1>3, <1>10, SumAtMost
  <2> QED BY <1>2, <1>3, <1>4, <2>1, SumInt
<1>12. row.total.load <= target
  BY <1>2, <1>3, <1>7, <1>9, <1>11
<1>13. row.total.load > target
  BY <1>1, <1>5 DEF Board!CellStatus
<1> QED BY <1>2, <1>3, <1>12, <1>13

(* A job of the board is in the list below it, in its order's row.         *)
LEMMA ListHoldsBoard ==
  ASSUME NEW plan, IsPlan(plan), NEW week \in plan.weeks
  PROVE  Board!DrillsDown(plan, week)
<1> SUFFICES ASSUME plan.filter = "all", NEW job \in Board!OnBoard(plan, week)
             PROVE  \E group \in Board!GroupedOrders(plan) :
                      job \in group.jobs /\ group.week \in {week, Mixed}
  BY DEF Board!DrillsDown
<1> DEFINE L == Board!Listed(plan)
           o == job.order
           group == Board!OrderGroup(plan, o)
           jobs == {j \in L : j.order = o}
           weeks == {Board!EffectiveWeek(plan, j) : j \in jobs}
<1>1. job \in L /\ Board!EffectiveWeek(plan, job) = week
  BY DEF Board!OnBoard, Board!AllActive, Board!InDept, Board!Listed, Board!Display
<1>2. group \in Board!GroupedOrders(plan)
  <2>1. o \in {j.order : j \in L}
    BY <1>1
  <2> QED BY <2>1 DEF Board!GroupedOrders
<1>3. /\ group.jobs = jobs
      /\ group.week = IF Board!Cardinality(weeks) = 1 THEN CHOOSE w \in weeks : TRUE ELSE Mixed
  BY DEF Board!OrderGroup
<1>4. job \in jobs /\ week \in weeks
  BY <1>1
<1>5. IsFiniteSet(weeks)
  <2> DEFINE f == [j \in jobs |-> Board!EffectiveWeek(plan, j)]
  <2>1. jobs \in SUBSET plan.jobs
    BY DEF Board!Listed, Board!Display
  <2>2. weeks = Images(f, jobs)
    BY DEF Images
  <2> HIDE DEF jobs, weeks, f
  <2>3. IsFiniteSet(jobs)
    BY <2>1, FS_Subset DEF IsPlan
  <2> QED BY <2>2, <2>3, ImageFinite
<1> HIDE DEF weeks, group, jobs, L
<1>6. CASE Board!Cardinality(weeks) = 1
  <2>1. PICK w : weeks = {w}
    BY <1>5, <1>6, BoardFigures, FS_Singleton
  <2>2. group.week = week
    BY <1>3, <1>4, <1>6, <2>1
  <2> QED BY <1>2, <1>3, <1>4, <2>2
<1>7. CASE Board!Cardinality(weeks) # 1
  BY <1>2, <1>3, <1>4, <1>7
<1> QED BY <1>6, <1>7

(* The capacity board adds up, shows its overloads and can be drilled      *)
(* down, for any plan of finitely many jobs and groups.                    *)
THEOREM BoardIsWhole ==
  ASSUME NEW plan, IsPlan(plan)
  PROVE  Board!BoardAddsUpFor(plan)
<1>1. Board!AddsUp(plan, Board!Overdue(plan))
  <2>1. Board!Overdue(plan) \in SUBSET plan.jobs
    BY DEF Board!Overdue, Board!AllActive
  <2> QED BY <2>1, GroupsMakeUp
<1>2. ASSUME NEW week \in plan.weeks PROVE Board!AddsUp(plan, Board!OnBoard(plan, week))
  <2>1. Board!OnBoard(plan, week) \in SUBSET plan.jobs
    BY DEF Board!OnBoard, Board!AllActive
  <2> QED BY <2>1, GroupsMakeUp
<1> QED BY <1>1, <1>2, OverloadShows, ListHoldsBoard DEF Board!BoardAddsUpFor

(* The plan of every page of the board.                                    *)
BoardPage == On("board") => IsPlan(page.in)

(* The plans of the run are plans as above.                                *)
LEMMA BoardInputs ==
  ASSUME NEW plan \in Plans
  PROVE  IsPlan(plan)
<1>1. PICK cap \in {0, 3, 6}, target \in {0, 4} :
        /\ plan.smv = [d \in {"sew", "uph"} |-> IF d = "sew" THEN 2 ELSE 0]
        /\ plan.member = [c \in {"c1"} |-> "g"] /\ plan.weeks = {0, 1}
        /\ plan.groupCap = [g \in {"g"} |-> [w \in {0, 1} |-> cap]]
        /\ plan.target = [w \in {0, 1} |-> target]
  <2>1. /\ plan.smv = [d \in {"sew", "uph"} |-> IF d = "sew" THEN 2 ELSE 0]
        /\ plan.member = [c \in {"c1"} |-> "g"] /\ plan.weeks = {0, 1}
    BY DEF Plans
  <2>2. /\ plan.groupCap \in {[g \in {"g"} |-> [w \in {0, 1} |-> cap]] : cap \in {0, 3, 6}}
        /\ plan.target \in {[w \in {0, 1} |-> t] : t \in {0, 4}}
    BY DEF Plans
  <2>3. PICK cap \in {0, 3, 6} : plan.groupCap = [g \in {"g"} |-> [w \in {0, 1} |-> cap]]
    BY <2>2
  <2>4. PICK target \in {0, 4} : plan.target = [w \in {0, 1} |-> target]
    BY <2>2
  <2> QED BY <2>1, <2>3, <2>4
<1>2. PICK d1, p1, due, r, c3 :
        d1 \in {"sew", "uph", NoDept} /\ plan.jobs = BoardJobs(d1, p1, due, r, c3)
  <2> DEFINE D == {"sew", "uph", NoDept}
  <2>1. plan.jobs \in {BoardJobs(d1, p1, due, r, c3) :
                        d1 \in D, p1 \in {0, 1, NoDate}, due \in {-2, 8, NoDate},
                        r \in BOOLEAN, c3 \in {"c1", "c2"}}
    BY DEF Plans
  <2> HIDE DEF D
  <2>2. \E d1, p1, due, r, c3 : d1 \in D /\ plan.jobs = BoardJobs(d1, p1, due, r, c3)
    BY <2>1
  <2> QED BY <2>2 DEF D
<1> DEFINE a == BoardJob(1, d1, p1, due, "c1", FALSE)   b == BoardJob(2, "sew", 0, -1, "c2", r)
           c == BoardJob(3, "uph", 1, 9, c3, r)
<1>8. plan.jobs = {a, b, c}
  BY <1>2, Zenon DEF BoardJobs
<1>3. IsFiniteSet(plan.jobs)
  <2> HIDE DEF a, b, c
  <2>1. IsFiniteSet({a})
    BY FS_Singleton
  <2>2. IsFiniteSet({a} \cup {b})
    BY <2>1, FS_AddElement
  <2>3. IsFiniteSet(({a} \cup {b}) \cup {c})
    BY <2>2, FS_AddElement
  <2>4. ({a} \cup {b}) \cup {c} = {a, b, c}
    OBVIOUS
  <2> QED BY <1>8, <2>3, <2>4, Zenon
<1>4. \A j \in plan.jobs : /\ j.required \in Int /\ j.completed \in Int
                           /\ j.dept # NoDept => plan.smv[j.dept] \in Int
  <2>1. /\ a.required \in Int /\ a.completed \in Int /\ a.dept \in {"sew", "uph", NoDept}
        /\ b.required \in Int /\ b.completed \in Int /\ b.dept = "sew"
        /\ c.required \in Int /\ c.completed \in Int /\ c.dept = "uph"
    BY <1>2 DEF BoardJob
  <2>2. plan.smv["sew"] \in Int /\ plan.smv["uph"] \in Int
    BY <1>1
  <2> HIDE DEF a, b, c
  <2> QED BY <1>8, <2>1, <2>2
<1>5. Board!ActiveGroups(plan) = {"g"}
  BY <1>1 DEF Board!ActiveGroups
<1>6. \A k \in DOMAIN plan.member : plan.member[k] \in Board!ActiveGroups(plan)
  BY <1>1, <1>5
<1>7. \A w \in plan.weeks : /\ plan.target[w] \in Int
                            /\ \A g \in Board!ActiveGroups(plan) : plan.groupCap[g][w] \in Int
  <2>1. cap \in Int /\ target \in Int
    BY <1>1
  <2> QED BY <1>1, <1>5, <2>1
<1>9. IsFiniteSet(Board!ActiveGroups(plan))
  BY <1>5, FS_Singleton, Zenon
<1> QED BY <1>3, <1>4, <1>6, <1>7, <1>9, Zenon DEF IsPlan

(* workorder_plan/services.py: on every page of the capacity board the     *)
(* groups make up its rows, an overload shows, and every job counted is    *)
(* listed.                                                                 *)
THEOREM BoardStands == PagesSpec => []BoardAddsUp
<1>1. NoPage => BoardPage
  BY DEF NoPage, BoardPage, On
<1>2. BoardPage /\ [OpenPage]_page => BoardPage'
  <2> SUFFICES ASSUME BoardPage, OpenPage PROVE BoardPage'
    BY DEF BoardPage, On
  <2>1. CASE OpenBoard
    <3>1. PICK plan \in Plans : page' = [kind |-> "board", in |-> plan]
      BY <2>1 DEF OpenBoard, Open
    <3>2. page'.in = plan
      BY <3>1
    <3> QED BY <3>2, BoardInputs DEF BoardPage
  <2>2. CASE ~OpenBoard
    <3>1. page'.kind # "board"
      BY <2>2 DEF OpenPage, OpenMaterials, OpenSales, OpenMonths, OpenFloor, OpenOutput,
         OpenTransport, OpenBay, Open
    <3> QED BY <3>1 DEF BoardPage, On
  <2> QED BY <2>1, <2>2
<1>3. BoardPage => BoardAddsUp
  BY BoardIsWhole DEF BoardPage, BoardAddsUp
<1> QED BY <1>1, <1>2, <1>3, PTL DEF PagesSpec

-----------------------------------------------------------------------------
(***************************************************************************)
(* Materials: netting and pegging.                                         *)
(***************************************************************************)
(* A set of pairs that puts the elements of S in order, and how many of    *)
(* them come before one.                                                   *)
IsOrder(S, R) ==
  /\ \A a, b \in S : a # b => <<a, b>> \in R \/ <<b, a>> \in R
  /\ \A a, b \in S : ~(<<a, b>> \in R /\ <<b, a>> \in R)
  /\ \A a, b, c \in S : <<a, b>> \in R /\ <<b, c>> \in R => <<a, c>> \in R
Preceding(S, R, x) == {y \in S : <<y, x>> \in R}

LEMMA RanksAre ==
  ASSUME NEW S, IsFiniteSet(S), NEW R, IsOrder(S, R)
  PROVE  /\ \A x \in S : Cardinality(Preceding(S, R, x)) \in 0 .. Cardinality(S) - 1
         /\ \A x, y \in S : <<x, y>> \in R <=>
              Cardinality(Preceding(S, R, x)) < Cardinality(Preceding(S, R, y))
         /\ \A k \in 1 .. Cardinality(S) : \E x \in S : Cardinality(Preceding(S, R, x)) = k - 1
<1> DEFINE rank(x) == Cardinality(Preceding(S, R, x))
           n == Cardinality(S)
           f == [x \in S |-> rank(x)]
<1>1. n \in Nat
  BY FS_CardinalityType
<1>2. \A x \in S : /\ Preceding(S, R, x) \in SUBSET S /\ x \notin Preceding(S, R, x)
  BY DEF Preceding, IsOrder
<1>3. \A x \in S : IsFiniteSet(Preceding(S, R, x)) /\ rank(x) \in Nat
  BY <1>2, FS_Subset, FS_CardinalityType
<1>4. ASSUME NEW x \in S PROVE rank(x) \in 0 .. n - 1
  <2>1. rank(x) <= n /\ rank(x) # n
    BY <1>2, FS_Subset
  <2> HIDE DEF rank, n
  <2> QED BY <1>1, <1>3, <2>1
<1>5. ASSUME NEW x \in S, NEW y \in S, <<x, y>> \in R PROVE rank(x) < rank(y)
  <2>1. Preceding(S, R, x) \in SUBSET Preceding(S, R, y) /\ Preceding(S, R, x) # Preceding(S, R, y)
    BY <1>2, <1>5 DEF Preceding, IsOrder
  <2>2. rank(x) <= rank(y) /\ rank(x) # rank(y)
    BY <1>3, <2>1, FS_Subset
  <2> HIDE DEF rank
  <2> QED BY <1>3, <2>2
<1>6. ASSUME NEW x \in S, NEW y \in S, rank(x) < rank(y) PROVE <<x, y>> \in R
  <2>1. x # y /\ ~(rank(y) < rank(x))
    BY <1>3, <1>6
  <2> QED BY <1>5, <2>1 DEF IsOrder
<1>7. f \in Injection(S, 0 .. n - 1)
  <2>1. \A x, y \in S : rank(x) = rank(y) => x = y
    <3> SUFFICES ASSUME NEW x \in S, NEW y \in S, rank(x) = rank(y), x # y PROVE FALSE
      OBVIOUS
    <3>1. rank(x) < rank(y) \/ rank(y) < rank(x)
      BY <1>5 DEF IsOrder
    <3> QED BY <1>3, <3>1
  <2> HIDE DEF rank, n
  <2> QED BY <1>4, <2>1 DEF Injection, IsInjective
<1>8. IsFiniteSet(0 .. n - 1) /\ Cardinality(0 .. n - 1) = n
  <2> HIDE DEF n
  <2>1. 0 \in Int /\ n - 1 \in Int
    BY <1>1
  <2> QED BY <1>1, <2>1, FS_Interval
<1>9. f \in Surjection(S, 0 .. n - 1)
  <2> HIDE DEF f
  <2> QED BY <1>7, <1>8, FS_Injection
<1>10. ASSUME NEW k \in 1 .. n PROVE \E x \in S : rank(x) = k - 1
  <2>1. k - 1 \in 0 .. n - 1
    BY <1>1
  <2> HIDE DEF rank, n
  <2> QED BY <1>9, <2>1 DEF Surjection
<1> QED BY <1>4, <1>5, <1>6, <1>10

(* A sequence that puts every element behind those before it.              *)
Orders(seq, S, R) ==
  /\ seq \in [1 .. Cardinality(S) -> S] /\ seq \in Seq(S) /\ Len(seq) = Cardinality(S)
  /\ \A x \in S : \E k \in 1 .. Cardinality(S) : seq[k] = x
  /\ \A i, j \in 1 .. Cardinality(S) : i < j <=> <<seq[i], seq[j]>> \in R

LEMMA RankedIsSorted ==
  ASSUME NEW S, IsFiniteSet(S), NEW R, IsOrder(S, R), NEW seq,
         DOMAIN seq = 1 .. Cardinality(S), seq = [k \in 1 .. Cardinality(S) |-> seq[k]],
         \A k \in 1 .. Cardinality(S) : seq[k] \in S /\ Cardinality(Preceding(S, R, seq[k])) = k - 1
  PROVE  Orders(seq, S, R)
<1> DEFINE n == Cardinality(S)
           rank(x) == Cardinality(Preceding(S, R, x))
<1>1. n \in Nat
  BY FS_CardinalityType
<1>2. seq \in [1 .. n -> S]
  OBVIOUS
<1>3. seq \in Seq(S) /\ Len(seq) = n
  <2>1. \A m \in Nat : \A s \in [1 .. m -> S] : s \in Seq(S) /\ Len(s) = m
    OBVIOUS
  <2> HIDE DEF n
  <2> QED BY <1>1, <1>2, <2>1
<1>4. ASSUME NEW x \in S PROVE \E k \in 1 .. n : seq[k] = x
  <2>1. rank(x) \in 0 .. n - 1
    BY RanksAre
  <2> DEFINE k == rank(x) + 1
  <2>2. k \in 1 .. n /\ k - 1 = rank(x)
    <3> HIDE DEF rank, n
    <3> QED BY <1>1, <2>1
  <2>3. seq[k] \in S /\ rank(seq[k]) = rank(x)
    BY <2>2
  <2>4. ~(rank(seq[k]) < rank(x)) /\ ~(rank(x) < rank(seq[k]))
    BY <2>1, <2>3
  <2>5. seq[k] = x
    BY <2>3, <2>4, RanksAre, ZenonT(60) DEF IsOrder
  <2> QED BY <2>2, <2>5
<1>5. ASSUME NEW i \in 1 .. n, NEW j \in 1 .. n PROVE i < j <=> <<seq[i], seq[j]>> \in R
  <2>1. /\ seq[i] \in S /\ seq[j] \in S /\ rank(seq[i]) = i - 1 /\ rank(seq[j]) = j - 1
    OBVIOUS
  <2>2. rank(seq[i]) < rank(seq[j]) <=> <<seq[i], seq[j]>> \in R
    BY <2>1, RanksAre
  <2> HIDE DEF rank
  <2> QED BY <2>1, <2>2
<1> QED BY <1>2, <1>3, <1>4, <1>5 DEF Orders

-----------------------------------------------------------------------------
LEMMA TheSmaller ==
  ASSUME NEW a \in Int, NEW b \in Int
  PROVE  Min({a, b}) = (IF a <= b THEN a ELSE b) /\ Max({a, b}) = (IF a <= b THEN b ELSE a)
<1>1. Min({a, b}) \in {a, b} /\ \A y \in {a, b} : Min({a, b}) <= y
  <2>1. \E x \in {a, b} : \A y \in {a, b} : x <= y
    OBVIOUS
  <2> QED BY <2>1, Zenon DEF Min
<1>2. Max({a, b}) \in {a, b} /\ \A y \in {a, b} : Max({a, b}) >= y
  <2>1. \E x \in {a, b} : \A y \in {a, b} : x >= y
    OBVIOUS
  <2> QED BY <2>1, Zenon DEF Max
<1> QED BY <1>1, <1>2

(* Requirements and releases as the tables hold them.                      *)
IsDemand(rows) ==
  /\ IsFiniteSet(rows)
  /\ \A r \in rows : /\ r.due \in Int \cup {NoDate} /\ r.job \in Int /\ r.id \in Int
                      /\ r.required \in Int /\ r.issued \in Int
  /\ \A r, x \in rows : r.id = x.id => r = x
IsSupply(pos) == IsFiniteSet(pos) /\ \A po \in pos : po.qty \in Nat /\ po.due \in Int

LEMMA NetIsNat ==
  ASSUME NEW rows, IsDemand(rows), NEW r \in rows
  PROVE  NetRequired(r) \in Nat
BY DEF IsDemand, NetRequired, Floor

RowOrder(rows) == {pair \in rows \X rows : NettedBefore(pair[1], pair[2])}

(* The requirements of a material are netted by date, those with no date   *)
(* last.                                                                   *)
LEMMA RowsInOrder ==
  ASSUME NEW rows, IsDemand(rows)
  PROVE  /\ Orders(InOrder(rows), rows, RowOrder(rows))
         /\ \A a, b \in rows : <<a, b>> \in RowOrder(rows) <=> NettedBefore(a, b)
<1> DEFINE R == RowOrder(rows)
           n == Cardinality(rows)
           seq == InOrder(rows)
<1>1. \A a, b \in rows : <<a, b>> \in R <=> NettedBefore(a, b)
  BY DEF RowOrder
<1>2. IsFiniteSet(rows)
  BY DEF IsDemand
<1>3. IsOrder(rows, R)
  <2>1. \A a, b \in rows : a # b => NettedBefore(a, b) \/ NettedBefore(b, a)
    BY DEF NettedBefore, IsDemand, IsBefore
  <2>2. \A a, b \in rows : ~(NettedBefore(a, b) /\ NettedBefore(b, a))
    BY DEF NettedBefore, IsDemand, IsBefore
  <2>3. \A a, b, c \in rows : NettedBefore(a, b) /\ NettedBefore(b, c) => NettedBefore(a, c)
    BY DEF NettedBefore, IsDemand, IsBefore
  <2> HIDE DEF R
  <2> QED BY <1>1, <2>1, <2>2, <2>3 DEF IsOrder
<1>4. \A x \in rows : {y \in rows : NettedBefore(y, x)} = Preceding(rows, R, x)
  BY <1>1 DEF Preceding
<1>5. seq = [k \in 1 .. n |-> CHOOSE x \in rows :
                                Cardinality({y \in rows : NettedBefore(y, x)}) = k - 1]
  BY DEF InOrder, Sorted
<1> HIDE DEF R, n, seq
<1>6. ASSUME NEW k \in 1 .. n
      PROVE  seq[k] \in rows /\ Cardinality(Preceding(rows, R, seq[k])) = k - 1
  <2> DEFINE P(x) == Cardinality({y \in rows : NettedBefore(y, x)}) = k - 1
  <2>1. PICK x \in rows : Cardinality(Preceding(rows, R, x)) = k - 1
    BY <1>2, <1>3, RanksAre DEF n
  <2>2. P(x)
    BY <1>4, <2>1
  <2>3. seq[k] = CHOOSE z \in rows : P(z)
    BY <1>5
  <2> HIDE DEF P
  <2>4. seq[k] \in rows /\ P(seq[k])
    BY <2>2, <2>3
  <2> QED BY <1>4, <2>4 DEF P
<1>7. DOMAIN seq = 1 .. n /\ seq = [k \in 1 .. n |-> seq[k]]
  BY <1>5
<1>8. Orders(seq, rows, R)
  BY <1>2, <1>3, <1>6, <1>7, RankedIsSorted DEF n
<1> QED BY <1>1, <1>8 DEF seq, R

(* An overdue release arrives today, any other on its date.                *)
LEMMA ArrivalIs ==
  ASSUME NEW po, po.due \in Int
  PROVE  Arrival(po) \in Int /\ Arrival(po) = IF po.due <= 0 THEN 0 ELSE po.due
<1>1. 0 \in Int /\ \A a \in Int, b \in Int : Max({a, b}) = IF a <= b THEN b ELSE a
  BY TheSmaller
<1>2. Max({po.due, 0}) = IF po.due <= 0 THEN 0 ELSE po.due
  BY <1>1
<1>3. (IF po.due <= 0 THEN 0 ELSE po.due) \in Int
  OBVIOUS
<1> QED BY <1>2, <1>3, Zenon DEF Arrival

(* What is ordered in time for a requirement, as a sum over the releases.  *)
LEMMA OrderedIs ==
  ASSUME NEW pos, IsSupply(pos), NEW lead, NEW r, NEW qty, \A po \in pos : qty[po] = po.qty
  PROVE  LET due == {po \in pos : InTimeFor(po, r, lead)} IN
         IsFiniteSet(due) /\ OrderedFor(pos, r, lead) = SumFunctionOnSet(qty, due)
<1> DEFINE D == {po \in pos : InTimeFor(po, r, lead)}   here == [po \in D |-> po.qty]
<1>1. IsFiniteSet(D) /\ \A po \in D : here[po] \in Int /\ qty[po] = here[po]
  BY FS_Subset DEF IsSupply
<1>2. OrderedFor(pos, r, lead) = SumFunctionOnSet(here, DOMAIN here) /\ DOMAIN here = D
  BY DEF OrderedFor, Total, SumFunction
<1> HIDE DEF D, here
<1>3. SumFunctionOnSet(here, D) = SumFunctionOnSet(qty, D)
  BY <1>1, SumSame
<1> QED BY <1>1, <1>2, <1>3 DEF D

(* What is ordered in time for a requirement is in time for the later ones.*)
LEMMA MoreInTime ==
  ASSUME NEW pos, IsSupply(pos), NEW lead \in Int, NEW rows, IsDemand(rows)
  PROVE  /\ \A r \in rows : OrderedFor(pos, r, lead) \in Nat
         /\ \A r, x \in rows : x.due = r.due \/ NettedBefore(r, x) =>
              OrderedFor(pos, r, lead) <= OrderedFor(pos, x, lead)
<1> DEFINE qty == [po \in pos |-> po.qty]
           due(r) == {po \in pos : InTimeFor(po, r, lead)}
<1>1. \A r \in rows : /\ IsFiniteSet(due(r)) /\ \A po \in due(r) : qty[po] \in Nat
                      /\ OrderedFor(pos, r, lead) = SumFunctionOnSet(qty, due(r))
  <2> SUFFICES ASSUME NEW r \in rows
               PROVE  /\ IsFiniteSet(due(r)) /\ \A po \in due(r) : qty[po] \in Nat
                      /\ OrderedFor(pos, r, lead) = SumFunctionOnSet(qty, due(r))
    OBVIOUS
  <2>1. \A po \in pos : qty[po] = po.qty /\ qty[po] \in Nat
    BY DEF IsSupply
  <2>2. due(r) \in SUBSET pos
    OBVIOUS
  <2> HIDE DEF qty
  <2>3. IsFiniteSet(due(r)) /\ OrderedFor(pos, r, lead) = SumFunctionOnSet(qty, due(r))
    BY <2>1, OrderedIs
  <2> HIDE DEF due
  <2> QED BY <2>1, <2>2, <2>3
<1>2. \A po \in pos : Arrival(po) \in Int
  <2> SUFFICES ASSUME NEW po \in pos PROVE Arrival(po) \in Int
    OBVIOUS
  <2> QED BY ArrivalIs DEF IsSupply
<1>3. ASSUME NEW r \in rows, NEW x \in rows, x.due = r.due \/ NettedBefore(r, x)
      PROVE  due(r) \in SUBSET due(x)
  <2>1. x.due = NoDate \/ (x.due # NoDate /\ r.due # NoDate /\ r.due <= x.due) \/ x.due = r.due
    BY <1>3 DEF NettedBefore, IsBefore, IsDemand
  <2>2. \A po \in pos : InTimeFor(po, r, lead) => InTimeFor(po, x, lead)
    BY <1>2, <2>1 DEF InTimeFor, IsDemand
  <2> QED BY <2>2
<1> HIDE DEF qty, due
<1>4. ASSUME NEW r \in rows, NEW x \in rows, x.due = r.due \/ NettedBefore(r, x)
      PROVE  SumFunctionOnSet(qty, due(r)) <= SumFunctionOnSet(qty, due(x))
  BY <1>1, <1>3, <1>4, SumOfPart
<1>5. \A r \in rows : SumFunctionOnSet(qty, due(r)) \in Nat
  BY <1>1, SumNat
<1> QED BY <1>1, <1>4, <1>5

(* The line that one requirement adds.                                     *)
LineOf(stock, consumed, row, pos, lead) ==
  NetOne([stock |-> stock, consumed |-> consumed, lines |-> <<>>], row, pos, lead).lines[1]

(* What one requirement takes, as its line says.                           *)
Takes(pool, row, pos, lead) ==
  LET next == NetOne(pool, row, pos, lead)
      line == LineOf(pool.stock, pool.consumed, row, pos, lead)
      ordered == OrderedFor(pos, row, lead)
  IN  /\ next.lines = Append(pool.lines, line)
      /\ line.row = row /\ line.net = NetRequired(row)
      /\ line.stockUsed \in Int /\ line.poUsed \in Nat /\ line.shortage \in Nat
      /\ next.stock = pool.stock - line.stockUsed /\ next.stock \in Nat
      /\ next.consumed = pool.consumed + line.poUsed
      /\ (line.poUsed = 0 \/ next.consumed <= ordered)
      /\ line.stockUsed + line.poUsed + line.shortage = line.net
      /\ (line.shortage > 0 => next.stock = 0 /\ (pool.consumed <= ordered => next.consumed = ordered))
      /\ line.stockUsed = (IF pool.stock <= line.net THEN pool.stock ELSE line.net)
      /\ (pool.consumed <= ordered =>
            line.poUsed = IF line.net - line.stockUsed <= ordered - pool.consumed
                          THEN line.net - line.stockUsed ELSE ordered - pool.consumed)

(* What one requirement takes: no more than is left, and it is short only  *)
(* if nothing is left after it.                                            *)
LEMMA OneIsNetted ==
  ASSUME NEW pool, pool.stock \in Int, pool.consumed \in Nat,
         NEW row, NetRequired(row) \in Nat, NEW pos, NEW lead, OrderedFor(pos, row, lead) \in Nat
  PROVE  Takes(pool, row, pos, lead)
<1> DEFINE next == NetOne(pool, row, pos, lead)
           line == LineOf(pool.stock, pool.consumed, row, pos, lead)
           o == OrderedFor(pos, row, lead)
           N == NetRequired(row)
           A == pool.stock
           C == pool.consumed
           B == Floor(o - C)
           cover == Min({N, A + B})
           S == Min({A, cover})
           U == Min({B, cover - S})
           short == Floor(N - A - B)
           late == B > 0 \/ Total(pos, LAMBDA x : x.qty) > C + U
           made == [row |-> row, net |-> N, stockBefore |-> A, poCover |-> B, shortage |-> short,
                    stockUsed |-> S, poUsed |-> U, poExists |-> late]
<1>1. next = [stock |-> Floor(A - S), consumed |-> C + U, lines |-> Append(pool.lines, made)]
  BY Zenon DEF NetOne
<1>2. line = made
  <2>1. line = Append(<<>>, made)[1]
    BY DEF LineOf, NetOne
  <2>2. \A x : Append(<<>>, x)[1] = x
    OBVIOUS
  <2> HIDE DEF line, made
  <2> QED BY <2>1, <2>2
<1>3. A \in Int /\ C \in Nat /\ N \in Nat /\ o \in Nat
  OBVIOUS
<1>4. B \in Nat /\ B = (IF o > C THEN o - C ELSE 0)
  <2> HIDE DEF o, C
  <2> QED BY <1>3 DEF Floor
<1>5. short \in Nat /\ short = (IF N > A + B THEN N - A - B ELSE 0)
  <2> HIDE DEF A, B, N
  <2> QED BY <1>3, <1>4 DEF Floor
<1> DEFINE Less(a, b) == Min({a, b})
<1>6. \A a, b \in Int : Less(a, b) = IF a <= b THEN a ELSE b
  BY TheSmaller
<1>7. cover = Less(N, A + B) /\ S = Less(A, cover) /\ U = Less(B, cover - S)
  OBVIOUS
<1> HIDE DEF next, line, o, N, A, C, B, cover, S, U, short, late, Less
<1>8. cover \in Int /\ cover = (IF N <= A + B THEN N ELSE A + B)
  BY <1>3, <1>4, <1>6, <1>7
<1>9. S \in Int /\ S = (IF A <= cover THEN A ELSE cover)
  BY <1>3, <1>6, <1>7, <1>8
<1>10. U \in Int /\ U = (IF B <= cover - S THEN B ELSE cover - S)
  BY <1>4, <1>6, <1>7, <1>8, <1>9
<1>11. Floor(A - S) = A - S /\ A - S \in Nat
  BY <1>3, <1>8, <1>9 DEF Floor
<1>12. U \in Nat /\ U <= B
  BY <1>3, <1>4, <1>8, <1>9, <1>10
<1>13. S + U + short = N
  BY <1>3, <1>4, <1>5, <1>8, <1>9, <1>10
<1>14. short > 0 => A - S = 0 /\ U = B
  BY <1>3, <1>4, <1>5, <1>8, <1>9, <1>10
<1>15. U = 0 \/ C + U <= o
  BY <1>3, <1>4, <1>12
<1>16. short > 0 => (C <= o => C + U = o)
  BY <1>3, <1>4, <1>14
<1>17. next.stock = A - S /\ next.consumed = C + U /\ next.lines = Append(pool.lines, line)
  BY <1>1, <1>2, <1>11
<1>18. /\ line.row = row /\ line.net = N /\ line.stockUsed = S /\ line.poUsed = U /\ line.shortage = short
  BY <1>2
<1>19. S = (IF A <= N THEN A ELSE N)
  BY <1>3, <1>4, <1>8, <1>9
<1>20. C <= o => U = IF N - S <= o - C THEN N - S ELSE o - C
  BY <1>3, <1>4, <1>8, <1>9, <1>10
<1>21. /\ next.lines = Append(pool.lines, line)
      /\ line.row = row /\ line.net = N
      /\ line.stockUsed \in Int /\ line.poUsed \in Nat /\ line.shortage \in Nat
      /\ next.stock = A - line.stockUsed /\ next.stock \in Nat
      /\ next.consumed = C + line.poUsed
      /\ (line.poUsed = 0 \/ next.consumed <= o)
      /\ line.stockUsed + line.poUsed + line.shortage = line.net
      /\ (line.shortage > 0 => next.stock = 0 /\ (C <= o => next.consumed = o))
      /\ line.stockUsed = (IF A <= line.net THEN A ELSE line.net)
      /\ (C <= o => line.poUsed = IF line.net - line.stockUsed <= o - C
                                   THEN line.net - line.stockUsed ELSE o - C)
  BY <1>5, <1>9, <1>11, <1>12, <1>13, <1>14, <1>15, <1>16, <1>17, <1>18, <1>19, <1>20
<1> QED BY <1>21 DEF Takes, next, line, o, N, A, C

(* The pools that the requirements leave one after the other.              *)
NettedUpTo(pool, order, stock, pos, lead, n) ==
  pool = [k \in 0 .. n |->
            IF k = 0 THEN [stock |-> stock, consumed |-> 0, lines |-> <<>>]
            ELSE NetOne(pool[k - 1], order[k], pos, lead)]

LEMMA PoolsExist ==
  ASSUME NEW order, NEW stock, NEW pos, NEW lead
  PROVE  \A n \in Nat : \E pool : NettedUpTo(pool, order, stock, pos, lead, n)
<1> DEFINE start == [stock |-> stock, consumed |-> 0, lines |-> <<>>]
           Next1(p, k) == NetOne(p, order[k], pos, lead)
           Good == {n \in Nat : \E pool : NettedUpTo(pool, order, stock, pos, lead, n)}
<1>1. \A n \in Nat : \A pool : NettedUpTo(pool, order, stock, pos, lead, n) <=>
        pool = [k \in 0 .. n |-> IF k = 0 THEN start ELSE Next1(pool[k - 1], k)]
  BY DEF NettedUpTo
<1> HIDE DEF start, Next1
<1>2. 0 \in Good
  <2> DEFINE g == [k \in 0 .. 0 |-> start]
  <2>1. g = [k \in 0 .. 0 |-> IF k = 0 THEN start ELSE Next1(g[k - 1], k)]
    OBVIOUS
  <2> QED BY <1>1, <2>1
<1>3. ASSUME NEW n \in Nat, n \in Good PROVE n + 1 \in Good
  <2>1. PICK g : NettedUpTo(g, order, stock, pos, lead, n)
    BY <1>3
  <2>2. g = [k \in 0 .. n |-> IF k = 0 THEN start ELSE Next1(g[k - 1], k)]
    BY <1>1, <2>1
  <2> DEFINE h == [k \in 0 .. n + 1 |-> IF k <= n THEN g[k] ELSE Next1(g[n], n + 1)]
  <2>3. ASSUME NEW k \in 0 .. n + 1 PROVE h[k] = IF k = 0 THEN start ELSE Next1(h[k - 1], k)
    <3>1. CASE k \in 1 .. n
      <4>1. h[k] = g[k] /\ h[k - 1] = g[k - 1] /\ g[k] = Next1(g[k - 1], k) /\ k # 0
        BY <2>2, <3>1
      <4> QED BY <4>1
    <3>2. CASE k = n + 1
      <4>1. h[k] = Next1(g[n], n + 1) /\ h[k - 1] = g[n] /\ k # 0
        BY <3>2
      <4> QED BY <3>2, <4>1
    <3>3. CASE k = 0
      <4>1. h[k] = g[k] /\ g[k] = start
        BY <2>2, <3>3
      <4> QED BY <3>3, <4>1
    <3>4. k \in 1 .. n \/ k = n + 1 \/ k = 0
      OBVIOUS
    <3> QED BY <3>1, <3>2, <3>3, <3>4
  <2>4. h = [k \in 0 .. n + 1 |-> h[k]]
    OBVIOUS
  <2> HIDE DEF h
  <2>5. h = [k \in 0 .. n + 1 |-> IF k = 0 THEN start ELSE Next1(h[k - 1], k)]
    BY <2>3, <2>4
  <2>6. NettedUpTo(h, order, stock, pos, lead, n + 1)
    BY <1>1, <2>5
  <2> QED BY <2>6
<1>4. \A n \in Nat : n \in Good
  <2> HIDE DEF Good
  <2> QED BY <1>2, <1>3, StepByStep
<1> QED BY <1>4

LEMMA NettedIs ==
  ASSUME NEW rows, NEW stock, NEW pos, NEW lead, Len(InOrder(rows)) \in Nat
  PROVE  \E pool : /\ NettedUpTo(pool, InOrder(rows), stock, pos, lead, Len(InOrder(rows)))
                   /\ Netted(rows, stock, pos, lead) = pool[Len(InOrder(rows))].lines
<1> DEFINE order == InOrder(rows)
           it == CHOOSE pool : pool = [k \in 0 .. Len(order) |->
                   IF k = 0 THEN [stock |-> stock, consumed |-> 0, lines |-> <<>>]
                   ELSE NetOne(pool[k - 1], order[k], pos, lead)]
<1>1. \E pool : NettedUpTo(pool, order, stock, pos, lead, Len(order))
  BY PoolsExist
<1>2. NettedUpTo(it, order, stock, pos, lead, Len(order))
  BY <1>1, Zenon DEF NettedUpTo
<1>3. Netted(rows, stock, pos, lead) = it[Len(order)].lines
  BY Zenon DEF Netted
<1> QED BY <1>2, <1>3

(* What the first k lines add up to.                                       *)
LEMMA UpToIs ==
  ASSUME NEW u, NEW n \in Nat, \A i \in 1 .. n : u[i] \in Int
  PROVE  /\ SumFunctionOnSet(u, 1 .. 0) = 0
         /\ \A k \in 0 .. n : SumFunctionOnSet(u, 1 .. k) \in Int
         /\ \A k \in 1 .. n : SumFunctionOnSet(u, 1 .. k) = SumFunctionOnSet(u, 1 .. k - 1) + u[k]
<1>1. \A k \in 0 .. n : IsFiniteSet(1 .. k) /\ \A i \in 1 .. k : u[i] \in Int
  BY FS_Interval
<1>2. \A k \in 0 .. n : SumFunctionOnSet(u, 1 .. k) \in Int
  BY <1>1, SumInt
<1>3. ASSUME NEW k \in 1 .. n
      PROVE  SumFunctionOnSet(u, 1 .. k) = SumFunctionOnSet(u, 1 .. k - 1) + u[k]
  <2>1. (1 .. k) \ {k} = 1 .. k - 1 /\ k \in 1 .. k /\ k \in 0 .. n /\ k - 1 \in 0 .. n
    OBVIOUS
  <2>2. SumFunctionOnSet(u, 1 .. k) = u[k] + SumFunctionOnSet(u, (1 .. k) \ {k})
    BY <1>1, <2>1, SumOfRest
  <2> DEFINE a == SumFunctionOnSet(u, 1 .. k)  b == SumFunctionOnSet(u, 1 .. k - 1)
  <2>3. a = u[k] + b /\ b \in Int /\ u[k] \in Int
    BY <1>2, <2>1, <2>2
  <2> HIDE DEF a, b
  <2>4. a = b + u[k]
    BY <2>3
  <2> QED BY <2>4 DEF a, b
<1>4. 1 .. 0 = {}
  OBVIOUS
<1> QED BY <1>2, <1>3, <1>4, SumOfNone

(* The sequence of the first values of a function, and the next one.       *)
LEMMA Appended ==
  ASSUME NEW f, NEW k \in Nat, NEW s, s = [i \in 1 .. k |-> f[i]]
  PROVE  Append(s, f[k + 1]) = [i \in 1 .. k + 1 |-> f[i]]
<1> DEFINE T == {f[i] : i \in 1 .. k + 1}
<1>1. \A i \in 1 .. k : s[i] \in T
  OBVIOUS
<1>2. s \in [1 .. k -> T]
  <2> HIDE DEF T
  <2> QED BY <1>1
<1> HIDE DEF T
<1>3. s \in Seq(T) /\ Len(s) = k
  BY <1>2
<1> QED BY <1>3

LeastOf(a, b) == IF a <= b THEN a ELSE b

(* What a netting hands out: never more than there is, the requirements in *)
(* order, and a shortage only when nothing is left that is in time.        *)
HandsOut(lines, order, n, stock, pos, lead) ==
  LET used == [i \in 1 .. n |-> lines[i].stockUsed]
      taken == [i \in 1 .. n |-> lines[i].poUsed]
  IN  /\ lines = [i \in 1 .. n |-> lines[i]] /\ Len(lines) = n
      /\ \A k \in 1 .. n :
           /\ lines[k].row = order[k] /\ lines[k].net = NetRequired(order[k])
           /\ lines[k].stockUsed \in Int /\ lines[k].poUsed \in Nat /\ lines[k].shortage \in Nat
           /\ lines[k].stockUsed + lines[k].poUsed + lines[k].shortage = lines[k].net
           /\ SumFunctionOnSet(used, 1 .. k) <= stock
           /\ SumFunctionOnSet(taken, 1 .. k) <= OrderedFor(pos, order[k], lead)
           /\ (lines[k].shortage > 0 =>
                 /\ SumFunctionOnSet(used, 1 .. k) = stock
                 /\ SumFunctionOnSet(taken, 1 .. k) = OrderedFor(pos, order[k], lead))
           /\ lines[k].stockUsed =
                LeastOf(stock - SumFunctionOnSet(used, 1 .. k - 1), lines[k].net)
           /\ lines[k].poUsed =
                LeastOf(lines[k].net - lines[k].stockUsed,
                        OrderedFor(pos, order[k], lead) - SumFunctionOnSet(taken, 1 .. k - 1))

(* The netting of any requirements from any stock and releases does so.    *)
LEMMA NettingRuns ==
  ASSUME NEW rows, IsDemand(rows), NEW pos, IsSupply(pos), NEW stock \in Int, NEW lead \in Int
  PROVE  /\ Cardinality(rows) \in Nat
         /\ HandsOut(Netted(rows, stock, pos, lead), InOrder(rows), Cardinality(rows), stock, pos, lead)
<1> DEFINE lines == Netted(rows, stock, pos, lead)
           order == InOrder(rows)
           n == Cardinality(rows)
<1>1. n \in Nat
  BY FS_CardinalityType DEF IsDemand
<1>2. /\ Len(order) = n /\ \A k \in 1 .. n : order[k] \in rows
      /\ \A i, j \in 1 .. n : i < j => NettedBefore(order[i], order[j])
  <2>1. Orders(order, rows, RowOrder(rows)) /\ \A a, b \in rows : <<a, b>> \in RowOrder(rows) <=>
          NettedBefore(a, b)
    BY RowsInOrder
  <2> HIDE DEF order, n
  <2>2. Len(order) = n /\ order \in [1 .. n -> rows] /\ \A i, j \in 1 .. n : i < j =>
          <<order[i], order[j]>> \in RowOrder(rows)
    BY <2>1 DEF Orders, n
  <2> QED BY <2>1, <2>2
<1>3. PICK pool : NettedUpTo(pool, order, stock, pos, lead, n) /\ lines = pool[n].lines
  <2>1. Len(order) \in Nat
    BY <1>1, <1>2
  <2> QED BY <1>2, <2>1, NettedIs
<1> DEFINE start == [stock |-> stock, consumed |-> 0, lines |-> <<>>]
           L == [k \in 1 .. n |-> LineOf(pool[k - 1].stock, pool[k - 1].consumed, order[k], pos, lead)]
           u == [k \in 1 .. n |-> L[k].stockUsed]
           t == [k \in 1 .. n |-> L[k].poUsed]
           o(k) == OrderedFor(pos, order[k], lead)
           U(k) == SumFunctionOnSet(u, 1 .. k)
           T(k) == SumFunctionOnSet(t, 1 .. k)
           Fits(k) == /\ pool[k].stock \in Int /\ pool[k].consumed \in Nat
                      /\ pool[k].lines = [i \in 1 .. k |-> L[i]]
                      /\ (k > 0 => pool[k].stock \in Nat /\ pool[k].consumed <= o(k))
           Took(k) == LET line == L[k]  next == pool[k]  last == pool[k - 1] IN
             /\ line.row = order[k] /\ line.net = NetRequired(order[k])
             /\ line.stockUsed \in Int /\ line.poUsed \in Nat /\ line.shortage \in Nat
             /\ next.stock = last.stock - line.stockUsed
             /\ next.consumed = last.consumed + line.poUsed
             /\ line.stockUsed + line.poUsed + line.shortage = line.net
             /\ (line.shortage > 0 => next.stock = 0 /\ next.consumed = o(k))
             /\ line.stockUsed = LeastOf(last.stock, line.net)
             /\ line.poUsed = LeastOf(line.net - line.stockUsed, o(k) - last.consumed)
           Good == {k \in Nat : k <= n => Fits(k) /\ (k > 0 => Took(k))}
<1>4. pool[0] = start /\ \A k \in 1 .. n : pool[k] = NetOne(pool[k - 1], order[k], pos, lead)
  <2> DEFINE At(k) == IF k = 0 THEN [stock |-> stock, consumed |-> 0, lines |-> <<>>]
                      ELSE NetOne(pool[k - 1], order[k], pos, lead)
  <2>1. pool = [k \in 0 .. n |-> At(k)]
    BY <1>3 DEF NettedUpTo
  <2> HIDE DEF At
  <2>2. \A k \in 0 .. n : pool[k] = At(k)
    BY <2>1
  <2>3. 0 \in 0 .. n /\ \A k \in 1 .. n : k \in 0 .. n /\ k # 0
    BY <1>1
  <2> QED BY <2>2, <2>3 DEF At
<1>5. \A k \in 1 .. n : o(k) \in Nat /\ NetRequired(order[k]) \in Nat
  BY <1>2, MoreInTime, NetIsNat
<1>6. \A k \in 1 .. n : k > 1 => o(k - 1) <= o(k)
  <2>1. \A k \in 1 .. n : k > 1 => k - 1 \in 1 .. n /\ k - 1 < k
    BY <1>1
  <2> QED BY <1>2, <2>1, MoreInTime
<1>7. 0 \in Good
  <2>1. start.stock = stock /\ start.consumed = 0 /\ start.lines = <<>> /\ <<>> = [i \in 1 .. 0 |-> L[i]]
    OBVIOUS
  <2> HIDE DEF start, L, o
  <2> QED BY <1>4, <2>1
<1> HIDE DEF start, lines, order, o, n
<1>8. ASSUME NEW k \in Nat, k \in Good PROVE k + 1 \in Good
  <2> SUFFICES ASSUME k + 1 <= n PROVE Fits(k + 1) /\ Took(k + 1)
    OBVIOUS
  <2>1. k <= n /\ k + 1 \in 1 .. n /\ (k + 1) - 1 = k /\ k + 1 > 0
    BY <1>1
  <2>2. Fits(k)
    BY <1>8, <2>1
  <2> DEFINE last == pool[k]   next == pool[k + 1]   line == L[k + 1]
             A == NetRequired(order[k + 1])
  <2>3. next = NetOne(last, order[k + 1], pos, lead)
        /\ line = LineOf(last.stock, last.consumed, order[k + 1], pos, lead)
    BY <1>4, <2>1
  <2>4. o(k + 1) = OrderedFor(pos, order[k + 1], lead)
    BY DEF o
  <2>5. last.stock \in Int /\ last.consumed \in Nat /\ A \in Nat /\ OrderedFor(pos, order[k + 1], lead) \in Nat
    BY <1>5, <2>1, <2>2, <2>4
  <2> HIDE DEF L, u, t
  <2>6. /\ next.lines = Append(last.lines, line)
        /\ line.row = order[k + 1] /\ line.net = A
        /\ line.stockUsed \in Int /\ line.poUsed \in Nat /\ line.shortage \in Nat
        /\ next.stock = last.stock - line.stockUsed /\ next.stock \in Nat
        /\ next.consumed = last.consumed + line.poUsed
        /\ (line.poUsed = 0 \/ next.consumed <= o(k + 1))
        /\ line.stockUsed + line.poUsed + line.shortage = line.net
        /\ (line.shortage > 0 => next.stock = 0 /\ (last.consumed <= o(k + 1) => next.consumed = o(k + 1)))
        /\ line.stockUsed = LeastOf(last.stock, line.net)
        /\ (last.consumed <= o(k + 1) =>
              line.poUsed = LeastOf(line.net - line.stockUsed, o(k + 1) - last.consumed))
    <3> HIDE DEF last, next, line
    <3>1. Takes(last, order[k + 1], pos, lead)
      BY <2>5, OneIsNetted
    <3> QED BY <2>3, <2>4, <3>1 DEF Takes, LeastOf
  <2>7. last.consumed <= o(k + 1)
    <3>1. CASE k = 0
      <4>1. last.consumed = 0
        BY <1>4, <3>1 DEF start
      <4> QED BY <1>5, <2>1, <4>1
    <3>2. CASE k > 0
      <4>1. last.consumed <= o(k) /\ o(k) <= o(k + 1) /\ o(k) \in Nat /\ o(k + 1) \in Nat
        BY <1>1, <1>5, <1>6, <2>1, <2>2, <3>2
      <4> HIDE DEF last
      <4> QED BY <2>5, <4>1
    <3> QED BY <3>1, <3>2
  <2>8. last.lines = [i \in 1 .. k |-> L[i]]
    BY <2>2
  <2>9. next.lines = [i \in 1 .. k + 1 |-> L[i]]
    BY <2>6, <2>8, Appended
  <2>10. next.consumed \in Nat /\ next.consumed <= o(k + 1)
    <3>1. o(k + 1) \in Nat
      BY <1>5, <2>1
    <3>2. /\ next.consumed = last.consumed + line.poUsed /\ line.poUsed \in Nat
          /\ (line.poUsed = 0 \/ next.consumed <= o(k + 1))
      BY <2>6
    <3>3. last.consumed \in Nat
      BY <2>5
    <3> HIDE DEF last, next, line, o
    <3> QED BY <2>7, <3>1, <3>2, <3>3
  <2>11. Fits(k + 1)
    BY <2>6, <2>9, <2>10
  <2>12. Took(k + 1)
    BY <2>1, <2>6, <2>7
  <2> QED BY <2>11, <2>12
<1>9. \A k \in Nat : k \in Good
  <2> HIDE DEF Good
  <2> QED BY <1>7, <1>8, StepByStep
<1>10. \A k \in 1 .. n : Fits(k) /\ Took(k)
  <2>1. \A k \in 1 .. n : k \in Nat /\ k <= n /\ k > 0
    BY <1>1
  <2> HIDE DEF Fits, Took
  <2> QED BY <1>9, <2>1
<1>11. Fits(0)
  <2>1. 0 \in Nat /\ 0 <= n
    BY <1>1
  <2> HIDE DEF Fits, Took
  <2> QED BY <1>9, <2>1
<1>12. \A k \in 1 .. n : u[k] = L[k].stockUsed /\ t[k] = L[k].poUsed /\ u[k] \in Int /\ t[k] \in Int
  <2>1. \A k \in 1 .. n : L[k].stockUsed \in Int /\ L[k].poUsed \in Nat
    <3> HIDE DEF L, Fits
    <3> QED BY <1>10
  <2> HIDE DEF L
  <2> QED BY <2>1
<1> DEFINE Sums == {k \in Nat : k <= n => U(k) + pool[k].stock = stock /\ T(k) = pool[k].consumed}
<1>13. U(0) = 0 /\ T(0) = 0 /\ \A k \in 1 .. n : /\ U(k) = U(k - 1) + u[k] /\ T(k) = T(k - 1) + t[k]
                                                /\ U(k) \in Int /\ T(k) \in Int /\ U(k - 1) \in Int /\ T(k - 1) \in Int
  <2>1. \A k \in 1 .. n : k \in 0 .. n /\ k - 1 \in 0 .. n
    BY <1>1
  <2> HIDE DEF u, t
  <2> QED BY <1>1, <1>12, <2>1, UpToIs
<1>14. 0 \in Sums
  <2>1. pool[0].stock = stock /\ pool[0].consumed = 0
    BY <1>4 DEF start
  <2> HIDE DEF U, T
  <2> QED BY <1>13, <2>1
<1>15. ASSUME NEW k \in Nat, k \in Sums PROVE k + 1 \in Sums
  <2> SUFFICES ASSUME k + 1 <= n
               PROVE  U(k + 1) + pool[k + 1].stock = stock /\ T(k + 1) = pool[k + 1].consumed
    OBVIOUS
  <2>1. k <= n /\ k + 1 \in 1 .. n /\ (k + 1) - 1 = k
    BY <1>1
  <2>2. U(k) + pool[k].stock = stock /\ T(k) = pool[k].consumed
    BY <1>15, <2>1
  <2>3. /\ pool[k + 1].stock = pool[k].stock - L[k + 1].stockUsed
        /\ pool[k + 1].consumed = pool[k].consumed + L[k + 1].poUsed
        /\ L[k + 1].stockUsed \in Int /\ L[k + 1].poUsed \in Int
    <3>1. Took(k + 1)
      <4> HIDE DEF Took, Fits
      <4> QED BY <1>10, <2>1
    <3> HIDE DEF L
    <3> QED BY <2>1, <3>1
  <2>4. pool[k].stock \in Int /\ pool[k].consumed \in Int
    <3>1. Fits(k)
      <4>1. k = 0 \/ k \in 1 .. n
        BY <2>1
      <4> HIDE DEF Fits
      <4> QED BY <1>10, <1>11, <4>1
    <3> QED BY <3>1
  <2>5. U(k + 1) = U(k) + L[k + 1].stockUsed /\ T(k + 1) = T(k) + L[k + 1].poUsed /\ U(k) \in Int /\ T(k) \in Int
    <3> HIDE DEF U, T, u, t
    <3> QED BY <1>12, <1>13, <2>1
  <2> HIDE DEF U, T, L
  <2> QED BY <2>2, <2>3, <2>4, <2>5
<1>16. \A k \in Nat : k \in Sums
  <2> HIDE DEF Sums
  <2> QED BY <1>14, <1>15, StepByStep
<1>17. \A k \in 1 .. n : U(k) + pool[k].stock = stock /\ T(k) = pool[k].consumed
  <2>1. \A k \in 1 .. n : k \in Nat /\ k <= n
    BY <1>1
  <2> HIDE DEF U, T
  <2> QED BY <1>16, <2>1
<1>18. lines = [i \in 1 .. n |-> L[i]]
  <2>1. n = 0 \/ n \in 1 .. n
    BY <1>1
  <2>2. Fits(n)
    <3> HIDE DEF Fits
    <3> QED BY <1>10, <1>11, <2>1
  <2> QED BY <1>3, <2>2
<1>19. Len(lines) = n /\ lines = [i \in 1 .. n |-> lines[i]] /\ \A i \in 1 .. n : lines[i] = L[i]
  <2> HIDE DEF L
  <2> QED BY <1>1, <1>18
<1>20. /\ [i \in 1 .. n |-> lines[i].stockUsed] = u /\ [i \in 1 .. n |-> lines[i].poUsed] = t
  <2> HIDE DEF L
  <2> QED BY <1>19
<1>21. ASSUME NEW k \in 1 .. n
       PROVE  /\ L[k].stockUsed = LeastOf(stock - U(k - 1), L[k].net)
              /\ L[k].poUsed = LeastOf(L[k].net - L[k].stockUsed, o(k) - T(k - 1))
  <2>1. U(k - 1) + pool[k - 1].stock = stock /\ T(k - 1) = pool[k - 1].consumed
    <3>1. k - 1 \in Nat /\ k - 1 <= n
      BY <1>1
    <3> HIDE DEF U, T
    <3> QED BY <1>16, <3>1
  <2>2. U(k - 1) \in Int /\ pool[k - 1].stock \in Int
    <3>1. k - 1 = 0 \/ k - 1 \in 1 .. n
      BY <1>1
    <3>2. Fits(k - 1)
      <4> HIDE DEF Fits
      <4> QED BY <1>10, <1>11, <3>1
    <3> HIDE DEF U, T, L
    <3> QED BY <1>13, <3>2
  <2>3. pool[k - 1].stock = stock - U(k - 1)
    <3> HIDE DEF U
    <3> QED BY <2>1, <2>2
  <2>4. /\ L[k].stockUsed = LeastOf(pool[k - 1].stock, L[k].net)
        /\ L[k].poUsed = LeastOf(L[k].net - L[k].stockUsed, o(k) - pool[k - 1].consumed)
    <3>1. Took(k)
      <4> HIDE DEF Took, Fits
      <4> QED BY <1>10
    <3> HIDE DEF L
    <3> QED BY <3>1
  <2> HIDE DEF U, T, L
  <2> QED BY <2>1, <2>3, <2>4
<1>22. \A k \in 1 .. n :
         /\ U(k) <= stock /\ T(k) <= o(k)
         /\ (L[k].shortage > 0 => U(k) = stock /\ T(k) = o(k))
  <2> SUFFICES ASSUME NEW k \in 1 .. n
               PROVE  /\ U(k) <= stock /\ T(k) <= o(k)
                      /\ (L[k].shortage > 0 => U(k) = stock /\ T(k) = o(k))
    OBVIOUS
  <2>1. U(k) + pool[k].stock = stock /\ T(k) = pool[k].consumed /\ U(k) \in Int
    BY <1>13, <1>17
  <2>2. /\ pool[k].stock \in Nat /\ pool[k].consumed <= o(k)
        /\ (L[k].shortage > 0 => pool[k].stock = 0 /\ pool[k].consumed = o(k))
    <3>1. k > 0
      OBVIOUS
    <3> HIDE DEF L
    <3> QED BY <1>10, <3>1
  <2> HIDE DEF U, T, L
  <2> QED BY <2>1, <2>2
<1>23. \A k \in 1 .. n :
         /\ lines[k].row = order[k] /\ lines[k].net = NetRequired(order[k])
         /\ lines[k].stockUsed \in Int /\ lines[k].poUsed \in Nat /\ lines[k].shortage \in Nat
         /\ lines[k].stockUsed + lines[k].poUsed + lines[k].shortage = lines[k].net
         /\ U(k) <= stock /\ T(k) <= o(k)
         /\ (lines[k].shortage > 0 => U(k) = stock /\ T(k) = o(k))
         /\ lines[k].stockUsed = LeastOf(stock - U(k - 1), lines[k].net)
         /\ lines[k].poUsed = LeastOf(lines[k].net - lines[k].stockUsed, o(k) - T(k - 1))
  <2> HIDE DEF L, U, T
  <2> QED BY <1>10, <1>19, <1>22, <1>21
<1> HIDE DEF u, t, L
<1> QED BY <1>1, <1>19, <1>20, <1>23, Zenon DEF HandsOut, lines, order, n, o

-----------------------------------------------------------------------------
(* Tables as the importers and the settings form leave them: every row     *)
(* with an identity of its own, and lead days of nought or more.           *)
SiteTables(site) ==
  /\ IsDemand(site.rows)
  /\ IsFiniteSet(site.pos)
  /\ \A p \in site.pos : /\ p.qty \in Int /\ p.due \in Int \cup {NoDate} /\ p.id \in Int
                          /\ p.value \in Int
  /\ \A p, q \in site.pos : p.id = q.id => p = q
  /\ IsFiniteSet(site.stock) /\ \A s \in site.stock : s.usable \in Int
  /\ \A group \in DOMAIN site.lead : site.lead[group] \in Nat

RowsOf(site, group, material) == {row \in Assessed(site, group) : row.material = material}

(* What a material is netted from is well formed.                          *)
LEMMA NettedFrom ==
  ASSUME NEW site, SiteTables(site), NEW group \in DOMAIN site.lead, NEW material
  PROVE  /\ IsDemand(RowsOf(site, group, material)) /\ IsSupply(Covering(site, material))
         /\ StockOf(site, material) \in Int /\ site.lead[group] \in Nat
         /\ NettedLines(site, group, material) =
              Netted(RowsOf(site, group, material), StockOf(site, material),
                     Covering(site, material), site.lead[group])
<1>1. IsDemand(RowsOf(site, group, material))
  <2> DEFINE rows == RowsOf(site, group, material)
  <2>1. rows \in SUBSET site.rows
    BY DEF RowsOf, Assessed
  <2>2. IsFiniteSet(rows)
    BY <2>1, FS_Subset DEF SiteTables, IsDemand
  <2>3. \A S : S \in SUBSET site.rows /\ IsFiniteSet(S) => IsDemand(S)
    BY DEF SiteTables, IsDemand
  <2> QED BY <2>1, <2>2, <2>3
<1>2. IsSupply(Covering(site, material))
  <2> DEFINE pos == Covering(site, material)
  <2>1. pos \in SUBSET site.pos /\ \A p \in pos : p.qty > 0 /\ p.due # NoDate
    BY DEF Covering
  <2>2. IsFiniteSet(pos)
    BY <2>1, FS_Subset DEF SiteTables
  <2> HIDE DEF pos
  <2>3. IsSupply(pos)
    BY <2>1, <2>2 DEF SiteTables, IsSupply
  <2> QED BY <2>3 DEF pos
<1>3. StockOf(site, material) \in Int
  <2> DEFINE D == {s \in site.stock : s.material = material}
             f == [s \in D |-> s.usable]
  <2>1. StockOf(site, material) = SumFunctionOnSet(f, DOMAIN f) /\ DOMAIN f = D
    BY DEF StockOf, Total, SumFunction
  <2>2. IsFiniteSet(D) /\ \A s \in D : f[s] \in Int
    BY FS_Subset DEF SiteTables
  <2> HIDE DEF D, f
  <2> QED BY <2>1, <2>2, SumInt
<1> QED BY <1>1, <1>2, <1>3, Zenon DEF NettedLines, RowsOf, SiteTables

(* The netting of a material promises neither stock nor releases twice and *)
(* invents no shortage, whatever the requirements and releases are.        *)
LEMMA AllocationIsSound ==
  ASSUME NEW site, SiteTables(site), NEW group \in DOMAIN site.lead, NEW material
  PROVE  AllocationSound(site, group, material)
<1> DEFINE lines == NettedLines(site, group, material)
           stock == StockOf(site, material)
           pos == Covering(site, material)
           lead == site.lead[group]
           rows == RowsOf(site, group, material)
           n == Cardinality(rows)
           u == [i \in 1 .. n |-> lines[i].stockUsed]
           t == [i \in 1 .. n |-> lines[i].poUsed]
           used(k) == UpTo(lines, k, LAMBDA l : l.stockUsed)
           taken(k) == UpTo(lines, k, LAMBDA l : l.poUsed)
<1>1. /\ IsDemand(rows) /\ IsSupply(pos) /\ stock \in Int /\ lead \in Int
      /\ lines = Netted(rows, stock, pos, lead)
  BY NettedFrom
<1>2. n \in Nat /\ HandsOut(lines, InOrder(rows), n, stock, pos, lead)
  <2> HIDE DEF rows, pos, stock, lead, lines
  <2> QED BY <1>1, NettingRuns
<1>3. /\ Len(lines) = n /\ \A i \in 1 .. n : lines[i].stockUsed \in Int /\ lines[i].poUsed \in Int
  <2> HIDE DEF rows, pos, stock, lead, lines
  <2>1. Len(lines) = n /\ \A i \in 1 .. n : lines[i].stockUsed \in Int /\ lines[i].poUsed \in Nat
    BY <1>2, Zenon DEF HandsOut
  <2> QED BY <2>1
<1>4. ASSUME NEW k \in 1 .. n
      PROVE  used(k) = SumFunctionOnSet(u, 1 .. k) /\ taken(k) = SumFunctionOnSet(t, 1 .. k)
  <2> DEFINE K == 1 .. k
             uk == [i \in K |-> lines[i].stockUsed]
             tk == [i \in K |-> lines[i].poUsed]
  <2>1. used(k) = SumFunctionOnSet(uk, DOMAIN uk) /\ taken(k) = SumFunctionOnSet(tk, DOMAIN tk)
    BY Zenon DEF UpTo, Total, SumFunction
  <2>2. DOMAIN uk = K /\ DOMAIN tk = K
    BY Zenon
  <2>3. IsFiniteSet(K) /\ K \in SUBSET (1 .. n)
    BY <1>2, FS_Interval
  <2> HIDE DEF K, lines, n, used, taken
  <2>4. \A i \in K : uk[i] \in Int /\ u[i] = uk[i] /\ tk[i] \in Int /\ t[i] = tk[i]
    BY <1>3, <2>3
  <2> HIDE DEF uk, tk, u, t
  <2>5. SumFunctionOnSet(uk, K) = SumFunctionOnSet(u, K) /\ SumFunctionOnSet(tk, K) = SumFunctionOnSet(t, K)
    BY <2>3, <2>4, SumSame
  <2> QED BY <2>1, <2>2, <2>5 DEF K
<1>5. \A k \in 1 .. Len(lines) :
        /\ used(k) <= stock /\ taken(k) <= OrderedFor(pos, lines[k].row, lead)
        /\ lines[k].stockUsed + lines[k].poUsed + lines[k].shortage = lines[k].net
        /\ (lines[k].shortage > 0 => used(k) = stock /\ taken(k) = OrderedFor(pos, lines[k].row, lead))
  <2> HIDE DEF rows, pos, stock, lead, lines, n, used, taken
  <2> QED BY <1>2, <1>3, <1>4, Zenon DEF HandsOut
<1> HIDE DEF rows, n, u, t
<1> QED BY <1>5, Zenon DEF AllocationSound

-----------------------------------------------------------------------------
(* A line's status is one of those with a priority.                        *)
LEMMA RowStatusIs ==
  ASSUME NEW line
  PROVE  RowStatus(line) \in DOMAIN Priority
<1>1. DOMAIN Priority = {"no_data", "ok", "med_risk", "late_po", "high_risk"}
  BY DEF Priority
<1>2. RowStatus(line) \in {"ok", "med_risk", "late_po", "high_risk"}
  BY DEF RowStatus
<1> QED BY <1>1, <1>2

(* A roll-up is never better than what it rolls up.                        *)
LEMMA WorstIs ==
  ASSUME NEW statuses \in SUBSET DOMAIN Priority, NEW default \in DOMAIN Priority
  PROVE  /\ Worst(statuses, default) \in DOMAIN Priority
         /\ \A t \in statuses : Priority[t] <= Priority[Worst(statuses, default)]
<1> DEFINE S == statuses \cup {default}
<1>1. /\ DOMAIN Priority = {"no_data", "ok", "med_risk", "late_po", "high_risk"}
      /\ Priority["no_data"] = 0 /\ Priority["ok"] = 1 /\ Priority["med_risk"] = 2
      /\ Priority["late_po"] = 3 /\ Priority["high_risk"] = 4
  BY DEF Priority
<1>2. S \in SUBSET DOMAIN Priority /\ default \in S
  OBVIOUS
<1>3. \E s \in S : \A t \in S : Priority[t] <= Priority[s]
  <2> HIDE DEF S
  <2>1. "high_risk" \in S => \A t \in S : Priority[t] <= Priority["high_risk"]
    BY <1>1, <1>2
  <2>2. "high_risk" \notin S /\ "late_po" \in S => \A t \in S : Priority[t] <= Priority["late_po"]
    BY <1>1, <1>2
  <2>3. "high_risk" \notin S /\ "late_po" \notin S /\ "med_risk" \in S
          => \A t \in S : Priority[t] <= Priority["med_risk"]
    BY <1>1, <1>2
  <2>4. "high_risk" \notin S /\ "late_po" \notin S /\ "med_risk" \notin S /\ "ok" \in S
          => \A t \in S : Priority[t] <= Priority["ok"]
    BY <1>1, <1>2
  <2>5. "high_risk" \notin S /\ "late_po" \notin S /\ "med_risk" \notin S /\ "ok" \notin S
          => "no_data" \in S /\ \A t \in S : Priority[t] <= Priority["no_data"]
    BY <1>1, <1>2
  <2> QED BY <2>1, <2>2, <2>3, <2>4, <2>5
<1>4. Worst(statuses, default) \in S /\ \A t \in S : Priority[t] <= Priority[Worst(statuses, default)]
  BY <1>3, Zenon DEF Worst
<1> QED BY <1>2, <1>4

(* The pegging view calls a requirement no better than the netting does.   *)
LEMMA PegStatusIs ==
  ASSUME NEW netted \in DOMAIN Priority, NEW short, NEW applied, NEW anyPo
  PROVE  /\ PegStatus(netted, short, applied, anyPo) \in DOMAIN Priority
         /\ Priority[netted] <= Priority[PegStatus(netted, short, applied, anyPo)]
<1> DEFINE worse == IF applied \/ ~anyPo THEN "high_risk" ELSE "late_po"
<1>1. worse \in DOMAIN Priority /\ "no_data" \in DOMAIN Priority /\ Priority[netted] \in Int
  BY DEF Priority
<1>2. {netted, worse} \in SUBSET DOMAIN Priority
  BY <1>1
<1>3. /\ Worst({netted, worse}, "no_data") \in DOMAIN Priority
      /\ Priority[netted] <= Priority[Worst({netted, worse}, "no_data")]
  <2> HIDE DEF worse
  <2> QED BY <1>1, <1>2, WorstIs
<1>4. PegStatus(netted, short, applied, anyPo) = IF ~short THEN netted ELSE Worst({netted, worse}, "no_data")
  BY DEF PegStatus
<1> HIDE DEF worse
<1> QED BY <1>1, <1>3, <1>4

(* What the events of a material come to, one after the other.             *)
PeggedUpTo(acc, order, site, group, material, stock, any, n) ==
  acc = [k \in 0 .. n |->
           IF k = 0 THEN [balance |-> stock, applied |-> FALSE, lines |-> <<>>]
           ELSE Peg(site, group, material, acc[k - 1], order[k], any)]

(* They can be computed for any sequence of events.                        *)
LEMMA BalancesExist ==
  ASSUME NEW order, NEW site, NEW group, NEW material, NEW stock, NEW any
  PROVE  \A n \in Nat : \E acc : PeggedUpTo(acc, order, site, group, material, stock, any, n)
<1> DEFINE start == [balance |-> stock, applied |-> FALSE, lines |-> <<>>]
           Next1(p, k) == Peg(site, group, material, p, order[k], any)
           Good == {n \in Nat : \E acc : PeggedUpTo(acc, order, site, group, material, stock, any, n)}
<1>1. \A n \in Nat : \A acc : PeggedUpTo(acc, order, site, group, material, stock, any, n) <=>
        acc = [k \in 0 .. n |-> IF k = 0 THEN start ELSE Next1(acc[k - 1], k)]
  BY DEF PeggedUpTo
<1> HIDE DEF start, Next1
<1>2. 0 \in Good
  <2> DEFINE g == [k \in 0 .. 0 |-> start]
  <2>1. g = [k \in 0 .. 0 |-> IF k = 0 THEN start ELSE Next1(g[k - 1], k)]
    OBVIOUS
  <2> QED BY <1>1, <2>1
<1>3. ASSUME NEW n \in Nat, n \in Good PROVE n + 1 \in Good
  <2>1. PICK g : PeggedUpTo(g, order, site, group, material, stock, any, n)
    BY <1>3
  <2>2. g = [k \in 0 .. n |-> IF k = 0 THEN start ELSE Next1(g[k - 1], k)]
    BY <1>1, <2>1
  <2> DEFINE h == [k \in 0 .. n + 1 |-> IF k <= n THEN g[k] ELSE Next1(g[n], n + 1)]
  <2>3. ASSUME NEW k \in 0 .. n + 1 PROVE h[k] = IF k = 0 THEN start ELSE Next1(h[k - 1], k)
    <3>1. CASE k \in 1 .. n
      <4>1. h[k] = g[k] /\ h[k - 1] = g[k - 1] /\ g[k] = Next1(g[k - 1], k) /\ k # 0
        BY <2>2, <3>1
      <4> QED BY <4>1
    <3>2. CASE k = n + 1
      <4>1. h[k] = Next1(g[n], n + 1) /\ h[k - 1] = g[n] /\ k # 0
        BY <3>2
      <4> QED BY <3>2, <4>1
    <3>3. CASE k = 0
      <4>1. h[k] = g[k] /\ g[k] = start
        BY <2>2, <3>3
      <4> QED BY <3>3, <4>1
    <3>4. k \in 1 .. n \/ k = n + 1 \/ k = 0
      OBVIOUS
    <3> QED BY <3>1, <3>2, <3>3, <3>4
  <2>4. h = [k \in 0 .. n + 1 |-> h[k]]
    OBVIOUS
  <2> HIDE DEF h
  <2>5. h = [k \in 0 .. n + 1 |-> IF k = 0 THEN start ELSE Next1(h[k - 1], k)]
    BY <2>3, <2>4
  <2>6. PeggedUpTo(h, order, site, group, material, stock, any, n + 1)
    BY <1>1, <2>5
  <2> QED BY <2>6
<1>4. \A n \in Nat : n \in Good
  <2> HIDE DEF Good
  <2> QED BY <1>2, <1>3, StepByStep
<1> QED BY <1>4

(* The pegging of a material is the last of them.                          *)
LEMMA PeggedIs ==
  ASSUME NEW site, NEW group, NEW material,
         Len(Sorted(PegEvents(site, group, material), PeggedBefore)) \in Nat
  PROVE  LET events == PegEvents(site, group, material)
             order == Sorted(events, PeggedBefore) IN
         \E acc : /\ PeggedUpTo(acc, order, site, group, material, StockOf(site, material),
                                \E e \in events : e.kind = "po", Len(order))
                  /\ Pegged(site, group, material) = acc[Len(order)].lines
<1> DEFINE events == PegEvents(site, group, material)
           order == Sorted(events, PeggedBefore)
           it == CHOOSE acc : acc = [k \in 0 .. Len(order) |->
                   IF k = 0 THEN [balance |-> StockOf(site, material), applied |-> FALSE, lines |-> <<>>]
                   ELSE Peg(site, group, material, acc[k - 1], order[k], \E e \in events : e.kind = "po")]
<1>1. \E acc : PeggedUpTo(acc, order, site, group, material, StockOf(site, material),
                          \E e \in events : e.kind = "po", Len(order))
  BY BalancesExist
<1>2. PeggedUpTo(it, order, site, group, material, StockOf(site, material),
                 \E e \in events : e.kind = "po", Len(order))
  BY <1>1, Zenon DEF PeggedUpTo
<1>3. Pegged(site, group, material) = it[Len(order)].lines
  BY Zenon DEF Pegged
<1> QED BY <1>2, <1>3

(* The events of a material: what is still required of it, and what is on  *)
(* order.                                                                  *)
Requirement(r) ==
  [kind |-> "requirement", due |-> r.due, rank |-> 1, job |-> r.job, id |-> r.id,
   qty |-> 0 - NetRequired(r), so |-> r.so]
Receipt(p) ==
  [kind |-> "po", due |-> p.due, rank |-> 0, job |-> 0, id |-> p.id, qty |-> p.qty, so |-> None]
Needed(site, group, material) == {r \in RowsOf(site, group, material) : NetRequired(r) > 0}
Received(site, material) == {p \in site.pos : p.material = material /\ p.qty > 0}

LEMMA EventsAre ==
  ASSUME NEW site, SiteTables(site), NEW group \in DOMAIN site.lead,
         NEW material \in MaterialsOf(site, group)
  PROVE  /\ PegEvents(site, group, material) =
              {Requirement(r) : r \in Needed(site, group, material)}
                \cup {Receipt(p) : p \in Received(site, material)}
         /\ IsFiniteSet(Needed(site, group, material)) /\ Needed(site, group, material) \in SUBSET site.rows
         /\ IsFiniteSet(Received(site, material)) /\ Received(site, material) \in SUBSET site.pos
<1>1. material \notin site.exempt
  BY DEF MaterialsOf, Assessed
<1> DEFINE all == {x \in Assessed(site, group) \cup
                         {y \in site.rows : y.group = group /\ y.open /\ y.material \in site.exempt
                            /\ (site.classes[group] = {} \/ y.class \in site.classes[group])} :
                     x.material = material /\ NetRequired(x) > 0}
           made == {[kind |-> "requirement", due |-> r.due, rank |-> 1, job |-> r.job, id |-> r.id,
                     qty |-> 0 - NetRequired(r), so |-> r.so] : r \in all}
           got == {[kind |-> "po", due |-> p.due, rank |-> 0, job |-> 0, id |-> p.id,
                    qty |-> p.qty, so |-> None] : p \in Received(site, material)}
<1>2. PegEvents(site, group, material) = made \cup got
  BY Zenon DEF PegEvents, Received
<1>3. all = Needed(site, group, material)
  BY <1>1 DEF Needed, RowsOf
<1> HIDE DEF all
<1>4. made = {Requirement(r) : r \in all}
  BY Zenon DEF Requirement
<1>5. got = {Receipt(p) : p \in Received(site, material)}
  BY Zenon DEF Receipt
<1> HIDE DEF made, got
<1>6. PegEvents(site, group, material) =
        {Requirement(r) : r \in Needed(site, group, material)} \cup {Receipt(p) : p \in Received(site, material)}
  BY <1>2, <1>3, <1>4, <1>5, Zenon
<1>7. Needed(site, group, material) \in SUBSET site.rows /\ Received(site, material) \in SUBSET site.pos
  BY DEF Needed, RowsOf, Assessed, Received
<1>8. IsFiniteSet(Needed(site, group, material)) /\ IsFiniteSet(Received(site, material))
  BY <1>7, FS_Subset DEF SiteTables, IsDemand
<1> QED BY <1>6, <1>7, <1>8

PegOrder(events) == {pair \in events \X events : PeggedBefore(pair[1], pair[2])}

(* Events are pegged by date, receipts before the requirements of a day.   *)
LEMMA EventsInOrder ==
  ASSUME NEW site, SiteTables(site), NEW group \in DOMAIN site.lead,
         NEW material \in MaterialsOf(site, group)
  PROVE  LET events == PegEvents(site, group, material) IN
         /\ IsFiniteSet(events)
         /\ \A e \in events : /\ e.due \in Int \cup {NoDate} /\ e.job \in Int /\ e.id \in Int
                              /\ e.qty \in Int /\ e.rank \in Int
                              /\ (e.kind = "requirement" => e.rank = 1)
                              /\ (e.kind # "requirement" => e.rank = 0)
         /\ Orders(Sorted(events, PeggedBefore), events, PegOrder(events))
         /\ \A a, b \in events : <<a, b>> \in PegOrder(events) <=> PeggedBefore(a, b)
<1> DEFINE events == PegEvents(site, group, material)
           need == Needed(site, group, material)
           got == Received(site, material)
           R == PegOrder(events)
           n == Cardinality(events)
           seq == Sorted(events, PeggedBefore)
<1>1. /\ events = {Requirement(r) : r \in need} \cup {Receipt(p) : p \in got}
      /\ IsFiniteSet(need) /\ need \in SUBSET site.rows /\ IsFiniteSet(got) /\ got \in SUBSET site.pos
  BY EventsAre
<1>2. IsFiniteSet(events)
  <2> DEFINE a == [r \in need |-> Requirement(r)]   b == [p \in got |-> Receipt(p)]
             A == {Requirement(r) : r \in need}   B == {Receipt(p) : p \in got}
  <2> HIDE DEF need, got
  <2>1. Images(a, need) = A /\ Images(b, got) = B
    BY Zenon DEF Images
  <2> HIDE DEF a, b, A, B
  <2>2. IsFiniteSet(A) /\ IsFiniteSet(B)
    BY <1>1, <2>1, ImageFinite
  <2>3. IsFiniteSet(A \cup B)
    BY <2>2, FS_Union
  <2> QED BY <1>1, <2>3 DEF A, B
<1>3. \A r \in need : r.due \in Int \cup {NoDate} /\ r.job \in Int /\ r.id \in Int /\ NetRequired(r) \in Nat
  BY <1>1, NetIsNat DEF SiteTables, IsDemand
<1>4. \A p \in got : p.due \in Int \cup {NoDate} /\ p.id \in Int /\ p.qty \in Int
  BY <1>1 DEF SiteTables
<1>5. \A e \in events :
        \/ \E r \in need : e = Requirement(r)
        \/ \E p \in got : e = Receipt(p)
  BY <1>1
<1> HIDE DEF events, need, got, n, seq
<1>6. \A e \in events : /\ e.due \in Int \cup {NoDate} /\ e.job \in Int /\ e.id \in Int
                        /\ e.qty \in Int /\ e.rank \in Int
                        /\ (e.kind = "requirement" => e.rank = 1)
                        /\ (e.kind # "requirement" => e.rank = 0)
  BY <1>3, <1>4, <1>5 DEF Requirement, Receipt
<1>7. \A a, b \in events : a.rank = b.rank /\ a.id = b.id => a = b
  <2>1. \A r, x \in need : r.id = x.id => r = x
    BY <1>1 DEF SiteTables, IsDemand
  <2>2. \A p, x \in got : p.id = x.id => p = x
    BY <1>1 DEF SiteTables
  <2>3. /\ \A r \in need : Requirement(r).rank = 1 /\ Requirement(r).id = r.id
        /\ \A p \in got : Receipt(p).rank = 0 /\ Receipt(p).id = p.id
    BY DEF Requirement, Receipt
  <2> QED BY <1>5, <2>1, <2>2, <2>3
<1>8. \A a, b \in events : <<a, b>> \in R <=> PeggedBefore(a, b)
  BY DEF PegOrder
<1>9. IsOrder(events, R)
  <2>1. \A a, b \in events : a # b => PeggedBefore(a, b) \/ PeggedBefore(b, a)
    BY <1>6, <1>7 DEF PeggedBefore, IsBefore
  <2>2. \A a, b \in events : ~(PeggedBefore(a, b) /\ PeggedBefore(b, a))
    BY <1>6 DEF PeggedBefore, IsBefore
  <2>3. \A a, b, c \in events : PeggedBefore(a, b) /\ PeggedBefore(b, c) => PeggedBefore(a, c)
    BY <1>6 DEF PeggedBefore, IsBefore
  <2> HIDE DEF R
  <2> QED BY <1>8, <2>1, <2>2, <2>3 DEF IsOrder
<1>10. \A x \in events : {y \in events : PeggedBefore(y, x)} = Preceding(events, R, x)
  BY <1>8 DEF Preceding
<1>11. seq = [k \in 1 .. n |-> CHOOSE x \in events :
                                Cardinality({y \in events : PeggedBefore(y, x)}) = k - 1]
  BY DEF Sorted, seq, n
<1> HIDE DEF R
<1>12. ASSUME NEW k \in 1 .. n
       PROVE  seq[k] \in events /\ Cardinality(Preceding(events, R, seq[k])) = k - 1
  <2> DEFINE P(x) == Cardinality({y \in events : PeggedBefore(y, x)}) = k - 1
  <2>1. PICK x \in events : Cardinality(Preceding(events, R, x)) = k - 1
    BY <1>2, <1>9, RanksAre DEF n
  <2>2. P(x)
    BY <1>10, <2>1
  <2>3. seq[k] = CHOOSE z \in events : P(z)
    BY <1>11
  <2> HIDE DEF P
  <2>4. seq[k] \in events /\ P(seq[k])
    BY <2>2, <2>3
  <2> QED BY <1>10, <2>4 DEF P
<1>13. DOMAIN seq = 1 .. n /\ seq = [k \in 1 .. n |-> seq[k]]
  <2> DEFINE At(k) == CHOOSE x \in events : Cardinality({y \in events : PeggedBefore(y, x)}) = k - 1
  <2>1. seq = [k \in 1 .. n |-> At(k)]
    BY <1>11
  <2> HIDE DEF At
  <2> QED BY <2>1
<1>14. Orders(seq, events, R)
  BY <1>2, <1>9, <1>12, <1>13, RankedIsSorted DEF n
<1> QED BY <1>2, <1>6, <1>8, <1>14, Zenon DEF seq, R, events

(* What the pegging view says of each event: the balance of stock and of   *)
(* everything up to it.                                                    *)
Balances(lines, order, n, stock, site, group, material) ==
  LET moved == [i \in 1 .. n |-> order[i].qty] IN
  /\ Len(lines) = n /\ DOMAIN lines = 1 .. n
  /\ \A k \in 1 .. n :
       /\ lines[k].event = order[k]
       /\ (lines[k].short <=> stock + SumFunctionOnSet(moved, 1 .. k) < 0)
       /\ (order[k].kind = "requirement" =>
            \E short, applied, any :
              lines[k].status = PegStatus(NettedStatus(site, group, material, order[k].job),
                                          short, applied, any))

LEMMA PeggingRuns ==
  ASSUME NEW site, SiteTables(site), NEW group \in DOMAIN site.lead,
         NEW material \in MaterialsOf(site, group)
  PROVE  LET events == PegEvents(site, group, material) IN
         /\ Cardinality(events) \in Nat
         /\ Balances(Pegged(site, group, material), Sorted(events, PeggedBefore), Cardinality(events),
                     StockOf(site, material), site, group, material)
<1> DEFINE events == PegEvents(site, group, material)
           order == Sorted(events, PeggedBefore)
           n == Cardinality(events)
           stock == StockOf(site, material)
           any == \E e \in events : e.kind = "po"
           lines == Pegged(site, group, material)
<1>1. n \in Nat /\ Len(order) = n /\ \A k \in 1 .. n : order[k].qty \in Int
  <2>1. IsFiniteSet(events) /\ Orders(order, events, PegOrder(events)) /\ \A e \in events : e.qty \in Int
    BY EventsInOrder, Zenon
  <2> HIDE DEF events, order
  <2>2. n \in Nat
    BY <2>1, FS_CardinalityType
  <2>3. Len(order) = n /\ \A k \in 1 .. n : order[k] \in events
    BY <2>1 DEF Orders
  <2> QED BY <2>1, <2>2, <2>3
<1>2. stock \in Int
  BY NettedFrom
<1>3. PICK acc : PeggedUpTo(acc, order, site, group, material, stock, any, n) /\ lines = acc[n].lines
  <2>1. Len(order) \in Nat
    BY <1>1
  <2>2. \E acc : PeggedUpTo(acc, order, site, group, material, stock, any, Len(order)) /\ lines = acc[Len(order)].lines
    BY <2>1, PeggedIs, Zenon
  <2> HIDE DEF order, n, any, stock, lines
  <2> QED BY <1>1, <2>2
<1> HIDE DEF events, order, n, stock, lines, any
<1> DEFINE start == [balance |-> stock, applied |-> FALSE, lines |-> <<>>]
           status(k) == PegStatus(NettedStatus(site, group, material, order[k].job),
                                  acc[k - 1].balance + order[k].qty < 0,
                                  acc[k - 1].applied \/ order[k].kind = "po", any)
           L == [k \in 1 .. n |->
                   [event |-> order[k], balance |-> acc[k - 1].balance + order[k].qty,
                    short |-> acc[k - 1].balance + order[k].qty < 0,
                    status |-> IF order[k].kind = "po" THEN "no_data" ELSE status(k)]]
           q == [k \in 1 .. n |-> order[k].qty]
           Q(k) == SumFunctionOnSet(q, 1 .. k)
<1>4. acc[0] = start /\ \A k \in 1 .. n : acc[k] = Peg(site, group, material, acc[k - 1], order[k], any)
  <2> DEFINE At(k) == IF k = 0 THEN [balance |-> stock, applied |-> FALSE, lines |-> <<>>]
                      ELSE Peg(site, group, material, acc[k - 1], order[k], any)
  <2>1. acc = [k \in 0 .. n |-> At(k)]
    BY <1>3 DEF PeggedUpTo
  <2> HIDE DEF At
  <2>2. \A k \in 0 .. n : acc[k] = At(k)
    BY <2>1
  <2>3. 0 \in 0 .. n /\ \A k \in 1 .. n : k \in 0 .. n /\ k # 0
    BY <1>1
  <2> QED BY <2>2, <2>3 DEF At
<1>5. \A k \in 1 .. n : /\ acc[k].balance = acc[k - 1].balance + order[k].qty
                        /\ acc[k].lines = Append(acc[k - 1].lines, L[k])
  <2> SUFFICES ASSUME NEW k \in 1 .. n
               PROVE  /\ acc[k].balance = acc[k - 1].balance + order[k].qty
                      /\ acc[k].lines = Append(acc[k - 1].lines, L[k])
    OBVIOUS
  <2>1. acc[k] = [balance |-> acc[k - 1].balance + order[k].qty,
                  applied |-> acc[k - 1].applied \/ order[k].kind = "po",
                  lines |-> Append(acc[k - 1].lines, L[k])]
    BY <1>4, Zenon DEF Peg
  <2> HIDE DEF L
  <2> QED BY <2>1
<1>6. Q(0) = 0 /\ \A k \in 1 .. n :
        Q(k) = Q(k - 1) + q[k] /\ Q(k - 1) \in Int /\ q[k] = order[k].qty /\ q[k] \in Int
  <2>1. \A k \in 1 .. n : q[k] \in Int /\ q[k] = order[k].qty /\ k - 1 \in 0 .. n
    BY <1>1
  <2> HIDE DEF q
  <2> QED BY <1>1, <2>1, UpToIs
<1> DEFINE Good == {k \in Nat : k <= n => /\ acc[k].balance = stock + Q(k)
                                          /\ acc[k].lines = [i \in 1 .. k |-> L[i]]}
<1>7. 0 \in Good
  <2>1. start.balance = stock /\ start.lines = <<>> /\ <<>> = [i \in 1 .. 0 |-> L[i]]
    OBVIOUS
  <2> HIDE DEF start, L, Q
  <2> QED BY <1>2, <1>4, <1>6, <2>1
<1>8. ASSUME NEW k \in Nat, k \in Good PROVE k + 1 \in Good
  <2> SUFFICES ASSUME k + 1 <= n
               PROVE  acc[k + 1].balance = stock + Q(k + 1) /\ acc[k + 1].lines = [i \in 1 .. k + 1 |-> L[i]]
    OBVIOUS
  <2>1. k <= n /\ k + 1 \in 1 .. n /\ (k + 1) - 1 = k
    BY <1>1
  <2> HIDE DEF L, Q, q
  <2>2. acc[k].balance = stock + Q(k) /\ acc[k].lines = [i \in 1 .. k |-> L[i]]
    BY <1>8, <2>1
  <2>3. acc[k + 1].balance = acc[k].balance + order[k + 1].qty /\ acc[k + 1].lines = Append(acc[k].lines, L[k + 1])
    BY <1>5, <2>1
  <2>4. Q(k + 1) = Q(k) + order[k + 1].qty /\ Q(k) \in Int /\ order[k + 1].qty \in Int
    BY <1>6, <2>1
  <2>5. acc[k + 1].lines = [i \in 1 .. k + 1 |-> L[i]]
    BY <2>2, <2>3, Appended
  <2>6. acc[k + 1].balance = stock + Q(k + 1)
    BY <1>2, <2>2, <2>3, <2>4
  <2> QED BY <2>5, <2>6
<1>9. \A k \in Nat : k \in Good
  <2> HIDE DEF Good
  <2> QED BY <1>7, <1>8, StepByStep
<1>10. lines = [i \in 1 .. n |-> L[i]]
  <2>1. n \in Good /\ n <= n
    <3> HIDE DEF Good
    <3> QED BY <1>1, <1>9
  <2> HIDE DEF L, Q
  <2> QED BY <1>3, <2>1
<1>11. Len(lines) = n /\ DOMAIN lines = 1 .. n /\ \A k \in 1 .. n : lines[k] = L[k]
  <2> HIDE DEF L
  <2> QED BY <1>1, <1>10
<1>12. \A k \in 1 .. n : acc[k - 1].balance + order[k].qty = stock + Q(k)
  <2> SUFFICES ASSUME NEW k \in 1 .. n PROVE acc[k - 1].balance + order[k].qty = stock + Q(k)
    OBVIOUS
  <2>1. k - 1 \in Nat /\ k - 1 <= n /\ k - 1 \in Good
    <3> HIDE DEF Good
    <3> QED BY <1>1, <1>9
  <2> HIDE DEF L, Q, q
  <2>2. acc[k - 1].balance = stock + Q(k - 1)
    BY <2>1
  <2> QED BY <1>2, <1>6, <2>2
<1>13. \A k \in 1 .. n :
         /\ L[k].event = order[k]
         /\ L[k].short = (acc[k - 1].balance + order[k].qty < 0)
         /\ (order[k].kind = "requirement" => L[k].status = status(k))
  BY Zenon
<1> HIDE DEF L, Q
<1>14. \A k \in 1 .. n :
         /\ lines[k].event = order[k]
         /\ (lines[k].short <=> stock + Q(k) < 0)
         /\ (order[k].kind = "requirement" =>
              \E short, applied, a :
                lines[k].status = PegStatus(NettedStatus(site, group, material, order[k].job),
                                            short, applied, a))
  <2> SUFFICES ASSUME NEW k \in 1 .. n
               PROVE  /\ lines[k].event = order[k]
                      /\ (lines[k].short <=> stock + Q(k) < 0)
                      /\ (order[k].kind = "requirement" =>
                           \E short, applied, a :
                             lines[k].status = PegStatus(NettedStatus(site, group, material, order[k].job),
                                                         short, applied, a))
    OBVIOUS
  <2>1. lines[k].event = order[k]
    BY <1>11, <1>13
  <2>2. lines[k].short <=> stock + Q(k) < 0
    BY <1>11, <1>12, <1>13
  <2>3. ASSUME order[k].kind = "requirement"
        PROVE  lines[k].status = status(k)
    <3> HIDE DEF status
    <3> QED BY <1>11, <1>13, <2>3
  <2> QED BY <2>1, <2>2, <2>3, Zenon
<1> QED BY <1>1, <1>11, <1>14, Zenon DEF Balances, Q, q, events, order, n, stock, lines

(* The events of requirements and releases, and those up to some event.    *)
EventsOf(need, got) == {Requirement(r) : r \in need} \cup {Receipt(p) : p \in got}
Asked(need, seen) == {r \in need : Requirement(r) \in seen}
Came(got, seen)   == {p \in got : Receipt(p) \in seen}

(* What each of them counts for, with no two of the same identity.         *)
Counted(need, got, seen, value, net, qty) ==
  /\ \A r \in need : NetRequired(r) \in Nat /\ net[r] = NetRequired(r)
  /\ \A r, x \in need : r.id = x.id => r = x
  /\ \A p \in got : p.qty \in Nat /\ qty[p] = p.qty
  /\ \A p, x \in got : p.id = x.id => p = x
  /\ seen \in SUBSET EventsOf(need, got) /\ \A e \in seen : value[e] = e.qty

(* What the events up to one come to is what came less what was asked for. *)
LEMMA BalanceIs ==
  ASSUME NEW need, IsFiniteSet(need), NEW got, IsFiniteSet(got), NEW seen,
         NEW value, NEW net, NEW qty, Counted(need, got, seen, value, net, qty)
  PROVE  LET asked == Asked(need, seen)
             came == Came(got, seen) IN
         /\ IsFiniteSet(asked) /\ IsFiniteSet(came)
         /\ SumFunctionOnSet(net, asked) \in Nat /\ SumFunctionOnSet(qty, came) \in Nat
         /\ SumFunctionOnSet(value, seen) =
              SumFunctionOnSet(qty, came) - SumFunctionOnSet(net, asked)
<1> DEFINE asked == {r \in need : Requirement(r) \in seen}
           came == {p \in got : Receipt(p) \in seen}
           req == [r \in need |-> Requirement(r)]
           rec == [p \in got |-> Receipt(p)]
           neg == [r \in need |-> 0 - NetRequired(r)]
           nil == [r \in need |-> 0]
           A == Images(req, asked)
           B == Images(rec, came)
<1>0. /\ \A r \in need : NetRequired(r) \in Nat /\ net[r] = NetRequired(r)
      /\ \A r, x \in need : r.id = x.id => r = x
      /\ \A p \in got : p.qty \in Nat /\ qty[p] = p.qty
      /\ \A p, x \in got : p.id = x.id => p = x
      /\ seen \in SUBSET EventsOf(need, got) /\ \A e \in seen : value[e] = e.qty
  BY DEF Counted
<1>1. /\ \A r \in need : Requirement(r).id = r.id /\ Requirement(r).rank = 1
                         /\ Requirement(r).qty = 0 - NetRequired(r)
      /\ \A p \in got : Receipt(p).id = p.id /\ Receipt(p).rank = 0 /\ Receipt(p).qty = p.qty
  BY DEF Requirement, Receipt
<1>2. asked \in SUBSET need /\ came \in SUBSET got
  OBVIOUS
<1>3. IsFiniteSet(asked) /\ IsFiniteSet(came)
  BY <1>2, FS_Subset
<1>4. \A r \in asked : /\ net[r] \in Nat /\ neg[r] \in Int /\ nil[r] = 0 /\ nil[r] = neg[r] + net[r]
                       /\ neg[r] = value[req[r]]
  BY <1>0, <1>1
<1>5. \A p \in came : qty[p] \in Nat /\ qty[p] = value[rec[p]]
  BY <1>0, <1>1
<1>6. \A r, x \in asked : req[r] = req[x] => r = x
  BY <1>0, <1>1
<1>7. \A p, x \in came : rec[p] = rec[x] => p = x
  BY <1>0, <1>1
<1>8. A \cap B = {} /\ A \cup B = seen
  <2>1. A = {Requirement(r) : r \in asked} /\ B = {Receipt(p) : p \in came}
    BY DEF Images
  <2> HIDE DEF A, B
  <2>2. A \cap B = {}
    <3> SUFFICES ASSUME NEW e \in A, e \in B PROVE FALSE
      OBVIOUS
    <3>1. e.rank = 1 /\ e.rank = 0
      BY <1>1, <1>2, <2>1
    <3> QED BY <3>1
  <2>3. A \in SUBSET seen /\ B \in SUBSET seen
    BY <2>1
  <2>4. \A e \in seen : e \in A \/ e \in B
    BY <1>0, <2>1 DEF EventsOf
  <2> QED BY <2>2, <2>3, <2>4
<1> HIDE DEF asked, came, req, rec, neg, nil
<1>9. /\ IsFiniteSet(A) /\ SumFunctionOnSet(value, A) = SumFunctionOnSet(neg, asked)
      /\ IsFiniteSet(B) /\ SumFunctionOnSet(value, B) = SumFunctionOnSet(qty, came)
  <2>1. \A p \in came : qty[p] \in Int /\ qty[p] = value[rec[p]]
    BY <1>5
  <2>2. \A r \in asked : neg[r] \in Int /\ neg[r] = value[req[r]]
    BY <1>4
  <2>3. Counts(neg, asked, value, req) /\ Counts(qty, came, value, rec)
    BY <1>6, <1>7, <2>1, <2>2 DEF Counts
  <2> QED BY <1>3, <2>3, SumOfCounts
<1> HIDE DEF A, B
<1>10. SumFunctionOnSet(value, seen) = SumFunctionOnSet(value, A) + SumFunctionOnSet(value, B)
  <2>1. \A e \in A \cup B : value[e] \in Int
    <3>1. \A e \in seen : e.qty \in Int
      BY <1>0, <1>1 DEF EventsOf
    <3> QED BY <1>0, <1>8, <3>1
  <2>2. SumFunctionOnSet(value, A \cup B) = SumFunctionOnSet(value, A) + SumFunctionOnSet(value, B)
    BY <1>8, <1>9, <2>1, SumUnion
  <2> QED BY <1>8, <2>2
<1> DEFINE n == SumFunctionOnSet(net, asked)
           q == SumFunctionOnSet(qty, came)
           m == SumFunctionOnSet(neg, asked)
<1>11. n \in Nat /\ q \in Nat /\ m \in Int
  <2>1. n \in Nat /\ q \in Nat
    BY <1>3, <1>4, <1>5, SumNat
  <2>2. m \in Int
    BY <1>3, <1>4, SumInt
  <2> QED BY <2>1, <2>2
<1>12. m + n = 0
  <2>1. SumFunctionOnSet(nil, asked) = m + n
    <3>1. \A r \in asked : neg[r] \in Int /\ net[r] \in Int /\ nil[r] = neg[r] + net[r]
      BY <1>4
    <3> QED BY <1>3, <3>1, SumOfBoth
  <2>2. SumFunctionOnSet(nil, asked) = 0
    <3>1. \A r \in asked : nil[r] \in Nat /\ nil[r] = 0
      BY <1>4
    <3> QED BY <1>3, <3>1, SumNat
  <2> QED BY <2>1, <2>2
<1>13. SumFunctionOnSet(value, seen) = m + q
  BY <1>9, <1>10
<1> HIDE DEF m, n, q
<1>14. SumFunctionOnSet(value, seen) = q - n
  BY <1>11, <1>12, <1>13
<1> QED BY <1>3, <1>11, <1>14, Zenon DEF n, q, asked, came, Asked, Came

(* Nothing that arrives in time for a requirement comes after it.          *)
LEMMA InTimeIsEarlier ==
  ASSUME NEW p, p.due \in Int, NEW r, r.due \in Int \cup {NoDate}, NEW lead \in Nat,
         InTimeFor(p, r, lead), p.due # NoDate
  PROVE  PeggedBefore(Receipt(p), Requirement(r))
<1>1. Arrival(p) \in Int /\ p.due <= Arrival(p)
  BY ArrivalIs
<1>2. /\ Receipt(p).due = p.due /\ Receipt(p).rank = 0
      /\ Requirement(r).due = r.due /\ Requirement(r).rank = 1
  BY DEF Receipt, Requirement
<1>3. r.due = NoDate \/ (r.due # NoDate /\ r.due \in Int /\ p.due <= r.due)
  BY <1>1 DEF InTimeFor
<1> QED BY <1>2, <1>3 DEF PeggedBefore, IsBefore

(* If the first requirements are all met, what they need is in stock or    *)
(* ordered in time for the last of them.                                   *)
LEMMA MetFromWhatThereIs ==
  ASSUME NEW rows, IsDemand(rows), NEW pos, NEW stock \in Int, NEW lead, NEW lines,
         HandsOut(lines, InOrder(rows), Cardinality(rows), stock, pos, lead),
         NEW j \in 1 .. Cardinality(rows), \A i \in 1 .. j : ~(lines[i].shortage > 0),
         OrderedFor(pos, InOrder(rows)[j], lead) \in Int,
         NEW net, \A r \in rows : net[r] = NetRequired(r),
         NEW some, some \in SUBSET rows, \A r \in some : \E i \in 1 .. j : InOrder(rows)[i] = r
  PROVE  SumFunctionOnSet(net, some) <= stock + OrderedFor(pos, InOrder(rows)[j], lead)
<1> DEFINE order == InOrder(rows)
           n == Cardinality(rows)
           K == 1 .. j
           first == Images(order, K)
           u == [i \in 1 .. n |-> lines[i].stockUsed]
           t == [i \in 1 .. n |-> lines[i].poUsed]
           w == [i \in 1 .. n |-> lines[i].net]
           o == OrderedFor(pos, order[j], lead)
<1>1. n \in Nat /\ IsFiniteSet(rows)
  BY FS_CardinalityType DEF IsDemand
<1>2. /\ \A k \in 1 .. n : order[k] \in rows
      /\ \A i, k \in 1 .. n : order[i] = order[k] => i = k
  <2>1. Orders(order, rows, RowOrder(rows)) /\ \A a, b \in rows : <<a, b>> \in RowOrder(rows) <=>
          NettedBefore(a, b)
    BY RowsInOrder
  <2> HIDE DEF order, n
  <2>2. order \in [1 .. n -> rows] /\ \A i, k \in 1 .. n : i < k <=>
          <<order[i], order[k]>> \in RowOrder(rows)
    BY <2>1 DEF Orders, n
  <2>3. \A i \in 1 .. n : ~(<<order[i], order[i]>> \in RowOrder(rows))
    BY <2>2
  <2>4. \A i, k \in 1 .. n : order[i] = order[k] => ~(i < k) /\ ~(k < i)
    BY <2>2, <2>3
  <2> QED BY <1>1, <2>2, <2>4
<1>3. /\ \A k \in 1 .. n :
           /\ lines[k].net = NetRequired(order[k])
           /\ lines[k].stockUsed \in Int /\ lines[k].poUsed \in Nat /\ lines[k].shortage \in Nat
           /\ lines[k].stockUsed + lines[k].poUsed + lines[k].shortage = lines[k].net
      /\ SumFunctionOnSet(u, 1 .. j) <= stock /\ SumFunctionOnSet(t, 1 .. j) <= o
  <2> HIDE DEF order, n
  <2> QED BY Zenon DEF HandsOut, order, n
<1>4. \A r \in rows : net[r] \in Nat
  BY NetIsNat
<1>5. IsFiniteSet(K) /\ \A i \in K : i \in 1 .. n
  <2>1. j \in 1 .. n
    OBVIOUS
  <2> HIDE DEF n
  <2>2. j \in Int /\ 1 \in Int /\ \A i \in 1 .. j : i \in 1 .. n
    BY <1>1, <2>1
  <2> QED BY <2>2, FS_Interval
<1> HIDE DEF order, n, K, o
<1>6. first \in SUBSET rows /\ some \in SUBSET first /\ IsFiniteSet(first)
  <2>1. first \in SUBSET rows
    BY <1>2, <1>5 DEF Images
  <2>2. some \in SUBSET first
    BY DEF Images, order, K
  <2> QED BY <1>1, <2>1, <2>2, FS_Subset
<1>7. \A i \in K : /\ u[i] \in Int /\ t[i] \in Int /\ w[i] \in Int /\ w[i] = net[order[i]]
                   /\ w[i] = u[i] + t[i]
  <2> SUFFICES ASSUME NEW i \in K
               PROVE  /\ u[i] \in Int /\ t[i] \in Int /\ w[i] \in Int /\ w[i] = net[order[i]]
                      /\ w[i] = u[i] + t[i]
    OBVIOUS
  <2>1. i \in 1 .. n /\ ~(lines[i].shortage > 0)
    BY <1>5 DEF K
  <2>2. w[i] = lines[i].net /\ u[i] = lines[i].stockUsed /\ t[i] = lines[i].poUsed
    BY <2>1
  <2>3. lines[i].net = net[order[i]] /\ net[order[i]] \in Nat
    BY <1>2, <1>3, <1>4, <2>1
  <2>4. lines[i].net = lines[i].stockUsed + lines[i].poUsed
    BY <1>3, <2>1
  <2> HIDE DEF u, t, w
  <2> QED BY <1>3, <2>1, <2>2, <2>3, <2>4
<1> HIDE DEF u, t, w
<1>8. SumFunctionOnSet(net, first) = SumFunctionOnSet(w, K)
  <2>1. \A i \in K : w[i] \in Int /\ w[i] = net[order[i]]
    BY <1>7
  <2>2. \A i, k \in K : order[i] = order[k] => i = k
    BY <1>2, <1>5
  <2>3. Counts(w, K, net, order)
    BY <2>1, <2>2 DEF Counts
  <2> QED BY <1>5, <2>3, SumOfCounts
<1>9. SumFunctionOnSet(w, K) = SumFunctionOnSet(u, K) + SumFunctionOnSet(t, K)
  BY <1>5, <1>7, SumOfBoth
<1>10. SumFunctionOnSet(net, some) <= SumFunctionOnSet(net, first)
  BY <1>4, <1>6, SumOfPart
<1>11. /\ SumFunctionOnSet(net, some) \in Int /\ SumFunctionOnSet(net, first) \in Int
       /\ SumFunctionOnSet(u, K) \in Int /\ SumFunctionOnSet(t, K) \in Int
  <2>1. \A r \in first : net[r] \in Int
    BY <1>4, <1>6
  <2>2. IsFiniteSet(some) /\ \A r \in some : net[r] \in Int
    BY <1>6, <2>1, FS_Subset
  <2> QED BY <1>5, <1>6, <1>7, <2>1, <2>2, SumInt
<1>12. SumFunctionOnSet(u, K) <= stock /\ SumFunctionOnSet(t, K) <= o /\ o \in Int
  BY <1>3 DEF K, o, order
<1> DEFINE a == SumFunctionOnSet(net, some)  b == SumFunctionOnSet(net, first)
           c == SumFunctionOnSet(u, K)  d == SumFunctionOnSet(t, K)
<1>13. a \in Int /\ c \in Int /\ d \in Int /\ a <= b /\ b = c + d /\ c <= stock /\ d <= o
  BY <1>8, <1>9, <1>10, <1>11, <1>12
<1> HIDE DEF a, b, c, d
<1>14. a <= stock + o
  BY <1>12, <1>13
<1> QED BY <1>14 DEF a, o, order

(* A projected balance below nought, though stock is not, comes with a     *)
(* requirement that the netting finds short, at or before that event.      *)
LEMMA ShortageIsNetted ==
  ASSUME NEW site, SiteTables(site), NEW group \in DOMAIN site.lead,
         NEW material \in MaterialsOf(site, group), StockOf(site, material) >= 0,
         NEW k \in 1 .. Cardinality(PegEvents(site, group, material)),
         LET events == PegEvents(site, group, material)
             order == Sorted(events, PeggedBefore) IN
         StockOf(site, material)
           + SumFunctionOnSet([i \in 1 .. Cardinality(events) |-> order[i].qty], 1 .. k) < 0
  PROVE  LET event == Sorted(PegEvents(site, group, material), PeggedBefore)[k]
             lines == NettedLines(site, group, material)
             rows == RowsOf(site, group, material) IN
         \E i \in 1 .. Cardinality(rows), r \in rows :
           /\ lines[i].shortage > 0
           /\ InOrder(rows)[i] = r \/ NettedBefore(InOrder(rows)[i], r)
           /\ Requirement(r) = event \/ PeggedBefore(Requirement(r), event)
<1> DEFINE events == PegEvents(site, group, material)
           E == Sorted(events, PeggedBefore)
           m == Cardinality(events)
           stock == StockOf(site, material)
           rows == RowsOf(site, group, material)
           pos == Covering(site, material)
           lead == site.lead[group]
           need == Needed(site, group, material)
           got == Received(site, material)
           lines == NettedLines(site, group, material)
           n == Cardinality(rows)
           N == InOrder(rows)
           moved == [i \in 1 .. m |-> E[i].qty]
           K == 1 .. k
           seen == Images(E, K)
           asked == Asked(need, seen)
           came == Came(got, seen)
           value == [e \in events |-> e.qty]
           net == [r \in rows |-> NetRequired(r)]
           qty == [p \in site.pos |-> p.qty]
<1>1. /\ IsDemand(rows) /\ IsSupply(pos) /\ stock \in Nat /\ lead \in Nat
      /\ n \in Nat /\ HandsOut(lines, N, n, stock, pos, lead)
  <2>1. IsDemand(rows) /\ IsSupply(pos) /\ stock \in Int /\ lead \in Nat /\ lines = Netted(rows, stock, pos, lead)
    BY NettedFrom
  <2>2. stock >= 0
    OBVIOUS
  <2> HIDE DEF rows, pos, stock, lead, lines
  <2>3. n \in Nat /\ HandsOut(lines, N, n, stock, pos, lead)
    BY <2>1, NettingRuns
  <2> QED BY <2>1, <2>2, <2>3
<1>2. /\ \A i \in 1 .. n : N[i] \in rows
      /\ \A r \in rows : \E i \in 1 .. n : N[i] = r
      /\ \A i, j \in 1 .. n : i < j => NettedBefore(N[i], N[j])
  <2>1. Orders(N, rows, RowOrder(rows)) /\ \A a, b \in rows : <<a, b>> \in RowOrder(rows) <=>
          NettedBefore(a, b)
    BY <1>1, RowsInOrder
  <2> HIDE DEF N, n, rows
  <2>2. /\ N \in [1 .. n -> rows] /\ \A r \in rows : \E i \in 1 .. n : N[i] = r
        /\ \A i, j \in 1 .. n : i < j <=> <<N[i], N[j]>> \in RowOrder(rows)
    BY <2>1 DEF Orders, n
  <2> QED BY <2>1, <2>2
<1>3. /\ m \in Nat /\ k \in 1 .. m /\ \A i \in 1 .. m : E[i] \in events
      /\ \A e \in events : e.qty \in Int /\ \E i \in 1 .. m : E[i] = e
      /\ \A i, j \in 1 .. m : i < j <=> PeggedBefore(E[i], E[j])
      /\ \A i, j \in 1 .. m : E[i] = E[j] => i = j
  <2>1. /\ IsFiniteSet(events) /\ Orders(E, events, PegOrder(events)) /\ \A e \in events : e.qty \in Int
        /\ \A a, b \in events : <<a, b>> \in PegOrder(events) <=> PeggedBefore(a, b)
    BY EventsInOrder, Zenon
  <2>2. m \in Nat /\ k \in 1 .. m
    BY <2>1, FS_CardinalityType
  <2> HIDE DEF events, E, m
  <2>3. /\ E \in [1 .. m -> events] /\ \A e \in events : \E i \in 1 .. m : E[i] = e
        /\ \A i, j \in 1 .. m : i < j <=> <<E[i], E[j]>> \in PegOrder(events)
    BY <2>1 DEF Orders, m
  <2>4. \A i, j \in 1 .. m : i < j <=> PeggedBefore(E[i], E[j])
    BY <2>1, <2>3
  <2>5. \A i, j \in 1 .. m : E[i] = E[j] => i = j
    <3>1. \A i \in 1 .. m : ~PeggedBefore(E[i], E[i])
      BY <2>4
    <3>2. \A i, j \in 1 .. m : E[i] = E[j] => ~(i < j) /\ ~(j < i)
      BY <2>4, <3>1
    <3> QED BY <2>2, <3>2
  <2> QED BY <2>1, <2>2, <2>3, <2>4, <2>5
<1>4. /\ events = {Requirement(r) : r \in need} \cup {Receipt(p) : p \in got}
      /\ IsFiniteSet(need) /\ IsFiniteSet(got) /\ got \in SUBSET site.pos
  BY EventsAre
<1>5. /\ need \in SUBSET rows /\ \A r \in need :
           NetRequired(r) \in Nat /\ r.id \in Int /\ r.due \in Int \cup {NoDate}
      /\ \A r, x \in need : r.id = x.id => r = x
  <2>1. need \in SUBSET rows
    BY DEF Needed
  <2> HIDE DEF need, rows
  <2> QED BY <1>1, <2>1, NetIsNat DEF IsDemand
<1>6. /\ \A p \in got : p.qty \in Nat /\ p.id \in Int
      /\ \A p, x \in got : p.id = x.id => p = x
  BY DEF Received, SiteTables
<1>7. stock + SumFunctionOnSet(moved, 1 .. k) < 0
  OBVIOUS
<1>8. (\A r \in rows : net[r] = NetRequired(r)) /\ (\A p \in site.pos : qty[p] = p.qty)
      /\ \A e \in events : value[e] = e.qty
  OBVIOUS
<1>9. pos \in SUBSET got /\ \A p \in pos : p.due # NoDate
  BY DEF Covering, Received
<1>10. \A i \in K : i \in 1 .. m /\ moved[i] = E[i].qty
  <2> HIDE DEF events, E, m
  <2> QED BY <1>3
<1>11. \A p \in pos : p.due \in Int /\ p.qty \in Nat
  <2> HIDE DEF pos
  <2> QED BY <1>1 DEF IsSupply
<1> HIDE DEF events, E, m, stock, rows, pos, lead, need, got, lines, n, N, moved, value, net, qty
<1>12. IsFiniteSet(K)
  BY <1>3, FS_Interval
<1>13. SumFunctionOnSet(value, seen) = SumFunctionOnSet(moved, K)
  <2>1. \A i \in K : moved[i] \in Int /\ moved[i] = value[E[i]]
    BY <1>3, <1>8, <1>10
  <2>2. \A i, j \in K : E[i] = E[j] => i = j
    BY <1>3, <1>10
  <2>3. Counts(moved, K, value, E)
    BY <2>1, <2>2 DEF Counts
  <2> HIDE DEF K
  <2> QED BY <1>12, <2>3, SumOfCounts
<1>14. seen \in SUBSET events /\ \A e \in seen : \E i \in K : E[i] = e
  BY <1>3, <1>10 DEF Images
<1>15. \A e \in events : (\E i \in 1 .. m : E[i] = e /\ i <= k) => e \in seen
  BY <1>3 DEF Images
<1> HIDE DEF seen
<1>16. /\ IsFiniteSet(asked) /\ IsFiniteSet(came)
       /\ SumFunctionOnSet(net, asked) \in Nat /\ SumFunctionOnSet(qty, came) \in Nat
       /\ SumFunctionOnSet(value, seen) = SumFunctionOnSet(qty, came) - SumFunctionOnSet(net, asked)
  <2>1. seen \in SUBSET EventsOf(need, got)
    BY <1>4, <1>14 DEF EventsOf
  <2>2. Counted(need, got, seen, value, net, qty)
    BY <1>4, <1>5, <1>6, <1>8, <1>14, <2>1 DEF Counted
  <2> QED BY <1>4, <2>2, BalanceIs
<1> HIDE DEF asked, came
<1> DEFINE a == SumFunctionOnSet(net, asked)
           c == SumFunctionOnSet(qty, came)
<1>17. a \in Nat /\ c \in Nat /\ stock \in Nat /\ a > stock + c
  <2>1. SumFunctionOnSet(value, seen) = c - a /\ stock + SumFunctionOnSet(value, seen) < 0 /\ a \in Nat /\ c \in Nat
    BY <1>7, <1>13, <1>16
  <2> HIDE DEF a, c
  <2> QED BY <1>1, <2>1
<1>18. asked # {}
  <2>1. SumFunctionOnSet(net, {}) = 0
    BY SumOfNone
  <2>2. asked = {} => a = 0
    BY <2>1, Zenon
  <2> HIDE DEF a, c
  <2> QED BY <1>17, <2>2
<1>19. asked \in SUBSET rows /\ asked \in SUBSET need
  BY <1>5 DEF asked, Asked
<1> DEFINE J == {i \in 1 .. n : N[i] \in asked}
<1>20. PICK j \in J : \A i \in J : i <= j
  <2>1. J # {} /\ J \in SUBSET (1 .. n)
    BY <1>2, <1>18, <1>19
  <2> DEFINE T == {n - i : i \in J}
  <2>2. T \in SUBSET Nat /\ T # {}
    BY <1>1, <2>1
  <2> HIDE DEF J
  <2>3. PICK x \in T : \A y \in T : x <= y
    <3> HIDE DEF T
    <3> QED BY <2>2, SmallestExists
  <2>4. PICK j \in J : x = n - j
    OBVIOUS
  <2>5. ASSUME NEW i \in J PROVE i <= j
    <3>1. n - i \in T
      OBVIOUS
    <3>2. x <= n - i
      BY <2>3, <3>1
    <3> HIDE DEF T
    <3> QED BY <1>1, <2>1, <2>4, <3>2
  <2> QED BY <2>5
<1>21. /\ j \in 1 .. n /\ N[j] \in asked /\ N[j] \in rows /\ \A r \in asked : \E i \in 1 .. j : N[i] = r
  <2>1. j \in 1 .. n /\ N[j] \in asked /\ \A i \in 1 .. n : N[i] \in asked => i <= j
    BY <1>20
  <2>2. \A r \in asked : \E i \in 1 .. n : N[i] = r
    BY <1>2, <1>19
  <2> QED BY <1>1, <1>2, <2>1, <2>2
<1> HIDE DEF J
<1> DEFINE o == OrderedFor(pos, N[j], lead)
           due == {p \in pos : InTimeFor(p, N[j], lead)}
<1>22. o \in Nat /\ o <= c
  <2>1. IsFiniteSet(due) /\ o = SumFunctionOnSet(qty, due)
    <3>1. \A p \in pos : qty[p] = p.qty
      BY <1>4, <1>8, <1>9
    <3> QED BY <1>1, <3>1, OrderedIs
  <2>2. due \in SUBSET came
    <3> SUFFICES ASSUME NEW p \in pos, InTimeFor(p, N[j], lead) PROVE p \in came
      OBVIOUS
    <3>1. N[j] \in need /\ N[j].due \in Int \cup {NoDate} /\ p.due \in Int /\ p.due # NoDate
      BY <1>5, <1>9, <1>11, <1>19, <1>21
    <3>2. PeggedBefore(Receipt(p), Requirement(N[j]))
      BY <1>1, <3>1, InTimeIsEarlier
    <3>3. p \in got /\ Receipt(p) \in events /\ Requirement(N[j]) \in seen
      BY <1>4, <1>9, <1>21 DEF asked, Asked
    <3>4. PICK i \in K : E[i] = Requirement(N[j])
      BY <1>14, <3>3
    <3>5. PICK i2 \in 1 .. m : E[i2] = Receipt(p)
      BY <1>3, <3>3
    <3>6. i2 < i
      BY <1>3, <1>10, <3>2, <3>4, <3>5
    <3>7. i2 <= k
      BY <1>3, <3>6
    <3>8. Receipt(p) \in seen
      BY <1>15, <3>3, <3>5, <3>7
    <3> QED BY <3>3, <3>8 DEF came, Came
  <2>3. \A p \in came : qty[p] \in Nat
    BY <1>4, <1>6, <1>8 DEF came, Came
  <2> HIDE DEF due
  <2>4. SumFunctionOnSet(qty, due) <= SumFunctionOnSet(qty, came)
    BY <1>16, <2>2, <2>3, SumOfPart
  <2>5. SumFunctionOnSet(qty, due) \in Nat
    BY <2>1, <2>2, <2>3, SumNat
  <2> QED BY <2>1, <2>4, <2>5
<1>23. PICK i \in 1 .. j : lines[i].shortage > 0
  <2> SUFFICES ASSUME \A i \in 1 .. j : ~(lines[i].shortage > 0) PROVE FALSE
    OBVIOUS
  <2>1. a <= stock + o
    <3>1. /\ IsDemand(rows) /\ stock \in Int /\ HandsOut(lines, InOrder(rows), Cardinality(rows), stock, pos, lead)
          /\ j \in 1 .. Cardinality(rows) /\ OrderedFor(pos, InOrder(rows)[j], lead) \in Int
          /\ asked \in SUBSET rows
      BY <1>1, <1>19, <1>21, <1>22 DEF N, n
    <3>2. \A r \in asked : \E i \in 1 .. j : InOrder(rows)[i] = r
      BY <1>21 DEF N
    <3>3. \A r \in rows : net[r] = NetRequired(r)
      BY <1>8
    <3>4. SumFunctionOnSet(net, asked) <= stock + OrderedFor(pos, InOrder(rows)[j], lead)
      BY <3>1, <3>2, <3>3, MetFromWhatThereIs
    <3> QED BY <3>4 DEF N
  <2> HIDE DEF a, c, o
  <2> QED BY <1>17, <1>22, <2>1
<1>24. i \in 1 .. n /\ (N[i] = N[j] \/ NettedBefore(N[i], N[j]))
  BY <1>1, <1>2, <1>21
<1>25. Requirement(N[j]) = E[k] \/ PeggedBefore(Requirement(N[j]), E[k])
  <2>1. Requirement(N[j]) \in seen
    BY <1>21 DEF asked, Asked
  <2>2. PICK x \in K : E[x] = Requirement(N[j])
    BY <1>14, <2>1
  <2> QED BY <1>3, <1>10, <2>2
<1> QED BY <1>21, <1>23, <1>24, <1>25 DEF E, events, lines, rows, N, n

(* The pegging view and the netting alarm for the same reasons: a balance  *)
(* below nought is a shortage that the netting reports, and no requirement *)
(* is shown in a better light than its job has in the netting.             *)
LEMMA AlarmsDoAgree ==
  ASSUME NEW site, SiteTables(site), NEW group \in DOMAIN site.lead,
         NEW material \in MaterialsOf(site, group)
  PROVE  AlarmsAgree(site, group, material)
<1> DEFINE events == PegEvents(site, group, material)
           E == Sorted(events, PeggedBefore)
           m == Cardinality(events)
           stock == StockOf(site, material)
           rows == RowsOf(site, group, material)
           lines == NettedLines(site, group, material)
           n == Cardinality(rows)
           N == InOrder(rows)
           pegged == Pegged(site, group, material)
           moved == [i \in 1 .. m |-> E[i].qty]
           said(k) == NettedStatus(site, group, material, E[k].job)
<1>1. m \in Nat /\ Balances(pegged, E, m, stock, site, group, material)
  BY PeggingRuns, Zenon
<1>2. /\ DOMAIN pegged = 1 .. m
      /\ \A k \in 1 .. m :
           /\ pegged[k].event = E[k]
           /\ (pegged[k].short <=> stock + SumFunctionOnSet(moved, 1 .. k) < 0)
           /\ (E[k].kind = "requirement" =>
                \E short, applied, any : pegged[k].status = PegStatus(said(k), short, applied, any))
  BY <1>1, Zenon DEF Balances
<1>3. IsDemand(rows) /\ n \in Nat /\ DOMAIN lines = 1 .. n /\ \A i \in 1 .. n : lines[i].row = N[i]
  <2>1. /\ IsDemand(rows) /\ IsSupply(Covering(site, material)) /\ stock \in Int /\ site.lead[group] \in Int
        /\ lines = Netted(rows, stock, Covering(site, material), site.lead[group])
    BY NettedFrom
  <2> HIDE DEF rows, stock, lines
  <2>2. n \in Nat /\ HandsOut(lines, N, n, stock, Covering(site, material), site.lead[group])
    BY <2>1, NettingRuns
  <2>3. lines = [i \in 1 .. n |-> lines[i]] /\ \A i \in 1 .. n : lines[i].row = N[i]
    BY <2>2, Zenon DEF HandsOut
  <2> HIDE DEF n, N
  <2>4. DOMAIN lines = 1 .. n
    BY <2>3
  <2> QED BY <2>1, <2>2, <2>3, <2>4
<1>4. /\ \A i \in 1 .. n : N[i] \in rows /\ N[i].material = material
      /\ \A r \in rows : r.due \in Int \cup {NoDate} /\ r.job \in Int /\ r.id \in Int
  <2>1. Orders(N, rows, RowOrder(rows))
    BY <1>3, RowsInOrder
  <2>2. N \in [1 .. n -> rows]
    <3> HIDE DEF N, rows
    <3> QED BY <2>1 DEF Orders
  <2>3. \A r \in rows : r.material = material
    BY DEF RowsOf
  <2> HIDE DEF N, rows, n
  <2> QED BY <1>3, <2>2, <2>3 DEF IsDemand
<1>5. \A k \in 1 .. m : /\ E[k] \in events
                        /\ E[k].due \in Int \cup {NoDate} /\ E[k].job \in Int /\ E[k].id \in Int
                        /\ E[k].rank \in {0, 1}
  <2>1. /\ \A e \in events : /\ e.due \in Int \cup {NoDate} /\ e.job \in Int /\ e.id \in Int
                              /\ (e.kind = "requirement" => e.rank = 1)
                              /\ (e.kind # "requirement" => e.rank = 0)
        /\ Orders(E, events, PegOrder(events))
    BY EventsInOrder, Zenon
  <2> HIDE DEF E, events
  <2>2. E \in [1 .. m -> events]
    BY <2>1 DEF Orders, m
  <2> HIDE DEF m
  <2> QED BY <2>1, <2>2
<1>6. ASSUME NEW k \in 1 .. m, pegged[k].short, stock >= 0
      PROVE  \E i \in 1 .. n : /\ lines[i].shortage > 0
                               /\ ~NettedBefore([due |-> E[k].due, job |-> E[k].job, id |-> E[k].id], N[i])
  <2>1. stock + SumFunctionOnSet(moved, 1 .. k) < 0
    BY <1>2, <1>6
  <2>2. PICK i \in 1 .. n, r \in rows :
          /\ lines[i].shortage > 0
          /\ N[i] = r \/ NettedBefore(N[i], r)
          /\ Requirement(r) = E[k] \/ PeggedBefore(Requirement(r), E[k])
    BY <1>6, <2>1, ShortageIsNetted, Zenon
  <2>3. /\ Requirement(r).due = r.due /\ Requirement(r).job = r.job
        /\ Requirement(r).id = r.id /\ Requirement(r).rank = 1
    BY DEF Requirement
  <2> DEFINE e == E[k]   at == [due |-> e.due, job |-> e.job, id |-> e.id]   a == N[i]
  <2>4. at.due = e.due /\ at.job = e.job /\ at.id = e.id
    OBVIOUS
  <2>5. /\ e.due \in Int \cup {NoDate} /\ e.job \in Int /\ e.id \in Int /\ e.rank \in {0, 1}
        /\ a.due \in Int \cup {NoDate} /\ a.job \in Int /\ a.id \in Int
        /\ r.due \in Int \cup {NoDate} /\ r.job \in Int /\ r.id \in Int
    <3> HIDE DEF E, m, n, N, rows
    <3> QED BY <1>4, <1>5
  <2>6. a = r \/ NettedBefore(a, r)
    BY <2>2
  <2>7. Requirement(r) = e \/ PeggedBefore(Requirement(r), e)
    BY <2>2
  <2> HIDE DEF e, at, a
  <2>8. (e.due = r.due /\ e.job = r.job /\ e.id = r.id) \/ NettedBefore(r, at) \/ (e.due # r.due /\ IsBefore(r.due, e.due))
    BY <2>3, <2>4, <2>5, <2>7 DEF PeggedBefore, NettedBefore
  <2>9. ~NettedBefore(at, a)
    BY <2>4, <2>5, <2>6, <2>8 DEF NettedBefore, IsBefore
  <2> QED BY <2>2, <2>9 DEF at, e, a
<1>7. ASSUME NEW k \in 1 .. m, E[k].kind = "requirement", NEW i \in 1 .. n, lines[i].row.job = E[k].job
      PROVE  Priority[RowStatus(lines[i])] <= Priority[pegged[k].status]
  <2> DEFINE shown == {RowStatus(l) : l \in {x \in ReportRows(site, group) :
                                              x.row.material = material /\ x.row.job = E[k].job}}
  <2>1. lines[i] \in ReportRows(site, group)
    <3>1. lines[i] \in ToSet(lines)
      <4> HIDE DEF lines, n
      <4> QED BY <1>3 DEF ToSet
    <3> QED BY <3>1 DEF ReportRows
  <2>2. RowStatus(lines[i]) \in shown
    <3> HIDE DEF lines, n, N, E
    <3> QED BY <1>3, <1>4, <1>7, <2>1
  <2>3. shown \in SUBSET DOMAIN Priority /\ "no_data" \in DOMAIN Priority
    <3>1. \A x \in shown : x \in DOMAIN Priority
      BY RowStatusIs
    <3> HIDE DEF shown
    <3> QED BY <3>1 DEF Priority
  <2>4. said(k) = Worst(shown, "no_data")
    BY Zenon DEF NettedStatus
  <2> HIDE DEF shown, said
  <2>5. said(k) \in DOMAIN Priority /\ Priority[RowStatus(lines[i])] <= Priority[said(k)]
    <3> HIDE DEF lines
    <3> QED BY <2>2, <2>3, <2>4, WorstIs
  <2>6. PICK short, applied, any : pegged[k].status = PegStatus(said(k), short, applied, any)
    BY <1>2, <1>7, Zenon
  <2>7. Priority[said(k)] <= Priority[pegged[k].status]
    <3> HIDE DEF pegged
    <3> QED BY <2>5, <2>6, PegStatusIs
  <2>8. PegStatus(said(k), short, applied, any) \in DOMAIN Priority
    BY <2>5, PegStatusIs
  <2> DEFINE x == Priority[RowStatus(lines[i])]  y == Priority[said(k)]  z == Priority[pegged[k].status]
  <2>9. x \in Int /\ y \in Int /\ z \in Int /\ x <= y /\ y <= z
    <3>1. \A s \in DOMAIN Priority : Priority[s] \in Int
      BY DEF Priority
    <3> HIDE DEF lines, pegged
    <3> QED BY <2>2, <2>3, <2>5, <2>6, <2>7, <2>8, <3>1
  <2> HIDE DEF x, y, z
  <2>10. x <= z
    BY <2>9
  <2> QED BY <2>10 DEF x, z
<1>8. /\ \A k \in 1 .. m : pegged[k].short /\ stock >= 0 =>
           \E i \in 1 .. n : /\ lines[i].shortage > 0
                             /\ ~NettedBefore([due |-> pegged[k].event.due, job |-> pegged[k].event.job,
                                               id |-> pegged[k].event.id], lines[i].row)
      /\ \A k \in 1 .. m : pegged[k].event.kind = "requirement" =>
           \A i \in 1 .. n : lines[i].row.job = pegged[k].event.job =>
             Priority[RowStatus(lines[i])] <= Priority[pegged[k].status]
  <2> HIDE DEF pegged, lines, E, m, n, N, stock
  <2> QED BY <1>2, <1>3, <1>6, <1>7, Zenon
<1> HIDE DEF m, n, E, N, moved, rows, events
<1> QED BY <1>2, <1>3, <1>8, Zenon DEF AlarmsAgree

(* netting.py and pegging.py, for any requirements, releases and stock.    *)
THEOREM NettingIsSound ==
  ASSUME NEW site, SiteTables(site)
  PROVE  NettingSoundFor(site)
BY AllocationIsSound, AlarmsDoAgree DEF NettingSoundFor

(* The page of a material that is open shows tables as they can be.        *)
NettingPage == On("materials") => SiteTables(page.in)

(* The bounded tables are such tables.                                     *)
LEMMA NettingInputs == \A site \in Sites : SiteTables(site)
<1> SUFFICES ASSUME NEW site \in Sites PROVE SiteTables(site)
  OBVIOUS
<1>1. PICK n, due, job, d1, q, m, d3, stock :
        /\ n \in [1 .. 3 -> 0 .. 2] /\ due \in {1, 3, NoDate} /\ job \in 1 .. 2 /\ d1 \in {-1, 1, 2}
        /\ q \in 1 .. 2 /\ d3 \in {1, NoDate} /\ stock \in -1 .. 1
        /\ site = Site(n, due, job, d1, q, m, d3, stock)
  <2> DEFINE A == [1 .. 3 -> 0 .. 2]   B == {1, 3, NoDate}   C == {-1, 1, 2}   D == {1, NoDate}
             M == {"m1", "m2"}
             F == 1 .. 2   G == -1 .. 1
  <2>1. site \in {Site(n, due, job, d1, q, m, d3, stock) :
                    n \in A, due \in B, job \in F, d1 \in C, q \in F, m \in M, d3 \in D, stock \in G}
    BY DEF Sites
  <2> HIDE DEF A, B, C, D, F, G, M
  <2>2. \E n, due, job, d1, q, m, d3, stock :
          /\ n \in A /\ due \in B /\ job \in F /\ d1 \in C /\ q \in F /\ d3 \in D /\ stock \in G
          /\ site = Site(n, due, job, d1, q, m, d3, stock)
    BY <2>1
  <2> QED BY <2>2 DEF A, B, C, D, F, G
<1> DEFINE r1 == ReqRow(1, "m1", 1, 1, n[1])   r2 == ReqRow(2, "m1", 2, due, n[2])
           r3 == ReqRow(3, "m2", job, 2, n[3])
           p1 == Po(1, "m1", d1, q, "s1", "Smith")
           p2 == IF m = "m1" THEN Po(2, m, 2, 1, "s1", "Smith") ELSE Po(2, m, 2, 1, None, None)
           p3 == Po(3, "m2", d3, 2, "s2", IF job = 1 THEN "Jones" ELSE None)
           s1 == [material |-> "m1", usable |-> stock]
<1>2. /\ site.rows = {r1, r2, r3} /\ site.pos = {p1, p2, p3} /\ site.stock = {s1}
      /\ site.lead = [fabric |-> 1, component |-> 0]
  BY <1>1 DEF Site
<1>3. \A S, x, y, z : S = {x} \/ S = {x, y, z} => IsFiniteSet(S)
  <2> SUFFICES ASSUME NEW S, NEW x, NEW y, NEW z, S = {x} \/ S = {x, y, z} PROVE IsFiniteSet(S)
    OBVIOUS
  <2>1. IsFiniteSet({x})
    BY FS_Singleton
  <2>2. IsFiniteSet({x} \cup {y})
    BY <2>1, FS_AddElement
  <2>3. IsFiniteSet(({x} \cup {y}) \cup {z})
    BY <2>2, FS_AddElement
  <2>4. ({x} \cup {y}) \cup {z} = {x, y, z}
    OBVIOUS
  <2> QED BY <2>1, <2>3, <2>4, Zenon
<1>4. /\ r1.due = 1 /\ r2.due = due /\ r3.due = 2 /\ r1.job = 1 /\ r2.job = 2 /\ r3.job = job
      /\ r1.id = 1 /\ r2.id = 2 /\ r3.id = 3
      /\ r1.required = n[1] + 1 /\ r2.required = n[2] + 1 /\ r3.required = n[3] + 1
      /\ r1.issued = 1 /\ r2.issued = 1 /\ r3.issued = 1
  BY DEF ReqRow
<1>5. /\ p1.due = d1 /\ p2.due = 2 /\ p3.due = d3 /\ p1.qty = q /\ p2.qty = 1 /\ p3.qty = 2
      /\ p1.id = 1 /\ p2.id = 2 /\ p3.id = 3
      /\ p1.value \in Int /\ p2.value \in Int /\ p3.value \in Int
  BY DEF Po
<1>6. s1.usable = stock
  OBVIOUS
<1> HIDE DEF r1, r2, r3, p1, p2, p3, s1
<1>7. due \in Int \cup {NoDate} /\ job \in Int /\ n[1] \in Int /\ n[2] \in Int /\ n[3] \in Int
      /\ d1 \in Int /\ q \in Int /\ d3 \in Int \cup {NoDate} /\ stock \in Int
  BY <1>1
<1>8. IsDemand(site.rows)
  <2>1. IsFiniteSet(site.rows)
    BY <1>2, <1>3, Zenon
  <2>2. \A r \in site.rows : /\ r.due \in Int \cup {NoDate} /\ r.job \in Int /\ r.id \in Int
                              /\ r.required \in Int /\ r.issued \in Int
    BY <1>2, <1>4, <1>7
  <2>3. \A r, x \in site.rows : r.id = x.id => r = x
    BY <1>2, <1>4
  <2> QED BY <2>1, <2>2, <2>3 DEF IsDemand
<1>9. /\ IsFiniteSet(site.pos) /\ IsFiniteSet(site.stock)
      /\ \A p \in site.pos : /\ p.qty \in Int /\ p.due \in Int \cup {NoDate} /\ p.id \in Int
                              /\ p.value \in Int
      /\ \A p, x \in site.pos : p.id = x.id => p = x
      /\ \A s \in site.stock : s.usable \in Int
  <2>1. IsFiniteSet(site.pos) /\ IsFiniteSet(site.stock)
    BY <1>2, <1>3, Zenon
  <2>2. \A p \in site.pos : /\ p.qty \in Int /\ p.due \in Int \cup {NoDate} /\ p.id \in Int
                             /\ p.value \in Int
    BY <1>2, <1>5, <1>7
  <2>3. \A p, x \in site.pos : p.id = x.id => p = x
    BY <1>2, <1>5
  <2> QED BY <1>2, <1>6, <1>7, <2>1, <2>2, <2>3
<1>10. \A group \in DOMAIN site.lead : site.lead[group] \in Nat
  BY <1>2
<1> QED BY <1>8, <1>9, <1>10 DEF SiteTables

(* netting.py and pegging.py: on every page of a material no stock and no  *)
(* release is promised twice, and the balance alarms as the netting does.  *)
THEOREM NettingStands == PagesSpec => []NettingSound
<1>1. NoPage => NettingPage
  BY DEF NoPage, NettingPage, On
<1>2. NettingPage /\ [OpenPage]_page => NettingPage'
  <2> SUFFICES ASSUME NettingPage, OpenPage PROVE NettingPage'
    BY DEF NettingPage, On
  <2>1. CASE OpenMaterials
    <3>1. PICK site \in Sites : page' = [kind |-> "materials", in |-> site]
      BY <2>1 DEF OpenMaterials, Open
    <3>2. page'.in = site
      BY <3>1
    <3> QED BY <3>2, NettingInputs DEF NettingPage
  <2>2. CASE ~OpenMaterials
    <3>1. page'.kind # "materials"
      BY <2>2 DEF OpenPage, OpenSales, OpenMonths, OpenFloor, OpenOutput, OpenBoard, OpenTransport,
         OpenBay, Open
    <3> QED BY <3>1 DEF NettingPage, On
  <2> QED BY <2>1, <2>2
<1>3. NettingPage => NettingSound
  BY NettingIsSound DEF NettingPage, NettingSound
<1> QED BY <1>1, <1>2, <1>3, PTL DEF PagesSpec

-----------------------------------------------------------------------------
(***************************************************************************)
(* What if more is released.  Two nettings of the same requirements, with  *)
(* fewer and with more releases, run side by side: the stock goes the same *)
(* way, and at every requirement the second has used at least as much of   *)
(* the releases, and at most what the extra ones bring in time more.       *)
(***************************************************************************)
Splits(more, pos, lead, r) ==
  /\ OrderedFor(pos, r, lead) \in Nat
  /\ OrderedFor(more \ pos, r, lead) \in Nat
  /\ OrderedFor(more, r, lead) = OrderedFor(pos, r, lead) + OrderedFor(more \ pos, r, lead)
  /\ (OrderedFor(more \ pos, r, lead) # 0 => \E po \in more \ pos : InTimeFor(po, r, lead))

(* What is ordered of two lots is what is ordered of each; something in    *)
(* time is in the lot, if something of it counts.                          *)
LEMMA OrderedOfBoth ==
  ASSUME NEW more, IsSupply(more), NEW pos \in SUBSET more, NEW lead \in Int, NEW r
  PROVE  /\ IsSupply(pos) /\ IsSupply(more \ pos)
         /\ Splits(more, pos, lead, r)
<1> DEFINE rest == more \ pos
           qty == [po \in more |-> po.qty]
           due(S) == {po \in S : InTimeFor(po, r, lead)}
<1>1. IsSupply(pos) /\ IsSupply(rest)
  <2>1. IsFiniteSet(pos) /\ IsFiniteSet(rest)
    BY FS_Subset DEF IsSupply
  <2> QED BY <2>1 DEF IsSupply
<1>2. \A po \in more : qty[po] = po.qty /\ qty[po] \in Nat /\ qty[po] \in Int
  BY DEF IsSupply
<1>3. pos \in SUBSET more /\ rest \in SUBSET more /\ pos \cap rest = {} /\ pos \cup rest = more
  OBVIOUS
<1> HIDE DEF qty, rest
<1>4. \A S \in SUBSET more : IsSupply(S) =>
        IsFiniteSet(due(S)) /\ OrderedFor(S, r, lead) = SumFunctionOnSet(qty, due(S))
  <2> SUFFICES ASSUME NEW S \in SUBSET more, IsSupply(S)
               PROVE  IsFiniteSet(due(S)) /\ OrderedFor(S, r, lead) = SumFunctionOnSet(qty, due(S))
    OBVIOUS
  <2>1. \A po \in S : qty[po] = po.qty
    BY <1>2
  <2> QED BY <2>1, OrderedIs
<1>5. /\ due(more) = due(pos) \cup due(rest) /\ due(pos) \cap due(rest) = {}
      /\ due(pos) \in SUBSET more /\ due(rest) \in SUBSET more
  BY <1>3
<1>6. /\ IsFiniteSet(due(pos)) /\ OrderedFor(pos, r, lead) = SumFunctionOnSet(qty, due(pos))
      /\ IsFiniteSet(due(rest)) /\ OrderedFor(rest, r, lead) = SumFunctionOnSet(qty, due(rest))
      /\ OrderedFor(more, r, lead) = SumFunctionOnSet(qty, due(more))
  <2> HIDE DEF due
  <2> QED BY <1>1, <1>3, <1>4
<1>7. due(rest) = {} \/ \E po \in rest : InTimeFor(po, r, lead)
  OBVIOUS
<1> HIDE DEF due
<1>8. (\A po \in due(pos) : qty[po] \in Nat) /\ (\A po \in due(rest) : qty[po] \in Nat)
  BY <1>2, <1>5
<1>9. SumFunctionOnSet(qty, due(pos)) \in Nat /\ SumFunctionOnSet(qty, due(rest)) \in Nat
  BY <1>6, <1>8, SumNat
<1>10. \A po \in due(pos) \cup due(rest) : qty[po] \in Int
  BY <1>2, <1>5
<1>11. SumFunctionOnSet(qty, due(pos) \cup due(rest))
         = SumFunctionOnSet(qty, due(pos)) + SumFunctionOnSet(qty, due(rest))
  BY <1>5, <1>6, <1>10, SumUnion
<1>12. due(rest) = {} => SumFunctionOnSet(qty, due(rest)) = 0
  BY SumOfNone
<1> QED BY <1>1, <1>5, <1>6, <1>7, <1>9, <1>11, <1>12 DEF rest, Splits

(* One requirement, with less and with more ordered for it.                *)
LEMMA StepCompared ==
  ASSUME NEW less \in Int, NEW more \in Int, NEW o \in Int, NEW before \in Int, NEW d \in Int,
         NEW e \in Int, less <= more, more <= less + before, 0 <= before, before <= d
  PROVE  LET a == LeastOf(e, o - less)   b == LeastOf(e, o + d - more) IN
         /\ a <= b /\ less + a <= more + b /\ more + b <= less + a + d /\ (a < b => d > 0)
BY DEF LeastOf

(* The shortages of two nettings of the same requirements: no greater in   *)
(* the second, and smaller only where one of the extra releases is in time.*)
Relieved(a, b, order, n, extra, lead) ==
  \A k \in 1 .. n :
    /\ a[k].row = order[k] /\ b[k].row = order[k]
    /\ a[k].shortage \in Nat /\ b[k].shortage \in Nat /\ b[k].shortage <= a[k].shortage
    /\ (b[k].shortage # a[k].shortage => \E po \in extra : InTimeFor(po, order[k], lead))

(* Netting with more releases leaves no requirement shorter than before.   *)
LEMMA MoreRelieves ==
  ASSUME NEW rows, IsDemand(rows), NEW more, IsSupply(more), NEW pos \in SUBSET more,
         NEW stock \in Int, NEW lead \in Int
  PROVE  Relieved(Netted(rows, stock, pos, lead), Netted(rows, stock, more, lead),
                  InOrder(rows), Cardinality(rows), more \ pos, lead)
<1> DEFINE a == Netted(rows, stock, pos, lead)
           b == Netted(rows, stock, more, lead)
           order == InOrder(rows)
           n == Cardinality(rows)
           extra == more \ pos
           au == [i \in 1 .. n |-> a[i].stockUsed]   bu == [i \in 1 .. n |-> b[i].stockUsed]
           at == [i \in 1 .. n |-> a[i].poUsed]      bt == [i \in 1 .. n |-> b[i].poUsed]
           AU(k) == SumFunctionOnSet(au, 1 .. k)     BU(k) == SumFunctionOnSet(bu, 1 .. k)
           AT(k) == SumFunctionOnSet(at, 1 .. k)     BT(k) == SumFunctionOnSet(bt, 1 .. k)
           o(k) == OrderedFor(pos, order[k], lead)
           p(k) == OrderedFor(more, order[k], lead)
           d(k) == OrderedFor(extra, order[k], lead)
           upto(k) == IF k = 0 THEN 0 ELSE d(k)
           Good == {k \in Nat : k <= n =>
                      AU(k) = BU(k) /\ AT(k) <= BT(k) /\ BT(k) <= AT(k) + upto(k)}
<1>1. IsSupply(pos) /\ IsSupply(extra)
  BY OrderedOfBoth
<1>2. /\ n \in Nat
      /\ HandsOut(a, order, n, stock, pos, lead) /\ HandsOut(b, order, n, stock, more, lead)
  BY <1>1, NettingRuns
<1>3. /\ \A k \in 1 .. n : order[k] \in rows
      /\ \A i, j \in 1 .. n : i < j => NettedBefore(order[i], order[j])
  <2>1. /\ Orders(order, rows, RowOrder(rows))
        /\ \A x, y \in rows : <<x, y>> \in RowOrder(rows) <=> NettedBefore(x, y)
    BY RowsInOrder
  <2> HIDE DEF order, n
  <2>2. /\ order \in [1 .. n -> rows]
        /\ \A i, j \in 1 .. n : i < j => <<order[i], order[j]>> \in RowOrder(rows)
    BY <2>1 DEF Orders, n
  <2> QED BY <2>1, <2>2
<1>4. ASSUME NEW k \in 1 .. n
      PROVE  /\ o(k) \in Nat /\ d(k) \in Nat /\ p(k) = o(k) + d(k)
             /\ (d(k) # 0 => \E po \in extra : InTimeFor(po, order[k], lead))
  <2> DEFINE r == order[k]
  <2> HIDE DEF r
  <2>1. Splits(more, pos, lead, r)
    BY OrderedOfBoth
  <2> QED BY <2>1 DEF r, Splits
<1>5. \A k \in 1 .. n : k > 1 => d(k - 1) <= d(k)
  <2>1. \A k \in 1 .. n : k > 1 => k - 1 \in 1 .. n /\ k - 1 < k
    BY <1>2
  <2> HIDE DEF order, n, extra
  <2>2. \A x, y \in rows : y.due = x.due \/ NettedBefore(x, y) =>
          OrderedFor(extra, x, lead) <= OrderedFor(extra, y, lead)
    BY <1>1, MoreInTime
  <2> QED BY <1>3, <2>1, <2>2
<1> HIDE DEF a, b, order, n, o, p, d
<1>6. \A k \in 1 .. n :
        /\ a[k].row = order[k] /\ a[k].net = NetRequired(order[k])
        /\ a[k].stockUsed \in Int /\ a[k].poUsed \in Int /\ a[k].shortage \in Nat
        /\ a[k].stockUsed + a[k].poUsed + a[k].shortage = a[k].net
        /\ a[k].stockUsed = LeastOf(stock - AU(k - 1), a[k].net)
        /\ a[k].poUsed = LeastOf(a[k].net - a[k].stockUsed, o(k) - AT(k - 1))
  <2>1. \A k \in 1 .. n :
        /\ a[k].row = order[k] /\ a[k].net = NetRequired(order[k])
        /\ a[k].stockUsed \in Int /\ a[k].poUsed \in Nat /\ a[k].shortage \in Nat
        /\ a[k].stockUsed + a[k].poUsed + a[k].shortage = a[k].net
        /\ a[k].stockUsed = LeastOf(stock - AU(k - 1), a[k].net)
        /\ a[k].poUsed = LeastOf(a[k].net - a[k].stockUsed, o(k) - AT(k - 1))
    BY <1>2, Zenon DEF HandsOut, o
  <2> HIDE DEF AU, AT
  <2> QED BY <2>1
<1>7. \A k \in 1 .. n :
        /\ b[k].row = order[k] /\ b[k].net = NetRequired(order[k])
        /\ b[k].stockUsed \in Int /\ b[k].poUsed \in Int /\ b[k].shortage \in Nat
        /\ b[k].stockUsed + b[k].poUsed + b[k].shortage = b[k].net
        /\ b[k].stockUsed = LeastOf(stock - BU(k - 1), b[k].net)
        /\ b[k].poUsed = LeastOf(b[k].net - b[k].stockUsed, p(k) - BT(k - 1))
  <2>1. \A k \in 1 .. n :
        /\ b[k].row = order[k] /\ b[k].net = NetRequired(order[k])
        /\ b[k].stockUsed \in Int /\ b[k].poUsed \in Nat /\ b[k].shortage \in Nat
        /\ b[k].stockUsed + b[k].poUsed + b[k].shortage = b[k].net
        /\ b[k].stockUsed = LeastOf(stock - BU(k - 1), b[k].net)
        /\ b[k].poUsed = LeastOf(b[k].net - b[k].stockUsed, p(k) - BT(k - 1))
    BY <1>2, Zenon DEF HandsOut, p
  <2> HIDE DEF BU, BT
  <2> QED BY <2>1
<1>8. \A k \in 1 .. n : /\ au[k] = a[k].stockUsed /\ at[k] = a[k].poUsed
                        /\ bu[k] = b[k].stockUsed /\ bt[k] = b[k].poUsed
                        /\ au[k] \in Int /\ at[k] \in Int /\ bu[k] \in Int /\ bt[k] \in Int
  BY <1>6, <1>7
<1> HIDE DEF au, at, bu, bt
<1>9. /\ AU(0) = 0 /\ AT(0) = 0 /\ BU(0) = 0 /\ BT(0) = 0
      /\ \A k \in 0 .. n : AU(k) \in Int /\ AT(k) \in Int /\ BU(k) \in Int /\ BT(k) \in Int
      /\ \A k \in 1 .. n : /\ AU(k) = AU(k - 1) + au[k] /\ AT(k) = AT(k - 1) + at[k]
                           /\ BU(k) = BU(k - 1) + bu[k] /\ BT(k) = BT(k - 1) + bt[k]
  BY <1>2, <1>8, UpToIs
<1> HIDE DEF AU, AT, BU, BT
<1>10. \A k \in 1 .. n : upto(k - 1) \in Nat /\ upto(k - 1) <= d(k)
  BY <1>2, <1>4, <1>5
(* From one requirement to the next.                                       *)
<1>11. ASSUME NEW k \in 1 .. n, AU(k - 1) = BU(k - 1), AT(k - 1) <= BT(k - 1),
              BT(k - 1) <= AT(k - 1) + upto(k - 1)
       PROVE  /\ AU(k) = BU(k) /\ AT(k) <= BT(k) /\ BT(k) <= AT(k) + d(k)
              /\ b[k].shortage <= a[k].shortage
              /\ (b[k].shortage # a[k].shortage => d(k) # 0)
  <2>1. a[k].stockUsed = b[k].stockUsed /\ a[k].net = b[k].net
    BY <1>6, <1>7, <1>11
  <2> DEFINE e == a[k].net - a[k].stockUsed
             u == upto(k - 1)
  <2>2. k - 1 \in 0 .. n /\ e \in Int /\ u \in Nat /\ u <= d(k) /\ o(k) \in Nat /\ d(k) \in Nat
    BY <1>2, <1>4, <1>6, <1>10
  <2>3. /\ a[k].poUsed = LeastOf(e, o(k) - AT(k - 1))
        /\ b[k].poUsed = LeastOf(e, o(k) + d(k) - BT(k - 1))
    <3>1. p(k) = o(k) + d(k)
      BY <1>4
    <3>2. /\ a[k].poUsed = LeastOf(e, o(k) - AT(k - 1))
          /\ b[k].poUsed = LeastOf(b[k].net - b[k].stockUsed, p(k) - BT(k - 1))
      BY <1>6, <1>7
    <3>3. b[k].net - b[k].stockUsed = e
      BY <2>1
    <3> HIDE DEF e
    <3>4. b[k].poUsed = LeastOf(e, p(k) - BT(k - 1))
      BY <3>2, <3>3, Zenon
    <3>5. b[k].poUsed = LeastOf(e, o(k) + d(k) - BT(k - 1))
      <4> DEFINE gone == BT(k - 1)
      <4>1. gone \in Int /\ o(k) \in Int /\ d(k) \in Int /\ p(k) \in Int
        BY <1>4, <1>9, <2>2, <3>1
      <4>2. p(k) - gone = o(k) + d(k) - gone
        BY <3>1, <4>1
      <4>3. b[k].poUsed = LeastOf(e, p(k) - gone)
        BY <3>4
      <4> QED BY <4>2, <4>3, Zenon
    <3> QED BY <3>2, <3>5, Zenon
  <2>4. AT(k - 1) \in Int /\ BT(k - 1) \in Int /\ AU(k - 1) \in Int
    BY <1>9, <2>2
  <2>5. /\ a[k].poUsed <= b[k].poUsed /\ AT(k - 1) + a[k].poUsed <= BT(k - 1) + b[k].poUsed
        /\ BT(k - 1) + b[k].poUsed <= AT(k - 1) + a[k].poUsed + d(k)
        /\ (a[k].poUsed < b[k].poUsed => d(k) > 0)
    <3> DEFINE less == AT(k - 1)
               mm == BT(k - 1)
               ok == o(k)
               dk == d(k)
    <3>1. /\ less \in Int /\ mm \in Int /\ ok \in Int /\ u \in Int /\ dk \in Int /\ e \in Int
          /\ less <= mm /\ mm <= less + u /\ 0 <= u /\ u <= dk
      BY <1>11, <2>2, <2>4
    <3>2. a[k].poUsed = LeastOf(e, ok - less) /\ b[k].poUsed = LeastOf(e, ok + dk - mm)
      BY <2>3
    <3>3. dk = d(k) /\ less = AT(k - 1) /\ mm = BT(k - 1)
      OBVIOUS
    <3> HIDE DEF e, u, less, mm, ok, dk
    <3>4. LET x == LeastOf(e, ok - less)   y == LeastOf(e, ok + dk - mm) IN
          /\ x <= y /\ less + x <= mm + y /\ mm + y <= less + x + dk /\ (x < y => dk > 0)
      BY <3>1, StepCompared
    <3> QED BY <3>2, <3>3, <3>4
  <2>6. /\ AU(k) = BU(k) /\ AT(k) = AT(k - 1) + a[k].poUsed /\ BT(k) = BT(k - 1) + b[k].poUsed
    BY <1>8, <1>9, <1>11, <2>1
  <2>7. /\ a[k].shortage = e - a[k].poUsed /\ b[k].shortage = e - b[k].poUsed
        /\ a[k].poUsed \in Int /\ b[k].poUsed \in Int
    BY <1>6, <1>7, <2>1
  <2> HIDE DEF e, u, upto
  <2> QED BY <2>2, <2>5, <2>6, <2>7
<1>12. 0 \in Good
  BY <1>9
<1>13. ASSUME NEW k \in Nat, k \in Good PROVE k + 1 \in Good
  <2> SUFFICES ASSUME k + 1 <= n
               PROVE  /\ AU(k + 1) = BU(k + 1) /\ AT(k + 1) <= BT(k + 1)
                      /\ BT(k + 1) <= AT(k + 1) + upto(k + 1)
    OBVIOUS
  <2>1. k + 1 \in 1 .. n /\ (k + 1) - 1 = k /\ k <= n /\ k + 1 # 0
    BY <1>2
  <2>2. AU(k) = BU(k) /\ AT(k) <= BT(k) /\ BT(k) <= AT(k) + upto(k)
    BY <1>13, <2>1
  <2> QED BY <1>11, <2>1, <2>2
<1>14. \A k \in Nat : k \in Good
  <2> HIDE DEF Good
  <2> QED BY <1>12, <1>13, StepByStep
<1>15. ASSUME NEW k \in 1 .. n
       PROVE  /\ b[k].shortage <= a[k].shortage
              /\ (b[k].shortage # a[k].shortage => d(k) # 0)
  <2>1. k - 1 \in Nat /\ k - 1 <= n
    BY <1>2
  <2>2. AU(k - 1) = BU(k - 1) /\ AT(k - 1) <= BT(k - 1) /\ BT(k - 1) <= AT(k - 1) + upto(k - 1)
    BY <1>14, <2>1
  <2> HIDE DEF upto, Good
  <2> QED BY <1>11, <2>2
<1>16. \A k \in 1 .. n :
         /\ a[k].row = order[k] /\ b[k].row = order[k]
         /\ a[k].shortage \in Nat /\ b[k].shortage \in Nat /\ b[k].shortage <= a[k].shortage
         /\ (b[k].shortage # a[k].shortage => \E po \in extra : InTimeFor(po, order[k], lead))
  BY <1>4, <1>6, <1>7, <1>15
<1> QED BY <1>16 DEF Relieved, a, b, order, n

(* The lines of a netting: one for every requirement.                      *)
Lists(lines, rows) ==
  /\ \A l \in lines : l.row \in rows /\ l.shortage \in Nat
  /\ \A r \in rows : \E l \in lines : l.row = r
  /\ \A l, m \in lines : l.row = m.row => l = m
ShortOn(lines, r) == (CHOOSE l \in lines : l.row = r).shortage

LEMMA OnItsLine ==
  ASSUME NEW lines, NEW rows, Lists(lines, rows)
  PROVE  /\ \A l \in lines : ShortOn(lines, l.row) = l.shortage
         /\ \A r \in rows : /\ ShortOn(lines, r) \in Nat
                            /\ \E l \in lines : l.row = r /\ l.shortage = ShortOn(lines, r)
<1>1. ASSUME NEW l \in lines PROVE ShortOn(lines, l.row) = l.shortage
  <2> DEFINE m == CHOOSE x \in lines : x.row = l.row
  <2>1. m \in lines /\ m.row = l.row
    OBVIOUS
  <2> HIDE DEF m
  <2>2. m = l
    BY <2>1 DEF Lists
  <2> QED BY <2>2 DEF ShortOn, m
<1>2. ASSUME NEW r \in rows
      PROVE  /\ ShortOn(lines, r) \in Nat
             /\ \E l \in lines : l.row = r /\ l.shortage = ShortOn(lines, r)
  <2>1. PICK l \in lines : l.row = r
    BY DEF Lists
  <2>2. ShortOn(lines, r) = l.shortage /\ l.shortage \in Nat
    BY <1>1, <2>1 DEF Lists
  <2> QED BY <2>1, <2>2
<1> QED BY <1>1, <1>2

LEMMA NettedLists ==
  ASSUME NEW rows, IsDemand(rows), NEW pos, IsSupply(pos), NEW stock \in Int, NEW lead \in Int
  PROVE  /\ Lists(ToSet(Netted(rows, stock, pos, lead)), rows)
         /\ \A k \in 1 .. Cardinality(rows) :
              ShortOn(ToSet(Netted(rows, stock, pos, lead)), InOrder(rows)[k])
                = Netted(rows, stock, pos, lead)[k].shortage
<1> DEFINE lines == Netted(rows, stock, pos, lead)
           order == InOrder(rows)
           n == Cardinality(rows)
           S == ToSet(lines)
<1>1. n \in Nat /\ HandsOut(lines, order, n, stock, pos, lead)
  BY NettingRuns
<1>2. Orders(order, rows, RowOrder(rows))
  BY RowsInOrder
<1> HIDE DEF lines, order, n
<1>3. /\ lines = [i \in 1 .. n |-> lines[i]]
      /\ \A k \in 1 .. n : lines[k].row = order[k] /\ lines[k].shortage \in Nat
  BY <1>1 DEF HandsOut
<1>4. DOMAIN lines = 1 .. n
  BY <1>3
<1>5. S = {lines[k] : k \in 1 .. n}
  BY <1>4 DEF ToSet
<1>6. /\ order \in [1 .. n -> rows] /\ \A x \in rows : \E k \in 1 .. n : order[k] = x
      /\ \A i, j \in 1 .. n : i < j <=> <<order[i], order[j]>> \in RowOrder(rows)
  BY <1>2 DEF Orders, n
<1>7. \A i, j \in 1 .. n : order[i] = order[j] => i = j
  <2> SUFFICES ASSUME NEW i \in 1 .. n, NEW j \in 1 .. n, order[i] = order[j] PROVE i = j
    OBVIOUS
  <2>1. /\ (i < j <=> <<order[i], order[j]>> \in RowOrder(rows))
        /\ (j < i <=> <<order[j], order[i]>> \in RowOrder(rows))
        /\ (i < i <=> <<order[i], order[i]>> \in RowOrder(rows))
    BY <1>6
  <2>2. ~(i < j) /\ ~(j < i)
    BY <2>1
  <2> QED BY <2>2
<1> HIDE DEF S
<1>8. Lists(S, rows)
  <2>1. \A l \in S : l.row \in rows /\ l.shortage \in Nat
    BY <1>3, <1>5, <1>6
  <2>2. \A r \in rows : \E l \in S : l.row = r
    BY <1>3, <1>5, <1>6
  <2>3. \A l, m \in S : l.row = m.row => l = m
    BY <1>3, <1>5, <1>7
  <2> QED BY <2>1, <2>2, <2>3 DEF Lists
<1>9. ASSUME NEW k \in 1 .. n PROVE ShortOn(S, order[k]) = lines[k].shortage
  <2>1. lines[k] \in S /\ lines[k].row = order[k]
    BY <1>3, <1>5
  <2> QED BY <1>8, <2>1, OnItsLine
<1> QED BY <1>8, <1>9 DEF S, lines, order, n

(* Row by row: more releases leave no row shorter, and relieve only those  *)
(* that one of them reaches in time.                                       *)
LEMMA RowsRelieved ==
  ASSUME NEW rows, IsDemand(rows), NEW more, IsSupply(more), NEW pos \in SUBSET more,
         NEW stock \in Int, NEW lead \in Int, NEW r \in rows
  PROVE  LET a == ShortOn(ToSet(Netted(rows, stock, pos, lead)), r)
             b == ShortOn(ToSet(Netted(rows, stock, more, lead)), r)
         IN  b <= a /\ (b # a => \E po \in more \ pos : InTimeFor(po, r, lead))
<1> DEFINE a == Netted(rows, stock, pos, lead)
           b == Netted(rows, stock, more, lead)
           order == InOrder(rows)
           n == Cardinality(rows)
           extra == more \ pos
<1>1. IsSupply(pos)
  BY OrderedOfBoth
<1>2. PICK k \in 1 .. n : order[k] = r
  <2>1. Orders(order, rows, RowOrder(rows))
    BY RowsInOrder
  <2> HIDE DEF order
  <2> QED BY <2>1 DEF Orders
<1>3. /\ ShortOn(ToSet(a), order[k]) = a[k].shortage
      /\ ShortOn(ToSet(b), order[k]) = b[k].shortage
  BY <1>1, NettedLists
<1>4. Relieved(a, b, order, n, extra, lead)
  BY MoreRelieves
<1> HIDE DEF a, b, order, n, extra
<1>5. /\ b[k].shortage <= a[k].shortage
      /\ (b[k].shortage # a[k].shortage => \E po \in extra : InTimeFor(po, r, lead))
  BY <1>2, <1>4 DEF Relieved
<1> QED BY <1>2, <1>3, <1>5 DEF a, b, extra

(* Requirements to be netted, and what each of them is short of with a     *)
(* selection of releases.                                                  *)
IsAsked(site, reqs) ==
  /\ SiteTables(site) /\ IsDemand(reqs)
  /\ \A r \in reqs : r.group \in DOMAIN site.lead
Pool(reqs, group, material) == {row \in reqs : row.group = group /\ row.material = material}
OfMaterial(sel, material) == {po \in sel : po.material = material}
OwedOn(site, reqs, sel, r) == ShortOn(LinesOf(site, reqs, sel, r.group, r.material), r)
Owed(site, reqs, sel) == [r \in reqs |-> OwedOn(site, reqs, sel, r)]

LEMMA StockIsInt ==
  ASSUME NEW site, SiteTables(site), NEW material
  PROVE  StockOf(site, material) \in Int
<1> DEFINE S == {s \in site.stock : s.material = material}
           f == [s \in S |-> s.usable]
<1>1. IsFiniteSet(S) /\ \A s \in S : f[s] \in Int
  BY FS_Subset DEF SiteTables
<1>2. StockOf(site, material) = SumFunctionOnSet(f, DOMAIN f) /\ DOMAIN f = S
  BY DEF StockOf, Total, SumFunction
<1> HIDE DEF f, S
<1> QED BY <1>1, <1>2, SumInt

LEMMA PoolIs ==
  ASSUME NEW site, NEW reqs, IsAsked(site, reqs), NEW sel, IsSupply(sel), NEW r \in reqs
  PROVE  /\ IsDemand(Pool(reqs, r.group, r.material)) /\ r \in Pool(reqs, r.group, r.material)
         /\ IsSupply(OfMaterial(sel, r.material))
         /\ StockOf(site, r.material) \in Int /\ site.lead[r.group] \in Int
         /\ LinesOf(site, reqs, sel, r.group, r.material) =
              ToSet(Netted(Pool(reqs, r.group, r.material), StockOf(site, r.material),
                           OfMaterial(sel, r.material), site.lead[r.group]))
<1> DEFINE S == Pool(reqs, r.group, r.material)   P == OfMaterial(sel, r.material)
<1>1. S \in SUBSET reqs /\ r \in S
  BY DEF Pool
<1>2. IsFiniteSet(S)
  BY <1>1, FS_Subset DEF IsAsked, IsDemand
<1>3. \A x \in reqs : /\ x.due \in Int \cup {NoDate} /\ x.job \in Int /\ x.id \in Int
                      /\ x.required \in Int /\ x.issued \in Int
  BY DEF IsAsked, IsDemand
<1>4. \A x, y \in reqs : x.id = y.id => x = y
  BY DEF IsAsked, IsDemand
<1>5. P \in SUBSET sel
  BY DEF OfMaterial
<1>6. IsFiniteSet(P) /\ \A po \in P : po.qty \in Nat /\ po.due \in Int
  <2>1. IsFiniteSet(P)
    BY <1>5, FS_Subset DEF IsSupply
  <2>2. \A po \in sel : po.qty \in Nat /\ po.due \in Int
    BY DEF IsSupply
  <2> QED BY <1>5, <2>1, <2>2
<1>7. IsSupply(P)
  BY <1>6 DEF IsSupply
<1>8. StockOf(site, r.material) \in Int
  BY StockIsInt DEF IsAsked
<1>9. site.lead[r.group] \in Int
  BY DEF IsAsked, SiteTables
<1>10. LinesOf(site, reqs, sel, r.group, r.material) =
         ToSet(Netted(S, StockOf(site, r.material), P, site.lead[r.group]))
  BY DEF LinesOf, Pool, OfMaterial
<1> HIDE DEF S, P
<1>11. IsDemand(S)
  BY <1>1, <1>2, <1>3, <1>4 DEF IsDemand
<1> QED BY <1>1, <1>7, <1>8, <1>9, <1>10, <1>11 DEF S, P

LEMMA PoolIsListed ==
  ASSUME NEW site, NEW reqs, IsAsked(site, reqs), NEW sel, IsSupply(sel), NEW r \in reqs
  PROVE  Lists(LinesOf(site, reqs, sel, r.group, r.material), Pool(reqs, r.group, r.material))
BY PoolIs, NettedLists

(* All the lines together list the requirements, and what a requirement is *)
(* short of is settled where its own material is netted.                   *)
LEMMA ShortLinesList ==
  ASSUME NEW site, NEW reqs, IsAsked(site, reqs), NEW sel, IsSupply(sel)
  PROVE  /\ Lists(ShortLines(site, reqs, sel), reqs)
         /\ \A r \in reqs : ShortOn(ShortLines(site, reqs, sel), r) = OwedOn(site, reqs, sel, r)
<1> DEFINE L(r) == LinesOf(site, reqs, sel, r.group, r.material)
           P(r) == Pool(reqs, r.group, r.material)
           all == ShortLines(site, reqs, sel)
<1>1. \A r \in reqs : Lists(L(r), P(r))
  BY PoolIsListed
<1>2. all = UNION {L(r) : r \in reqs}
  BY DEF ShortLines
<1>3. /\ \A r \in reqs : P(r) \in SUBSET reqs /\ r \in P(r)
      /\ \A r \in reqs : \A x \in P(r) : L(x) = L(r)
  BY DEF Pool
<1> HIDE DEF L, P, all
<1>4. /\ \A l \in all : \E r \in reqs : l \in L(r)
      /\ \A r \in reqs : L(r) \in SUBSET all
  BY <1>2
<1>5. \A r \in reqs : /\ \A l \in L(r) : l.row \in P(r) /\ l.shortage \in Nat
                      /\ \A x \in P(r) : \E l \in L(r) : l.row = x
                      /\ \A l, m \in L(r) : l.row = m.row => l = m
  BY <1>1 DEF Lists
<1>6. \A l \in all : l.row \in reqs /\ l.shortage \in Nat /\ l \in L(l.row)
  BY <1>3, <1>4, <1>5
<1>7. \A r \in reqs : \E l \in all : l.row = r
  BY <1>3, <1>4, <1>5
<1>8. \A l, m \in all : l.row = m.row => l = m
  BY <1>5, <1>6
<1>9. Lists(all, reqs)
  BY <1>6, <1>7, <1>8 DEF Lists
<1>10. ASSUME NEW r \in reqs PROVE ShortOn(all, r) = OwedOn(site, reqs, sel, r)
  <2>1. PICK l \in L(r) : l.row = r
    BY <1>3, <1>5
  <2>2. ShortOn(L(r), r) = l.shortage
    BY <1>1, <2>1, OnItsLine
  <2>3. ShortOn(all, r) = l.shortage
    BY <1>4, <1>9, <2>1, OnItsLine
  <2> QED BY <2>2, <2>3 DEF OwedOn, L
<1> QED BY <1>9, <1>10 DEF all

(* A job is short of what its requirements are short of.                   *)
OfJob(rows, job) == {r \in rows : r.job = job}
LEMMA JobOwes ==
  ASSUME NEW rows, IsFiniteSet(rows), NEW lines, Lists(lines, rows), NEW owed,
         \A r \in rows : owed[r] = ShortOn(lines, r), NEW job
  PROVE  ShortageOf(lines, job) = SumFunctionOnSet(owed, OfJob(rows, job))
<1> DEFINE D == {l \in lines : l.row.job = job}
           f == [l \in D |-> l.shortage]
           b == [r \in rows |-> CHOOSE l \in lines : l.row = r]
           R == OfJob(rows, job)
<1>1. ShortageOf(lines, job) = SumFunctionOnSet(f, DOMAIN f) /\ DOMAIN f = D
  BY DEF ShortageOf, Total, SumFunction
<1>2. \A r \in rows : b[r] \in lines /\ b[r].row = r /\ owed[r] = b[r].shortage
  BY DEF Lists, ShortOn
<1>3. /\ \A l \in lines : l.row \in rows /\ l.shortage \in Nat
      /\ \A l, m \in lines : l.row = m.row => l = m
  BY DEF Lists
<1> HIDE DEF b
<1>4. R \in SUBSET rows /\ IsFiniteSet(R)
  <2>1. R \in SUBSET rows
    BY DEF OfJob
  <2> QED BY <2>1, FS_Subset
<1>5. Images(b, R) = D
  <2>1. ASSUME NEW l \in D PROVE l \in Images(b, R)
    <3>1. l.row \in R /\ b[l.row] = l
      BY <1>2, <1>3 DEF OfJob
    <3> QED BY <3>1 DEF Images
  <2>2. ASSUME NEW r \in R PROVE b[r] \in D
    BY <1>2, <1>4 DEF OfJob
  <2> HIDE DEF D, R
  <2> QED BY <2>1, <2>2 DEF Images
<1>6. \A r \in R : owed[r] \in Int /\ owed[r] = f[b[r]]
  <2> SUFFICES ASSUME NEW r \in R PROVE owed[r] \in Int /\ owed[r] = f[b[r]]
    OBVIOUS
  <2>1. b[r] \in lines /\ b[r].row = r /\ owed[r] = b[r].shortage /\ r.job = job
    BY <1>2, <1>4 DEF OfJob
  <2>2. b[r] \in D /\ b[r].shortage \in Nat
    BY <1>3, <2>1
  <2> QED BY <2>1, <2>2
<1>7. \A x, y \in R : b[x] = b[y] => x = y
  BY <1>2, <1>4
<1> HIDE DEF f, D, R
<1>8. SumFunctionOnSet(f, Images(b, R)) = SumFunctionOnSet(owed, R)
  BY <1>4, <1>6, <1>7, SumOfImages
<1> QED BY <1>1, <1>5, <1>8 DEF R

(* What more releases do to a requirement.                                 *)
LEMMA OwedRelieved ==
  ASSUME NEW site, NEW reqs, IsAsked(site, reqs), NEW more, IsSupply(more), NEW pos \in SUBSET more,
         NEW r \in reqs
  PROVE  /\ OwedOn(site, reqs, pos, r) \in Nat /\ OwedOn(site, reqs, more, r) \in Nat
         /\ OwedOn(site, reqs, more, r) <= OwedOn(site, reqs, pos, r)
         /\ (OwedOn(site, reqs, more, r) # OwedOn(site, reqs, pos, r) =>
               \E po \in more \ pos :
                 po.material = r.material /\ InTimeFor(po, r, site.lead[r.group]))
<1> DEFINE S == Pool(reqs, r.group, r.material)   stock == StockOf(site, r.material)
           lead == site.lead[r.group]
           P == OfMaterial(pos, r.material)   M == OfMaterial(more, r.material)
           a == ShortOn(ToSet(Netted(S, stock, P, lead)), r)
           b == ShortOn(ToSet(Netted(S, stock, M, lead)), r)
<1>1. IsSupply(pos)
  BY FS_Subset DEF IsSupply
<1>2. /\ IsDemand(S) /\ r \in S /\ IsSupply(M) /\ stock \in Int /\ lead \in Int
      /\ LinesOf(site, reqs, pos, r.group, r.material) = ToSet(Netted(S, stock, P, lead))
      /\ LinesOf(site, reqs, more, r.group, r.material) = ToSet(Netted(S, stock, M, lead))
  BY <1>1, PoolIs
<1>3. P \in SUBSET M /\ \A po \in M \ P : po \in more \ pos /\ po.material = r.material
  BY DEF OfMaterial
<1>4. OwedOn(site, reqs, pos, r) = a /\ OwedOn(site, reqs, more, r) = b
  BY <1>2 DEF OwedOn
<1>5. /\ Lists(LinesOf(site, reqs, pos, r.group, r.material), S)
      /\ Lists(LinesOf(site, reqs, more, r.group, r.material), S)
  BY <1>1, PoolIsListed
<1>6. OwedOn(site, reqs, pos, r) \in Nat /\ OwedOn(site, reqs, more, r) \in Nat
  BY <1>2, <1>5, OnItsLine DEF OwedOn
<1> HIDE DEF S, stock, lead, P, M
<1>7. b <= a /\ (b # a => \E po \in M \ P : InTimeFor(po, r, lead))
  BY <1>2, <1>3, RowsRelieved
<1> HIDE DEF a, b
<1> QED BY <1>3, <1>4, <1>6, <1>7 DEF lead

(* The requirements of some materials, and the releases for them.          *)
Touched(reqs, materials) == {row \in reqs : row.material \in materials}
Among(sel, materials) == {po \in sel : po.material \in materials}

(* A netting is local: it reads only the requirements and the releases of  *)
(* its own material.                                                       *)
LEMMA LinesAreNetted ==
  ASSUME NEW site, NEW reqs, NEW sel, NEW group, NEW material
  PROVE  LinesOf(site, reqs, sel, group, material) =
           ToSet(Netted(Pool(reqs, group, material), StockOf(site, material),
                        OfMaterial(sel, material), site.lead[group]))
BY DEF LinesOf, Pool, OfMaterial

LEMMA NettingOfTouched ==
  ASSUME NEW site, NEW reqs, NEW sel, NEW materials, NEW group, NEW material \in materials
  PROVE  LinesOf(site, Touched(reqs, materials), Among(sel, materials), group, material)
           = LinesOf(site, reqs, sel, group, material)
<1>1. /\ Pool(Touched(reqs, materials), group, material) = Pool(reqs, group, material)
      /\ OfMaterial(Among(sel, materials), material) = OfMaterial(sel, material)
  BY DEF Pool, OfMaterial, Touched, Among
<1> QED BY <1>1, LinesAreNetted, Zenon

LEMMA NettingOfOthers ==
  ASSUME NEW site, NEW reqs, NEW sel, NEW other, NEW group, NEW material,
         OfMaterial(sel, material) = OfMaterial(other, material)
  PROVE  LinesOf(site, reqs, sel, group, material) = LinesOf(site, reqs, other, group, material)
BY LinesAreNetted, Zenon

(* What a scenario says, in terms of what every requirement is short of.   *)
Shows(scenario, reqs, owed) ==
  /\ scenario.jobShortage = [j \in JobsOf(reqs) |-> SumFunctionOnSet(owed, OfJob(reqs, j))]
  /\ scenario.readyJobs = {j \in JobsOf(reqs) : \A r \in OfJob(reqs, j) : owed[r] = 0}
  /\ scenario.readyOrders = {so \in OrdersOf(reqs) : JobsByOrder(reqs, so) \subseteq scenario.readyJobs}

LEMMA OwedIs ==
  ASSUME NEW site, NEW reqs, IsAsked(site, reqs), NEW sel, IsSupply(sel)
  PROVE  /\ IsFiniteSet(reqs)
         /\ \A r \in reqs : /\ Owed(site, reqs, sel)[r] \in Nat
                            /\ Owed(site, reqs, sel)[r] = OwedOn(site, reqs, sel, r)
                            /\ Owed(site, reqs, sel)[r] = ShortOn(ShortLines(site, reqs, sel), r)
<1>1. IsFiniteSet(reqs)
  BY DEF IsAsked, IsDemand
<1>2. \A r \in reqs : /\ ShortOn(ShortLines(site, reqs, sel), r) \in Nat
                      /\ ShortOn(ShortLines(site, reqs, sel), r) = OwedOn(site, reqs, sel, r)
  BY ShortLinesList, OnItsLine
<1>3. \A r \in reqs : Owed(site, reqs, sel)[r] = OwedOn(site, reqs, sel, r)
  BY DEF Owed
<1> QED BY <1>1, <1>2, <1>3

LEMMA FullShows ==
  ASSUME NEW site, NEW reqs, IsAsked(site, reqs), NEW sel, IsSupply(sel)
  PROVE  Shows(Simulate(site, reqs, sel), reqs, Owed(site, reqs, sel))
<1> DEFINE lines == ShortLines(site, reqs, sel)
           owed == Owed(site, reqs, sel)
           sum(j) == SumFunctionOnSet(owed, OfJob(reqs, j))
           full == Simulate(site, reqs, sel)
<1>1. Lists(lines, reqs) /\ IsFiniteSet(reqs)
      /\ \A r \in reqs : owed[r] \in Nat /\ owed[r] = ShortOn(lines, r)
  BY OwedIs, ShortLinesList
<1> HIDE DEF lines, owed
<1>2. \A j : ShortageOf(lines, j) = sum(j)
  BY <1>1, JobOwes
<1>3. ASSUME NEW j PROVE sum(j) = 0 <=> \A r \in OfJob(reqs, j) : owed[r] = 0
  <2>1. OfJob(reqs, j) \in SUBSET reqs
    BY DEF OfJob
  <2>2. IsFiniteSet(OfJob(reqs, j)) /\ \A r \in OfJob(reqs, j) : owed[r] \in Nat
    BY <1>1, <2>1, FS_Subset
  <2> QED BY <2>2, SumNat
<1>4. /\ full.jobShortage = [j \in JobsOf(reqs) |-> ShortageOf(lines, j)]
      /\ full.readyJobs = {j \in JobsOf(reqs) : full.jobShortage[j] = 0}
      /\ full.readyOrders = {so \in OrdersOf(reqs) : JobsByOrder(reqs, so) \subseteq full.readyJobs}
  BY DEF Simulate, Scenario, lines
<1> HIDE DEF full
<1>5. full.jobShortage = [j \in JobsOf(reqs) |-> sum(j)]
  BY <1>2, <1>4
<1>6. \A j \in JobsOf(reqs) : full.jobShortage[j] = 0 <=> \A r \in OfJob(reqs, j) : owed[r] = 0
  BY <1>3, <1>5
<1>7. full.readyJobs = {j \in JobsOf(reqs) : \A r \in OfJob(reqs, j) : owed[r] = 0}
  BY <1>4, <1>6
<1> QED BY <1>4, <1>5, <1>7 DEF Shows, full, owed

(* Every job is for one order: the code's dictionary of the orders of the  *)
(* jobs keeps one entry for each.                                          *)
OneOrder(reqs) ==
  \A x, y \in reqs : x.job = y.job /\ x.so # None /\ y.so # None => x.so = y.so

LEMMA OrderOfJob ==
  ASSUME NEW reqs, IsDemand(reqs), OneOrder(reqs), NEW so \in OrdersOf(reqs), NEW j
  PROVE  /\ (j \in JobsByOrder(reqs, so) => OrderByJob(reqs, j) = so /\ j \in JobsOf(reqs))
         /\ (OrderByJob(reqs, j) = None \/ OrderByJob(reqs, j) \in OrdersOf(reqs))
<1> DEFINE mine == {row \in reqs : row.job = j /\ row.so # None}
           n == Cardinality(mine)
           order == InOrder(mine)
<1>1. OrderByJob(reqs, j) = IF mine = {} THEN None ELSE order[n].so
  BY DEF OrderByJob
<1>2. mine # {} => order[n] \in mine
  <2>1. IsFiniteSet(mine) /\ mine \in SUBSET reqs
    BY FS_Subset DEF IsDemand
  <2>2. \A S \in SUBSET reqs : IsFiniteSet(S) => IsDemand(S)
    BY DEF IsDemand
  <2> HIDE DEF mine
  <2>3. Orders(order, mine, RowOrder(mine)) /\ n \in Nat /\ (n = 0 <=> mine = {})
    BY <2>1, <2>2, RowsInOrder, FS_CardinalityType, FS_EmptySet
  <2> HIDE DEF order, n
  <2>4. order \in [1 .. n -> mine]
    BY <2>3 DEF Orders, n
  <2> QED BY <2>3, <2>4
<1> HIDE DEF order, n
<1>3. OrderByJob(reqs, j) = None \/ OrderByJob(reqs, j) \in OrdersOf(reqs)
  BY <1>1, <1>2 DEF OrdersOf
<1>4. ASSUME j \in JobsByOrder(reqs, so)
      PROVE  OrderByJob(reqs, j) = so /\ j \in JobsOf(reqs)
  <2>1. PICK r \in reqs : r.so = so /\ r.job = j
    BY <1>4 DEF JobsByOrder
  <2>2. so # None
    BY DEF OrdersOf
  <2>3. r \in mine
    BY <2>1, <2>2
  <2>4. order[n] \in mine /\ OrderByJob(reqs, j) = order[n].so
    BY <1>1, <1>2, <2>3
  <2>5. order[n].so = r.so
    BY <2>1, <2>3, <2>4 DEF OneOrder
  <2> QED BY <2>1, <2>4, <2>5 DEF JobsOf
<1> QED BY <1>3, <1>4

MergesTo(now, was, part, reqs, T, j) ==
  /\ SumFunctionOnSet(now, OfJob(reqs, j)) =
       SumFunctionOnSet(was, OfJob(reqs, j)) - SumFunctionOnSet(was, OfJob(T, j))
         + SumFunctionOnSet(part, OfJob(T, j))
  /\ (j \notin JobsOf(T) =>
        SumFunctionOnSet(now, OfJob(reqs, j)) = SumFunctionOnSet(was, OfJob(reqs, j)))

(* The sums of the jobs, with the touched requirements netted again.       *)
LEMMA SumsAreMerged ==
  ASSUME NEW reqs, IsFiniteSet(reqs), NEW T \in SUBSET reqs, NEW was, NEW now, NEW part,
         \A r \in reqs : was[r] \in Int /\ now[r] \in Int /\ (r \notin T => now[r] = was[r]),
         \A r \in T : part[r] = now[r], NEW j
  PROVE  MergesTo(now, was, part, reqs, T, j)
<1> DEFINE A == OfJob(T, j)   B == OfJob(reqs \ T, j)   R == OfJob(reqs, j)
<1>1. A \in SUBSET reqs /\ B \in SUBSET reqs /\ A \cap B = {} /\ R = A \cup B
      /\ A \in SUBSET T /\ B \cap T = {} /\ (j \notin JobsOf(T) => A = {})
  BY DEF OfJob, JobsOf
<1> HIDE DEF A, B, R
<1>2. IsFiniteSet(A) /\ IsFiniteSet(B)
  BY <1>1, FS_Subset
<1>3. /\ \A r \in A \cup B : was[r] \in Int /\ now[r] \in Int
      /\ \A r \in A : now[r] \in Int /\ part[r] = now[r]
      /\ \A r \in B : was[r] \in Int /\ now[r] = was[r]
  BY <1>1
<1> DEFINE wa == SumFunctionOnSet(was, A)   wb == SumFunctionOnSet(was, B)
           na == SumFunctionOnSet(now, A)   nb == SumFunctionOnSet(now, B)
           wr == SumFunctionOnSet(was, R)   nr == SumFunctionOnSet(now, R)
           pa == SumFunctionOnSet(part, A)
<1>4. wr = wa + wb /\ nr = na + nb
  BY <1>1, <1>2, <1>3, SumUnion
<1>5. na = pa
  BY <1>2, <1>3, SumSame
<1>6. wb = nb
  BY <1>2, <1>3, SumSame
<1>7. wa \in Int /\ wb \in Int /\ na \in Int /\ nb \in Int
  BY <1>2, <1>3, SumInt
<1>8. A = {} => wa = 0 /\ na = 0
  BY SumOfNone
<1> HIDE DEF wa, wb, na, nb, wr, nr, pa
<1>9. nr = wr - wa + pa /\ (A = {} => nr = wr)
  BY <1>4, <1>5, <1>6, <1>7, <1>8
<1> QED BY <1>1, <1>9 DEF nr, wr, wa, pa, A, R, MergesTo

LEMMA TouchedIs ==
  ASSUME NEW site, NEW reqs, IsAsked(site, reqs), NEW sel, IsSupply(sel), NEW committed,
         IsSupply(committed), NEW materials,
         \A m : m \notin materials => OfMaterial(sel, m) = OfMaterial(committed, m)
  PROVE  LET T == Touched(reqs, materials)   P == Among(sel, materials) IN
         /\ T \in SUBSET reqs /\ IsAsked(site, T) /\ IsSupply(P)
         /\ \A r \in T : Owed(site, T, P)[r] = Owed(site, reqs, sel)[r]
         /\ \A r \in reqs : r \notin T => Owed(site, reqs, sel)[r] = Owed(site, reqs, committed)[r]
<1> DEFINE T == Touched(reqs, materials)   P == Among(sel, materials)
<1>1. T \in SUBSET reqs /\ P \in SUBSET sel
      /\ \A r \in reqs : r \in T <=> r.material \in materials
  BY DEF Touched, Among
<1>2. IsFiniteSet(T) /\ IsFiniteSet(P)
  BY <1>1, FS_Subset DEF IsAsked, IsDemand, IsSupply
<1>3. \A S \in SUBSET reqs : IsFiniteSet(S) => IsAsked(site, S)
  BY DEF IsAsked, IsDemand
<1>4. \A S \in SUBSET sel : IsFiniteSet(S) => IsSupply(S)
  BY DEF IsSupply
<1>5. ASSUME NEW r \in T PROVE OwedOn(site, T, P, r) = OwedOn(site, reqs, sel, r)
  <2>1. LinesOf(site, T, P, r.group, r.material) = LinesOf(site, reqs, sel, r.group, r.material)
    BY <1>1, NettingOfTouched
  <2> QED BY <2>1 DEF OwedOn
<1>6. ASSUME NEW r \in reqs, r \notin T
      PROVE  OwedOn(site, reqs, sel, r) = OwedOn(site, reqs, committed, r)
  <2>1. OfMaterial(sel, r.material) = OfMaterial(committed, r.material)
    BY <1>1, <1>6
  <2>2. LinesOf(site, reqs, sel, r.group, r.material) = LinesOf(site, reqs, committed, r.group, r.material)
    BY <2>1, NettingOfOthers
  <2> QED BY <2>2 DEF OwedOn
<1> HIDE DEF T, P
<1>7. /\ \A r \in T : /\ Owed(site, T, P)[r] = OwedOn(site, T, P, r)
                      /\ Owed(site, reqs, sel)[r] = OwedOn(site, reqs, sel, r)
      /\ \A r \in reqs : /\ Owed(site, reqs, sel)[r] = OwedOn(site, reqs, sel, r)
                         /\ Owed(site, reqs, committed)[r] = OwedOn(site, reqs, committed, r)
  BY <1>1 DEF Owed
<1>8. IsAsked(site, T) /\ IsSupply(P)
  BY <1>1, <1>2, <1>3, <1>4
<1> QED BY <1>1, <1>5, <1>6, <1>7, <1>8 DEF T, P

(* The old lines of the touched requirements add up to what they owed.     *)
LEMMA BeforeIs ==
  ASSUME NEW rows, IsFiniteSet(rows), NEW lines, Lists(lines, rows), NEW owed,
         \A r \in rows : owed[r] = ShortOn(lines, r), NEW T \in SUBSET rows, NEW job
  PROVE  ShortageOf({l \in lines : l.row \in T}, job) = SumFunctionOnSet(owed, OfJob(T, job))
<1> DEFINE old == {l \in lines : l.row \in T}
<1>1. Lists(old, T)
  <2>1. \A l \in old : l.row \in T /\ l.shortage \in Nat
    BY DEF Lists
  <2>2. \A r \in T : \E l \in old : l.row = r
    BY DEF Lists
  <2>3. \A l, m \in old : l.row = m.row => l = m
    BY DEF Lists
  <2> HIDE DEF old
  <2> QED BY <2>1, <2>2, <2>3 DEF Lists
<1>2. ASSUME NEW r \in T PROVE owed[r] = ShortOn(old, r)
  <2>1. PICK l \in old : l.row = r
    BY <1>1 DEF Lists
  <2>2. l \in lines
    OBVIOUS
  <2> HIDE DEF old
  <2>3. ShortOn(old, r) = l.shortage
    BY <1>1, <2>1, OnItsLine
  <2>4. ShortOn(lines, r) = l.shortage
    BY <2>1, <2>2, OnItsLine
  <2> QED BY <2>3, <2>4
<1>3. IsFiniteSet(T)
  BY FS_Subset
<1> HIDE DEF old
<1>4. ShortageOf(old, job) = SumFunctionOnSet(owed, OfJob(T, job))
  BY <1>1, <1>2, <1>3, JobOwes
<1> QED BY <1>4 DEF old

(* _simulate_incremental shows what netting everything again would show.   *)
LEMMA IncrementalShows ==
  ASSUME NEW site, NEW reqs, IsAsked(site, reqs), OneOrder(reqs), NEW sel, IsSupply(sel),
         NEW committed, IsSupply(committed), NEW materials,
         \A m : m \notin materials => OfMaterial(sel, m) = OfMaterial(committed, m)
  PROVE  Shows(SimulateIncremental(site, reqs, sel, Simulate(site, reqs, committed), materials),
               reqs, Owed(site, reqs, sel))
<1> DEFINE T == Touched(reqs, materials)   P == Among(sel, materials)
           base == Simulate(site, reqs, committed)
           part == Simulate(site, T, P)
           inc == SimulateIncremental(site, reqs, sel, base, materials)
           was == Owed(site, reqs, committed)
           now == Owed(site, reqs, sel)
           new == Owed(site, T, P)
           affected == JobsOf(T)
           before(j) == ShortageOf({l \in base.lines : l.row \in T}, j)
           W(j) == SumFunctionOnSet(was, OfJob(reqs, j))
           N(j) == SumFunctionOnSet(now, OfJob(reqs, j))
           O(j) == SumFunctionOnSet(was, OfJob(T, j))
           Q(j) == SumFunctionOnSet(new, OfJob(T, j))
           orders == {OrderByJob(reqs, j) : j \in affected} \ {None}
<1>1. /\ T \in SUBSET reqs /\ IsAsked(site, T) /\ IsSupply(P)
      /\ \A r \in T : new[r] = now[r]
      /\ \A r \in reqs : r \notin T => now[r] = was[r]
  BY TouchedIs
<1>2. IsFiniteSet(reqs) /\ \A r \in reqs : was[r] \in Nat /\ now[r] \in Nat
  BY OwedIs
<1>3. Shows(base, reqs, was) /\ Shows(part, T, new)
  <2>1. Shows(base, reqs, was)
    BY FullShows
  <2> HIDE DEF T, P
  <2> QED BY <1>1, <2>1, FullShows
<1>4. \A j : before(j) = O(j)
  <2>1. base.lines = ShortLines(site, reqs, committed)
    BY DEF Simulate, Scenario
  <2>2. /\ Lists(base.lines, reqs)
        /\ \A r \in reqs : was[r] = ShortOn(base.lines, r)
    BY <2>1, OwedIs, ShortLinesList
  <2> HIDE DEF base, was, T
  <2> QED BY <1>1, <1>2, <2>2, BeforeIs
<1>5. LET short == [j \in DOMAIN base.jobShortage |->
                      IF j \in affected
                      THEN base.jobShortage[j] - before(j) + part.jobShortage[j]
                      ELSE base.jobShortage[j]]
          ready == (base.readyJobs \ affected) \cup {j \in affected : short[j] = 0} IN
      /\ inc.jobShortage = short /\ inc.readyJobs = ready
      /\ inc.readyOrders = (base.readyOrders \ orders)
                           \cup {so \in orders : JobsByOrder(reqs, so) \subseteq ready}
  BY DEF SimulateIncremental, Merged, Touched, Among
<1> HIDE DEF T, P, base, part, inc, was, now, new, before
<1>6. ASSUME NEW j
      PROVE  N(j) = W(j) - O(j) + Q(j) /\ (j \notin affected => N(j) = W(j))
  <2>1. \A r \in reqs : was[r] \in Int /\ now[r] \in Int /\ (r \notin T => now[r] = was[r])
    BY <1>1, <1>2
  <2>2. MergesTo(now, was, new, reqs, T, j)
    BY <1>1, <1>2, <2>1, SumsAreMerged
  <2> QED BY <2>2 DEF MergesTo
<1>7. /\ base.jobShortage = [j \in JobsOf(reqs) |-> W(j)]
      /\ part.jobShortage = [j \in affected |-> Q(j)]
      /\ affected \in SUBSET JobsOf(reqs)
  <2>1. affected \in SUBSET JobsOf(reqs)
    BY <1>1 DEF JobsOf
  <2> QED BY <1>3, <2>1 DEF Shows
<1> HIDE DEF W, N, O, Q, affected, orders
<1>8. inc.jobShortage = [j \in JobsOf(reqs) |-> N(j)]
  <2>1. DOMAIN base.jobShortage = JobsOf(reqs)
    BY <1>7
  <2>2. inc.jobShortage = [j \in JobsOf(reqs) |->
                      IF j \in affected
                      THEN base.jobShortage[j] - before(j) + part.jobShortage[j]
                      ELSE base.jobShortage[j]]
    BY <1>5, <2>1, Zenon
  <2>3. \A j \in JobsOf(reqs) : base.jobShortage[j] = W(j)
    BY <1>7
  <2>4. \A j \in affected : part.jobShortage[j] = Q(j)
    BY <1>7
  <2>5. \A j \in JobsOf(reqs) : inc.jobShortage[j] = N(j)
    BY <1>4, <1>6, <2>2, <2>3, <2>4
  <2> QED BY <2>2, <2>5
<1>9. /\ inc.readyJobs = (base.readyJobs \ affected) \cup {j \in affected : inc.jobShortage[j] = 0}
      /\ inc.readyOrders = (base.readyOrders \ orders)
                           \cup {so \in orders : JobsByOrder(reqs, so) \subseteq inc.readyJobs}
  BY <1>5, Zenon
<1>10. \A j \in JobsOf(reqs) : N(j) = 0 <=> \A r \in OfJob(reqs, j) : now[r] = 0
  <2> SUFFICES ASSUME NEW j \in JobsOf(reqs)
               PROVE  N(j) = 0 <=> \A r \in OfJob(reqs, j) : now[r] = 0
    OBVIOUS
  <2>1. OfJob(reqs, j) \in SUBSET reqs
    BY DEF OfJob
  <2>2. IsFiniteSet(OfJob(reqs, j)) /\ \A r \in OfJob(reqs, j) : now[r] \in Nat
    BY <1>2, <2>1, FS_Subset
  <2> QED BY <2>2, SumNat DEF N
<1>11. \A j \in JobsOf(reqs) : j \notin affected =>
         (j \in base.readyJobs <=> \A r \in OfJob(reqs, j) : now[r] = 0)
  <2>1. ASSUME NEW j \in JobsOf(reqs), j \notin affected
        PROVE  \A r \in OfJob(reqs, j) : now[r] = was[r]
    BY <1>1, <2>1 DEF OfJob, JobsOf, affected
  <2> QED BY <1>3, <2>1 DEF Shows
<1>12. inc.readyJobs = {j \in JobsOf(reqs) : \A r \in OfJob(reqs, j) : now[r] = 0}
  <2>1. base.readyJobs \in SUBSET JobsOf(reqs)
    BY <1>3 DEF Shows
  <2>2. \A j \in affected : inc.jobShortage[j] = 0 <=> \A r \in OfJob(reqs, j) : now[r] = 0
    BY <1>7, <1>8, <1>10
  <2> QED BY <1>7, <1>9, <1>11, <2>1, <2>2
<1>13. inc.readyOrders = {so \in OrdersOf(reqs) : JobsByOrder(reqs, so) \subseteq inc.readyJobs}
  <2>1. base.readyOrders = {so \in OrdersOf(reqs) : JobsByOrder(reqs, so) \subseteq base.readyJobs}
    BY <1>3 DEF Shows
  <2>2. \A so \in OrdersOf(reqs) : \A j \in JobsByOrder(reqs, so) :
          OrderByJob(reqs, j) = so /\ j \in JobsOf(reqs)
    BY OrderOfJob DEF IsAsked
  <2>3. orders \in SUBSET OrdersOf(reqs)
    <3>1. ASSUME NEW j \in affected, OrderByJob(reqs, j) # None
          PROVE  OrderByJob(reqs, j) \in OrdersOf(reqs)
      <4>1. CASE OrdersOf(reqs) = {}
        <5>1. {row \in reqs : row.job = j /\ row.so # None} = {}
          BY <4>1 DEF OrdersOf
        <5> QED BY <3>1, <5>1 DEF OrderByJob
      <4>2. CASE OrdersOf(reqs) # {}
        BY <3>1, <4>2, OrderOfJob DEF IsAsked
      <4> QED BY <4>1, <4>2
    <3> QED BY <3>1 DEF orders
  <2>4. \A so \in OrdersOf(reqs) : so \notin orders =>
          JobsByOrder(reqs, so) \cap affected = {}
    <3>1. ASSUME NEW so \in OrdersOf(reqs), NEW j \in JobsByOrder(reqs, so), j \in affected
          PROVE  so \in orders
      BY <2>2, <3>1 DEF orders, OrdersOf
    <3> QED BY <3>1
  <2>5. \A so \in OrdersOf(reqs) : so \notin orders =>
          (JobsByOrder(reqs, so) \subseteq base.readyJobs <=> JobsByOrder(reqs, so) \subseteq inc.readyJobs)
    <3>1. \A j : j \notin affected => (j \in base.readyJobs <=> j \in inc.readyJobs)
      BY <1>9
    <3> QED BY <2>4, <3>1
  <2> QED BY <1>9, <2>1, <2>3, <2>5
<1>14. Shows(inc, reqs, now)
  <2>1. inc.jobShortage = [j \in JobsOf(reqs) |-> SumFunctionOnSet(now, OfJob(reqs, j))]
    BY <1>8 DEF N
  <2> QED BY <1>12, <1>13, <2>1 DEF Shows
<1> QED BY <1>14 DEF inc, base, now

(* What every requirement owes before and after, when no release but one   *)
(* of the selected ones can have relieved it.                              *)
Relieves(site, reqs, was, now, S) ==
  \A r \in reqs :
    /\ was[r] \in Nat /\ now[r] \in Nat /\ now[r] <= was[r]
    /\ (now[r] # was[r] => \E po \in S : r.job \in PotentialJobs(site, reqs, po))

(* Then looking only at the jobs the selected releases reach loses and     *)
(* adds nothing.                                                           *)
LEMMA ImpactIsExact ==
  ASSUME NEW site, NEW reqs, IsDemand(reqs), OneOrder(reqs), NEW S, NEW was, NEW now,
         Relieves(site, reqs, was, now, S),
         NEW scenario, Shows(scenario, reqs, now), NEW baseline, Shows(baseline, reqs, was),
         NEW after, Shows(after, reqs, now)
  PROVE  Exact(reqs, Impact(site, reqs, S, scenario, baseline), baseline, after)
<1> DEFINE impact == Impact(site, reqs, S, scenario, baseline)
           jobs == JobsOf(reqs)
           R(j) == OfJob(reqs, j)
           N(j) == SumFunctionOnSet(now, R(j))
           W(j) == SumFunctionOnSet(was, R(j))
           blocked == (UNION {PotentialJobs(site, reqs, po) : po \in S}) \ baseline.readyJobs
           reached == UNION {PotentialJobs(site, reqs, po) : po \in S}
           orders == {OrderByJob(reqs, j) : j \in blocked} \ {None}
<1>1. /\ impact.jobs = {j \in blocked : j \in scenario.readyJobs}
      /\ impact.improved = {j \in blocked \ {i \in blocked : i \in scenario.readyJobs} :
                              scenario.jobShortage[j] < baseline.jobShortage[j]}
      /\ impact.orders = {so \in orders : so \in scenario.readyOrders /\ so \notin baseline.readyOrders}
  BY DEF Impact
<1>2. blocked = reached \ baseline.readyJobs
  OBVIOUS
<1>3. reached \in SUBSET jobs
  BY DEF PotentialJobs, JobsOf
<1>4. \A r \in reqs : now[r] # was[r] => r.job \in reached
  BY DEF Relieves
<1> HIDE DEF impact, blocked, reached
<1>5. /\ scenario.readyJobs = after.readyJobs /\ scenario.readyOrders = after.readyOrders
      /\ \A j \in jobs : /\ scenario.jobShortage[j] = N(j) /\ after.jobShortage[j] = N(j)
                         /\ baseline.jobShortage[j] = W(j)
  <2>1. /\ scenario.readyJobs = after.readyJobs /\ scenario.jobShortage = after.jobShortage
        /\ scenario.readyOrders = after.readyOrders
    BY DEF Shows
  <2> QED BY <2>1 DEF Shows
<1>6. ASSUME NEW j \in jobs
      PROVE  /\ N(j) <= W(j) /\ N(j) \in Nat /\ W(j) \in Nat
             /\ (j \in baseline.readyJobs <=> W(j) = 0) /\ (j \in after.readyJobs <=> N(j) = 0)
             /\ (N(j) # W(j) => j \in reached)
  <2>1. R(j) \in SUBSET reqs /\ \A r \in R(j) : r.job = j
    BY DEF OfJob
  <2>2. IsFiniteSet(R(j))
    BY <2>1, FS_Subset DEF IsDemand
  <2>3. \A r \in R(j) : /\ was[r] \in Nat /\ now[r] \in Nat /\ was[r] \in Int /\ now[r] \in Int
                        /\ now[r] <= was[r]
    BY <2>1 DEF Relieves
  <2>4. /\ j \in baseline.readyJobs <=> \A r \in R(j) : was[r] = 0
        /\ j \in after.readyJobs <=> \A r \in R(j) : now[r] = 0
    BY DEF Shows
  <2> HIDE DEF R
  <2>5. /\ W(j) \in Nat /\ N(j) \in Nat
        /\ (W(j) = 0 <=> \A r \in R(j) : was[r] = 0) /\ (N(j) = 0 <=> \A r \in R(j) : now[r] = 0)
    BY <2>2, <2>3, SumNat
  <2>6. N(j) <= W(j)
    BY <2>2, <2>3, SumAtMost
  <2>7. (\A r \in R(j) : now[r] = was[r]) => N(j) = W(j)
    BY <2>2, <2>3, SumSame
  <2>8. N(j) # W(j) => j \in reached
    BY <1>4, <2>1, <2>7
  <2> HIDE DEF N, W
  <2> QED BY <2>4, <2>5, <2>6, <2>8
<1> HIDE DEF N, W
<1>7. baseline.readyJobs \in SUBSET jobs /\ after.readyJobs \in SUBSET jobs
  BY DEF Shows
<1>8. baseline.readyJobs \subseteq after.readyJobs
  BY <1>6, <1>7
<1>9. \A j \in jobs : after.jobShortage[j] <= baseline.jobShortage[j]
  BY <1>5, <1>6
<1>10. \A j \in after.readyJobs : j \notin baseline.readyJobs => j \in blocked
  BY <1>2, <1>6, <1>7
<1>11. impact.jobs = after.readyJobs \ baseline.readyJobs
  BY <1>1, <1>2, <1>5, <1>10
<1>12. impact.improved = {j \in jobs \ after.readyJobs :
                            after.jobShortage[j] < baseline.jobShortage[j]}
  <2>1. \A j \in jobs : after.jobShortage[j] < baseline.jobShortage[j] => j \in blocked
    BY <1>2, <1>5, <1>6
  <2>2. \A j \in blocked : j \in jobs /\ scenario.jobShortage[j] = after.jobShortage[j]
    BY <1>2, <1>3, <1>5
  <2> QED BY <1>1, <1>5, <2>1, <2>2
<1>13. impact.orders = after.readyOrders \ baseline.readyOrders
  <2>1. /\ after.readyOrders = {so \in OrdersOf(reqs) : JobsByOrder(reqs, so) \subseteq after.readyJobs}
        /\ baseline.readyOrders =
             {so \in OrdersOf(reqs) : JobsByOrder(reqs, so) \subseteq baseline.readyJobs}
    BY DEF Shows
  <2>2. \A so \in OrdersOf(reqs) : so # None /\
          \A j \in JobsByOrder(reqs, so) : OrderByJob(reqs, j) = so /\ j \in JobsOf(reqs)
    BY OrderOfJob DEF OrdersOf
  <2>3. ASSUME NEW so \in after.readyOrders, so \notin baseline.readyOrders
        PROVE  so \in orders
    <3>1. PICK j \in JobsByOrder(reqs, so) : j \notin baseline.readyJobs
      BY <2>1, <2>3
    <3>2. j \in after.readyJobs /\ OrderByJob(reqs, j) = so /\ so # None
      BY <2>1, <2>2
    <3> QED BY <1>10, <3>1, <3>2
  <2> QED BY <1>1, <1>5, <2>3
<1> QED BY <1>8, <1>9, <1>11, <1>12, <1>13 DEF Exact, impact

(* A scenario is a matter of what the requirements owe.                    *)
LEMMA SelectionRelieves ==
  ASSUME NEW site, NEW reqs, IsAsked(site, reqs), NEW more, IsSupply(more), NEW pos \in SUBSET more
  PROVE  Relieves(site, reqs, Owed(site, reqs, pos), Owed(site, reqs, more), more \ pos)
<1> DEFINE was == Owed(site, reqs, pos)   now == Owed(site, reqs, more)
<1>1. IsSupply(pos)
  BY FS_Subset DEF IsSupply
<1>2. ASSUME NEW r \in reqs
      PROVE  /\ was[r] \in Nat /\ now[r] \in Nat /\ now[r] <= was[r]
             /\ (now[r] # was[r] => \E po \in more \ pos : r.job \in PotentialJobs(site, reqs, po))
  <2>1. was[r] = OwedOn(site, reqs, pos, r) /\ now[r] = OwedOn(site, reqs, more, r)
    BY <1>1, OwedIs
  <2>2. /\ OwedOn(site, reqs, pos, r) \in Nat /\ OwedOn(site, reqs, more, r) \in Nat
        /\ OwedOn(site, reqs, more, r) <= OwedOn(site, reqs, pos, r)
        /\ (OwedOn(site, reqs, more, r) # OwedOn(site, reqs, pos, r) =>
               \E po \in more \ pos :
                 po.material = r.material /\ InTimeFor(po, r, site.lead[r.group]))
    BY OwedRelieved
  <2>3. \A po : po.material = r.material /\ InTimeFor(po, r, site.lead[r.group]) =>
          r.job \in PotentialJobs(site, reqs, po)
    BY DEF PotentialJobs
  <2> HIDE DEF was, now
  <2> QED BY <2>1, <2>2, <2>3
<1> QED BY <1>2 DEF Relieves

LEMMA WhatIfExact ==
  ASSUME NEW site, NEW reqs, IsAsked(site, reqs), OneOrder(reqs), NEW committed, NEW S,
         IsSupply(committed \cup S)
  PROVE  Exact(reqs, WhatIf(site, reqs, committed, Simulate(site, reqs, committed), S),
               Simulate(site, reqs, committed), Simulate(site, reqs, committed \cup S))
<1> DEFINE sel == committed \cup S
           materials == {po.material : po \in S}
           was == Owed(site, reqs, committed)
           now == Owed(site, reqs, sel)
           base == Simulate(site, reqs, committed)
           inc == SimulateIncremental(site, reqs, sel, base, materials)
<1>1. IsSupply(committed) /\ committed \in SUBSET sel /\ sel \ committed \in SUBSET S
  BY FS_Subset DEF IsSupply
<1>2. \A m : m \notin materials => OfMaterial(sel, m) = OfMaterial(committed, m)
  BY DEF OfMaterial
<1>3. IsSupply(sel) /\ IsDemand(reqs)
  BY DEF IsAsked
<1>4. WhatIf(site, reqs, committed, base, S) = Impact(site, reqs, S, inc, base)
  BY DEF WhatIf
<1> HIDE DEF sel, materials
<1>5. Shows(inc, reqs, now)
  BY <1>1, <1>2, <1>3, IncrementalShows
<1>6. Shows(base, reqs, was) /\ Shows(Simulate(site, reqs, sel), reqs, now)
  BY <1>1, <1>3, FullShows
<1>7. Relieves(site, reqs, was, now, sel \ committed)
  BY <1>1, <1>3, SelectionRelieves
<1> HIDE DEF was, now, base, inc
<1>8. Relieves(site, reqs, was, now, S)
  BY <1>1, <1>7 DEF Relieves
<1>9. Exact(reqs, Impact(site, reqs, S, inc, base), base, Simulate(site, reqs, sel))
  BY <1>3, <1>5, <1>6, <1>8, ImpactIsExact
<1> QED BY <1>4, <1>9 DEF base, sel

(* What is staged: a staged release that is not shown reaches only jobs    *)
(* that are ready already, so it relieves nothing.                         *)
LEMMA StagedExact ==
  ASSUME NEW site, NEW reqs, IsAsked(site, reqs), OneOrder(reqs), NEW committed, NEW staged,
         IsSupply(committed \cup staged), NEW shown \in SUBSET staged,
         \A po \in staged \ shown :
           PotentialJobs(site, reqs, po) \subseteq Simulate(site, reqs, committed).readyJobs
  PROVE  Exact(reqs, StagedImpact(site, reqs, committed, Simulate(site, reqs, committed), staged, shown),
               Simulate(site, reqs, committed), Simulate(site, reqs, committed \cup shown))
<1> DEFINE materials == {po.material : po \in shown}
           other == Among(staged, materials)
           all == committed \cup staged
           sel == committed \cup other
           seen == committed \cup shown
           was == Owed(site, reqs, committed)
           now == Owed(site, reqs, sel)
           told == Owed(site, reqs, seen)
           base == Simulate(site, reqs, committed)
           inc == SimulateIncremental(site, reqs, all, base, materials)
<1>1. /\ committed \in SUBSET seen /\ seen \in SUBSET sel /\ sel \in SUBSET all
      /\ sel \ seen \in SUBSET (staged \ shown) /\ seen \ committed \in SUBSET shown
  BY DEF Among
<1>2. IsSupply(committed) /\ IsSupply(sel) /\ IsSupply(seen) /\ IsDemand(reqs)
  <2>1. \A X \in SUBSET all : IsSupply(X)
    BY FS_Subset DEF IsSupply
  <2> HIDE DEF all, sel, seen
  <2> QED BY <1>1, <2>1 DEF IsAsked
<1>3. \A m : m \notin materials => OfMaterial(sel, m) = OfMaterial(committed, m)
  BY DEF OfMaterial, Among
<1>4. inc = SimulateIncremental(site, reqs, sel, base, materials)
  <2>1. {po \in all : po.material \in materials} = {po \in sel : po.material \in materials}
    BY DEF Among
  <2> HIDE DEF all, sel, materials, base
  <2> QED BY <2>1 DEF SimulateIncremental
<1>5. StagedImpact(site, reqs, committed, base, staged, shown) = Impact(site, reqs, shown, inc, base)
  BY DEF StagedImpact
<1> HIDE DEF sel, seen, materials, other, all
<1>6. Shows(inc, reqs, now)
  <2> HIDE DEF inc, now
  <2>1. Shows(SimulateIncremental(site, reqs, sel, base, materials), reqs, now)
    BY <1>2, <1>3, IncrementalShows DEF now
  <2> QED BY <1>4, <2>1
<1>7. /\ Shows(base, reqs, was) /\ Shows(Simulate(site, reqs, seen), reqs, told)
  BY <1>2, FullShows
<1>8. /\ Relieves(site, reqs, was, told, seen \ committed)
      /\ Relieves(site, reqs, told, now, sel \ seen)
  BY <1>1, <1>2, SelectionRelieves
<1>9. now = [r \in reqs |-> now[r]] /\ told = [r \in reqs |-> told[r]]
  BY DEF Owed
<1>10. \A po \in staged \ shown : PotentialJobs(site, reqs, po) \subseteq base.readyJobs
  OBVIOUS
<1> HIDE DEF was, now, told, base, inc
<1>11. ASSUME NEW r \in reqs PROVE now[r] = told[r]
  <2>1. SUFFICES ASSUME now[r] # told[r] PROVE FALSE
    OBVIOUS
  <2>2. PICK po \in sel \ seen : r.job \in PotentialJobs(site, reqs, po)
    BY <1>8, <2>1 DEF Relieves
  <2>3. r.job \in base.readyJobs
    BY <1>1, <1>10, <2>2
  <2>4. was[r] = 0
    BY <1>7, <2>3 DEF Shows, OfJob
  <2> QED BY <1>8, <2>1, <2>4 DEF Relieves
<1>12. now = told
  BY <1>9, <1>11
<1>13. Relieves(site, reqs, was, told, shown)
  BY <1>1, <1>8 DEF Relieves
<1>14. Exact(reqs, Impact(site, reqs, shown, inc, base), base, Simulate(site, reqs, seen))
  BY <1>2, <1>6, <1>7, <1>12, <1>13, ImpactIsExact
<1> QED BY <1>5, <1>14 DEF base, seen

(* What the page is computed from.                                         *)
LEMMA PageReads ==
  ASSUME NEW site, SiteTables(site), NEW scope \in SUBSET DOMAIN site.lead
  PROVE  /\ IsAsked(site, Requirements(site, scope))
         /\ IsSupply(AllCandidates(site, scope))
<1> DEFINE reqs == Requirements(site, scope)   all == AllCandidates(site, scope)
<1>1. reqs \in SUBSET site.rows /\ \A r \in reqs : r.group \in DOMAIN site.lead
  BY DEF Requirements, Assessed
<1>2. all \in SUBSET site.pos /\ \A po \in all : po.qty > 0 /\ po.due # NoDate
  BY DEF AllCandidates, Covering
<1> HIDE DEF reqs, all
<1>3. IsFiniteSet(reqs) /\ IsFiniteSet(all)
  BY <1>1, <1>2, FS_Subset DEF SiteTables, IsDemand
<1>4. IsDemand(reqs)
  BY <1>1, <1>3 DEF SiteTables, IsDemand
<1>5. \A po \in all : po.qty \in Nat /\ po.due \in Int
  BY <1>2 DEF SiteTables
<1> QED BY <1>1, <1>3, <1>4, <1>5 DEF IsAsked, IsSupply, reqs, all

(* release_impact.py: every figure of the page, computed from the touched  *)
(* materials and the reachable jobs alone, is what netting everything      *)
(* again would show.                                                       *)
THEOREM FiguresAreExact ==
  ASSUME NEW site, SiteTables(site), NEW scope \in SUBSET DOMAIN site.lead,
         OneOrder(Requirements(site, scope)), NEW committedKeys, NEW stagedKeys
  PROVE  WhatIfIsExactFor(site, scope, committedKeys, stagedKeys)
<1> DEFINE reqs == Requirements(site, scope)
           all == AllCandidates(site, scope)
           committed == CommittedOf(site, scope, committedKeys)
           staged == {po \in all : po.id \in stagedKeys} \ committed
           base == Simulate(site, reqs, committed)
           single == SingleImpacts(site, reqs, all, committed, base)
           blocked == JobsOf(reqs) \ base.readyJobs
           view == ImpactPage(site, scope, committedKeys, stagedKeys)
           what(S) == WhatIf(site, reqs, committed, base, S)
           exact(impact, S) == Exact(reqs, impact, base, Simulate(site, reqs, committed \cup S))
<1>1. IsAsked(site, reqs) /\ IsSupply(all)
  BY PageReads
<1>2. committed \in SUBSET all /\ staged \in SUBSET all
  BY DEF CommittedOf
<1>3. /\ DOMAIN single = {x \in all \ committed : PotentialJobs(site, reqs, x) \cap blocked # {}}
      /\ \A po \in DOMAIN single : single[po] = what({po})
  BY DEF SingleImpacts
<1>4. /\ view.single = single
      /\ view.staged = {StagedImpact(site, reqs, committed, base, staged, S) :
                          S \in {staged \cap DOMAIN single} \ {{}}}
      /\ view.supplier = {what(S) : S \in {{po \in DOMAIN single : SupplierKey(po) = s} :
                                             s \in {SupplierKey(po) : po \in DOMAIN single}}}
      /\ view.bundle = Bundles(site, reqs, committed, base, single)
  BY DEF ImpactPage, Calculation, PageOn
<1>5. /\ \A S : what(S).pos = S
      /\ \A S : StagedImpact(site, reqs, committed, base, staged, S).pos = S
  BY DEF WhatIf, StagedImpact, Impact
<1>6. \A b \in Bundles(site, reqs, committed, base, single) :
        \E B \in SUBSET DOMAIN single : b.bundle = what(B)
  <2> DEFINE T == Tried(site, reqs, DOMAIN single)
             sets == UNION {kSubset(n, T) : n \in 2 .. MaxBundle}
  <2>1. \A X \in sets : X \in SUBSET T
    BY DEF kSubset
  <2>2. T \in SUBSET DOMAIN single
    <3> HIDE DEF single, reqs
    <3> QED BY DEF Tried
  <2>3. \A b \in Bundles(site, reqs, committed, base, single) : \E B \in sets : b.bundle = what(B)
    BY DEF Bundles
  <2> HIDE DEF sets, T, what, single
  <2> QED BY <2>1, <2>2, <2>3
<1>7. OneOrder(reqs)
  OBVIOUS
<1>8. \A X \in SUBSET all : IsSupply(X)
  BY <1>1, FS_Subset DEF IsSupply
<1> HIDE DEF view, single, reqs, all, committed, staged
<1>9. ASSUME NEW S \in SUBSET DOMAIN single PROVE exact(what(S), S)
  <2>1. IsSupply(committed \cup S)
    BY <1>2, <1>3, <1>8
  <2> QED BY <1>1, <1>7, <2>1, WhatIfExact
<1>10. exact(StagedImpact(site, reqs, committed, base, staged, staged \cap DOMAIN single),
             staged \cap DOMAIN single)
  <2> DEFINE shown == staged \cap DOMAIN single
  <2>1. IsSupply(committed \cup staged)
    BY <1>2, <1>8
  <2>2. \A po : PotentialJobs(site, reqs, po) \subseteq JobsOf(reqs)
    BY DEF PotentialJobs, JobsOf
  <2>3. \A po \in staged \ shown : po \in all \ committed /\ po \notin DOMAIN single
    BY <1>2 DEF staged
  <2>4. \A po \in staged \ shown : PotentialJobs(site, reqs, po) \subseteq base.readyJobs
    BY <1>3, <2>2, <2>3
  <2>5. shown \in SUBSET staged
    OBVIOUS
  <2> HIDE DEF shown
  <2>6. exact(StagedImpact(site, reqs, committed, base, staged, shown), shown)
    BY <1>1, <1>7, <2>1, <2>4, <2>5, StagedExact
  <2> QED BY <2>6 DEF shown
<1> HIDE DEF base
<1>11. ASSUME NEW impact \in Impacts(view) PROVE exact(impact, impact.pos)
  <2>1. \/ \E po \in DOMAIN view.single : impact = view.single[po]
        \/ impact \in view.staged \/ impact \in view.supplier
        \/ \E b \in view.bundle : impact = b.bundle
    BY <1>11 DEF Impacts
  <2>2. \/ \E S \in SUBSET DOMAIN single : impact = what(S)
        \/ impact = StagedImpact(site, reqs, committed, base, staged, staged \cap DOMAIN single)
    <3> HIDE DEF what
    <3>1. CASE \E po \in DOMAIN view.single : impact = view.single[po]
      BY <1>3, <1>4, <3>1
    <3>2. CASE impact \in view.staged
      BY <1>4, <3>2
    <3>3. CASE impact \in view.supplier
      BY <1>4, <3>3
    <3>4. CASE \E b \in view.bundle : impact = b.bundle
      BY <1>4, <1>6, <3>4
    <3> QED BY <2>1, <3>1, <3>2, <3>3, <3>4
  <2> HIDE DEF exact, what
  <2> QED BY <1>5, <1>9, <1>10, <2>2
<1> QED BY <1>11 DEF WhatIfIsExactFor, reqs, committed, view, base

(* Two releases that only together make a job ready both reach it.         *)
LEMMA TogetherReach ==
  ASSUME NEW site, NEW reqs, IsAsked(site, reqs), NEW committed, NEW B, IsSupply(committed \cup B),
         NEW po \in B, NEW j \in Simulate(site, reqs, committed \cup B).readyJobs,
         NEW rest, B = {po, rest}, j \notin Simulate(site, reqs, committed \cup {rest}).readyJobs
  PROVE  j \in PotentialJobs(site, reqs, po) /\ j \in JobsOf(reqs)
<1> DEFINE more == committed \cup B
           less == committed \cup {rest}
           now == Owed(site, reqs, more)
           was == Owed(site, reqs, less)
<1>1. less \in SUBSET more /\ IsSupply(more) /\ more \ less \in SUBSET {po}
  OBVIOUS
<1>2. IsSupply(less)
  BY <1>1, FS_Subset DEF IsSupply
<1> HIDE DEF more, less
<1>3. Shows(Simulate(site, reqs, more), reqs, now) /\ Shows(Simulate(site, reqs, less), reqs, was)
  BY <1>1, <1>2, FullShows
<1>4. Relieves(site, reqs, was, now, more \ less)
  BY <1>1, SelectionRelieves
<1> HIDE DEF was, now
<1>5. j \in Simulate(site, reqs, more).readyJobs /\ j \notin Simulate(site, reqs, less).readyJobs
  BY DEF more, less
<1>6. j \in JobsOf(reqs) /\ \A r \in OfJob(reqs, j) : now[r] = 0
  BY <1>3, <1>5 DEF Shows
<1>7. PICK r \in OfJob(reqs, j) : was[r] # 0
  BY <1>3, <1>5, <1>6 DEF Shows
<1>8. r \in reqs /\ r.job = j /\ now[r] # was[r]
  BY <1>6, <1>7 DEF OfJob
<1>9. PICK x \in more \ less : r.job \in PotentialJobs(site, reqs, x)
  BY <1>4, <1>8 DEF Relieves
<1> QED BY <1>1, <1>6, <1>8, <1>9

LEMMA Pairs ==
  ASSUME NEW S, IsFiniteSet(S), NEW B \in kSubset(2, S)
  PROVE  B \in SUBSET S /\ B # {} /\ \A x \in B : \E y \in B : B = {x, y}
<1>1. B \in SUBSET S /\ Cardinality(B) = 2
  BY DEF kSubset
<1>2. IsFiniteSet(B)
  BY <1>1, FS_Subset
<1>3. ASSUME NEW x \in B PROVE \E y \in B : B = {x, y}
  <2>1. Cardinality(B \ {x}) = 1 /\ IsFiniteSet(B \ {x})
    BY <1>1, <1>2, FS_RemoveElement
  <2>2. \E y : B \ {x} = {y}
    BY <2>1, FS_Singleton
  <2> QED BY <2>2
<1> QED BY <1>1, <1>3, FS_EmptySet

(* All the releases are tried unless they are too many.                    *)
LEMMA FewAreTried ==
  ASSUME NEW site, NEW reqs, IsFiniteSet(reqs), NEW pos, IsFiniteSet(pos),
         \A po \in pos : po.value \in Int /\ po.id \in Int, Cardinality(pos) <= MaxCandidates
  PROVE  Tried(site, reqs, pos) = pos
<1> SUFFICES ASSUME NEW po \in pos
             PROVE  Cardinality({x \in pos : TriedBefore(site, reqs, x, po)}) < MaxCandidates
  BY DEF Tried
<1> DEFINE ahead == {x \in pos : TriedBefore(site, reqs, x, po)}
           reach == PotentialJobs(site, reqs, po)
           rows == {r \in reqs : r.material = po.material /\ InTimeFor(po, r, site.lead[r.group])}
           job == [r \in rows |-> r.job]
<1>1. Cardinality(reach) \in Nat
  <2>1. IsFiniteSet(rows)
    BY FS_Subset
  <2>2. reach = Images(job, rows)
    BY DEF PotentialJobs, Images
  <2> HIDE DEF rows, job, reach
  <2> QED BY <2>1, <2>2, ImageFinite, FS_CardinalityType
<1>2. ~TriedBefore(site, reqs, po, po)
  <2> HIDE DEF reach
  <2>1. po.value \in Int /\ po.id \in Int
    OBVIOUS
  <2> QED BY <1>1, <2>1 DEF TriedBefore, reach
<1>3. ahead \in SUBSET pos /\ po \notin ahead
  BY <1>2
<1> HIDE DEF ahead
<1>4. Cardinality(ahead) < Cardinality(pos) /\ Cardinality(ahead) \in Nat /\ Cardinality(pos) \in Nat
  BY <1>3, FS_Subset, FS_CardinalityType
<1>5. Cardinality(ahead) < MaxCandidates
  BY <1>4, BundleAssumption
<1> QED BY <1>5 DEF ahead

(* release_impact.py: no pair of releases that only together make a job    *)
(* ready is missed, though the code looks only at releases that alone      *)
(* could reach a blocked job, at the first of those, and at pairs that     *)
(* share a job both can reach.                                             *)
THEOREM NoPairIsMissed ==
  ASSUME NEW site, SiteTables(site), NEW scope \in SUBSET DOMAIN site.lead,
         OneOrder(Requirements(site, scope)), NEW committedKeys
  PROVE  BundlesCompleteFor(site, scope, committedKeys)
<1> DEFINE reqs == Requirements(site, scope)
           all == AllCandidates(site, scope)
           committed == CommittedOf(site, scope, committedKeys)
           base == Simulate(site, reqs, committed)
           single == SingleImpacts(site, reqs, all, committed, base)
           view == ImpactPage(site, scope, committedKeys, {})
           after(S) == Simulate(site, reqs, committed \cup S)
           ready(S) == after(S).readyJobs
           what(S) == WhatIf(site, reqs, committed, base, S)
           together(B) == ready(B) \ UNION {ready({po}) : po \in B}
           missing(x) == x.jobs \ UNION {single[po].jobs : po \in x.pos}
           shared(B) == {j \in JobsOf(reqs) : \A po \in B : j \in PotentialJobs(site, reqs, po)}
           tried == Tried(site, reqs, DOMAIN single)
<1>1. IsAsked(site, reqs) /\ IsSupply(all) /\ OneOrder(reqs)
  BY PageReads
<1>2. committed \in SUBSET all
  BY DEF CommittedOf
<1>3. /\ DOMAIN single = {x \in all \ committed :
                           PotentialJobs(site, reqs, x) \cap (JobsOf(reqs) \ base.readyJobs) # {}}
      /\ \A po \in DOMAIN single : single[po] = what({po})
  BY DEF SingleImpacts
<1>4. view.bundle = Bundles(site, reqs, committed, base, single)
  BY DEF ImpactPage, Calculation, PageOn
<1>5. \A B : B \in kSubset(2, tried) /\ shared(B) # {} /\ missing(what(B)) # {} =>
        [bundle |-> what(B), synergy |-> missing(what(B))]
          \in Bundles(site, reqs, committed, base, single)
  <2> SUFFICES ASSUME NEW B \in kSubset(2, tried), shared(B) # {}, missing(what(B)) # {}
               PROVE  [bundle |-> what(B), synergy |-> missing(what(B))]
                        \in Bundles(site, reqs, committed, base, single)
    OBVIOUS
  <2>1. 2 \in 2 .. MaxBundle
    BY BundleAssumption
  <2>2. B \in UNION {kSubset(n, tried) : n \in 2 .. MaxBundle}
    BY <2>1
  <2> HIDE DEF single, base, committed, reqs
  <2> QED BY <2>2, Zenon DEF Bundles
<1>6. \A X \in SUBSET all : IsSupply(X) /\ IsFiniteSet(X)
  BY <1>1, FS_Subset DEF IsSupply
<1>7. \A S : what(S).pos = S
  BY DEF WhatIf, Impact
<1>8. view.single = single
  BY DEF ImpactPage, Calculation, PageOn
<1> HIDE DEF view, single, reqs, all, committed, base, tried
<1>9. ASSUME NEW S \in SUBSET all
      PROVE  what(S).jobs = ready(S) \ base.readyJobs /\ base.readyJobs \subseteq ready(S)
  <2>1. IsSupply(committed \cup S)
    BY <1>2, <1>6
  <2>2. Exact(reqs, what(S), base, after(S))
    BY <1>1, <2>1, WhatIfExact DEF base
  <2> QED BY <2>2 DEF Exact
<1>10. ASSUME NEW B \in kSubset(2, all \ committed), together(B) # {}
      PROVE  /\ B \subseteq DOMAIN single
             /\ (B \subseteq tried =>
                   \E b \in view.bundle : b.bundle.pos = B /\ b.synergy = together(B))
  <2>1. B \in SUBSET (all \ committed) /\ B # {} /\ \A x \in B : \E y \in B : B = {x, y}
    BY <1>6, <1>10, Pairs
  <2>2. IsSupply(committed \cup B)
    BY <1>2, <1>6, <2>1
  <2>3. ASSUME NEW j \in together(B), NEW po \in B
        PROVE  j \in PotentialJobs(site, reqs, po) /\ j \in JobsOf(reqs) /\ j \notin base.readyJobs
    <3>1. PICK rest \in B : B = {po, rest}
      BY <2>1
    <3>2. j \in ready(B) /\ \A x \in B : j \notin ready({x})
      OBVIOUS
    <3>6. /\ j \in Simulate(site, reqs, committed \cup B).readyJobs
          /\ j \notin Simulate(site, reqs, committed \cup {rest}).readyJobs
      BY <3>2
    <3>3. j \in PotentialJobs(site, reqs, po) /\ j \in JobsOf(reqs)
      BY <1>1, <2>2, <3>1, <3>6, TogetherReach
    <3>4. {po} \in SUBSET all
      BY <2>1
    <3>5. j \notin base.readyJobs
      BY <1>9, <3>2, <3>4
    <3> QED BY <3>3, <3>5
  <2>4. B \in SUBSET DOMAIN single
    BY <1>3, <1>10, <2>1, <2>3
  <2>5. B \subseteq tried => B \in kSubset(2, tried)
    BY <1>10 DEF kSubset
  <2>6. shared(B) # {}
    <3>1. PICK j : j \in together(B)
      BY <1>10
    <3> HIDE DEF together
    <3>2. j \in shared(B)
      BY <2>1, <2>3, <3>1
    <3> QED BY <3>2
  <2>7. missing(what(B)) = together(B)
    <3>1. B # {} /\ B \in SUBSET all /\ \A po \in B : {po} \in SUBSET all
      BY <1>10, <2>1
    <3>2. \A po \in B : single[po].jobs = ready({po}) \ base.readyJobs
                        /\ base.readyJobs \subseteq ready({po})
      BY <1>3, <1>9, <2>4, <3>1
    <3>3. what(B).jobs = ready(B) \ base.readyJobs
      BY <1>9, <3>1
    <3>4. missing(what(B)) = what(B).jobs \ UNION {single[po].jobs : po \in B}
      BY <1>7
    <3> HIDE DEF what, ready, missing
    <3>5. \A j : j \notin base.readyJobs =>
            (j \in UNION {single[po].jobs : po \in B} <=> j \in UNION {ready({po}) : po \in B})
      BY <3>2
    <3>6. base.readyJobs \subseteq UNION {ready({po}) : po \in B}
      BY <3>1, <3>2
    <3> QED BY <3>3, <3>4, <3>5, <3>6
  <2>8. B \subseteq tried => [bundle |-> what(B), synergy |-> missing(what(B))] \in view.bundle
    <3> HIDE DEF missing, together, what, shared
    <3> QED BY <1>4, <1>5, <1>10, <2>5, <2>6, <2>7
  <2> HIDE DEF missing, together, what
  <2> QED BY <1>7, <2>4, <2>7, <2>8
<1>11. BundlesCompleteFor(site, scope, committedKeys) =
         \A B \in kSubset(2, all \ committed) : together(B) # {} =>
           /\ B \subseteq DOMAIN view.single
           /\ B \subseteq Tried(site, reqs, DOMAIN view.single) =>
                \E b \in view.bundle : b.bundle.pos = B /\ b.synergy = together(B)
  BY Zenon DEF BundlesCompleteFor, all, committed, view, reqs
<1> HIDE DEF together
<1>12. Tried(site, reqs, DOMAIN view.single) = tried
  BY <1>8 DEF tried
<1>13. \A B \in kSubset(2, all \ committed) : together(B) # {} =>
           /\ B \subseteq DOMAIN view.single
           /\ B \subseteq Tried(site, reqs, DOMAIN view.single) =>
                \E b \in view.bundle : b.bundle.pos = B /\ b.synergy = together(B)
  <2> SUFFICES ASSUME NEW B \in kSubset(2, all \ committed), together(B) # {}
               PROVE  /\ B \subseteq DOMAIN view.single
                      /\ B \subseteq Tried(site, reqs, DOMAIN view.single) =>
                           \E b \in view.bundle : b.bundle.pos = B /\ b.synergy = together(B)
    OBVIOUS
  <2> QED BY <1>8, <1>10, <1>12
<1> QED BY <1>11, <1>13, Zenon

(* The bounded tables have both groups, and every job is for one order.    *)
HasOrders(site) == /\ SiteTables(site) /\ {"fabric", "component"} \in SUBSET DOMAIN site.lead
                   /\ \A r \in site.rows : r.so = r.job
ImpactInputs == On("materials") => HasOrders(page.in)

LEMMA SiteInputs == \A site \in Sites : HasOrders(site)
<1> SUFFICES ASSUME NEW site \in Sites PROVE HasOrders(site)
  OBVIOUS
<1>1. \E n, due, job, d1, q, m, d3, stock : site = Site(n, due, job, d1, q, m, d3, stock)
  <2> DEFINE A == [1 .. 3 -> 0 .. 2]   B == {1, 3, NoDate}   C == {-1, 1, 2}   D == {1, NoDate}
             M == {"m1", "m2"}   F == 1 .. 2   G == -1 .. 1
  <2>1. site \in {Site(n, due, job, d1, q, m, d3, stock) :
                    n \in A, due \in B, job \in F, d1 \in C, q \in F, m \in M, d3 \in D, stock \in G}
    BY DEF Sites
  <2> HIDE DEF A, B, C, D, F, G, M
  <2> QED BY <2>1
<1>2. PICK n, due, job, d1, q, m, d3, stock : site = Site(n, due, job, d1, q, m, d3, stock)
  BY <1>1
<1>3. /\ site.lead = [fabric |-> 1, component |-> 0]
      /\ site.rows = {ReqRow(1, "m1", 1, 1, n[1]), ReqRow(2, "m1", 2, due, n[2]),
                      ReqRow(3, "m2", job, 2, n[3])}
  BY <1>2 DEF Site
<1>4. \A r \in site.rows : r.so = r.job
  BY <1>3 DEF ReqRow
<1>5. {"fabric", "component"} \in SUBSET DOMAIN site.lead
  BY <1>3
<1> QED BY <1>4, <1>5, NettingInputs DEF HasOrders

(* release_impact.py: on every page of a material, what is said of every   *)
(* release, supplier and bundle is what netting everything again shows.    *)
THEOREM WhatIfStands == PagesSpec => []WhatIfIsExact
<1>1. NoPage => ImpactInputs
  BY DEF NoPage, ImpactInputs, On
<1>2. ImpactInputs /\ [OpenPage]_page => ImpactInputs'
  <2> SUFFICES ASSUME ImpactInputs, OpenPage PROVE ImpactInputs'
    BY DEF ImpactInputs, On
  <2>1. CASE OpenMaterials
    <3>1. PICK site \in Sites : page' = [kind |-> "materials", in |-> site]
      BY <2>1 DEF OpenMaterials, Open
    <3>2. page'.in = site
      BY <3>1
    <3> QED BY <3>2, SiteInputs DEF ImpactInputs
  <2>2. CASE ~OpenMaterials
    <3>1. page'.kind # "materials"
      BY <2>2 DEF OpenPage, OpenSales, OpenMonths, OpenFloor, OpenOutput, OpenBoard, OpenTransport,
         OpenBay, Open
    <3> QED BY <3>1 DEF ImpactInputs, On
  <2> QED BY <2>1, <2>2
<1>3. ImpactInputs => WhatIfIsExact
  <2> SUFFICES ASSUME ImpactInputs, On("materials") PROVE WhatIfIsExact
    BY DEF WhatIfIsExact
  <2> DEFINE site == page.in   scope == {"fabric", "component"}
  <2>1. SiteTables(site) /\ scope \in SUBSET DOMAIN site.lead /\ \A r \in site.rows : r.so = r.job
    BY DEF ImpactInputs, HasOrders
  <2>2. OneOrder(Requirements(site, scope))
    <3>1. Requirements(site, scope) \in SUBSET site.rows
      BY DEF Requirements, Assessed
    <3> HIDE DEF site, scope
    <3> QED BY <2>1, <3>1 DEF OneOrder
  <2> HIDE DEF site, scope
  <2>3. \A committed : WhatIfIsExactFor(site, scope, committed, {1, 2})
    BY <2>1, <2>2, FiguresAreExact
  <2>4. BundlesCompleteFor(site, scope, {})
    BY <2>1, <2>2, NoPairIsMissed
  <2> QED BY <2>3, <2>4 DEF WhatIfIsExact, site, scope
<1> QED BY <1>1, <1>2, <1>3, PTL DEF PagesSpec
=============================================================================
