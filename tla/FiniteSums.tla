----------------------------- MODULE FiniteSums -----------------------------
(***************************************************************************)
(* Facts about the finite sums, minima and maxima the rollup rows are made *)
(* of.  The library's induction theorems take an operator as a parameter;  *)
(* the inductions here go by a least counterexample instead: the sizes of  *)
(* the counterexamples are a set of naturals, which has a least element.   *)
(***************************************************************************)
EXTENDS Integers, FiniteSets, FiniteSetsExt, Functions, FiniteSetTheorems,
        WellFoundedInduction, TLAPS

\* Every nonempty set of natural numbers has a least element.
LEMMA LeastNat ==
  ASSUME NEW T \in SUBSET Nat, T # {}
  PROVE  \E n \in T : \A m \in T : n <= m
<1> DEFINE Less == {ss \in Nat \X Nat : ss[1] < ss[2]}
<1>1. Less = OpToRel(<, Nat)
  BY DEF OpToRel
<1>2. IsWellFoundedOn(Less, Nat)
  BY <1>1, NatLessThanWellFounded
<1>3. PICK n \in T : \A m \in T : ~ (<<m, n>> \in Less)
  <2> HIDE DEF Less
  <2> QED  BY <1>2, WFMin
<1>4. ASSUME NEW m \in T  PROVE n <= m
  <2>1. m \in Nat /\ n \in Nat
    OBVIOUS
  <2>2. ~ (<<m, n>> \in Less)
    BY <1>3
  <2>3. ~ (m < n)
    BY <2>1, <2>2
  <2> QED  BY <2>1, <2>3
<1> QED
  BY <1>4

\* The table of partial sums that SumFunctionOnSet builds.
SumTable(it, f, S) ==
  it = [s \in SUBSET S |->
          IF s = {} THEN 0
          ELSE f[CHOOSE x \in s : TRUE] + it[s \ {CHOOSE x \in s : TRUE}]]

LEMMA SumIsChosenTable ==
  ASSUME NEW f, NEW S
  PROVE  SumFunctionOnSet(f, S) = (CHOOSE it : SumTable(it, f, S))[S]
BY DEF SumFunctionOnSet, FoldFunctionOnSet, MapThenFoldSet, SumTable

\* The size of a finite set drops when an element leaves it.
LEMMA RemoveShrinks ==
  ASSUME NEW S, IsFiniteSet(S), NEW x \in S
  PROVE  /\ IsFiniteSet(S \ {x})
         /\ Cardinality(S) \in Nat
         /\ Cardinality(S \ {x}) \in Nat
         /\ Cardinality(S \ {x}) = Cardinality(S) - 1
         /\ Cardinality(S \ {x}) < Cardinality(S)
<1>1. IsFiniteSet(S \ {x}) /\ Cardinality(S \ {x}) = Cardinality(S) - 1
  BY FS_RemoveElement
<1>2. Cardinality(S) \in Nat /\ Cardinality(S \ {x}) \in Nat
  BY <1>1, FS_CardinalityType
<1> QED
  BY <1>1, <1>2

\* Two tables of partial sums agree on the finite sets both are about.
LEMMA SumTableUnique ==
  ASSUME NEW f, NEW S, NEW T, NEW it, NEW jt,
         SumTable(it, f, S), SumTable(jt, f, T),
         NEW s, s \subseteq S, s \subseteq T, IsFiniteSet(s)
  PROVE  it[s] = jt[s]
<1> DEFINE Bad == {u \in SUBSET s : it[u] # jt[u]}
           Sizes == {n \in Nat : \E u \in Bad : n = Cardinality(u)}
<1>1. SUFFICES ASSUME it[s] # jt[s]  PROVE FALSE
  OBVIOUS
<1>2. \A u \in SUBSET s : IsFiniteSet(u) /\ Cardinality(u) \in Nat
  BY FS_Subset, FS_CardinalityType
<1>3. Sizes # {} /\ Sizes \in SUBSET Nat
  BY <1>1, <1>2
<1>4. PICK n \in Sizes : \A m \in Sizes : n <= m
  <2> HIDE DEF Sizes
  <2> QED  BY <1>3, LeastNat
<1>5. PICK u \in Bad : n = Cardinality(u)
  OBVIOUS
<1> DEFINE c == CHOOSE x \in u : TRUE
<1>6. it[u] = (IF u = {} THEN 0 ELSE f[c] + it[u \ {c}])
  BY DEF SumTable
<1>7. jt[u] = (IF u = {} THEN 0 ELSE f[c] + jt[u \ {c}])
  BY DEF SumTable
<1>8. u # {}
  BY <1>6, <1>7
<1>9. c \in u
  BY <1>8
<1>10. Cardinality(u \ {c}) \in Nat /\ Cardinality(u \ {c}) < n
  <2> HIDE DEF c
  <2> QED  BY <1>2, <1>5, <1>9, RemoveShrinks
<1>11. it[u \ {c}] = jt[u \ {c}]
  <2>1. SUFFICES ASSUME u \ {c} \in Bad  PROVE FALSE
    OBVIOUS
  <2>2. Cardinality(u \ {c}) \in Sizes
    BY <2>1, <1>10
  <2>3. n <= Cardinality(u \ {c})
    BY <2>2, <1>4
  <2> QED  BY <2>3, <1>10, <1>3
<1> QED
  BY <1>6, <1>7, <1>8, <1>11

\* A finite set has a table of partial sums, and its entries are naturals.
LEMMA SumTableExists ==
  ASSUME NEW X, NEW f \in [X -> Nat], NEW S \in SUBSET X, IsFiniteSet(S)
  PROVE  \E it \in [SUBSET S -> Nat] : SumTable(it, f, S)
<1> DEFINE c(s) == CHOOSE x \in s : TRUE
           Entry(it, s) == it[s] = IF s = {} THEN 0 ELSE f[c(s)] + it[s \ {c(s)}]
           Level(n) == \E it \in [SUBSET S -> Nat] :
                         \A s \in SUBSET S : Cardinality(s) <= n => Entry(it, s)
           Bad == {n \in Nat : ~ Level(n)}
<1>1. \A s \in SUBSET S : IsFiniteSet(s) /\ Cardinality(s) \in Nat
  BY FS_Subset, FS_CardinalityType
<1>2. \A s \in SUBSET S : s # {} => /\ c(s) \in s
                                   /\ f[c(s)] \in Nat
                                   /\ s \ {c(s)} \in SUBSET S
                                   /\ Cardinality(s \ {c(s)}) = Cardinality(s) - 1
  <2> SUFFICES ASSUME NEW s \in SUBSET S, s # {}
               PROVE  /\ c(s) \in s
                      /\ f[c(s)] \in Nat
                      /\ s \ {c(s)} \in SUBSET S
                      /\ Cardinality(s \ {c(s)}) = Cardinality(s) - 1
    OBVIOUS
  <2>1. c(s) \in s
    OBVIOUS
  <2> HIDE DEF c
  <2>2. f[c(s)] \in Nat /\ s \ {c(s)} \in SUBSET S
    BY <2>1
  <2>3. Cardinality(s \ {c(s)}) = Cardinality(s) - 1
    BY <2>1, <1>1, RemoveShrinks
  <2> QED  BY <2>1, <2>2, <2>3
<1>3. \A s \in SUBSET S : Cardinality(s) <= 0 => s = {}
  BY <1>1, FS_EmptySet
<1> HIDE DEF c
<1>4. Level(0)
  <2> DEFINE zero == [s \in SUBSET S |-> 0]
  <2>1. zero \in [SUBSET S -> Nat]
    OBVIOUS
  <2>2. \A s \in SUBSET S : Cardinality(s) <= 0 => Entry(zero, s)
    BY <1>3
  <2> QED  BY <2>1, <2>2
<1>5. ASSUME NEW n \in Nat, Level(n)  PROVE Level(n + 1)
  <2>1. PICK it \in [SUBSET S -> Nat] :
          \A s \in SUBSET S : Cardinality(s) <= n => Entry(it, s)
    BY <1>5
  <2> DEFINE jt == [s \in SUBSET S |->
                     IF Cardinality(s) <= n THEN it[s] ELSE f[c(s)] + it[s \ {c(s)}]]
  <2>2. ASSUME NEW s \in SUBSET S  PROVE jt[s] \in Nat
    <3>1. CASE Cardinality(s) <= n
      BY <3>1
    <3>2. CASE ~ (Cardinality(s) <= n)
      <4>1. Cardinality({}) <= n
        BY FS_EmptySet
      <4>2. s # {}
        BY <3>2, <4>1
      <4> QED  BY <3>2, <4>2, <1>2
    <3> QED  BY <3>1, <3>2
  <2>3. jt \in [SUBSET S -> Nat]
    BY <2>2
  <2>4. ASSUME NEW s \in SUBSET S, Cardinality(s) <= n + 1  PROVE Entry(jt, s)
    <3>1. CASE s = {}
      <4>1. Cardinality(s) <= n
        BY <3>1, FS_EmptySet
      <4>2. it[s] = 0
        BY <4>1, <3>1, <2>1
      <4> QED  BY <3>1, <4>1, <4>2
    <3>2. CASE s # {}
      <4>1. s \ {c(s)} \in SUBSET S /\ Cardinality(s \ {c(s)}) <= n
        BY <3>2, <1>2, <1>1, <2>4
      <4>2. jt[s \ {c(s)}] = it[s \ {c(s)}]
        BY <4>1
      <4>3. jt[s] = f[c(s)] + it[s \ {c(s)}]
        <5>1. CASE Cardinality(s) <= n
          <6>1. it[s] = f[c(s)] + it[s \ {c(s)}]
            BY <5>1, <3>2, <2>1
          <6> QED  BY <5>1, <6>1
        <5>2. CASE ~ (Cardinality(s) <= n)
          BY <5>2
        <5> QED  BY <5>1, <5>2
      <4> QED  BY <3>2, <4>2, <4>3
    <3> QED  BY <3>1, <3>2
  <2> HIDE DEF jt
  <2> QED  BY <2>3, <2>4
<1>6. Bad = {}
  <2> HIDE DEF Level
  <2>1. SUFFICES ASSUME Bad # {}  PROVE FALSE
    OBVIOUS
  <2>2. PICK n \in Bad : \A m \in Bad : n <= m
    <3>1. Bad \in SUBSET Nat
      OBVIOUS
    <3> HIDE DEF Bad
    <3> QED  BY <2>1, <3>1, LeastNat
  <2>3. n \in Nat /\ ~ Level(n)
    OBVIOUS
  <2>4. n # 0
    BY <2>3, <1>4
  <2>5. n - 1 \in Nat /\ ~ (n <= n - 1)
    BY <2>3, <2>4
  <2>6. Level(n - 1)
    BY <2>2, <2>5
  <2>7. Level((n - 1) + 1)
    BY <2>5, <2>6, <1>5
  <2>8. (n - 1) + 1 = n
    BY <2>3
  <2> QED  BY <2>3, <2>7, <2>8
<1>7. Level(Cardinality(S))
  BY <1>6, <1>1
<1>8. PICK it \in [SUBSET S -> Nat] :
        \A s \in SUBSET S : Cardinality(s) <= Cardinality(S) => Entry(it, s)
  BY <1>7
<1>9. \A s \in SUBSET S : Cardinality(s) <= Cardinality(S)
  BY FS_Subset
<1>10. \A s \in SUBSET S : it[s] = IF s = {} THEN 0 ELSE f[c(s)] + it[s \ {c(s)}]
  BY <1>8, <1>9
<1>11. it = [s \in SUBSET S |-> it[s]]
  OBVIOUS
<1>12. SumTable(it, f, S)
  BY <1>10, <1>11 DEF SumTable, c
<1> QED
  BY <1>12

\* The entry of a table at the whole set.
LEMMA SumTableTop ==
  ASSUME NEW it, NEW f, NEW S, SumTable(it, f, S)
  PROVE  /\ S = {} => it[S] = 0
         /\ S # {} => it[S] = f[CHOOSE x \in S : TRUE] + it[S \ {CHOOSE x \in S : TRUE}]
BY DEF SumTable

\* The recursion of the sum along the element CHOOSE picks, and its type.
LEMMA SumStep ==
  ASSUME NEW X, NEW f \in [X -> Nat], NEW S \in SUBSET X, IsFiniteSet(S)
  PROVE  /\ SumFunctionOnSet(f, S) \in Nat
         /\ S = {} => SumFunctionOnSet(f, S) = 0
         /\ S # {} => \E x \in S :
                        SumFunctionOnSet(f, S) = f[x] + SumFunctionOnSet(f, S \ {x})
<1> DEFINE Table(R) == CHOOSE it : SumTable(it, f, R)
<1>1. ASSUME NEW R \in SUBSET S
      PROVE  /\ SumTable(Table(R), f, R)
             /\ SumFunctionOnSet(f, R) = Table(R)[R]
  <2>1. IsFiniteSet(R) /\ R \in SUBSET X
    BY FS_Subset
  <2>2. \E it : SumTable(it, f, R)
    BY <2>1, SumTableExists
  <2> QED  BY <2>2, SumIsChosenTable
<1>2. SumFunctionOnSet(f, S) \in Nat
  <2>1. PICK it \in [SUBSET S -> Nat] : SumTable(it, f, S)
    BY SumTableExists
  <2>2. SumTable(Table(S), f, S)
    BY <1>1
  <2> HIDE DEF Table
  <2>3. Table(S)[S] = it[S]
    BY <2>1, <2>2, SumTableUnique
  <2> QED  BY <1>1, <2>1, <2>3
<1> DEFINE it == Table(S)
<1>3. SumTable(it, f, S) /\ SumFunctionOnSet(f, S) = it[S]
  BY <1>1
<1>4. /\ S = {} => it[S] = 0
      /\ S # {} => it[S] = f[CHOOSE x \in S : TRUE] + it[S \ {CHOOSE x \in S : TRUE}]
  <2> HIDE DEF it
  <2> QED  BY <1>3, SumTableTop
<1>5. S = {} => SumFunctionOnSet(f, S) = 0
  <2> HIDE DEF it
  <2> QED  BY <1>3, <1>4
<1>6. ASSUME S # {}
      PROVE  \E x \in S :
               SumFunctionOnSet(f, S) = f[x] + SumFunctionOnSet(f, S \ {x})
  <2> DEFINE x == CHOOSE y \in S : TRUE
  <2>1. x \in S
    BY <1>6
  <2>2. SumFunctionOnSet(f, S) = f[x] + it[S \ {x}]
    <3> HIDE DEF it
    <3> QED  BY <1>6, <1>3, <1>4
  <2> HIDE DEF x, Table
  <2>3. SumTable(Table(S), f, S) /\ SumTable(Table(S \ {x}), f, S \ {x})
    BY <1>1
  <2>4. Table(S)[S \ {x}] = Table(S \ {x})[S \ {x}]
    <3>1. IsFiniteSet(S \ {x})
      BY FS_Subset
    <3> QED  BY <2>3, <3>1, SumTableUnique
  <2> QED  BY <1>1, <2>1, <2>2, <2>4
<1> QED
  BY <1>2, <1>5, <1>6

\* A sum may be taken apart at any of its elements.
LEMMA SumRemove ==
  ASSUME NEW X, NEW f \in [X -> Nat], NEW S \in SUBSET X, IsFiniteSet(S),
         NEW x \in S
  PROVE  SumFunctionOnSet(f, S) = f[x] + SumFunctionOnSet(f, S \ {x})
<1> DEFINE Sum(R) == SumFunctionOnSet(f, R)
           Good(R) == \A y \in R : Sum(R) = f[y] + Sum(R \ {y})
           Sizes == {n \in Nat : \E R \in SUBSET S : ~ Good(R) /\ n = Cardinality(R)}
<1>1. ASSUME NEW R \in SUBSET S
      PROVE  /\ IsFiniteSet(R) /\ R \in SUBSET X
             /\ Cardinality(R) \in Nat
             /\ Sum(R) \in Nat
             /\ R # {} => \E z \in R : Sum(R) = f[z] + Sum(R \ {z})
  <2>1. IsFiniteSet(R) /\ R \in SUBSET X /\ Cardinality(R) \in Nat
    BY FS_Subset, FS_CardinalityType
  <2> QED  BY <2>1, SumStep
<1> HIDE DEF Sum
<1>2. Sizes = {}
  <2>1. SUFFICES ASSUME Sizes # {}  PROVE FALSE
    OBVIOUS
  <2>2. PICK n \in Sizes : \A m \in Sizes : n <= m
    <3>1. Sizes \in SUBSET Nat
      OBVIOUS
    <3> HIDE DEF Sizes
    <3> QED  BY <2>1, <3>1, LeastNat
  <2>3. PICK R \in SUBSET S : ~ Good(R) /\ n = Cardinality(R)
    OBVIOUS
  <2>4. PICK y \in R : Sum(R) # f[y] + Sum(R \ {y})
    BY <2>3
  <2>5. PICK z \in R : Sum(R) = f[z] + Sum(R \ {z})
    BY <1>1
  <2>6. y # z
    BY <2>4, <2>5
  <2>7. ASSUME NEW w \in R  PROVE Good(R \ {w})
    <3>1. R \ {w} \in SUBSET S /\ Cardinality(R \ {w}) \in Nat /\ Cardinality(R \ {w}) < n
      BY <2>3, <1>1, RemoveShrinks
    <3>2. SUFFICES ASSUME ~ Good(R \ {w})  PROVE FALSE
      OBVIOUS
    <3>3. Cardinality(R \ {w}) \in Sizes
      BY <3>1, <3>2
    <3> HIDE DEF Sizes, Good
    <3>4. n <= Cardinality(R \ {w}) /\ n \in Nat
      BY <3>3, <2>2, <2>3, <1>1
    <3> QED  BY <3>1, <3>4
  <2>8. Sum(R \ {z}) = f[y] + Sum((R \ {z}) \ {y})
    BY <2>6, <2>7
  <2>9. Sum(R \ {y}) = f[z] + Sum((R \ {y}) \ {z})
    BY <2>6, <2>7
  <2>10. (R \ {z}) \ {y} = (R \ {y}) \ {z}
    OBVIOUS
  <2> DEFINE rest == (R \ {y}) \ {z}
  <2>11. Sum(rest) \in Nat /\ f[y] \in Nat /\ f[z] \in Nat
    BY <1>1
  <2> HIDE DEF rest
  <2>12. Sum(R) = f[z] + (f[y] + Sum(rest))
    BY <2>5, <2>8, <2>10 DEF rest
  <2>13. f[y] + Sum(R \ {y}) = f[y] + (f[z] + Sum(rest))
    BY <2>9 DEF rest
  <2> QED  BY <2>4, <2>11, <2>12, <2>13
<1>3. Good(S)
  BY <1>2, <1>1
<1> QED
  BY <1>3 DEF Sum

\* The sum over a disjoint union is the sum of the sums.
LEMMA SumUnion ==
  ASSUME NEW X, NEW f \in [X -> Nat],
         NEW A \in SUBSET X, IsFiniteSet(A),
         NEW B \in SUBSET X, IsFiniteSet(B), A \cap B = {}
  PROVE  SumFunctionOnSet(f, A \cup B) = SumFunctionOnSet(f, A) + SumFunctionOnSet(f, B)
<1> DEFINE Sum(R) == SumFunctionOnSet(f, R)
           Good(R) == Sum(A \cup R) = Sum(A) + Sum(R)
           Sizes == {n \in Nat : \E R \in SUBSET B : ~ Good(R) /\ n = Cardinality(R)}
<1>1. ASSUME NEW R \in SUBSET B
      PROVE  /\ IsFiniteSet(R) /\ R \in SUBSET X /\ Cardinality(R) \in Nat
             /\ IsFiniteSet(A \cup R) /\ A \cup R \in SUBSET X
             /\ Sum(R) \in Nat /\ Sum(A \cup R) \in Nat /\ Sum(A) \in Nat
             /\ R = {} => Sum(R) = 0
  <2>1. IsFiniteSet(R) /\ R \in SUBSET X /\ Cardinality(R) \in Nat
    BY FS_Subset, FS_CardinalityType
  <2>2. IsFiniteSet(A \cup R) /\ A \cup R \in SUBSET X
    BY <2>1, FS_Union
  <2> QED  BY <2>1, <2>2, SumStep
<1>2. ASSUME NEW R \in SUBSET B, NEW x \in R
      PROVE  /\ Sum(R) = f[x] + Sum(R \ {x})
             /\ Sum(A \cup R) = f[x] + Sum(A \cup (R \ {x}))
  <2>1. Sum(R) = f[x] + Sum(R \ {x})
    <3>1. IsFiniteSet(R) /\ R \in SUBSET X
      BY <1>1
    <3> QED  BY <3>1, SumRemove
  <2>2. Sum(A \cup R) = f[x] + Sum((A \cup R) \ {x})
    <3>1. IsFiniteSet(A \cup R) /\ A \cup R \in SUBSET X /\ x \in A \cup R
      BY <1>1
    <3> HIDE DEF Sum
    <3>2. SumFunctionOnSet(f, A \cup R) = f[x] + SumFunctionOnSet(f, (A \cup R) \ {x})
      BY <3>1, SumRemove
    <3> QED  BY <3>2 DEF Sum
  <2>3. (A \cup R) \ {x} = A \cup (R \ {x})
    OBVIOUS
  <2> QED  BY <2>1, <2>2, <2>3
<1> HIDE DEF Sum
<1>3. Sizes = {}
  <2>1. SUFFICES ASSUME Sizes # {}  PROVE FALSE
    OBVIOUS
  <2>2. PICK n \in Sizes : \A m \in Sizes : n <= m
    <3>1. Sizes \in SUBSET Nat
      OBVIOUS
    <3> HIDE DEF Sizes
    <3> QED  BY <2>1, <3>1, LeastNat
  <2>3. PICK R \in SUBSET B : ~ Good(R) /\ n = Cardinality(R)
    OBVIOUS
  <2>4. R # {}
    <3>1. SUFFICES ASSUME R = {}  PROVE FALSE
      OBVIOUS
    <3>2. A \cup R = A /\ Sum(R) = 0 /\ Sum(A) \in Nat
      BY <3>1, <1>1
    <3>3. Sum(A \cup R) = Sum(A) + Sum(R)
      BY <3>2
    <3> QED  BY <3>3, <2>3
  <2>5. PICK x \in R : TRUE
    BY <2>4
  <2>6. R \ {x} \in SUBSET B /\ Cardinality(R \ {x}) \in Nat /\ Cardinality(R \ {x}) < n
    BY <2>3, <1>1, RemoveShrinks
  <2>7. Good(R \ {x})
    <3>1. SUFFICES ASSUME ~ Good(R \ {x})  PROVE FALSE
      OBVIOUS
    <3>2. Cardinality(R \ {x}) \in Sizes
      BY <3>1, <2>6
    <3> HIDE DEF Sizes, Good
    <3>3. n <= Cardinality(R \ {x}) /\ n \in Nat
      BY <3>2, <2>2, <2>3, <1>1
    <3> QED  BY <3>3, <2>6
  <2>8. /\ Sum(R) = f[x] + Sum(R \ {x})
        /\ Sum(A \cup R) = f[x] + Sum(A \cup (R \ {x}))
    BY <1>2
  <2>9. f[x] \in Nat /\ Sum(R \ {x}) \in Nat /\ Sum(A) \in Nat
    BY <1>1
  <2>10. Sum(A \cup R) = f[x] + (Sum(A) + Sum(R \ {x}))
    BY <2>7, <2>8
  <2>11. Sum(A) + Sum(R) = Sum(A) + (f[x] + Sum(R \ {x}))
    BY <2>8
  <2> QED  BY <2>3, <2>9, <2>10, <2>11
<1>4. Good(B)
  BY <1>3, <1>1
<1> QED
  BY <1>4 DEF Sum

\* A finite nonempty set of naturals has a greatest element.
LEMMA GreatestNat ==
  ASSUME NEW T \in SUBSET Nat, IsFiniteSet(T), T # {}
  PROVE  \E n \in T : \A m \in T : m <= n
<1> DEFINE Good(R) == R # {} => \E n \in R : \A m \in R : m <= n
           Sizes == {n \in Nat : \E R \in SUBSET T : ~ Good(R) /\ n = Cardinality(R)}
<1>1. \A R \in SUBSET T : IsFiniteSet(R) /\ Cardinality(R) \in Nat
  BY FS_Subset, FS_CardinalityType
<1>2. Sizes = {}
  <2>1. SUFFICES ASSUME Sizes # {}  PROVE FALSE
    OBVIOUS
  <2>2. PICK n \in Sizes : \A m \in Sizes : n <= m
    <3>1. Sizes \in SUBSET Nat
      OBVIOUS
    <3> HIDE DEF Sizes
    <3> QED  BY <2>1, <3>1, LeastNat
  <2>3. PICK R \in SUBSET T : ~ Good(R) /\ n = Cardinality(R)
    OBVIOUS
  <2>4. PICK x \in R : TRUE
    BY <2>3
  <2>5. R \ {x} \in SUBSET T /\ Cardinality(R \ {x}) \in Nat /\ Cardinality(R \ {x}) < n
    BY <2>3, <1>1, RemoveShrinks
  <2>6. Good(R \ {x})
    <3>1. SUFFICES ASSUME ~ Good(R \ {x})  PROVE FALSE
      OBVIOUS
    <3>2. Cardinality(R \ {x}) \in Sizes
      BY <3>1, <2>5
    <3> HIDE DEF Sizes, Good
    <3>3. n <= Cardinality(R \ {x}) /\ n \in Nat
      BY <3>2, <2>2, <2>3, <1>1
    <3> QED  BY <3>3, <2>5
  <2>7. CASE R \ {x} = {}
    <3>1. \A m \in R : m <= x
      BY <2>7
    <3> QED  BY <3>1, <2>3
  <2>8. CASE R \ {x} # {}
    <3>1. PICK y \in R \ {x} : \A m \in R \ {x} : m <= y
      BY <2>6, <2>8
    <3>2. x \in Nat /\ y \in Nat /\ \A m \in R : m \in Nat
      OBVIOUS
    <3>3. CASE x <= y
      <4>1. \A m \in R : m <= y
        BY <3>1, <3>3
      <4> QED  BY <4>1, <2>3
    <3>4. CASE ~ (x <= y)
      <4>1. \A m \in R : m <= x
        BY <3>1, <3>2, <3>4
      <4> QED  BY <4>1, <2>3
    <3> QED  BY <3>3, <3>4
  <2> QED  BY <2>7, <2>8
<1>3. Good(T)
  BY <1>2, <1>1
<1> QED
  BY <1>3

\* Min and Max pick a bound of the set.
LEMMA MinMaxBound ==
  ASSUME NEW T \in SUBSET Nat, IsFiniteSet(T), T # {}
  PROVE  /\ Min(T) \in T /\ \A m \in T : Min(T) <= m
         /\ Max(T) \in T /\ \A m \in T : Max(T) >= m
<1>1. \E n \in T : \A m \in T : n <= m
  BY LeastNat
<1>2. \E n \in T : \A m \in T : n >= m
  <2>1. PICK n \in T : \A m \in T : m <= n
    BY GreatestNat
  <2>2. \A m \in T : n >= m
    BY <2>1
  <2> QED  BY <2>2
<1>3. Min(T) \in T /\ \A m \in T : Min(T) <= m
  BY <1>1 DEF Min
<1>4. Max(T) \in T /\ \A m \in T : Max(T) >= m
  BY <1>2 DEF Max
<1> QED
  BY <1>3, <1>4

\* A pair is a finite set.
LEMMA PairFinite ==
  ASSUME NEW a, NEW b
  PROVE  IsFiniteSet({a, b})
<1>1. IsFiniteSet({a}) /\ IsFiniteSet({b})
  BY FS_Singleton
<1>2. {a, b} = {a} \cup {b}
  OBVIOUS
<1> QED
  BY <1>1, <1>2, FS_Union

\* Min and Max of a union.
LEMMA MinMaxUnion ==
  ASSUME NEW S \in SUBSET Nat, IsFiniteSet(S), S # {},
         NEW T \in SUBSET Nat, IsFiniteSet(T), T # {}
  PROVE  /\ Min(S \cup T) = Min({Min(S), Min(T)})
         /\ Max(S \cup T) = Max({Max(S), Max(T)})
<1> DEFINE lo == {Min(S), Min(T)}
           hi == {Max(S), Max(T)}
<1>1. /\ Min(S) \in S /\ (\A m \in S : Min(S) <= m)
      /\ Max(S) \in S /\ (\A m \in S : Max(S) >= m)
  BY MinMaxBound
<1>2. /\ Min(T) \in T /\ (\A m \in T : Min(T) <= m)
      /\ Max(T) \in T /\ (\A m \in T : Max(T) >= m)
  BY MinMaxBound
<1>3. IsFiniteSet(S \cup T) /\ S \cup T \in SUBSET Nat /\ S \cup T # {}
  BY FS_Union
<1>4. /\ Min(S \cup T) \in S \cup T /\ (\A m \in S \cup T : Min(S \cup T) <= m)
      /\ Max(S \cup T) \in S \cup T /\ (\A m \in S \cup T : Max(S \cup T) >= m)
  BY <1>3, MinMaxBound
<1>5. IsFiniteSet(lo) /\ lo \in SUBSET Nat /\ lo # {}
  BY <1>1, <1>2, PairFinite
<1>6. IsFiniteSet(hi) /\ hi \in SUBSET Nat /\ hi # {}
  BY <1>1, <1>2, PairFinite
<1>7. Min(lo) \in lo /\ \A m \in lo : Min(lo) <= m
  <2> HIDE DEF lo
  <2> QED  BY <1>5, MinMaxBound
<1>8. Max(hi) \in hi /\ \A m \in hi : Max(hi) >= m
  <2> HIDE DEF hi
  <2> QED  BY <1>6, MinMaxBound
<1>9. Min(S \cup T) = Min(lo)
  <2> DEFINE a == Min(S \cup T)  b == Min(lo)  x == Min(S)  y == Min(T)
  <2>1. /\ a \in Nat /\ b \in Nat /\ x \in Nat /\ y \in Nat
        /\ a <= x /\ a <= y /\ (b = x \/ b = y) /\ b <= x /\ b <= y
        /\ (x <= a \/ y <= a)
    BY <1>1, <1>2, <1>4, <1>7
  <2> HIDE DEF a, b, x, y
  <2>2. a = b
    BY <2>1
  <2> QED  BY <2>2 DEF a, b
<1>10. Max(S \cup T) = Max(hi)
  <2> DEFINE a == Max(S \cup T)  b == Max(hi)  x == Max(S)  y == Max(T)
  <2>1. /\ a \in Nat /\ b \in Nat /\ x \in Nat /\ y \in Nat
        /\ a >= x /\ a >= y /\ (b = x \/ b = y) /\ b >= x /\ b >= y
        /\ (x >= a \/ y >= a)
    BY <1>1, <1>2, <1>4, <1>8
  <2> HIDE DEF a, b, x, y
  <2>2. a = b
    BY <2>1
  <2> QED  BY <2>2 DEF a, b
<1> QED
  BY <1>9, <1>10
=============================================================================
