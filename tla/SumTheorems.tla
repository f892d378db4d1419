---------------------------- MODULE SumTheorems -----------------------------
(* Sums over finite sets: the facts about SumFunctionOnSet that hold for any *)
(* order in which the sum takes its elements.  Induction is over the strict  *)
(* subsets of a finite set: a set without the property has a smallest        *)
(* subset without it.                                                        *)
EXTENDS Functions, FiniteSetTheorems, WellFoundedInduction, TLAPS

-----------------------------------------------------------------------------
(* The recursion that defines the sum *)

Pick(s) == CHOOSE x \in s : TRUE

\* The table of the sums of f over the subsets of S
IsTable(table, f, S) ==
    table = [s \in SUBSET S |->
                IF s = {} THEN 0 ELSE f[Pick(s)] + table[s \ {Pick(s)}]]

\* A non-empty family of subsets of a finite set has a smallest member.
LEMMA SmallestSubset ==
    ASSUME NEW S, IsFiniteSet(S), NEW Family \in SUBSET SUBSET S, Family # {}
    PROVE  \E T \in Family : \A U \in Family : U \subseteq T => U = T
<1>1. IsWellFoundedOn(StrictSubsetOrdering(S), SUBSET S)
  BY FS_StrictSubsetOrderingWellFounded, FS_FiniteSubsetsOfFinite
<1>2. \E T \in Family : \A U \in Family : ~(<<U, T>> \in StrictSubsetOrdering(S))
  BY <1>1, WFMin
<1>3. PICK T \in Family : \A U \in Family : ~(<<U, T>> \in StrictSubsetOrdering(S))
  BY <1>2
<1>4. ASSUME NEW U \in Family, U \subseteq T
      PROVE  U = T
  BY <1>3, <1>4 DEF StrictSubsetOrdering
<1> QED BY <1>4

LEMMA PickElement ==
    ASSUME NEW s, s # {}
    PROVE  Pick(s) \in s
BY DEF Pick

\* What the definition of the sum comes to
LEMMA SumIsTableEntry ==
    ASSUME NEW f, NEW S
    PROVE  SumFunctionOnSet(f, S) = (CHOOSE table : IsTable(table, f, S))[S]
BY DEF SumFunctionOnSet, FoldFunctionOnSet, MapThenFoldSet, IsTable, Pick

\* A table holds the tables of all subsets.
LEMMA TableOfSubset ==
    ASSUME NEW f, NEW S, NEW T \in SUBSET S, NEW table, IsTable(table, f, S)
    PROVE  IsTable([s \in SUBSET T |-> table[s]], f, T)
<1>1. \A s \in SUBSET T : s \in SUBSET S /\ s \ {Pick(s)} \in SUBSET T
  OBVIOUS
<1>2. \A s \in SUBSET S : table[s] =
        IF s = {} THEN 0 ELSE f[Pick(s)] + table[s \ {Pick(s)}]
  BY DEF IsTable
<1> QED BY <1>1, <1>2 DEF IsTable

\* There is at most one table.
LEMMA TableUnique ==
    ASSUME NEW f, NEW S, IsFiniteSet(S),
           NEW a, IsTable(a, f, S), NEW b, IsTable(b, f, S)
    PROVE  a = b
<1> DEFINE Differ == {s \in SUBSET S : a[s] # b[s]}
<1>1. /\ a = [s \in SUBSET S |-> a[s]] /\ b = [s \in SUBSET S |-> b[s]]
      /\ \A s \in SUBSET S :
            /\ a[s] = IF s = {} THEN 0 ELSE f[Pick(s)] + a[s \ {Pick(s)}]
            /\ b[s] = IF s = {} THEN 0 ELSE f[Pick(s)] + b[s \ {Pick(s)}]
  BY DEF IsTable
<1>2. ASSUME Differ # {}
      PROVE  FALSE
  <2>1. PICK T \in Differ : \A U \in Differ : U \subseteq T => U = T
    <3> HIDE DEF Differ
    <3>1. Differ \in SUBSET SUBSET S
      BY DEF Differ
    <3> QED BY <1>2, <3>1, SmallestSubset
  <2>2. T # {}
    BY <1>1
  <2>3. T \ {Pick(T)} \in SUBSET S /\ T \ {Pick(T)} # T
    BY <2>2, PickElement
  <2>4. T \ {Pick(T)} \notin Differ
    BY <2>1, <2>3
  <2> QED BY <1>1, <2>2, <2>3, <2>4
<1>3. \A s \in SUBSET S : a[s] = b[s]
  BY <1>2
<1> QED BY <1>1, <1>3

\* Every finite set has one: it consists of the sums of its subsets.
LEMMA TableExists ==
    ASSUME NEW f, NEW S, IsFiniteSet(S)
    PROVE  \E table : IsTable(table, f, S)
<1> DEFINE Sum(T) == SumFunctionOnSet(f, T)
           Without == {T \in SUBSET S : ~\E table : IsTable(table, f, T)}
<1>1. ASSUME NEW T \in SUBSET S,
             \A U \in SUBSET T : U # T => \E table : IsTable(table, f, U)
      PROVE  \E table : IsTable(table, f, T)
  <2> DEFINE Ext == [s \in SUBSET T |->
                IF s = {} THEN 0 ELSE f[Pick(s)] + Sum(s \ {Pick(s)})]
  <2>1. ASSUME NEW U \in SUBSET T, U # T
        PROVE  Sum(U) = IF U = {} THEN 0 ELSE f[Pick(U)] + Sum(U \ {Pick(U)})
    <3> DEFINE table == CHOOSE t : IsTable(t, f, U)
               W == U \ {Pick(U)}
    <3>1. IsTable(table, f, U)
      BY <1>1, <2>1
    <3>2. Sum(U) = table[U]
      BY SumIsTableEntry
    <3>3. table[U] = IF U = {} THEN 0 ELSE f[Pick(U)] + table[W]
      BY <3>1 DEF IsTable
    <3>4. CASE U # {}
      <4> DEFINE small == CHOOSE t : IsTable(t, f, W)
      <4>1. W \in SUBSET T /\ W # T
        BY <2>1
      <4>2. IsTable(small, f, W)
        BY <1>1, <4>1
      <4>3. IsTable([s \in SUBSET W |-> table[s]], f, W)
        BY <3>1, TableOfSubset
      <4>4. IsFiniteSet(W)
        <5>1. W \in SUBSET S
          OBVIOUS
        <5> QED BY <5>1, FS_Subset
      <4> HIDE DEF small, table, W
      <4>5. small = [s \in SUBSET W |-> table[s]]
        BY <4>2, <4>3, <4>4, TableUnique
      <4>6. small[W] = table[W]
        BY <4>5
      <4>7. Sum(W) = small[W]
        BY SumIsTableEntry DEF small
      <4> QED BY <3>2, <3>3, <3>4, <4>6, <4>7 DEF W
    <3>5. CASE U = {}
      BY <3>2, <3>3, <3>5
    <3> QED BY <3>4, <3>5
  <2>2. ASSUME NEW s \in SUBSET T, s # {}
        PROVE  Ext[s \ {Pick(s)}] = Sum(s \ {Pick(s)})
    <3>1. s \ {Pick(s)} \in SUBSET T /\ s \ {Pick(s)} # T
      BY <2>2, PickElement
    <3> HIDE DEF Sum
    <3> QED BY <2>1, <3>1
  <2>3. IsTable(Ext, f, T)
    <3> HIDE DEF Sum
    <3> QED BY <2>2 DEF IsTable
  <2> QED BY <2>3
<1>2. ASSUME Without # {}
      PROVE  FALSE
  <2>1. PICK T \in Without : \A U \in Without : U \subseteq T => U = T
    <3> HIDE DEF Without
    <3>1. Without \in SUBSET SUBSET S
      BY DEF Without
    <3> QED BY <1>2, <3>1, SmallestSubset
  <2>2. \A U \in SUBSET T : U # T => \E table : IsTable(table, f, U)
    BY <2>1
  <2> QED BY <1>1, <2>1, <2>2
<1> QED BY <1>2

\* The equation of the sum, for the element the definition takes first
LEMMA SumEquation ==
    ASSUME NEW f, NEW S, IsFiniteSet(S)
    PROVE  SumFunctionOnSet(f, S) =
            IF S = {} THEN 0 ELSE f[Pick(S)] + SumFunctionOnSet(f, S \ {Pick(S)})
<1> DEFINE table == CHOOSE t : IsTable(t, f, S)
           W == S \ {Pick(S)}
           small == CHOOSE t : IsTable(t, f, W)
<1>1. IsTable(table, f, S)
  BY TableExists
<1>2. SumFunctionOnSet(f, S) = table[S] /\ SumFunctionOnSet(f, W) = small[W]
  BY SumIsTableEntry
<1>3. table[S] = IF S = {} THEN 0 ELSE f[Pick(S)] + table[W]
  BY <1>1 DEF IsTable
<1>4. IsFiniteSet(W)
  BY FS_RemoveElement
<1>5. IsTable(small, f, W)
  BY <1>4, TableExists
<1>6. IsTable([s \in SUBSET W |-> table[s]], f, W)
  BY <1>1, TableOfSubset
<1> HIDE DEF table, small, W
<1>7. small = [s \in SUBSET W |-> table[s]]
  BY <1>4, <1>5, <1>6, TableUnique
<1>8. small[W] = table[W]
  BY <1>7
<1> QED BY <1>2, <1>3, <1>8 DEF W

-----------------------------------------------------------------------------
(* What users of sums need *)

LEMMA SumEmpty ==
    ASSUME NEW f
    PROVE  SumFunctionOnSet(f, {}) = 0
BY SumEquation, FS_EmptySet

\* A sum of integers is an integer.
LEMMA SumInt ==
    ASSUME NEW f, NEW S, IsFiniteSet(S), \A x \in S : f[x] \in Int
    PROVE  SumFunctionOnSet(f, S) \in Int
<1> DEFINE Bad == {T \in SUBSET S : SumFunctionOnSet(f, T) \notin Int}
<1>1. ASSUME Bad # {}
      PROVE  FALSE
  <2>1. PICK T \in Bad : \A U \in Bad : U \subseteq T => U = T
    <3> HIDE DEF Bad
    <3>1. Bad \in SUBSET SUBSET S
      BY DEF Bad
    <3> QED BY <1>1, <3>1, SmallestSubset
  <2>2. IsFiniteSet(T)
    BY FS_Subset
  <2>3. T # {}
    BY SumEmpty
  <2>4. Pick(T) \in T /\ T \ {Pick(T)} \in SUBSET S /\ T \ {Pick(T)} # T
    BY <2>3, PickElement
  <2>5. SumFunctionOnSet(f, T \ {Pick(T)}) \in Int
    BY <2>1, <2>4
  <2>6. SumFunctionOnSet(f, T) = f[Pick(T)] + SumFunctionOnSet(f, T \ {Pick(T)})
    BY <2>2, <2>3, SumEquation
  <2> QED BY <2>4, <2>5, <2>6
<1> QED BY <1>1

\* Any element may be taken first.
LEMMA SumRemove ==
    ASSUME NEW f, NEW S, IsFiniteSet(S), \A y \in S : f[y] \in Int, NEW x \in S
    PROVE  SumFunctionOnSet(f, S) = f[x] + SumFunctionOnSet(f, S \ {x})
<1> DEFINE Sum(T) == SumFunctionOnSet(f, T)
           Bad == {T \in SUBSET S : \E e \in T : Sum(T) # f[e] + Sum(T \ {e})}
<1>1. ASSUME Bad # {}
      PROVE  FALSE
  <2>1. PICK T \in Bad : \A U \in Bad : U \subseteq T => U = T
    <3> HIDE DEF Bad
    <3>1. Bad \in SUBSET SUBSET S
      BY DEF Bad
    <3> QED BY <1>1, <3>1, SmallestSubset
  <2>2. PICK e \in T : Sum(T) # f[e] + Sum(T \ {e})
    OBVIOUS
  <2> DEFINE p == Pick(T)
             Rest == (T \ {p}) \ {e}
  <2>3. p \in T /\ IsFiniteSet(T)
    BY PickElement, FS_Subset
  <2>4. Sum(T) = f[p] + Sum(T \ {p})
    BY <2>2, <2>3, SumEquation
  <2>5. p # e
    BY <2>2, <2>4
  <2>6. T \ {p} \in SUBSET S /\ T \ {p} # T /\ T \ {e} \in SUBSET S /\ T \ {e} # T
    BY <2>3
  <2>7. T \ {p} \notin Bad /\ T \ {e} \notin Bad
    BY <2>1, <2>6
  <2>8. e \in T \ {p} /\ p \in T \ {e} /\ (T \ {e}) \ {p} = Rest
    BY <2>3, <2>5
  <2>9. Sum(T \ {p}) = f[e] + Sum(Rest) /\ Sum(T \ {e}) = f[p] + Sum(Rest)
    BY <2>6, <2>7, <2>8
  <2>10. Sum(Rest) \in Int /\ f[p] \in Int /\ f[e] \in Int
    <3>1. IsFiniteSet(Rest) /\ Rest \subseteq S
      BY <2>3, FS_RemoveElement
    <3> QED BY <2>3, <3>1, SumInt
  <2> HIDE DEF Sum
  <2> QED BY <2>2, <2>4, <2>9, <2>10
<1> QED BY <1>1

\* Equal summands make equal sums.
LEMMA SumSame ==
    ASSUME NEW f, NEW g, NEW S, IsFiniteSet(S), \A x \in S : f[x] = g[x]
    PROVE  SumFunctionOnSet(f, S) = SumFunctionOnSet(g, S)
<1> DEFINE Bad == {T \in SUBSET S :
                    SumFunctionOnSet(f, T) # SumFunctionOnSet(g, T)}
<1>1. ASSUME Bad # {}
      PROVE  FALSE
  <2>1. PICK T \in Bad : \A U \in Bad : U \subseteq T => U = T
    <3> HIDE DEF Bad
    <3>1. Bad \in SUBSET SUBSET S
      BY DEF Bad
    <3> QED BY <1>1, <3>1, SmallestSubset
  <2>2. IsFiniteSet(T)
    BY FS_Subset
  <2>3. T # {}
    BY SumEmpty
  <2>4. Pick(T) \in T /\ T \ {Pick(T)} \in SUBSET S /\ T \ {Pick(T)} # T
    BY <2>3, PickElement
  <2>5. SumFunctionOnSet(f, T \ {Pick(T)}) = SumFunctionOnSet(g, T \ {Pick(T)})
    BY <2>1, <2>4
  <2>6. /\ SumFunctionOnSet(f, T) = f[Pick(T)] + SumFunctionOnSet(f, T \ {Pick(T)})
        /\ SumFunctionOnSet(g, T) = g[Pick(T)] + SumFunctionOnSet(g, T \ {Pick(T)})
    BY <2>2, <2>3, SumEquation
  <2> QED BY <2>4, <2>5, <2>6
<1> QED BY <1>1

\* The sum over two sets that have no element in common
LEMMA SumUnion ==
    ASSUME NEW f, NEW S, NEW T, IsFiniteSet(S), IsFiniteSet(T), S \cap T = {},
           \A x \in S \cup T : f[x] \in Int
    PROVE  SumFunctionOnSet(f, S \cup T) =
                SumFunctionOnSet(f, S) + SumFunctionOnSet(f, T)
<1> DEFINE Sum(U) == SumFunctionOnSet(f, U)
           Bad == {U \in SUBSET S : Sum(U \cup T) # Sum(U) + Sum(T)}
<1>1. \A U \in SUBSET S :
        /\ IsFiniteSet(U) /\ IsFiniteSet(U \cup T)
        /\ Sum(U) \in Int /\ Sum(U \cup T) \in Int
  <2>1. ASSUME NEW U \in SUBSET S
        PROVE  IsFiniteSet(U) /\ IsFiniteSet(U \cup T)
    BY FS_Subset, FS_Union
  <2> QED BY <2>1, SumInt
<1>2. Sum(T) \in Int
  BY SumInt
<1>3. ASSUME Bad # {}
      PROVE  FALSE
  <2>1. PICK U \in Bad : \A V \in Bad : V \subseteq U => V = U
    <3> HIDE DEF Bad
    <3>1. Bad \in SUBSET SUBSET S
      BY DEF Bad
    <3> QED BY <1>3, <3>1, SmallestSubset
  <2>2. U # {}
    <3>1. Sum({}) = 0
      BY SumEmpty
    <3>2. {} \cup T = T
      OBVIOUS
    <3> HIDE DEF Sum
    <3>3. Sum({} \cup T) = Sum({}) + Sum(T)
      BY <1>2, <3>1, <3>2
    <3> QED BY <2>1, <3>3
  <2>3. PICK x \in U : TRUE
    BY <2>2
  <2>4. U \ {x} \in SUBSET S /\ (U \cup T) \ {x} = (U \ {x}) \cup T
    BY <2>3
  <2>5. U \ {x} \notin Bad
    BY <2>1, <2>3
  <2>6. Sum((U \ {x}) \cup T) = Sum(U \ {x}) + Sum(T)
    BY <2>4, <2>5
  <2>7. Sum(U) = f[x] + Sum(U \ {x})
    BY <1>1, <2>3, SumRemove
  <2>8. Sum(U \cup T) = f[x] + Sum((U \ {x}) \cup T)
    BY <1>1, <2>3, <2>4, SumRemove
  <2>9. f[x] \in Int /\ Sum(U \ {x}) \in Int
    BY <1>1, <2>3, <2>4
  <2> HIDE DEF Sum
  <2> QED BY <1>2, <2>1, <2>6, <2>7, <2>8, <2>9
<1>4. Sum(S \cup T) = Sum(S) + Sum(T)
  BY <1>3
<1> QED BY <1>4

\* A sum of natural numbers is natural, and no part of it is larger.
LEMMA SumNat ==
    ASSUME NEW f, NEW S, IsFiniteSet(S), \A x \in S : f[x] \in Nat
    PROVE  /\ SumFunctionOnSet(f, S) \in Nat
           /\ \A T \in SUBSET S : SumFunctionOnSet(f, T) =< SumFunctionOnSet(f, S)
<1> DEFINE Sum(U) == SumFunctionOnSet(f, U)
           Bad == {U \in SUBSET S : Sum(U) \notin Nat}
<1>1. ASSUME Bad # {}
      PROVE  FALSE
  <2>1. PICK U \in Bad : \A V \in Bad : V \subseteq U => V = U
    <3> HIDE DEF Bad
    <3>1. Bad \in SUBSET SUBSET S
      BY DEF Bad
    <3> QED BY <1>1, <3>1, SmallestSubset
  <2>2. PICK x \in U : TRUE
    BY SumEmpty
  <2>3. IsFiniteSet(U) /\ U \ {x} \in SUBSET S
    BY FS_Subset
  <2>4. Sum(U) = f[x] + Sum(U \ {x})
    BY <2>2, <2>3, SumRemove
  <2>5. Sum(U \ {x}) \in Nat
    BY <2>1, <2>2, <2>3
  <2> HIDE DEF Sum
  <2> QED BY <2>1, <2>2, <2>4, <2>5
<1>2. \A U \in SUBSET S : Sum(U) \in Nat
  BY <1>1
<1>3. ASSUME NEW T \in SUBSET S
      PROVE  Sum(T) =< Sum(S)
  <2>1. IsFiniteSet(T) /\ IsFiniteSet(S \ T) /\ T \cup (S \ T) = S
    BY FS_Subset
  <2>2. Sum(S) = Sum(T) + Sum(S \ T)
    BY <2>1, SumUnion
  <2>3. Sum(T) \in Nat /\ Sum(S \ T) \in Nat
    BY <1>2
  <2> HIDE DEF Sum
  <2> QED BY <2>2, <2>3
<1> QED BY <1>2, <1>3

\* Zeros add up to zero.
LEMMA SumZero ==
    ASSUME NEW f, NEW S, IsFiniteSet(S), \A x \in S : f[x] = 0
    PROVE  SumFunctionOnSet(f, S) = 0
<1> DEFINE Bad == {T \in SUBSET S : SumFunctionOnSet(f, T) # 0}
<1>1. ASSUME Bad # {}
      PROVE  FALSE
  <2>1. PICK T \in Bad : \A U \in Bad : U \subseteq T => U = T
    <3> HIDE DEF Bad
    <3>1. Bad \in SUBSET SUBSET S
      BY DEF Bad
    <3> QED BY <1>1, <3>1, SmallestSubset
  <2>2. IsFiniteSet(T) /\ T # {}
    BY FS_Subset, SumEmpty
  <2>3. Pick(T) \in T /\ T \ {Pick(T)} \in SUBSET S /\ T \ {Pick(T)} # T
    BY <2>2, PickElement
  <2>4. SumFunctionOnSet(f, T \ {Pick(T)}) = 0 /\ f[Pick(T)] = 0
    BY <2>1, <2>3
  <2>5. SumFunctionOnSet(f, T) = f[Pick(T)] + SumFunctionOnSet(f, T \ {Pick(T)})
    BY <2>2, SumEquation
  <2> QED BY <2>4, <2>5
<1> QED BY <1>1

\* A set that has all the elements that count has the larger sum.
LEMMA SumWithin ==
    ASSUME NEW f, NEW S, NEW T, IsFiniteSet(S), IsFiniteSet(T),
           \A x \in S \cup T : f[x] \in Nat,
           \A x \in S \ T : f[x] = 0
    PROVE  SumFunctionOnSet(f, S) =< SumFunctionOnSet(f, T)
<1> DEFINE Sum(U) == SumFunctionOnSet(f, U)
<1>1. IsFiniteSet(S \cap T) /\ IsFiniteSet(S \ T) /\ S \cap T \in SUBSET T
  BY FS_Subset
<1>2. S = (S \cap T) \cup (S \ T) /\ (S \cap T) \cap (S \ T) = {}
  OBVIOUS
<1>3. Sum(S) = Sum(S \cap T) + Sum(S \ T)
  <2>1. Sum((S \cap T) \cup (S \ T)) = Sum(S \cap T) + Sum(S \ T)
    BY <1>1, <1>2, SumUnion
  <2> QED BY <1>2, <2>1
<1>4. Sum(S \ T) = 0
  BY <1>1, SumZero
<1>5. Sum(S \cap T) \in Nat /\ Sum(T) \in Nat /\ Sum(S \cap T) =< Sum(T)
  BY <1>1, SumNat
<1> HIDE DEF Sum
<1>6. Sum(S) =< Sum(T)
  BY <1>3, <1>4, <1>5
<1> QED BY <1>6 DEF Sum

\* One more at one place is one more in the sum.
LEMMA SumOneMore ==
    ASSUME NEW f, NEW g, NEW S, IsFiniteSet(S), NEW x \in S,
           \A y \in S : f[y] \in Int,
           g[x] = f[x] + 1, \A y \in S \ {x} : g[y] = f[y]
    PROVE  SumFunctionOnSet(g, S) = SumFunctionOnSet(f, S) + 1
<1>1. IsFiniteSet(S \ {x}) /\ \A y \in S : g[y] \in Int
  BY FS_Subset
<1>2. SumFunctionOnSet(g, S \ {x}) = SumFunctionOnSet(f, S \ {x})
  BY <1>1, SumSame
<1>3. SumFunctionOnSet(f, S \ {x}) \in Int
  BY <1>1, SumInt
<1>4. SumFunctionOnSet(f, S) = f[x] + SumFunctionOnSet(f, S \ {x})
  BY SumRemove
<1>5. SumFunctionOnSet(g, S) = g[x] + SumFunctionOnSet(g, S \ {x})
  BY <1>1, SumRemove
<1> QED BY <1>2, <1>3, <1>4, <1>5
=============================================================================
