-------------------------------- MODULE Sums --------------------------------
(***************************************************************************)
(* What SumFunctionOnSet of the community modules computes, for every      *)
(* finite set: the lemmas the proofs about totals rest on.                 *)
(*                                                                         *)
(* Induction is by the least counterexample: WFMin of                      *)
(* WellFoundedInduction speaks of sets, not of operators.                  *)
(***************************************************************************)
EXTENDS Integers, Functions, FiniteSets, FiniteSetTheorems, WellFoundedInduction, TLAPS

\* Every set of naturals that is not empty has a least element.
LEMMA LeastNatural ==
  ASSUME NEW T \in SUBSET Nat, T # {}
  PROVE  \E m \in T : \A k \in T : m <= k
<1> DEFINE R == {p \in Nat \X Nat : p[1] < p[2]}
<1>1. IsWellFoundedOn(R, Nat)
  BY NatLessThanWellFounded DEF OpToRel
<1>2. ASSUME NEW k \in Nat, NEW m \in Nat, k < m PROVE <<k, m>> \in R
  BY <1>2
<1> HIDE DEF R
<1>3. PICK m \in T : \A k \in T : ~ (<<k, m>> \in R)
  BY <1>1, WFMin
<1>4. ASSUME NEW k \in T PROVE m <= k
  <2>1. ~ (<<k, m>> \in R)
    BY <1>3
  <2>2. ~ (k < m)
    BY <2>1, <1>2, SMT
  <2> QED BY <2>2
<1> QED BY <1>4

\* A set of naturals that holds n if it holds all that are smaller, holds all.
LEMMA AllNaturals ==
  ASSUME NEW T, \A n \in Nat : (\A k \in Nat : k < n => k \in T) => n \in T
  PROVE  Nat \subseteq T
<1> SUFFICES ASSUME Nat \ T # {} PROVE FALSE
  OBVIOUS
<1>1. PICK m \in Nat \ T : \A k \in Nat \ T : m <= k
  BY LeastNatural
<1>2. ASSUME NEW k \in Nat, k < m PROVE k \in T
  BY <1>1, <1>2
<1> QED BY <1>1, <1>2

\* A collection of subsets of S that has T, and has a larger one if it has all
\* that leave out one element of it, has every set between T and S.
LEMMA Grown ==
  ASSUME NEW S, IsFiniteSet(S), NEW T \in SUBSET S, NEW G, T \in G,
         \A s \in SUBSET S :
            T \subseteq s /\ s # T /\ (\A x \in s \ T : s \ {x} \in G) => s \in G
  PROVE  \A s \in SUBSET S : T \subseteq s => s \in G
<1> DEFINE Reached == {n \in Nat : \A s \in SUBSET S :
                                 T \subseteq s /\ Cardinality(s \ T) = n => s \in G}
<1>1. \A s \in SUBSET S : IsFiniteSet(s \ T) /\ Cardinality(s \ T) \in Nat
  <2>1. \A s \in SUBSET S : IsFiniteSet(s \ T)
    BY FS_Subset
  <2> QED BY <2>1, FS_CardinalityType
<1>2. ASSUME NEW n \in Nat, \A k \in Nat : k < n => k \in Reached PROVE n \in Reached
  <2> SUFFICES ASSUME NEW s \in SUBSET S, T \subseteq s, Cardinality(s \ T) = n, s # T
               PROVE  s \in G
    OBVIOUS
  <2>1. ASSUME NEW x \in s \ T PROVE s \ {x} \in G
    <3> DEFINE t == s \ {x}
    <3>1. t \in SUBSET S /\ T \subseteq t /\ t \ T = (s \ T) \ {x}
      OBVIOUS
    <3>2. Cardinality((s \ T) \ {x}) = Cardinality(s \ T) - 1
      BY <1>1, FS_RemoveElement
    <3> HIDE DEF t
    <3>3. Cardinality(t \ T) \in Nat /\ Cardinality(t \ T) < n
      <4>1. Cardinality(t \ T) \in Nat
        BY <1>1, <3>1
      <4>2. Cardinality(t \ T) = n - 1
        BY <3>1, <3>2
      <4> QED BY <4>1, <4>2
    <3>4. t \in G
      BY <1>2, <3>1, <3>3
    <3> QED BY <3>4 DEF t
  <2> QED BY <2>1
<1>3. Nat \subseteq Reached
  <2> HIDE DEF Reached
  <2> QED BY <1>2, AllNaturals
<1> QED BY <1>1, <1>3

\* The same from the empty set up.
LEMMA GrownFromNothing ==
  ASSUME NEW S, IsFiniteSet(S), NEW G, {} \in G,
         \A s \in SUBSET S : s # {} /\ (\A x \in s : s \ {x} \in G) => s \in G
  PROVE  S \in G
<1>1. PICK T \in SUBSET S : T = {}
  OBVIOUS
<1>2. ASSUME NEW s \in SUBSET S, T \subseteq s, s # T, \A x \in s \ T : s \ {x} \in G
      PROVE  s \in G
  BY <1>1, <1>2
<1>3. T \in G /\ T \subseteq S
  BY <1>1
<1> QED BY <1>2, <1>3, Grown

-----------------------------------------------------------------------------
(* The recursion                                                           *)

Chosen(s) == CHOOSE x \in s : TRUE
Total(f, h, s) == IF s = {} THEN 0 ELSE f[Chosen(s)] + h[s \ {Chosen(s)}]

\* h sums f over every subset of S by the recursion of MapThenFoldSet.
Totals(f, h, S) == h = [s \in SUBSET S |-> Total(f, h, s)]

\* The definition of SumFunctionOnSet is a total.
LEMMA SumIsTotal ==
  ASSUME NEW f, NEW S
  PROVE  SumFunctionOnSet(f, S) = (CHOOSE h : Totals(f, h, S))[S]
BY DEF SumFunctionOnSet, FoldFunctionOnSet, MapThenFoldSet, Totals, Total, Chosen

\* What it picks from a set is in it.
LEMMA ChosenIn ==
  ASSUME NEW S, IsFiniteSet(S), S # {}
  PROVE  /\ Chosen(S) \in S
         /\ IsFiniteSet(S \ {Chosen(S)})
         /\ Cardinality(S) \in Nat
         /\ Cardinality(S \ {Chosen(S)}) \in Nat
         /\ Cardinality(S \ {Chosen(S)}) < Cardinality(S)
<1>1. Chosen(S) \in S
  BY DEF Chosen
<1>2. /\ IsFiniteSet(S \ {Chosen(S)})
      /\ Cardinality(S \ {Chosen(S)}) = Cardinality(S) - 1
  BY <1>1, FS_RemoveElement
<1> QED BY <1>1, <1>2, FS_CardinalityType

\* The recursion has a solution on the subsets of a finite set.
LEMMA TotalsExist ==
  ASSUME NEW f, NEW S, IsFiniteSet(S)
  PROVE  \E h : Totals(f, h, S)
<1> DEFINE Upto(h, n) == \A s \in SUBSET S : Cardinality(s) <= n => h[s] = Total(f, h, s)
           Solved == {n \in Nat : \E h : h = [s \in SUBSET S |-> h[s]] /\ Upto(h, n)}
<1>1. \A s \in SUBSET S : IsFiniteSet(s) /\ Cardinality(s) \in Nat
  BY FS_Subset, FS_CardinalityType
<1>2. ASSUME NEW n \in Nat, \A k \in Nat : k < n => k \in Solved PROVE n \in Solved
  <2>1. PICK h : n > 0 => h = [s \in SUBSET S |-> h[s]] /\ Upto(h, n - 1)
    <3>1. CASE n > 0
      <4>1. n - 1 \in Solved
        <5> HIDE DEF Solved
        <5> QED BY <1>2, <3>1
      <4> QED BY <4>1
    <3>2. CASE ~ (n > 0)
      BY <3>2
    <3> QED BY <3>1, <3>2
  <2> DEFINE g == [s \in SUBSET S |-> IF Cardinality(s) < n THEN h[s] ELSE Total(f, h, s)]
  <2>2. ASSUME NEW s \in SUBSET S, Cardinality(s) <= n PROVE g[s] = Total(f, g, s)
    <3>1. CASE s = {}
      <4>1. Total(f, h, s) = 0 /\ Total(f, g, s) = 0
        BY <3>1 DEF Total
      <4>2. Cardinality(s) < n => h[s] = Total(f, h, s)
        BY <2>1, <1>1
      <4> QED BY <4>1, <4>2
    <3>2. CASE s # {}
      <4> DEFINE c == s \ {Chosen(s)}
      <4>1. c \in SUBSET S /\ Cardinality(c) < n
        BY <1>1, <2>2, <3>2, ChosenIn
      <4>2. g[c] = h[c]
        BY <4>1
      <4>3. Total(f, g, s) = Total(f, h, s)
        BY <3>2, <4>2 DEF Total
      <4>4. Cardinality(s) < n => h[s] = Total(f, h, s)
        BY <2>1, <1>1
      <4> QED BY <4>3, <4>4
    <3> QED BY <3>1, <3>2
  <2>3. g = [s \in SUBSET S |-> g[s]] /\ Upto(g, n)
    BY <2>2
  <2> QED BY <2>3
<1>3. Cardinality(S) \in Solved
  <2> HIDE DEF Solved
  <2>1. Nat \subseteq Solved
    BY <1>2, AllNaturals
  <2> QED BY <2>1, <1>1
<1>4. PICK h : h = [s \in SUBSET S |-> h[s]] /\ Upto(h, Cardinality(S))
  BY <1>3
<1>5. ASSUME NEW s \in SUBSET S PROVE h[s] = Total(f, h, s)
  <2>1. Cardinality(s) <= Cardinality(S)
    BY FS_Subset
  <2> QED BY <1>4, <2>1
<1> QED BY <1>4, <1>5 DEF Totals

\* Two solutions agree on the subsets both are defined on.
LEMMA TotalsAgree ==
  ASSUME NEW f, NEW S, NEW T, IsFiniteSet(S), T \subseteq S,
         NEW h, Totals(f, h, S), NEW g, Totals(f, g, T)
  PROVE  \A s \in SUBSET T : g[s] = h[s]
<1> DEFINE Agreed == {n \in Nat : \A s \in SUBSET T : Cardinality(s) = n => g[s] = h[s]}
<1>1. \A s \in SUBSET T : IsFiniteSet(s) /\ Cardinality(s) \in Nat
  BY FS_Subset, FS_CardinalityType
<1>2. \A s \in SUBSET T : g[s] = Total(f, g, s) /\ h[s] = Total(f, h, s)
  BY DEF Totals
<1>3. ASSUME NEW n \in Nat, \A k \in Nat : k < n => k \in Agreed PROVE n \in Agreed
  <2> SUFFICES ASSUME NEW s \in SUBSET T, Cardinality(s) = n PROVE g[s] = h[s]
    OBVIOUS
  <2>1. CASE s = {}
    BY <2>1, <1>2 DEF Total
  <2>2. CASE s # {}
    <3> DEFINE c == s \ {Chosen(s)}
    <3>1. c \in SUBSET T /\ Cardinality(c) \in Nat /\ Cardinality(c) < n
      BY <1>1, <2>2, ChosenIn
    <3>2. g[c] = h[c]
      BY <1>3, <3>1
    <3> QED BY <1>2, <2>2, <3>2 DEF Total
  <2> QED BY <2>1, <2>2
<1>4. Nat \subseteq Agreed
  <2> HIDE DEF Agreed
  <2> QED BY <1>3, AllNaturals
<1> QED BY <1>1, <1>4

\* The sum is what its recursion says.
LEMMA SumRecursion ==
  ASSUME NEW f, NEW S, IsFiniteSet(S)
  PROVE  SumFunctionOnSet(f, S) =
           IF S = {} THEN 0
           ELSE f[Chosen(S)] + SumFunctionOnSet(f, S \ {Chosen(S)})
<1> DEFINE h == CHOOSE h : Totals(f, h, S)
<1>1. Totals(f, h, S)
  BY TotalsExist
<1>2. SumFunctionOnSet(f, S) = h[S]
  BY SumIsTotal
<1> HIDE DEF h
<1>3. h[S] = Total(f, h, S)
  BY <1>1 DEF Totals
<1>4. CASE S = {}
  BY <1>2, <1>3, <1>4 DEF Total
<1>5. CASE S # {}
  <2> DEFINE T == S \ {Chosen(S)}
             g == CHOOSE g : Totals(f, g, T)
  <2>1. IsFiniteSet(T) /\ T \subseteq S
    BY <1>5, ChosenIn
  <2>2. Totals(f, g, T) /\ SumFunctionOnSet(f, T) = g[T]
    <3> HIDE DEF T
    <3>1. \E k : Totals(f, k, T)
      BY <2>1, TotalsExist
    <3>2. Totals(f, g, T)
      BY <3>1
    <3>3. SumFunctionOnSet(f, T) = g[T]
      BY SumIsTotal
    <3> HIDE DEF g
    <3> QED BY <3>2, <3>3
  <2> HIDE DEF g
  <2>3. g[T] = h[T]
    <3> HIDE DEF T
    <3>1. \A s \in SUBSET T : g[s] = h[s]
      BY <1>1, <2>1, <2>2, TotalsAgree
    <3> QED BY <3>1
  <2> QED BY <1>2, <1>3, <1>5, <2>2, <2>3 DEF Total
<1> QED BY <1>4, <1>5

\* Nothing sums to 0.
LEMMA SumEmpty ==
  ASSUME NEW f PROVE SumFunctionOnSet(f, {}) = 0
BY SumRecursion, FS_EmptySet

-----------------------------------------------------------------------------
(* What the sum depends on                                                 *)

\* A sum of integers is an integer.
LEMMA SumType ==
  ASSUME NEW f, NEW S, IsFiniteSet(S), \A x \in S : f[x] \in Int
  PROVE  SumFunctionOnSet(f, S) \in Int
<1> DEFINE G == {s \in SUBSET S : SumFunctionOnSet(f, s) \in Int}
<1>1. {} \in G
  BY SumEmpty
<1>2. ASSUME NEW s \in SUBSET S, s # {}, \A x \in s : s \ {x} \in G PROVE s \in G
  <2>1. IsFiniteSet(s)
    BY FS_Subset
  <2>2. PICK c \in s : SumFunctionOnSet(f, s) = f[c] + SumFunctionOnSet(f, s \ {c})
    BY <1>2, <2>1, ChosenIn, SumRecursion
  <2>3. SumFunctionOnSet(f, s \ {c}) \in Int
    BY <1>2
  <2> QED BY <2>2, <2>3
<1> HIDE DEF G
<1>3. S \in G
  BY <1>1, <1>2, GrownFromNothing
<1> QED BY <1>3 DEF G

\* Any element may be added last.
LEMMA SumSplit ==
  ASSUME NEW f, NEW S, IsFiniteSet(S), \A x \in S : f[x] \in Int
  PROVE  \A x \in S : SumFunctionOnSet(f, S) = f[x] + SumFunctionOnSet(f, S \ {x})
<1> DEFINE P(s) == \A x \in s : SumFunctionOnSet(f, s) = f[x] + SumFunctionOnSet(f, s \ {x})
           G == {s \in SUBSET S : P(s)}
<1>1. \A s \in SUBSET S : IsFiniteSet(s) /\ SumFunctionOnSet(f, s) \in Int
  BY FS_Subset, SumType
<1>2. {} \in G
  OBVIOUS
<1>3. ASSUME NEW s \in SUBSET S, s # {}, \A x \in s : s \ {x} \in G PROVE s \in G
  <2> SUFFICES ASSUME NEW x \in s
               PROVE  SumFunctionOnSet(f, s) = f[x] + SumFunctionOnSet(f, s \ {x})
    OBVIOUS
  <2>1. PICK c \in s : SumFunctionOnSet(f, s) = f[c] + SumFunctionOnSet(f, s \ {c})
    BY <1>1, ChosenIn, SumRecursion
  <2>2. CASE c = x
    BY <2>1, <2>2
  <2>3. CASE c # x
    <3>1. ASSUME NEW y \in s, NEW z \in s, y # z
          PROVE  SumFunctionOnSet(f, s \ {y}) = f[z] + SumFunctionOnSet(f, s \ {y, z})
      <4>1. P(s \ {y})
        BY <1>3
      <4>2. (s \ {y}) \ {z} = s \ {y, z} /\ z \in s \ {y}
        BY <3>1
      <4> QED BY <4>1, <4>2
    <3>2. SumFunctionOnSet(f, s \ {c}) = f[x] + SumFunctionOnSet(f, s \ {c, x})
      BY <2>1, <2>3, <3>1
    <3>3. SumFunctionOnSet(f, s \ {x}) = f[c] + SumFunctionOnSet(f, s \ {x, c})
      BY <2>1, <2>3, <3>1
    <3>4. s \ {x, c} = s \ {c, x}
      OBVIOUS
    <3>5. f[x] \in Int /\ f[c] \in Int /\ SumFunctionOnSet(f, s \ {c, x}) \in Int
      BY <1>1, <2>1
    <3>6. f[c] + (f[x] + SumFunctionOnSet(f, s \ {c, x}))
            = f[x] + (f[c] + SumFunctionOnSet(f, s \ {c, x}))
      BY <3>5
    <3>7. SumFunctionOnSet(f, s) = f[c] + (f[x] + SumFunctionOnSet(f, s \ {c, x}))
      BY <2>1, <3>2
    <3> QED BY <3>3, <3>4, <3>6, <3>7
  <2> QED BY <2>2, <2>3
<1> HIDE DEF G
<1>4. S \in G
  BY <1>2, <1>3, GrownFromNothing
<1> QED BY <1>4 DEF G

\* Only what is summed matters.
LEMMA SumSame ==
  ASSUME NEW f, NEW g, NEW S, IsFiniteSet(S), \A x \in S : f[x] = g[x]
  PROVE  SumFunctionOnSet(f, S) = SumFunctionOnSet(g, S)
<1> DEFINE G == {s \in SUBSET S : SumFunctionOnSet(f, s) = SumFunctionOnSet(g, s)}
<1>1. {} \in G
  BY SumEmpty
<1>2. ASSUME NEW s \in SUBSET S, s # {}, \A x \in s : s \ {x} \in G PROVE s \in G
  <2>1. IsFiniteSet(s)
    BY FS_Subset
  <2>2. PICK c \in s : c = Chosen(s)
    BY <1>2, <2>1, ChosenIn
  <2>3. /\ SumFunctionOnSet(f, s) = f[c] + SumFunctionOnSet(f, s \ {c})
        /\ SumFunctionOnSet(g, s) = g[c] + SumFunctionOnSet(g, s \ {c})
    BY <1>2, <2>1, <2>2, SumRecursion
  <2>4. f[c] = g[c] /\ SumFunctionOnSet(f, s \ {c}) = SumFunctionOnSet(g, s \ {c})
    BY <1>2
  <2> QED BY <2>3, <2>4
<1> HIDE DEF G
<1>3. S \in G
  BY <1>1, <1>2, GrownFromNothing
<1> QED BY <1>3 DEF G

\* One term changes.
LEMMA SumChange ==
  ASSUME NEW f, NEW g, NEW S, IsFiniteSet(S), NEW x \in S,
         \A y \in S : f[y] \in Int /\ g[y] \in Int,
         \A y \in S \ {x} : f[y] = g[y]
  PROVE  SumFunctionOnSet(g, S) = SumFunctionOnSet(f, S) + (g[x] - f[x])
<1>1. IsFiniteSet(S \ {x})
  BY FS_RemoveElement
<1>2. SumFunctionOnSet(f, S \ {x}) = SumFunctionOnSet(g, S \ {x})
  BY <1>1, SumSame
<1>3. /\ SumFunctionOnSet(f, S) = f[x] + SumFunctionOnSet(f, S \ {x})
      /\ SumFunctionOnSet(g, S) = g[x] + SumFunctionOnSet(g, S \ {x})
  BY SumSplit
<1>4. SumFunctionOnSet(f, S \ {x}) \in Int
  BY <1>1, SumType
<1> QED BY <1>2, <1>3, <1>4

\* Two terms change by opposite amounts.
LEMMA SumMoves ==
  ASSUME NEW f, NEW g, NEW S, IsFiniteSet(S), NEW x \in S, NEW y \in S, x # y,
         \A z \in S : f[z] \in Int /\ g[z] \in Int,
         \A z \in S \ {x, y} : f[z] = g[z],
         (g[x] - f[x]) + (g[y] - f[y]) = 0
  PROVE  SumFunctionOnSet(g, S) = SumFunctionOnSet(f, S)
<1> DEFINE k == [z \in S |-> IF z = x THEN g[x] ELSE f[z]]
<1>1. SumFunctionOnSet(k, S) = SumFunctionOnSet(f, S) + (g[x] - f[x])
  <2>1. /\ \A z \in S : f[z] \in Int /\ k[z] \in Int
        /\ \A z \in S \ {x} : f[z] = k[z]
        /\ k[x] = g[x]
    OBVIOUS
  <2> HIDE DEF k
  <2>2. SumFunctionOnSet(k, S) = SumFunctionOnSet(f, S) + (k[x] - f[x])
    BY <2>1, SumChange
  <2> QED BY <2>1, <2>2
<1>2. SumFunctionOnSet(g, S) = SumFunctionOnSet(k, S) + (g[y] - f[y])
  <2>1. /\ \A z \in S : k[z] \in Int /\ g[z] \in Int
        /\ \A z \in S \ {y} : k[z] = g[z]
        /\ k[y] = f[y]
    OBVIOUS
  <2> HIDE DEF k
  <2>2. SumFunctionOnSet(g, S) = SumFunctionOnSet(k, S) + (g[y] - k[y])
    BY <2>1, SumChange
  <2> QED BY <2>1, <2>2
<1>3. SumFunctionOnSet(f, S) \in Int
  BY SumType
<1> HIDE DEF k
<1> QED BY <1>1, <1>2, <1>3

\* Where f is 0 it adds nothing.
LEMMA SumZeros ==
  ASSUME NEW f, NEW S, IsFiniteSet(S), \A x \in S : f[x] \in Int,
         NEW T \in SUBSET S, \A x \in S \ T : f[x] = 0
  PROVE  SumFunctionOnSet(f, S) = SumFunctionOnSet(f, T)
<1> DEFINE G == {s \in SUBSET S : SumFunctionOnSet(f, s) = SumFunctionOnSet(f, T)}
<1>1. T \in G
  OBVIOUS
<1>2. ASSUME NEW s \in SUBSET S, T \subseteq s, s # T, \A x \in s \ T : s \ {x} \in G
      PROVE  s \in G
  <2>1. PICK x \in s \ T : f[x] = 0
    BY <1>2
  <2>2. IsFiniteSet(s) /\ IsFiniteSet(s \ {x})
    BY FS_Subset
  <2>3. SumFunctionOnSet(f, s) = f[x] + SumFunctionOnSet(f, s \ {x})
    BY <2>1, <2>2, SumSplit
  <2>4. SumFunctionOnSet(f, s \ {x}) \in Int
    BY <2>2, SumType
  <2> QED BY <1>2, <2>1, <2>3, <2>4
<1> HIDE DEF G
<1>3. S \in G
  BY <1>1, <1>2, Grown
<1> QED BY <1>3 DEF G

\* Of naturals, more of them sum to no less.
LEMMA SumGrows ==
  ASSUME NEW f, NEW S, IsFiniteSet(S), \A x \in S : f[x] \in Nat, NEW T \in SUBSET S
  PROVE  SumFunctionOnSet(f, T) <= SumFunctionOnSet(f, S)
<1> DEFINE G == {s \in SUBSET S : SumFunctionOnSet(f, T) <= SumFunctionOnSet(f, s)}
<1>1. \A s \in SUBSET S : IsFiniteSet(s) /\ SumFunctionOnSet(f, s) \in Int
  BY FS_Subset, SumType
<1>2. T \in G
  BY <1>1
<1>3. ASSUME NEW s \in SUBSET S, T \subseteq s, s # T, \A x \in s \ T : s \ {x} \in G
      PROVE  s \in G
  <2>1. PICK x \in s \ T : f[x] \in Nat
    BY <1>3
  <2>2. SumFunctionOnSet(f, s) = f[x] + SumFunctionOnSet(f, s \ {x})
    BY <1>1, <2>1, SumSplit
  <2>3. SumFunctionOnSet(f, T) <= SumFunctionOnSet(f, s \ {x})
    BY <1>3
  <2>4. SumFunctionOnSet(f, s \ {x}) \in Int /\ SumFunctionOnSet(f, T) \in Int
    BY <1>1
  <2> QED BY <2>1, <2>2, <2>3, <2>4
<1> HIDE DEF G
<1>4. S \in G
  BY <1>2, <1>3, Grown
<1> QED BY <1>4 DEF G

=============================================================================
