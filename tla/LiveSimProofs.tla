---------------------------- MODULE LiveSimProofs ----------------------------
(***************************************************************************)
(* The LIVE_SIM books for any orders, runners, limit and feed.             *)
(*                                                                         *)
(* First, which actions touch a variable at all (the Steps lemmas); then   *)
(* what a step does to one row of it (the Move lemmas); the invariant Inv  *)
(* follows from these alone.                                               *)
(*                                                                         *)
(* The books and the broker are compared by sums over finite sets, whose   *)
(* laws come first.  Conserved balances the two sides, with Keyed for      *)
(* which execution is which.  Covered, InLine and RunnersAhead then show   *)
(* that the shares an exit may sell are in positions that nothing else     *)
(* can sell.                                                               *)
(***************************************************************************)
EXTENDS LiveSim, FiniteSetTheorems, SequenceTheorems, WellFoundedInduction, TLAPS

-----------------------------------------------------------------------------
(* Induction over a finite set, with a set in the place of a predicate *)

LEMMA LeastNat ==
  ASSUME NEW T \in SUBSET Nat, T # {}
  PROVE  \E m \in T : \A k \in T : m <= k
  <1> DEFINE R == OpToRel(<, Nat)
  <1>1. IsWellFoundedOn(R, Nat)
    BY NatLessThanWellFounded
  <1>2. \A x, y \in Nat : <<x, y>> \in R <=> x < y
    BY DEF OpToRel
  <1> HIDE DEF R
  <1>3. PICK x \in T : \A y \in T : ~(<<y, x>> \in R)
    BY <1>1, WFMin
  <1>4. \A y \in T : x <= y
    <2> TAKE y \in T
    <2>1. ~(y < x)
      BY <1>2, <1>3
    <2> QED BY <2>1
  <1> QED BY <1>4

LEMMA SetInduction ==
  ASSUME NEW S, 0 \in S, \A n \in Nat : n \in S => n + 1 \in S
  PROVE  \A n \in Nat : n \in S
  <1> DEFINE T == {n \in Nat : n \notin S}
  <1> SUFFICES ASSUME T # {} PROVE FALSE
    OBVIOUS
  <1>1. PICK m \in T : \A k \in T : m <= k
    BY LeastNat
  <1>2. m # 0 /\ m - 1 \in Nat /\ m - 1 \notin T
    BY <1>1
  <1> QED BY <1>2

\* What holds of the empty set and of a set whenever it holds of all smaller ones.
LEMMA SubsetInduction ==
  ASSUME NEW S, IsFiniteSet(S), NEW C,
         \A s \in SUBSET S : (\A x \in s : s \ {x} \in C) => s \in C
  PROVE  \A s \in SUBSET S : s \in C
  <1> DEFINE T == {n \in Nat : \E s \in SUBSET S : s \notin C /\ Cardinality(s) = n}
  <1> SUFFICES ASSUME NEW s \in SUBSET S, s \notin C PROVE FALSE
    OBVIOUS
  <1>1. \A t \in SUBSET S : IsFiniteSet(t) /\ Cardinality(t) \in Nat
    BY FS_Subset, FS_CardinalityType
  <1>2. T # {} /\ T \in SUBSET Nat
    BY <1>1
  <1>3. PICK m \in T : \A k \in T : m <= k
    BY <1>2, LeastNat
  <1>4. PICK t \in SUBSET S : t \notin C /\ Cardinality(t) = m
    BY <1>3
  <1>5. ASSUME NEW x \in t PROVE t \ {x} \in C
    <2>1. t \ {x} \in SUBSET S /\ Cardinality(t \ {x}) = m - 1 /\ Cardinality(t \ {x}) \in Nat
      BY <1>1, <1>4, FS_RemoveElement
    <2> QED BY <1>3, <2>1
  <1> QED BY <1>4, <1>5

-----------------------------------------------------------------------------
(* What SumFunction computes for a finite set, from its definition *)

SomeOf(s) == CHOOSE x \in s : TRUE

\* The function that SumFunctionOnSet is defined by.
IsSum(g, f, S) ==
  g = [s \in SUBSET S |-> IF s = {} THEN 0
                          ELSE f[SomeOf(s)] + g[s \ {SomeOf(s)}]]

LEMMA SumValue ==
  ASSUME NEW f, NEW S
  PROVE  SumFunctionOnSet(f, S) = (CHOOSE g : IsSum(g, f, S))[S]
  BY DEF SumFunctionOnSet, FoldFunctionOnSet, MapThenFoldSet, IsSum, SomeOf

LEMMA SumExists ==
  ASSUME NEW S, IsFiniteSet(S), NEW f, \A x \in S : f[x] \in Int
  PROVE  \E g : IsSum(g, f, S) /\ \A s \in SUBSET S : g[s] \in Int
  <1> DEFINE Small(n) == {s \in SUBSET S : Cardinality(s) <= n}
             Adds(g, s) == IF s = {} THEN 0
                            ELSE f[SomeOf(s)] + g[s \ {SomeOf(s)}]
             Good(g, n) == \A s \in Small(n) : g[s] = Adds(g, s) /\ g[s] \in Int
             N == {n \in Nat : \E g : Good(g, n)}
  <1>1. \A t \in SUBSET S : /\ IsFiniteSet(t) /\ Cardinality(t) \in Nat
                            /\ Cardinality(t) <= Cardinality(S)
    BY FS_Subset, FS_CardinalityType
  <1>2. \A t \in SUBSET S, x \in S : x \in t => /\ t \ {x} \in SUBSET S
                                                /\ Cardinality(t \ {x}) = Cardinality(t) - 1
    BY <1>1, FS_RemoveElement
  <1>3. \A t \in SUBSET S : t # {} => SomeOf(t) \in t
    BY DEF SomeOf
  <1>4. 0 \in N
    <2> DEFINE g == [s \in {{}} |-> 0]
    <2>1. \A s \in Small(0) : s = {}
      BY <1>1, FS_EmptySet
    <2>2. Good(g, 0)
      BY <2>1
    <2> QED BY <2>2
  <1>5. ASSUME NEW n \in Nat, n \in N PROVE n + 1 \in N
    <2>1. PICK g : Good(g, n)
      BY <1>5
    <2> DEFINE h == [s \in Small(n + 1) |-> Adds(g, s)]
    <2>2. \A s \in Small(n + 1) : s # {} => s \ {SomeOf(s)} \in Small(n)
      <3> SUFFICES ASSUME NEW s \in SUBSET S, Cardinality(s) <= n + 1, s # {}
                   PROVE  s \ {SomeOf(s)} \in SUBSET S /\ Cardinality(s \ {SomeOf(s)}) <= n
        OBVIOUS
      <3>1. SomeOf(s) \in s /\ SomeOf(s) \in S
        BY <1>3
      <3>2. Cardinality(s \ {SomeOf(s)}) = Cardinality(s) - 1 /\ Cardinality(s) \in Nat
        BY <1>1, <1>2, <3>1
      <3> QED BY <3>1, <3>2
    <2>3. \A s \in Small(n) : s \in Small(n + 1) /\ h[s] = g[s]
      <3>1. \A s \in Small(n) : s \in Small(n + 1)
        BY <1>1
      <3>2. \A s \in Small(n) : g[s] = Adds(g, s)
        BY <2>1
      <3> HIDE DEF Small, Adds
      <3> QED BY <3>1, <3>2
    <2>4. ASSUME NEW s \in Small(n + 1) PROVE h[s] = Adds(h, s) /\ h[s] \in Int
      <3>1. h[s] = Adds(g, s)
        OBVIOUS
      <3> HIDE DEF h
      <3>2. CASE s = {}
        BY <3>1, <3>2
      <3>3. CASE s # {}
        <4>1. SomeOf(s) \in S /\ s \ {SomeOf(s)} \in Small(n)
          BY <1>3, <2>2, <3>3
        <4>2. /\ h[s \ {SomeOf(s)}] = g[s \ {SomeOf(s)}]
              /\ g[s \ {SomeOf(s)}] \in Int
          <5> HIDE DEF Small, Adds
          <5> QED BY <2>1, <2>3, <4>1
        <4> QED BY <3>1, <3>3, <4>1, <4>2
      <3> QED BY <3>2, <3>3
    <2>5. Good(h, n + 1)
      BY <2>4
    <2> HIDE DEF h, Good
    <2> QED BY <2>5
  <1> HIDE DEF N
  <1>6. \A n \in Nat : n \in N
    BY <1>4, <1>5, SetInduction
  <1>7. Cardinality(S) \in Nat
    BY FS_CardinalityType
  <1>8. PICK g : Good(g, Cardinality(S))
    BY <1>6, <1>7 DEF N
  <1>9. \A s \in SUBSET S : g[s] = Adds(g, s) /\ g[s] \in Int
    BY <1>1, <1>8
  <1> DEFINE h == [s \in SUBSET S |-> Adds(g, s)]
  <1>10. \A s \in SUBSET S : h[s] = g[s] /\ h[s] \in Int
    BY <1>9
  <1>11. h = [s \in SUBSET S |-> Adds(h, s)]
    <2>1. ASSUME NEW s \in SUBSET S PROVE Adds(g, s) = Adds(h, s)
      <3> HIDE DEF h
      <3> QED BY <1>3, <1>10
    <2> QED BY <2>1
  <1> HIDE DEF h
  <1>12. IsSum(h, f, S)
    BY <1>11 DEF IsSum
  <1> QED BY <1>10, <1>12

Agree(f, e, S) == \A x \in S : f[x] = e[x]

\* Two of them agree wherever what they sum agrees.
LEMMA SumsAgree ==
  ASSUME NEW S, IsFiniteSet(S), NEW f, NEW e, NEW T, S \subseteq T, Agree(f, e, S),
         NEW g, IsSum(g, f, S), NEW h, IsSum(h, e, T)
  PROVE  \A s \in SUBSET S : g[s] = h[s]
  <1> DEFINE C == {s \in SUBSET S : g[s] = h[s]}
  <1>1. ASSUME NEW s \in SUBSET S, \A x \in s : s \ {x} \in C PROVE s \in C
    <2>1. g[s] = IF s = {} THEN 0 ELSE f[SomeOf(s)] + g[s \ {SomeOf(s)}]
      BY DEF IsSum
    <2>2. s \in SUBSET T
      OBVIOUS
    <2>3. h[s] = IF s = {} THEN 0 ELSE e[SomeOf(s)] + h[s \ {SomeOf(s)}]
      BY <2>2 DEF IsSum
    <2>4. s # {} => SomeOf(s) \in s
      BY DEF SomeOf
    <2> QED BY <1>1, <2>1, <2>3, <2>4 DEF Agree
  <1> HIDE DEF C
  <1>2. \A s \in SUBSET S : s \in C
    BY <1>1, SubsetInduction
  <1> QED BY <1>2 DEF C

\* Any element can be the one that is added last.
LEMMA SumTakesAny ==
  ASSUME NEW S, IsFiniteSet(S), NEW f, \A x \in S : f[x] \in Int,
         NEW g, IsSum(g, f, S), \A s \in SUBSET S : g[s] \in Int
  PROVE  \A s \in SUBSET S : \A y \in s : g[s] = f[y] + g[s \ {y}]
  <1> DEFINE C == {s \in SUBSET S : \A y \in s : g[s] = f[y] + g[s \ {y}]}
  <1>1. ASSUME NEW s \in SUBSET S, \A x \in s : s \ {x} \in C PROVE s \in C
    <2> SUFFICES ASSUME NEW y \in s PROVE g[s] = f[y] + g[s \ {y}]
      OBVIOUS
    <2>1. s # {} /\ SomeOf(s) \in s /\ g[s] = f[SomeOf(s)] + g[s \ {SomeOf(s)}]
      <3>1. s # {} /\ SomeOf(s) \in s
        BY DEF SomeOf
      <3> QED BY <3>1 DEF IsSum
    <2>2. CASE SomeOf(s) = y
      BY <2>1, <2>2
    <2>3. CASE SomeOf(s) # y
      <3>1. PICK z \in s : z # y /\ g[s] = f[z] + g[s \ {z}]
        BY <2>1, <2>3
      <3>2. g[s \ {z}] = f[y] + g[(s \ {z}) \ {y}]
        BY <1>1, <3>1
      <3>3. g[s \ {y}] = f[z] + g[(s \ {y}) \ {z}]
        BY <1>1, <3>1
      <3>4. (s \ {y}) \ {z} = (s \ {z}) \ {y} /\ (s \ {z}) \ {y} \in SUBSET S
        OBVIOUS
      <3>5. f[y] \in Int /\ f[z] \in Int /\ g[(s \ {z}) \ {y}] \in Int
        BY <3>4
      <3>6. \A i, j, k \in Int : i + (j + k) = j + (i + k)
        OBVIOUS
      <3>7. f[z] + (f[y] + g[(s \ {z}) \ {y}]) = f[y] + (f[z] + g[(s \ {z}) \ {y}])
        BY <3>5, <3>6
      <3> QED BY <3>1, <3>2, <3>3, <3>4, <3>7
    <2> QED BY <2>2, <2>3
  <1> HIDE DEF C
  <1>2. \A s \in SUBSET S : s \in C
    BY <1>1, SubsetInduction
  <1> QED BY <1>2 DEF C

\* What a sum is: nothing for no elements, else any element and the sum of the others.
LEMMA SumFacts ==
  ASSUME NEW S, IsFiniteSet(S), NEW f, \A x \in S : f[x] \in Int
  PROVE  /\ SumFunctionOnSet(f, S) \in Int
         /\ S = {} => SumFunctionOnSet(f, S) = 0
         /\ \A x \in S : /\ SumFunctionOnSet(f, S) = f[x] + SumFunctionOnSet(f, S \ {x})
                         /\ SumFunctionOnSet(f, S \ {x}) \in Int
  <1> DEFINE g == CHOOSE g : IsSum(g, f, S)
  <1>1. PICK h : IsSum(h, f, S) /\ \A s \in SUBSET S : h[s] \in Int
    BY SumExists
  <1>2. IsSum(g, f, S)
    BY <1>1
  <1>3. SumFunctionOnSet(f, S) = g[S]
    BY SumValue
  <1> HIDE DEF g
  <1>4. \A s \in SUBSET S : g[s] = h[s] /\ g[s] \in Int
    <2>1. S \subseteq S /\ Agree(f, f, S)
      BY DEF Agree
    <2> QED BY <1>1, <1>2, <2>1, SumsAgree
  <1>5. SumFunctionOnSet(f, S) \in Int
    BY <1>3, <1>4
  <1>6. S = {} => SumFunctionOnSet(f, S) = 0
    BY <1>2, <1>3 DEF IsSum
  <1>7. ASSUME NEW x \in S
        PROVE  /\ SumFunctionOnSet(f, S) = f[x] + SumFunctionOnSet(f, S \ {x})
               /\ SumFunctionOnSet(f, S \ {x}) \in Int
    <2> DEFINE R == S \ {x}
               k == CHOOSE k : IsSum(k, f, R)
    <2>1. IsFiniteSet(R) /\ R \subseteq S /\ \A y \in R : f[y] \in Int
      BY FS_RemoveElement
    <2>2. \E k1 : IsSum(k1, f, R)
      BY <2>1, SumExists
    <2>3. IsSum(k, f, R)
      BY <2>2
    <2>4. SumFunctionOnSet(f, R) = k[R]
      BY SumValue
    <2> HIDE DEF k
    <2> HIDE DEF R
    <2>5. \A s \in SUBSET R : k[s] = g[s]
      <3>1. Agree(f, f, R)
        BY DEF Agree
      <3> QED BY <1>2, <2>1, <2>3, <3>1, SumsAgree
    <2>6. g[S] = f[x] + g[R]
      BY <1>2, <1>4, SumTakesAny DEF R
    <2> QED BY <1>3, <1>4, <2>1, <2>4, <2>5, <2>6 DEF R
  <1> QED BY <1>5, <1>6, <1>7

LEMMA SumSame ==
  ASSUME NEW S, IsFiniteSet(S), NEW f, NEW e, \A x \in S : f[x] \in Int /\ f[x] = e[x]
  PROVE  SumFunctionOnSet(f, S) = SumFunctionOnSet(e, S)
  <1>1. PICK g : IsSum(g, f, S)
    BY SumExists
  <1>2. PICK h : IsSum(h, e, S)
    BY SumExists
  <1> DEFINE a == CHOOSE a : IsSum(a, f, S)
             b == CHOOSE b : IsSum(b, e, S)
  <1>3. IsSum(a, f, S) /\ IsSum(b, e, S)
    BY <1>1, <1>2
  <1>4. SumFunctionOnSet(f, S) = a[S] /\ SumFunctionOnSet(e, S) = b[S]
    BY SumValue
  <1> HIDE DEF a, b
  <1>5. S \subseteq S /\ Agree(f, e, S)
    BY DEF Agree
  <1>6. \A s \in SUBSET S : a[s] = b[s]
    BY <1>3, <1>5, SumsAgree
  <1> QED BY <1>4, <1>6

\* A sum over more.
LEMMA SumAdd ==
  ASSUME NEW S, IsFiniteSet(S), NEW x, x \notin S, NEW f, \A y \in S \cup {x} : f[y] \in Int
  PROVE  SumFunctionOnSet(f, S \cup {x}) = f[x] + SumFunctionOnSet(f, S)
  <1>1. IsFiniteSet(S \cup {x})
    BY FS_AddElement
  <1>2. (S \cup {x}) \ {x} = S
    OBVIOUS
  <1> QED BY <1>1, <1>2, SumFacts

\* One summand is another.
LEMMA SumChange ==
  ASSUME NEW S, IsFiniteSet(S), NEW f, NEW e, \A x \in S : f[x] \in Int /\ e[x] \in Int,
         NEW y \in S, \A x \in S \ {y} : f[x] = e[x]
  PROVE  SumFunctionOnSet(e, S) = SumFunctionOnSet(f, S) - f[y] + e[y]
  <1>1. IsFiniteSet(S \ {y})
    BY FS_RemoveElement
  <1>2. SumFunctionOnSet(f, S \ {y}) = SumFunctionOnSet(e, S \ {y})
    BY <1>1, SumSame
  <1>3. /\ SumFunctionOnSet(f, S) = f[y] + SumFunctionOnSet(f, S \ {y})
        /\ SumFunctionOnSet(e, S) = e[y] + SumFunctionOnSet(e, S \ {y})
        /\ SumFunctionOnSet(f, S \ {y}) \in Int
        /\ f[y] \in Int /\ e[y] \in Int
    BY SumFacts
  <1> QED BY <1>2, <1>3

\* Sums of natural numbers grow with the numbers and with the set.
LEMMA SumGrows ==
  ASSUME NEW T, IsFiniteSet(T), NEW f, NEW e,
         \A x \in T : f[x] \in Nat /\ e[x] \in Nat /\ f[x] <= e[x]
  PROVE  \A s \in SUBSET T : SumFunctionOnSet(f, s) \in Nat /\ SumFunctionOnSet(f, s) <= SumFunctionOnSet(e, s)
  <1> DEFINE C == {s \in SUBSET T : /\ SumFunctionOnSet(f, s) \in Nat
                                    /\ SumFunctionOnSet(f, s) <= SumFunctionOnSet(e, s)}
  <1>1. ASSUME NEW s \in SUBSET T, \A x \in s : s \ {x} \in C PROVE s \in C
    <2>1. IsFiniteSet(s) /\ \A x \in s : f[x] \in Int /\ e[x] \in Int
      BY FS_Subset
    <2>2. CASE s = {}
      <3>1. SumFunctionOnSet(f, s) = 0 /\ SumFunctionOnSet(e, s) = 0
        BY <2>1, <2>2, SumFacts
      <3> QED BY <3>1
    <2>3. ASSUME NEW x \in s PROVE s \in C
      <3>1. /\ SumFunctionOnSet(f, s) = f[x] + SumFunctionOnSet(f, s \ {x})
            /\ SumFunctionOnSet(e, s) = e[x] + SumFunctionOnSet(e, s \ {x})
            /\ SumFunctionOnSet(e, s \ {x}) \in Int
        BY <2>1, SumFacts
      <3>2. /\ SumFunctionOnSet(f, s \ {x}) \in Nat
            /\ SumFunctionOnSet(f, s \ {x}) <= SumFunctionOnSet(e, s \ {x})
        BY <1>1
      <3>3. f[x] \in Nat /\ e[x] \in Nat /\ f[x] <= e[x]
        OBVIOUS
      <3> QED BY <3>1, <3>2, <3>3
    <2> QED BY <2>2, <2>3
  <1> HIDE DEF C
  <1>2. \A s \in SUBSET T : s \in C
    BY <1>1, SubsetInduction
  <1> QED BY <1>2 DEF C

-----------------------------------------------------------------------------
(* The same for the values of a whole function *)

LEMMA SumIsNat ==
  ASSUME NEW S, IsFiniteSet(S), NEW f \in [S -> Nat]
  PROVE  /\ SumFunction(f) \in Nat
         /\ \A x \in S : f[x] <= SumFunction(f)
         /\ (\A x \in S : f[x] = 0) => SumFunction(f) = 0
  <1> DEFINE z == [x \in S |-> 0]
  <1>0. DOMAIN f = S /\ SumFunction(f) = SumFunctionOnSet(f, S)
    BY DEF SumFunction
  <1>1. \A x \in S : f[x] \in Nat /\ f[x] \in Int /\ f[x] <= f[x]
    OBVIOUS
  <1>2. \A s \in SUBSET S : SumFunctionOnSet(f, s) \in Nat
    BY <1>1, SumGrows
  <1>3. ASSUME NEW x \in S PROVE f[x] <= SumFunctionOnSet(f, S)
    <2>1. SumFunctionOnSet(f, S) = f[x] + SumFunctionOnSet(f, S \ {x})
      BY <1>1, SumFacts
    <2>2. SumFunctionOnSet(f, S \ {x}) \in Nat
      BY <1>2
    <2> QED BY <1>1, <2>1, <2>2
  <1>4. ASSUME \A x \in S : f[x] = 0 PROVE SumFunctionOnSet(f, S) = 0
    <2> DEFINE C == {s \in SUBSET S : SumFunctionOnSet(f, s) = 0}
    <2>1. ASSUME NEW s \in SUBSET S, \A x \in s : s \ {x} \in C PROVE s \in C
      <3>1. IsFiniteSet(s) /\ \A x \in s : f[x] \in Int /\ f[x] = 0
        BY <1>4, FS_Subset
      <3>2. CASE s = {}
        BY <3>1, <3>2, SumFacts
      <3>3. ASSUME NEW x \in s PROVE SumFunctionOnSet(f, s) = 0
        <4>1. SumFunctionOnSet(f, s) = f[x] + SumFunctionOnSet(f, s \ {x})
          BY <3>1, SumFacts
        <4> QED BY <2>1, <3>1, <4>1
      <3> QED BY <3>2, <3>3
    <2> HIDE DEF C
    <2>2. \A s \in SUBSET S : s \in C
      BY <2>1, SubsetInduction
    <2> QED BY <2>2 DEF C
  <1> QED BY <1>0, <1>2, <1>3, <1>4

\* One value is another.
LEMMA SumAtOne ==
  ASSUME NEW S, IsFiniteSet(S), NEW f \in [S -> Nat], NEW e \in [S -> Nat],
         NEW y \in S, Agree(f, e, S \ {y})
  PROVE  SumFunction(e) = SumFunction(f) - f[y] + e[y]
  <1>1. SumFunction(f) = SumFunctionOnSet(f, S) /\ SumFunction(e) = SumFunctionOnSet(e, S)
    BY DEF SumFunction
  <1>2. \A x \in S : f[x] \in Int /\ e[x] \in Int
    OBVIOUS
  <1>3. \A x \in S \ {y} : f[x] = e[x]
    BY DEF Agree
  <1> QED BY <1>1, <1>2, <1>3, SumChange

OneMore(S, y, T) == T = S \cup {y} /\ y \notin S

\* There is one value more.
LEMMA SumOfMore ==
  ASSUME NEW S, IsFiniteSet(S), NEW f \in [S -> Nat],
         NEW y, NEW T, OneMore(S, y, T), NEW e \in [T -> Nat], Agree(f, e, S)
  PROVE  SumFunction(e) = SumFunction(f) + e[y]
  <1>1. SumFunction(f) = SumFunctionOnSet(f, S) /\ SumFunction(e) = SumFunctionOnSet(e, S \cup {y})
    BY DEF SumFunction, OneMore
  <1>2. y \notin S /\ \A x \in S \cup {y} : e[x] \in Int
    BY DEF OneMore
  <1>3. SumFunctionOnSet(e, S \cup {y}) = e[y] + SumFunctionOnSet(e, S)
    BY <1>2, SumAdd
  <1>4. \A x \in S : f[x] \in Int /\ f[x] = e[x]
    BY DEF Agree
  <1>5. SumFunctionOnSet(f, S) = SumFunctionOnSet(e, S) /\ SumFunctionOnSet(f, S) \in Int
    BY <1>4, SumSame, SumFacts
  <1>6. e[y] \in Int
    BY <1>2
  <1> QED BY <1>1, <1>3, <1>5, <1>6

\* No value is larger, and there may be fewer of them.
LEMMA SumOfLess ==
  ASSUME NEW S, IsFiniteSet(S), NEW T, T \subseteq S, NEW f \in [T -> Nat], NEW e \in [S -> Nat],
         \A x \in T : f[x] <= e[x]
  PROVE  SumFunction(f) <= SumFunction(e)
  <1> DEFINE g == [x \in S |-> IF x \in T THEN f[x] ELSE 0]
  <1>1. SumFunction(f) = SumFunctionOnSet(f, T) /\ SumFunction(e) = SumFunctionOnSet(e, S)
    BY DEF SumFunction
  <1>2. \A x \in S : g[x] \in Nat /\ e[x] \in Nat /\ g[x] <= e[x]
    OBVIOUS
  <1>3. IsFiniteSet(T) /\ \A x \in T : f[x] \in Int /\ f[x] = g[x]
    BY FS_Subset
  <1> HIDE DEF g
  <1>4. SumFunctionOnSet(f, T) = SumFunctionOnSet(g, T)
    BY <1>3, SumSame
  <1>5. SumFunctionOnSet(g, T) <= SumFunctionOnSet(e, T) /\ SumFunctionOnSet(g, T) \in Nat
    BY <1>2, SumGrows
  <1> DEFINE C == {s \in SUBSET S : T \subseteq s => SumFunctionOnSet(e, T) <= SumFunctionOnSet(e, s)}
  <1>6. ASSUME NEW s \in SUBSET S, \A x \in s : s \ {x} \in C PROVE s \in C
    <2> SUFFICES ASSUME T \subseteq s PROVE SumFunctionOnSet(e, T) <= SumFunctionOnSet(e, s)
      OBVIOUS
    <2>1. IsFiniteSet(s) /\ \A x \in s : e[x] \in Int /\ e[x] \in Nat
      BY FS_Subset
    <2>2. CASE s = T
      BY <2>1, <2>2, SumFacts
    <2>3. ASSUME NEW x \in s, x \notin T PROVE SumFunctionOnSet(e, T) <= SumFunctionOnSet(e, s)
      <3>1. /\ SumFunctionOnSet(e, s) = e[x] + SumFunctionOnSet(e, s \ {x})
            /\ SumFunctionOnSet(e, s \ {x}) \in Int
        BY <2>1, SumFacts
      <3>2. SumFunctionOnSet(e, T) <= SumFunctionOnSet(e, s \ {x})
        BY <1>6, <2>3
      <3>3. SumFunctionOnSet(e, T) \in Int
        BY <1>3, SumFacts
      <3> QED BY <2>1, <3>1, <3>2, <3>3
    <2> QED BY <2>2, <2>3
  <1> HIDE DEF C
  <1>7. SumFunctionOnSet(e, T) <= SumFunctionOnSet(e, S)
    <2>1. \A s \in SUBSET S : s \in C
      BY <1>6, SubsetInduction
    <2> QED BY <2>1 DEF C
  <1>8. SumFunctionOnSet(e, T) \in Int /\ SumFunctionOnSet(e, S) \in Int
    BY <1>2, <1>3, SumFacts
  <1> QED BY <1>1, <1>4, <1>5, <1>7, <1>8

-----------------------------------------------------------------------------
(* The inductive invariant *)

OrderStatuses == ActiveStatuses \cup TerminalStatuses \cup {"none"}
OrderRows == [status : OrderStatuses, qty : Nat, filled : Nat, remaining : Nat, no : BOOLEAN]
ExitRows == [pos : Nat, qty : Nat,
             signal : {"none", "SIGNALLED", "EXIT_INTENT_CREATED", "COMMAND_QUEUED", "CLOSED"},
             intent : {"none", "CREATED", "COMMAND_QUEUED", "REJECTED", "CLOSED"}]
PosRows == [status : {"OPEN", "CLOSING", "CLOSED", "RECONCILE_MISMATCH"}, qty : Nat]
CancelStatuses == {"none", "CREATED", "COMMAND_QUEUED", "ACKED", "REJECTED"}
OrderEvents == {"started", "ack", "failed", "exec"}
FeedEvents == [type : OrderEvents \cup {"cancel_ack", "cancel_failed"}, of : Orders, id : Nat, q : Nat,
               rem : Nat]
RunRows == [at : Places, on : Orders \cup {None}, pos : Nat, qty : Nat]

Shape ==
  /\ intent \in [Buys -> IntentStatuses]
  /\ order \in [Orders -> OrderRows]
  /\ cancel \in [Buys -> CancelStatuses]
  /\ exit \in [Sells -> ExitRows]
  /\ pos \in Seq(PosRows)
  /\ booked \subseteq Orders \X Nat
  /\ blocked \in BOOLEAN
  /\ command \in [Orders -> {"none", "QUEUED", "TAKEN", "EXPIRED"}]
  /\ open \in [Orders -> Nat]
  /\ fills \in [Orders -> Nat]
  /\ feed \in Seq(FeedEvents)
  /\ run \in [Runners -> RunRows]

ExitsHavePositions == \A x \in Sells : exit[x].pos <= Len(pos)
ClosedIsEmpty == \A p \in DOMAIN pos : pos[p].status = "CLOSED" => pos[p].qty = 0

\* The books and the broker have the quantity of the command.
QuantitiesAgree ==
  \A o \in Orders : /\ Known(o) => order[o].qty = CommandQuantity(o)
                    /\ order[o].remaining <= order[o].qty
                    /\ open[o] <= CommandQuantity(o)

\* What an event on its way says of its order.
Truthful(e) ==
  /\ e.type \in OrderEvents => command[e.of] = "TAKEN"
  /\ e.type = "failed" \/ (e.type = "exec" /\ e.rem = 0) => open[e.of] = 0
  /\ e.type = "exec" => e.rem <= CommandQuantity(e.of) 
  /\ e.type \notin OrderEvents => e.of \in Buys

EventsAreTrue == \A i \in 1 .. Len(feed) : Truthful(feed[i])

\* Nothing is open before its command was taken, and nothing is queued before its intent.
CommandsFirst ==
  /\ \A o \in Orders : open[o] > 0 => command[o] = "TAKEN"
  /\ \A b \in Buys : intent[b] \in {"none", "CREATED"} => command[b] = "none"
  /\ \A x \in Sells : exit[x].signal = "none" => command[x] = "none" /\ ~Known(x)
  /\ \A b \in Buys : cancel[b] # "none" => Known(b)

Cancelling(r) == run[r].at \in {"cancel_queue", "cancel_record"}
Exiting(r) == run[r].at \in {"intent", "exit_queue", "exit_record"}

\* What a runner has read still holds of the rows it will write.
RunnersHold ==
  \A r \in Runners :
    /\ run[r].pos <= Len(pos)
    /\ run[r].at = "signal" => run[r].pos > 0
    /\ run[r].at = "cancel" => run[r].on \in Buys /\ Known(run[r].on)
    /\ Cancelling(r) => run[r].on \in Buys /\ cancel[run[r].on] = "CREATED"
    /\ Exiting(r) => run[r].on \in Sells /\ ~Known(run[r].on) /\ exit[run[r].on].signal # "none"
    /\ run[r].at \in {"intent", "exit_queue"} => command[run[r].on] = "none"
    /\ run[r].at \in {"exit_queue", "exit_record"} => exit[run[r].on].qty = run[r].qty

\* No two runners write the same cancel or the same exit.
RunnersApart ==
  \A r, s \in Runners :
    r # s /\ (Cancelling(r) \/ Exiting(r)) /\ (Cancelling(s) \/ Exiting(s)) => run[r].on # run[s].on

Inv ==
  /\ Shape
  /\ ClosedIsEmpty
  /\ ExitsHavePositions
  /\ QuantitiesAgree
  /\ EventsAreTrue
  /\ CommandsFirst
  /\ RunnersHold
  /\ RunnersApart

-----------------------------------------------------------------------------
(* Which actions touch a variable *)

LEMMA IntentSteps ==
  ASSUME [Next]_vars
  PROVE  \/ UNCHANGED intent
         \/ \E b \in Buys : CreateIntent(b) \/ QueueBuy(b) \/ RejectBinding(b) \/ Sweep(b)
         \/ Failed \/ CancelAnswered
  BY DEF Next, vars, books, broker, BuyStep, Reconcile, CancelStep, CancelRead, CancelIntent,
         CancelQueue, CancelRecord, ExitStep, ExitRead, ExitSignal, ExitIntent, ExitQueue, ExitRecord,
         RunnerDies, BrokerStep, Dispatch, Fill, Expire, DispatchCancel, BrokerCancel, Repeat,
         HandlerStep, Started, Acked, Executed

LEMMA OrderSteps ==
  ASSUME [Next]_vars
  PROVE  \/ UNCHANGED order
         \/ \E b \in Buys : QueueBuy(b) \/ Sweep(b)
         \/ \E r \in Runners : CancelIntent(r) \/ CancelRecord(r) \/ ExitRecord(r)
         \/ Started \/ Acked \/ Failed \/ CancelAnswered \/ Executed
  BY DEF Next, vars, books, broker, BuyStep, CreateIntent, RejectBinding, Reconcile, CancelStep,
         CancelRead, CancelQueue, ExitStep, ExitRead, ExitSignal, ExitIntent, ExitQueue, RunnerDies,
         BrokerStep, Dispatch, Fill, Expire, DispatchCancel, BrokerCancel, Repeat, HandlerStep

LEMMA CancelSteps ==
  ASSUME [Next]_vars
  PROVE  \/ UNCHANGED cancel
         \/ \E r \in Runners : CancelIntent(r) \/ CancelQueue(r) \/ CancelRecord(r)
         \/ CancelAnswered
  BY DEF Next, vars, books, broker, BuyStep, CreateIntent, QueueBuy, RejectBinding, Sweep, Reconcile,
         CancelStep, CancelRead, ExitStep, ExitRead, ExitSignal, ExitIntent, ExitQueue, ExitRecord,
         RunnerDies, BrokerStep, Dispatch, Fill, Expire, DispatchCancel, BrokerCancel, Repeat,
         HandlerStep, Started, Acked, Failed, Executed

LEMMA ExitSteps ==
  ASSUME [Next]_vars
  PROVE  \/ UNCHANGED exit
         \/ \E r \in Runners : ExitSignal(r) \/ ExitIntent(r) \/ ExitQueue(r) \/ ExitRecord(r)
         \/ Failed \/ Executed
  BY DEF Next, vars, books, broker, BuyStep, CreateIntent, QueueBuy, RejectBinding, Sweep, Reconcile,
         CancelStep, CancelRead, CancelIntent, CancelQueue, CancelRecord, ExitStep, ExitRead,
         RunnerDies, BrokerStep, Dispatch, Fill, Expire, DispatchCancel, BrokerCancel, Repeat,
         HandlerStep, Started, Acked, CancelAnswered

LEMMA PositionSteps ==
  ASSUME [Next]_vars
  PROVE  \/ UNCHANGED pos
         \/ \E r \in Runners : ExitRecord(r)
         \/ Executed
  BY DEF Next, vars, books, broker, BuyStep, CreateIntent, QueueBuy, RejectBinding, Sweep, Reconcile,
         CancelStep, CancelRead, CancelIntent, CancelQueue, CancelRecord, ExitStep, ExitRead,
         ExitSignal, ExitIntent, ExitQueue, RunnerDies, BrokerStep, Dispatch, Fill, Expire,
         DispatchCancel, BrokerCancel, Repeat, HandlerStep, Started, Acked, Failed, CancelAnswered

LEMMA CommandSteps ==
  ASSUME [Next]_vars
  PROVE  \/ UNCHANGED command
         \/ \E b \in Buys : QueueBuy(b) \/ Expire(b)
         \/ \E r \in Runners : ExitQueue(r)
         \/ \E o \in Orders : Dispatch(o)
  BY DEF Next, vars, books, broker, BuyStep, CreateIntent, RejectBinding, Sweep, Reconcile,
         CancelStep, CancelRead, CancelIntent, CancelQueue, CancelRecord, ExitStep, ExitRead,
         ExitSignal, ExitIntent, ExitRecord, RunnerDies, BrokerStep, Fill, DispatchCancel,
         BrokerCancel, Repeat, HandlerStep, Started, Acked, Failed, CancelAnswered, Executed

LEMMA OpenSteps ==
  ASSUME [Next]_vars
  PROVE  \/ UNCHANGED <<open, fills>>
         \/ \E o \in Orders : Dispatch(o) \/ Fill(o)
         \/ \E b \in Buys : BrokerCancel(b)
  BY DEF Next, vars, books, broker, BuyStep, CreateIntent, QueueBuy, RejectBinding, Sweep, Reconcile,
         CancelStep, CancelRead, CancelIntent, CancelQueue, CancelRecord, ExitStep, ExitRead,
         ExitSignal, ExitIntent, ExitQueue, ExitRecord, RunnerDies, BrokerStep, Expire,
         DispatchCancel, Repeat, HandlerStep, Started, Acked, Failed, CancelAnswered, Executed

LEMMA FeedSteps ==
  ASSUME [Next]_vars
  PROVE  \/ UNCHANGED feed
         \/ \E o \in Orders : Dispatch(o) \/ Fill(o)
         \/ \E b \in Buys : DispatchCancel(b)
         \/ \E i \in DOMAIN feed : Repeat(i)
         \/ feed # <<>> /\ feed' = Tail(feed)
  BY DEF Next, vars, books, broker, BuyStep, CreateIntent, QueueBuy, RejectBinding, Sweep, Reconcile,
         CancelStep, CancelRead, CancelIntent, CancelQueue, CancelRecord, ExitStep, ExitRead,
         ExitSignal, ExitIntent, ExitQueue, ExitRecord, RunnerDies, BrokerStep, Expire, BrokerCancel,
         HandlerStep, Started, Acked, Failed, CancelAnswered, Executed, Receive

LEMMA RunnerSteps ==
  ASSUME [Next]_vars
  PROVE  \/ UNCHANGED run
         \/ \E r \in Runners :
              \/ \E b \in Buys : CancelRead(r, b)
              \/ CancelIntent(r) \/ CancelQueue(r) \/ CancelRecord(r)
              \/ \E p \in DOMAIN pos : ExitRead(r, p)
              \/ ExitSignal(r) \/ ExitIntent(r) \/ ExitQueue(r) \/ ExitRecord(r) \/ RunnerDies(r)
  BY DEF Next, vars, books, broker, BuyStep, CreateIntent, QueueBuy, RejectBinding, Sweep, Reconcile,
         CancelStep, ExitStep, BrokerStep, Dispatch, Fill, Expire, DispatchCancel, BrokerCancel,
         Repeat, HandlerStep, Started, Acked, Failed, CancelAnswered, Executed

LEMMA BookedSteps ==
  ASSUME [Next]_vars
  PROVE  UNCHANGED booked \/ Executed
  BY DEF Next, vars, books, broker, BuyStep, CreateIntent, QueueBuy, RejectBinding, Sweep, Reconcile,
         CancelStep, CancelRead, CancelIntent, CancelQueue, CancelRecord, ExitStep, ExitRead,
         ExitSignal, ExitIntent, ExitQueue, ExitRecord, RunnerDies, BrokerStep, Dispatch, Fill,
         Expire, DispatchCancel, BrokerCancel, Repeat, HandlerStep, Started, Acked, Failed,
         CancelAnswered

LEMMA BlockedSteps ==
  ASSUME [Next]_vars
  PROVE  UNCHANGED blocked \/ Reconcile
  BY DEF Next, vars, books, broker, BuyStep, CreateIntent, QueueBuy, RejectBinding, Sweep,
         CancelStep, CancelRead, CancelIntent, CancelQueue, CancelRecord, ExitStep, ExitRead,
         ExitSignal, ExitIntent, ExitQueue, ExitRecord, RunnerDies, BrokerStep, Dispatch, Fill,
         Expire, DispatchCancel, BrokerCancel, Repeat, HandlerStep, Started, Acked, Failed,
         CancelAnswered, Executed

-----------------------------------------------------------------------------
(* Events *)

LEMMA NewEvents ==
  ASSUME Shape, NEW o \in Orders, NEW id \in Nat, NEW rem \in Nat
  PROVE  /\ CommandQuantity(o) \in Nat
         /\ \A type \in OrderEvents \cup {"cancel_ack", "cancel_failed"} : Event(type, o) \in FeedEvents
         /\ \A q \in Nat : Execution(o, id, q, rem) \in FeedEvents
         /\ Chejan(o, id, rem) \in Seq(FeedEvents)
  <1>1. CommandQuantity(o) \in Nat
    BY LiveSimConstants DEF Shape, CommandQuantity, ExitRows, Orders
  <1>2. \A q \in Nat : Execution(o, id, q, rem) \in FeedEvents
    BY DEF Execution, FeedEvents, OrderEvents
  <1>3. \A type \in OrderEvents \cup {"cancel_ack", "cancel_failed"} : Event(type, o) \in FeedEvents
    BY DEF Event, FeedEvents
  <1>4. Chejan(o, id, rem) \in Seq(FeedEvents)
    BY <1>1, <1>2 DEF Chejan
  <1> QED BY <1>1, <1>2, <1>3, <1>4

\* The feed stays a sequence of events; what is new in it is named.
LEMMA FeedShape ==
  ASSUME Shape, [Next]_vars
  PROVE  feed' \in Seq(FeedEvents)
  <1> USE DEF Shape
  <1>1. CASE UNCHANGED feed
    BY <1>1
  <1>2. ASSUME NEW o \in Orders, Dispatch(o) PROVE feed' \in Seq(FeedEvents)
    <2>1. /\ Event("started", o) \in FeedEvents /\ Event("ack", o) \in FeedEvents
          /\ Event("failed", o) \in FeedEvents
          /\ Chejan(o, 0, CommandQuantity(o)) \in Seq(FeedEvents)
      BY NewEvents DEF OrderEvents
    <2> HIDE DEF Shape
    <2>2. feed \in Seq(FeedEvents)
      BY DEF Shape
    <2>3. \/ feed' = feed \o <<Event("started", o), Event("ack", o)>>
                          \o Chejan(o, 0, CommandQuantity(o))
          \/ feed' = feed \o <<Event("started", o), Event("failed", o)>>
      BY <1>2 DEF Dispatch
    <2>4. /\ <<Event("started", o), Event("ack", o)>> \in Seq(FeedEvents)
          /\ <<Event("started", o), Event("failed", o)>> \in Seq(FeedEvents)
      BY <2>1
    <2>5. \A s, t \in Seq(FeedEvents) : s \o t \in Seq(FeedEvents)
      OBVIOUS
    <2> QED BY <2>1, <2>2, <2>3, <2>4, <2>5
  <1>3. ASSUME NEW o \in Orders, Fill(o) PROVE feed' \in Seq(FeedEvents)
    <2>1. PICK q \in 1 .. open[o] :
            feed' = feed \o Chejan(o, fills[o] + 1, open[o] - q)
                         \o <<Execution(o, fills[o] + 1, q, open[o] - q)>>
      BY <1>3 DEF Fill
    <2>2. open[o] \in Nat /\ fills[o] + 1 \in Nat /\ q \in Nat /\ open[o] - q \in Nat
      OBVIOUS
    <2>3. /\ Execution(o, fills[o] + 1, q, open[o] - q) \in FeedEvents
          /\ Chejan(o, fills[o] + 1, open[o] - q) \in Seq(FeedEvents)
      BY <2>2, NewEvents
    <2> HIDE DEF Shape
    <2>4. feed \in Seq(FeedEvents)
      BY DEF Shape
    <2> QED BY <2>1, <2>3, <2>4
  <1>4. ASSUME NEW b \in Buys, DispatchCancel(b) PROVE feed' \in Seq(FeedEvents)
    <2>1. PICK answer \in {"cancel_ack", "cancel_failed"} : feed' = Append(feed, Event(answer, b))
      BY <1>4 DEF DispatchCancel
    <2>2. Event(answer, b) \in FeedEvents
      BY DEF Event, FeedEvents, Orders
    <2> QED BY <2>1, <2>2
  <1>5. ASSUME NEW i \in DOMAIN feed, Repeat(i) PROVE feed' \in Seq(FeedEvents)
    BY <1>5 DEF Repeat
  <1>6. CASE feed # <<>> /\ feed' = Tail(feed)
    BY <1>6
  <1> QED BY <1>1, <1>2, <1>3, <1>4, <1>5, <1>6, FeedSteps

\* What the new events of a step say.
Fresh(e) ==
  \/ /\ command[e.of] = "QUEUED" /\ command'[e.of] = "TAKEN"
     /\ e.type \in OrderEvents
     /\ e.type = "failed" => open'[e.of] = open[e.of]
     /\ e.type = "exec" => e.rem = CommandQuantity(e.of) /\ open'[e.of] = e.rem
  \/ /\ open[e.of] > 0 /\ open'[e.of] < open[e.of] /\ open'[e.of] = e.rem
     /\ e.type = "exec"
  \/ e.of \in Buys /\ e.type \in {"cancel_ack", "cancel_failed"}

LEMMA FeedMoves ==
  ASSUME Shape, [Next]_vars
  PROVE  \A i \in 1 .. Len(feed') :
           (\E j \in 1 .. Len(feed) : feed'[i] = feed[j]) \/ Fresh(feed'[i])
  <1> SUFFICES ASSUME NEW i \in 1 .. Len(feed')
               PROVE  (\E j \in 1 .. Len(feed) : feed'[i] = feed[j]) \/ Fresh(feed'[i])
    OBVIOUS
  <1>0. /\ feed \in Seq(FeedEvents) /\ open \in [Orders -> Nat]
        /\ command \in [Orders -> {"none", "QUEUED", "TAKEN", "EXPIRED"}]
    BY DEF Shape
  <1>1. CASE UNCHANGED feed
    BY <1>0, <1>1
  <1>2. ASSUME NEW o \in Orders, Dispatch(o)
        PROVE  (\E j \in 1 .. Len(feed) : feed'[i] = feed[j]) \/ Fresh(feed'[i])
    <2>1. /\ command[o] = "QUEUED" /\ command'[o] = "TAKEN" /\ CommandQuantity(o) \in Nat
      BY <1>0, <1>2, NewEvents DEF Dispatch
    <2>2. Fresh(Event("started", o))
      BY <2>1 DEF Fresh, Event, OrderEvents
    <2>3. CASE /\ feed' = feed \o <<Event("started", o), Event("ack", o)>>
                               \o Chejan(o, 0, CommandQuantity(o))
               /\ open' = [open EXCEPT ![o] = CommandQuantity(o)]
      <3>1. Fresh(Event("ack", o))
        BY <2>1 DEF Fresh, Event, OrderEvents
      <3>2. Fresh(Execution(o, 0, CommandQuantity(o), CommandQuantity(o)))
        BY <1>0, <2>1, <2>3 DEF Fresh, Execution, OrderEvents
      <3>3. CASE ChejanFeed
        <4>1. feed' = feed \o <<Event("started", o), Event("ack", o)>>
                           \o <<Execution(o, 0, CommandQuantity(o), CommandQuantity(o))>>
          BY <2>3, <3>3 DEF Chejan
        <4> QED BY <1>0, <2>2, <3>1, <3>2, <4>1
      <3>4. CASE ~ChejanFeed
        <4>1. feed' = feed \o <<Event("started", o), Event("ack", o)>>
          BY <1>0, <2>3, <3>4 DEF Chejan
        <4> QED BY <1>0, <2>2, <3>1, <4>1
      <3> QED BY <3>3, <3>4, LiveSimConstants
    <2>4. CASE /\ feed' = feed \o <<Event("started", o), Event("failed", o)>>
               /\ UNCHANGED open
      <3>1. Fresh(Event("failed", o))
        BY <2>1, <2>4 DEF Fresh, Event, OrderEvents
      <3> QED BY <1>0, <2>2, <2>4, <3>1
    <2> QED BY <1>2, <2>3, <2>4 DEF Dispatch
  <1>3. ASSUME NEW o \in Orders, Fill(o)
        PROVE  (\E j \in 1 .. Len(feed) : feed'[i] = feed[j]) \/ Fresh(feed'[i])
    <2>1. PICK q \in 1 .. open[o] :
            /\ open' = [open EXCEPT ![o] = @ - q]
            /\ feed' = feed \o Chejan(o, fills[o] + 1, open[o] - q)
                            \o <<Execution(o, fills[o] + 1, q, open[o] - q)>>
      BY <1>3 DEF Fill
    <2>2. open[o] > 0 /\ open'[o] = open[o] - q /\ open'[o] < open[o]
      BY <1>0, <2>1
    <2>3. \A k \in Nat : Fresh(Execution(o, fills[o] + 1, k, open[o] - q))
      BY <2>2 DEF Fresh, Execution
    <2>4. Fresh(Execution(o, fills[o] + 1, q, open[o] - q))
      BY <1>0, <2>3
    <2>5. Fresh(Execution(o, fills[o] + 1, CommandQuantity(o), open[o] - q))
      BY <2>3, NewEvents
    <2>6. CASE ChejanFeed
      <3>1. feed' = feed \o <<Execution(o, fills[o] + 1, CommandQuantity(o), open[o] - q)>>
                         \o <<Execution(o, fills[o] + 1, q, open[o] - q)>>
        BY <2>1, <2>6 DEF Chejan
      <3> QED BY <1>0, <2>4, <2>5, <3>1
    <2>7. CASE ~ChejanFeed
      <3>1. feed' = feed \o <<Execution(o, fills[o] + 1, q, open[o] - q)>>
        BY <1>0, <2>1, <2>7 DEF Chejan
      <3> QED BY <1>0, <2>4, <3>1
    <2> QED BY <2>6, <2>7, LiveSimConstants
  <1>4. ASSUME NEW b \in Buys, DispatchCancel(b)
        PROVE  (\E j \in 1 .. Len(feed) : feed'[i] = feed[j]) \/ Fresh(feed'[i])
    <2>1. PICK answer \in {"cancel_ack", "cancel_failed"} : feed' = Append(feed, Event(answer, b))
      BY <1>4 DEF DispatchCancel
    <2>2. Fresh(Event(answer, b))
      BY DEF Fresh, Event
    <2> QED BY <1>0, <2>1, <2>2
  <1>5. ASSUME NEW k \in DOMAIN feed, Repeat(k)
        PROVE  (\E j \in 1 .. Len(feed) : feed'[i] = feed[j]) \/ Fresh(feed'[i])
    BY <1>0, <1>5 DEF Repeat
  <1>6. CASE feed # <<>> /\ feed' = Tail(feed)
    <2>1. i \in 1 .. Len(feed) - 1 /\ i + 1 \in 1 .. Len(feed) /\ feed'[i] = feed[i + 1]
      BY <1>0, <1>6
    <2> QED BY <2>1
  <1> QED BY <1>1, <1>2, <1>3, <1>4, <1>5, <1>6, FeedSteps

-----------------------------------------------------------------------------
(* What a step does to a row *)

LEMMA IntentMoves ==
  ASSUME Shape, [Next]_vars
  PROVE  /\ intent' \in [Buys -> IntentStatuses]
         /\ \A b \in Buys : intent'[b] \in {"none", "CREATED"} => intent[b] \in {"none", "CREATED"}
  <1>0. intent \in [Buys -> IntentStatuses]
    BY DEF Shape
  <1>1. CASE UNCHANGED intent
    BY <1>0, <1>1
  <1>2. CASE \E c \in Buys : CreateIntent(c) \/ QueueBuy(c) \/ RejectBinding(c) \/ Sweep(c)
    BY <1>0, <1>2 DEF CreateIntent, QueueBuy, RejectBinding, Sweep, IntentStatuses
  <1>3. CASE Failed
    BY <1>0, <1>3 DEF Failed, IntentStatuses
  <1>4. CASE CancelAnswered
    BY <1>0, <1>4 DEF CancelAnswered, IntentStatuses
  <1> QED BY <1>1, <1>2, <1>3, <1>4, IntentSteps

CommandMove(o) ==
  \/ command'[o] = command[o]
  \/ /\ o \in Buys /\ intent[o] = "CREATED" /\ intent'[o] = "COMMAND_QUEUED"
     /\ order'[o] = NewOrder("COMMAND_QUEUED", Q)
     /\ command'[o] = "QUEUED"
  \/ /\ \E r \in Runners : At(r, "exit_queue") /\ run[r].on = o /\ run'[r].at = "exit_record"
     /\ command'[o] = "QUEUED"
  \/ command[o] = "QUEUED" /\ command'[o] \in {"TAKEN", "EXPIRED"}

LEMMA CommandMoves ==
  ASSUME Shape, [Next]_vars
  PROVE  /\ command' \in [Orders -> {"none", "QUEUED", "TAKEN", "EXPIRED"}]
         /\ \A o \in Orders : CommandMove(o)
  <1>0. /\ command \in [Orders -> {"none", "QUEUED", "TAKEN", "EXPIRED"}]
        /\ order \in [Orders -> OrderRows] /\ intent \in [Buys -> IntentStatuses]
        /\ run \in [Runners -> RunRows]
    BY DEF Shape
  <1>1. CASE UNCHANGED command
    BY <1>0, <1>1 DEF CommandMove
  <1>2. CASE \E b \in Buys : QueueBuy(b) \/ Expire(b)
    BY <1>0, <1>2 DEF CommandMove, QueueBuy, Expire, Orders
  <1>3. CASE \E r \in Runners : ExitQueue(r)
    BY <1>0, <1>3 DEF CommandMove, ExitQueue, Goto, Done, At
  <1>4. CASE \E a \in Orders : Dispatch(a)
    BY <1>0, <1>4 DEF CommandMove, Dispatch
  <1> QED BY <1>1, <1>2, <1>3, <1>4, CommandSteps

OpenMove(o) ==
  \/ open'[o] = open[o]
  \/ command[o] = "QUEUED" /\ command'[o] = "TAKEN" /\ open'[o] = CommandQuantity(o)
  \/ open'[o] < open[o]

LEMMA OpenMoves ==
  ASSUME Shape, [Next]_vars
  PROVE  /\ open' \in [Orders -> Nat] /\ fills' \in [Orders -> Nat]
         /\ \A o \in Orders : OpenMove(o)
  <1>0. /\ open \in [Orders -> Nat] /\ fills \in [Orders -> Nat]
        /\ command \in [Orders -> {"none", "QUEUED", "TAKEN", "EXPIRED"}]
    BY DEF Shape
  <1>1. CASE UNCHANGED <<open, fills>>
    BY <1>0, <1>1 DEF OpenMove
  <1>2. ASSUME NEW a \in Orders, Dispatch(a)
        PROVE  open' \in [Orders -> Nat] /\ UNCHANGED fills /\ \A o \in Orders : OpenMove(o)
    <2>1. CommandQuantity(a) \in Nat
      BY NewEvents
    <2> QED BY <1>0, <1>2, <2>1 DEF OpenMove, Dispatch
  <1>3. ASSUME NEW a \in Orders, Fill(a)
        PROVE  /\ open' \in [Orders -> Nat] /\ fills' \in [Orders -> Nat]
               /\ \A o \in Orders : OpenMove(o)
    <2>1. PICK q \in 1 .. open[a] : /\ open' = [open EXCEPT ![a] = @ - q]
                                    /\ fills' = [fills EXCEPT ![a] = @ + 1]
      BY <1>3 DEF Fill
    <2> QED BY <1>0, <2>1 DEF OpenMove
  <1>4. ASSUME NEW b \in Buys, BrokerCancel(b)
        PROVE  open' \in [Orders -> Nat] /\ UNCHANGED fills /\ \A o \in Orders : OpenMove(o)
    BY <1>0, <1>4 DEF OpenMove, BrokerCancel, Orders
  <1> QED BY <1>0, <1>1, <1>2, <1>3, <1>4, OpenSteps

CancelMove(b) ==
  \/ cancel'[b] = cancel[b]
  \/ cancel[b] = "none" /\ cancel'[b] = "CREATED" /\ Known(b)
  \/ /\ cancel[b] = "CREATED" /\ cancel'[b] \in {"COMMAND_QUEUED", "REJECTED"}
     /\ \E r \in Runners : Cancelling(r) /\ run[r].on = b /\ run'[r] = Idle
  \/ cancel[b] = "COMMAND_QUEUED" /\ cancel'[b] \in {"ACKED", "REJECTED"}

LEMMA CancelMoves ==
  ASSUME Inv, [Next]_vars
  PROVE  cancel' \in [Buys -> CancelStatuses] /\ \A b \in Buys : CancelMove(b)
  <1>0. /\ cancel \in [Buys -> CancelStatuses] /\ run \in [Runners -> RunRows]
        /\ \A r \in Runners : /\ run[r].at = "cancel" => run[r].on \in Buys /\ Known(run[r].on)
                              /\ Cancelling(r) => run[r].on \in Buys /\ cancel[run[r].on] = "CREATED"
    BY DEF Inv, Shape, RunnersHold
  <1>1. CASE UNCHANGED cancel
    BY <1>0, <1>1 DEF CancelMove
  <1>2. CASE \E r \in Runners : CancelIntent(r)
    BY <1>0, <1>2 DEF CancelMove, CancelIntent, At, CancelStatuses
  <1>3. CASE \E r \in Runners : CancelQueue(r)
    BY <1>0, <1>3 DEF CancelMove, CancelQueue, At, Done, CancelStatuses, Cancelling
  <1>4. CASE \E r \in Runners : CancelRecord(r)
    BY <1>0, <1>4 DEF CancelMove, CancelRecord, At, Done, CancelStatuses, Cancelling
  <1>5. CASE CancelAnswered
    BY <1>0, <1>5 DEF CancelMove, CancelAnswered, CancelStatuses
  <1> QED BY <1>1, <1>2, <1>3, <1>4, <1>5, CancelSteps

\* The first event is one of the events.
LEMMA FirstEvent ==
  ASSUME Shape, feed # <<>>
  PROVE  /\ Head(feed) \in FeedEvents /\ Head(feed) = feed[1] /\ 1 \in 1 .. Len(feed)
         /\ Head(feed).of \in Orders /\ Head(feed).q \in Nat /\ Head(feed).rem \in Nat
         /\ Head(feed).id \in Nat
  <1>1. feed \in Seq(FeedEvents)
    BY DEF Shape
  <1>2. Head(feed) = feed[1] /\ 1 \in 1 .. Len(feed)
    BY <1>1
  <1>3. Head(feed) \in FeedEvents
    BY <1>1, <1>2, ElementOfSeq
  <1> QED BY <1>2, <1>3 DEF FeedEvents

\* A step writes this row of a position, or nothing when there is no such position.
Writes(p, row) ==
  /\ pos' = [pos EXCEPT ![p] = row]
  /\ p \in DOMAIN pos => row \in PosRows /\ (row.status = "CLOSED" => row.qty = 0)

LEMMA PositionWritten ==
  ASSUME Shape, ClosedIsEmpty, NEW p, NEW row, Writes(p, row)
  PROVE  /\ pos' \in Seq(PosRows)
         /\ Len(pos') = Len(pos)
         /\ ClosedIsEmpty'
  <1>0. pos \in Seq(PosRows) /\ DOMAIN pos = 1 .. Len(pos)
    BY DEF Shape
  <1>1. CASE p \in DOMAIN pos
    <2>1. /\ pos' \in Seq(PosRows) /\ Len(pos') = Len(pos)
          /\ \A j \in 1 .. Len(pos) : pos'[j] = IF j = p THEN row ELSE pos[j]
      BY <1>0, <1>1, ExceptSeq DEF Writes
    <2>2. DOMAIN pos' = DOMAIN pos
      BY <1>0, <2>1
    <2> QED BY <1>0, <1>1, <2>1, <2>2 DEF ClosedIsEmpty, Writes
  <1>2. CASE p \notin DOMAIN pos
    <2>1. pos \in [DOMAIN pos -> PosRows]
      BY <1>0
    <2>2. pos' = pos
      BY <1>2, <2>1 DEF Writes
    <2> QED BY <1>0, <2>2 DEF ClosedIsEmpty
  <1> QED BY <1>1, <1>2

LEMMA PositionMoves ==
  ASSUME Shape, ClosedIsEmpty, [Next]_vars
  PROVE  /\ pos' \in Seq(PosRows)
         /\ Len(pos') >= Len(pos)
         /\ ClosedIsEmpty'
  <1>0. pos \in Seq(PosRows) /\ DOMAIN pos = 1 .. Len(pos) /\ Len(pos) \in Nat
    BY DEF Shape
  <1>1. \A p \in DOMAIN pos : pos[p] \in PosRows
    BY <1>0, ElementOfSeq
  <1>2. CASE UNCHANGED pos
    BY <1>0, <1>2 DEF ClosedIsEmpty
  <1>3. ASSUME NEW r \in Runners, ExitRecord(r)
        PROVE  /\ pos' \in Seq(PosRows)
               /\ Len(pos') >= Len(pos)
               /\ ClosedIsEmpty'
    <2> DEFINE p == run[r].pos
               row == [pos[p] EXCEPT !.status = "CLOSING"]
    <2>1. pos' = [pos EXCEPT ![p] = row]
      BY <1>3 DEF ExitRecord
    <2>2. p \in DOMAIN pos => row \in PosRows /\ row.status # "CLOSED"
      BY <1>1 DEF PosRows
    <2>3. Writes(p, row)
      BY <2>1, <2>2 DEF Writes
    <2> HIDE DEF p, row
    <2> QED BY <1>0, <2>3, PositionWritten
  <1>4. ASSUME Executed
        PROVE  /\ pos' \in Seq(PosRows)
               /\ Len(pos') >= Len(pos)
               /\ ClosedIsEmpty'
    <2> DEFINE e == Head(feed)
    <2>0. e.q \in Nat
      BY <1>4, FirstEvent DEF Executed, Receive
    <2>1. UNCHANGED pos \/ BuyFill(e) \/ SellFill(e)
      BY <1>4 DEF Executed
    <2> HIDE DEF e
    <2>2. CASE BuyFill(e)
      <3> DEFINE p == PositionIn({"OPEN", "RECONCILE_MISMATCH"})
                 row == [status |-> "OPEN", qty |-> pos[p].qty + e.q]
      <3>1. \/ pos' = Append(pos, [status |-> "OPEN", qty |-> e.q])
            \/ pos' = [pos EXCEPT ![p] = row]
        BY <2>2 DEF BuyFill
      <3> HIDE DEF p
      <3>2. CASE pos' = Append(pos, [status |-> "OPEN", qty |-> e.q])
        BY <1>0, <2>0, <3>2 DEF PosRows, ClosedIsEmpty
      <3>3. CASE pos' = [pos EXCEPT ![p] = row]
        <4>1. p \in DOMAIN pos => pos[p].qty \in Nat
          BY <1>1 DEF PosRows
        <4>2. p \in DOMAIN pos => row \in PosRows /\ row.status # "CLOSED"
          BY <2>0, <4>1 DEF PosRows
        <4> HIDE DEF row
        <4>3. Writes(p, row)
          BY <3>3, <4>2 DEF Writes
        <4> QED BY <1>0, <4>3, PositionWritten
      <3> QED BY <3>1, <3>2, <3>3
    <2>3. CASE SellFill(e) /\ Fits(e.q)
      <3> DEFINE p == SellFrom
                 row == [status |-> IF Keeps(e.q) THEN "CLOSING" ELSE "CLOSED", qty |-> pos[p].qty - e.q]
      <3>1. pos' = [pos EXCEPT ![p] = row] /\ e.q <= pos[p].qty
        BY <2>3 DEF SellFill, Fits
      <3>2. Keeps(e.q) \/ ~(e.q < pos[p].qty)
        BY <2>3 DEF Keeps
      <3> HIDE DEF p
      <3>3. p \in DOMAIN pos => pos[p].qty \in Nat
        BY <1>1 DEF PosRows
      <3>4. p \in DOMAIN pos => row \in PosRows /\ (row.status = "CLOSED" => row.qty = 0)
        BY <2>0, <3>1, <3>2, <3>3 DEF PosRows
      <3> HIDE DEF row
      <3>5. Writes(p, row)
        BY <3>1, <3>4 DEF Writes
      <3> QED BY <1>0, <3>5, PositionWritten
    <2>4. CASE SellFill(e) /\ ~Fits(e.q)
      <3> DEFINE p == SellFrom
                 row(i) == IF i = p THEN [pos[i] EXCEPT !.status = "RECONCILE_MISMATCH"] ELSE pos[i]
      <3>1. pos' = [i \in 1 .. Len(pos) |-> row(i)]
        BY <1>0, <2>4 DEF SellFill
      <3> HIDE DEF p
      <3>2. \A i \in 1 .. Len(pos) : row(i) \in PosRows /\ (row(i).status = "CLOSED" => row(i) = pos[i])
        BY <1>0, <1>1 DEF PosRows
      <3> HIDE DEF row
      <3>3. pos' \in Seq(PosRows)
        BY <1>0, <3>1, <3>2
      <3>4. Len(pos') = Len(pos) /\ DOMAIN pos' = DOMAIN pos
        BY <1>0, <3>1, <3>3
      <3> QED BY <1>0, <3>1, <3>2, <3>3, <3>4 DEF ClosedIsEmpty
    <2> QED BY <1>2, <2>1, <2>2, <2>3, <2>4
  <1> QED BY <1>2, <1>3, <1>4, PositionSteps

\* What a step may do to the row of an exit: begin it, give it its quantity, or keep both.
ExitMove(x) ==
  \/ exit'[x] = exit[x]
  \/ \E r \in Runners : /\ At(r, "signal") /\ exit[x] = NoExit
                        /\ exit'[x].signal # "none" /\ exit'[x].pos = run[r].pos
  \/ \E r \in Runners : /\ At(r, "intent") /\ run[r].on = x
                        /\ exit'[x].signal # "none" /\ exit'[x].pos = exit[x].pos
  \/ /\ exit'[x].qty = exit[x].qty /\ exit'[x].pos = exit[x].pos
     /\ exit[x].signal # "none" => exit'[x].signal # "none"

LEMMA ExitMoves ==
  ASSUME Inv, [Next]_vars
  PROVE  exit' \in [Sells -> ExitRows] /\ \A x \in Sells : ExitMove(x)
  <1>0. exit \in [Sells -> ExitRows] /\ run \in [Runners -> RunRows] /\ Shape
    BY DEF Inv, Shape
  <1>1. ASSUME NEW r \in Runners
        PROVE  run[r].pos \in Nat /\ run[r].qty \in Nat /\ (Exiting(r) => run[r].on \in Sells)
    BY <1>0 DEF RunRows, Inv, RunnersHold
  <1>2. CASE UNCHANGED exit
    BY <1>0, <1>2 DEF ExitMove
  <1>3. ASSUME NEW r \in Runners, ExitSignal(r)
        PROVE  exit' \in [Sells -> ExitRows] /\ \A x \in Sells : ExitMove(x)
    <2>1. PICK x \in Sells :
            exit[x] = NoExit /\ exit' = [exit EXCEPT ![x].pos = run[r].pos, ![x].signal = "SIGNALLED"]
      BY <1>3 DEF ExitSignal
    <2> DEFINE row == [NoExit EXCEPT !.pos = run[r].pos, !.signal = "SIGNALLED"]
    <2>2. exit' = [exit EXCEPT ![x] = row]
      BY <1>0, <2>1
    <2>3. row \in ExitRows /\ row.signal = "SIGNALLED" /\ row.pos = run[r].pos
      BY <1>1 DEF NoExit, ExitRows
    <2> HIDE DEF row
    <2>4. exit'[x] = row /\ \A y \in Sells \ {x} : exit'[y] = exit[y]
      BY <1>0, <2>2
    <2>5. At(r, "signal")
      BY <1>3 DEF ExitSignal
    <2> QED BY <1>0, <2>1, <2>2, <2>3, <2>4, <2>5 DEF ExitMove
  <1>4. ASSUME NEW r \in Runners, ExitIntent(r)
        PROVE  exit' \in [Sells -> ExitRows] /\ \A x \in Sells : ExitMove(x)
    <2> DEFINE x == run[r].on
               row == [exit[x] EXCEPT !.signal = "EXIT_INTENT_CREATED", !.intent = "CREATED",
                                      !.qty = run[r].qty]
    <2>1. At(r, "intent") /\ x \in Sells
      BY <1>1, <1>4 DEF ExitIntent, At, Exiting
    <2>2. exit' = [exit EXCEPT ![x] = row]
      BY <1>4 DEF ExitIntent
    <2>3. row \in ExitRows /\ row.signal # "none" /\ row.pos = exit[x].pos
      BY <1>0, <1>1, <2>1 DEF ExitRows
    <2> HIDE DEF row
    <2>4. exit'[x] = row /\ \A y \in Sells \ {x} : exit'[y] = exit[y]
      BY <1>0, <2>1, <2>2
    <2> QED BY <1>0, <2>1, <2>2, <2>3, <2>4 DEF ExitMove
  <1>5. ASSUME NEW x \in Sells, NEW row \in ExitRows, exit' = [exit EXCEPT ![x] = row],
               row.qty = exit[x].qty, row.pos = exit[x].pos,
               exit[x].signal # "none" => row.signal # "none"
        PROVE  exit' \in [Sells -> ExitRows] /\ \A y \in Sells : ExitMove(y)
    <2>1. exit'[x] = row /\ \A y \in Sells \ {x} : exit'[y] = exit[y]
      BY <1>0, <1>5
    <2> QED BY <1>0, <1>5, <2>1 DEF ExitMove
  <1>6. ASSUME NEW r \in Runners, ExitQueue(r)
        PROVE  exit' \in [Sells -> ExitRows] /\ \A x \in Sells : ExitMove(x)
    <2> DEFINE x == run[r].on
               row == [exit[x] EXCEPT !.intent = "REJECTED"]
    <2>1. x \in Sells
      BY <1>1, <1>6 DEF ExitQueue, At, Exiting
    <2>2. UNCHANGED exit \/ exit' = [exit EXCEPT ![x] = row]
      BY <1>6 DEF ExitQueue
    <2>3. /\ row \in ExitRows /\ row.qty = exit[x].qty /\ row.pos = exit[x].pos
          /\ row.signal = exit[x].signal
      BY <1>0, <2>1 DEF ExitRows
    <2> HIDE DEF x, row
    <2> QED BY <1>2, <1>5, <2>1, <2>2, <2>3
  <1>7. ASSUME NEW r \in Runners, ExitRecord(r)
        PROVE  exit' \in [Sells -> ExitRows] /\ \A x \in Sells : ExitMove(x)
    <2> DEFINE x == run[r].on
               row == [exit[x] EXCEPT !.signal = "COMMAND_QUEUED", !.intent = "COMMAND_QUEUED"]
    <2>1. x \in Sells
      BY <1>1, <1>7 DEF ExitRecord, At, Exiting
    <2>2. exit' = [exit EXCEPT ![x] = row]
      BY <1>7 DEF ExitRecord
    <2>3. /\ row \in ExitRows /\ row.qty = exit[x].qty /\ row.pos = exit[x].pos
          /\ row.signal # "none"
      BY <1>0, <2>1 DEF ExitRows
    <2> HIDE DEF x, row
    <2> QED BY <1>5, <2>1, <2>2, <2>3
  <1>8. CASE Failed
    <2> DEFINE o == Head(feed).of
    <2>1. \/ UNCHANGED exit
          \/ exit' = [x \in Sells |-> IF x = o THEN [exit[x] EXCEPT !.intent = "REJECTED"] ELSE exit[x]]
      BY <1>8 DEF Failed
    <2> HIDE DEF o
    <2>2. ASSUME NEW x \in Sells, NEW row, row = [exit[x] EXCEPT !.intent = "REJECTED"]
          PROVE  /\ row \in ExitRows /\ row.qty = exit[x].qty /\ row.pos = exit[x].pos
                 /\ row.signal = exit[x].signal
      BY <1>0, <2>2 DEF ExitRows
    <2> QED BY <1>0, <1>2, <2>1, <2>2 DEF ExitMove
  <1>9. CASE Executed
    <2> DEFINE x == Head(feed).of
               status == IF Keeps(Head(feed).q) THEN "COMMAND_QUEUED" ELSE "CLOSED"
               row == [exit[x] EXCEPT !.intent = status, !.signal = status]
    <2>1. x \in Orders
      BY <1>0, <1>9, FirstEvent DEF Executed, Receive
    <2>2. UNCHANGED exit \/ (x \in Sells /\ exit' = [exit EXCEPT ![x] = row])
      BY <1>9, <2>1 DEF Executed, BuyFill, SellFill, Orders
    <2>3. x \in Sells => /\ row \in ExitRows /\ row.qty = exit[x].qty /\ row.pos = exit[x].pos
                         /\ row.signal # "none"
      BY <1>0 DEF ExitRows
    <2> HIDE DEF x, row
    <2> QED BY <1>2, <1>5, <2>2, <2>3
  <1> QED BY <1>2, <1>3, <1>4, <1>6, <1>7, <1>8, <1>9, ExitSteps

\* The next event is the last word on o: it failed, or it is filled.
LastWord(o) ==
  /\ feed # <<>>
  /\ Head(feed).of = o
  /\ Head(feed).type = "failed" \/ (Head(feed).type = "exec" /\ Head(feed).rem = 0)

\* A known order keeps its quantity; it stops to be active only for these reasons.
OrderKept(o) ==
  /\ Known(o) /\ order'[o].status # "none"
  /\ order'[o].qty = order[o].qty
  /\ \/ order'[o].remaining \in {0, order[o].remaining}
     \/ /\ feed # <<>> /\ Head(feed).of = o /\ Head(feed).type = "exec"
        /\ order'[o].remaining = Head(feed).rem
  /\ \/ order'[o].status \in ActiveStatuses
     \/ o \notin Buys
     \/ command[o] = "EXPIRED"
     \/ cancel'[o] \in {"ACKED", "REJECTED"}
     \/ LastWord(o)

OrderMove(o) ==
  \/ order'[o] = order[o]
  \/ /\ o \in Buys /\ intent[o] = "CREATED" /\ intent'[o] = "COMMAND_QUEUED"
     /\ order'[o] = NewOrder("COMMAND_QUEUED", Q)
  \/ \E r \in Runners : /\ At(r, "exit_record") /\ run[r].on = o /\ run'[r] = Idle
                        /\ order'[o] = NewOrder("EXIT_COMMAND_QUEUED", run[r].qty)
                        /\ exit'[o].qty = exit[o].qty
  \/ OrderKept(o)

LEMMA NewOrderRow ==
  ASSUME NEW status \in ActiveStatuses, NEW q \in Nat
  PROVE  /\ NewOrder(status, q) \in OrderRows
         /\ NewOrder(status, q).status = status /\ NewOrder(status, q).qty = q
         /\ NewOrder(status, q).remaining = q
  BY DEF NewOrder, OrderRows, OrderStatuses

LEMMA StatusRow ==
  ASSUME NEW row \in OrderRows, NEW status \in ActiveStatuses \cup TerminalStatuses
  PROVE  LET new == [row EXCEPT !.status = status]
         IN  /\ new \in OrderRows /\ new.status = status /\ new.status # "none"
             /\ new.qty = row.qty /\ new.remaining = row.remaining
  BY DEF OrderRows, OrderStatuses, ActiveStatuses, TerminalStatuses

Filled(row, q, rem, status) == [row EXCEPT !.filled = @ + q, !.remaining = rem, !.status = status]

LEMMA FilledRow ==
  ASSUME NEW row \in OrderRows, NEW q, q \in Nat, NEW rem, rem \in Nat,
         NEW status \in OrderStatuses
  PROVE  /\ Filled(row, q, rem, status) \in OrderRows
         /\ Filled(row, q, rem, status).status = status
         /\ Filled(row, q, rem, status).qty = row.qty
         /\ Filled(row, q, rem, status).remaining = rem
  <1> DEFINE new == [row EXCEPT !.filled = @ + q, !.remaining = rem, !.status = status]
  <1>1. row.filled + q \in Nat
    BY DEF OrderRows
  <1>2. new \in OrderRows
    BY <1>1 DEF OrderRows
  <1>3. new.status = status /\ new.qty = row.qty /\ new.remaining = rem
    BY <1>1 DEF OrderRows
  <1> QED BY <1>2, <1>3 DEF Filled

LEMMA BuyOrderMoves ==
  ASSUME Inv, NEW b \in Buys, QueueBuy(b) \/ Sweep(b)
  PROVE  order' \in [Orders -> OrderRows] /\ \A o \in Orders : OrderMove(o)
  <1>0. Shape /\ order \in [Orders -> OrderRows] /\ b \in Orders /\ intent \in [Buys -> IntentStatuses]
    BY DEF Inv, Shape, Orders
  <1>1. CASE QueueBuy(b)
    <2>1. NewOrder("COMMAND_QUEUED", Q) \in OrderRows
      BY NewOrderRow, LiveSimConstants DEF ActiveStatuses
    <2>2. /\ order' = [order EXCEPT ![b] = NewOrder("COMMAND_QUEUED", Q)]
          /\ intent[b] = "CREATED" /\ intent'[b] = "COMMAND_QUEUED"
      BY <1>0, <1>1 DEF QueueBuy
    <2> QED BY <1>0, <2>1, <2>2 DEF OrderMove
  <1>2. CASE Sweep(b)
    <2> DEFINE row == [order[b] EXCEPT !.status = "ORDER_EXPIRED", !.remaining = 0]
    <2>1. order' = [order EXCEPT ![b] = row] /\ Known(b) /\ command[b] = "EXPIRED"
      BY <1>2 DEF Sweep, Known
    <2>2. row \in OrderRows /\ row.status # "none" /\ row.remaining = 0 /\ row.qty = order[b].qty
      BY <1>0 DEF OrderRows, OrderStatuses, TerminalStatuses
    <2> HIDE DEF row
    <2>3. /\ order' \in [Orders -> OrderRows] /\ order'[b] = row
          /\ \A o \in Orders : o # b => order'[o] = order[o]
      BY <1>0, <2>1, <2>2
    <2>4. OrderKept(b)
      BY <2>1, <2>2, <2>3 DEF OrderKept, Known
    <2> QED BY <2>3, <2>4 DEF OrderMove
  <1> QED BY <1>1, <1>2

LEMMA RunnerOrderMoves ==
  ASSUME Inv, NEW r \in Runners, CancelIntent(r) \/ CancelRecord(r) \/ ExitRecord(r)
  PROVE  order' \in [Orders -> OrderRows] /\ \A o \in Orders : OrderMove(o)
  <1>0. /\ Shape /\ order \in [Orders -> OrderRows] /\ run \in [Runners -> RunRows]
        /\ exit \in [Sells -> ExitRows] /\ Buys \subseteq Orders /\ Sells \subseteq Orders
    BY DEF Inv, Shape, Orders
  <1> DEFINE o == run[r].on
  <1>1. ASSUME NEW status \in ActiveStatuses, order' = [order EXCEPT ![o].status = status],
               o \in Buys, Known(o)
        PROVE  order' \in [Orders -> OrderRows] /\ \A a \in Orders : OrderMove(a)
    <2> DEFINE row == [order[o] EXCEPT !.status = status]
    <2>1. order' = [order EXCEPT ![o] = row]
      BY <1>1
    <2>2. /\ row \in OrderRows /\ row.status = status /\ row.status # "none"
          /\ row.remaining = order[o].remaining /\ row.qty = order[o].qty
      BY <1>0, <1>1, StatusRow
    <2> HIDE DEF row, o
    <2>3. /\ order' \in [Orders -> OrderRows] /\ order'[o] = row
          /\ \A a \in Orders : a # o => order'[a] = order[a]
      BY <1>0, <1>1, <2>1, <2>2
    <2>4. OrderKept(o)
      BY <1>1, <2>2, <2>3 DEF OrderKept, Known
    <2> QED BY <2>3, <2>4 DEF OrderMove
  <1>2. CASE CancelIntent(r)
    <2>1. o \in Buys /\ Known(o)
      BY <1>2 DEF CancelIntent, At, Inv, RunnersHold
    <2>2. UNCHANGED order \/ order' = [order EXCEPT ![o].status = "CANCEL_REQUESTED"]
      BY <1>2 DEF CancelIntent
    <2>3. CASE UNCHANGED order
      BY <1>0, <2>3 DEF OrderMove
    <2> QED BY <1>1, <2>1, <2>2, <2>3 DEF ActiveStatuses
  <1>3. CASE CancelRecord(r)
    <2>1. o \in Buys /\ cancel[o] = "CREATED"
      BY <1>3 DEF CancelRecord, At, Inv, RunnersHold, Cancelling
    <2>2. Known(o)
      BY <2>1 DEF Inv, CommandsFirst
    <2>3. order' = [order EXCEPT ![o].status = "CANCEL_COMMAND_QUEUED"]
      BY <1>3 DEF CancelRecord
    <2> QED BY <1>1, <2>1, <2>2, <2>3 DEF ActiveStatuses
  <1>4. CASE ExitRecord(r)
    <2>1. At(r, "exit_record") /\ o \in Sells /\ run[r].qty \in Nat
      BY <1>0, <1>4 DEF ExitRecord, At, Inv, RunnersHold, Exiting, RunRows
    <2>2. order' = [order EXCEPT ![o] = NewOrder("EXIT_COMMAND_QUEUED", run[r].qty)]
      BY <1>4 DEF ExitRecord
    <2>3. NewOrder("EXIT_COMMAND_QUEUED", run[r].qty) \in OrderRows
      BY <2>1, NewOrderRow DEF ActiveStatuses
    <2>4. exit'[o].qty = exit[o].qty /\ run'[r] = Idle
      BY <1>0, <1>4, <2>1 DEF ExitRecord, Done, ExitRows
    <2> HIDE DEF o
    <2>5. /\ order' \in [Orders -> OrderRows]
          /\ order'[o] = NewOrder("EXIT_COMMAND_QUEUED", run[r].qty)
          /\ \A a \in Orders : a # o => order'[a] = order[a]
      BY <1>0, <2>1, <2>2, <2>3
    <2>6. OrderMove(o)
      BY <2>1, <2>4, <2>5 DEF OrderMove, o
    <2> QED BY <2>5, <2>6 DEF OrderMove
  <1> QED BY <1>2, <1>3, <1>4

LEMMA HandlerOrderMoves ==
  ASSUME Inv, Started \/ Acked \/ Failed \/ CancelAnswered \/ Executed
  PROVE  order' \in [Orders -> OrderRows] /\ \A o \in Orders : OrderMove(o)
  <1>0. /\ Shape /\ order \in [Orders -> OrderRows] /\ cancel \in [Buys -> CancelStatuses]
    BY DEF Inv, Shape
  <1> DEFINE e == Head(feed)
             o == e.of
  <1>1. feed # <<>> /\ o \in Orders /\ e.q \in Nat /\ e.rem \in Nat
    BY <1>0, FirstEvent DEF Started, Acked, Failed, CancelAnswered, Executed, Receive
  <1>2. ASSUME NEW row \in OrderRows, order' = [order EXCEPT ![o] = row],
               order'[o] = row => OrderKept(o)
        PROVE  order' \in [Orders -> OrderRows] /\ \A a \in Orders : OrderMove(a)
    <2>1. /\ order' \in [Orders -> OrderRows] /\ order'[o] = row
          /\ \A a \in Orders : a # o => order'[a] = order[a]
      BY <1>0, <1>1, <1>2
    <2> HIDE DEF o
    <2> QED BY <1>2, <2>1 DEF OrderMove
  <1>3. CASE UNCHANGED order
    BY <1>0, <1>3 DEF OrderMove
  <1>4. CASE Started
    <2> DEFINE status == IF o \in Buys THEN "COMMAND_DISPATCHED" ELSE "EXIT_COMMAND_QUEUED"
               row == [order[o] EXCEPT !.status = status]
    <2>1. UNCHANGED order \/ (Known(o) /\ order' = [order EXCEPT ![o] = row])
      BY <1>4 DEF Started
    <2>2. status \in ActiveStatuses
      BY DEF ActiveStatuses
    <2> HIDE DEF status
    <2>3. /\ row \in OrderRows /\ row.status = status /\ row.status # "none"
          /\ row.remaining = order[o].remaining /\ row.qty = order[o].qty
      BY <1>0, <1>1, <2>2, StatusRow
    <2> HIDE DEF row, o
    <2>4. Known(o) /\ order'[o] = row => OrderKept(o)
      BY <2>2, <2>3 DEF OrderKept
    <2> QED BY <1>2, <1>3, <2>1, <2>3, <2>4
  <1>5. CASE Acked
    <2> DEFINE row == [order[o] EXCEPT !.status = "BROKER_ACKED", !.no = ~ChejanFeed]
    <2>1. UNCHANGED order \/ (Known(o) /\ order' = [order EXCEPT ![o] = row])
      BY <1>5 DEF Acked
    <2>2. /\ row \in OrderRows /\ row.status = "BROKER_ACKED"
          /\ row.remaining = order[o].remaining /\ row.qty = order[o].qty
      BY <1>0, <1>1, LiveSimConstants DEF OrderRows, OrderStatuses, ActiveStatuses
    <2> HIDE DEF row, o
    <2>3. Known(o) /\ order'[o] = row => OrderKept(o)
      BY <2>2 DEF OrderKept, ActiveStatuses
    <2> QED BY <1>2, <1>3, <2>1, <2>2, <2>3
  <1>6. CASE Failed
    <2> DEFINE row == [order[o] EXCEPT !.status = "FAILED"]
    <2>1. UNCHANGED order \/ (Known(o) /\ order' = [order EXCEPT ![o] = row])
      BY <1>6 DEF Failed
    <2>2. LastWord(o)
      BY <1>1, <1>6 DEF Failed, Receive, LastWord
    <2>3. /\ row \in OrderRows /\ row.status # "none"
          /\ row.remaining = order[o].remaining /\ row.qty = order[o].qty
      <3>1. "FAILED" \in ActiveStatuses \cup TerminalStatuses
        BY DEF TerminalStatuses
      <3>2. order[o] \in OrderRows
        BY <1>0, <1>1
      <3> HIDE DEF o
      <3> QED BY <3>1, <3>2, StatusRow
    <2> HIDE DEF row, o
    <2>4. Known(o) /\ order'[o] = row => OrderKept(o)
      BY <2>2, <2>3 DEF OrderKept
    <2> QED BY <1>2, <1>3, <2>1, <2>3, <2>4
  <1>7. CASE CancelAnswered
    <2> DEFINE accepted == e.type = "cancel_ack"
               status == IF accepted THEN "CANCELLED" ELSE "CANCEL_REJECTED"
               row == [order[o] EXCEPT !.status = status]
    <2>1. \/ UNCHANGED order
          \/ /\ cancel[o] = "COMMAND_QUEUED"
             /\ cancel' = [cancel EXCEPT ![o] = IF accepted THEN "ACKED" ELSE "REJECTED"]
             /\ order' = [order EXCEPT ![o] = row]
      BY <1>7 DEF CancelAnswered
    <2>2. status \in ActiveStatuses \cup TerminalStatuses
      BY DEF TerminalStatuses
    <2> HIDE DEF status
    <2>3. /\ row \in OrderRows /\ row.status # "none"
          /\ row.remaining = order[o].remaining /\ row.qty = order[o].qty
      BY <1>0, <1>1, <2>2, StatusRow
    <2>4. o \in Buys
      BY <1>1, <1>7, FirstEvent, <1>0
         DEF CancelAnswered, Receive, Inv, EventsAreTrue, Truthful, OrderEvents
    <2> HIDE DEF row, o, accepted
    <2>5. cancel[o] = "COMMAND_QUEUED" => Known(o)
      BY <2>4 DEF Inv, CommandsFirst
    <2>6. CASE /\ cancel[o] = "COMMAND_QUEUED"
               /\ cancel' = [cancel EXCEPT ![o] = IF accepted THEN "ACKED" ELSE "REJECTED"]
               /\ order' = [order EXCEPT ![o] = row]
      <3>1. cancel'[o] \in {"ACKED", "REJECTED"}
        BY <1>0, <2>4, <2>6
      <3>2. order'[o] = row => OrderKept(o)
        BY <2>3, <2>5, <2>6, <3>1 DEF OrderKept
      <3> QED BY <1>2, <2>3, <2>6, <3>2
    <2> QED BY <1>3, <2>1, <2>6
  <1>8. CASE Executed
    <2> DEFINE row == Filled(order[o], e.q, e.rem, FillStatus(e))
    <2>1. UNCHANGED order \/ (Known(o) /\ order' = [order EXCEPT ![o] = row])
      BY <1>8 DEF Executed, Filled
    <2>2. /\ FillStatus(e) \in {"EXIT_FILLED", "FILLED", "PARTIALLY_FILLED"}
          /\ o \in Buys /\ e.rem # 0 => FillStatus(e) = "PARTIALLY_FILLED"
      BY LiveSimConstants DEF FillStatus
    <2>3. e.type = "exec"
      BY <1>8 DEF Executed, Receive
    <2>4. order[o] \in OrderRows
      BY <1>0, <1>1
    <2>5. \A f \in {"EXIT_FILLED", "FILLED", "PARTIALLY_FILLED"} :
            f \in OrderStatuses /\ f # "none"
      BY DEF OrderStatuses, ActiveStatuses, TerminalStatuses
    <2>6. /\ row \in OrderRows /\ row.status = FillStatus(e)
          /\ row.remaining = e.rem /\ row.qty = order[o].qty
      <3>1. FillStatus(e) \in OrderStatuses
        BY <2>2, <2>5
      <3> HIDE DEF e, o
      <3> QED BY <1>1, <2>4, <3>1, FilledRow
    <2> HIDE DEF row
    <2>7. o \in Buys /\ e.rem = 0 => LastWord(o)
      BY <1>1, <2>3 DEF LastWord
    <2>8. "PARTIALLY_FILLED" \in ActiveStatuses
      BY DEF ActiveStatuses
    <2>9. Known(o) /\ order'[o] = row => OrderKept(o)
      BY <1>1, <2>2, <2>3, <2>5, <2>6, <2>7, <2>8 DEF OrderKept
    <2> HIDE DEF o
    <2> QED BY <1>2, <1>3, <2>1, <2>6, <2>9
  <1> QED BY <1>4, <1>5, <1>6, <1>7, <1>8

LEMMA OrderMoves ==
  ASSUME Inv, [Next]_vars
  PROVE  order' \in [Orders -> OrderRows] /\ \A o \in Orders : OrderMove(o)
  <1>1. CASE UNCHANGED order
    BY <1>1 DEF Inv, Shape, OrderMove
  <1> QED BY <1>1, OrderSteps, BuyOrderMoves, RunnerOrderMoves, HandlerOrderMoves

Place(place, on, p, qty) == [at |-> place, on |-> on, pos |-> p, qty |-> qty]

\* Where a runner may go.
RunMove(r) ==
  \/ run'[r] = run[r]
  \/ run'[r] = Idle
  \/ \E b \in Buys : run'[r] = Place("cancel", b, 0, 0) /\ Known(b)
  \/ /\ At(r, "cancel") /\ run'[r] = Place("cancel_queue", run[r].on, 0, 0)
     /\ cancel[run[r].on] = "none" /\ cancel'[run[r].on] = "CREATED"
  \/ /\ At(r, "cancel_queue") /\ run'[r] = Place("cancel_record", run[r].on, 0, 0)
     /\ UNCHANGED cancel
  \/ \E p \in DOMAIN pos : run'[r] = Place("signal", None, p, 0)
  \/ \E x \in Sells : \E q \in Nat :
       /\ At(r, "signal") /\ run'[r] = Place("intent", x, run[r].pos, q)
       /\ exit[x].signal = "none" /\ exit'[x].signal # "none"
  \/ /\ At(r, "intent") /\ run'[r] = Place("exit_queue", run[r].on, run[r].pos, run[r].qty)
     /\ exit'[run[r].on].qty = run[r].qty
  \/ /\ At(r, "exit_queue") /\ run'[r] = Place("exit_record", run[r].on, run[r].pos, run[r].qty)
     /\ UNCHANGED exit

\* One runner moves at a time.
LEMMA RunMoves ==
  ASSUME Inv, [Next]_vars
  PROVE  \/ UNCHANGED run
         \/ \E r \in Runners : /\ RunMove(r) /\ run'[r] \in RunRows
                               /\ run' = [run EXCEPT ![r] = run'[r]]
  <1>0. /\ Shape /\ run \in [Runners -> RunRows] /\ exit \in [Sells -> ExitRows]
        /\ cancel \in [Buys -> CancelStatuses] /\ Buys \subseteq Orders /\ Sells \subseteq Orders
        /\ pos \in Seq(PosRows) /\ DOMAIN pos = 1 .. Len(pos)
    BY DEF Inv, Shape, Orders
  <1>1. CASE UNCHANGED run
    BY <1>1
  <1>2. ASSUME NEW r \in Runners, NEW row \in RunRows, run' = [run EXCEPT ![r] = row],
               run'[r] = row => RunMove(r)
        PROVE  RunMove(r) /\ run'[r] \in RunRows /\ run' = [run EXCEPT ![r] = run'[r]]
    BY <1>0, <1>2
  <1>3. ASSUME NEW r \in Runners
        PROVE  /\ run[r].on \in Orders \cup {None} /\ run[r].pos \in Nat /\ run[r].qty \in Nat
               /\ run[r].at = "cancel" => run[r].on \in Buys
               /\ Cancelling(r) => run[r].on \in Buys
               /\ Exiting(r) => run[r].on \in Sells
               /\ run[r].at = "signal" => run[r].pos \in DOMAIN pos
    BY <1>0 DEF RunRows, Inv, RunnersHold
  <1>4. Idle \in RunRows
    BY DEF Idle, RunRows, Places
  <1>5. ASSUME NEW place \in Places, NEW on \in Orders \cup {None}, NEW p, p \in Nat, NEW q, q \in Nat
        PROVE  Place(place, on, p, q) \in RunRows
    BY <1>5 DEF Place, RunRows
  <1> DEFINE Goal(r) == RunMove(r) /\ run'[r] \in RunRows /\ run' = [run EXCEPT ![r] = run'[r]]
  <1>6. ASSUME NEW r \in Runners, Done(r) PROVE Goal(r)
    BY <1>2, <1>4, <1>6 DEF Done, RunMove
  <1>7. ASSUME NEW r \in Runners, NEW b \in Buys, CancelRead(r, b) PROVE Goal(r)
    <2>1. run' = [run EXCEPT ![r] = Place("cancel", b, 0, 0)] /\ Known(b)
      BY <1>7 DEF CancelRead, Goto, Place, ActiveOrders, ActiveStatuses, Known
    <2>2. Place("cancel", b, 0, 0) \in RunRows
      BY <1>0, <1>5 DEF Places
    <2> QED BY <1>2, <2>1, <2>2 DEF RunMove
  <1>8. ASSUME NEW r \in Runners, CancelIntent(r) PROVE Goal(r)
    <2>1. CASE Done(r)
      BY <1>6, <2>1
    <2>2. CASE ~Done(r)
      <3>1. /\ run' = [run EXCEPT ![r] = Place("cancel_queue", run[r].on, 0, 0)]
            /\ cancel[run[r].on] = "none" /\ At(r, "cancel")
            /\ cancel' = [cancel EXCEPT ![run[r].on] = "CREATED"]
        BY <1>8, <2>2 DEF CancelIntent, Goto, Place
      <3>2. cancel'[run[r].on] = "CREATED"
        BY <1>0, <1>3, <3>1 DEF At
      <3>3. Place("cancel_queue", run[r].on, 0, 0) \in RunRows
        BY <1>3, <1>5 DEF Places
      <3> QED BY <1>2, <3>1, <3>2, <3>3 DEF RunMove
    <2> QED BY <2>1, <2>2
  <1>9. ASSUME NEW r \in Runners, CancelQueue(r) PROVE Goal(r)
    <2>1. CASE Done(r)
      BY <1>6, <2>1
    <2>2. CASE ~Done(r)
      <3>1. /\ run' = [run EXCEPT ![r] = Place("cancel_record", run[r].on, 0, 0)]
            /\ At(r, "cancel_queue") /\ UNCHANGED cancel
        BY <1>9, <2>2 DEF CancelQueue, Goto, Place
      <3>2. Place("cancel_record", run[r].on, 0, 0) \in RunRows
        BY <1>3, <1>5 DEF Places
      <3> QED BY <1>2, <3>1, <3>2 DEF RunMove
    <2> QED BY <2>1, <2>2
  <1>10. ASSUME NEW r \in Runners, CancelRecord(r) \/ ExitRecord(r) \/ RunnerDies(r) PROVE Goal(r)
    BY <1>6, <1>10 DEF CancelRecord, ExitRecord, RunnerDies
  <1>11. ASSUME NEW r \in Runners, NEW p \in DOMAIN pos, ExitRead(r, p) PROVE Goal(r)
    <2>1. run' = [run EXCEPT ![r] = Place("signal", None, p, 0)]
      BY <1>11 DEF ExitRead, Goto, Place
    <2>2. Place("signal", None, p, 0) \in RunRows
      BY <1>0 DEF Place, RunRows, Places
    <2> QED BY <1>2, <2>1, <2>2 DEF RunMove
  <1>12. ASSUME NEW r \in Runners, ExitSignal(r) PROVE Goal(r)
    <2> DEFINE p == run[r].pos
    <2>0. At(r, "signal") /\ p \in DOMAIN pos
      BY <1>3, <1>12 DEF ExitSignal, At
    <2>1. PICK x \in Sells :
            /\ exit[x] = NoExit
            /\ exit' = [exit EXCEPT ![x].pos = p, ![x].signal = "SIGNALLED"]
            /\ Done(r) \/ run' = [run EXCEPT ![r] = Place("intent", x, p, pos[p].qty)]
      BY <1>12 DEF ExitSignal, Goto, Place
    <2>2. exit[x].signal = "none" /\ exit'[x].signal # "none"
      BY <1>0, <2>1 DEF NoExit, ExitRows
    <2>3. pos[p] \in PosRows
      BY <1>0, <2>0, ElementOfSeq
    <2>4. pos[p].qty \in Nat
      BY <2>3 DEF PosRows
    <2>5. CASE Done(r)
      BY <1>6, <2>5
    <2>6. CASE run' = [run EXCEPT ![r] = Place("intent", x, p, pos[p].qty)]
      <3>1. Place("intent", x, p, pos[p].qty) \in RunRows
        BY <1>0, <1>3, <1>5, <2>4 DEF Places
      <3> QED BY <1>2, <2>0, <2>2, <2>4, <2>6, <3>1 DEF RunMove
    <2> QED BY <2>1, <2>5, <2>6
  <1>13. ASSUME NEW r \in Runners, ExitIntent(r) PROVE Goal(r)
    <2>1. /\ run' = [run EXCEPT ![r] = Place("exit_queue", run[r].on, run[r].pos, run[r].qty)]
          /\ At(r, "intent")
      BY <1>13 DEF ExitIntent, Goto, Place
    <2>2. exit'[run[r].on].qty = run[r].qty
      BY <1>0, <1>3, <1>13 DEF ExitIntent, At, Exiting, ExitRows
    <2>3. Place("exit_queue", run[r].on, run[r].pos, run[r].qty) \in RunRows
      BY <1>3, <1>5 DEF Places
    <2> QED BY <1>2, <2>1, <2>2, <2>3 DEF RunMove
  <1>14. ASSUME NEW r \in Runners, ExitQueue(r) PROVE Goal(r)
    <2>1. CASE Done(r)
      BY <1>6, <2>1
    <2>2. CASE ~Done(r)
      <3>1. /\ run' = [run EXCEPT ![r] = Place("exit_record", run[r].on, run[r].pos, run[r].qty)]
            /\ At(r, "exit_queue") /\ UNCHANGED exit
        BY <1>14, <2>2 DEF ExitQueue, Goto, Place
      <3>2. Place("exit_record", run[r].on, run[r].pos, run[r].qty) \in RunRows
        BY <1>3, <1>5 DEF Places
      <3> QED BY <1>2, <3>1, <3>2 DEF RunMove
    <2> QED BY <2>1, <2>2
  <1> QED BY <1>1, <1>7, <1>8, <1>9, <1>10, <1>11, <1>12, <1>13, <1>14, RunnerSteps

-----------------------------------------------------------------------------
(* The invariant is inductive *)

\* What is true of a row stays true: an order stays known, an exit stays signalled, and
\* what is commanded keeps its quantity.
LEMMA Kept ==
  ASSUME Inv, [Next]_vars
  PROVE  /\ \A o \in Orders : Known(o) => order'[o].status # "none"
         /\ \A x \in Sells : exit[x].signal # "none" => exit'[x].signal # "none"
         /\ \A x \in Sells : command[x] # "none" \/ Known(x) => exit'[x].qty = exit[x].qty
         /\ \A o \in Orders : command[o] \in {"TAKEN", "EXPIRED"} => command'[o] = command[o]
  <1>1. ASSUME NEW o \in Orders, Known(o) PROVE order'[o].status # "none"
    <2>1. OrderMove(o)
      BY OrderMoves
    <2>2. CASE order'[o] = order[o]
      BY <1>1, <2>2 DEF Known
    <2>3. CASE order'[o] = NewOrder("COMMAND_QUEUED", Q)
      BY <2>3 DEF NewOrder
    <2>4. ASSUME NEW r \in Runners, order'[o] = NewOrder("EXIT_COMMAND_QUEUED", run[r].qty)
          PROVE  order'[o].status # "none"
      BY <2>4 DEF NewOrder
    <2>5. CASE OrderKept(o)
      BY <2>5 DEF OrderKept
    <2> QED BY <2>1, <2>2, <2>3, <2>4, <2>5 DEF OrderMove
  <1>2. ASSUME NEW x \in Sells
        PROVE  /\ exit[x].signal # "none" => exit'[x].signal # "none"
               /\ command[x] # "none" \/ Known(x) => exit'[x].qty = exit[x].qty
    <2>1. ExitMove(x)
      BY ExitMoves
    <2>2. exit[x] = NoExit => exit[x].signal = "none" /\ command[x] = "none" /\ ~Known(x)
      BY DEF NoExit, Inv, CommandsFirst
    <2>3. \A r \in Runners : At(r, "intent") /\ run[r].on = x => command[x] = "none" /\ ~Known(x)
      BY DEF At, Inv, RunnersHold, Exiting
    <2>4. CASE exit'[x] = exit[x]
      BY <2>4
    <2>5. CASE exit[x] = NoExit
      <3>1. exit[x].signal = "none" /\ command[x] = "none" /\ ~Known(x)
        BY <2>2, <2>5
      <3> QED BY <3>1
    <2>6. CASE \E r \in Runners : /\ At(r, "intent") /\ run[r].on = x
                                  /\ exit'[x].signal # "none"
      BY <2>3, <2>6
    <2>7. CASE exit'[x].qty = exit[x].qty /\ (exit[x].signal # "none" => exit'[x].signal # "none")
      BY <2>7
    <2> QED BY <2>1, <2>4, <2>5, <2>6, <2>7 DEF ExitMove
  <1>3. ASSUME NEW o \in Orders, command[o] \in {"TAKEN", "EXPIRED"} PROVE command'[o] = command[o]
    <2>1. \A r \in Runners : At(r, "exit_queue") /\ run[r].on = o => command[o] = "none"
      BY DEF At, Inv, RunnersHold
    <2>2. o \in Buys /\ intent[o] = "CREATED" => command[o] = "none"
      BY DEF Inv, CommandsFirst
    <2>3. Shape
      BY DEF Inv
    <2> QED BY <1>3, <2>1, <2>2, <2>3, CommandMoves DEF CommandMove
  <1> QED BY <1>1, <1>2, <1>3

LEMMA ShapeKept ==
  ASSUME Inv, [Next]_vars
  PROVE  Shape' /\ ClosedIsEmpty'
  <1>0. Shape /\ ClosedIsEmpty
    BY DEF Inv
  <1>1. booked' \subseteq Orders \X Nat
    <2>1. CASE Executed
      <3>1. Head(feed).of \in Orders /\ Head(feed).id \in Nat
        BY <1>0, <2>1, FirstEvent DEF Executed, Receive
      <3>2. booked' = booked \/ booked' = booked \cup {<<Head(feed).of, Head(feed).id>>}
        BY <2>1 DEF Executed
      <3> QED BY <1>0, <3>1, <3>2 DEF Shape
    <2>2. CASE UNCHANGED booked
      BY <1>0, <2>2 DEF Shape
    <2> QED BY <2>1, <2>2, BookedSteps
  <1>2. blocked' \in BOOLEAN
    <2>1. Mismatch \in BOOLEAN
      BY DEF Mismatch
    <2>2. CASE Reconcile
      BY <2>1, <2>2 DEF Reconcile
    <2>3. CASE UNCHANGED blocked
      BY <1>0, <2>3 DEF Shape
    <2> QED BY <2>2, <2>3, BlockedSteps
  <1>3. run' \in [Runners -> RunRows]
    BY <1>0, RunMoves DEF Shape
  <1> QED BY <1>0, <1>1, <1>2, <1>3, IntentMoves, OrderMoves, CancelMoves, ExitMoves, PositionMoves,
             CommandMoves, OpenMoves, FeedShape DEF Shape

\* No order becomes known, and no command is queued, before the exit is signalled.
LEMMA Unsignalled ==
  ASSUME Inv, [Next]_vars, NEW x \in Sells, exit[x].signal = "none"
  PROVE  command'[x] = "none" /\ order'[x].status = "none"
  <1>0. Shape /\ x \in Orders /\ x \notin Buys
    BY LiveSimConstants DEF Inv, Orders
  <1>1. command[x] = "none" /\ ~Known(x)
    BY DEF Inv, CommandsFirst
  <1>2. \A r \in Runners : Exiting(r) => run[r].on # x
    BY DEF Inv, RunnersHold
  <1>3. CommandMove(x) /\ OrderMove(x)
    BY <1>0, CommandMoves, OrderMoves
  <1>4. command'[x] = "none"
    BY <1>0, <1>1, <1>2, <1>3 DEF CommandMove, At, Exiting
  <1>5. order'[x] = order[x]
    BY <1>0, <1>1, <1>2, <1>3 DEF OrderMove, OrderKept, At, Exiting
  <1> QED BY <1>1, <1>4, <1>5 DEF Known

LEMMA CommandsFirstKept ==
  ASSUME Inv, [Next]_vars
  PROVE  CommandsFirst'
  <1>0. Shape /\ Shape' /\ CommandsFirst /\ Buys \subseteq Orders
    BY ShapeKept DEF Inv, Orders
  <1>1. ASSUME NEW o \in Orders, open'[o] > 0 PROVE command'[o] = "TAKEN"
    <2>1. OpenMove(o) /\ open[o] \in Nat /\ open'[o] \in Nat
      BY <1>0, OpenMoves DEF Shape
    <2>2. CASE open[o] > 0
      BY <1>0, <2>2, Kept DEF CommandsFirst
    <2>3. CASE ~(open[o] > 0)
      BY <1>1, <2>1, <2>3 DEF OpenMove
    <2> QED BY <2>2, <2>3
  <1>2. ASSUME NEW b \in Buys, intent'[b] \in {"none", "CREATED"} PROVE command'[b] = "none"
    <2>1. intent[b] \in {"none", "CREATED"}
      BY <1>0, <1>2, IntentMoves
    <2>2. command[b] = "none"
      BY <1>0, <2>1 DEF CommandsFirst
    <2>3. \A r \in Runners : At(r, "exit_queue") => run[r].on # b
      BY LiveSimConstants DEF At, Exiting, Inv, RunnersHold
    <2>4. CommandMove(b)
      BY <1>0, CommandMoves
    <2> QED BY <1>2, <2>2, <2>3, <2>4 DEF CommandMove
  <1>3. ASSUME NEW x \in Sells, exit'[x].signal = "none"
        PROVE  command'[x] = "none" /\ order'[x].status = "none"
    BY <1>3, Kept, Unsignalled
  <1>4. ASSUME NEW b \in Buys, cancel'[b] # "none" PROVE order'[b].status # "none"
    <2>1. CancelMove(b)
      BY CancelMoves
    <2>2. Known(b)
      BY <1>0, <1>4, <2>1 DEF CancelMove, CommandsFirst
    <2> QED BY <1>0, <2>2, Kept
  <1> QED BY <1>1, <1>2, <1>3, <1>4 DEF CommandsFirst, Known

LEMMA QuantitiesKept ==
  ASSUME Inv, [Next]_vars
  PROVE  QuantitiesAgree'
  <1>0. Shape /\ Shape' /\ Buys \cap Sells = {} /\ Q \in Nat
    BY ShapeKept, LiveSimConstants DEF Inv
  <1> SUFFICES ASSUME NEW o \in Orders
               PROVE  /\ order'[o].status # "none" => order'[o].qty = CommandQuantity(o)'
                      /\ order'[o].remaining <= order'[o].qty
                      /\ open'[o] <= CommandQuantity(o)'
    BY DEF QuantitiesAgree, Known
  <1>1. /\ Known(o) => order[o].qty = CommandQuantity(o)
        /\ order[o].remaining <= order[o].qty
        /\ open[o] <= CommandQuantity(o)
        /\ order[o].remaining \in Nat /\ order[o].qty \in Nat /\ open[o] \in Nat /\ open'[o] \in Nat
        /\ CommandQuantity(o) \in Nat /\ CommandQuantity(o)' \in Nat
    BY <1>0 DEF Inv, QuantitiesAgree, Shape, OrderRows, CommandQuantity, ExitRows, Orders
  <1>2. command[o] # "none" \/ Known(o) => CommandQuantity(o)' = CommandQuantity(o)
    BY <1>0, Kept DEF CommandQuantity, Orders
  <1>3. OrderMove(o) /\ OpenMove(o)
    BY <1>0, OrderMoves, OpenMoves
  <1>4. order'[o].status # "none" => order'[o].qty = CommandQuantity(o)'
    <2>1. CASE order'[o] = order[o]
      BY <1>1, <1>2, <2>1 DEF Known
    <2>2. CASE o \in Buys /\ order'[o] = NewOrder("COMMAND_QUEUED", Q)
      BY <2>2 DEF NewOrder, CommandQuantity
    <2>3. ASSUME NEW r \in Runners, At(r, "exit_record"), run[r].on = o,
                 order'[o] = NewOrder("EXIT_COMMAND_QUEUED", run[r].qty), exit'[o].qty = exit[o].qty
          PROVE  order'[o].qty = CommandQuantity(o)'
      <3>1. o \in Sells /\ exit[o].qty = run[r].qty
        BY <2>3 DEF At, Exiting, Inv, RunnersHold
      <3>2. CommandQuantity(o)' = run[r].qty
        BY <1>0, <2>3, <3>1 DEF CommandQuantity
      <3> QED BY <2>3, <3>2 DEF NewOrder
    <2>4. CASE OrderKept(o)
      BY <1>1, <1>2, <2>4 DEF OrderKept
    <2> QED BY <1>3, <2>1, <2>2, <2>3, <2>4 DEF OrderMove
  <1>5. order'[o].remaining <= order'[o].qty
    <2>1. CASE order'[o] = order[o]
      BY <1>1, <2>1
    <2>2. ASSUME NEW status, NEW q, q \in Nat, order'[o] = NewOrder(status, q)
          PROVE  order'[o].remaining <= order'[o].qty
      BY <2>2 DEF NewOrder
    <2>3. \A r \in Runners : run[r].qty \in Nat
      BY <1>0 DEF Shape, RunRows
    <2>4. CASE OrderKept(o)
      <3>1. ASSUME feed # <<>>, Head(feed).of = o, Head(feed).type = "exec"
            PROVE  Head(feed).rem <= order[o].qty
        BY <1>0, <1>1, <2>4, <3>1, FirstEvent
           DEF Inv, EventsAreTrue, Truthful, OrderKept
      <3> QED BY <1>1, <2>4, <3>1 DEF OrderKept
    <2> QED BY <1>0, <1>3, <2>1, <2>2, <2>3, <2>4 DEF OrderMove
  <1>6. open'[o] <= CommandQuantity(o)'
    <2>1. open[o] > 0 => command[o] # "none"
      BY DEF Inv, CommandsFirst
    <2> QED BY <1>1, <1>2, <1>3, <2>1 DEF OpenMove
  <1> QED BY <1>4, <1>5, <1>6

LEMMA EventsKept ==
  ASSUME Inv, [Next]_vars
  PROVE  EventsAreTrue'
  <1>0. Shape /\ Shape'
    BY ShapeKept DEF Inv
  <1> SUFFICES ASSUME NEW i \in 1 .. Len(feed'), NEW e, e = feed'[i] PROVE Truthful(e)'
    BY DEF EventsAreTrue
  <1>1. e \in FeedEvents /\ e.of \in Orders
    <2>1. e \in FeedEvents
      BY <1>0, ElementOfSeq DEF Shape
    <2> QED BY <2>1 DEF FeedEvents
  <1> DEFINE o == e.of
  <1>2. /\ OpenMove(o) /\ open[o] \in Nat /\ open'[o] \in Nat
        /\ CommandQuantity(o) \in Nat /\ CommandQuantity(o)' \in Nat
    BY <1>0, <1>1, OpenMoves, LiveSimConstants DEF Shape, CommandQuantity, ExitRows, Orders
  <1>3. command[o] # "none" => CommandQuantity(o)' = CommandQuantity(o)
    BY <1>0, <1>1, Kept DEF CommandQuantity, Orders
  <1>4. command[o] = "TAKEN" => command'[o] = "TAKEN"
    BY <1>1, Kept
  <1>5. ASSUME NEW j \in 1 .. Len(feed), e = feed[j] PROVE Truthful(e)'
    <2>1. Truthful(e)
      BY <1>5 DEF Inv, EventsAreTrue
    <2>2. open[o] = 0 /\ command[o] = "TAKEN" => open'[o] = 0
      BY <1>2 DEF OpenMove
    <2> QED BY <1>2, <1>3, <1>4, <2>1, <2>2 DEF Truthful, OrderEvents
  <1>6. CASE Fresh(e)
    <2>1. open[o] > 0 => command[o] = "TAKEN" /\ open[o] <= CommandQuantity(o)
      BY <1>1 DEF Inv, CommandsFirst, QuantitiesAgree
    <2>2. open[o] > 0 \/ open[o] = 0
      BY <1>2
    <2>3. command[o] = "QUEUED" => open[o] = 0
      BY <2>1, <2>2
    <2> QED BY <1>2, <1>3, <1>4, <1>6, <2>1, <2>3 DEF Truthful, Fresh, OrderEvents
  <1> QED BY <1>0, <1>5, <1>6, FeedMoves

\* What every runner may do, the ones that stay included.
LEMMA EveryRunMoves ==
  ASSUME Inv, [Next]_vars
  PROVE  /\ \A r \in Runners : RunMove(r) /\ run'[r] \in RunRows
         /\ \A r, s \in Runners : r # s => run'[r] = run[r] \/ run'[s] = run[s]
  <1>0. run \in [Runners -> RunRows] /\ run' \in [Runners -> RunRows]
    BY ShapeKept DEF Inv, Shape
  <1>1. CASE UNCHANGED run
    BY <1>0, <1>1 DEF RunMove
  <1>2. ASSUME NEW r \in Runners, RunMove(r), run' = [run EXCEPT ![r] = run'[r]]
        PROVE  /\ \A s \in Runners : RunMove(s)
               /\ \A s, t \in Runners : s # t => run'[s] = run[s] \/ run'[t] = run[t]
    <2>1. \A s \in Runners : s # r => run'[s] = run[s]
      BY <1>0, <1>2
    <2> QED BY <1>2, <2>1 DEF RunMove
  <1> QED BY <1>0, <1>1, <1>2, RunMoves

LEMMA PlaceFields ==
  ASSUME NEW place, NEW on, NEW p, NEW q
  PROVE  /\ Place(place, on, p, q).at = place /\ Place(place, on, p, q).on = on
         /\ Place(place, on, p, q).pos = p /\ Place(place, on, p, q).qty = q
  BY DEF Place

\* A cancel intent stays CREATED while its runner is at it.
LEMMA CancelStays ==
  ASSUME Inv, [Next]_vars, NEW r \in Runners, Cancelling(r), run'[r] # Idle
  PROVE  cancel'[run[r].on] = "CREATED"
  <1> DEFINE b == run[r].on
  <1>1. b \in Buys /\ cancel[b] = "CREATED"
    BY DEF Inv, RunnersHold
  <1>2. \A s \in Runners : Cancelling(s) /\ run[s].on = b => s = r
    BY DEF Inv, RunnersApart
  <1>3. CancelMove(b)
    BY <1>1, CancelMoves
  <1> HIDE DEF b
  <1>4. cancel'[b] = "CREATED"
    BY <1>1, <1>2, <1>3 DEF CancelMove
  <1> QED BY <1>4 DEF b

\* An exit is left alone while its runner is at it.
LEMMA ExitStays ==
  ASSUME Inv, [Next]_vars, NEW r \in Runners, Exiting(r)
  PROVE  /\ run[r].on \in Sells /\ run[r].on \in Orders
         /\ run'[r] # Idle => order'[run[r].on].status = "none"
         /\ exit'[run[r].on].signal # "none"
         /\ run[r].at \in {"intent", "exit_queue"} /\ run'[r].at # "exit_record"
              => command'[run[r].on] = "none"
         /\ run[r].at # "intent" => exit'[run[r].on].qty = exit[run[r].on].qty
  <1> DEFINE x == run[r].on
  <1>0. Shape /\ x \in Sells /\ x \in Orders /\ x \notin Buys /\ ~Known(x) /\ exit[x].signal # "none"
    BY LiveSimConstants DEF Inv, RunnersHold, Orders
  <1>1. \A s \in Runners : Exiting(s) /\ run[s].on = x => s = r
    BY DEF Inv, RunnersApart
  <1>2. run[r].at \in {"intent", "exit_queue"} => command[x] = "none"
    BY DEF Inv, RunnersHold
  <1>3. OrderMove(x) /\ CommandMove(x) /\ ExitMove(x)
    BY <1>0, OrderMoves, CommandMoves, ExitMoves
  <1>4. exit'[x].signal # "none"
    BY <1>0, Kept
  <1> HIDE DEF x
  <1>5. ASSUME run'[r] # Idle PROVE order'[x].status = "none"
    <2>1. order'[x] = order[x]
      BY <1>0, <1>1, <1>3, <1>5 DEF OrderMove, OrderKept, At, Exiting
    <2> QED BY <1>0, <2>1 DEF Known
  <1>6. run[r].at \in {"intent", "exit_queue"} /\ run'[r].at # "exit_record" => command'[x] = "none"
    BY <1>0, <1>1, <1>2, <1>3 DEF CommandMove, At, Exiting
  <1>7. ASSUME run[r].at # "intent" PROVE exit'[x].qty = exit[x].qty
    <2>1. exit[x] # NoExit
      BY <1>0 DEF NoExit
    <2>2. \A s \in Runners : ~(At(s, "intent") /\ run[s].on = x)
      BY <1>1, <1>7 DEF At, Exiting
    <2> QED BY <1>3, <2>1, <2>2 DEF ExitMove
  <1> QED BY <1>0, <1>4, <1>5, <1>6, <1>7 DEF x

LEMMA RunnersHoldKept ==
  ASSUME Inv, [Next]_vars
  PROVE  RunnersHold'
  <1> DEFINE Holds(at, on, p, qty) ==
               /\ p <= Len(pos')
               /\ at = "signal" => p > 0
               /\ at = "cancel" => on \in Buys /\ order'[on].status # "none"
               /\ at \in {"cancel_queue", "cancel_record"} => on \in Buys /\ cancel'[on] = "CREATED"
               /\ at \in {"intent", "exit_queue", "exit_record"} =>
                    on \in Sells /\ order'[on].status = "none" /\ exit'[on].signal # "none"
               /\ at \in {"intent", "exit_queue"} => command'[on] = "none"
               /\ at \in {"exit_queue", "exit_record"} => exit'[on].qty = qty
  <1> SUFFICES ASSUME NEW r \in Runners
               PROVE  Holds(run'[r].at, run'[r].on, run'[r].pos, run'[r].qty)
    BY DEF RunnersHold, Known, Cancelling, Exiting
  <1>0. /\ Shape /\ Shape' /\ ClosedIsEmpty /\ Buys \subseteq Orders
        /\ DOMAIN pos = 1 .. Len(pos) /\ Len(pos) \in Nat
    BY ShapeKept DEF Inv, Shape, Orders
  <1>1. Len(pos') >= Len(pos) /\ Len(pos') \in Nat
    BY <1>0, PositionMoves DEF Shape
  <1>2. RunMove(r)
    BY EveryRunMoves
  <1>3. /\ run[r].pos <= Len(pos)
        /\ run[r].at = "signal" => run[r].pos > 0
        /\ run[r].at = "cancel" => run[r].on \in Buys /\ Known(run[r].on)
        /\ Cancelling(r) => run[r].on \in Buys
        /\ run[r].at \in {"exit_queue", "exit_record"} => exit[run[r].on].qty = run[r].qty
        /\ run[r].pos \in Nat
    BY <1>0 DEF Inv, RunnersHold, Shape, RunRows
  <1>4. \A b \in Buys : Known(b) => order'[b].status # "none"
    BY <1>0, Kept
  <1>5. CASE run'[r] = Idle
    BY <1>1, <1>5 DEF Idle
  <1>6. CASE run'[r] = run[r] /\ run'[r] # Idle
    <2> DEFINE o == run[r].on
    <2>1. Cancelling(r) => cancel'[o] = "CREATED"
      BY <1>6, CancelStays
    <2>2. Exiting(r) => /\ o \in Sells /\ order'[o].status = "none" /\ exit'[o].signal # "none"
                        /\ run[r].at \in {"intent", "exit_queue"} => command'[o] = "none"
                        /\ run[r].at # "intent" => exit'[o].qty = exit[o].qty
      BY <1>6, ExitStays
    <2> QED BY <1>1, <1>3, <1>4, <1>6, <2>1, <2>2 DEF Cancelling, Exiting
  <1>7. ASSUME NEW b \in Buys, run'[r] = Place("cancel", b, 0, 0), Known(b)
        PROVE  Holds(run'[r].at, run'[r].on, run'[r].pos, run'[r].qty)
    BY <1>1, <1>4, <1>7, PlaceFields
  <1>8. CASE /\ At(r, "cancel") /\ run'[r] = Place("cancel_queue", run[r].on, 0, 0)
             /\ cancel'[run[r].on] = "CREATED"
    BY <1>1, <1>3, <1>8, PlaceFields DEF At
  <1>9. CASE /\ At(r, "cancel_queue") /\ run'[r] = Place("cancel_record", run[r].on, 0, 0)
             /\ UNCHANGED cancel
    <2>1. Cancelling(r) /\ cancel'[run[r].on] = "CREATED"
      BY <1>9 DEF At, Cancelling, Inv, RunnersHold
    <2> QED BY <1>1, <1>3, <1>9, <2>1, PlaceFields
  <1>10. ASSUME NEW p \in DOMAIN pos, run'[r] = Place("signal", None, p, 0)
         PROVE  Holds(run'[r].at, run'[r].on, run'[r].pos, run'[r].qty)
    BY <1>0, <1>1, <1>10, PlaceFields
  <1>11. ASSUME NEW x \in Sells, NEW q \in Nat, run'[r] = Place("intent", x, run[r].pos, q),
                exit[x].signal = "none", exit'[x].signal # "none"
         PROVE  Holds(run'[r].at, run'[r].on, run'[r].pos, run'[r].qty)
    <2>1. command'[x] = "none" /\ order'[x].status = "none"
      BY <1>11, Unsignalled
    <2> QED BY <1>1, <1>3, <1>11, <2>1, PlaceFields
  <1>12. CASE /\ At(r, "intent") /\ run'[r] = Place("exit_queue", run[r].on, run[r].pos, run[r].qty)
              /\ exit'[run[r].on].qty = run[r].qty
    <2>1. run'[r] # Idle /\ run'[r].at = "exit_queue"
      BY <1>12, PlaceFields DEF Idle
    <2>2. /\ run[r].on \in Sells /\ order'[run[r].on].status = "none"
          /\ exit'[run[r].on].signal # "none" /\ command'[run[r].on] = "none"
      BY <1>12, <2>1, ExitStays DEF At, Exiting
    <2> QED BY <1>1, <1>3, <1>12, <2>2, PlaceFields
  <1>13. CASE /\ At(r, "exit_queue") /\ UNCHANGED exit
              /\ run'[r] = Place("exit_record", run[r].on, run[r].pos, run[r].qty)
    <2>1. run'[r] # Idle
      BY <1>13, PlaceFields DEF Idle
    <2>2. /\ run[r].on \in Sells /\ order'[run[r].on].status = "none"
          /\ exit'[run[r].on].signal # "none"
      BY <1>13, <2>1, ExitStays DEF At, Exiting
    <2> QED BY <1>1, <1>3, <1>13, <2>2, PlaceFields DEF At
  <1> QED BY <1>2, <1>5, <1>6, <1>7, <1>8, <1>9, <1>10, <1>11, <1>12, <1>13 DEF RunMove

\* A runner at work goes on with its own row, or it has begun one that nobody is at.
LEMMA WorkBegins ==
  ASSUME Inv, [Next]_vars, NEW r \in Runners, (Cancelling(r) \/ Exiting(r))'
  PROVE  \/ run'[r].on = run[r].on /\ (Cancelling(r) \/ Exiting(r))
         \/ \A s \in Runners : Cancelling(s) \/ Exiting(s) => run[s].on # run'[r].on
  <1>0. Buys \cap Sells = {}
    BY LiveSimConstants
  <1>1. \A s \in Runners : /\ s = r \/ ~(Cancelling(s) /\ Exiting(s))
                           /\ Cancelling(s) => run[s].on \in Buys /\ cancel[run[s].on] = "CREATED"
                           /\ Exiting(s) => run[s].on \in Sells /\ exit[run[s].on].signal # "none"
    BY DEF Inv, RunnersHold, Cancelling, Exiting
  <1>2. run'[r].at \in {"cancel_queue", "cancel_record", "intent", "exit_queue", "exit_record"}
    BY DEF Cancelling, Exiting
  <1>3. RunMove(r)
    BY EveryRunMoves
  <1>4. CASE run'[r] = run[r]
    BY <1>2, <1>4 DEF Cancelling, Exiting
  <1>5. /\ run'[r] # Idle
        /\ \A b \in Buys : run'[r] # Place("cancel", b, 0, 0)
        /\ \A p \in DOMAIN pos : run'[r] # Place("signal", None, p, 0)
    BY <1>2, PlaceFields DEF Idle
  <1>6. CASE /\ At(r, "cancel") /\ run'[r] = Place("cancel_queue", run[r].on, 0, 0)
             /\ cancel[run[r].on] = "none"
    <2>1. run[r].on \in Buys /\ run'[r].on = run[r].on
      BY <1>6, PlaceFields DEF At, Inv, RunnersHold
    <2> QED BY <1>0, <1>1, <1>6, <2>1
  <1>7. CASE At(r, "cancel_queue") /\ run'[r] = Place("cancel_record", run[r].on, 0, 0)
    BY <1>7, PlaceFields DEF At, Cancelling
  <1>8. ASSUME NEW x \in Sells, NEW q \in Nat, run'[r] = Place("intent", x, run[r].pos, q),
               exit[x].signal = "none"
        PROVE  \A s \in Runners : Cancelling(s) \/ Exiting(s) => run[s].on # run'[r].on
    <2>1. run'[r].on = x
      BY <1>8, PlaceFields
    <2> QED BY <1>0, <1>1, <1>8, <2>1
  <1>9. CASE At(r, "intent") /\ run'[r] = Place("exit_queue", run[r].on, run[r].pos, run[r].qty)
    BY <1>9, PlaceFields DEF At, Exiting
  <1>10. CASE At(r, "exit_queue") /\ run'[r] = Place("exit_record", run[r].on, run[r].pos, run[r].qty)
    BY <1>10, PlaceFields DEF At, Exiting
  <1> QED BY <1>3, <1>4, <1>5, <1>6, <1>7, <1>8, <1>9, <1>10 DEF RunMove

LEMMA RunnersApartKept ==
  ASSUME Inv, [Next]_vars
  PROVE  RunnersApart'
  <1>1. ASSUME NEW r \in Runners, NEW s \in Runners, r # s, run'[s] = run[s],
               (Cancelling(r) \/ Exiting(r))', (Cancelling(s) \/ Exiting(s))'
        PROVE  run'[r].on # run'[s].on
    <2>1. Cancelling(s) \/ Exiting(s)
      BY <1>1 DEF Cancelling, Exiting
    <2>2. Cancelling(r) \/ Exiting(r) => run[r].on # run[s].on
      BY <1>1, <2>1 DEF Inv, RunnersApart
    <2> QED BY <1>1, <2>1, <2>2, WorkBegins
  <1> QED BY <1>1, EveryRunMoves DEF RunnersApart

LEMMA ExitsKept ==
  ASSUME Inv, [Next]_vars
  PROVE  ExitsHavePositions'
  <1>0. Shape /\ Shape' /\ ClosedIsEmpty
    BY ShapeKept DEF Inv
  <1>1. Len(pos') >= Len(pos) /\ Len(pos) \in Nat /\ Len(pos') \in Nat
    BY <1>0, PositionMoves DEF Shape
  <1>2. ASSUME NEW x \in Sells PROVE exit'[x].pos <= Len(pos')
    <2>1. ExitMove(x) /\ exit[x].pos \in Nat /\ exit'[x].pos \in Nat
      BY <1>0, ExitMoves DEF Shape, ExitRows
    <2>2. exit[x].pos <= Len(pos) /\ \A r \in Runners : run[r].pos <= Len(pos) /\ run[r].pos \in Nat
      BY <1>0 DEF Inv, ExitsHavePositions, RunnersHold, Shape, RunRows
    <2> QED BY <1>1, <2>1, <2>2 DEF ExitMove
  <1> QED BY <1>2 DEF ExitsHavePositions

LEMMA InvInit ==
  ASSUME Init
  PROVE  Inv
  <1>0. \A o \in Orders : /\ order[o] = NoOrder /\ open[o] = 0 /\ command[o] = "none"
    BY DEF Init
  <1>1. \A x \in Sells : exit[x] = NoExit
    BY DEF Init
  <1>2. \A r \in Runners : run[r] = Idle
    BY DEF Init
  <1>3. Shape
    <2>1. NoOrder \in OrderRows /\ NoExit \in ExitRows /\ Idle \in RunRows
      BY DEF NoOrder, OrderRows, OrderStatuses, NoExit, ExitRows, Idle, RunRows, Places
    <2>2. /\ intent \in [Buys -> IntentStatuses] /\ cancel \in [Buys -> CancelStatuses]
          /\ command \in [Orders -> {"none", "QUEUED", "TAKEN", "EXPIRED"}]
      BY DEF Init, IntentStatuses, CancelStatuses
    <2>3. pos \in Seq(PosRows) /\ feed \in Seq(FeedEvents)
      BY DEF Init
    <2>4. order \in [Orders -> OrderRows] /\ exit \in [Sells -> ExitRows] /\ run \in [Runners -> RunRows]
      BY <2>1 DEF Init
    <2>5. booked \subseteq Orders \X Nat /\ blocked \in BOOLEAN
      BY DEF Init
    <2>6. open \in [Orders -> Nat] /\ fills \in [Orders -> Nat]
      BY DEF Init
    <2> QED BY <2>2, <2>3, <2>4, <2>5, <2>6 DEF Shape
  <1>4. ClosedIsEmpty /\ EventsAreTrue /\ ExitsHavePositions
    BY <1>1 DEF Init, ClosedIsEmpty, EventsAreTrue, ExitsHavePositions, NoExit
  <1>5. QuantitiesAgree
    <2>1. \A o \in Orders : CommandQuantity(o) \in Nat
      BY <1>3, LiveSimConstants DEF Shape, CommandQuantity, ExitRows, Orders
    <2>2. NoOrder.status = "none" /\ NoOrder.remaining = 0 /\ NoOrder.qty = 0
      BY DEF NoOrder
    <2> QED BY <1>0, <2>1, <2>2 DEF QuantitiesAgree, Known
  <1>6. CommandsFirst
    BY <1>0 DEF CommandsFirst, Init, NoOrder, Known, Orders
  <1>7. RunnersHold /\ RunnersApart
    BY <1>2, <1>3 DEF RunnersHold, RunnersApart, Cancelling, Exiting, Idle, Shape
  <1> QED BY <1>3, <1>4, <1>5, <1>6, <1>7 DEF Inv

LEMMA InvStep ==
  ASSUME Inv, [Next]_vars
  PROVE  Inv'
  BY ShapeKept, ExitsKept, QuantitiesKept, EventsKept, CommandsFirstKept, RunnersHoldKept, RunnersApartKept
     DEF Inv

-----------------------------------------------------------------------------
(* Theorems *)

\* The rows of the books are well formed for any number of runners and either feed: no
\* order has more left than it was for, an exit is of a position that exists, and what is
\* CLOSED holds nothing (_handle_live_sim_execution_event, _apply_sell_fill).
THEOREM RowsAreTyped == Spec => []TypeOK
  <1>1. Inv => TypeOK
    <2> SUFFICES ASSUME Inv PROVE TypeOK
      OBVIOUS
    <2>0. Shape /\ ClosedIsEmpty
      BY DEF Inv
    <2>1. \A o \in Orders : /\ order[o].status \in ActiveStatuses \cup TerminalStatuses \cup {"none"}
                            /\ order[o].filled \in Nat /\ order[o].remaining \in 0..order[o].qty
      BY <2>0 DEF Inv, QuantitiesAgree, Shape, OrderRows, OrderStatuses
    <2>2. \A x \in Sells : exit[x] \in ExitRows /\ exit[x].pos \in 0..Len(pos)
      BY <2>0 DEF Inv, Shape, ExitRows, ExitsHavePositions
    <2>3. \A p \in DOMAIN pos : pos[p] \in PosRows /\ (pos[p].status = "CLOSED" => pos[p].qty = 0)
      BY <2>0, ElementOfSeq DEF Shape, ClosedIsEmpty
    <2>4. \A r \in Runners : run[r].at \in Places
      BY <2>0 DEF Shape, RunRows
    <2> QED BY <2>0, <2>1, <2>2, <2>3, <2>4 DEF TypeOK, Shape, CancelStatuses, ExitRows, PosRows
  <1> QED BY <1>1, InvInit, InvStep, PTL DEF Spec

\* The BUY orders that may still be filled and whose cancel is not in doubt.
LiveBuys == {b \in Buys : /\ command[b] = "QUEUED" \/ open[b] > 0
                          /\ cancel[b] \notin {"ACKED", "REJECTED"}}

\* A live BUY was live before, or it is queued just now.
LEMMA LiveMoves ==
  ASSUME Inv, [Next]_vars, NEW b \in Buys, b \in LiveBuys'
  PROVE  b \in LiveBuys \/ QueueBuy(b)
  <1>0. /\ Shape /\ b \in Orders /\ command \in [Orders -> {"none", "QUEUED", "TAKEN", "EXPIRED"}]
        /\ open[b] \in Nat /\ open'[b] \in Nat
    BY OpenMoves DEF Inv, Shape, Orders
  <1>1. OpenMove(b) /\ CancelMove(b)
    BY <1>0, OpenMoves, CancelMoves
  <1>2. cancel[b] \notin {"ACKED", "REJECTED"}
    BY <1>1 DEF LiveBuys, CancelMove
  <1>3. ASSUME open'[b] > 0 PROVE open[b] > 0 \/ command[b] = "QUEUED"
    BY <1>0, <1>1, <1>3 DEF OpenMove
  <1>4. ASSUME command'[b] = "QUEUED" PROVE command[b] = "QUEUED" \/ QueueBuy(b)
    <2>1. CASE UNCHANGED command
      BY <1>4, <2>1
    <2>2. ASSUME NEW c \in Buys, QueueBuy(c) PROVE command[b] = "QUEUED" \/ QueueBuy(b)
      <3>1. CASE c = b
        BY <2>2, <3>1
      <3>2. CASE c # b
        BY <1>0, <1>4, <2>2, <3>2 DEF QueueBuy, Orders
      <3> QED BY <3>1, <3>2
    <2>3. ASSUME NEW c \in Buys, Expire(c) PROVE command[b] = "QUEUED"
      BY <1>0, <1>4, <2>3 DEF Expire, Orders
    <2>4. ASSUME NEW r \in Runners, ExitQueue(r) PROVE command[b] = "QUEUED"
      <3>1. run[r].on # b
        BY <2>4, LiveSimConstants DEF ExitQueue, At, Exiting, Inv, RunnersHold
      <3> QED BY <1>0, <1>4, <2>4, <3>1 DEF ExitQueue
    <2>5. ASSUME NEW o \in Orders, Dispatch(o) PROVE command[b] = "QUEUED"
      BY <1>0, <1>4, <2>5 DEF Dispatch
    <2> QED BY <2>1, <2>2, <2>3, <2>4, <2>5, CommandSteps
  <1> QED BY <1>2, <1>3, <1>4 DEF LiveBuys

\* An order that is live is not at its end.
LEMMA LiveGoesOn ==
  ASSUME Inv, NEW b \in Buys, b \in LiveBuys
  PROVE  command[b] # "EXPIRED" /\ ~LastWord(b)
  <1>0. Shape /\ b \in Orders /\ open[b] \in Nat
    BY DEF Inv, Shape, Orders
  <1>1. command[b] = "QUEUED" \/ (open[b] > 0 /\ command[b] = "TAKEN")
    BY <1>0 DEF LiveBuys, Inv, CommandsFirst
  <1>2. ASSUME LastWord(b) PROVE FALSE
    <2>1. Truthful(Head(feed)) /\ Head(feed).of = b
      BY <1>0, <1>2, FirstEvent DEF LastWord, Inv, EventsAreTrue
    <2>2. command[b] = "TAKEN" /\ open[b] = 0
      BY <1>2, <2>1 DEF LastWord, Truthful, OrderEvents
    <2> QED BY <1>1, <2>2
  <1> QED BY <1>1, <1>2

LEMMA CountedStep ==
  ASSUME Inv, LiveOrdersCounted, [Next]_vars
  PROVE  LiveOrdersCounted'
  <1> SUFFICES ASSUME NEW b \in Buys, b \in LiveBuys' PROVE order'[b].status \in ActiveStatuses
    BY DEF LiveOrdersCounted, LiveBuys
  <1>0. Shape /\ b \in Orders /\ order \in [Orders -> OrderRows]
    BY DEF Inv, Shape, Orders
  <1>1. CASE QueueBuy(b)
    <2>1. order'[b] = NewOrder("COMMAND_QUEUED", Q)
      BY <1>0, <1>1 DEF QueueBuy
    <2> QED BY <2>1 DEF NewOrder, ActiveStatuses
  <1>2. CASE b \in LiveBuys
    <2>1. order[b].status \in ActiveStatuses
      BY <1>2 DEF LiveOrdersCounted, LiveBuys
    <2>2. cancel'[b] \notin {"ACKED", "REJECTED"}
      BY DEF LiveBuys
    <2>3. \A r \in Runners : At(r, "exit_record") => run[r].on # b
      BY LiveSimConstants DEF At, Exiting, Inv, RunnersHold
    <2>4. OrderMove(b)
      BY <1>0, OrderMoves
    <2>5. CASE order'[b] = order[b]
      BY <2>1, <2>5
    <2>6. CASE order'[b] = NewOrder("COMMAND_QUEUED", Q)
      BY <2>6 DEF NewOrder, ActiveStatuses
    <2>7. CASE OrderKept(b)
      BY <1>2, <2>2, <2>7, LiveGoesOn DEF OrderKept
    <2> QED BY <2>3, <2>4, <2>5, <2>6, <2>7 DEF OrderMove
  <1> QED BY <1>1, <1>2, LiveMoves

\* A BUY that may still be filled counts as an active order until its cancel is answered:
\* no sweep, event or stale cancel takes it out of _active_order_count.
THEOREM LiveIsCounted == Spec => []LiveOrdersCounted
  <1>1. Init => LiveOrdersCounted
    <2> SUFFICES ASSUME Init, NEW b \in Buys PROVE command[b] = "none" /\ open[b] = 0
      BY DEF LiveOrdersCounted
    <2> QED BY DEF Init, Orders
  <1> QED BY <1>1, InvInit, InvStep, CountedStep, PTL DEF Spec

LEMMA LimitStep ==
  ASSUME Inv, LiveOrdersCounted, ActiveLimitHolds, [Next]_vars
  PROVE  ActiveLimitHolds'
  <1>0. IsFiniteSet(Buys) /\ IsFiniteSet(Orders) /\ MaxActive \in Nat
    BY LiveSimConstants, FS_Union DEF Orders
  <1>1. Cardinality(LiveBuys) <= MaxActive
    BY DEF ActiveLimitHolds, LiveBuys
  <1> SUFFICES Cardinality(LiveBuys') <= MaxActive
    BY DEF ActiveLimitHolds, LiveBuys
  <1>2. LiveBuys \subseteq Buys /\ LiveBuys' \subseteq Buys
    BY DEF LiveBuys
  <1>3. IsFiniteSet(LiveBuys) /\ Cardinality(LiveBuys) \in Nat
    BY <1>0, <1>2, FS_Subset, FS_CardinalityType
  <1>4. CASE \E b \in Buys : QueueBuy(b)
    <2>1. PICK b \in Buys : QueueBuy(b)
      BY <1>4
    <2>2. LiveBuys' \subseteq LiveBuys \cup {b}
      <3>1. ASSUME NEW c \in LiveBuys', c # b PROVE c \in LiveBuys
        BY <1>2, <2>1, <3>1 DEF QueueBuy, LiveBuys, Inv, Shape, Orders
      <3> QED BY <3>1
    <2>3. LiveBuys \subseteq ActiveOrders /\ ActiveOrders \subseteq Orders
      BY DEF LiveOrdersCounted, LiveBuys, ActiveOrders, Orders
    <2>4. Cardinality(LiveBuys) <= Cardinality(ActiveOrders) /\ Cardinality(ActiveOrders) \in Nat
      BY <1>0, <2>3, FS_Subset, FS_CardinalityType
    <2>5. Cardinality(ActiveOrders) < MaxActive
      BY <2>1 DEF QueueBuy
    <2>6. /\ IsFiniteSet(LiveBuys \cup {b}) /\ Cardinality(LiveBuys \cup {b}) \in Nat
          /\ Cardinality(LiveBuys \cup {b}) <= Cardinality(LiveBuys) + 1
      <3>1. /\ IsFiniteSet(LiveBuys \cup {b})
            /\ Cardinality(LiveBuys \cup {b})
                 = IF b \in LiveBuys THEN Cardinality(LiveBuys) ELSE Cardinality(LiveBuys) + 1
        BY <1>3, FS_AddElement
      <3>2. CASE b \in LiveBuys
        BY <1>3, <3>1, <3>2
      <3>3. CASE b \notin LiveBuys
        BY <1>3, <3>1, <3>3
      <3> QED BY <3>2, <3>3
    <2>7. Cardinality(LiveBuys') <= Cardinality(LiveBuys \cup {b}) /\ Cardinality(LiveBuys') \in Nat
      BY <2>2, <2>6, FS_Subset, FS_CardinalityType
    <2> QED BY <1>0, <1>3, <2>4, <2>5, <2>6, <2>7
  <1>5. CASE ~\E b \in Buys : QueueBuy(b)
    <2>1. LiveBuys' \subseteq LiveBuys
      BY <1>2, <1>5, LiveMoves
    <2>2. Cardinality(LiveBuys') <= Cardinality(LiveBuys) /\ Cardinality(LiveBuys') \in Nat
      BY <1>3, <2>1, FS_Subset, FS_CardinalityType
    <2> QED BY <1>0, <1>1, <1>3, <2>2
  <1> QED BY <1>4, <1>5

\* No more BUYs than live_sim_max_active_orders can be filled at the same time, for any
\* limit and any number of runners: what queue_live_sim_order_command counts inside its
\* transaction covers every BUY the broker may still fill, cancels in doubt aside.
THEOREM LimitIsKept == Spec => []ActiveLimitHolds
  <1>1. Init => ActiveLimitHolds
    <2> SUFFICES ASSUME Init PROVE ActiveLimitHolds
      OBVIOUS
    <2>1. {b \in Buys : /\ command[b] = "QUEUED" \/ open[b] > 0
                        /\ cancel[b] \notin {"ACKED", "REJECTED"}} = {}
      BY DEF Init, Orders
    <2> QED BY <2>1, FS_EmptySet, LiveSimConstants DEF ActiveLimitHolds
  <1>2. Spec => [](Inv /\ LiveOrdersCounted)
    BY LiveIsCounted, InvInit, InvStep, PTL DEF Spec
  <1> QED BY <1>1, <1>2, LimitStep, PTL DEF Spec

-----------------------------------------------------------------------------
(* The shares *)

\* The executions on their way, and of them those that are not in the books yet.
Execs == {e \in Range(feed) : e.type = "exec"}
Waiting == {e \in Execs : ~AlreadyApplied(e)}

\* What the positions will gain and lose once every event is applied, errors aside.
ToAdd == {e \in Waiting : e.of \in Buys}
ToTake == {e \in Waiting : e.of \in Sells} \cup unbooked

Total(S) == SumFunction([e \in S |-> e.q])

\* The positions and the broker's account agree on the shares, but for these.
Conserved == PositionQuantity + Total(ToAdd) = held + Total(ToTake)

\* An execution is known by its order and its number.  The numbers go up to what the
\* broker has filled; only an order with a row has executions in the books, and a BUY
\* has its row before its command.
Keyed ==
  /\ unbooked \subseteq FeedEvents
  /\ IsFiniteSet(unbooked)
  /\ held \in Int
  /\ \A e \in Execs \cup unbooked : e.q >= 1 /\ e.id \in 1 .. fills[e.of]
  /\ \A e, d \in Execs \cup unbooked : e.of = d.of /\ e.id = d.id => e = d
  /\ \A e \in unbooked : e.type = "exec" /\ e.of \in Sells
  /\ \A k \in booked : k[2] <= fills[k[1]] /\ Known(k[1])
  /\ \A b \in Buys : command[b] # "none" => Known(b)

LEMMA TotalIsNat ==
  ASSUME NEW S, IsFiniteSet(S), \A e \in S : e.q \in Nat
  PROVE  /\ Total(S) \in Nat
         /\ S = {} => Total(S) = 0
         /\ \A e \in S : e.q <= Total(S)
  <1> DEFINE f == [e \in S |-> e.q]
  <1>1. f \in [S -> Nat] /\ \A e \in S : f[e] = e.q
    OBVIOUS
  <1>2. Total(S) = SumFunction(f)
    BY DEF Total
  <1> HIDE DEF f
  <1> QED BY <1>1, <1>2, SumIsNat

LEMMA TotalOfMore ==
  ASSUME NEW S, IsFiniteSet(S), \A e \in S : e.q \in Nat, NEW d, d \notin S, d.q \in Nat
  PROVE  Total(S \cup {d}) = Total(S) + d.q
  <1> DEFINE T == S \cup {d}
             f == [e \in S |-> e.q]
             g == [e \in T |-> e.q]
  <1>1. /\ f \in [S -> Nat] /\ g \in [T -> Nat] /\ OneMore(S, d, T)
        /\ Agree(f, g, S)
        /\ g[d] = d.q
    BY DEF Agree, OneMore
  <1>2. Total(S) = SumFunction(f) /\ Total(S \cup {d}) = SumFunction(g)
    BY DEF Total
  <1> HIDE DEF f, g, T
  <1>3. SumFunction(g) = SumFunction(f) + g[d]
    BY <1>1, SumOfMore
  <1> QED BY <1>1, <1>2, <1>3

LEMMA TotalOfFewer ==
  ASSUME NEW S, IsFiniteSet(S), \A e \in S : e.q \in Nat, NEW d \in S
  PROVE  Total(S \ {d}) = Total(S) - d.q /\ Total(S \ {d}) \in Nat
  <1> DEFINE R == S \ {d}
  <1>1. IsFiniteSet(R) /\ (\A e \in R : e.q \in Nat) /\ d \notin R /\ R \cup {d} = S
    BY FS_RemoveElement
  <1> HIDE DEF R
  <1>2. Total(S) = Total(R) + d.q /\ Total(R) \in Nat /\ d.q \in Nat
    BY <1>1, TotalOfMore, TotalIsNat
  <1> QED BY <1>2 DEF R

\* The events are finitely many, and their quantities are numbers.
LEMMA EventsFinite ==
  ASSUME Shape, Keyed
  PROVE  /\ Execs \subseteq FeedEvents /\ IsFiniteSet(Execs)
         /\ \A S \in SUBSET (Execs \cup unbooked) : IsFiniteSet(S) /\ \A e \in S : e.q \in Nat
         /\ ToAdd \in SUBSET (Execs \cup unbooked) /\ ToTake \in SUBSET (Execs \cup unbooked)
  <1>1. feed \in Seq(FeedEvents) /\ unbooked \subseteq FeedEvents /\ IsFiniteSet(unbooked)
    BY DEF Shape, Keyed
  <1>2. Range(feed) = {feed[i] : i \in 1 .. Len(feed)} /\ Range(feed) \in SUBSET FeedEvents
    BY <1>1, RangeEquality, RangeOfSeq
  <1>3. IsFiniteSet(Range(feed))
    <2>1. Len(feed) \in Nat
      BY <1>1
    <2>2. IsFiniteSet(1 .. Len(feed))
      BY <2>1, FS_Interval
    <2>3. feed \in Surjection(1 .. Len(feed), Range(feed))
      BY <1>1, <1>2 DEF Surjection
    <2> QED BY <2>2, <2>3, FS_Surjection
  <1>4. Execs \subseteq FeedEvents /\ IsFiniteSet(Execs)
    BY <1>2, <1>3, FS_Subset DEF Execs
  <1>5. IsFiniteSet(Execs \cup unbooked) /\ Execs \cup unbooked \subseteq FeedEvents
    BY <1>1, <1>4, FS_Union
  <1>6. \A S \in SUBSET (Execs \cup unbooked) : IsFiniteSet(S) /\ \A e \in S : e.q \in Nat
    BY <1>5, FS_Subset DEF FeedEvents
  <1>7. ToAdd \in SUBSET (Execs \cup unbooked) /\ ToTake \in SUBSET (Execs \cup unbooked)
    BY DEF ToAdd, ToTake, Waiting
  <1> QED BY <1>4, <1>6, <1>7

-----------------------------------------------------------------------------
(* Which steps move shares *)

LEMMA HeldSteps ==
  ASSUME [Next]_vars
  PROVE  UNCHANGED <<held, fills>> \/ \E o \in Orders : Fill(o)
  BY DEF Next, vars, books, broker, BuyStep, CreateIntent, QueueBuy, RejectBinding, Sweep, Reconcile,
         CancelStep, CancelRead, CancelIntent, CancelQueue, CancelRecord, ExitStep, ExitRead,
         ExitSignal, ExitIntent, ExitQueue, ExitRecord, RunnerDies, BrokerStep, Dispatch, Expire,
         DispatchCancel, BrokerCancel, Repeat, HandlerStep, Started, Acked, Failed, CancelAnswered,
         Executed

LEMMA UnbookedSteps ==
  ASSUME [Next]_vars
  PROVE  UNCHANGED <<booked, unbooked>> \/ Executed
  BY DEF Next, vars, books, broker, BuyStep, CreateIntent, QueueBuy, RejectBinding, Sweep, Reconcile,
         CancelStep, CancelRead, CancelIntent, CancelQueue, CancelRecord, ExitStep, ExitRead,
         ExitSignal, ExitIntent, ExitQueue, ExitRecord, RunnerDies, BrokerStep, Dispatch, Fill,
         Expire, DispatchCancel, BrokerCancel, Repeat, HandlerStep, Started, Acked, Failed,
         CancelAnswered

LEMMA EventSteps ==
  ASSUME [Next]_vars
  PROVE  \/ UNCHANGED feed
         \/ \E o \in Orders : Dispatch(o) \/ Fill(o)
         \/ \E b \in Buys : DispatchCancel(b)
         \/ \E i \in DOMAIN feed : Repeat(i)
         \/ feed # <<>> /\ feed' = Tail(feed) /\ Head(feed).type # "exec"
         \/ Executed
  BY DEF Next, vars, books, broker, BuyStep, CreateIntent, QueueBuy, RejectBinding, Sweep, Reconcile,
         CancelStep, CancelRead, CancelIntent, CancelQueue, CancelRecord, ExitStep, ExitRead,
         ExitSignal, ExitIntent, ExitQueue, ExitRecord, RunnerDies, BrokerStep, Expire, BrokerCancel,
         HandlerStep, Started, Acked, Failed, CancelAnswered, Receive

LEMMA RangeOfAppend ==
  ASSUME NEW S, NEW s \in Seq(S), NEW e \in S
  PROVE  Range(Append(s, e)) = Range(s) \cup {e}
  <1>1. Append(s, e) = s \o <<e>> /\ <<e>> \in Seq(S)
    OBVIOUS
  <1>2. Range(<<e>>) = {e}
    BY DEF Range
  <1> DEFINE one == <<e>>
  <1>3. one \in Seq(S)
    OBVIOUS
  <1> HIDE DEF one
  <1>4. Range(s \o one) = Range(s) \cup Range(one)
    BY <1>3, RangeConcatenation
  <1> QED BY <1>1, <1>2, <1>4 DEF one

LEMMA RangeOfTail ==
  ASSUME NEW S, NEW s \in Seq(S), s # <<>>
  PROVE  Range(s) = Range(Tail(s)) \cup {Head(s)}
  <1>1. s = <<Head(s)>> \o Tail(s) /\ <<Head(s)>> \in Seq(S) /\ Tail(s) \in Seq(S)
    OBVIOUS
  <1>2. Range(<<Head(s)>>) = {Head(s)}
    BY DEF Range
  <1> DEFINE first == <<Head(s)>>
             rest == Tail(s)
  <1>3. first \in Seq(S) /\ rest \in Seq(S) /\ s = first \o rest
    BY <1>1
  <1> HIDE DEF first, rest
  <1>4. Range(first \o rest) = Range(first) \cup Range(rest)
    BY <1>3, RangeConcatenation
  <1> QED BY <1>2, <1>3, <1>4 DEF first, rest

\* A step that is no fill, at the broker or in the books.
Quiet ==
  /\ Execs' = Execs
  /\ UNCHANGED <<booked, unbooked, held, fills>>
  /\ Len(pos') = Len(pos)
  /\ \A p \in 1 .. Len(pos) : pos'[p].qty = pos[p].qty

LEMMA QuietExecs ==
  ASSUME Shape, ~ChejanFeed, [Next]_vars, ~Executed, ~\E o \in Orders : Fill(o)
  PROVE  Execs' = Execs
  <1>0. feed \in Seq(FeedEvents)
    BY DEF Shape
  <1>1. ASSUME NEW o \in Orders, Dispatch(o) PROVE Execs' = Execs
    <2>1. Event("started", o) \in FeedEvents /\ Event("ack", o) \in FeedEvents /\ Event("failed", o) \in FeedEvents
      BY DEF Event, FeedEvents, OrderEvents
    <2>2. \/ feed' = feed \o <<Event("started", o), Event("ack", o)>> \o <<>>
          \/ feed' = feed \o <<Event("started", o), Event("failed", o)>>
      BY <1>1 DEF Dispatch, Chejan
    <2>3. /\ Range(<<Event("started", o), Event("ack", o)>>) = {Event("started", o), Event("ack", o)}
          /\ Range(<<Event("started", o), Event("failed", o)>>) = {Event("started", o), Event("failed", o)}
      BY DEF Range
    <2>4. /\ <<Event("started", o), Event("ack", o)>> \in Seq(FeedEvents)
          /\ <<Event("started", o), Event("failed", o)>> \in Seq(FeedEvents)
      BY <2>1
    <2>5. \A s \in Seq(FeedEvents) : feed \o s \in Seq(FeedEvents) /\ (feed \o s) \o <<>> = feed \o s
      BY <1>0
    <2>6. \A s \in Seq(FeedEvents) : Range(feed \o s) = Range(feed) \cup Range(s)
      BY <1>0, RangeConcatenation
    <2>7. \/ Range(feed') = Range(feed) \cup {Event("started", o), Event("ack", o)}
          \/ Range(feed') = Range(feed) \cup {Event("started", o), Event("failed", o)}
      BY <2>2, <2>3, <2>4, <2>5, <2>6
    <2> QED BY <2>7 DEF Execs, Event
  <1>2. ASSUME NEW b \in Buys, DispatchCancel(b) PROVE Execs' = Execs
    <2>1. PICK answer \in {"cancel_ack", "cancel_failed"} : feed' = Append(feed, Event(answer, b))
      BY <1>2 DEF DispatchCancel
    <2>2. Event(answer, b) \in FeedEvents /\ Event(answer, b).type # "exec"
      BY DEF Event, FeedEvents, Orders
    <2>3. Range(feed') = Range(feed) \cup {Event(answer, b)}
      BY <1>0, <2>1, <2>2, RangeOfAppend
    <2> QED BY <2>2, <2>3 DEF Execs
  <1>3. ASSUME NEW i \in DOMAIN feed, Repeat(i) PROVE Execs' = Execs
    <2>1. feed' = Append(feed, feed[i]) /\ feed[i] \in FeedEvents /\ feed[i] \in Range(feed)
      BY <1>0, <1>3 DEF Repeat, Range
    <2>2. Range(feed') = Range(feed) \cup {feed[i]}
      BY <1>0, <2>1, RangeOfAppend
    <2> QED BY <2>1, <2>2 DEF Execs
  <1>4. CASE feed # <<>> /\ feed' = Tail(feed) /\ Head(feed).type # "exec"
    <2>1. Range(feed) = Range(feed') \cup {Head(feed)}
      BY <1>0, <1>4, RangeOfTail
    <2> QED BY <1>4, <2>1 DEF Execs
  <1>5. CASE UNCHANGED feed
    BY <1>5 DEF Execs
  <1> QED BY <1>1, <1>2, <1>3, <1>4, <1>5, EventSteps

LEMMA ShareSteps ==
  ASSUME Inv, ~ChejanFeed, [Next]_vars
  PROVE  Quiet \/ Executed \/ \E o \in Orders : Fill(o)
  <1> SUFFICES ASSUME ~Executed, ~\E o \in Orders : Fill(o) PROVE Quiet
    OBVIOUS
  <1>0. Shape /\ pos \in Seq(PosRows)
    BY DEF Inv, Shape
  <1>1. Execs' = Execs
    BY <1>0, QuietExecs
  <1>2. UNCHANGED <<booked, unbooked, held, fills>>
    BY HeldSteps, UnbookedSteps
  <1>3. ASSUME NEW r \in Runners, ExitRecord(r)
        PROVE  Len(pos') = Len(pos) /\ \A p \in 1 .. Len(pos) : pos'[p].qty = pos[p].qty
    <2>1. pos' = [pos EXCEPT ![run[r].pos].status = "CLOSING"]
      BY <1>3 DEF ExitRecord
    <2>2. \A p \in 1 .. Len(pos) : pos[p] \in PosRows
      BY <1>0
    <2>3. DOMAIN pos' = DOMAIN pos /\ \A p \in 1 .. Len(pos) : pos'[p].qty = pos[p].qty
      BY <1>0, <2>1, <2>2 DEF PosRows
    <2>4. pos' \in Seq(PosRows)
      BY ShapeKept DEF Shape
    <2> QED BY <1>0, <2>3, <2>4
  <1> QED BY <1>1, <1>2, <1>3, PositionSteps DEF Quiet

-----------------------------------------------------------------------------
(* Fills in the positions *)

SharesOf(s, P) == SumFunction([p \in P |-> s[p].qty])

LEMMA SharesChanged ==
  ASSUME NEW P, IsFiniteSet(P), NEW s, NEW t, \A p \in P : s[p].qty \in Nat /\ t[p].qty \in Nat,
         NEW y \in P, \A p \in P \ {y} : s[p].qty = t[p].qty
  PROVE  SharesOf(t, P) = SharesOf(s, P) - s[y].qty + t[y].qty
  <1> DEFINE f == [p \in P |-> s[p].qty]
             g == [p \in P |-> t[p].qty]
  <1>1. /\ f \in [P -> Nat] /\ g \in [P -> Nat] /\ Agree(f, g, P \ {y})
        /\ f[y] = s[y].qty /\ g[y] = t[y].qty
    BY DEF Agree
  <1>2. SharesOf(s, P) = SumFunction(f) /\ SharesOf(t, P) = SumFunction(g)
    BY DEF SharesOf
  <1> HIDE DEF f, g
  <1>3. SumFunction(g) = SumFunction(f) - f[y] + g[y]
    BY <1>1, SumAtOne
  <1> QED BY <1>1, <1>2, <1>3

LEMMA SharesOfMore ==
  ASSUME NEW P, IsFiniteSet(P), NEW s, NEW t, NEW y, y \notin P, t[y].qty \in Nat,
         \A p \in P : s[p].qty \in Nat /\ t[p].qty = s[p].qty
  PROVE  SharesOf(t, P \cup {y}) = SharesOf(s, P) + t[y].qty
  <1> DEFINE T == P \cup {y}
             f == [p \in P |-> s[p].qty]
             g == [p \in T |-> t[p].qty]
  <1>1. /\ f \in [P -> Nat] /\ g \in [T -> Nat] /\ OneMore(P, y, T) /\ Agree(f, g, P)
        /\ g[y] = t[y].qty
    BY DEF Agree, OneMore
  <1>2. SharesOf(s, P) = SumFunction(f) /\ SharesOf(t, P \cup {y}) = SumFunction(g)
    BY DEF SharesOf
  <1> HIDE DEF f, g, T
  <1>3. SumFunction(g) = SumFunction(f) + g[y]
    BY <1>1, SumOfMore
  <1> QED BY <1>1, <1>2, <1>3

LEMMA SharesSame ==
  ASSUME NEW P, NEW s, NEW t, \A p \in P : s[p].qty = t[p].qty
  PROVE  SharesOf(s, P) = SharesOf(t, P)
  BY DEF SharesOf

LEMMA SharesAreNat ==
  ASSUME NEW P, IsFiniteSet(P), NEW s, \A p \in P : s[p].qty \in Nat
  PROVE  /\ SharesOf(s, P) \in Nat
         /\ (\A p \in P : s[p].qty = 0) => SharesOf(s, P) = 0
  <1> DEFINE f == [p \in P |-> s[p].qty]
  <1>1. f \in [P -> Nat] /\ \A p \in P : f[p] = s[p].qty
    OBVIOUS
  <1>2. SharesOf(s, P) = SumFunction(f)
    BY DEF SharesOf
  <1> HIDE DEF f
  <1> QED BY <1>1, <1>2, SumIsNat

\* The positions, as the sums see them.
LEMMA PositionsFinite ==
  ASSUME Shape
  PROVE  /\ pos \in Seq(PosRows) /\ DOMAIN pos = 1 .. Len(pos) /\ Len(pos) \in Nat
         /\ IsFiniteSet(DOMAIN pos) /\ \A P \in SUBSET DOMAIN pos : IsFiniteSet(P)
         /\ \A p \in DOMAIN pos : pos[p] \in PosRows /\ pos[p].qty \in Nat
         /\ PositionQuantity = SharesOf(pos, DOMAIN pos) /\ PositionQuantity \in Nat
  <1>1. pos \in Seq(PosRows) /\ DOMAIN pos = 1 .. Len(pos) /\ Len(pos) \in Nat
    BY DEF Shape
  <1>2. IsFiniteSet(DOMAIN pos) /\ \A P \in SUBSET DOMAIN pos : IsFiniteSet(P)
    <2>1. IsFiniteSet(1 .. Len(pos))
      BY <1>1, FS_Interval
    <2> QED BY <1>1, <2>1, FS_Subset
  <1>3. \A p \in DOMAIN pos : pos[p] \in PosRows
    BY <1>1, ElementOfSeq
  <1>4. \A p \in DOMAIN pos : pos[p].qty \in Nat
    BY <1>3 DEF PosRows
  <1>5. PositionQuantity = SharesOf(pos, DOMAIN pos)
    BY DEF PositionQuantity, SharesOf
  <1>6. PositionQuantity \in Nat
    BY <1>2, <1>4, <1>5, SharesAreNat
  <1> QED BY <1>1, <1>2, <1>3, <1>4, <1>5, <1>6

\* _position_by_account_code finds the earliest position with one of the statuses.
LEMMA PositionFound ==
  ASSUME Shape, NEW T
  PROVE  \/ /\ PositionIn(T) = 0
            /\ \A p \in DOMAIN pos : pos[p].status \notin T
         \/ /\ PositionIn(T) \in DOMAIN pos /\ PositionIn(T) # 0
            /\ pos[PositionIn(T)].status \in T
            /\ \A p \in DOMAIN pos : p < PositionIn(T) => pos[p].status \notin T
  <1> DEFINE found == {p \in DOMAIN pos : pos[p].status \in T}
  <1>1. DOMAIN pos = 1 .. Len(pos) /\ Len(pos) \in Nat
    BY PositionsFinite
  <1>2. PositionIn(T) = IF found = {} THEN 0 ELSE Min(found)
    BY DEF PositionIn
  <1>3. CASE found = {}
    BY <1>2, <1>3
  <1>4. CASE found # {}
    <2>1. found \in SUBSET Nat /\ found \subseteq DOMAIN pos /\ \A p \in found : pos[p].status \in T
      BY <1>1
    <2>2. \A p \in DOMAIN pos : pos[p].status \in T => p \in found
      OBVIOUS
    <2> HIDE DEF found
    <2>3. \E m \in found : \A k \in found : m <= k
      BY <1>4, <2>1, LeastNat
    <2>4. Min(found) \in found /\ \A k \in found : Min(found) <= k
      BY <2>3 DEF Min
    <2>5. \A p \in DOMAIN pos : p < Min(found) => p \notin found
      <3> SUFFICES ASSUME NEW p \in found, p < Min(found) PROVE FALSE
        OBVIOUS
      <3>1. p \in Nat /\ Min(found) \in Nat /\ Min(found) <= p
        BY <2>1, <2>4
      <3> QED BY <3>1
    <2>6. Min(found) # 0
      BY <1>1, <2>1, <2>4
    <2> QED BY <1>2, <1>4, <2>1, <2>2, <2>4, <2>5, <2>6
  <1> QED BY <1>3, <1>4

\* The row of one position is another, and the rest stays.
Rewrites(p, row) ==
  /\ Len(pos') = Len(pos) /\ p \in DOMAIN pos
  /\ pos'[p] = row
  /\ \A i \in DOMAIN pos : i # p => pos'[i] = pos[i]

LEMMA RowRewritten ==
  ASSUME Shape, NEW p \in DOMAIN pos, NEW row \in PosRows, pos' = [pos EXCEPT ![p] = row]
  PROVE  Rewrites(p, row)
  <1>1. pos \in Seq(PosRows) /\ DOMAIN pos = 1 .. Len(pos)
    BY PositionsFinite
  <1>2. /\ Len(pos') = Len(pos)
        /\ \A j \in 1 .. Len(pos) : pos'[j] = IF j = p THEN row ELSE pos[j]
    BY <1>1, ExceptSeq
  <1> QED BY <1>1, <1>2 DEF Rewrites

Bought == {"OPEN", "RECONCILE_MISMATCH"}
Sellable == {"OPEN", "RECONCILE_MISMATCH", "CLOSING"}

\* _apply_buy_fill opens a position or adds to one.
LEMMA BuyFillMoves ==
  ASSUME Shape, NEW e, e.q \in Nat, BuyFill(e)
  PROVE  \/ /\ \A p \in DOMAIN pos : pos[p].status \notin Bought
            /\ Len(pos') = Len(pos) + 1
            /\ pos'[Len(pos) + 1] = [status |-> "OPEN", qty |-> e.q]
            /\ \A p \in DOMAIN pos : pos'[p] = pos[p]
         \/ \E p \in DOMAIN pos : /\ pos[p].status \in Bought
                                  /\ Rewrites(p, [status |-> "OPEN", qty |-> pos[p].qty + e.q])
  <1> DEFINE p == PositionIn(Bought)
  <1>0. pos \in Seq(PosRows) /\ DOMAIN pos = 1 .. Len(pos) /\ Len(pos) \in Nat
    BY PositionsFinite
  <1>1. pos' = IF p = 0 THEN Append(pos, [status |-> "OPEN", qty |-> e.q])
               ELSE [pos EXCEPT ![p] = [status |-> "OPEN", qty |-> pos[p].qty + e.q]]
    BY DEF BuyFill, Bought
  <1>2. \/ p = 0 /\ \A i \in DOMAIN pos : pos[i].status \notin Bought
        \/ p \in DOMAIN pos /\ p # 0 /\ pos[p].status \in Bought
    BY PositionFound
  <1> HIDE DEF p
  <1>3. CASE p = 0
    <2>1. 0 \notin DOMAIN pos
      BY <1>0
    <2>2. pos' = Append(pos, [status |-> "OPEN", qty |-> e.q])
      BY <1>1, <1>3
    <2>3. /\ Len(pos') = Len(pos) + 1 /\ pos'[Len(pos) + 1] = [status |-> "OPEN", qty |-> e.q]
          /\ \A i \in DOMAIN pos : pos'[i] = pos[i]
      BY <1>0, <2>2
    <2> QED BY <1>2, <1>3, <2>1, <2>3
  <1>4. CASE p \in DOMAIN pos /\ p # 0 /\ pos[p].status \in Bought
    <2> DEFINE row == [status |-> "OPEN", qty |-> pos[p].qty + e.q]
    <2>1. pos[p].qty \in Nat
      BY <1>4, PositionsFinite
    <2>2. row \in PosRows
      BY <2>1 DEF PosRows
    <2>3. pos' = [pos EXCEPT ![p] = row]
      BY <1>1, <1>4
    <2> HIDE DEF row
    <2>4. Rewrites(p, row)
      BY <1>4, <2>2, <2>3, RowRewritten
    <2> QED BY <1>4, <2>4 DEF row
  <1> QED BY <1>2, <1>3, <1>4

\* _apply_sell_fill takes the shares from the earliest position, or marks it.
LEMMA SellFillMoves ==
  ASSUME Shape, NEW e, e.q \in Nat, SellFill(e)
  PROVE  /\ Fits(e.q) =>
              /\ SellFrom \in DOMAIN pos /\ pos[SellFrom].status \in Sellable
              /\ \A p \in DOMAIN pos : p < SellFrom => pos[p].status \notin Sellable
              /\ e.q <= pos[SellFrom].qty
              /\ \E status \in {"CLOSING", "CLOSED"} :
                   Rewrites(SellFrom, [status |-> status, qty |-> pos[SellFrom].qty - e.q])
         /\ ~Fits(e.q) =>
              /\ Len(pos') = Len(pos)
              /\ \A p \in DOMAIN pos : pos'[p].qty = pos[p].qty
  <1>0. pos \in Seq(PosRows) /\ DOMAIN pos = 1 .. Len(pos) /\ Len(pos) \in Nat
    BY PositionsFinite
  <1>1. SellFrom = PositionIn(Sellable)
    BY DEF SellFrom, Sellable
  <1>2. CASE Fits(e.q)
    <2>1. SellFrom # 0 /\ e.q <= pos[SellFrom].qty
      BY <1>2 DEF Fits
    <2>2. /\ SellFrom \in DOMAIN pos /\ pos[SellFrom].status \in Sellable
          /\ \A p \in DOMAIN pos : p < SellFrom => pos[p].status \notin Sellable
      BY <1>1, <2>1, PositionFound
    <2>3. PICK status \in {"CLOSING", "CLOSED"} :
            pos' = [pos EXCEPT ![SellFrom] = [status |-> status, qty |-> pos[SellFrom].qty - e.q]]
      BY <1>2 DEF SellFill
    <2> DEFINE row == [status |-> status, qty |-> pos[SellFrom].qty - e.q]
    <2>4. pos[SellFrom].qty \in Nat
      BY <2>2, PositionsFinite
    <2>5. row \in PosRows
      BY <2>1, <2>4 DEF PosRows
    <2>6. pos' = [pos EXCEPT ![SellFrom] = row]
      BY <2>3
    <2> HIDE DEF row
    <2>7. Rewrites(SellFrom, row)
      BY <2>2, <2>5, <2>6, RowRewritten
    <2> QED BY <1>2, <2>1, <2>2, <2>7 DEF row
  <1>3. CASE ~Fits(e.q)
    <2> DEFINE row(i) == IF i = SellFrom THEN [pos[i] EXCEPT !.status = "RECONCILE_MISMATCH"] ELSE pos[i]
    <2>1. pos' = [i \in 1 .. Len(pos) |-> row(i)]
      BY <1>0, <1>3 DEF SellFill
    <2>2. \A i \in 1 .. Len(pos) : row(i).qty = pos[i].qty /\ row(i) \in PosRows
      BY <1>0, PositionsFinite DEF PosRows
    <2> HIDE DEF row
    <2>3. pos' \in Seq(PosRows)
      BY <1>0, <2>1, <2>2
    <2>4. Len(pos') = Len(pos)
      BY <1>0, <2>1, <2>3
    <2> QED BY <1>0, <1>3, <2>1, <2>2, <2>4
  <1> QED BY <1>2, <1>3

-----------------------------------------------------------------------------
(* What each step does to the executions that are on their way *)

LEMMA QuietMoves ==
  ASSUME Quiet
  PROVE  ToAdd' = ToAdd /\ ToTake' = ToTake /\ Execs' = Execs
  BY DEF Quiet, ToAdd, ToTake, Waiting, AlreadyApplied

\* The broker fills q shares of o, and reports them with the event e.
Filling(o, q, e) ==
  /\ e.of = o /\ e.id = fills[o] + 1 /\ e.q = q /\ e.type = "exec"
  /\ e \notin Execs \cup unbooked
  /\ Execs' = Execs \cup {e}
  /\ open' = [open EXCEPT ![o] = @ - q]
  /\ fills' = [fills EXCEPT ![o] = @ + 1]
  /\ held' = IF o \in Buys THEN held + q ELSE held - q
  /\ UNCHANGED <<books, command, run>>
  /\ IF o \in Buys THEN ToAdd' = ToAdd \cup {e} /\ UNCHANGED ToTake
     ELSE ToTake' = ToTake \cup {e} /\ UNCHANGED ToAdd

LEMMA FillMoves ==
  ASSUME Inv, Keyed, ~ChejanFeed, NEW o \in Orders, Fill(o)
  PROVE  \E q \in 1 .. open[o], e \in FeedEvents : Filling(o, q, e)
  <1>0. /\ feed \in Seq(FeedEvents) /\ open[o] \in Nat /\ fills[o] \in Nat
        /\ Buys \cap Sells = {} /\ booked \subseteq Orders \X Nat
    BY LiveSimConstants DEF Inv, Shape
  <1>1. PICK q \in 1 .. open[o] :
          /\ open' = [open EXCEPT ![o] = @ - q]
          /\ fills' = [fills EXCEPT ![o] = @ + 1]
          /\ held' = IF o \in Buys THEN held + q ELSE held - q
          /\ feed' = feed \o Chejan(o, fills[o] + 1, open[o] - q)
                          \o <<Execution(o, fills[o] + 1, q, open[o] - q)>>
          /\ UNCHANGED <<books, command, run>>
    BY DEF Fill
  <1> DEFINE e == Execution(o, fills[o] + 1, q, open[o] - q)
  <1>2. q \in Nat /\ open[o] - q \in Nat /\ fills[o] + 1 \in Nat
    BY <1>0
  <1>3. /\ e \in FeedEvents /\ e.of = o /\ e.id = fills[o] + 1 /\ e.q = q /\ e.type = "exec"
    BY <1>2 DEF Execution, FeedEvents, OrderEvents
  <1>4. feed' = Append(feed, e)
    <2>1. feed' = (feed \o <<>>) \o <<e>>
      BY <1>1 DEF Chejan
    <2> HIDE DEF e
    <2> QED BY <1>0, <1>3, <2>1
  <1> HIDE DEF e
  <1>5. Range(feed') = Range(feed) \cup {e}
    BY <1>0, <1>3, <1>4, RangeOfAppend
  <1>6. Execs' = Execs \cup {e}
    BY <1>3, <1>5 DEF Execs
  <1>7. e \notin Execs \cup unbooked
    BY <1>0, <1>3 DEF Keyed
  <1>8. UNCHANGED <<booked, unbooked>>
    BY <1>1 DEF books
  <1>9. ~AlreadyApplied(e)
    <2> SUFFICES ASSUME <<o, fills[o] + 1>> \in booked PROVE FALSE
      BY <1>3 DEF AlreadyApplied
    <2>1. \A k \in booked : k[2] <= fills[k[1]]
      BY DEF Keyed
    <2>2. fills[o] + 1 <= fills[o]
      BY <2>1
    <2> QED BY <1>0, <2>2
  <1>10. Waiting' = Waiting \cup {e}
    BY <1>6, <1>8, <1>9 DEF Waiting, AlreadyApplied
  <1>11. IF o \in Buys THEN ToAdd' = ToAdd \cup {e} /\ UNCHANGED ToTake
         ELSE ToTake' = ToTake \cup {e} /\ UNCHANGED ToAdd
    BY <1>0, <1>3, <1>8, <1>10 DEF ToAdd, ToTake, Orders
  <1>12. Filling(o, q, e)
    BY <1>1, <1>3, <1>6, <1>7, <1>11 DEF Filling
  <1> QED BY <1>3, <1>12

\* The handler has the execution e; it cannot use it, it has it already, or it books it.
Unusable(e) ==
  /\ ~Known(e.of) /\ e.of \in Sells
  /\ unbooked' = unbooked \cup {e}
  /\ UNCHANGED <<order, exit, pos, booked>>
  /\ UNCHANGED <<ToAdd, ToTake>>

Doubled(e) ==
  /\ UNCHANGED <<order, exit, pos, booked, unbooked>>
  /\ UNCHANGED <<ToAdd, ToTake>>

Booking(e) ==
  /\ Known(e.of) /\ ~AlreadyApplied(e)
  /\ booked' = booked \cup {<<e.of, e.id>>}
  /\ \/ /\ e.of \in Buys /\ BuyFill(e)
        /\ UNCHANGED unbooked
        /\ e \in ToAdd /\ ToAdd' = ToAdd \ {e} /\ UNCHANGED ToTake
     \/ /\ e.of \in Sells /\ SellFill(e) /\ Fits(e.q)
        /\ unbooked' = unbooked \ {e}
        /\ e \in ToTake /\ ToTake' = ToTake \ {e} /\ UNCHANGED ToAdd
     \/ /\ e.of \in Sells /\ SellFill(e) /\ ~Fits(e.q)
        /\ unbooked' = unbooked \cup {e}
        /\ UNCHANGED <<ToAdd, ToTake>>

LEMMA ExecutedMoves ==
  ASSUME Inv, Keyed, Executed
  PROVE  /\ Head(feed) \in Execs /\ Head(feed) \in FeedEvents
         /\ Execs' \subseteq Execs /\ Execs \ {Head(feed)} \subseteq Execs'
         /\ UNCHANGED <<broker, run>>
         /\ Unusable(Head(feed)) \/ Doubled(Head(feed)) \/ Booking(Head(feed))
  <1> DEFINE e == Head(feed)
  <1>0. /\ feed \in Seq(FeedEvents) /\ feed # <<>> /\ feed' = Tail(feed) /\ e.type = "exec"
        /\ Buys \cap Sells = {}
    BY LiveSimConstants DEF Inv, Shape, Executed, Receive
  <1>1. e \in FeedEvents /\ e.of \in Orders
    BY <1>0, FirstEvent DEF Inv
  <1>2. Range(feed) = Range(feed') \cup {e}
    BY <1>0, RangeOfTail
  <1>3. Execs' \subseteq Execs /\ Execs \ {e} \subseteq Execs' /\ e \in Execs
    BY <1>0, <1>2 DEF Execs
  <1>4. UNCHANGED <<broker, run>>
    BY DEF Executed
  <1>5. \A d \in Execs \cup unbooked : d.of = e.of /\ d.id = e.id => d = e
    BY <1>3 DEF Keyed
  <1>6. e.of \in Buys => Known(e.of)
    <2>1. Truthful(e)
      BY <1>0, FirstEvent DEF Inv, EventsAreTrue
    <2> QED BY <1>0, <2>1 DEF Truthful, OrderEvents, Keyed
  <1>7. \/ /\ ~Known(e.of)
           /\ unbooked' = unbooked \cup {e}
           /\ UNCHANGED <<order, exit, pos, booked>>
        \/ /\ AlreadyApplied(e)
           /\ UNCHANGED <<order, exit, pos, booked, unbooked>>
        \/ /\ Known(e.of) /\ ~AlreadyApplied(e)
           /\ booked' = booked \cup {<<e.of, e.id>>}
           /\ IF e.of \in Buys THEN BuyFill(e) ELSE SellFill(e)
    BY DEF Executed
  <1> HIDE DEF e
  <1>8. CASE /\ ~Known(e.of)
             /\ unbooked' = unbooked \cup {e}
             /\ UNCHANGED <<order, exit, pos, booked>>
    <2>1. e.of \in Sells
      BY <1>1, <1>6, <1>8 DEF Orders
    <2>2. ~AlreadyApplied(e)
      BY <1>8 DEF AlreadyApplied, Keyed
    <2>3. Waiting' \subseteq Waiting /\ Waiting \ {e} \subseteq Waiting' /\ e \in Waiting
      BY <1>3, <1>8, <2>2 DEF Waiting, AlreadyApplied
    <2>4. ToAdd' = ToAdd /\ ToTake' = ToTake
      BY <1>0, <1>8, <2>1, <2>3 DEF ToAdd, ToTake
    <2> QED BY <1>3, <1>1, <1>4, <1>8, <2>1, <2>4 DEF Unusable, e
  <1>9. CASE /\ AlreadyApplied(e)
             /\ UNCHANGED <<order, exit, pos, booked, unbooked>>
    <2>1. Waiting' = Waiting
      BY <1>3, <1>9 DEF Waiting, AlreadyApplied
    <2>2. ToAdd' = ToAdd /\ ToTake' = ToTake
      BY <1>9, <2>1 DEF ToAdd, ToTake
    <2> QED BY <1>3, <1>1, <1>4, <1>9, <2>2 DEF Doubled, e
  <1>10. CASE /\ Known(e.of) /\ ~AlreadyApplied(e)
              /\ booked' = booked \cup {<<e.of, e.id>>}
              /\ IF e.of \in Buys THEN BuyFill(e) ELSE SellFill(e)
    <2>1. Waiting' = Waiting \ {e} /\ e \in Waiting
      BY <1>3, <1>5, <1>10 DEF Waiting, AlreadyApplied
    <2>2. CASE e.of \in Buys
      <3>1. BuyFill(e) /\ UNCHANGED unbooked
        BY <1>10, <2>2 DEF BuyFill
      <3>2. e \in ToAdd /\ ToAdd' = ToAdd \ {e}
        BY <2>1, <2>2 DEF ToAdd
      <3>3. ToTake' = ToTake
        BY <1>0, <2>1, <2>2, <3>1 DEF ToTake
      <3>4. Booking(e)
        BY <1>10, <2>2, <3>1, <3>2, <3>3 DEF Booking
      <3> QED BY <1>1, <1>3, <1>4, <3>4 DEF e
    <2>3. CASE e.of \notin Buys
      <3>1. e.of \in Sells /\ SellFill(e)
        BY <1>1, <1>10, <2>3 DEF Orders
      <3>2. ToAdd' = ToAdd
        BY <2>1, <2>3 DEF ToAdd
      <3>3. unbooked' = IF Fits(e.q) THEN unbooked \ {e} ELSE unbooked \cup {e}
        BY <3>1 DEF SellFill
      <3>4. e \in ToTake /\ IF Fits(e.q) THEN ToTake' = ToTake \ {e} ELSE ToTake' = ToTake
        BY <2>1, <3>1, <3>3 DEF ToTake
      <3>5. Booking(e)
        BY <1>10, <3>1, <3>2, <3>3, <3>4 DEF Booking
      <3> QED BY <1>1, <1>3, <1>4, <3>5 DEF e
    <2> QED BY <2>2, <2>3
  <1> QED BY <1>7, <1>8, <1>9, <1>10

\* A BUY with a command has a row: queue_live_sim_order_command writes both at once.
LEMMA RowsFirst ==
  ASSUME Inv, Keyed, [Next]_vars
  PROVE  \A b \in Buys : command'[b] # "none" => order'[b].status # "none"
  <1> SUFFICES ASSUME NEW b \in Buys, command'[b] # "none" PROVE order'[b].status # "none"
    OBVIOUS
  <1>0. b \in Orders /\ Buys \cap Sells = {} /\ Shape
    BY LiveSimConstants DEF Orders, Inv
  <1>1. Known(b) => order'[b].status # "none"
    BY <1>0, Kept
  <1>2. CommandMove(b)
    BY <1>0, CommandMoves
  <1>3. CASE command[b] # "none"
    BY <1>1, <1>3 DEF Keyed
  <1>4. CASE command[b] = "none"
    <2>1. \A r \in Runners : At(r, "exit_queue") => run[r].on # b
      BY <1>0 DEF At, Inv, RunnersHold, Exiting
    <2>2. order'[b] = NewOrder("COMMAND_QUEUED", Q)
      BY <1>2, <1>4, <2>1 DEF CommandMove
    <2> QED BY <2>2 DEF NewOrder
  <1> QED BY <1>3, <1>4

LEMMA KeyedStep ==
  ASSUME Inv, Keyed, ~ChejanFeed, [Next]_vars
  PROVE  Keyed'
  <1>0. /\ Shape /\ fills \in [Orders -> Nat] /\ booked \subseteq Orders \X Nat /\ held \in Int
        /\ unbooked \subseteq FeedEvents /\ IsFiniteSet(unbooked)
    BY DEF Inv, Shape, Keyed
  <1>1. \A b \in Buys : command'[b] # "none" => order'[b].status # "none"
    BY RowsFirst
  <1>2. \A o \in Orders : Known(o) => order'[o].status # "none"
    BY Kept
  <1>3. Execs \subseteq FeedEvents
    BY <1>0, EventsFinite
  <1>4. CASE Quiet
    <2>1. Execs' = Execs /\ UNCHANGED <<booked, unbooked, held, fills>>
      BY <1>4 DEF Quiet
    <2>2. \A k \in booked : k[1] \in Orders
      BY <1>0
    <2> QED BY <1>0, <1>1, <1>2, <2>1, <2>2 DEF Keyed, Known
  <1>5. ASSUME NEW o \in Orders, Fill(o) PROVE Keyed'
    <2>1. PICK q \in 1 .. open[o], e \in FeedEvents : Filling(o, q, e)
      BY <1>5, FillMoves
    <2>2. open[o] \in Nat /\ fills[o] \in Nat
      BY <1>0 DEF Shape
    <2>3. /\ e.of = o /\ e.id = fills[o] + 1 /\ e.q = q /\ e.type = "exec"
          /\ Execs' = Execs \cup {e} /\ UNCHANGED <<booked, unbooked>>
          /\ fills' = [fills EXCEPT ![o] = @ + 1]
          /\ held' = IF o \in Buys THEN held + q ELSE held - q
      BY <2>1 DEF Filling, books
    <2>4. held' \in Int
      BY <1>0, <2>2, <2>3
    <2>5. \A p \in Orders : fills[p] \in Nat /\ fills'[p] \in Nat /\ fills[p] <= fills'[p]
      BY <1>0, <2>3
    <2>6. fills'[o] = fills[o] + 1
      BY <1>0, <2>3
    <2>7. ASSUME NEW d \in Execs' \cup unbooked' PROVE d.q >= 1 /\ d.id \in 1 .. fills'[d.of]
      <3>1. CASE d = e
        BY <2>2, <2>3, <2>6, <3>1
      <3>2. CASE d \in Execs \cup unbooked
        <4>1. d.q >= 1 /\ d.id \in 1 .. fills[d.of]
          BY <3>2 DEF Keyed
        <4>2. d.of \in Orders
          BY <1>0, <1>3, <3>2 DEF FeedEvents
        <4>3. fills[d.of] \in Nat /\ fills'[d.of] \in Nat /\ fills[d.of] <= fills'[d.of]
          BY <2>5, <4>2
        <4> QED BY <4>1, <4>3
      <3> QED BY <2>3, <2>7, <3>1, <3>2
    <2>8. ASSUME NEW d \in Execs \cup unbooked PROVE d.of # e.of \/ d.id # e.id
      <3>1. d.id \in 1 .. fills[d.of]
        BY DEF Keyed
      <3> QED BY <2>2, <2>3, <3>1
    <2>9. \A c, d \in Execs' \cup unbooked' : c.of = d.of /\ c.id = d.id => c = d
      BY <2>3, <2>8 DEF Keyed
    <2>10. ASSUME NEW k \in booked PROVE k[2] <= fills'[k[1]] /\ order'[k[1]].status # "none"
      <3>1. k[1] \in Orders /\ k[2] \in Nat
        BY <1>0
      <3>2. k[2] <= fills[k[1]] /\ Known(k[1])
        BY DEF Keyed
      <3>3. fills[k[1]] \in Nat /\ fills'[k[1]] \in Nat /\ fills[k[1]] <= fills'[k[1]]
        BY <2>5, <3>1
      <3> QED BY <1>2, <3>1, <3>2, <3>3
    <2> QED BY <1>0, <1>1, <2>3, <2>4, <2>7, <2>9, <2>10 DEF Keyed, Known
  <1>6. CASE Executed
    <2> DEFINE e == Head(feed)
    <2>1. /\ e \in Execs /\ e \in FeedEvents /\ e.of \in Orders
          /\ Execs' \subseteq Execs
          /\ UNCHANGED <<broker, run>>
          /\ Unusable(e) \/ Doubled(e) \/ Booking(e)
      BY <1>6, ExecutedMoves DEF FeedEvents
    <2> HIDE DEF e
    <2>2. UNCHANGED <<fills, held>>
      BY <2>1 DEF broker
    <2>3. /\ unbooked' \subseteq unbooked \cup {e}
          /\ e \in unbooked' => e \in unbooked \/ e.of \in Sells
          /\ unbooked' \in {unbooked, unbooked \cup {e}, unbooked \ {e}}
      BY <2>1 DEF Unusable, Doubled, Booking
    <2>4. e.type = "exec"
      BY <2>1 DEF Execs
    <2>5. unbooked' \subseteq FeedEvents /\ IsFiniteSet(unbooked')
      BY <1>0, <2>1, <2>3, FS_AddElement, FS_RemoveElement
    <2>6. Execs' \cup unbooked' \subseteq Execs \cup unbooked
      BY <2>1, <2>3
    <2>7. ASSUME NEW k \in booked' PROVE k[2] <= fills[k[1]] /\ order'[k[1]].status # "none"
      <3>1. k \in booked \/ (k = <<e.of, e.id>> /\ Known(e.of))
        BY <2>1 DEF Unusable, Doubled, Booking
      <3>2. CASE k \in booked
        <4>1. k[1] \in Orders
          BY <1>0, <3>2
        <4> QED BY <1>2, <3>2, <4>1 DEF Keyed
      <3>3. CASE k = <<e.of, e.id>> /\ Known(e.of)
        <4>1. e.id \in 1 .. fills[e.of]
          BY <2>1 DEF Keyed
        <4>2. fills[e.of] \in Nat
          BY <1>0, <2>1
        <4>3. e.id <= fills[e.of]
          BY <4>1, <4>2
        <4> QED BY <1>2, <2>1, <3>3, <4>3
      <3> QED BY <3>1, <3>2, <3>3
    <2>8. \A d \in unbooked' : d.type = "exec" /\ d.of \in Sells
      BY <2>3, <2>4 DEF Keyed
    <2>9. /\ \A d \in Execs' \cup unbooked' : d.q >= 1 /\ d.id \in 1 .. fills[d.of]
          /\ \A c, d \in Execs' \cup unbooked' : c.of = d.of /\ c.id = d.id => c = d
      BY <2>6 DEF Keyed
    <2> QED BY <1>0, <1>1, <2>2, <2>5, <2>7, <2>8, <2>9 DEF Keyed, Known
  <1> QED BY <1>4, <1>5, <1>6, ShareSteps

\* What a booked execution does to the positions.
LEMMA BookedShares ==
  ASSUME Inv, Shape', NEW e, e.q \in Nat
  PROVE  /\ BuyFill(e) => PositionQuantity' = PositionQuantity + e.q
         /\ SellFill(e) /\ Fits(e.q) => PositionQuantity' = PositionQuantity - e.q
         /\ SellFill(e) /\ ~Fits(e.q) => PositionQuantity' = PositionQuantity
  <1> DEFINE D == DOMAIN pos
  <1>0. Shape
    BY DEF Inv
  <1>1. /\ D = 1 .. Len(pos) /\ Len(pos) \in Nat /\ IsFiniteSet(D)
        /\ \A p \in D : pos[p].qty \in Nat
        /\ PositionQuantity = SharesOf(pos, D) /\ PositionQuantity \in Nat
    BY <1>0, PositionsFinite
  <1>2. /\ DOMAIN pos' = 1 .. Len(pos') /\ Len(pos') \in Nat
        /\ \A p \in DOMAIN pos' : pos'[p].qty \in Nat
    <2>1. pos' \in Seq(PosRows)
      BY DEF Shape
    <2>2. \A p \in DOMAIN pos' : pos'[p] \in PosRows
      BY <2>1, ElementOfSeq
    <2> QED BY <2>1, <2>2 DEF PosRows
  <1>3. PositionQuantity' = SharesOf(pos', DOMAIN pos')
    BY DEF PositionQuantity, SharesOf
  <1> HIDE DEF D
  <1>4. ASSUME NEW p \in D, NEW row, Rewrites(p, row)
        PROVE  PositionQuantity' = PositionQuantity - pos[p].qty + row.qty
    <2>1. /\ DOMAIN pos' = D /\ pos'[p] = row /\ \A i \in D : i # p => pos'[i] = pos[i]
      BY <1>1, <1>2, <1>4 DEF Rewrites, D
    <2>2. SharesOf(pos', D) = SharesOf(pos, D) - pos[p].qty + pos'[p].qty
      <3>1. \A i \in D : pos[i].qty \in Nat /\ pos'[i].qty \in Nat
        BY <1>1, <1>2, <2>1
      <3>2. \A i \in D \ {p} : pos[i].qty = pos'[i].qty
        BY <2>1
      <3>3. IsFiniteSet(D)
        BY <1>1
      <3> QED BY <3>1, <3>2, <3>3, SharesChanged
    <2> QED BY <1>1, <1>3, <2>1, <2>2
  <1>5. ASSUME BuyFill(e) PROVE PositionQuantity' = PositionQuantity + e.q
    <2>1. CASE /\ Len(pos') = Len(pos) + 1
               /\ pos'[Len(pos) + 1] = [status |-> "OPEN", qty |-> e.q]
               /\ \A p \in D : pos'[p] = pos[p]
      <3> DEFINE y == Len(pos) + 1
      <3>1. DOMAIN pos' = D \cup {y} /\ y \notin D /\ pos'[y].qty = e.q
        BY <1>1, <1>2, <2>1
      <3> HIDE DEF y
      <3>2. SharesOf(pos', D \cup {y}) = SharesOf(pos, D) + pos'[y].qty
        BY <1>1, <2>1, <3>1, SharesOfMore
      <3> QED BY <1>1, <1>3, <3>1, <3>2
    <2>2. ASSUME NEW p \in D, Rewrites(p, [status |-> "OPEN", qty |-> pos[p].qty + e.q])
          PROVE  PositionQuantity' = PositionQuantity + e.q
      <3>1. PositionQuantity' = PositionQuantity - pos[p].qty + (pos[p].qty + e.q)
        BY <1>4, <2>2
      <3> QED BY <1>1, <3>1
    <2> QED BY <1>0, <1>5, <2>1, <2>2, BuyFillMoves DEF D
  <1>6. ASSUME SellFill(e), Fits(e.q) PROVE PositionQuantity' = PositionQuantity - e.q
    <2>1. PICK status \in {"CLOSING", "CLOSED"} :
            /\ SellFrom \in D
            /\ Rewrites(SellFrom, [status |-> status, qty |-> pos[SellFrom].qty - e.q])
      BY <1>0, <1>6, SellFillMoves DEF D
    <2>2. PositionQuantity' = PositionQuantity - pos[SellFrom].qty + (pos[SellFrom].qty - e.q)
      BY <1>4, <2>1
    <2>3. pos[SellFrom].qty \in Nat
      BY <1>1, <2>1
    <2> QED BY <1>1, <2>2, <2>3
  <1>7. ASSUME SellFill(e), ~Fits(e.q) PROVE PositionQuantity' = PositionQuantity
    <2>1. Len(pos') = Len(pos) /\ \A p \in D : pos'[p].qty = pos[p].qty
      BY <1>0, <1>7, SellFillMoves DEF D
    <2>2. DOMAIN pos' = D
      BY <1>1, <1>2, <2>1
    <2> QED BY <1>1, <1>3, <2>1, <2>2, SharesSame
  <1> QED BY <1>5, <1>6, <1>7

LEMMA ConservedStep ==
  ASSUME Inv, Keyed, Conserved, ~ChejanFeed, [Next]_vars
  PROVE  Conserved'
  <1>0. Shape /\ Shape' /\ Keyed' /\ held \in Int
    BY InvStep, KeyedStep DEF Inv, Keyed
  <1>1. /\ IsFiniteSet(ToAdd) /\ IsFiniteSet(ToTake)
        /\ \A e \in ToAdd : e.q \in Nat
        /\ \A e \in ToTake : e.q \in Nat
    BY <1>0, EventsFinite
  <1>2. Total(ToAdd) \in Nat /\ Total(ToTake) \in Nat
    BY <1>1, TotalIsNat
  <1>3. PositionQuantity \in Nat /\ PositionQuantity + Total(ToAdd) = held + Total(ToTake)
    BY <1>0, PositionsFinite DEF Conserved
  <1>4. Conserved' <=> PositionQuantity' + Total(ToAdd') = held' + Total(ToTake')
    BY DEF Conserved, Total
  <1>5. CASE Quiet
    <2>1. ToAdd' = ToAdd /\ ToTake' = ToTake /\ held' = held
      BY <1>5, QuietMoves DEF Quiet
    <2>2. DOMAIN pos' = DOMAIN pos /\ \A p \in DOMAIN pos : pos'[p].qty = pos[p].qty
      <3>1. DOMAIN pos' = 1 .. Len(pos') /\ DOMAIN pos = 1 .. Len(pos)
        BY <1>0 DEF Shape
      <3> QED BY <1>5, <3>1 DEF Quiet
    <2>3. PositionQuantity' = PositionQuantity
      BY <2>2 DEF PositionQuantity
    <2> QED BY <1>3, <1>4, <2>1, <2>3
  <1>6. ASSUME NEW o \in Orders, Fill(o) PROVE Conserved'
    <2>1. PICK q \in 1 .. open[o], e \in FeedEvents : Filling(o, q, e)
      BY <1>6, FillMoves
    <2>2. q \in Nat /\ e.q = q
      BY <1>0, <2>1 DEF Filling, Shape
    <2>3. PositionQuantity' = PositionQuantity
      BY <2>1 DEF Filling, books, PositionQuantity
    <2>4. e \notin ToAdd /\ e \notin ToTake
      BY <1>0, <2>1, EventsFinite DEF Filling
    <2>5. CASE o \in Buys
      <3>1. ToAdd' = ToAdd \cup {e} /\ ToTake' = ToTake /\ held' = held + q
        BY <2>1, <2>5 DEF Filling
      <3>2. Total(ToAdd') = Total(ToAdd) + q
        BY <1>1, <2>2, <2>4, <3>1, TotalOfMore
      <3> QED BY <1>0, <1>2, <1>3, <1>4, <2>2, <2>3, <3>1, <3>2
    <2>6. CASE o \notin Buys
      <3>1. ToTake' = ToTake \cup {e} /\ ToAdd' = ToAdd /\ held' = held - q
        BY <2>1, <2>6 DEF Filling
      <3>2. Total(ToTake') = Total(ToTake) + q
        BY <1>1, <2>2, <2>4, <3>1, TotalOfMore
      <3> QED BY <1>0, <1>2, <1>3, <1>4, <2>2, <2>3, <3>1, <3>2
    <2> QED BY <2>5, <2>6
  <1>7. CASE Executed
    <2> DEFINE e == Head(feed)
    <2>1. e.q \in Nat /\ UNCHANGED <<broker, run>> /\ (Unusable(e) \/ Doubled(e) \/ Booking(e))
      BY <1>7, ExecutedMoves DEF FeedEvents
    <2> HIDE DEF e
    <2>2. held' = held
      BY <2>1 DEF broker
    <2>3. CASE Unusable(e) \/ Doubled(e)
      <3>1. ToAdd' = ToAdd /\ ToTake' = ToTake /\ pos' = pos
        BY <2>3 DEF Unusable, Doubled
      <3>2. PositionQuantity' = PositionQuantity
        BY <3>1 DEF PositionQuantity
      <3> QED BY <1>3, <1>4, <2>2, <3>1, <3>2
    <2>4. CASE BuyFill(e) /\ e \in ToAdd /\ ToAdd' = ToAdd \ {e} /\ ToTake' = ToTake
      <3>1. PositionQuantity' = PositionQuantity + e.q
        BY <1>0, <2>1, <2>4, BookedShares
      <3>2. Total(ToAdd') = Total(ToAdd) - e.q
        BY <1>1, <2>4, TotalOfFewer
      <3> QED BY <1>0, <1>2, <1>3, <1>4, <2>1, <2>2, <2>4, <3>1, <3>2
    <2>5. CASE SellFill(e) /\ Fits(e.q) /\ e \in ToTake /\ ToTake' = ToTake \ {e} /\ ToAdd' = ToAdd
      <3>1. PositionQuantity' = PositionQuantity - e.q
        BY <1>0, <2>1, <2>5, BookedShares
      <3>2. Total(ToTake') = Total(ToTake) - e.q
        BY <1>1, <2>5, TotalOfFewer
      <3> QED BY <1>0, <1>2, <1>3, <1>4, <2>1, <2>2, <2>5, <3>1, <3>2
    <2>6. CASE SellFill(e) /\ ~Fits(e.q) /\ ToTake' = ToTake /\ ToAdd' = ToAdd
      <3>1. PositionQuantity' = PositionQuantity
        BY <1>0, <2>1, <2>6, BookedShares
      <3> QED BY <1>3, <1>4, <2>2, <2>6, <3>1
    <2> QED BY <2>1, <2>3, <2>4, <2>5, <2>6 DEF Booking
  <1> QED BY <1>5, <1>6, <1>7, ShareSteps

LEMMA BooksInit ==
  ASSUME Init
  PROVE  Keyed /\ Conserved
  <1>1. Range(feed) = {} /\ unbooked = {} /\ booked = {} /\ held = 0 /\ pos = <<>>
    BY DEF Init, Range
  <1>2. Execs = {} /\ ToAdd = {} /\ ToTake = {}
    BY <1>1 DEF Execs, ToAdd, ToTake, Waiting
  <1>3. Keyed
    <2>1. \A b \in Buys : command[b] = "none"
      BY DEF Init, Orders
    <2> QED BY <1>1, <1>2, <2>1, FS_EmptySet DEF Keyed
  <1>4. Total({}) = 0
    BY TotalIsNat, FS_EmptySet
  <1>5. PositionQuantity = 0
    <2>1. Shape
      BY InvInit DEF Inv
    <2>2. DOMAIN pos = {} /\ PositionQuantity = SharesOf(pos, DOMAIN pos)
      BY <1>1, <2>1, PositionsFinite
    <2> QED BY <2>2, SharesAreNat, FS_EmptySet
  <1> QED BY <1>1, <1>2, <1>3, <1>4, <1>5 DEF Conserved

\* With every event applied the positions hold what the account holds and the SELL fills
\* that are recorded as errors, for any orders, quantities, runners, lost runners and
\* repeated reports, as long as the feed has the executions alone (the mock gateway):
\* no execution is booked twice and none is dropped on the way through
\* _handle_live_sim_execution_event.
THEOREM BooksMatch ==
  ASSUME ~ChejanFeed
  PROVE  Spec => []BooksMatchBroker
  <1>1. Inv /\ Keyed /\ Conserved => BooksMatchBroker
    <2> SUFFICES ASSUME Inv, Keyed, Conserved, \A i \in DOMAIN feed : feed[i].type # "exec"
                 PROVE  PositionQuantity = held + Unbooked
      BY DEF BooksMatchBroker
    <2>1. Execs = {}
      BY DEF Execs, Range
    <2>2. ToAdd = {} /\ ToTake = unbooked
      BY <2>1 DEF ToAdd, ToTake, Waiting
    <2>3. Total({}) = 0 /\ Total(unbooked) = Unbooked
      BY TotalIsNat, FS_EmptySet DEF Total, Unbooked
    <2>4. PositionQuantity \in Nat
      BY PositionsFinite DEF Inv
    <2>5. PositionQuantity + 0 = held + Unbooked
      BY <2>2, <2>3 DEF Conserved
    <2> QED BY <2>4, <2>5
  <1> QED BY <1>1, InvInit, InvStep, BooksInit, KeyedStep, ConservedStep, PTL DEF Spec

-----------------------------------------------------------------------------
(* Only what is held is sold *)

\* The positions that have an exit command, and what these commands may still sell.
Reserved == {p \in DOMAIN pos : \E x \in Sells : exit[x].pos = p /\ command[x] # "none"}
Owed(x) == IF command[x] = "QUEUED" THEN exit[x].qty ELSE open[x]
Owing == SumFunction([x \in Sells |-> Owed(x)])

\* The positions with an exit command hold what may be sold and what is still to be booked.
Covered == Owing + Total(ToTake) <= SharesOf(pos, Reserved)

\* Only the last position is OPEN, and one that is CLOSING has an exit command.
InLine ==
  /\ \A p \in DOMAIN pos : /\ pos[p].status # "RECONCILE_MISMATCH"
                           /\ pos[p].status = "CLOSING" => p \in Reserved
                           /\ pos[p].status = "OPEN" => p = Len(pos)
  /\ \A x \in Sells : Known(x) => /\ exit[x].pos \in DOMAIN pos
                                  /\ pos[exit[x].pos].status \in {"CLOSING", "CLOSED"}

\* A runner has the position of its exit in hand.
RunnersAhead ==
  \A r \in Runners :
    /\ run[r].at \in {"signal", "intent", "exit_queue"} => run[r].pos \in DOMAIN pos
    /\ run[r].at \in {"intent", "exit_queue", "exit_record"} => exit[run[r].on].pos = run[r].pos
    /\ run[r].at = "exit_record" => run[r].pos \in DOMAIN pos /\ command[run[r].on] # "none"

Safe == RunnersAhead /\ (NoShortFill /\ OneExitEach => Covered /\ InLine)

Queueing(r) == ExitQueue(r) /\ ExitSafe(run[r].pos, run[r].qty)

\* An exit keeps its position.
LEMMA PositionOfExit ==
  ASSUME Inv, [Next]_vars, NEW x \in Sells, command[x] # "none" \/ Known(x) \/ exit[x].signal # "none"
  PROVE  exit'[x].pos = exit[x].pos
  <1>1. exit[x].signal # "none"
    BY DEF Inv, CommandsFirst
  <1>2. ExitMove(x)
    BY ExitMoves
  <1> QED BY <1>1, <1>2 DEF ExitMove, NoExit

LEMMA OwedIsNat ==
  ASSUME Shape, NEW x \in Sells
  PROVE  Owed(x) \in Nat /\ exit[x].qty \in Nat /\ open[x] \in Nat
  BY DEF Shape, Owed, ExitRows, Orders

LEMMA OwingIsNat ==
  ASSUME Shape
  PROVE  Owing \in Nat
  <1> DEFINE f == [x \in Sells |-> Owed(x)]
  <1>1. f \in [Sells -> Nat]
    BY OwedIsNat
  <1>2. Owing = SumFunction(f) /\ IsFiniteSet(Sells)
    BY LiveSimConstants DEF Owing
  <1> HIDE DEF f
  <1> QED BY <1>1, <1>2, SumIsNat

\* Without a new exit command nothing more can be sold.
LEMMA OwedFalls ==
  ASSUME Inv, [Next]_vars, ~\E r \in Runners : Queueing(r), NEW x \in Sells
  PROVE  /\ command'[x] = "none" <=> command[x] = "none"
         /\ Owed(x)' <= Owed(x)
  <1>0. /\ Shape /\ x \in Orders /\ x \notin Buys
        /\ command \in [Orders -> {"none", "QUEUED", "TAKEN", "EXPIRED"}]
        /\ open[x] \in Nat /\ open'[x] \in Nat /\ exit[x].qty \in Nat
    BY LiveSimConstants, OwedIsNat, OpenMoves DEF Inv, Orders, Shape
  <1>1. \/ command'[x] = command[x]
        \/ command[x] = "QUEUED" /\ command'[x] \in {"TAKEN", "EXPIRED"}
    <2>1. CASE \E b \in Buys : QueueBuy(b) \/ Expire(b)
      BY <1>0, <2>1 DEF QueueBuy, Expire
    <2>2. CASE \E r \in Runners : ExitQueue(r)
      BY <2>2 DEF ExitQueue, Queueing
    <2>3. CASE \E o \in Orders : Dispatch(o)
      BY <1>0, <2>3 DEF Dispatch
    <2> QED BY <2>1, <2>2, <2>3, CommandSteps
  <1>2. OpenMove(x)
    BY <1>0, OpenMoves
  <1>3. command[x] # "TAKEN" => open[x] = 0
    BY <1>0 DEF Inv, CommandsFirst
  <1>4. command[x] # "none" => exit'[x].qty = exit[x].qty
    BY Kept
  <1>5. CommandQuantity(x) = exit[x].qty
    BY <1>0 DEF CommandQuantity
  <1>6. Owed(x)' = IF command'[x] = "QUEUED" THEN exit'[x].qty ELSE open'[x]
    BY DEF Owed
  <1>7. Owed(x)' <= Owed(x)
    BY <1>0, <1>1, <1>2, <1>3, <1>4, <1>5, <1>6 DEF Owed, OpenMove
  <1> QED BY <1>1, <1>7

LEMMA OwingFalls ==
  ASSUME Inv, [Next]_vars, ~\E r \in Runners : Queueing(r)
  PROVE  Owing' <= Owing /\ Owing \in Nat /\ Owing' \in Nat
  <1> DEFINE f == [x \in Sells |-> Owed(x)']
             g == [x \in Sells |-> Owed(x)]
  <1>0. Shape /\ Shape' /\ IsFiniteSet(Sells)
    BY LiveSimConstants, ShapeKept DEF Inv
  <1>1. \A x \in Sells : Owed(x) \in Nat /\ Owed(x)' \in Nat
    <2>1. \A x \in Sells : Owed(x) \in Nat
      BY <1>0, OwedIsNat
    <2>2. ASSUME NEW x \in Sells PROVE Owed(x)' \in Nat
      BY <1>0 DEF Shape, Owed, ExitRows, Orders
    <2> QED BY <2>1, <2>2
  <1>2. f \in [Sells -> Nat] /\ g \in [Sells -> Nat] /\ \A x \in Sells : f[x] <= g[x]
    BY <1>1, OwedFalls
  <1>3. Owing = SumFunction(g) /\ Owing' = SumFunction(f)
    BY DEF Owing
  <1> HIDE DEF f, g
  <1> QED BY <1>0, <1>2, <1>3, SumOfLess, SumIsNat

\* Without a new exit command the same positions are reserved.
LEMMA ReservedSame ==
  ASSUME Inv, [Next]_vars, ~\E r \in Runners : Queueing(r)
  PROVE  Reserved' = Reserved
  <1>0. /\ DOMAIN pos = 1 .. Len(pos) /\ DOMAIN pos' = 1 .. Len(pos') /\ Len(pos) \in Nat
        /\ Len(pos') \in Nat /\ Len(pos) <= Len(pos')
        /\ \A x \in Sells : exit[x].pos \in Nat /\ exit[x].pos <= Len(pos)
    <2>1. Shape /\ Shape' /\ ClosedIsEmpty
      BY ShapeKept DEF Inv
    <2>2. Len(pos') >= Len(pos)
      BY <2>1, PositionMoves
    <2> QED BY <2>1, <2>2 DEF Shape, ExitRows, Inv, ExitsHavePositions
  <1>1. \A x \in Sells : command'[x] = "none" <=> command[x] = "none"
    BY OwedFalls
  <1>2. \A x \in Sells : command[x] # "none" => exit'[x].pos = exit[x].pos
    BY PositionOfExit
  <1>3. \A p : p \in Reserved' <=> p \in DOMAIN pos' /\ \E x \in Sells : exit'[x].pos = p /\ command'[x] # "none"
    BY DEF Reserved
  <1> QED BY <1>0, <1>1, <1>2, <1>3 DEF Reserved

LEMMA QueueingMoves ==
  ASSUME Inv, [Next]_vars, RunnersAhead, NEW r \in Runners, Queueing(r)
  PROVE  /\ UNCHANGED <<pos, exit, order, booked, unbooked, feed, held>>
         /\ run[r].pos \in DOMAIN pos
         /\ OneExitEach' <=> OneExitEach /\ run[r].pos \notin Reserved
         /\ run[r].qty \in Nat /\ run[r].qty <= pos[run[r].pos].qty
         /\ run' = [run EXCEPT ![r] = Place("exit_record", run[r].on, run[r].pos, run[r].qty)]
         /\ run[r].on \in Sells /\ command'[run[r].on] = "QUEUED"
         /\ Reserved' = Reserved \cup {run[r].pos}
         /\ Owing' = Owing + run[r].qty /\ Owing \in Nat
  <1> DEFINE x == run[r].on
             p == run[r].pos
             f == [y \in Sells |-> Owed(y)]
             g == [y \in Sells |-> Owed(y)']
  <1>0. /\ Shape /\ Shape' /\ IsFiniteSet(Sells) /\ Sells \subseteq Orders
    BY LiveSimConstants, ShapeKept DEF Inv, Orders
  <1>1. /\ UNCHANGED <<pos, exit, order, booked, unbooked, feed, held, open>>
        /\ command' = [command EXCEPT ![x] = "QUEUED"]
        /\ run' = [run EXCEPT ![r] = Place("exit_record", x, p, run[r].qty)]
        /\ run[r].at = "exit_queue"
        /\ run[r].qty <= pos[p].qty
    BY DEF Queueing, ExitQueue, ExitSafe, Goto, At, Place
  <1>2. /\ x \in Sells /\ command[x] = "none" /\ exit[x].qty = run[r].qty /\ run[r].qty \in Nat
        /\ open[x] = 0
    <2>1. Exiting(r)
      BY <1>1 DEF Exiting
    <2>2. x \in Sells /\ command[x] = "none" /\ exit[x].qty = run[r].qty
      BY <1>1, <2>1 DEF Inv, RunnersHold
    <2>3. run[r].qty \in Nat
      BY <1>0 DEF Shape, RunRows
    <2>4. open[x] \in Nat /\ ~(open[x] > 0)
      BY <1>0, <2>2 DEF Inv, Shape, CommandsFirst
    <2> QED BY <2>2, <2>3, <2>4
  <1>3. p \in DOMAIN pos /\ exit[x].pos = p
    BY <1>1 DEF RunnersAhead
  <1>4. command \in [Orders -> {"none", "QUEUED", "TAKEN", "EXPIRED"}]
    BY <1>0 DEF Shape
  <1> HIDE DEF x, p
  <1>5. command'[x] = "QUEUED" /\ \A y \in Sells \ {x} : command'[y] = command[y]
    BY <1>0, <1>1, <1>2, <1>4
  <1>6. Reserved' = Reserved \cup {p}
    <2>1. \A i : i \in Reserved' <=> i \in DOMAIN pos /\ \E y \in Sells : exit[y].pos = i /\ command'[y] # "none"
      BY <1>1 DEF Reserved
    <2>2. \A i : i \in Reserved <=> i \in DOMAIN pos /\ \E y \in Sells : exit[y].pos = i /\ command[y] # "none"
      BY DEF Reserved
    <2>3. \A y \in Sells : command'[y] # "none" <=> command[y] # "none" \/ y = x
      BY <1>2, <1>5
    <2>4. \A i : i \in Reserved' <=> i \in Reserved \/ i = p
      BY <1>2, <1>3, <2>1, <2>2, <2>3
    <2> QED BY <2>4
  <1>7. /\ \A y \in Sells : Owed(y) \in Nat
        /\ \A y \in Sells : Owed(y)' = IF command'[y] = "QUEUED" THEN exit[y].qty ELSE open[y]
    BY <1>0, <1>1, OwedIsNat DEF Owed
  <1>8. \A y \in Sells : IF y = x THEN Owed(y) = 0 /\ Owed(y)' = run[r].qty ELSE Owed(y)' = Owed(y)
    BY <1>2, <1>5, <1>7 DEF Owed
  <1>9. /\ f \in [Sells -> Nat] /\ g \in [Sells -> Nat] /\ Agree(f, g, Sells \ {x})
        /\ f[x] = 0 /\ g[x] = run[r].qty
    BY <1>2, <1>7, <1>8 DEF Agree
  <1>10. Owing = SumFunction(f) /\ Owing' = SumFunction(g)
    BY DEF Owing
  <1> HIDE DEF f, g
  <1>11. SumFunction(g) = SumFunction(f) - f[x] + g[x] /\ SumFunction(f) \in Nat
    BY <1>0, <1>2, <1>9, SumAtOne, SumIsNat
  <1>12. Owing' = Owing + run[r].qty /\ Owing \in Nat
    BY <1>2, <1>9, <1>10, <1>11
  <1>13. OneExitEach' <=> OneExitEach /\ p \notin Reserved
    <2>1. OneExitEach' <=> \A y, z \in Sells : y # z /\ command'[y] # "none" /\ command'[z] # "none"
                                               => exit[y].pos # exit[z].pos
      BY <1>1 DEF OneExitEach
    <2>2. \A y \in Sells : command'[y] # "none" <=> command[y] # "none" \/ y = x
      BY <1>2, <1>5
    <2>3. p \in Reserved <=> \E y \in Sells : exit[y].pos = p /\ command[y] # "none"
      BY <1>3 DEF Reserved
    <2> QED BY <1>2, <1>3, <2>1, <2>2, <2>3 DEF OneExitEach
  <1> QED BY <1>1, <1>2, <1>3, <1>5, <1>6, <1>12, <1>13 DEF x, p

\* Two exit commands for one position stay two.
LEMMA TwiceStays ==
  ASSUME Inv, [Next]_vars, RunnersAhead, OneExitEach'
  PROVE  OneExitEach
  <1>1. CASE \E r \in Runners : Queueing(r)
    BY <1>1, QueueingMoves
  <1>2. CASE ~\E r \in Runners : Queueing(r)
    <2>1. \A x \in Sells : command'[x] = "none" <=> command[x] = "none"
      BY <1>2, OwedFalls
    <2>2. \A x \in Sells : command[x] # "none" => exit'[x].pos = exit[x].pos
      BY PositionOfExit
    <2> QED BY <2>1, <2>2 DEF OneExitEach
  <1> QED BY <1>1, <1>2

\* The broker sells q shares of x: so many fewer may still be sold.
LEMMA FillOwes ==
  ASSUME Inv, NEW o \in Orders, NEW q \in 1 .. open[o], NEW e, Filling(o, q, e)
  PROVE  /\ Owing \in Nat
         /\ o \in Sells => Owing' = Owing - q
         /\ o \notin Sells => Owing' = Owing
  <1> DEFINE f == [x \in Sells |-> Owed(x)]
             g == [x \in Sells |-> Owed(x)']
  <1>0. /\ Shape /\ IsFiniteSet(Sells) /\ Sells \subseteq Orders /\ open \in [Orders -> Nat]
    BY LiveSimConstants DEF Inv, Orders, Shape
  <1>1. open' = [open EXCEPT ![o] = @ - q] /\ UNCHANGED <<command, exit>>
    BY DEF Filling, books
  <1>2. open[o] \in Nat /\ q \in Nat /\ q <= open[o] /\ open[o] > 0
    BY <1>0
  <1>3. command[o] = "TAKEN"
    BY <1>2 DEF Inv, CommandsFirst
  <1>4. /\ \A x \in Sells : Owed(x) \in Nat
        /\ \A x \in Sells : Owed(x)' = IF command[x] = "QUEUED" THEN exit[x].qty ELSE open'[x]
    BY <1>0, <1>1, OwedIsNat DEF Owed
  <1>5. \A x \in Sells : IF x = o THEN Owed(x) = open[o] /\ Owed(x)' = open[o] - q
                         ELSE Owed(x)' = Owed(x)
    BY <1>0, <1>1, <1>3, <1>4 DEF Owed
  <1>6. open[o] - q \in Nat
    BY <1>2
  <1>7. /\ f \in [Sells -> Nat] /\ g \in [Sells -> Nat] /\ Agree(f, g, Sells \ {o})
        /\ o \in Sells => f[o] = open[o] /\ g[o] = open[o] - q
        /\ o \notin Sells => f = g
    BY <1>4, <1>5, <1>6 DEF Agree
  <1>8. Owing = SumFunction(f) /\ Owing' = SumFunction(g)
    BY DEF Owing
  <1> HIDE DEF f, g
  <1>9. SumFunction(f) \in Nat
    BY <1>0, <1>7, SumIsNat
  <1>10. ASSUME o \in Sells PROVE Owing' = Owing - q
    <2>1. SumFunction(g) = SumFunction(f) - f[o] + g[o]
      BY <1>0, <1>7, <1>10, SumAtOne
    <2> QED BY <1>2, <1>7, <1>8, <1>9, <1>10, <2>1
  <1> QED BY <1>7, <1>8, <1>9, <1>10

\* No SELL fill finds too few shares later if none has by now.
LEMMA ShortStays ==
  ASSUME Inv, Keyed, [Next]_vars, NoShortFill'
  PROVE  /\ NoShortFill
         /\ Executed => \/ Unusable(Head(feed)) \/ Doubled(Head(feed))
                        \/ /\ BuyFill(Head(feed)) /\ ToTake' = ToTake
                        \/ /\ SellFill(Head(feed)) /\ Fits(Head(feed).q)
                           /\ Head(feed) \in ToTake /\ ToTake' = ToTake \ {Head(feed)}
  <1>0. \A d \in unbooked' : <<d.of, d.id>> \notin booked'
    BY DEF NoShortFill, AlreadyApplied
  <1>1. CASE UNCHANGED <<booked, unbooked>> /\ ~Executed
    BY <1>0, <1>1 DEF NoShortFill, AlreadyApplied
  <1>2. CASE Executed
    <2> DEFINE e == Head(feed)
    <2>1. Unusable(e) \/ Doubled(e) \/ Booking(e)
      BY <1>2, ExecutedMoves
    <2> HIDE DEF e
    <2>2. CASE Unusable(e) \/ Doubled(e)
      <3>1. NoShortFill
        BY <1>0, <2>2 DEF Unusable, Doubled, NoShortFill, AlreadyApplied
      <3> QED BY <2>2, <3>1 DEF e
    <2>3. CASE Booking(e)
      <3>1. booked \subseteq booked' /\ <<e.of, e.id>> \in booked' /\ ~AlreadyApplied(e)
        BY <2>3 DEF Booking
      <3>2. e \notin unbooked'
        BY <1>0, <3>1
      <3>3. \/ BuyFill(e) /\ ToTake' = ToTake /\ UNCHANGED unbooked
            \/ /\ SellFill(e) /\ Fits(e.q) /\ e \in ToTake /\ ToTake' = ToTake \ {e}
               /\ unbooked' = unbooked \ {e}
        BY <2>3, <3>2 DEF Booking
      <3>4. NoShortFill
        BY <1>0, <3>1, <3>3 DEF NoShortFill, AlreadyApplied
      <3> QED BY <3>3, <3>4 DEF e
    <2> QED BY <2>1, <2>2, <2>3
  <1> QED BY <1>1, <1>2, UnbookedSteps

\* The earliest position with shares has an exit command when a SELL fill is on its way.
LEMMA SoldFromReserved ==
  ASSUME Inv, Keyed, Covered, InLine, Owing \in Nat, NEW e \in ToTake, SellFill(e), Fits(e.q)
  PROVE  SellFrom \in Reserved
  <1> SUFFICES ASSUME SellFrom \notin Reserved PROVE FALSE
    OBVIOUS
  <1>0. Shape /\ DOMAIN pos = 1 .. Len(pos) /\ Len(pos) \in Nat
    BY PositionsFinite DEF Inv
  <1>1. e \in Execs \cup unbooked /\ e.q \in Nat /\ e.q >= 1
    BY <1>0, EventsFinite DEF Keyed
  <1>2. /\ SellFrom \in DOMAIN pos /\ pos[SellFrom].status \in Sellable
        /\ \A p \in DOMAIN pos : p < SellFrom => pos[p].status \notin Sellable
    BY <1>0, <1>1, SellFillMoves
  <1>3. SellFrom = Len(pos)
    BY <1>2 DEF InLine, Sellable
  <1>4. ASSUME NEW p \in Reserved PROVE pos[p].qty = 0
    <2>1. p \in DOMAIN pos /\ p < SellFrom
      BY <1>0, <1>3 DEF Reserved
    <2>2. pos[p] \in PosRows /\ pos[p].status \notin Sellable
      BY <1>0, <1>2, <2>1, PositionsFinite
    <2>3. pos[p].status = "CLOSED"
      BY <2>2 DEF PosRows, Sellable
    <2> QED BY <2>1, <2>3 DEF Inv, ClosedIsEmpty
  <1>5. Reserved \in SUBSET DOMAIN pos
    BY DEF Reserved
  <1>6. SharesOf(pos, Reserved) = 0
    <2>1. IsFiniteSet(Reserved)
      BY <1>0, <1>5, PositionsFinite
    <2>2. \A p \in Reserved : pos[p].qty \in Nat
      BY <1>4
    <2> QED BY <1>4, <2>1, <2>2, SharesAreNat
  <1>7. e.q <= Total(ToTake) /\ Total(ToTake) \in Nat
    BY <1>0, EventsFinite, TotalIsNat
  <1> QED BY <1>1, <1>6, <1>7 DEF Covered

LEMMA SharesWith ==
  ASSUME NEW P, IsFiniteSet(P), NEW s, NEW y, s[y].qty \in Nat, \A p \in P : s[p].qty \in Nat,
         NEW T, OneMore(P, y, T)
  PROVE  SharesOf(s, T) = SharesOf(s, P) + s[y].qty
  <1> DEFINE f == [p \in P |-> s[p].qty]
             g == [p \in T |-> s[p].qty]
  <1>1. f \in [P -> Nat] /\ g \in [T -> Nat] /\ Agree(f, g, P) /\ g[y] = s[y].qty
    BY DEF Agree, OneMore
  <1>2. SharesOf(s, P) = SumFunction(f) /\ SharesOf(s, T) = SumFunction(g)
    BY DEF SharesOf
  <1> HIDE DEF f, g
  <1>3. SumFunction(g) = SumFunction(f) + g[y]
    BY <1>1, SumOfMore
  <1> QED BY <1>1, <1>2, <1>3

LEMMA SharesGrow ==
  ASSUME NEW P, IsFiniteSet(P), NEW s, NEW t,
         \A p \in P : t[p].qty \in Nat /\ s[p].qty \in Nat /\ s[p].qty <= t[p].qty
  PROVE  SharesOf(s, P) <= SharesOf(t, P)
  <1> DEFINE f == [p \in P |-> s[p].qty]
             g == [p \in P |-> t[p].qty]
  <1>1. f \in [P -> Nat] /\ g \in [P -> Nat] /\ \A p \in P : f[p] <= g[p]
    OBVIOUS
  <1>2. SharesOf(s, P) = SumFunction(f) /\ SharesOf(t, P) = SumFunction(g)
    BY DEF SharesOf
  <1> HIDE DEF f, g
  <1> QED BY <1>1, <1>2, SumOfLess

LEMMA CoveredStep ==
  ASSUME Inv, Keyed, ~ChejanFeed, [Next]_vars, NoShortFill', OneExitEach', Covered, InLine,
         RunnersAhead
  PROVE  Covered'
  <1>0. Shape /\ Shape' /\ Keyed' /\ Reserved \in SUBSET DOMAIN pos
    BY ShapeKept, KeyedStep DEF Inv, Reserved
  <1>1. /\ IsFiniteSet(ToTake) /\ \A e \in ToTake : e.q \in Nat
    BY <1>0, EventsFinite
  <1>2. Total(ToTake) \in Nat
    BY <1>1, TotalIsNat
  <1>3. /\ IsFiniteSet(Reserved) /\ \A p \in Reserved : pos[p].qty \in Nat
    BY <1>0, PositionsFinite
  <1>4. SharesOf(pos, Reserved) \in Nat
    BY <1>3, SharesAreNat
  <1>5. Covered' <=> Owing' + Total(ToTake') <= SharesOf(pos', Reserved')
    BY DEF Covered, Total, SharesOf
  <1>6. Owing + Total(ToTake) <= SharesOf(pos, Reserved)
    BY DEF Covered
  <1>7. ASSUME NEW r \in Runners, Queueing(r) PROVE Covered'
    <2> DEFINE p == run[r].pos
               q == run[r].qty
    <2>1. /\ UNCHANGED <<pos, booked, unbooked, feed>>
          /\ p \in DOMAIN pos /\ p \notin Reserved /\ q \in Nat /\ q <= pos[p].qty
          /\ Reserved' = Reserved \cup {p} /\ Owing' = Owing + q /\ Owing \in Nat
      BY <1>7, QueueingMoves
    <2> HIDE DEF p, q
    <2>2. ToTake' = ToTake
      BY <2>1 DEF ToTake, Waiting, Execs, AlreadyApplied
    <2>3. pos[p].qty \in Nat
      BY <1>0, <2>1, PositionsFinite
    <2>4. SharesOf(pos, Reserved \cup {p}) = SharesOf(pos, Reserved) + pos[p].qty
      <3>1. OneMore(Reserved, p, Reserved \cup {p})
        BY <2>1 DEF OneMore
      <3> QED BY <1>3, <2>3, <3>1, SharesWith
    <2>5. SharesOf(pos', Reserved') = SharesOf(pos, Reserved) + pos[p].qty
      BY <2>1, <2>4
    <2> QED BY <1>2, <1>4, <1>5, <1>6, <2>1, <2>2, <2>3, <2>5
  <1> SUFFICES ASSUME ~\E r \in Runners : Queueing(r) PROVE Covered'
    BY <1>7
  <1>8. Owing' <= Owing /\ Owing \in Nat /\ Owing' \in Nat /\ Reserved' = Reserved
    BY OwingFalls, ReservedSame
  <1>9. CASE Quiet
    <2>1. ToTake' = ToTake
      BY <1>9, QuietMoves
    <2>2. \A p \in Reserved : pos[p].qty = pos'[p].qty
      BY <1>0, <1>9, PositionsFinite DEF Quiet
    <2>3. SharesOf(pos', Reserved) = SharesOf(pos, Reserved)
      BY <2>2, SharesSame
    <2> QED BY <1>2, <1>4, <1>5, <1>6, <1>8, <2>1, <2>3
  <1>10. ASSUME NEW o \in Orders, Fill(o) PROVE Covered'
    <2>1. PICK q \in 1 .. open[o], e \in FeedEvents : Filling(o, q, e)
      BY <1>10, FillMoves
    <2>2. pos' = pos /\ e.q = q /\ q \in Nat /\ e \notin ToTake
      BY <1>0, <2>1, EventsFinite DEF Filling, books, Shape
    <2>3. CASE o \in Sells
      <3>1. ToTake' = ToTake \cup {e}
        BY <2>1, <2>3, LiveSimConstants DEF Filling
      <3>2. Total(ToTake') = Total(ToTake) + q
        BY <1>1, <2>2, <3>1, TotalOfMore
      <3>3. Owing' = Owing - q
        BY <2>1, <2>3, FillOwes
      <3> QED BY <1>2, <1>4, <1>5, <1>6, <1>8, <2>2, <3>2, <3>3
    <2>4. CASE o \notin Sells
      <3>1. ToTake' = ToTake
        BY <2>1, <2>4 DEF Filling, Orders
      <3> QED BY <1>2, <1>4, <1>5, <1>6, <1>8, <2>2, <3>1
    <2> QED BY <2>3, <2>4
  <1>11. CASE Executed
    <2> DEFINE e == Head(feed)
    <2>1. e.q \in Nat
      BY <1>11, ExecutedMoves DEF FeedEvents
    <2>2. \/ Unusable(e) \/ Doubled(e)
          \/ BuyFill(e) /\ ToTake' = ToTake
          \/ SellFill(e) /\ Fits(e.q) /\ e \in ToTake /\ ToTake' = ToTake \ {e}
      BY <1>11, ShortStays
    <2> HIDE DEF e
    <2>3. CASE Unusable(e) \/ Doubled(e)
      <3>1. ToTake' = ToTake /\ pos' = pos
        BY <2>3 DEF Unusable, Doubled
      <3> QED BY <1>2, <1>4, <1>5, <1>6, <1>8, <3>1
    <2>4. CASE BuyFill(e) /\ ToTake' = ToTake
      <3>1. \A p \in Reserved : pos'[p].qty = pos[p].qty \/ pos'[p].qty = pos[p].qty + e.q
        <4>1. \/ \A p \in DOMAIN pos : pos'[p] = pos[p]
              \/ \E p \in DOMAIN pos : Rewrites(p, [status |-> "OPEN", qty |-> pos[p].qty + e.q])
          BY <1>0, <2>1, <2>4, BuyFillMoves
        <4>2. ASSUME NEW i \in DOMAIN pos, Rewrites(i, [status |-> "OPEN", qty |-> pos[i].qty + e.q])
              PROVE  \A p \in DOMAIN pos : pos'[p] = pos[p] \/ (p = i /\ pos'[p].qty = pos[p].qty + e.q)
          BY <4>2 DEF Rewrites
        <4>3. \A p \in DOMAIN pos : pos'[p] = pos[p] \/ pos'[p].qty = pos[p].qty + e.q
          BY <4>1, <4>2
        <4> QED BY <1>0, <4>3
      <3>2. \A p \in Reserved : pos'[p].qty \in Nat /\ pos[p].qty \in Nat /\ pos[p].qty <= pos'[p].qty
        BY <1>3, <2>1, <3>1
      <3>3. SharesOf(pos, Reserved) <= SharesOf(pos', Reserved)
        BY <1>3, <3>2, SharesGrow
      <3>4. SharesOf(pos', Reserved) \in Nat
        BY <1>3, <3>2, SharesAreNat
      <3> QED BY <1>2, <1>4, <1>5, <1>6, <1>8, <2>4, <3>3, <3>4
    <2>5. CASE SellFill(e) /\ Fits(e.q) /\ e \in ToTake /\ ToTake' = ToTake \ {e}
      <3>1. SellFrom \in Reserved
        BY <1>8, <2>5, SoldFromReserved
      <3>2. PICK status \in {"CLOSING", "CLOSED"} :
              Rewrites(SellFrom, [status |-> status, qty |-> pos[SellFrom].qty - e.q])
        BY <1>0, <2>1, <2>5, SellFillMoves
      <3>3. e.q <= pos[SellFrom].qty
        BY <2>5 DEF Fits
      <3> DEFINE y == SellFrom
      <3>4. /\ y \in Reserved /\ pos[y].qty \in Nat /\ e.q <= pos[y].qty
            /\ pos'[y].qty = pos[y].qty - e.q
            /\ \A p \in DOMAIN pos \ {y} : pos'[p] = pos[p]
        BY <1>3, <3>1, <3>2, <3>3 DEF Rewrites
      <3> HIDE DEF y
      <3>5. \A p \in Reserved : pos[p].qty \in Nat /\ pos'[p].qty \in Nat
        BY <1>0, <1>3, <2>1, <3>4
      <3>6. \A p \in Reserved \ {y} : pos[p].qty = pos'[p].qty
        BY <1>0, <3>4
      <3>7. SharesOf(pos', Reserved) = SharesOf(pos, Reserved) - pos[y].qty + pos'[y].qty
        BY <1>3, <3>4, <3>5, <3>6, SharesChanged
      <3>8. SharesOf(pos', Reserved) = SharesOf(pos, Reserved) - e.q
        BY <1>4, <2>1, <3>4, <3>7
      <3>9. Total(ToTake') = Total(ToTake) - e.q
        BY <1>1, <2>5, TotalOfFewer
      <3> QED BY <1>2, <1>4, <1>5, <1>6, <1>8, <2>1, <3>8, <3>9
    <2> QED BY <2>2, <2>3, <2>4, <2>5
  <1> QED BY <1>9, <1>10, <1>11, ShareSteps

\* Only the runner that queued the command writes the row of an exit order.
LEMMA RowsOfExits ==
  ASSUME Inv, [Next]_vars, ~\E r \in Runners : ExitRecord(r), NEW x \in Sells, order'[x].status # "none"
  PROVE  Known(x)
  <1> SUFFICES ASSUME ~Known(x) PROVE FALSE
    OBVIOUS
  <1>0. x \in Orders /\ x \notin Buys /\ run \in [Runners -> RunRows]
    BY LiveSimConstants DEF Orders, Inv, Shape
  <1>1. order'[x] # order[x]
    BY DEF Known
  <1>2. OrderMove(x)
    BY <1>0, OrderMoves
  <1>3. PICK r \in Runners : At(r, "exit_record") /\ run'[r] = Idle
    BY <1>0, <1>1, <1>2 DEF OrderMove, OrderKept
  <1>4. run'[r] # run[r]
    BY <1>3 DEF At, Idle
  <1>5. ASSUME NEW s \in Runners, CancelIntent(s) \/ CancelRecord(s) PROVE FALSE
    <2>1. /\ s # r
          /\ \E row : run' = [run EXCEPT ![s] = row]
      BY <1>3, <1>5 DEF CancelIntent, CancelRecord, At, Goto, Done
    <2> QED BY <1>0, <1>4, <2>1
  <1>6. CASE Started \/ Acked \/ Failed \/ CancelAnswered \/ Executed
    BY <1>4, <1>6 DEF Started, Acked, Failed, CancelAnswered, Executed
  <1>7. ASSUME NEW b \in Buys, QueueBuy(b) \/ Sweep(b) PROVE FALSE
    BY <1>4, <1>7 DEF QueueBuy, Sweep
  <1> QED BY <1>1, <1>5, <1>6, <1>7, OrderSteps

\* What a step may do to the positions, while no SELL fill finds too few shares.
LEMMA InLineStep ==
  ASSUME Inv, Keyed, [Next]_vars, NoShortFill', Covered, InLine, RunnersAhead
  PROVE  InLine'
  <1>0. /\ Shape /\ Shape' /\ Reserved \subseteq DOMAIN pos
        /\ DOMAIN pos = 1 .. Len(pos) /\ Len(pos) \in Nat /\ DOMAIN pos' = 1 .. Len(pos')
    <2>1. Shape /\ Shape'
      BY ShapeKept DEF Inv
    <2> QED BY <2>1 DEF Reserved, Shape
  <1>1. Reserved \subseteq Reserved'
    <2>1. CASE \E r \in Runners : Queueing(r)
      BY <2>1, QueueingMoves
    <2> QED BY <2>1, ReservedSame
  <1>2. \A x \in Sells : Known(x) => /\ exit'[x].pos = exit[x].pos
                                     /\ exit[x].pos \in DOMAIN pos
                                     /\ pos[exit[x].pos].status \in {"CLOSING", "CLOSED"}
    BY PositionOfExit DEF InLine
  <1>3. \A p \in DOMAIN pos : /\ pos[p] \in PosRows
                              /\ pos[p].status # "RECONCILE_MISMATCH"
                              /\ pos[p].status = "CLOSING" => p \in Reserved
                              /\ pos[p].status = "OPEN" => p = Len(pos)
    BY <1>0, PositionsFinite DEF InLine
  <1> DEFINE First == \A p \in DOMAIN pos' : /\ pos'[p].status # "RECONCILE_MISMATCH"
                                             /\ pos'[p].status = "CLOSING" => p \in Reserved
                                             /\ pos'[p].status = "OPEN" => p = Len(pos')
             Second == \A x \in Sells : order'[x].status # "none" =>
                         /\ exit'[x].pos \in DOMAIN pos'
                         /\ pos'[exit'[x].pos].status \in {"CLOSING", "CLOSED"}
  <1>4. First /\ Second => InLine'
    <2> SUFFICES ASSUME First, Second PROVE InLine'
      OBVIOUS
    <2>1. \A p \in DOMAIN pos' : /\ pos'[p].status # "RECONCILE_MISMATCH"
                                 /\ pos'[p].status = "CLOSING" => p \in Reserved'
                                 /\ pos'[p].status = "OPEN" => p = Len(pos')
      BY <1>1
    <2> HIDE DEF First
    <2> QED BY <2>1 DEF InLine, Known
  <1>5. ASSUME ~\E r \in Runners : ExitRecord(r),
               \A p \in DOMAIN pos : /\ p \in DOMAIN pos'
                                     /\ \/ pos'[p] = pos[p]
                                        \/ pos'[p].status \in {"CLOSING", "CLOSED"}
                                        \/ pos[p].status = "OPEN"
        PROVE  Second
    BY <1>2, <1>5, RowsOfExits
  <1>6. ASSUME NEW r \in Runners, ExitRecord(r) PROVE First /\ Second
    <2> DEFINE p == run[r].pos
               x == run[r].on
               row == [pos[p] EXCEPT !.status = "CLOSING"]
    <2>1. /\ pos' = [pos EXCEPT ![p] = row]
          /\ order' = [order EXCEPT ![x] = NewOrder("EXIT_COMMAND_QUEUED", run[r].qty)]
          /\ run[r].at = "exit_record"
      BY <1>6 DEF ExitRecord, At
    <2>2. /\ p \in DOMAIN pos /\ command[x] # "none" /\ exit[x].pos = p
          /\ x \in Sells
      BY <2>1 DEF RunnersAhead, Inv, RunnersHold, Exiting
    <2>3. p \in Reserved
      BY <2>2 DEF Reserved
    <2>4. exit'[x].pos = p
      BY <2>2, PositionOfExit
    <2>5. row \in PosRows /\ row.status = "CLOSING"
      BY <1>3, <2>2 DEF PosRows
    <2>6. order \in [Orders -> OrderRows]
      BY <1>0 DEF Shape
    <2> HIDE DEF p, x, row
    <2>7. Rewrites(p, row)
      BY <1>0, <2>1, <2>2, <2>5, RowRewritten
    <2>8. DOMAIN pos' = DOMAIN pos /\ pos'[p] = row /\ \A i \in DOMAIN pos : i # p => pos'[i] = pos[i]
      BY <1>0, <2>7 DEF Rewrites
    <2>9. First
      BY <1>0, <1>3, <2>3, <2>5, <2>8
    <2>10. \A y \in Sells : y # x => order'[y] = order[y]
      BY <2>1, <2>6 DEF Orders
    <2>11. Second
      BY <1>2, <2>2, <2>4, <2>5, <2>8, <2>10 DEF Known
    <2> QED BY <2>9, <2>11
  <1>7. CASE UNCHANGED pos /\ ~\E r \in Runners : ExitRecord(r)
    <2>1. First
      BY <1>3, <1>7
    <2>2. Second
      BY <1>5, <1>7
    <2> QED BY <1>4, <2>1, <2>2
  <1>8. CASE Executed /\ ~\E r \in Runners : ExitRecord(r)
    <2> DEFINE e == Head(feed)
    <2>1. e.q \in Nat
      BY <1>8, ExecutedMoves DEF FeedEvents
    <2>2. \/ Unusable(e) \/ Doubled(e) \/ BuyFill(e)
          \/ SellFill(e) /\ Fits(e.q) /\ e \in ToTake
      BY <1>8, ShortStays
    <2> HIDE DEF e
    <2>3. CASE Unusable(e) \/ Doubled(e)
      <3>1. pos' = pos
        BY <2>3 DEF Unusable, Doubled
      <3> QED BY <1>7, <1>8, <3>1
    <2>4. CASE /\ \A p \in DOMAIN pos : pos[p].status \notin Bought
               /\ Len(pos') = Len(pos) + 1
               /\ pos'[Len(pos) + 1] = [status |-> "OPEN", qty |-> e.q]
               /\ \A p \in DOMAIN pos : pos'[p] = pos[p]
      <3>1. DOMAIN pos' = DOMAIN pos \cup {Len(pos')} /\ pos'[Len(pos')].status = "OPEN"
        BY <1>0, <2>4
      <3>2. First
        BY <1>3, <2>4, <3>1 DEF Bought
      <3>3. Second
        BY <1>5, <1>8, <2>4, <3>1
      <3> QED BY <1>4, <3>2, <3>3
    <2>5. ASSUME NEW p \in DOMAIN pos, pos[p].status \in Bought,
                 Rewrites(p, [status |-> "OPEN", qty |-> pos[p].qty + e.q])
          PROVE  InLine'
      <3>1. /\ DOMAIN pos' = DOMAIN pos /\ pos'[p].status = "OPEN" /\ pos[p].status = "OPEN"
            /\ p = Len(pos) /\ Len(pos') = Len(pos)
            /\ \A i \in DOMAIN pos : i # p => pos'[i] = pos[i]
        BY <1>0, <1>3, <2>5 DEF Rewrites, Bought
      <3>2. First
        BY <1>3, <3>1
      <3>3. Second
        BY <1>5, <1>8, <3>1
      <3> QED BY <1>4, <3>2, <3>3
    <2>6. CASE SellFill(e) /\ Fits(e.q) /\ e \in ToTake
      <3> DEFINE p == SellFrom
      <3>1. p \in Reserved
        <4>1. Owing \in Nat
          BY OwingIsNat DEF Inv
        <4> QED BY <2>6, <4>1, SoldFromReserved
      <3>2. PICK status \in {"CLOSING", "CLOSED"} :
              Rewrites(p, [status |-> status, qty |-> pos[p].qty - e.q])
        BY <1>0, <2>1, <2>6, SellFillMoves
      <3>3. /\ DOMAIN pos' = DOMAIN pos /\ pos'[p].status \in {"CLOSING", "CLOSED"}
            /\ \A i \in DOMAIN pos : i # p => pos'[i] = pos[i]
            /\ Len(pos') = Len(pos)
        BY <1>0, <3>2 DEF Rewrites
      <3> HIDE DEF p
      <3>4. First
        BY <1>3, <3>1, <3>3
      <3>5. Second
        BY <1>5, <1>8, <3>3
      <3> QED BY <1>4, <3>4, <3>5
    <2> QED BY <1>0, <2>1, <2>2, <2>3, <2>4, <2>5, <2>6, BuyFillMoves
  <1> QED BY <1>4, <1>6, <1>7, <1>8, PositionSteps

LEMMA RunnersAheadStep ==
  ASSUME Inv, [Next]_vars, RunnersAhead
  PROVE  RunnersAhead'
  <1>0. /\ Shape /\ Shape' /\ run \in [Runners -> RunRows] /\ exit \in [Sells -> ExitRows]
        /\ DOMAIN pos = 1 .. Len(pos) /\ DOMAIN pos' = 1 .. Len(pos') /\ DOMAIN pos \subseteq DOMAIN pos'
    <2>1. Shape /\ Shape' /\ ClosedIsEmpty
      BY ShapeKept DEF Inv
    <2>2. Len(pos') >= Len(pos)
      BY <2>1, PositionMoves
    <2> QED BY <2>1, <2>2 DEF Shape
  <1> SUFFICES ASSUME NEW r \in Runners
               PROVE  /\ run'[r].at \in {"signal", "intent", "exit_queue"} => run'[r].pos \in DOMAIN pos'
                      /\ run'[r].at \in {"intent", "exit_queue", "exit_record"} =>
                           exit'[run'[r].on].pos = run'[r].pos
                      /\ run'[r].at = "exit_record" =>
                           run'[r].pos \in DOMAIN pos' /\ command'[run'[r].on] # "none"
    BY DEF RunnersAhead
  <1> DEFINE Ahead == /\ run'[r].at \in {"signal", "intent", "exit_queue"} => run'[r].pos \in DOMAIN pos'
                      /\ run'[r].at \in {"intent", "exit_queue", "exit_record"} =>
                           exit'[run'[r].on].pos = run'[r].pos
                      /\ run'[r].at = "exit_record" =>
                           run'[r].pos \in DOMAIN pos' /\ command'[run'[r].on] # "none"
  <1>1. /\ run[r].at \in {"signal", "intent", "exit_queue"} => run[r].pos \in DOMAIN pos
        /\ run[r].at \in {"intent", "exit_queue", "exit_record"} => exit[run[r].on].pos = run[r].pos
        /\ run[r].at = "exit_record" => run[r].pos \in DOMAIN pos /\ command[run[r].on] # "none"
    BY DEF RunnersAhead
  <1>2. \A x \in Sells : command[x] # "none" => command'[x] # "none"
    <2>1. CASE \E s \in Runners : Queueing(s)
      <3>1. PICK s \in Runners : Queueing(s)
        BY <2>1
      <3>2. command' = [command EXCEPT ![run[s].on] = "QUEUED"]
        BY <3>1 DEF Queueing, ExitQueue
      <3> QED BY <1>0, <3>2 DEF Shape, Orders
    <2> QED BY <2>1, OwedFalls
  <1>3. Queueing(r) => At(r, "exit_queue") /\ run'[r].at = "exit_record"
    BY <1>0 DEF Queueing, ExitQueue, Goto
  <1>4. Exiting(r) => run[r].on \in Sells /\ exit'[run[r].on].pos = exit[run[r].on].pos
    <2> SUFFICES ASSUME Exiting(r) PROVE run[r].on \in Sells /\ exit'[run[r].on].pos = exit[run[r].on].pos
      OBVIOUS
    <2>1. run[r].on \in Sells /\ exit[run[r].on].signal # "none"
      BY DEF Inv, RunnersHold
    <2> QED BY <2>1, PositionOfExit
  <1>5. CASE run'[r] = run[r]
    <2>1. ~Queueing(r)
      BY <1>3, <1>5 DEF At
    <2> QED BY <1>0, <1>1, <1>2, <1>4, <1>5, <2>1 DEF Exiting
  <1>6. CASE run'[r].at \in {"idle", "cancel", "cancel_queue", "cancel_record"}
    BY <1>6
  <1>7. ASSUME NEW p \in DOMAIN pos, ExitRead(r, p) PROVE Ahead
    <2>1. run'[r] = Place("signal", None, p, 0) /\ UNCHANGED <<books, broker>>
      BY <1>0, <1>7 DEF ExitRead, Goto, Place
    <2>2. pos' = pos /\ ~Queueing(r)
      BY <1>3, <1>7 DEF ExitRead, books, At
    <2> QED BY <2>1, <2>2, PlaceFields
  <1>8. CASE ExitSignal(r)
    <2>0. PICK x \in Sells :
            /\ exit' = [exit EXCEPT ![x].pos = run[r].pos, ![x].signal = "SIGNALLED"]
            /\ Done(r) \/ Goto(r, "intent", x, run[r].pos, pos[run[r].pos].qty)
      BY <1>8 DEF ExitSignal
    <2>1. run'[r] = Idle \/ \E q : run'[r] = Place("intent", x, run[r].pos, q)
      <3>1. Done(r) => run'[r] = Idle
        BY <1>0 DEF Done
      <3>2. ASSUME NEW q, Goto(r, "intent", x, run[r].pos, q)
            PROVE  run'[r] = Place("intent", x, run[r].pos, q)
        BY <1>0, <3>2 DEF Goto, Place
      <3> QED BY <2>0, <3>1, <3>2
    <2>2. run[r].at = "signal" /\ ~Queueing(r)
      BY <1>3, <1>8 DEF ExitSignal, At
    <2>3. exit'[x].pos = run[r].pos
      BY <1>0, <2>0 DEF ExitRows
    <2>4. CASE run'[r] = Idle
      BY <1>6, <2>4 DEF Idle
    <2>5. ASSUME NEW q, run'[r] = Place("intent", x, run[r].pos, q) PROVE Ahead
      <3>1. run'[r].at = "intent" /\ run'[r].on = x /\ run'[r].pos = run[r].pos
        BY <2>5, PlaceFields
      <3> QED BY <1>0, <1>1, <1>2, <2>2, <2>3, <3>1
    <2> QED BY <2>1, <2>4, <2>5
  <1>9. CASE ExitIntent(r)
    <2>1. /\ run'[r] = Place("exit_queue", run[r].on, run[r].pos, run[r].qty)
          /\ run[r].at = "intent" /\ ~Queueing(r)
      BY <1>0, <1>3, <1>9 DEF ExitIntent, Goto, Place, At
    <2>2. run'[r].at = "exit_queue" /\ run'[r].on = run[r].on /\ run'[r].pos = run[r].pos
      BY <2>1, PlaceFields
    <2> QED BY <1>0, <1>1, <1>2, <1>4, <2>1, <2>2 DEF Exiting
  <1>10. CASE ExitQueue(r)
    <2>1. CASE Queueing(r)
      <3>1. /\ run[r].pos \in DOMAIN pos
            /\ run' = [run EXCEPT ![r] = Place("exit_record", run[r].on, run[r].pos, run[r].qty)]
            /\ command'[run[r].on] = "QUEUED"
        BY <2>1, QueueingMoves
      <3>2. run'[r] = Place("exit_record", run[r].on, run[r].pos, run[r].qty)
        BY <1>0, <3>1
      <3>3. run'[r].at = "exit_record" /\ run'[r].on = run[r].on /\ run'[r].pos = run[r].pos
        BY <3>2, PlaceFields
      <3>4. run[r].at = "exit_queue"
        BY <1>3, <2>1 DEF At
      <3> QED BY <1>0, <1>1, <1>4, <3>1, <3>3, <3>4 DEF Exiting
    <2>2. CASE ~Queueing(r)
      <3>1. run'[r] = Idle
        BY <1>0, <1>10, <2>2 DEF ExitQueue, Queueing, Done
      <3> QED BY <1>6, <3>1 DEF Idle
    <2> QED BY <2>1, <2>2
  <1>11. CASE CancelIntent(r) \/ CancelQueue(r) \/ CancelRecord(r) \/ ExitRecord(r) \/ RunnerDies(r)
    <2>1. run'[r].at \in {"idle", "cancel_queue", "cancel_record"}
      <3>1. CASE CancelIntent(r)
        BY <1>0, <3>1 DEF CancelIntent, Goto, Done, Idle
      <3>2. CASE CancelQueue(r)
        BY <1>0, <3>2 DEF CancelQueue, Goto, Done, Idle
      <3>3. CASE CancelRecord(r) \/ ExitRecord(r) \/ RunnerDies(r)
        <4>1. run' = [run EXCEPT ![r] = Idle]
          BY <3>3 DEF CancelRecord, ExitRecord, RunnerDies, Done
        <4> QED BY <1>0, <4>1 DEF Idle
      <3> QED BY <1>11, <3>1, <3>2, <3>3
    <2> QED BY <1>6, <2>1
  <1>12. ASSUME NEW b \in Buys, CancelRead(r, b) PROVE Ahead
    <2>1. run'[r].at = "cancel"
      BY <1>0, <1>12 DEF CancelRead, Goto
    <2> QED BY <1>6, <2>1
  <1>13. ASSUME NEW s \in Runners, s # r,
                \/ \E b \in Buys : CancelRead(s, b)
                \/ CancelIntent(s) \/ CancelQueue(s) \/ CancelRecord(s)
                \/ \E p \in DOMAIN pos : ExitRead(s, p)
                \/ ExitSignal(s) \/ ExitIntent(s) \/ ExitQueue(s) \/ ExitRecord(s) \/ RunnerDies(s)
         PROVE  run'[r] = run[r]
    <2>1. \E row : run' = [run EXCEPT ![s] = row]
      BY <1>13 DEF CancelRead, CancelIntent, CancelQueue, CancelRecord, ExitRead, ExitSignal, ExitIntent,
                   ExitQueue, ExitRecord, RunnerDies, Goto, Done
    <2> QED BY <1>0, <1>13, <2>1
  <1> QED BY <1>5, <1>7, <1>8, <1>9, <1>10, <1>11, <1>12, <1>13, RunnerSteps

LEMMA SafeInit ==
  ASSUME Init
  PROVE  Safe
  <1>0. pos = <<>> /\ DOMAIN pos = {}
    BY DEF Init
  <1>1. \A x \in Sells : exit[x] = NoExit /\ command[x] = "none" /\ order[x] = NoOrder /\ open[x] = 0
    BY DEF Init, Orders
  <1>2. Reserved = {}
    BY <1>0 DEF Reserved
  <1>3. ToTake = {}
    BY DEF Init, Range, ToTake, Waiting, Execs
  <1>4. Total({}) = 0 /\ SharesOf(pos, {}) = 0
    BY TotalIsNat, SharesAreNat, FS_EmptySet
  <1>5. Owing = 0
    <2> DEFINE f == [x \in Sells |-> Owed(x)]
    <2>1. f \in [Sells -> Nat] /\ \A x \in Sells : f[x] = 0
      BY <1>1 DEF Owed
    <2>2. Owing = SumFunction(f) /\ IsFiniteSet(Sells)
      BY LiveSimConstants DEF Owing
    <2> HIDE DEF f
    <2> QED BY <2>1, <2>2, SumIsNat
  <1>6. Covered
    BY <1>2, <1>3, <1>4, <1>5 DEF Covered
  <1>7. InLine
    BY <1>0, <1>1 DEF InLine, Known, NoOrder
  <1>8. RunnersAhead
    BY DEF Init, RunnersAhead, Idle
  <1> QED BY <1>6, <1>7, <1>8 DEF Safe

LEMMA SafeStep ==
  ASSUME Inv, Keyed, ~ChejanFeed, Safe, [Next]_vars
  PROVE  Safe'
  <1>1. RunnersAhead /\ RunnersAhead'
    BY RunnersAheadStep DEF Safe
  <1>2. ASSUME NoShortFill', OneExitEach' PROVE Covered' /\ InLine'
    <2>1. NoShortFill /\ OneExitEach
      BY <1>1, <1>2, ShortStays, TwiceStays
    <2> QED BY <1>1, <1>2, <2>1, CoveredStep, InLineStep DEF Safe
  <1> QED BY <1>1, <1>2 DEF Safe

\* The exit path only closes: what is queued or open to be sold is never more than the
\* account holds, for any runners, orders, quantities, lost runners and repeated reports,
\* with the executions alone on the feed, unless a SELL fill finds too few shares in the
\* position it is taken from or two runners get an exit command for one position
\* (queue_live_sim_exit_order_command, _exit_safety_reasons, _apply_sell_fill).
THEOREM ExitsOnlyClose ==
  ASSUME ~ChejanFeed
  PROVE  Spec => []NeverSellsMoreThanHeld
  <1>1. ASSUME Inv, Keyed, Conserved, Safe PROVE NeverSellsMoreThanHeld
    <2> SUFFICES ASSUME NoShortFill, OneExitEach PROVE Owing <= held
      BY DEF NeverSellsMoreThanHeld, ToSell, Owing, Owed
    <2>0. Shape /\ held \in Int /\ Reserved \subseteq DOMAIN pos
      BY <1>1 DEF Inv, Keyed, Reserved
    <2>1. /\ IsFiniteSet(DOMAIN pos) /\ IsFiniteSet(Reserved) /\ \A p \in DOMAIN pos : pos[p].qty \in Nat
          /\ PositionQuantity = SharesOf(pos, DOMAIN pos) /\ PositionQuantity \in Nat
      BY <2>0, PositionsFinite
    <2>2. SharesOf(pos, Reserved) <= PositionQuantity
      <3> DEFINE f == [p \in Reserved |-> pos[p].qty]
                 g == [p \in DOMAIN pos |-> pos[p].qty]
      <3>1. f \in [Reserved -> Nat] /\ g \in [DOMAIN pos -> Nat] /\ \A p \in Reserved : f[p] <= g[p]
        BY <2>0, <2>1
      <3>2. SharesOf(pos, Reserved) = SumFunction(f) /\ PositionQuantity = SumFunction(g)
        BY DEF SharesOf, PositionQuantity
      <3> HIDE DEF f, g
      <3> QED BY <2>0, <2>1, <3>1, <3>2, SumOfLess
    <2>3. SharesOf(pos, Reserved) \in Nat
      BY <2>0, <2>1, SharesAreNat
    <2>4. Total(ToAdd) \in Nat /\ Total(ToTake) \in Nat /\ Owing \in Nat
      BY <1>1, <2>0, EventsFinite, TotalIsNat, OwingIsNat
    <2>5. Owing + Total(ToTake) <= SharesOf(pos, Reserved)
      BY <1>1 DEF Safe, Covered
    <2>6. PositionQuantity + Total(ToAdd) = held + Total(ToTake)
      BY <1>1 DEF Conserved
    <2> QED BY <2>0, <2>1, <2>2, <2>3, <2>4, <2>5, <2>6
  <1> QED BY <1>1, InvInit, InvStep, BooksInit, KeyedStep, ConservedStep, SafeInit, SafeStep, PTL DEF Spec

=============================================================================
