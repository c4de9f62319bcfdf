----------------------------- MODULE SumProofs -----------------------------
(***************************************************************************)
(* Facts about the sums of module Functions that the proofs about rolling  *)
(* numbers, the circuit and the limiter share.  SumFunctionOnSet picks the *)
(* elements one by one in an order that nobody knows; what is proved here  *)
(* is that the order does not matter.                                      *)
(*                                                                         *)
(* Each proof by induction takes the least of the sets for which the claim *)
(* fails: finite sets are well-founded under strict inclusion.             *)
(***************************************************************************)
EXTENDS Integers, Functions, FiniteSetTheorems, TLAPS

\* The element that a fold takes out of a set next.
Chosen(s) == CHOOSE x \in s : TRUE

\* What is left of the set.
Rest(s) == s \ {Chosen(s)}

\* g is the function by which SumFunctionOnSet(fun, S) is defined.
Iterates(g, fun, S) ==
  g = [s \in SUBSET S |-> IF s = {} THEN 0 ELSE fun[Chosen(s)] + g[Rest(s)]]

\* A set of sets of which some is finite has a finite member that includes no
\* other finite member.
LEMMA LeastSet ==
  ASSUME NEW S, IsFiniteSet(S), NEW Bad \in SUBSET (SUBSET S), Bad # {}
  PROVE  \E m \in Bad : \A t \in SUBSET m : t # m => t \notin Bad
  <1>1. Bad \subseteq FiniteSubsetsOf(S)
    BY FS_Subset DEF FiniteSubsetsOf
  <1>2. PICK m \in Bad : \A t \in Bad : <<t, m>> \notin StrictSubsetOrdering(S)
    BY <1>1, FS_StrictSubsetOrderingWellFounded, WFMin, Zenon
  <1>3. ASSUME NEW t \in SUBSET m, t # m, t \in Bad PROVE FALSE
    <2>1. <<t, m>> \in StrictSubsetOrdering(S)
      BY <1>3 DEF StrictSubsetOrdering
    <2> QED
      BY <1>2, <1>3, <2>1
  <1> QED
    BY <1>3

\* A set that is not empty is what was chosen and the rest.
LEMMA ChosenRest ==
  ASSUME NEW s, s # {}
  PROVE  Chosen(s) \in s /\ Rest(s) \in SUBSET s /\ Rest(s) # s
  <1>1. PICK x : x \in s
    OBVIOUS
  <1>2. Chosen(s) \in s
    BY <1>1, Zenon DEF Chosen
  <1> QED
    BY <1>2 DEF Rest

\* Two such functions agree where both are defined.
LEMMA IteratesAgree ==
  ASSUME NEW fun, NEW S, IsFiniteSet(S), NEW V, S \subseteq V,
         NEW g, Iterates(g, fun, S), NEW h, Iterates(h, fun, V)
  PROVE  \A s \in SUBSET S : g[s] = h[s]
  <1> DEFINE Bad == {s \in SUBSET S : g[s] # h[s]}
  <1>1. CASE Bad = {}
    BY <1>1
  <1>2. CASE Bad # {}
    <2>1. PICK m \in Bad : \A t \in SUBSET m : t # m => t \notin Bad
      <3>1. Bad \in SUBSET (SUBSET S)
        OBVIOUS
      <3> HIDE DEF Bad
      <3> QED
        BY <1>2, <3>1, LeastSet
    <2>2. m \in SUBSET S /\ m \in SUBSET V /\ g[m] # h[m]
      BY <2>1
    <2>3. g[m] = IF m = {} THEN 0 ELSE fun[Chosen(m)] + g[Rest(m)]
      BY <2>2, Zenon DEF Iterates
    <2>4. h[m] = IF m = {} THEN 0 ELSE fun[Chosen(m)] + h[Rest(m)]
      BY <2>2, Zenon DEF Iterates
    <2>5. m # {} /\ g[Rest(m)] # h[Rest(m)]
      BY <2>2, <2>3, <2>4
    <2>6. Rest(m) \in SUBSET m /\ Rest(m) # m
      BY <2>5, ChosenRest
    <2> QED
      BY <2>1, <2>2, <2>5, <2>6
  <1> QED
    BY <1>1, <1>2

\* There is such a function for every finite set.
LEMMA IteratesExists ==
  ASSUME NEW fun, NEW S, IsFiniteSet(S)
  PROVE  \E g : Iterates(g, fun, S)
  <1> DEFINE Bad == {U \in SUBSET S : ~\E g : Iterates(g, fun, U)}
  <1>1. CASE Bad = {}
    <2>1. S \in SUBSET S
      OBVIOUS
    <2> QED
      BY <1>1, <2>1, Zenon
  <1>2. CASE Bad # {}
    <2>1. PICK m \in Bad : \A t \in SUBSET m : t # m => t \notin Bad
      <3>1. Bad \in SUBSET (SUBSET S)
        OBVIOUS
      <3> HIDE DEF Bad
      <3> QED
        BY <1>2, <3>1, LeastSet
    <2> DEFINE Of(t) == CHOOSE g : Iterates(g, fun, t)
    <2>2. ASSUME NEW t \in SUBSET m, t # m PROVE Iterates(Of(t), fun, t)
      <3>1. \E g : Iterates(g, fun, t)
        BY <2>1, <2>2
      <3> QED
        BY <3>1, Zenon
    <2> HIDE DEF Of
    <2>3. ASSUME NEW t \in SUBSET m, t # m, NEW u \in SUBSET t PROVE Of(t)[u] = Of(u)[u]
      <3>1. u \in SUBSET m /\ u # m /\ IsFiniteSet(u) /\ u \in SUBSET u
        BY <2>1, <2>3, FS_Subset
      <3> QED
        BY <2>2, <2>3, <3>1, IteratesAgree
    <2> DEFINE G == [s \in SUBSET m |->
                       IF s = {} THEN 0 ELSE fun[Chosen(s)] + Of(Rest(s))[Rest(s)]]
    <2>4. ASSUME NEW s \in SUBSET m, s # {} PROVE G[Rest(s)] = Of(Rest(s))[Rest(s)]
      <3> DEFINE t == Rest(s)
      <3>1. t \in SUBSET m /\ t # m
        <4>1. Chosen(s) \in s
          BY <2>4, ChosenRest
        <4> QED
          BY <4>1 DEF Rest
      <3>2. G[t] = IF t = {} THEN 0 ELSE fun[Chosen(t)] + Of(Rest(t))[Rest(t)]
        BY <3>1
      <3>3. Of(t)[t] = IF t = {} THEN 0 ELSE fun[Chosen(t)] + Of(t)[Rest(t)]
        <4>1. t \in SUBSET t
          OBVIOUS
        <4> HIDE DEF t
        <4> QED
          BY <2>2, <3>1, <4>1, Zenon DEF Iterates
      <3>4. t # {} => Of(t)[Rest(t)] = Of(Rest(t))[Rest(t)]
        BY <2>3, <3>1, ChosenRest
      <3> QED
        BY <3>2, <3>3, <3>4
    <2>5. G = [s \in SUBSET m |-> IF s = {} THEN 0 ELSE fun[Chosen(s)] + G[Rest(s)]]
      <3>1. \A s \in SUBSET m :
              (IF s = {} THEN 0 ELSE fun[Chosen(s)] + Of(Rest(s))[Rest(s)])
                = (IF s = {} THEN 0 ELSE fun[Chosen(s)] + G[Rest(s)])
        BY <2>4
      <3> QED
        BY <3>1
    <2>6. Iterates(G, fun, m)
      BY <2>5 DEF Iterates
    <2> QED
      BY <2>1, <2>6
  <1> QED
    BY <1>1, <1>2

\* A sum by its definition, one element after the other.
LEMMA SumUnfolds ==
  ASSUME NEW fun, NEW S, IsFiniteSet(S)
  PROVE  SumFunctionOnSet(fun, S) =
           IF S = {} THEN 0 ELSE fun[Chosen(S)] + SumFunctionOnSet(fun, Rest(S))
  <1> DEFINE Of(t) == CHOOSE g : Iterates(g, fun, t)
  <1>1. \A t : SumFunctionOnSet(fun, t) = Of(t)[t]
    BY Zenon DEF SumFunctionOnSet, FoldFunctionOnSet, MapThenFoldSet, Iterates, Chosen, Rest
  <1>2. \A t : IsFiniteSet(t) => Iterates(Of(t), fun, t)
    BY IteratesExists, Zenon
  <1> HIDE DEF Of
  <1>3. Of(S)[S] = IF S = {} THEN 0 ELSE fun[Chosen(S)] + Of(S)[Rest(S)]
    <2>1. S \in SUBSET S
      OBVIOUS
    <2> QED
      BY <1>2, <2>1, Zenon DEF Iterates
  <1>4. ASSUME S # {} PROVE Of(S)[Rest(S)] = Of(Rest(S))[Rest(S)]
    <2> DEFINE t == Rest(S)
    <2>1. t \subseteq S
      BY <1>4, ChosenRest
    <2> HIDE DEF t
    <2>2. IsFiniteSet(t) /\ t \in SUBSET t
      BY <2>1, FS_Subset
    <2>3. Iterates(Of(t), fun, t) /\ Iterates(Of(S), fun, S)
      BY <1>2, <2>2
    <2>4. \A s \in SUBSET t : Of(t)[s] = Of(S)[s]
      BY <2>1, <2>2, <2>3, IteratesAgree
    <2> QED
      BY <2>2, <2>4 DEF t
  <1> QED
    BY <1>1, <1>3, <1>4

-----------------------------------------------------------------------------
(* What the other proofs use *)

LEMMA SumOfNothing == ASSUME NEW fun PROVE SumFunctionOnSet(fun, {}) = 0
  BY SumUnfolds, FS_EmptySet

\* A sum of integers is an integer.
LEMMA SumIsInt ==
  ASSUME NEW S, IsFiniteSet(S), NEW fun, \A x \in S : fun[x] \in Int
  PROVE  SumFunctionOnSet(fun, S) \in Int
  <1> DEFINE Bad == {s \in SUBSET S : SumFunctionOnSet(fun, s) \notin Int}
  <1>1. Bad \in SUBSET (SUBSET S)
    OBVIOUS
  <1>2. ASSUME NEW m \in Bad, \A t \in SUBSET m : t # m => t \notin Bad PROVE FALSE
    <2>1. IsFiniteSet(m) /\ m \in SUBSET S
      BY <1>2, FS_Subset
    <2>2. m # {} /\ SumFunctionOnSet(fun, m) = fun[Chosen(m)] + SumFunctionOnSet(fun, Rest(m))
      BY <1>2, <2>1, SumUnfolds
    <2>3. SumFunctionOnSet(fun, Rest(m)) \in Int
      BY <1>2, <2>1, <2>2, ChosenRest
    <2> QED
      BY <1>2, <2>1, <2>2, <2>3, ChosenRest
  <1>3. Bad = {}
    <2> HIDE DEF Bad
    <2> QED
      BY <1>1, <1>2, LeastSet
  <1>4. S \in SUBSET S
    OBVIOUS
  <1> QED
    BY <1>3, <1>4

\* Any element can be taken out first.
LEMMA SumTakes ==
  ASSUME NEW S, IsFiniteSet(S), NEW fun, \A x \in S : fun[x] \in Int, NEW y \in S
  PROVE  SumFunctionOnSet(fun, S) = fun[y] + SumFunctionOnSet(fun, S \ {y})
  <1> DEFINE Total(s) == SumFunctionOnSet(fun, s)
             Takes(s, x) == Total(s) = fun[x] + Total(s \ {x})
             Bad == {s \in SUBSET S : \E x \in s : ~Takes(s, x)}
  <1>1. Bad \in SUBSET (SUBSET S)
    OBVIOUS
  <1>2. \A s \in SUBSET S : IsFiniteSet(s) /\ Total(s) \in Int
    <2>1. ASSUME NEW s \in SUBSET S PROVE IsFiniteSet(s) /\ Total(s) \in Int
      <3>1. IsFiniteSet(s)
        BY FS_Subset
      <3> QED
        BY <3>1, SumIsInt
    <2> QED
      BY <2>1
  <1>3. \A s \in SUBSET S : s # {} => Chosen(s) \in s /\ Takes(s, Chosen(s))
    BY <1>2, SumUnfolds, ChosenRest DEF Rest
  <1> HIDE DEF Total
  <1>4. ASSUME NEW m \in Bad, \A t \in SUBSET m : t # m => t \notin Bad PROVE FALSE
    <2> DEFINE c == Chosen(m)
    <2>1. PICK x \in m : ~Takes(m, x)
      OBVIOUS
    <2>2. m \in SUBSET S /\ c \in m /\ Takes(m, c)
      BY <1>3
    <2> HIDE DEF c
    <2>3. c # x
      BY <2>1, <2>2
    <2>4. Takes(m \ {c}, x) /\ Takes(m \ {x}, c)
      BY <1>4, <2>1, <2>2, <2>3
    <2>5. (m \ {c}) \ {x} = (m \ {x}) \ {c}
      OBVIOUS
    <2> DEFINE z == Total((m \ {x}) \ {c})
    <2>6. z \in Int /\ fun[c] \in Int /\ fun[x] \in Int
      BY <1>2, <2>2
    <2>7. /\ Total(m) = fun[c] + Total(m \ {c})
          /\ Total(m \ {c}) = fun[x] + z /\ Total(m \ {x}) = fun[c] + z
      BY <2>2, <2>4, <2>5
    <2> HIDE DEF z
    <2>8. Total(m) = fun[x] + Total(m \ {x})
      BY ONLY <2>6, <2>7
    <2> QED
      BY <2>1, <2>8
  <1>5. Bad = {}
    <2> HIDE DEF Bad
    <2> QED
      BY <1>1, <1>4, LeastSet
  <1> QED
    BY <1>5 DEF Total

\* A sum is no smaller for greater terms.
LEMMA SumGrows ==
  ASSUME NEW S, IsFiniteSet(S),
         NEW fun, \A x \in S : fun[x] \in Int,
         NEW other, \A x \in S : other[x] \in Int /\ fun[x] <= other[x]
  PROVE  SumFunctionOnSet(fun, S) <= SumFunctionOnSet(other, S)
  <1> DEFINE Below(s) == SumFunctionOnSet(fun, s) <= SumFunctionOnSet(other, s)
             Bad == {s \in SUBSET S : ~Below(s)}
  <1>1. Bad \in SUBSET (SUBSET S)
    OBVIOUS
  <1>2. ASSUME NEW m \in Bad, \A t \in SUBSET m : t # m => t \notin Bad PROVE FALSE
    <2> DEFINE c == Chosen(m)
    <2>1. m \subseteq S /\ IsFiniteSet(m)
      BY <1>2, FS_Subset
    <2>2. m # {}
      <3>1. SumFunctionOnSet(fun, {}) <= SumFunctionOnSet(other, {})
        BY SumOfNothing
      <3> QED
        BY <1>2, <3>1
    <2>3. c \in m
      BY <2>2, ChosenRest
    <2> HIDE DEF c
    <2>4. /\ SumFunctionOnSet(fun, m) = fun[c] + SumFunctionOnSet(fun, m \ {c})
          /\ SumFunctionOnSet(other, m) = other[c] + SumFunctionOnSet(other, m \ {c})
      BY <2>1, <2>3, SumTakes
    <2>5. Below(m \ {c})
      BY <1>2, <2>1, <2>3
    <2>6. /\ SumFunctionOnSet(fun, m \ {c}) \in Int /\ SumFunctionOnSet(other, m \ {c}) \in Int
          /\ fun[c] \in Int /\ other[c] \in Int /\ fun[c] <= other[c]
      <3>1. IsFiniteSet(m \ {c}) /\ \A x \in m \ {c} : fun[x] \in Int /\ other[x] \in Int
        BY <2>1, FS_Subset
      <3> QED
        BY <2>1, <2>3, <3>1, SumIsInt
    <2> QED
      BY <1>2, <2>4, <2>5, <2>6
  <1>3. Bad = {}
    <2> HIDE DEF Bad
    <2> QED
      BY <1>1, <1>2, LeastSet
  <1> QED
    BY <1>3

\* Equal terms make equal sums.
LEMMA SumSame ==
  ASSUME NEW S, IsFiniteSet(S), NEW fun, \A x \in S : fun[x] \in Int,
         NEW other, \A x \in S : other[x] = fun[x]
  PROVE  SumFunctionOnSet(other, S) = SumFunctionOnSet(fun, S)
  <1>1. SumFunctionOnSet(fun, S) <= SumFunctionOnSet(other, S)
    BY SumGrows
  <1>2. SumFunctionOnSet(other, S) <= SumFunctionOnSet(fun, S)
    BY SumGrows
  <1>3. SumFunctionOnSet(fun, S) \in Int /\ SumFunctionOnSet(other, S) \in Int
    BY SumIsInt
  <1> QED
    BY <1>1, <1>2, <1>3

\* Terms that are 0 make no sum.
LEMMA SumOfZeros ==
  ASSUME NEW S, IsFiniteSet(S), NEW fun, \A x \in S : fun[x] = 0
  PROVE  SumFunctionOnSet(fun, S) = 0
  <1> DEFINE Bad == {s \in SUBSET S : SumFunctionOnSet(fun, s) # 0}
  <1>1. Bad \in SUBSET (SUBSET S)
    OBVIOUS
  <1>2. ASSUME NEW m \in Bad, \A t \in SUBSET m : t # m => t \notin Bad PROVE FALSE
    <2>1. m \subseteq S /\ IsFiniteSet(m) /\ m # {}
      BY <1>2, FS_Subset, SumOfNothing
    <2>2. SumFunctionOnSet(fun, m) = fun[Chosen(m)] + SumFunctionOnSet(fun, Rest(m))
      BY <2>1, SumUnfolds
    <2> QED
      BY <1>2, <2>1, <2>2, ChosenRest
  <1>3. Bad = {}
    <2> HIDE DEF Bad
    <2> QED
      BY <1>1, <1>2, LeastSet
  <1> QED
    BY <1>3

\* A sum of naturals is a natural.
LEMMA SumIsNat ==
  ASSUME NEW S, IsFiniteSet(S), NEW fun, \A x \in S : fun[x] \in Nat
  PROVE  SumFunctionOnSet(fun, S) \in Nat
  <1> DEFINE zero == [x \in S |-> 0]
  <1>1. \A x \in S : zero[x] = 0
    OBVIOUS
  <1> HIDE DEF zero
  <1>2. SumFunctionOnSet(zero, S) = 0
    BY <1>1, SumOfZeros
  <1>3. SumFunctionOnSet(zero, S) <= SumFunctionOnSet(fun, S)
    BY <1>1, SumGrows
  <1>4. SumFunctionOnSet(fun, S) \in Int
    BY SumIsInt
  <1> QED
    BY <1>2, <1>3, <1>4

\* Terms that are no less than 0 add to a sum.
LEMMA SumOfPart ==
  ASSUME NEW S, IsFiniteSet(S), NEW fun, \A x \in S : fun[x] \in Nat, NEW T \in SUBSET S
  PROVE  SumFunctionOnSet(fun, T) <= SumFunctionOnSet(fun, S)
  <1> DEFINE Bad == {s \in SUBSET S : T \subseteq s /\ ~(SumFunctionOnSet(fun, T) <= SumFunctionOnSet(fun, s))}
  <1>1. Bad \in SUBSET (SUBSET S)
    OBVIOUS
  <1>2. \A s \in SUBSET S : IsFiniteSet(s) /\ SumFunctionOnSet(fun, s) \in Nat
    <2>1. ASSUME NEW s \in SUBSET S PROVE IsFiniteSet(s) /\ SumFunctionOnSet(fun, s) \in Nat
      <3>1. IsFiniteSet(s)
        BY FS_Subset
      <3> QED
        BY <3>1, SumIsNat
    <2> QED
      BY <2>1
  <1>3. ASSUME NEW m \in Bad, \A t \in SUBSET m : t # m => t \notin Bad PROVE FALSE
    <2>1. m \in SUBSET S /\ T \subseteq m /\ ~(SumFunctionOnSet(fun, T) <= SumFunctionOnSet(fun, m))
      BY <1>3
    <2>2. PICK x \in m : x \notin T
      BY <1>2, <2>1
    <2>3. SumFunctionOnSet(fun, m) = fun[x] + SumFunctionOnSet(fun, m \ {x})
      BY <1>2, <2>1, SumTakes
    <2>4. SumFunctionOnSet(fun, T) <= SumFunctionOnSet(fun, m \ {x})
      BY <1>3, <2>1, <2>2
    <2>5. /\ SumFunctionOnSet(fun, T) \in Nat /\ SumFunctionOnSet(fun, m \ {x}) \in Nat
          /\ fun[x] \in Nat
      BY <1>2, <2>1
    <2> QED
      BY <2>1, <2>3, <2>4, <2>5
  <1>4. Bad = {}
    <2> HIDE DEF Bad
    <2> QED
      BY <1>1, <1>3, LeastSet
  <1> QED
    BY <1>4

\* Changing one term changes the sum by as much.
LEMMA SumChanges ==
  ASSUME NEW S, IsFiniteSet(S), NEW y \in S, NEW fun, \A x \in S : fun[x] \in Int,
         NEW other, other[y] \in Int, \A x \in S : x # y => other[x] = fun[x]
  PROVE  SumFunctionOnSet(other, S) = SumFunctionOnSet(fun, S) + (other[y] - fun[y])
  <1> DEFINE left == SumFunctionOnSet(fun, S \ {y})
  <1>1. IsFiniteSet(S \ {y}) /\ \A x \in S : other[x] \in Int
    BY FS_Subset
  <1>2. SumFunctionOnSet(fun, S) = fun[y] + left
    BY SumTakes
  <1>3. SumFunctionOnSet(other, S) = other[y] + SumFunctionOnSet(other, S \ {y})
    BY <1>1, SumTakes
  <1>4. SumFunctionOnSet(other, S \ {y}) = left
    BY <1>1, SumSame
  <1>5. left \in Int
    BY <1>1, SumIsInt
  <1> HIDE DEF left
  <1> QED
    BY <1>2, <1>3, <1>4, <1>5

\* Some term of a finite set that is not empty is the greatest.
LEMMA GreatestTerm ==
  ASSUME NEW S, IsFiniteSet(S), S # {}, NEW fun, \A x \in S : fun[x] \in Int
  PROVE  \E x \in S : \A y \in S : fun[y] <= fun[x]
  <1> DEFINE Bad == {s \in SUBSET S : s # {} /\ ~\E x \in s : \A y \in s : fun[y] <= fun[x]}
  <1>1. Bad \in SUBSET (SUBSET S)
    OBVIOUS
  <1>2. ASSUME NEW m \in Bad, \A t \in SUBSET m : t # m => t \notin Bad PROVE FALSE
    <2>1. PICK c \in m : c \in S
      BY <1>2
    <2>2. m \ {c} # {}
      <3>1. \E y \in m : ~(fun[y] <= fun[c])
        BY <1>2, <2>1
      <3> QED
        BY <2>1, <3>1
    <2>3. PICK x \in m \ {c} : \A y \in m \ {c} : fun[y] <= fun[x]
      <3>1. m \ {c} \in SUBSET m /\ m \ {c} # m /\ m \ {c} \in SUBSET S
        BY <1>2
      <3>2. m \ {c} \notin Bad
        BY <1>2, <3>1
      <3> QED
        BY <2>2, <3>1, <3>2
    <2>4. fun[x] \in Int /\ fun[c] \in Int /\ \A y \in m : fun[y] \in Int
      BY <1>2
    <2>5. CASE fun[c] <= fun[x]
      BY <1>2, <2>3, <2>5
    <2>6. CASE fun[x] <= fun[c]
      <3>1. \A y \in m : fun[y] <= fun[c]
        BY <2>3, <2>4, <2>6
      <3> QED
        BY <1>2, <2>1, <3>1
    <2> QED
      BY <2>4, <2>5, <2>6
  <1>3. Bad = {}
    <2> HIDE DEF Bad
    <2> QED
      BY <1>1, <1>2, LeastSet
  <1> QED
    BY <1>3
=============================================================================
