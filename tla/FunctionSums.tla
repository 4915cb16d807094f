---------------------------- MODULE FunctionSums ----------------------------
(***************************************************************************)
(* Facts about SumFunctionOnSet(f, S), the sum of f[x] over the elements x *)
(* of a finite set S.  Every induction is by a smallest counterexample: a  *)
(* set of finite sets that is not empty has a minimal element.             *)
(***************************************************************************)
EXTENDS Integers, Functions, FiniteSetTheorems, WellFoundedInduction, TLAPS

(* Any set of subsets of a finite set has one that contains no other.       *)
LEMMA MinimalSubset ==
  ASSUME NEW S, IsFiniteSet(S), NEW T \in SUBSET (SUBSET S), T # {}
  PROVE  \E A \in T : \A B \in T : B \subseteq A => B = A
PROOF
  <1>1. FiniteSubsetsOf(S) = SUBSET S
    BY FS_FiniteSubsetsOfFinite
  <1>2. IsWellFoundedOn(StrictSubsetOrdering(S), SUBSET S)
    BY <1>1, FS_StrictSubsetOrderingWellFounded
  <1>3. PICK A \in T : \A B \in T : ~(<<B, A>> \in StrictSubsetOrdering(S))
    BY <1>2, WFMin
  <1>4. \A B \in T : B \subseteq A => B = A
    BY <1>3 DEF StrictSubsetOrdering
  <1> QED BY <1>4

-----------------------------------------------------------------------------
(* The recursive function behind a sum                                      *)

Pick(s) == CHOOSE x \in s : TRUE

\* g gives the sum over every subset of S.
Sums(f, S, g) ==
  g = [s \in SUBSET S |-> IF s = {} THEN 0 ELSE f[Pick(s)] + g[s \ {Pick(s)}]]

(* What Pick takes from a set is in it.                                     *)
LEMMA PickMember == \A s : s # {} => Pick(s) \in s
BY DEF Pick

(* Both cases of the recursion.                                             *)
LEMMA SumsAt ==
  ASSUME NEW f, NEW S, NEW g, Sums(f, S, g), NEW s \in SUBSET S
  PROVE  /\ s = {} => g[s] = 0
         /\ s # {} => g[s] = f[Pick(s)] + g[s \ {Pick(s)}]
BY DEF Sums

(* Two such functions agree where both are defined.                         *)
LEMMA SumsAgree ==
  ASSUME NEW f, NEW S, NEW U, IsFiniteSet(S), S \subseteq U,
         NEW g, Sums(f, S, g), NEW h, Sums(f, U, h)
  PROVE  \A s \in SUBSET S : g[s] = h[s]
PROOF
  <1> DEFINE Bad == {s \in SUBSET S : g[s] # h[s]}
  <1> SUFFICES ASSUME Bad # {} PROVE FALSE
    OBVIOUS
  <1>1. PICK A \in Bad : \A B \in Bad : B \subseteq A => B = A
    <2>1. Bad \in SUBSET (SUBSET S)
      OBVIOUS
    <2> HIDE DEF Bad
    <2> QED BY <2>1, MinimalSubset
  <1>2. A # {}
    BY SumsAt
  <1>3. Pick(A) \in A
    BY <1>2, PickMember
  <1>4. g[A \ {Pick(A)}] = h[A \ {Pick(A)}]
    BY <1>1, <1>3
  <1>5. g[A] = f[Pick(A)] + g[A \ {Pick(A)}]
    BY <1>2, SumsAt
  <1>6. h[A] = f[Pick(A)] + h[A \ {Pick(A)}]
    <2>1. A \in SUBSET U
      OBVIOUS
    <2> HIDE DEF Bad
    <2> QED BY ONLY <2>1, <1>2, Sums(f, U, h), SumsAt
  <1> QED BY <1>4, <1>5, <1>6

(* There is such a function for every finite set.                           *)
LEMMA SumsExist ==
  ASSUME NEW f, NEW S, IsFiniteSet(S)
  PROVE  \E g : Sums(f, S, g)
PROOF
  <1> DEFINE Bad == {s \in SUBSET S : ~\E g : Sums(f, s, g)}
             G(s) == CHOOSE g : Sums(f, s, g)
  <1> SUFFICES ASSUME Bad # {} PROVE FALSE
    OBVIOUS
  <1>1. PICK A \in Bad : \A B \in Bad : B \subseteq A => B = A
    <2>1. Bad \in SUBSET (SUBSET S)
      OBVIOUS
    <2> HIDE DEF Bad
    <2> QED BY <2>1, MinimalSubset
  <1>2. \A B \in SUBSET A : B # A => Sums(f, B, G(B))
    BY <1>1
  <1>3. \A B \in SUBSET A : IsFiniteSet(B)
    BY FS_Subset
  <1> DEFINE k == [s \in SUBSET A |-> IF s = {} THEN 0
                     ELSE f[Pick(s)] + G(s \ {Pick(s)})[s \ {Pick(s)}]]
  <1>4. \A s \in SUBSET A : s # A => k[s] = G(s)[s]
    <2> SUFFICES ASSUME NEW s \in SUBSET A, s # A PROVE k[s] = G(s)[s]
      OBVIOUS
    <2>1. CASE s = {}
      BY <2>1, <1>2, SumsAt
    <2>2. CASE s # {}
      <3> DEFINE t == s \ {Pick(s)}
      <3>1. t \in SUBSET A /\ t # A /\ t \subseteq s
        BY <2>2, PickMember
      <3>2. Sums(f, s, G(s)) /\ Sums(f, t, G(t))
        BY <3>1, <1>2
      <3>3. G(t)[t] = G(s)[t]
        <4> HIDE DEF G
        <4> QED BY <3>1, <3>2, <1>3, SumsAgree
      <3>4. G(s)[s] = f[Pick(s)] + G(s)[t]
        <4> HIDE DEF G
        <4> QED BY <2>2, <3>2, SumsAt
      <3>5. k[s] = f[Pick(s)] + G(t)[t]
        BY <2>2
      <3> QED BY <3>3, <3>4, <3>5
    <2> QED BY <2>1, <2>2
  <1>5. \A s \in SUBSET A : s # {} => k[s \ {Pick(s)}] = G(s \ {Pick(s)})[s \ {Pick(s)}]
    <2> HIDE DEF k, G
    <2> QED BY <1>4, PickMember
  <1>6. Sums(f, A, k)
    <2> DEFINE term(s) == IF s = {} THEN 0 ELSE f[Pick(s)] + k[s \ {Pick(s)}]
    <2>1. \A s \in SUBSET A : k[s] = term(s)
      <3> TAKE s \in SUBSET A
      <3>1. CASE s = {}
        BY <3>1
      <3>2. CASE s # {}
        <4>1. k[s] = f[Pick(s)] + G(s \ {Pick(s)})[s \ {Pick(s)}]
          BY <3>2
        <4>2. k[s \ {Pick(s)}] = G(s \ {Pick(s)})[s \ {Pick(s)}]
          BY <3>2, <1>5
        <4>3. term(s) = f[Pick(s)] + k[s \ {Pick(s)}]
          BY <3>2
        <4> HIDE DEF k, term, G
        <4> QED BY <4>1, <4>2, <4>3
      <3> QED BY <3>1, <3>2
    <2>2. k = [s \in SUBSET A |-> k[s]]
      OBVIOUS
    <2>3. k = [s \in SUBSET A |-> term(s)]
      <3> HIDE DEF k, term
      <3> QED BY <2>1, <2>2
    <2> QED BY <2>3 DEF Sums
  <1> QED BY <1>1, <1>6

(* It gives the sum of the community modules.                               *)
LEMMA SumIsSums ==
  ASSUME NEW f, NEW S, IsFiniteSet(S)
  PROVE  \E g : Sums(f, S, g) /\ SumFunctionOnSet(f, S) = g[S]
PROOF
  <1> DEFINE h == CHOOSE g : Sums(f, S, g)
  <1>1. Sums(f, S, h)
    BY SumsExist
  <1>2. SumFunctionOnSet(f, S) = h[S]
    BY DEF SumFunctionOnSet, FoldFunctionOnSet, MapThenFoldSet, Sums, Pick
  <1> QED BY <1>1, <1>2

(* One step of the sum, as its definition takes it.                         *)
LEMMA SumPick ==
  ASSUME NEW f, NEW S, IsFiniteSet(S), S # {}
  PROVE  /\ Pick(S) \in S
         /\ SumFunctionOnSet(f, S) = f[Pick(S)] + SumFunctionOnSet(f, S \ {Pick(S)})
PROOF
  <1> DEFINE R == S \ {Pick(S)}
  <1>1. IsFiniteSet(R) /\ R \in SUBSET S
    BY FS_Subset
  <1>2. PICK g : Sums(f, S, g) /\ SumFunctionOnSet(f, S) = g[S]
    BY SumIsSums
  <1>3. PICK h : Sums(f, R, h) /\ SumFunctionOnSet(f, R) = h[R]
    BY <1>1, SumIsSums
  <1>4. h[R] = g[R]
    <2> HIDE DEF R
    <2>1. \A s \in SUBSET R : h[s] = g[s]
      BY <1>1, <1>2, <1>3, SumsAgree
    <2> QED BY <2>1
  <1>5. g[S] = f[Pick(S)] + g[R]
    BY <1>2, SumsAt
  <1> QED BY <1>2, <1>3, <1>4, <1>5, PickMember

-----------------------------------------------------------------------------
(* What the other proofs use                                                *)

(* The sum over nothing.                                                    *)
LEMMA SumEmpty == \A f : SumFunctionOnSet(f, {}) = 0
PROOF
  <1> TAKE f
  <1>1. IsFiniteSet({})
    BY FS_EmptySet
  <1>2. PICK g : Sums(f, {}, g) /\ SumFunctionOnSet(f, {}) = g[{}]
    BY <1>1, SumIsSums
  <1> QED BY <1>2, SumsAt

(* A sum of integers is an integer.                                         *)
LEMMA SumInt ==
  ASSUME NEW f, NEW S, IsFiniteSet(S), \A x \in S : f[x] \in Int
  PROVE  SumFunctionOnSet(f, S) \in Int
PROOF
  <1> DEFINE Bad == {s \in SUBSET S : SumFunctionOnSet(f, s) \notin Int}
  <1> SUFFICES ASSUME Bad # {} PROVE FALSE
    OBVIOUS
  <1>1. PICK A \in Bad : \A B \in Bad : B \subseteq A => B = A
    <2>1. Bad \in SUBSET (SUBSET S)
      OBVIOUS
    <2> HIDE DEF Bad
    <2> QED BY <2>1, MinimalSubset
  <1>2. A # {} /\ IsFiniteSet(A)
    <2>1. {} \notin Bad
      BY SumEmpty
    <2> QED BY <2>1, FS_Subset
  <1>3. Pick(A) \in A /\ SumFunctionOnSet(f, A) = f[Pick(A)] + SumFunctionOnSet(f, A \ {Pick(A)})
    BY <1>2, SumPick
  <1>4. SumFunctionOnSet(f, A \ {Pick(A)}) \in Int
    BY <1>1, <1>3
  <1>5. f[Pick(A)] \in Int
    BY <1>3
  <1>6. SumFunctionOnSet(f, A) \in Int
    BY <1>3, <1>4, <1>5
  <1> QED BY <1>6

(* A sum of naturals is a natural.                                          *)
LEMMA SumNat ==
  ASSUME NEW f, NEW S, IsFiniteSet(S), \A x \in S : f[x] \in Nat
  PROVE  SumFunctionOnSet(f, S) \in Nat
PROOF
  <1> DEFINE Bad == {s \in SUBSET S : SumFunctionOnSet(f, s) \notin Nat}
  <1> SUFFICES ASSUME Bad # {} PROVE FALSE
    OBVIOUS
  <1>1. PICK A \in Bad : \A B \in Bad : B \subseteq A => B = A
    <2>1. Bad \in SUBSET (SUBSET S)
      OBVIOUS
    <2> HIDE DEF Bad
    <2> QED BY <2>1, MinimalSubset
  <1>2. A # {} /\ IsFiniteSet(A)
    <2>1. {} \notin Bad
      BY SumEmpty
    <2> QED BY <2>1, FS_Subset
  <1>3. Pick(A) \in A /\ SumFunctionOnSet(f, A) = f[Pick(A)] + SumFunctionOnSet(f, A \ {Pick(A)})
    BY <1>2, SumPick
  <1>4. SumFunctionOnSet(f, A \ {Pick(A)}) \in Nat
    BY <1>1, <1>3
  <1>5. f[Pick(A)] \in Nat
    BY <1>3
  <1>6. SumFunctionOnSet(f, A) \in Nat
    BY <1>3, <1>4, <1>5
  <1> QED BY <1>6

(* A sum of zeros is zero.                                                  *)
LEMMA SumZero ==
  ASSUME NEW f, NEW S, IsFiniteSet(S), \A x \in S : f[x] = 0
  PROVE  SumFunctionOnSet(f, S) = 0
PROOF
  <1> DEFINE Bad == {s \in SUBSET S : SumFunctionOnSet(f, s) # 0}
  <1> SUFFICES ASSUME Bad # {} PROVE FALSE
    OBVIOUS
  <1>1. PICK A \in Bad : \A B \in Bad : B \subseteq A => B = A
    <2>1. Bad \in SUBSET (SUBSET S)
      OBVIOUS
    <2> HIDE DEF Bad
    <2> QED BY <2>1, MinimalSubset
  <1>2. A # {} /\ IsFiniteSet(A)
    <2>1. {} \notin Bad
      BY SumEmpty
    <2> QED BY <2>1, FS_Subset
  <1>3. Pick(A) \in A /\ SumFunctionOnSet(f, A) = f[Pick(A)] + SumFunctionOnSet(f, A \ {Pick(A)})
    BY <1>2, SumPick
  <1>4. SumFunctionOnSet(f, A \ {Pick(A)}) = 0
    BY <1>1, <1>3
  <1>5. f[Pick(A)] = 0
    BY <1>3
  <1>6. SumFunctionOnSet(f, A) = 0
    BY <1>3, <1>4, <1>5
  <1> QED BY <1>6

(* Any element may be taken out, not only the one the definition takes.     *)
LEMMA SumRemove ==
  ASSUME NEW f, NEW S, IsFiniteSet(S), \A x \in S : f[x] \in Int, NEW x \in S
  PROVE  SumFunctionOnSet(f, S) = f[x] + SumFunctionOnSet(f, S \ {x})
PROOF
  <1> DEFINE Sum(s) == SumFunctionOnSet(f, s)
             Bad == {s \in SUBSET S : \E y \in s : Sum(s) # f[y] + Sum(s \ {y})}
  <1> SUFFICES ASSUME Bad # {} PROVE FALSE
    OBVIOUS
  <1>1. PICK A \in Bad : \A B \in Bad : B \subseteq A => B = A
    <2>1. Bad \in SUBSET (SUBSET S)
      OBVIOUS
    <2> HIDE DEF Bad
    <2> QED BY <2>1, MinimalSubset
  <1>2. PICK y \in A : Sum(A) # f[y] + Sum(A \ {y})
    BY <1>1
  <1> DEFINE p == Pick(A)
             R == A \ {p, y}
  <1>3. IsFiniteSet(A) /\ IsFiniteSet(A \ {y}) /\ IsFiniteSet(R)
    BY FS_Subset
  <1>4. p \in A /\ Sum(A) = f[p] + Sum(A \ {p})
    BY <1>2, <1>3, SumPick
  <1>5. p # y
    BY <1>2, <1>4
  <1>6. A \ {p} \notin Bad /\ A \ {y} \notin Bad
    BY <1>1, <1>2, <1>4
  <1>7. Sum(A \ {p}) = f[y] + Sum((A \ {p}) \ {y})
    BY <1>2, <1>5, <1>6
  <1>8. Sum(A \ {y}) = f[p] + Sum((A \ {y}) \ {p})
    BY <1>4, <1>5, <1>6
  <1>9. (A \ {p}) \ {y} = R /\ (A \ {y}) \ {p} = R
    OBVIOUS
  <1>10. Sum(R) \in Int /\ f[p] \in Int /\ f[y] \in Int
    BY <1>3, <1>4, SumInt
  <1>11. Sum(A) = f[p] + (f[y] + Sum(R)) /\ Sum(A \ {y}) = f[p] + Sum(R)
    BY <1>4, <1>7, <1>8, <1>9
  <1> HIDE DEF Sum, R, p
  <1> QED BY <1>2, <1>10, <1>11

(* An element is put in.                                                    *)
LEMMA SumAdd ==
  ASSUME NEW f, NEW S, IsFiniteSet(S), \A y \in S : f[y] \in Int, NEW x, x \notin S, f[x] \in Int
  PROVE  SumFunctionOnSet(f, S \cup {x}) = f[x] + SumFunctionOnSet(f, S)
PROOF
  <1>1. IsFiniteSet(S \cup {x})
    BY FS_AddElement
  <1>2. (S \cup {x}) \ {x} = S
    OBVIOUS
  <1> QED BY <1>1, <1>2, SumRemove

(* Functions that agree on S have the same sum over S.                      *)
LEMMA SumSame ==
  ASSUME NEW f, NEW g, NEW S, IsFiniteSet(S), \A x \in S : f[x] = g[x]
  PROVE  SumFunctionOnSet(f, S) = SumFunctionOnSet(g, S)
PROOF
  <1> DEFINE Bad == {s \in SUBSET S : SumFunctionOnSet(f, s) # SumFunctionOnSet(g, s)}
  <1> SUFFICES ASSUME Bad # {} PROVE FALSE
    OBVIOUS
  <1>1. PICK A \in Bad : \A B \in Bad : B \subseteq A => B = A
    <2>1. Bad \in SUBSET (SUBSET S)
      OBVIOUS
    <2> HIDE DEF Bad
    <2> QED BY <2>1, MinimalSubset
  <1>2. A # {} /\ IsFiniteSet(A)
    <2>1. {} \notin Bad
      BY SumEmpty
    <2> QED BY <2>1, FS_Subset
  <1>3. /\ Pick(A) \in A
        /\ SumFunctionOnSet(f, A) = f[Pick(A)] + SumFunctionOnSet(f, A \ {Pick(A)})
        /\ SumFunctionOnSet(g, A) = g[Pick(A)] + SumFunctionOnSet(g, A \ {Pick(A)})
    BY <1>2, SumPick
  <1>4. SumFunctionOnSet(f, A \ {Pick(A)}) = SumFunctionOnSet(g, A \ {Pick(A)})
    BY <1>1, <1>3
  <1>5. f[Pick(A)] = g[Pick(A)]
    BY <1>3
  <1> QED BY <1>3, <1>4, <1>5

(* One term changes.                                                        *)
LEMMA SumChange ==
  ASSUME NEW f, NEW g, NEW S, IsFiniteSet(S), NEW x \in S,
         \A y \in S : f[y] \in Int /\ g[y] \in Int,
         \A y \in S \ {x} : f[y] = g[y]
  PROVE  SumFunctionOnSet(g, S) = SumFunctionOnSet(f, S) - f[x] + g[x]
PROOF
  <1>1. IsFiniteSet(S \ {x})
    BY FS_Subset
  <1>2. SumFunctionOnSet(f, S \ {x}) = SumFunctionOnSet(g, S \ {x})
    BY <1>1, SumSame
  <1>3. SumFunctionOnSet(f, S \ {x}) \in Int
    BY <1>1, SumInt
  <1>4. /\ SumFunctionOnSet(f, S) = f[x] + SumFunctionOnSet(f, S \ {x})
        /\ SumFunctionOnSet(g, S) = g[x] + SumFunctionOnSet(g, S \ {x})
    BY SumRemove
  <1> QED BY <1>2, <1>3, <1>4

(* No term exceeds the sum, when none is negative.                          *)
LEMMA SumAtLeast ==
  ASSUME NEW f, NEW S, IsFiniteSet(S), \A y \in S : f[y] \in Nat, NEW x \in S
  PROVE  f[x] <= SumFunctionOnSet(f, S)
PROOF
  <1>1. IsFiniteSet(S \ {x})
    BY FS_Subset
  <1>2. SumFunctionOnSet(f, S \ {x}) \in Nat
    BY <1>1, SumNat
  <1>3. SumFunctionOnSet(f, S) = f[x] + SumFunctionOnSet(f, S \ {x})
    BY SumRemove
  <1> QED BY <1>2, <1>3

-----------------------------------------------------------------------------
(* The sum of all the values of a function                                  *)

(* A total of naturals is a natural.                                        *)
LEMMA TotalNat ==
  ASSUME NEW f, IsFiniteSet(DOMAIN f), \A x \in DOMAIN f : f[x] \in Nat
  PROVE  SumFunction(f) \in Nat
BY SumNat DEF SumFunction

(* A total of integers is an integer.                                       *)
LEMMA TotalInt ==
  ASSUME NEW f, IsFiniteSet(DOMAIN f), \A x \in DOMAIN f : f[x] \in Int
  PROVE  SumFunction(f) \in Int
BY SumInt DEF SumFunction

(* A total of zeros is zero.                                                *)
LEMMA TotalZero ==
  ASSUME NEW f, IsFiniteSet(DOMAIN f), \A x \in DOMAIN f : f[x] = 0
  PROVE  SumFunction(f) = 0
BY SumZero DEF SumFunction

(* No value is more than the total.                                         *)
LEMMA TotalAtLeast ==
  ASSUME NEW f, IsFiniteSet(DOMAIN f), \A y \in DOMAIN f : f[y] \in Nat, NEW x \in DOMAIN f
  PROVE  f[x] <= SumFunction(f)
BY SumAtLeast DEF SumFunction

(* One value changes.                                                       *)
LEMMA TotalChange ==
  ASSUME NEW f, NEW g, IsFiniteSet(DOMAIN f), DOMAIN g = DOMAIN f, NEW x \in DOMAIN f,
         \A y \in DOMAIN f : f[y] \in Int /\ g[y] \in Int,
         \A y \in DOMAIN f \ {x} : f[y] = g[y]
  PROVE  SumFunction(g) = SumFunction(f) - f[x] + g[x]
BY SumChange DEF SumFunction

(* A function with one more argument.                                       *)
LEMMA TotalExtend ==
  ASSUME NEW f, NEW g, IsFiniteSet(DOMAIN f), NEW x, x \notin DOMAIN f,
         DOMAIN g = DOMAIN f \cup {x}, g[x] \in Int,
         \A y \in DOMAIN f : f[y] \in Int /\ g[y] = f[y]
  PROVE  SumFunction(g) = g[x] + SumFunction(f)
PROOF
  <1>1. SumFunctionOnSet(g, DOMAIN f) = SumFunctionOnSet(f, DOMAIN f)
    BY SumSame
  <1>2. \A y \in DOMAIN f : g[y] \in Int
    OBVIOUS
  <1>3. SumFunctionOnSet(g, DOMAIN f \cup {x}) = g[x] + SumFunctionOnSet(g, DOMAIN f)
    BY <1>2, SumAdd
  <1> QED BY <1>1, <1>3 DEF SumFunction

(* Nothing adds up to zero.                                                 *)
LEMMA TotalEmpty == \A f : DOMAIN f = {} => SumFunction(f) = 0
BY SumEmpty DEF SumFunction
=============================================================================
