------------------------------ MODULE SumProofs ------------------------------
(***************************************************************************)
(* Sums over finite sets, SumFunctionOnSet of the community modules: what  *)
(* the proofs about charges and ledgers need of them.  The induction over  *)
(* the subsets of a finite set is by a smallest counterexample.            *)
(***************************************************************************)
EXTENDS Functions, FiniteSetTheorems, TLAPS

\* The element that a fold takes out of s first.
First(s) == CHOOSE x \in s : TRUE

\* g holds the sum of f over every subset of S.
Sums(f, S, g) ==
    g = [s \in SUBSET S |-> IF s = {} THEN 0
                            ELSE f[First(s)] + g[s \ {First(s)}]]

LEMMA SumByDef ==
    ASSUME NEW f, NEW S
    PROVE  SumFunctionOnSet(f, S) = (CHOOSE g : Sums(f, S, g))[S]
BY DEF SumFunctionOnSet, FoldFunctionOnSet, MapThenFoldSet, Sums, First

LEMMA FirstIn ==
    ASSUME NEW s, s # {}
    PROVE  First(s) \in s
BY DEF First

\* A non-empty set of subsets of a finite set has a smallest member.
LEMMA SmallestSubset ==
    ASSUME NEW S, IsFiniteSet(S), NEW C, C \subseteq SUBSET S, C # {}
    PROVE  \E T \in C : \A U \in C : U \subseteq T => U = T
<1> DEFINE R == StrictSubsetOrdering(S)
<1>1. IsWellFoundedOn(R, SUBSET S)
  <2>1. FiniteSubsetsOf(S) = SUBSET S
    BY FS_FiniteSubsetsOfFinite
  <2>2. IsWellFoundedOn(R, FiniteSubsetsOf(S))
    BY FS_StrictSubsetOrderingWellFounded
  <2> HIDE DEF R
  <2> QED BY <2>1, <2>2
<1>2. PICK T \in C : \A U \in C : <<U, T>> \notin R
  <2> HIDE DEF R
  <2> QED BY <1>1, WFMin
<1>3. ASSUME NEW U \in C, U \subseteq T, U # T
      PROVE  <<U, T>> \in R
  BY <1>3 DEF StrictSubsetOrdering
<1> HIDE DEF R
<1>4. \A U \in C : U \subseteq T => U = T
  BY <1>2, <1>3
<1> QED BY <1>4

\* The values of a table of sums do not depend on the set it is made for.
LEMMA SumsAgree ==
    ASSUME NEW f, NEW S, IsFiniteSet(S), NEW T, NEW g, NEW h,
           Sums(f, S, g), Sums(f, T, h), NEW s \in (SUBSET S) \cap (SUBSET T)
    PROVE  g[s] = h[s]
<1> DEFINE C == {u \in (SUBSET S) \cap (SUBSET T) : g[u] # h[u]}
<1>1. SUFFICES ASSUME C # {} PROVE FALSE
  OBVIOUS
<1>2. PICK u \in C : \A v \in C : v \subseteq u => v = u
  <2>1. C \subseteq SUBSET S
    OBVIOUS
  <2> HIDE DEF C
  <2> QED BY <1>1, <2>1, SmallestSubset
<1>3. /\ g[u] = IF u = {} THEN 0 ELSE f[First(u)] + g[u \ {First(u)}]
      /\ h[u] = IF u = {} THEN 0 ELSE f[First(u)] + h[u \ {First(u)}]
  BY Zenon DEF Sums
<1>4. CASE u = {}
  BY <1>3, <1>4
<1>5. CASE u # {}
  <2>1. u \ {First(u)} \notin C
    BY <1>2, <1>5, FirstIn
  <2>2. g[u \ {First(u)}] = h[u \ {First(u)}]
    BY <2>1
  <2> QED BY <1>3, <1>5, <2>2
<1> QED BY <1>4, <1>5

\* Every finite set has a table of sums.
LEMMA SumsExist ==
    ASSUME NEW f, NEW S, IsFiniteSet(S)
    PROVE  \E g : Sums(f, S, g)
<1> DEFINE C == {T \in SUBSET S : ~ \E g : Sums(f, T, g)}
<1>1. SUFFICES ASSUME C # {} PROVE FALSE
  OBVIOUS
<1>2. PICK T \in C : \A U \in C : U \subseteq T => U = T
  <2>1. C \subseteq SUBSET S
    OBVIOUS
  <2> HIDE DEF C
  <2> QED BY <1>1, <2>1, SmallestSubset
<1> DEFINE Of(U) == CHOOSE g : Sums(f, U, g)
           G == [s \in SUBSET T |->
                   IF s = {} THEN 0
                   ELSE f[First(s)] + Of(s \ {First(s)})[s \ {First(s)}]]
<1>3. ASSUME NEW U \in SUBSET T, U # T
      PROVE  Sums(f, U, Of(U)) /\ IsFiniteSet(U)
  <2>1. U \in SUBSET S /\ U \notin C
    BY <1>2, <1>3
  <2>2. \E g : Sums(f, U, g)
    BY <2>1
  <2> QED BY <2>1, <2>2, FS_Subset
<1>4. ASSUME NEW s \in SUBSET T, s # T
      PROVE  G[s] = Of(s)[s]
  <2>1. Sums(f, s, Of(s)) /\ IsFiniteSet(s)
    BY <1>3, <1>4
  <2>2. Of(s)[s] = IF s = {} THEN 0 ELSE f[First(s)] + Of(s)[s \ {First(s)}]
    <3> HIDE DEF Of
    <3> QED BY <2>1, Zenon DEF Sums
  <2>3. G[s] = IF s = {} THEN 0
               ELSE f[First(s)] + Of(s \ {First(s)})[s \ {First(s)}]
    OBVIOUS
  <2>4. ASSUME s # {}
        PROVE  Of(s)[s \ {First(s)}] = Of(s \ {First(s)})[s \ {First(s)}]
    <3> DEFINE u == s \ {First(s)}
               g == Of(s)
               h == Of(u)
    <3>1. First(s) \in s /\ u \in SUBSET T /\ u # T
      BY <2>4, FirstIn
    <3>2. Sums(f, u, h)
      BY <1>3, <3>1
    <3>3. u \in (SUBSET s) \cap SUBSET u
      OBVIOUS
    <3>4. Sums(f, s, g) /\ IsFiniteSet(s)
      BY <2>1
    <3> HIDE DEF Of, u, g, h
    <3>5. g[u] = h[u]
      BY <3>2, <3>3, <3>4, SumsAgree
    <3> QED BY <3>5 DEF u, g, h
  <2> HIDE DEF Of, G
  <2> QED BY <2>2, <2>3, <2>4
<1>5. Sums(f, T, G)
  <2>1. ASSUME NEW s \in SUBSET T, s # {}
        PROVE  G[s \ {First(s)}] = Of(s \ {First(s)})[s \ {First(s)}]
    <3>1. s \ {First(s)} \in SUBSET T /\ s \ {First(s)} # T
      BY <2>1, FirstIn
    <3> HIDE DEF G, Of
    <3> QED BY <1>4, <3>1
  <2>2. G = [s \in SUBSET T |-> IF s = {} THEN 0
                                ELSE f[First(s)] + G[s \ {First(s)}]]
    <3>1. \A s \in SUBSET T :
            G[s] = IF s = {} THEN 0 ELSE f[First(s)] + G[s \ {First(s)}]
      <4> TAKE s \in SUBSET T
      <4>1. G[s] = IF s = {} THEN 0
                   ELSE f[First(s)] + Of(s \ {First(s)})[s \ {First(s)}]
        OBVIOUS
      <4> HIDE DEF G, Of
      <4> QED BY <2>1, <4>1
    <3>2. G = [s \in SUBSET T |-> G[s]]
      OBVIOUS
    <3> HIDE DEF G
    <3> QED BY <3>1, <3>2, Zenon
  <2> HIDE DEF G
  <2> QED BY <2>2 DEF Sums
<1> QED BY <1>2, <1>5

\* The sum over nothing, and the sum as its first element and the rest.
LEMMA SumFirst ==
    ASSUME NEW f, NEW S, IsFiniteSet(S)
    PROVE  SumFunctionOnSet(f, S) =
             IF S = {} THEN 0
             ELSE f[First(S)] + SumFunctionOnSet(f, S \ {First(S)})
<1> DEFINE Of(U) == CHOOSE g : Sums(f, U, g)
<1>1. ASSUME NEW U, IsFiniteSet(U)
      PROVE  Sums(f, U, Of(U)) /\ SumFunctionOnSet(f, U) = Of(U)[U]
  BY <1>1, SumsExist, SumByDef
<1> HIDE DEF Of
<1>2. Of(S)[S] = IF S = {} THEN 0 ELSE f[First(S)] + Of(S)[S \ {First(S)}]
  BY <1>1, Zenon DEF Sums
<1>3. IsFiniteSet(S \ {First(S)})
  BY FS_RemoveElement
<1>4. S \ {First(S)} \in (SUBSET S) \cap SUBSET (S \ {First(S)})
  OBVIOUS
<1>5. Of(S)[S \ {First(S)}] = Of(S \ {First(S)})[S \ {First(S)}]
  <2>1. Sums(f, S, Of(S)) /\ Sums(f, S \ {First(S)}, Of(S \ {First(S)}))
    BY <1>1, <1>3
  <2> QED BY <1>4, <2>1, SumsAgree
<1> QED BY <1>1, <1>2, <1>3, <1>5

LEMMA SumEmpty ==
    ASSUME NEW f
    PROVE  SumFunctionOnSet(f, {}) = 0
BY SumFirst, FS_EmptySet

LEMMA SumInt ==
    ASSUME NEW S, IsFiniteSet(S), NEW f, \A x \in S : f[x] \in Int
    PROVE  SumFunctionOnSet(f, S) \in Int
<1> DEFINE C == {T \in SUBSET S : SumFunctionOnSet(f, T) \notin Int}
<1>1. SUFFICES ASSUME C # {} PROVE FALSE
  OBVIOUS
<1>2. PICK T \in C : \A U \in C : U \subseteq T => U = T
  <2>1. C \subseteq SUBSET S
    OBVIOUS
  <2> HIDE DEF C
  <2> QED BY <1>1, <2>1, SmallestSubset
<1>3. T \subseteq S /\ IsFiniteSet(T)
  BY FS_Subset
<1>4. T # {}
  BY SumEmpty
<1>5. First(T) \in T
  BY <1>4, FirstIn
<1>6. SumFunctionOnSet(f, T \ {First(T)}) \in Int
  BY <1>2, <1>3, <1>5
<1>7. SumFunctionOnSet(f, T) = f[First(T)] + SumFunctionOnSet(f, T \ {First(T)})
  BY <1>3, <1>4, SumFirst
<1>8. SumFunctionOnSet(f, T) \in Int
  BY <1>3, <1>5, <1>6, <1>7
<1> QED BY <1>8

\* Any element may be taken out of a sum, not only the first.
LEMMA SumTake ==
    ASSUME NEW S, IsFiniteSet(S), NEW f, \A x \in S : f[x] \in Int,
           NEW x \in S
    PROVE  SumFunctionOnSet(f, S) = f[x] + SumFunctionOnSet(f, S \ {x})
<1> DEFINE Fits(T) ==
      \A y \in T : SumFunctionOnSet(f, T) = f[y] + SumFunctionOnSet(f, T \ {y})
           C == {T \in SUBSET S : ~Fits(T)}
<1>1. SUFFICES ASSUME C # {} PROVE FALSE
  OBVIOUS
<1>2. PICK T \in C : \A U \in C : U \subseteq T => U = T
  <2>1. C \subseteq SUBSET S
    OBVIOUS
  <2> HIDE DEF C
  <2> QED BY <1>1, <2>1, SmallestSubset
<1>3. T \subseteq S /\ IsFiniteSet(T)
  BY FS_Subset
<1>4. ASSUME NEW y \in T
      PROVE  SumFunctionOnSet(f, T) = f[y] + SumFunctionOnSet(f, T \ {y})
  <2> DEFINE p == First(T)
  <2>1. p \in T
    BY FirstIn
  <2>2. SumFunctionOnSet(f, T) = f[p] + SumFunctionOnSet(f, T \ {p})
    BY <1>3, SumFirst
  <2> HIDE DEF p
  <2>3. CASE y = p
    BY <2>2, <2>3
  <2>4. CASE y # p
    <3>1. T \ {p} \notin C /\ T \ {y} \notin C
      BY <1>2, <2>1
    <3>2. Fits(T \ {p}) /\ Fits(T \ {y})
      BY <1>3, <3>1
    <3>3. SumFunctionOnSet(f, T \ {p}) = f[y] + SumFunctionOnSet(f, (T \ {p}) \ {y})
      BY <2>4, <3>2
    <3>4. SumFunctionOnSet(f, T \ {y}) = f[p] + SumFunctionOnSet(f, (T \ {y}) \ {p})
      BY <2>1, <2>4, <3>2
    <3> DEFINE W == (T \ {y}) \ {p}
    <3>5. (T \ {p}) \ {y} = W
      OBVIOUS
    <3>6. IsFiniteSet(W)
      BY <1>3, FS_RemoveElement
    <3>7. SumFunctionOnSet(f, W) \in Int
      BY <1>3, <3>6, SumInt
    <3>8. f[p] \in Int /\ f[y] \in Int
      BY <1>3, <2>1
    <3>9. /\ SumFunctionOnSet(f, T \ {p}) = f[y] + SumFunctionOnSet(f, W)
          /\ SumFunctionOnSet(f, T \ {y}) = f[p] + SumFunctionOnSet(f, W)
      BY <3>3, <3>4, <3>5
    <3> HIDE DEF W
    <3> QED BY <2>2, <3>7, <3>8, <3>9
  <2> QED BY <2>3, <2>4
<1> QED BY <1>4

LEMMA SumAdd ==
    ASSUME NEW S, IsFiniteSet(S), NEW f, NEW x, x \notin S,
           \A y \in S \cup {x} : f[y] \in Int
    PROVE  SumFunctionOnSet(f, S \cup {x}) = f[x] + SumFunctionOnSet(f, S)
<1>1. IsFiniteSet(S \cup {x})
  BY FS_AddElement
<1>2. (S \cup {x}) \ {x} = S
  OBVIOUS
<1> DEFINE T == S \cup {x}
<1>3. T \ {x} = S /\ IsFiniteSet(T) /\ x \in T /\ \A y \in T : f[y] \in Int
  BY <1>1, <1>2
<1> HIDE DEF T
<1>4. SumFunctionOnSet(f, T) = f[x] + SumFunctionOnSet(f, T \ {x})
  BY <1>3, SumTake
<1> QED BY <1>3, <1>4 DEF T

LEMMA SumSingle ==
    ASSUME NEW f, NEW x, f[x] \in Int
    PROVE  SumFunctionOnSet(f, {x}) = f[x]
<1>1. SumFunctionOnSet(f, {} \cup {x}) = f[x] + SumFunctionOnSet(f, {})
  BY SumAdd, FS_EmptySet
<1>2. {} \cup {x} = {x}
  OBVIOUS
<1> QED BY <1>1, <1>2, SumEmpty

\* A sum depends on the summands only.
LEMMA SumSame ==
    ASSUME NEW S, IsFiniteSet(S), NEW f, NEW g,
           \A x \in S : f[x] = g[x]
    PROVE  SumFunctionOnSet(f, S) = SumFunctionOnSet(g, S)
<1> DEFINE C == {T \in SUBSET S : SumFunctionOnSet(f, T) # SumFunctionOnSet(g, T)}
<1>1. SUFFICES ASSUME C # {} PROVE FALSE
  OBVIOUS
<1>2. PICK T \in C : \A U \in C : U \subseteq T => U = T
  <2>1. C \subseteq SUBSET S
    OBVIOUS
  <2> HIDE DEF C
  <2> QED BY <1>1, <2>1, SmallestSubset
<1>3. T \subseteq S /\ IsFiniteSet(T)
  BY FS_Subset
<1>4. T # {}
  BY SumEmpty
<1>5. First(T) \in T
  BY <1>4, FirstIn
<1>6. SumFunctionOnSet(f, T \ {First(T)}) = SumFunctionOnSet(g, T \ {First(T)})
  BY <1>2, <1>3, <1>5
<1>7. /\ SumFunctionOnSet(f, T) = f[First(T)] + SumFunctionOnSet(f, T \ {First(T)})
      /\ SumFunctionOnSet(g, T) = g[First(T)] + SumFunctionOnSet(g, T \ {First(T)})
  BY <1>3, <1>4, SumFirst
<1>8. SumFunctionOnSet(f, T) = SumFunctionOnSet(g, T)
  BY <1>3, <1>5, <1>6, <1>7
<1> QED BY <1>8

LEMMA SumUnion ==
    ASSUME NEW S, IsFiniteSet(S), NEW T, IsFiniteSet(T), S \cap T = {},
           NEW f, \A x \in S \cup T : f[x] \in Int
    PROVE  SumFunctionOnSet(f, S \cup T)
             = SumFunctionOnSet(f, S) + SumFunctionOnSet(f, T)
<1> DEFINE Fits(V) == SumFunctionOnSet(f, S \cup V)
                        = SumFunctionOnSet(f, S) + SumFunctionOnSet(f, V)
           C == {V \in SUBSET T : ~Fits(V)}
<1>1. SUFFICES ASSUME C # {} PROVE FALSE
  OBVIOUS
<1>2. PICK V \in C : \A U \in C : U \subseteq V => U = V
  <2>1. C \subseteq SUBSET T
    OBVIOUS
  <2> HIDE DEF C
  <2> QED BY <1>1, <2>1, SmallestSubset
<1>3. V \subseteq T /\ IsFiniteSet(V)
  BY FS_Subset
<1>4. V # {}
  <2>1. SumFunctionOnSet(f, S) \in Int
    BY SumInt
  <2>2. S \cup {} = S
    OBVIOUS
  <2>3. Fits({})
    BY <2>1, <2>2, SumEmpty
  <2> QED BY <2>3
<1>5. PICK x : x \in V
  BY <1>4
<1>6. Fits(V \ {x})
  BY <1>2, <1>3, <1>5
<1>7. SumFunctionOnSet(f, V) = f[x] + SumFunctionOnSet(f, V \ {x})
  BY <1>3, <1>5, SumTake
<1>8. SumFunctionOnSet(f, S \cup V) = f[x] + SumFunctionOnSet(f, S \cup (V \ {x}))
  <2> DEFINE W == S \cup (V \ {x})
  <2>1. x \notin W /\ W \cup {x} = S \cup V
    BY <1>3, <1>5
  <2>2. IsFiniteSet(W)
    BY <1>3, FS_RemoveElement, FS_Union
  <2>3. \A y \in W \cup {x} : f[y] \in Int
    BY <1>3, <1>5
  <2> HIDE DEF W
  <2>4. SumFunctionOnSet(f, W \cup {x}) = f[x] + SumFunctionOnSet(f, W)
    BY <2>1, <2>2, <2>3, SumAdd
  <2> QED BY <2>1, <2>4 DEF W
<1>9. /\ f[x] \in Int
      /\ SumFunctionOnSet(f, S) \in Int
      /\ SumFunctionOnSet(f, V \ {x}) \in Int
  BY <1>3, <1>5, SumInt, FS_RemoveElement
<1>10. Fits(V)
  BY <1>6, <1>7, <1>8, <1>9
<1> QED BY <1>10

LEMMA SumMonotone ==
    ASSUME NEW S, IsFiniteSet(S), NEW f, NEW g,
           \A x \in S : f[x] \in Int /\ g[x] \in Int /\ f[x] <= g[x]
    PROVE  SumFunctionOnSet(f, S) <= SumFunctionOnSet(g, S)
<1> DEFINE C == {T \in SUBSET S :
                   ~(SumFunctionOnSet(f, T) <= SumFunctionOnSet(g, T))}
<1>1. SUFFICES ASSUME C # {} PROVE FALSE
  OBVIOUS
<1>2. PICK T \in C : \A U \in C : U \subseteq T => U = T
  <2>1. C \subseteq SUBSET S
    OBVIOUS
  <2> HIDE DEF C
  <2> QED BY <1>1, <2>1, SmallestSubset
<1>3. T \subseteq S /\ IsFiniteSet(T)
  BY FS_Subset
<1>4. T # {}
  BY SumEmpty
<1>5. First(T) \in T
  BY <1>4, FirstIn
<1> DEFINE U == T \ {First(T)}
<1>6. SumFunctionOnSet(f, U) <= SumFunctionOnSet(g, U)
  BY <1>2, <1>3, <1>5
<1>7. /\ SumFunctionOnSet(f, T) = f[First(T)] + SumFunctionOnSet(f, U)
      /\ SumFunctionOnSet(g, T) = g[First(T)] + SumFunctionOnSet(g, U)
  BY <1>3, <1>4, SumFirst
<1>8. SumFunctionOnSet(f, U) \in Int /\ SumFunctionOnSet(g, U) \in Int
  BY <1>3, SumInt, FS_RemoveElement
<1> HIDE DEF U
<1>9. f[First(T)] \in Int /\ g[First(T)] \in Int /\ f[First(T)] <= g[First(T)]
  BY <1>3, <1>5
<1>10. SumFunctionOnSet(f, T) <= SumFunctionOnSet(g, T)
  BY <1>6, <1>7, <1>8, <1>9
<1> QED BY <1>10

LEMMA SumZero ==
    ASSUME NEW S, IsFiniteSet(S), NEW f, \A x \in S : f[x] = 0
    PROVE  SumFunctionOnSet(f, S) = 0
<1> DEFINE C == {T \in SUBSET S : SumFunctionOnSet(f, T) # 0}
<1>1. SUFFICES ASSUME C # {} PROVE FALSE
  OBVIOUS
<1>2. PICK T \in C : \A U \in C : U \subseteq T => U = T
  <2>1. C \subseteq SUBSET S
    OBVIOUS
  <2> HIDE DEF C
  <2> QED BY <1>1, <2>1, SmallestSubset
<1>3. T \subseteq S /\ IsFiniteSet(T)
  BY FS_Subset
<1>4. T # {}
  BY SumEmpty
<1>5. First(T) \in T
  BY <1>4, FirstIn
<1>6. SumFunctionOnSet(f, T \ {First(T)}) = 0
  BY <1>2, <1>3, <1>5
<1>7. SumFunctionOnSet(f, T) = f[First(T)] + SumFunctionOnSet(f, T \ {First(T)})
  BY <1>3, <1>4, SumFirst
<1>8. SumFunctionOnSet(f, T) = 0
  BY <1>3, <1>5, <1>6, <1>7
<1> QED BY <1>8

\* One summand is exchanged for another.
LEMMA SumSwap ==
    ASSUME NEW S, IsFiniteSet(S), NEW f, NEW g, NEW x \in S,
           \A y \in S : f[y] \in Int,
           \A y \in S \ {x} : g[y] = f[y], g[x] \in Int
    PROVE  SumFunctionOnSet(g, S) = SumFunctionOnSet(f, S) - f[x] + g[x]
<1>1. IsFiniteSet(S \ {x})
  BY FS_RemoveElement
<1>2. SumFunctionOnSet(f, S) = f[x] + SumFunctionOnSet(f, S \ {x})
  BY SumTake
<1>3. SumFunctionOnSet(g, S) = g[x] + SumFunctionOnSet(g, S \ {x})
  BY SumTake
<1>4. SumFunctionOnSet(g, S \ {x}) = SumFunctionOnSet(f, S \ {x})
  BY <1>1, SumSame
<1>5. SumFunctionOnSet(f, S \ {x}) \in Int
  BY <1>1, SumInt
<1> QED BY <1>2, <1>3, <1>4, <1>5

LEMMA SumNat ==
    ASSUME NEW S, IsFiniteSet(S), NEW f, \A x \in S : f[x] \in Nat
    PROVE  SumFunctionOnSet(f, S) \in Nat
<1> DEFINE zero == [x \in S |-> 0]
<1>1. SumFunctionOnSet(zero, S) = 0
  BY SumZero
<1>2. SumFunctionOnSet(zero, S) <= SumFunctionOnSet(f, S)
  <2>1. \A x \in S : zero[x] \in Int /\ f[x] \in Int /\ zero[x] <= f[x]
    OBVIOUS
  <2> HIDE DEF zero
  <2> QED BY <2>1, SumMonotone
<1>3. SumFunctionOnSet(f, S) \in Int
  BY SumInt
<1> QED BY <1>1, <1>2, <1>3

\* More summands that are not negative do not make a sum less.
LEMMA SumSubset ==
    ASSUME NEW S, IsFiniteSet(S), NEW T, T \subseteq S,
           NEW f, \A x \in S : f[x] \in Nat
    PROVE  SumFunctionOnSet(f, T) <= SumFunctionOnSet(f, S)
<1> DEFINE R == S \ T
<1>1. IsFiniteSet(T) /\ IsFiniteSet(R)
  BY FS_Subset
<1>2. T \cap R = {} /\ T \cup R = S /\ \A x \in T \cup R : f[x] \in Int
  OBVIOUS
<1>3. SumFunctionOnSet(f, T) \in Nat /\ SumFunctionOnSet(f, R) \in Nat
  BY <1>1, SumNat
<1> HIDE DEF R
<1>4. SumFunctionOnSet(f, T \cup R)
        = SumFunctionOnSet(f, T) + SumFunctionOnSet(f, R)
  BY <1>1, <1>2, SumUnion
<1>5. SumFunctionOnSet(f, S)
        = SumFunctionOnSet(f, T) + SumFunctionOnSet(f, R)
  BY <1>2, <1>4, Zenon
<1> QED BY <1>3, <1>5
=============================================================================
