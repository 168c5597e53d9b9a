---------------------------- MODULE SumTheorems ----------------------------
(***************************************************************************)
(* Facts about SumFunctionOnSet of the community module Functions, the sum *)
(* of f[x] for x in a finite set.  The library's induction theorems take   *)
(* an operator, which the provers cannot instantiate; the proofs here take *)
(* a minimal member of the set of counterexamples instead.                 *)
(***************************************************************************)
EXTENDS Functions, FiniteSets, FiniteSetTheorems, WellFoundedInduction, TLAPS

-----------------------------------------------------------------------------
(* Minimal members.                                                        *)

\* Some member of a nonempty set of subsets of a finite set includes no other.
LEMMA FiniteMinimal ==
    ASSUME NEW S, IsFiniteSet(S), NEW B \in SUBSET SUBSET S, B # {}
    PROVE  \E T \in B : \A U \in B : U \subseteq T => U = T
<1>1. B \subseteq FiniteSubsetsOf(S)
  BY FS_FiniteSubsetsOfFinite
<1>2. PICK T \in B : \A U \in B : <<U, T>> \notin StrictSubsetOrdering(S)
  BY <1>1, FS_StrictSubsetOrderingWellFounded, WFMin
<1> QED
  BY <1>2 DEF StrictSubsetOrdering

\* A nonempty set of natural numbers has a least member.
LEMMA LeastNatural ==
    ASSUME NEW B \in SUBSET Nat, B # {}
    PROVE  \E n \in B : \A m \in B : n <= m
<1> DEFINE R == {ss \in Nat \X Nat : ss[1] < ss[2]}
<1>1. IsWellFoundedOn(R, Nat)
  BY NatLessThanWellFounded DEF OpToRel
<1>2. PICK n \in B : \A m \in B : <<m, n>> \notin R
  <2> HIDE DEF R
  <2> QED BY <1>1, WFMin
<1>3. ASSUME NEW m \in B PROVE n <= m
  <2>1. <<m, n>> \notin R /\ m \in Nat /\ n \in Nat
    BY <1>2
  <2> QED
    BY <2>1
<1> QED
  BY <1>3

-----------------------------------------------------------------------------
(* The recursive function behind the sum.                                  *)

Some(s) == CHOOSE x \in s : TRUE

IsIter(f, S, g) ==
    g = [s \in SUBSET S |-> IF s = {} THEN 0 ELSE f[Some(s)] + g[s \ {Some(s)}]]

Iter(f, S) == CHOOSE g : IsIter(f, S, g)

\* The sum is a value of that function.
LEMMA SumIsIter == ASSUME NEW f, NEW S PROVE SumFunctionOnSet(f, S) = Iter(f, S)[S]
BY DEF SumFunctionOnSet, FoldFunctionOnSet, MapThenFoldSet, Iter, IsIter, Some

\* Two such functions agree wherever both are defined.
LEMMA IterUnique ==
    ASSUME NEW S, IsFiniteSet(S), NEW T \in SUBSET S, NEW f, NEW g, NEW h,
           IsIter(f, S, g), IsIter(f, T, h)
    PROVE  \A U \in SUBSET T : g[U] = h[U]
<1> DEFINE B == {U \in SUBSET T : g[U] # h[U]}
<1> SUFFICES ASSUME B # {} PROVE FALSE
  OBVIOUS
<1>1. IsFiniteSet(T)
  BY FS_Subset
<1>2. PICK U \in B : \A V \in B : V \subseteq U => V = U
  <2>1. B \in SUBSET SUBSET T
    OBVIOUS
  <2> HIDE DEF B
  <2> QED BY <1>1, <2>1, FiniteMinimal
<1> DEFINE V == U \ {Some(U)}
<1>3. g[U] = IF U = {} THEN 0 ELSE f[Some(U)] + g[V]
  BY U \in SUBSET S DEF IsIter
<1>4. h[U] = IF U = {} THEN 0 ELSE f[Some(U)] + h[V]
  BY U \in SUBSET T DEF IsIter
<1>5. U # {} /\ g[V] # h[V]
  BY <1>2, <1>3, <1>4
<1>6. V \in B /\ V \subseteq U
  BY <1>5
<1>7. Some(U) \in U
  BY <1>5 DEF Some
<1>8. V # U
  BY <1>7
<1> QED
  BY <1>2, <1>6, <1>8

\* There is one for every finite set.
LEMMA IterExists == ASSUME NEW S, IsFiniteSet(S), NEW f PROVE IsIter(f, S, Iter(f, S))
<1> DEFINE B == {T \in SUBSET S : ~IsIter(f, T, Iter(f, T))}
<1> SUFFICES ASSUME B # {} PROVE FALSE
  OBVIOUS
<1>1. PICK T \in B : \A U \in B : U \subseteq T => U = T
  <2>1. B \in SUBSET SUBSET S
    OBVIOUS
  <2> HIDE DEF B
  <2> QED BY <2>1, FiniteMinimal
<1>2. ASSUME NEW U \in SUBSET T, U # T PROVE IsIter(f, U, Iter(f, U))
  BY <1>1, <1>2
<1> DEFINE Rest(s) == s \ {Some(s)}
           G == [s \in SUBSET T |->
                    IF s = {} THEN 0 ELSE f[Some(s)] + Iter(f, Rest(s))[Rest(s)]]
<1>3. ASSUME NEW s \in SUBSET T, s # {} PROVE G[Rest(s)] = Iter(f, Rest(s))[Rest(s)]
  <2> DEFINE u == Rest(s)
             v == Rest(u)
  <2>1. Some(s) \in s
    BY <1>3 DEF Some
  <2>2. u \in SUBSET T /\ u # T /\ IsFiniteSet(u)
    BY <2>1, FS_Subset
  <2>3. IsIter(f, u, Iter(f, u))
    BY <1>2, <2>2
  <2>4. Iter(f, u)[u] = IF u = {} THEN 0 ELSE f[Some(u)] + Iter(f, u)[v]
    <3> HIDE DEF u
    <3> QED BY <2>3 DEF IsIter
  <2>5. G[u] = IF u = {} THEN 0 ELSE f[Some(u)] + Iter(f, v)[v]
    <3> HIDE DEF u
    <3> QED BY <2>2
  <2>6. Iter(f, u)[v] = Iter(f, v)[v]
    <3>1. v \in SUBSET u /\ v # T
      BY <2>2
    <3>2. IsIter(f, v, Iter(f, v))
      BY <1>2, <2>2, <3>1
    <3> HIDE DEF u, v
    <3> QED
      BY <2>2, <2>3, <3>1, <3>2, IterUnique
  <2> QED
    BY <2>4, <2>5, <2>6
<1>4. G = [s \in SUBSET T |-> IF s = {} THEN 0 ELSE f[Some(s)] + G[Rest(s)]]
  <2> DEFINE H == [s \in SUBSET T |-> IF s = {} THEN 0 ELSE f[Some(s)] + G[Rest(s)]]
  <2>1. \A s \in SUBSET T : G[s] = H[s]
    BY <1>3
  <2> QED
    BY <2>1
<1>5. IsIter(f, T, G)
  BY <1>4 DEF IsIter
<1>6. IsIter(f, T, Iter(f, T))
  <2> HIDE DEF G
  <2> QED BY <1>5 DEF Iter
<1> QED
  BY <1>1, <1>6

-----------------------------------------------------------------------------
(* The sum.                                                                *)

\* The sum over a nonempty set takes off one of its members.
LEMMA SumDef ==
    ASSUME NEW S, IsFiniteSet(S), NEW f
    PROVE  SumFunctionOnSet(f, S) =
             IF S = {} THEN 0 ELSE f[Some(S)] + SumFunctionOnSet(f, S \ {Some(S)})
<1> DEFINE T == S \ {Some(S)}
<1>1. IsFiniteSet(T) /\ T \in SUBSET S
  BY FS_Subset
<1>2. IsIter(f, S, Iter(f, S)) /\ IsIter(f, T, Iter(f, T))
  BY <1>1, IterExists
<1>3. Iter(f, S)[S] = IF S = {} THEN 0 ELSE f[Some(S)] + Iter(f, S)[T]
  BY <1>2 DEF IsIter
<1>4. Iter(f, S)[T] = Iter(f, T)[T]
  <2> HIDE DEF T
  <2> QED BY <1>1, <1>2, IterUnique
<1> QED
  BY <1>3, <1>4, SumIsIter

\* Nothing adds up to zero.
LEMMA SumEmpty == ASSUME NEW f PROVE SumFunctionOnSet(f, {}) = 0
BY SumDef, FS_EmptySet

\* The sum is a number, and takes off any of the members.
LEMMA SumRemove ==
    ASSUME NEW S, IsFiniteSet(S), NEW f, \A x \in S : f[x] \in Int
    PROVE  /\ SumFunctionOnSet(f, S) \in Int
           /\ \A x \in S : SumFunctionOnSet(f, S) = f[x] + SumFunctionOnSet(f, S \ {x})
<1> DEFINE Good(T) == /\ SumFunctionOnSet(f, T) \in Int
                      /\ \A x \in T : SumFunctionOnSet(f, T) = f[x] + SumFunctionOnSet(f, T \ {x})
           B == {T \in SUBSET S : ~Good(T)}
<1> SUFFICES ASSUME B # {} PROVE FALSE
  BY S \in SUBSET S
<1>1. PICK T \in B : \A U \in B : U \subseteq T => U = T
  <2>1. B \in SUBSET SUBSET S
    OBVIOUS
  <2> HIDE DEF B
  <2> QED BY <2>1, FiniteMinimal
<1>2. ASSUME NEW U \in SUBSET T, U # T PROVE Good(U)
  BY <1>1, <1>2
<1>3. IsFiniteSet(T) /\ T \in SUBSET S /\ ~Good(T)
  BY <1>1, FS_Subset
<1> HIDE DEF B
<1>4. T # {}
  BY <1>3, SumEmpty
<1> DEFINE y == Some(T)
<1>5. y \in T /\ f[y] \in Int
  BY <1>3, <1>4 DEF Some
<1>6. SumFunctionOnSet(f, T) = f[y] + SumFunctionOnSet(f, T \ {y})
  BY <1>3, <1>4, SumDef
<1>7. Good(T \ {y})
  BY <1>2, <1>5
<1>8. SumFunctionOnSet(f, T) \in Int
  BY <1>5, <1>6, <1>7
<1>9. ASSUME NEW x \in T, x # y
      PROVE  SumFunctionOnSet(f, T) = f[x] + SumFunctionOnSet(f, T \ {x})
  <2>1. Good(T \ {x}) /\ f[x] \in Int
    BY <1>2, <1>3
  <2>2. SumFunctionOnSet(f, T \ {y}) = f[x] + SumFunctionOnSet(f, (T \ {y}) \ {x})
    BY <1>7, <1>9
  <2>3. SumFunctionOnSet(f, T \ {x}) = f[y] + SumFunctionOnSet(f, (T \ {x}) \ {y})
    BY <2>1, <1>5, <1>9
  <2>4. (T \ {y}) \ {x} = (T \ {x}) \ {y}
    OBVIOUS
  <2>5. SumFunctionOnSet(f, (T \ {y}) \ {x}) \in Int
    <3>1. (T \ {y}) \ {x} # T
      BY <1>5
    <3> QED BY <1>2, <3>1
  <2> DEFINE rest == SumFunctionOnSet(f, (T \ {y}) \ {x})
  <2>6. /\ SumFunctionOnSet(f, T) = f[y] + (f[x] + rest)
        /\ SumFunctionOnSet(f, T \ {x}) = f[y] + rest
    BY <1>6, <2>2, <2>3, <2>4
  <2>7. f[x] \in Int /\ f[y] \in Int /\ rest \in Int
    BY <1>5, <2>1, <2>5
  <2> HIDE DEF y, rest
  <2> QED
    BY <2>6, <2>7
<1> QED
  BY <1>3, <1>6, <1>8, <1>9

\* A new member adds its value.
LEMMA SumAdd ==
    ASSUME NEW S, IsFiniteSet(S), NEW f, \A x \in S : f[x] \in Int,
           NEW y, y \notin S, f[y] \in Int
    PROVE  SumFunctionOnSet(f, S \cup {y}) = SumFunctionOnSet(f, S) + f[y]
<1>1. IsFiniteSet(S \cup {y}) /\ \A x \in S \cup {y} : f[x] \in Int
  BY FS_AddElement
<1>2. (S \cup {y}) \ {y} = S
  OBVIOUS
<1> QED
  BY <1>1, <1>2, SumRemove

\* A sum of natural numbers is one.
LEMMA SumNat ==
    ASSUME NEW S, IsFiniteSet(S), NEW f, \A x \in S : f[x] \in Nat
    PROVE  SumFunctionOnSet(f, S) \in Nat
<1> DEFINE B == {T \in SUBSET S : SumFunctionOnSet(f, T) \notin Nat}
<1> SUFFICES ASSUME B # {} PROVE FALSE
  BY S \in SUBSET S
<1>1. PICK T \in B : \A U \in B : U \subseteq T => U = T
  <2>1. B \in SUBSET SUBSET S
    OBVIOUS
  <2> HIDE DEF B
  <2> QED BY <2>1, FiniteMinimal
<1>2. IsFiniteSet(T) /\ \A x \in T : f[x] \in Nat
  BY FS_Subset
<1>3. T # {}
  BY SumEmpty
<1>4. PICK x \in T : TRUE
  BY <1>3
<1>5. SumFunctionOnSet(f, T) = f[x] + SumFunctionOnSet(f, T \ {x})
  BY <1>2, SumRemove
<1>6. SumFunctionOnSet(f, T \ {x}) \in Nat
  BY <1>1
<1> QED
  BY <1>2, <1>5, <1>6

\* Functions that agree on a set have the same sum there.
LEMMA SumSame ==
    ASSUME NEW S, IsFiniteSet(S), NEW f, NEW g, \A x \in S : f[x] = g[x] /\ f[x] \in Int
    PROVE  SumFunctionOnSet(f, S) = SumFunctionOnSet(g, S)
<1> DEFINE B == {T \in SUBSET S : SumFunctionOnSet(f, T) # SumFunctionOnSet(g, T)}
<1> SUFFICES ASSUME B # {} PROVE FALSE
  BY S \in SUBSET S
<1>1. PICK T \in B : \A U \in B : U \subseteq T => U = T
  <2>1. B \in SUBSET SUBSET S
    OBVIOUS
  <2> HIDE DEF B
  <2> QED BY <2>1, FiniteMinimal
<1>2. IsFiniteSet(T) /\ \A x \in T : f[x] = g[x] /\ f[x] \in Int /\ g[x] \in Int
  BY FS_Subset
<1>3. T # {}
  BY SumEmpty
<1>4. PICK x \in T : TRUE
  BY <1>3
<1>5. /\ SumFunctionOnSet(f, T) = f[x] + SumFunctionOnSet(f, T \ {x})
      /\ SumFunctionOnSet(g, T) = g[x] + SumFunctionOnSet(g, T \ {x})
  BY <1>2, SumRemove
<1>6. SumFunctionOnSet(f, T \ {x}) = SumFunctionOnSet(g, T \ {x})
  BY <1>1
<1> QED
  BY <1>2, <1>5, <1>6

\* A larger set has a larger sum.
LEMMA SumSubset ==
    ASSUME NEW S, IsFiniteSet(S), NEW f, \A x \in S : f[x] \in Nat, NEW T \in SUBSET S
    PROVE  SumFunctionOnSet(f, T) <= SumFunctionOnSet(f, S)
<1> DEFINE B == {U \in SUBSET S : T \subseteq U /\ ~(SumFunctionOnSet(f, T) <= SumFunctionOnSet(f, U))}
<1> SUFFICES ASSUME B # {} PROVE FALSE
  BY S \in SUBSET S
<1>1. PICK U \in B : \A V \in B : V \subseteq U => V = U
  <2>1. B \in SUBSET SUBSET S
    OBVIOUS
  <2> HIDE DEF B
  <2> QED BY <2>1, FiniteMinimal
<1>2. IsFiniteSet(U) /\ (\A x \in U : f[x] \in Nat) /\ IsFiniteSet(T)
  BY FS_Subset
<1>0. SumFunctionOnSet(f, T) \in Nat
  BY <1>2, SumNat
<1>3. PICK x \in U : x \notin T
  BY <1>0, U # T
<1>4. SumFunctionOnSet(f, U) = f[x] + SumFunctionOnSet(f, U \ {x})
  BY <1>2, SumRemove
<1>5. SumFunctionOnSet(f, U \ {x}) \in Nat
  BY <1>2, SumNat, FS_Subset, U \ {x} \in SUBSET U
<1>6. SumFunctionOnSet(f, T) <= SumFunctionOnSet(f, U \ {x})
  BY <1>1, <1>3
<1> QED
  BY <1>0, <1>2, <1>4, <1>5, <1>6

IntegersOn(f, S) == \A x \in S : f[x] \in Int
SameExceptAt(f, g, S, y) == \A x \in S \ {y} : f[x] = g[x]

\* A function that differs at one member only.
LEMMA SumUpdate ==
    ASSUME NEW S, IsFiniteSet(S), NEW f, NEW g, NEW y \in S,
           IntegersOn(f, S), IntegersOn(g, S), SameExceptAt(f, g, S, y)
    PROVE  SumFunctionOnSet(g, S) = SumFunctionOnSet(f, S) - f[y] + g[y]
<1> DEFINE T == S \ {y}
           rest == SumFunctionOnSet(f, T)
<1>0. (\A x \in S : f[x] \in Int /\ g[x] \in Int) /\ \A x \in T : f[x] = g[x]
  BY DEF IntegersOn, SameExceptAt
<1>1. IsFiniteSet(T) /\ \A x \in T : f[x] = g[x] /\ f[x] \in Int
  BY <1>0, FS_Subset
<1>2. rest \in Int /\ SumFunctionOnSet(g, T) = rest
  <2> HIDE DEF T
  <2> QED BY <1>1, SumSame, SumRemove
<1>3. SumFunctionOnSet(f, S) = f[y] + rest /\ SumFunctionOnSet(g, S) = g[y] + rest
  BY <1>0, <1>2, SumRemove
<1> HIDE DEF rest
<1> QED
  BY <1>0, <1>2, <1>3

-----------------------------------------------------------------------------
(* Sums over initial intervals.                                            *)

\* The sum up to k grows with k.
LEMMA SumUpTo ==
    ASSUME NEW L \in Nat, NEW f, \A i \in 1 .. L : f[i] \in Nat
    PROVE  /\ SumFunctionOnSet(f, 1 .. 0) = 0
           /\ \A k \in 0 .. L : SumFunctionOnSet(f, 1 .. k) \in Nat
           /\ \A k \in 1 .. L : SumFunctionOnSet(f, 1 .. k) = SumFunctionOnSet(f, 1 .. (k - 1)) + f[k]
           /\ \A j, k \in 0 .. L : j <= k => SumFunctionOnSet(f, 1 .. j) <= SumFunctionOnSet(f, 1 .. k)
<1>1. SumFunctionOnSet(f, 1 .. 0) = 0
  BY SumEmpty, 1 .. 0 = {}
<1>2. \A k \in 0 .. L : IsFiniteSet(1 .. k) /\ \A i \in 1 .. k : f[i] \in Nat
  BY FS_Interval
<1>3. \A k \in 0 .. L : SumFunctionOnSet(f, 1 .. k) \in Nat
  BY <1>2, SumNat
<1>4. ASSUME NEW k \in 1 .. L
      PROVE  SumFunctionOnSet(f, 1 .. k) = SumFunctionOnSet(f, 1 .. (k - 1)) + f[k]
  <2> DEFINE P == 1 .. (k - 1)
  <2>1. 1 .. k = P \cup {k} /\ k \notin P /\ k - 1 \in 0 .. L
    OBVIOUS
  <2>2. IsFiniteSet(P) /\ \A i \in P : f[i] \in Int
    BY <1>2, <2>1
  <2>3. f[k] \in Int
    OBVIOUS
  <2>4. SumFunctionOnSet(f, P \cup {k}) = SumFunctionOnSet(f, P) + f[k]
    <3> HIDE DEF P
    <3> QED BY <2>1, <2>2, <2>3, SumAdd
  <2>5. SumFunctionOnSet(f, 1 .. k) = SumFunctionOnSet(f, P \cup {k})
    BY <2>1
  <2> QED
    BY <2>4, <2>5
<1>5. ASSUME NEW j \in 0 .. L, NEW k \in 0 .. L, j <= k
      PROVE  SumFunctionOnSet(f, 1 .. j) <= SumFunctionOnSet(f, 1 .. k)
  <2>1. 1 .. j \in SUBSET (1 .. k)
    BY <1>5
  <2> QED
    BY <1>2, <2>1, SumSubset
<1> QED
  BY <1>1, <1>3, <1>4, <1>5

\* A function with one more value.
LEMMA SumOneMore ==
    ASSUME NEW L \in Nat, NEW f, NEW g,
           \A i \in 1 .. L : f[i] \in Nat /\ g[i] = f[i], g[L + 1] \in Nat
    PROVE  SumFunctionOnSet(g, 1 .. (L + 1)) = SumFunctionOnSet(f, 1 .. L) + g[L + 1]
<1> DEFINE P == 1 .. L
<1>1. IsFiniteSet(P) /\ L + 1 \notin P /\ \A i \in P : f[i] \in Int /\ g[i] \in Int /\ g[i] = f[i]
  <2>1. IsFiniteSet(P)
    BY FS_Interval
  <2> QED BY <2>1
<1>2. SumFunctionOnSet(f, P) = SumFunctionOnSet(g, P)
  <2> HIDE DEF P
  <2> QED BY <1>1, SumSame
<1>3. SumFunctionOnSet(g, P \cup {L + 1}) = SumFunctionOnSet(g, P) + g[L + 1]
  <2> HIDE DEF P
  <2> QED BY <1>1, SumAdd
<1>4. 1 .. (L + 1) = P \cup {L + 1}
  OBVIOUS
<1>5. SumFunctionOnSet(g, 1 .. (L + 1)) = SumFunctionOnSet(g, P \cup {L + 1})
  BY <1>4
<1> QED
  BY <1>2, <1>3, <1>5

NaturalsTo(f, n) == \A i \in 1 .. n : f[i] \in Nat
SumTo(f, n) == SumFunctionOnSet(f, 1 .. n)
TakesOver(g, n, f, k) == \A i \in 2 .. n : g[i] = f[k + i]

\* A function that takes over the values of f after the k first, all but the
\* first of them.
LEMMA SumShifted ==
    ASSUME NEW k \in Nat, NEW M \in Nat, NEW f, NEW g,
           NaturalsTo(f, k + M), NaturalsTo(g, M), TakesOver(g, M, f, k)
    PROVE  /\ M = 0 => SumTo(g, M) = 0
           /\ M > 0 => SumTo(g, M) = SumTo(f, k + M) - SumTo(f, k) - (f[k + 1] - g[1])
<1>h. /\ \A i \in 1 .. (k + M) : f[i] \in Nat
      /\ \A i \in 1 .. M : g[i] \in Nat
      /\ \A i \in 2 .. M : g[i] = f[k + i]
  BY DEF NaturalsTo, TakesOver
<1> DEFINE F(m) == SumFunctionOnSet(f, 1 .. m)
           G(m) == SumFunctionOnSet(g, 1 .. m)
           c == f[k + 1] - g[1]
           Good(m) == G(m) = F(k + m) - F(k) - (IF m = 0 THEN 0 ELSE c)
           B == {m \in Nat : m <= M /\ ~Good(m)}
<1>0. \A i \in 1 .. M : c \in Int /\ g[i] = f[k + i] - (IF i = 1 THEN c ELSE 0)
  <2> TAKE i \in 1 .. M
  <2>1. k + i \in 1 .. (k + M) /\ k + 1 \in 1 .. (k + M) /\ 1 \in 1 .. M
    OBVIOUS
  <2>2. g[1] \in Nat /\ f[k + 1] \in Nat /\ f[k + i] \in Nat
    BY <1>h, <2>1
  <2>3. i # 1 => g[i] = f[k + i]
    BY <1>h
  <2> QED BY <2>2, <2>3
<1>1. /\ F(0) = 0
      /\ \A m \in 0 .. (k + M) : F(m) \in Nat
      /\ \A m \in 1 .. (k + M) : F(m) = F(m - 1) + f[m]
  BY <1>h, SumUpTo, k + M \in Nat
<1>2. /\ G(0) = 0
      /\ \A m \in 0 .. M : G(m) \in Nat
      /\ \A m \in 1 .. M : G(m) = G(m - 1) + g[m]
  BY <1>h, SumUpTo
<1>3. ASSUME B # {} PROVE FALSE
  <2>1. B \in SUBSET Nat
    OBVIOUS
  <2>2. PICK m \in B : \A l \in B : m <= l
    <3> HIDE DEF B
    <3> QED BY <1>3, <2>1, LeastNatural
  <2>3. m \in Nat /\ m <= M /\ ~Good(m)
    OBVIOUS
  <2>4. CASE m = 0
    <3>1. F(k) \in Nat /\ k + 0 = k
      BY <1>1
    <3>2. G(0) = F(k + 0) - F(k) - 0
      <4> HIDE DEF F, G
      <4> QED BY <1>2, <3>1
    <3> QED
      BY <2>3, <2>4, <3>2
  <2>5. CASE m > 0
    <3>1. m - 1 \in Nat /\ m - 1 <= M /\ ~(m <= m - 1)
      BY <2>3, <2>5
    <3>2. Good(m - 1)
      BY <2>2, <3>1
    <3> DEFINE a == G(m - 1)
               b == F(k + m - 1)
               d == f[k + m]
               e == F(k)
    <3>3. m \in 1 .. M /\ k + m \in 1 .. (k + M) /\ k + m - 1 \in 0 .. (k + M) /\ m - 1 \in 0 .. M
          /\ k \in 0 .. (k + M) /\ 1 \in 1 .. M /\ k + (m - 1) = k + m - 1
      BY <2>3, <2>5
    <3>4. a \in Int /\ b \in Int /\ d \in Int /\ e \in Int /\ c \in Int
      <4> HIDE DEF F, G, c
      <4> QED BY <1>h, <1>0, <1>1, <1>2, <3>3
    <3>5. G(m) = a + g[m]
      <4> HIDE DEF F, G, c
      <4> QED BY <1>2, <3>3
    <3>6. F(k + m) = b + d
      <4> HIDE DEF F, G, c
      <4> QED BY <1>1, <3>3
    <3>7. g[m] = IF m = 1 THEN d - c ELSE d
      <4> HIDE DEF F, G, c
      <4> QED BY <1>0, <3>3, <3>4
    <3>8. a = IF m = 1 THEN b - e ELSE b - e - c
      <4>1. a = b - e - (IF m - 1 = 0 THEN 0 ELSE c) /\ (m - 1 = 0 <=> m = 1)
        BY <3>2, <3>3
      <4> HIDE DEF a, b, e, c
      <4> QED BY <3>4, <4>1
    <3>9. a + g[m] = (b + d) - e - c
      <4> HIDE DEF a, b, d, e, c
      <4> QED BY <3>4, <3>7, <3>8
    <3>10. G(m) = F(k + m) - F(k) - c
      <4>1. G(m) = F(k + m) - e - c
        <5> HIDE DEF F, G, a, b, d, e, c
        <5> QED BY <3>5, <3>6, <3>9
      <4> QED BY <4>1
    <3> QED
      BY <2>3, <2>5, <3>10
  <2> QED
    BY <2>3, <2>4, <2>5
<1>4. Good(M)
  <2>1. M \in Nat /\ M <= M
    OBVIOUS
  <2>2. M \notin B
    BY <1>3
  <2> HIDE DEF Good
  <2> QED BY <2>1, <2>2
<1>5. F(k + M) \in Nat /\ F(k) \in Nat
  BY <1>1
<1> QED
  BY <1>2, <1>4, <1>5 DEF SumTo
=============================================================================
