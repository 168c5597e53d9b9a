------------------------- MODULE PaperLedgerProofs -------------------------
(***************************************************************************)
(* Proofs about PaperLedger, for any tickers, prices, legacy positions and *)
(* bounds.  The first part is about the operators: what the FIFO walk      *)
(* leaves of a sequence of lots.                                           *)
(***************************************************************************)
EXTENDS PaperLedger, SumTheorems, SequenceTheorems

-----------------------------------------------------------------------------
(* Arithmetic.                                                             *)

LEMMA DivNat == ASSUME NEW a \in Nat, NEW b \in Nat \ {0} PROVE a \div b \in Nat
OBVIOUS

LEMMA DivExact == ASSUME NEW a \in Nat, NEW b \in Nat \ {0} PROVE (a * b) \div b = a
<1> DEFINE q == (a * b) \div b
<1>1. q \in Int /\ a * b = b * q + ((a * b) % b) /\ (a * b) % b \in 0 .. (b - 1)
  BY SMT
<1> QED
  BY <1>1, SMT

LEMMA TimesNat == ASSUME NEW a \in Nat, NEW b \in Nat PROVE a * b \in Nat
OBVIOUS

-----------------------------------------------------------------------------
(* Sequences of open lots.                                                 *)

LEMMA LotsAre ==
    ASSUME NEW s \in Seq(Lots)
    PROVE  /\ Len(s) \in Nat /\ DOMAIN s = 1 .. Len(s) /\ IsFiniteSet(DOMAIN s)
           /\ \A i \in 1 .. Len(s) : s[i] \in Lots /\ s[i].qty \in Nat \ {0} /\ s[i].price \in Nat
           /\ \A i \in 1 .. Len(s) : Quantities(s)[i] = s[i].qty
           /\ Shares(s) = SumFunctionOnSet(Quantities(s), 1 .. Len(s))
<1>1. Len(s) \in Nat /\ DOMAIN s = 1 .. Len(s) /\ \A i \in 1 .. Len(s) : s[i] \in Lots
  BY LenProperties, ElementOfSeq
<1>2. IsFiniteSet(DOMAIN s)
  BY <1>1, FS_Interval
<1>3. \A i \in 1 .. Len(s) : Quantities(s)[i] = s[i].qty
  BY <1>1 DEF Quantities
<1> QED
  BY <1>1, <1>2, <1>3 DEF Lots, Shares

LEMMA SharesAndCost == ASSUME NEW s \in Seq(Lots) PROVE Shares(s) \in Nat /\ Cost(s) \in Nat
<1> DEFINE f == [i \in DOMAIN s |-> s[i].qty * s[i].price]
<1>1. \A i \in DOMAIN s : Quantities(s)[i] \in Nat /\ f[i] \in Nat
  BY LotsAre, TimesNat
<1>2. SumFunctionOnSet(Quantities(s), DOMAIN s) \in Nat
  BY <1>1, LotsAre, SumNat
<1>3. SumFunctionOnSet(f, DOMAIN s) \in Nat
  <2> HIDE DEF f
  <2> QED BY <1>1, LotsAre, SumNat
<1> QED
  BY <1>2, <1>3 DEF Shares, Cost

LEMMA OneMoreLot ==
    ASSUME NEW s \in Seq(Lots), NEW l \in Lots
    PROVE  /\ Append(s, l) \in Seq(Lots)
           /\ Shares(Append(s, l)) = Shares(s) + l.qty
           /\ Cost(Append(s, l)) = Cost(s) + l.qty * l.price
<1> DEFINE L == Len(s)
           u == Append(s, l)
           c == [i \in DOMAIN s |-> s[i].qty * s[i].price]
           d == [i \in DOMAIN u |-> u[i].qty * u[i].price]
<1>1. /\ u \in Seq(Lots) /\ L \in Nat /\ Len(u) = L + 1
      /\ DOMAIN s = 1 .. L /\ DOMAIN u = 1 .. (L + 1)
      /\ \A i \in 1 .. L : u[i] = s[i]
      /\ u[L + 1] = l
  BY AppendProperties, LenProperties
<1>2. /\ \A i \in 1 .. (L + 1) : Quantities(u)[i] \in Nat /\ d[i] \in Nat
      /\ \A i \in 1 .. L : Quantities(u)[i] = Quantities(s)[i] /\ d[i] = c[i]
      /\ Quantities(u)[L + 1] = l.qty /\ d[L + 1] = l.qty * l.price
  <2>1. \A i \in 1 .. (L + 1) : u[i].qty \in Nat /\ u[i].price \in Nat
    BY <1>1, LotsAre
  <2> HIDE DEF u
  <2> QED BY <1>1, <2>1, TimesNat DEF Quantities
<1>3. /\ SumFunctionOnSet(Quantities(u), 1 .. (L + 1)) = SumFunctionOnSet(Quantities(s), 1 .. L) + l.qty
      /\ SumFunctionOnSet(d, 1 .. (L + 1)) = SumFunctionOnSet(c, 1 .. L) + l.qty * l.price
  <2> DEFINE f == Quantities(s)
             g == Quantities(u)
  <2>1. L \in Nat /\ L + 1 \in 1 .. (L + 1) /\ \A i \in 1 .. L : i \in 1 .. (L + 1)
    BY <1>1
  <2> HIDE DEF u, c, d, f, g, L
  <2>2. /\ \A i \in 1 .. L : f[i] \in Nat /\ g[i] = f[i] /\ c[i] \in Nat /\ d[i] = c[i]
        /\ g[L + 1] \in Nat /\ g[L + 1] = l.qty /\ d[L + 1] \in Nat /\ d[L + 1] = l.qty * l.price
    BY <1>2, <2>1 DEF f, g
  <2>3. SumFunctionOnSet(g, 1 .. (L + 1)) = SumFunctionOnSet(f, 1 .. L) + g[L + 1]
    BY <2>1, <2>2, SumOneMore
  <2>4. SumFunctionOnSet(d, 1 .. (L + 1)) = SumFunctionOnSet(c, 1 .. L) + d[L + 1]
    BY <2>1, <2>2, SumOneMore
  <2> QED BY <2>2, <2>3, <2>4 DEF f, g
<1> QED
  BY <1>1, <1>3 DEF Shares, Cost

\* Lots have shares, so a sequence without shares is empty and costs nothing.
LEMMA NoSharesNoCost ==
    ASSUME NEW s \in Seq(Lots), Shares(s) = 0
    PROVE  Cost(s) = 0
<1> DEFINE f == Quantities(s)
           S == DOMAIN s
<1>1. IsFiniteSet(S) /\ (\A i \in S : f[i] \in Nat \ {0}) /\ SumFunctionOnSet(f, S) = 0
  BY LotsAre DEF Shares
<1>2. S = {}
  <2> SUFFICES ASSUME NEW i \in S PROVE FALSE
    OBVIOUS
  <2> HIDE DEF f, S
  <2>1. SumFunctionOnSet(f, S) = f[i] + SumFunctionOnSet(f, S \ {i})
    BY <1>1, SumRemove
  <2>2. SumFunctionOnSet(f, S \ {i}) \in Nat
    BY <1>1, SumNat, FS_Subset, S \ {i} \in SUBSET S
  <2> QED
    BY <1>1, <2>1, <2>2
<1> QED
  BY <1>2, SumEmpty DEF Cost

-----------------------------------------------------------------------------
(* The FIFO walk of a sell.                                                *)

Prefix(s, k) == SumFunctionOnSet(Quantities(s), 1 .. k)

LEMMA PrefixGrows ==
    ASSUME NEW s \in Seq(Lots)
    PROVE  /\ Prefix(s, 0) = 0 /\ Prefix(s, Len(s)) = Shares(s)
           /\ \A k \in 0 .. Len(s) : Prefix(s, k) \in Nat
           /\ \A k \in 1 .. Len(s) : Prefix(s, k) = Prefix(s, k - 1) + s[k].qty
           /\ \A j, k \in 0 .. Len(s) : j <= k => Prefix(s, j) <= Prefix(s, k)
<1> DEFINE f == Quantities(s)
           L == Len(s)
<1>1. L \in Nat /\ \A i \in 1 .. L : f[i] \in Nat /\ f[i] = s[i].qty
  BY LotsAre
<1>2. /\ SumFunctionOnSet(f, 1 .. 0) = 0
      /\ \A k \in 0 .. L : SumFunctionOnSet(f, 1 .. k) \in Nat
      /\ \A k \in 1 .. L : SumFunctionOnSet(f, 1 .. k) = SumFunctionOnSet(f, 1 .. (k - 1)) + f[k]
      /\ \A j, k \in 0 .. L : j <= k => SumFunctionOnSet(f, 1 .. j) <= SumFunctionOnSet(f, 1 .. k)
  <2> HIDE DEF f, L
  <2> QED BY <1>1, SumUpTo
<1> QED
  BY <1>1, <1>2, LotsAre DEF Prefix

\* A sell closes the oldest lots whole, as many as fit in its shares, takes the
\* rest of its shares off the next one, and leaves the others alone.
LEMMA OldestFirst ==
    ASSUME NEW s \in Seq(Lots), NEW n \in Nat
    PROVE  LET k == UsedUp(s, n)
           IN  /\ k \in 0 .. Len(s) /\ Prefix(s, k) <= n
               /\ k < Len(s) => n < Prefix(s, k + 1)
               /\ \A i \in 1 .. Len(s) :
                     Closed(s, i, n) = IF i <= k THEN s[i].qty
                                       ELSE IF i = k + 1 THEN n - Prefix(s, k) ELSE 0
<1> DEFINE L == Len(s)
           P(k) == Prefix(s, k)
           B == {m \in Nat : m = L \/ (m < L /\ n < P(m + 1))}
<1>1. /\ L \in Nat /\ DOMAIN s = 1 .. L /\ \A i \in 1 .. L : s[i].qty \in Nat \ {0}
      /\ P(0) = 0
      /\ \A k \in 0 .. L : P(k) \in Nat
      /\ \A k \in 1 .. L : P(k) = P(k - 1) + s[k].qty
      /\ \A j, k \in 0 .. L : j <= k => P(j) <= P(k)
  BY LotsAre, PrefixGrows
<1>2. PICK k \in B : \A m \in B : k <= m
  <2>1. B \in SUBSET Nat /\ L \in B
    BY <1>1
  <2> HIDE DEF B
  <2> QED BY <2>1, LeastNatural
<1>3. k \in 0 .. L /\ (k < L => n < P(k + 1)) /\ \A m \in 0 .. (k - 1) : ~(n < P(m + 1))
  <2> HIDE DEF P, L
  <2>1. k \in Nat /\ (k = L \/ (k < L /\ n < P(k + 1)))
    BY <1>2
  <2>2. ASSUME NEW m \in 0 .. (k - 1) PROVE ~(n < P(m + 1))
    <3>1. m \in Nat /\ m < k /\ m < L /\ ~(k <= m)
      BY <1>1, <2>1
    <3> QED BY <1>2, <3>1
  <2> QED BY <1>1, <2>1, <2>2
<1>4. P(k) <= n
  <2>1. CASE k = 0
    BY <1>1, <2>1
  <2>2. CASE k > 0
    <3>1. k - 1 \in 0 .. (k - 1) /\ (k - 1) + 1 = k
      BY <1>3, <2>2
    <3>2. ~(n < P(k))
      <4> HIDE DEF P
      <4> QED BY <1>3, <3>1
    <3>3. P(k) \in Nat
      BY <1>1, <1>3
    <3> HIDE DEF P
    <3> QED BY <3>2, <3>3
  <2> QED BY <1>3, <2>1, <2>2
<1>5. \A i \in 1 .. L : Closed(s, i, n) = IF n - P(i - 1) <= 0 THEN 0
                         ELSE IF n - P(i - 1) < s[i].qty THEN n - P(i - 1) ELSE s[i].qty
  BY DEF Closed, Prefix
<1>6. ASSUME NEW i \in 1 .. L
      PROVE  Closed(s, i, n) = IF i <= k THEN s[i].qty ELSE IF i = k + 1 THEN n - P(k) ELSE 0
  <2> HIDE DEF P, L, B
  <2>0. /\ i - 1 \in 0 .. L /\ i \in 0 .. L /\ P(i - 1) \in Nat /\ P(i) \in Nat /\ P(k) \in Nat
        /\ s[i].qty \in Nat \ {0} /\ P(i) = P(i - 1) + s[i].qty
    BY <1>1, <1>3
  <2>1. CASE i <= k
    <3>1. P(i) <= P(k)
      BY <1>1, <1>3, <2>0, <2>1
    <3>2. n - P(i - 1) >= s[i].qty
      BY <1>4, <2>0, <3>1
    <3> QED BY <1>5, <2>0, <2>1, <3>2
  <2>2. CASE i = k + 1
    <3>1. i - 1 = k /\ n < P(i)
      BY <1>1, <1>3, <2>2
    <3>2. n - P(i - 1) >= 0 /\ n - P(i - 1) < s[i].qty
      BY <1>4, <2>0, <3>1
    <3> QED BY <1>5, <2>0, <2>2, <3>1, <3>2
  <2>3. CASE i > k + 1
    <3>1. k < L /\ k + 1 \in 0 .. L /\ k + 1 <= i - 1
      BY <1>1, <1>3, <2>3
    <3>2. n < P(k + 1) /\ P(k + 1) <= P(i - 1) /\ P(k + 1) \in Nat
      BY <1>1, <1>3, <2>0, <3>1
    <3>3. n - P(i - 1) <= 0
      BY <2>0, <3>2
    <3> QED BY <1>3, <1>5, <2>3, <3>3
  <2> QED BY <1>1, <1>3, <2>1, <2>2, <2>3
<1>7. UsedUp(s, n) = k
  <2>1. ASSUME NEW i \in 1 .. L PROVE (Closed(s, i, n) = s[i].qty) <=> i \in 1 .. k
    <3> HIDE DEF P, L, B
    <3>1. CASE i <= k
      BY <1>6, <3>1, <1>3
    <3>2. CASE i = k + 1
      <4>1. Closed(s, i, n) = n - P(k) /\ n < P(k + 1) /\ P(k + 1) = P(k) + s[i].qty
        <5>1. k < L /\ k + 1 \in 1 .. L /\ (k + 1) - 1 = k
          BY <1>1, <1>3, <3>2
        <5> QED BY <1>1, <1>3, <1>6, <3>2, <5>1
      <4> QED BY <1>1, <1>3, <3>2, <4>1
    <3>3. CASE i > k + 1
      <4>1. s[i].qty \in Nat \ {0} /\ k \in Nat /\ i \in Nat
        BY <1>1, <1>3
      <4>2. Closed(s, i, n) = 0
        BY <1>6, <3>3, <4>1
      <4> QED BY <3>3, <4>1, <4>2
    <3> QED BY <1>1, <1>3, <3>1, <3>2, <3>3
  <2>2. {i \in DOMAIN s : Closed(s, i, n) = s[i].qty} = 1 .. k
    <3>1. 1 .. k \subseteq 1 .. L
      <4> HIDE DEF P, B, L
      <4>1. L \in Nat /\ k \in Nat /\ k <= L
        BY <1>1, <1>3
      <4> QED BY <4>1
    <3>2. {i \in 1 .. L : Closed(s, i, n) = s[i].qty} = 1 .. k
      <4> HIDE DEF P, B, L
      <4> QED BY <2>1, <3>1
    <3>3. DOMAIN s = 1 .. L
      BY <1>1
    <3> HIDE DEF P, B, L
    <3> QED BY <3>2, <3>3
  <2>3. Cardinality(1 .. k) = k
    <3>1. k \in Nat
      BY <1>3
    <3> HIDE DEF P, B, L
    <3> QED BY <3>1, FS_Interval, 1 \in Int
  <2> QED
    BY <2>2, <2>3 DEF UsedUp
<1> QED
  BY <1>3, <1>4, <1>6, <1>7

\* What is left after a sell: well-formed lots, whose shares are those the
\* position keeps when the lots covered it.
LEMMA LotsLeft ==
    ASSUME NEW s \in Seq(Lots), NEW n \in Nat
    PROVE  /\ Left(s, n) \in Seq(Lots)
           /\ Shares(Left(s, n)) = IF n >= Shares(s) THEN 0 ELSE Shares(s) - n
<1> DEFINE L == Len(s)
           k == UsedUp(s, n)
           c == n - Prefix(s, k)
           u == Left(s, n)
           f == Quantities(s)
           g == Quantities(u)
<1>1. /\ L \in Nat /\ k \in 0 .. L /\ Prefix(s, k) \in Nat /\ Prefix(s, k) <= n /\ c \in Nat
      /\ L - k \in Nat
      /\ k < L => n < Prefix(s, k + 1)
      /\ \A i \in 1 .. L : Closed(s, i, n) = IF i <= k THEN s[i].qty ELSE IF i = k + 1 THEN c ELSE 0
  <2>1. L \in Nat /\ k \in 0 .. L /\ Prefix(s, k) <= n /\ Prefix(s, k) \in Nat
    BY LotsAre, OldestFirst, PrefixGrows
  <2>2. c \in Nat /\ L - k \in Nat
    <3> HIDE DEF k, L
    <3> QED BY <2>1
  <2> QED BY <2>1, <2>2, OldestFirst
<1>2. \A i \in 1 .. L : s[i] \in Lots /\ f[i] = s[i].qty /\ f[i] \in Nat
  BY LotsAre
<1>3. \A i \in 1 .. (L - k) : /\ k + i \in 1 .. L
                              /\ Closed(s, k + i, n) = IF i = 1 THEN c ELSE 0
  <2> TAKE i \in 1 .. (L - k)
  <2>1. k + i \in 1 .. L /\ ~(k + i <= k) /\ (k + i = k + 1 <=> i = 1)
    <3> HIDE DEF k, L, c
    <3> QED BY <1>1
  <2> HIDE DEF k, L, c
  <2> QED BY <1>1, <2>1
<1>4. \A i \in 1 .. (L - k) :
        /\ u[i] \in Lots
        /\ u[i].qty = f[k + i] - (IF i = 1 THEN c ELSE 0)
  <2> TAKE i \in 1 .. (L - k)
  <2>0. k + i = i + k /\ k + i \in 1 .. L
    <3> HIDE DEF k, L
    <3> QED BY <1>1, <1>3
  <2>1. u[i] = [s[k + i] EXCEPT !.qty = @ - Closed(s, k + i, n)]
    <3>1. u[i] = [s[i + k] EXCEPT !.qty = @ - Closed(s, i + k, n)]
      BY DEF Left
    <3> QED BY <2>0, <3>1
  <2>2. s[k + i] \in [qty : Nat \ {0}, price : Nat]
    BY <1>2, <2>0 DEF Lots
  <2>3. u[i] = [qty |-> s[k + i].qty - Closed(s, k + i, n), price |-> s[k + i].price]
    <3> HIDE DEF u, k
    <3> QED BY <2>1, <2>2
  <2>4. s[k + i].qty - Closed(s, k + i, n) \in Nat \ {0}
    <3>1. CASE i = 1
      <4>1. k < L /\ k + 1 \in 1 .. L /\ (k + 1) - 1 = k
        <5> HIDE DEF k, L
        <5> QED BY <1>1, <2>0, <3>1
      <4>2. n < Prefix(s, k + 1) /\ Prefix(s, k + 1) = Prefix(s, k) + s[k + 1].qty
        BY <1>1, <4>1, PrefixGrows
      <4>3. Closed(s, k + 1, n) = n - Prefix(s, k)
        BY <1>3, <3>1
      <4>4. s[k + 1].qty \in Nat
        BY <2>2, <3>1
      <4> HIDE DEF k, L, c, u, f, g
      <4> QED BY <1>1, <3>1, <4>2, <4>3, <4>4
    <3>2. CASE i # 1
      <4>1. Closed(s, k + i, n) = 0
        BY <1>3, <3>2
      <4> HIDE DEF k, L, c, u, f, g
      <4> QED BY <2>2, <4>1
    <3> QED BY <3>1, <3>2
  <2>5. f[k + i] = s[k + i].qty /\ Closed(s, k + i, n) = IF i = 1 THEN c ELSE 0
    BY <1>2, <1>3, <2>0
  <2> HIDE DEF k, L, c, u, f, g
  <2> QED BY <2>2, <2>3, <2>4, <2>5 DEF Lots
<1>5. u \in [1 .. (L - k) -> Lots]
  <2>1. u = [i \in 1 .. (L - k) |-> u[i]]
    BY DEF Left
  <2> HIDE DEF u, k, L
  <2> QED BY <1>4, <2>1
<1>6. u \in Seq(Lots)
  <2> HIDE DEF u, k, L
  <2> QED BY <1>1, <1>5, SeqDef
<1>7. Len(u) = L - k
  <2>1. DOMAIN u = 1 .. (L - k) /\ DOMAIN u = 1 .. Len(u) /\ Len(u) \in Nat
    BY <1>5, <1>6, LotsAre
  <2> HIDE DEF u, k, L
  <2> QED BY <1>1, <2>1
<1>8. \A i \in 1 .. (L - k) : g[i] \in Nat /\ g[i] = f[k + i] - (IF i = 1 THEN c ELSE 0)
  BY <1>4, <1>6, <1>7, LotsAre
<1>9. /\ k = L => SumFunctionOnSet(g, 1 .. (L - k)) = 0
      /\ k < L => SumFunctionOnSet(g, 1 .. (L - k)) =
                    SumFunctionOnSet(f, 1 .. L) - SumFunctionOnSet(f, 1 .. k) - c
  <2>1. L \in Nat /\ k \in 0 .. L /\ \A i \in 1 .. L : f[i] \in Nat
    BY <1>1, <1>2
  <2>2. \A i \in 1 .. (L - k) : g[i] \in Nat
    BY <1>8
  <2>3. k < L => f[k + 1] - g[1] = c
    <3> HAVE k < L
    <3>1. 1 \in 1 .. (L - k) /\ k + 1 \in 1 .. L
      <4> HIDE DEF k, L
      <4> QED BY <2>1
    <3> HIDE DEF g, f, k, L
    <3>2. g[1] = f[k + 1] - c /\ f[k + 1] \in Nat /\ c \in Nat
      BY <1>1, <1>8, <2>1, <3>1
    <3> HIDE DEF c
    <3> QED BY <3>2
  <2>4. \A i \in 2 .. (L - k) : g[i] = f[k + i]
    <3> TAKE i \in 2 .. (L - k)
    <3>1. i \in 1 .. (L - k) /\ i # 1 /\ k + i \in 1 .. L
      <4> HIDE DEF g, f, k, L, c
      <4> QED BY <2>1
    <3> HIDE DEF g, f, k, L, c
    <3>2. f[k + i] \in Nat /\ g[i] = f[k + i] - 0
      BY <1>8, <2>1, <3>1
    <3> QED BY <3>2
  <2>5. L - k \in Nat /\ k + (L - k) = L /\ (k = L => L - k = 0) /\ (k < L => L - k > 0)
    <3> HIDE DEF k, L
    <3> QED BY <2>1
  <2> DEFINE M == L - k
  <2>6. k \in Nat /\ M \in Nat /\ k + M = L /\ (k = L => M = 0) /\ (k < L => M > 0)
    BY <2>1, <2>5
  <2>7. NaturalsTo(g, M) /\ TakesOver(g, M, f, k) /\ NaturalsTo(f, k + M)
    <3> HIDE DEF g, f, k, L
    <3> QED BY <2>1, <2>2, <2>4, <2>5 DEF NaturalsTo, TakesOver
  <2> HIDE DEF g, f, k, c, M, L
  <2>8. /\ M = 0 => SumTo(g, M) = 0
        /\ M > 0 => SumTo(g, M) = SumTo(f, k + M) - SumTo(f, k) - (f[k + 1] - g[1])
    BY <2>6, <2>7, SumShifted
  <2>9. /\ k = L => SumTo(g, M) = 0
        /\ k < L => SumTo(g, M) = SumTo(f, L) - SumTo(f, k) - c
    BY <2>3, <2>6, <2>8
  <2> QED BY <2>9 DEF M, SumTo
<1>10. Shares(u) = IF L = k THEN 0 ELSE Shares(s) - Prefix(s, k) - c
  <2>1. Shares(u) = SumFunctionOnSet(g, 1 .. (L - k))
    BY <1>6, <1>7, LotsAre
  <2>2. Shares(s) = SumFunctionOnSet(f, 1 .. L) /\ Prefix(s, k) = SumFunctionOnSet(f, 1 .. k)
    BY LotsAre DEF Prefix
  <2>3. L = k \/ k < L
    <3> HIDE DEF k, L
    <3> QED BY <1>1
  <2> HIDE DEF u, k, L, f, g
  <2> QED BY <1>9, <2>1, <2>2, <2>3
<1>11. CASE L = k
  <2>1. Prefix(s, k) = Shares(s) /\ Shares(s) \in Nat
    BY <1>11, PrefixGrows, SharesAndCost
  <2>2. Shares(u) = 0 /\ n >= Shares(s)
    <3> HIDE DEF k, L, u, f, g
    <3> QED BY <1>1, <1>10, <1>11, <2>1
  <2> QED BY <1>6, <2>2
<1>12. CASE k < L
  <2>1. Prefix(s, k + 1) \in Nat /\ Prefix(s, k + 1) <= Prefix(s, L) /\ Prefix(s, L) = Shares(s)
    <3>1. k + 1 \in 0 .. L /\ L \in 0 .. L /\ k + 1 <= L
      BY <1>1, <1>12
    <3> QED BY <3>1, PrefixGrows
  <2>2. n < Shares(s) /\ Shares(s) \in Nat
    BY <1>1, <1>12, <2>1, SharesAndCost
  <2>3. Shares(u) = Shares(s) - n /\ ~(n >= Shares(s))
    <3> HIDE DEF k, L, u, f, g
    <3> QED BY <1>1, <1>10, <1>12, <2>2
  <2> QED BY <1>6, <2>3
<1> QED
  BY <1>1, <1>6, <1>11, <1>12

\* A sell of all the shares the lots have leaves no cost behind.
LEMMA CostLeft ==
    ASSUME NEW s \in Seq(Lots), NEW n \in Nat
    PROVE  /\ Shares(Left(s, n)) \in Nat /\ Cost(Left(s, n)) \in Nat
           /\ n >= Shares(s) => Cost(Left(s, n)) = 0
<1>1. Left(s, n) \in Seq(Lots) /\ (n >= Shares(s) => Shares(Left(s, n)) = 0)
  BY LotsLeft
<1>2. Shares(Left(s, n)) \in Nat /\ Cost(Left(s, n)) \in Nat
  BY <1>1, SharesAndCost
<1> QED
  BY <1>1, <1>2, NoSharesNoCost

\* The average a partial sell writes: when the lots covered the position, the
\* cost of the lots that are left.
LEMMA BasisIsCost ==
    ASSUME NEW s \in Seq(Lots), NEW n \in Nat, NEW held \in Nat, NEW basis \in Nat, n < held
    PROVE  /\ BasisAfter(s, n, held, basis) \in Nat
           /\ Shares(s) = held => BasisAfter(s, n, held, basis) = Cost(Left(s, n))
<1> DEFINE m == held - n
           shares == Shares(Left(s, n))
           cost == Cost(Left(s, n))
<1>1. m \in Nat \ {0} /\ held \in Nat \ {0} /\ shares \in Nat /\ cost \in Nat
  <2>1. m \in Nat \ {0} /\ held \in Nat \ {0}
    OBVIOUS
  <2>2. shares \in Nat /\ cost \in Nat
    BY CostLeft
  <2> QED BY <2>1, <2>2
<1>2. BasisAfter(s, n, held, basis) = IF shares = 0 THEN (basis * m) \div held
                                                   ELSE (cost * m) \div shares
  BY DEF BasisAfter
<1>3. Shares(s) = held => shares = m
  BY LotsLeft, SharesAndCost
<1> HIDE DEF m, shares, cost
<1>4. basis * m \in Nat /\ cost * m \in Nat
  BY <1>1, TimesNat
<1>5. (basis * m) \div held \in Nat /\ (shares # 0 => (cost * m) \div shares \in Nat)
  BY <1>1, <1>4, DivNat
<1>6. shares = m => (cost * m) \div shares = cost
  BY <1>1, DivExact
<1> QED
  BY <1>1, <1>2, <1>3, <1>5, <1>6 DEF cost

\* What the shares sold had cost, when the lots covered the position.
LEMMA CostIsConserved ==
    ASSUME NEW s \in Seq(Lots), NEW n \in Nat, NEW held \in Nat \ {0}, NEW basis \in Nat,
           n <= held, Shares(s) = held
    PROVE  CostOfSold(s, n, held, basis) = Cost(s) - Cost(Left(s, n))
<1>1. Unmatched(s, n) = 0
  BY DEF Unmatched
<1>2. (0 * basis) \div held = 0
  BY SMT
<1>3. Cost(s) \in Nat /\ Cost(Left(s, n)) \in Nat
  BY SharesAndCost, CostLeft
<1> QED
  BY <1>1, <1>2, <1>3 DEF CostOfSold

-----------------------------------------------------------------------------
(* The books.                                                              *)

\* The inductive invariant.  A sell writes its position from what it read, so
\* the call and the position must still agree when its transaction runs; and
\* what the operator verified must still hold when the bot is promoted.
CallTracks ==
    call # Idle =>
        /\ call.qty > 0
        /\ call.side = "SELL" =>
             /\ call.held = position[call.ticker].qty
             /\ call.basis = position[call.ticker].basis
             /\ call.qty <= call.held

VerifiedBooksMatch == promoting \/ mode = "ENFORCE" => \A t \in Tickers : Matches(t)

IInv == TypeOK /\ LotsWithinPosition /\ CallTracks /\ VerifiedBooksMatch

\* The ticker of a call has a book with these numbers.
LEMMA CalledBook ==
    ASSUME IInv, call # Idle
    PROVE  /\ call.ticker \in Tickers /\ call.qty \in Nat \ {0} /\ call.price \in Nat
           /\ call.held \in Nat /\ call.basis \in Nat
           /\ call.qty * call.price \in Nat
           /\ call.side \in {"BUY", "SELL"} /\ call.cycle \in Cycles \cup {NoCycle}
           /\ \A t \in Tickers : /\ position[t] \in [qty : Nat, basis : Nat]
                                /\ lots[t] \in Seq(Lots)
                                /\ Shares(lots[t]) \in Nat /\ Cost(lots[t]) \in Nat
<1>1. /\ call.ticker \in Tickers /\ call.qty \in Nat /\ call.price \in Prices
      /\ call.held \in Nat /\ call.basis \in Nat
      /\ call.side \in {"BUY", "SELL"} /\ call.cycle \in Cycles \cup {NoCycle}
  BY DEF IInv, TypeOK, Calls
<1>2. call.qty \in Nat \ {0} /\ call.price \in Nat
  <2>1. call.qty > 0
    BY DEF IInv, CallTracks
  <2>2. call.price \in Nat
    BY <1>1, PaperAssumption
  <2> QED BY <1>1, <2>1, <2>2
<1>3. \A t \in Tickers : position[t] \in [qty : Nat, basis : Nat] /\ lots[t] \in Seq(Lots)
  BY DEF IInv, TypeOK
<1> QED
  BY <1>1, <1>2, <1>3, TimesNat, SharesAndCost

\* The total basis follows the one position that changes.
LEMMA OnePositionChanges ==
    ASSUME position \in [Tickers -> [qty : Nat, basis : Nat]],
           position' \in [Tickers -> [qty : Nat, basis : Nat]],
           NEW t \in Tickers, \A u \in Tickers \ {t} : position'[u] = position[u]
    PROVE  /\ Basis \in Int
           /\ Basis' = Basis - position[t].basis + position'[t].basis
<1> DEFINE f == [u \in Tickers |-> position[u].basis]
           g == [u \in Tickers |-> position'[u].basis]
<1>1. IsFiniteSet(Tickers)
  BY PaperAssumption
<1>2. \A u \in Tickers : f[u] \in Int /\ g[u] \in Int
  OBVIOUS
<1>3. \A u \in Tickers \ {t} : f[u] = g[u]
  OBVIOUS
<1>4. SumFunctionOnSet(f, Tickers) \in Int
  <2> HIDE DEF f, g
  <2> QED BY <1>1, <1>2, SumRemove
<1>5. SumFunctionOnSet(g, Tickers) = SumFunctionOnSet(f, Tickers) - f[t] + g[t]
  <2> HIDE DEF f, g
  <2>1. IntegersOn(f, Tickers) /\ IntegersOn(g, Tickers) /\ SameExceptAt(f, g, Tickers, t)
    BY <1>2, <1>3 DEF IntegersOn, SameExceptAt
  <2> QED BY <1>1, <2>1, SumUpdate
<1>6. f[t] = position[t].basis /\ g[t] = position'[t].basis
  OBVIOUS
<1>7. Basis = SumFunctionOnSet(f, Tickers) /\ Basis' = SumFunctionOnSet(g, Tickers)
  BY DEF Basis
<1> HIDE DEF f, g
<1> QED
  BY <1>4, <1>5, <1>6, <1>7

\* What a transaction has to do to the one book it touches.
LEMMA OneBookChanges ==
    ASSUME IInv, TypeOK', NEW t \in Tickers, UNCHANGED <<mode, promoting>>, call' = Idle,
           \A u \in Tickers \ {t} : position'[u] = position[u] /\ lots'[u] = lots[u],
           position'[t].qty - Shares(lots'[t]) >= 0,
           Matches(t) => position'[t].qty = Shares(lots'[t]) /\ position'[t].basis = Cost(lots'[t])
    PROVE  IInv'
<1>1. LotsWithinPosition'
  BY DEF IInv, LotsWithinPosition, Missing
<1>2. CallTracks'
  BY DEF CallTracks
<1>3. VerifiedBooksMatch'
  <2> SUFFICES ASSUME promoting' \/ mode' = "ENFORCE", NEW u \in Tickers PROVE Matches(u)'
    BY DEF VerifiedBooksMatch
  <2>1. \A v \in Tickers : Matches(v)
    BY DEF IInv, VerifiedBooksMatch
  <2>2. CASE u = t
    <3>1. position'[t].qty \in Nat /\ position'[t].qty = Shares(lots'[t])
          /\ position'[t].basis = Cost(lots'[t])
      BY <2>1 DEF TypeOK
    <3> QED BY <2>2, <3>1 DEF Matches, Missing
  <2>3. CASE u # t
    BY <2>1, <2>3 DEF Matches, Missing
  <2> QED BY <2>2, <2>3
<1> QED
  BY <1>1, <1>2, <1>3 DEF IInv

AllMatch == \A t \in Tickers : Matches(t)

LEMMA BoughtKeeps ==
    ASSUME IInv, Bought
    PROVE  IInv' /\ cash' + Basis' - pnl' = cash + Basis - pnl
<1> DEFINE t == call.ticker
           l == [qty |-> call.qty, price |-> call.price]
           paid == call.qty * call.price
<1>1. /\ t \in Tickers /\ l \in Lots /\ paid \in Nat /\ l.qty = call.qty /\ l.qty * l.price = paid
      /\ call.qty \in Nat
      /\ call.side \in {"BUY", "SELL"} /\ call.cycle \in Cycles \cup {NoCycle}
      /\ position[t].qty \in Nat /\ position[t].basis \in Nat
      /\ Shares(lots[t]) \in Nat /\ Cost(lots[t]) \in Nat
  BY CalledBook DEF Bought, Lots
<1>2. /\ position' = [position EXCEPT ![t] = [qty |-> position[t].qty + call.qty,
                                            basis |-> position[t].basis + paid]]
      /\ lots' = [lots EXCEPT ![t] = Append(lots[t], l)]
      /\ cash' = cash - paid /\ pnl' = pnl
      /\ fills' = fills \cup {<<call.cycle, t, call.side>>}
      /\ trades' = trades + 1
      /\ answer' = [side |-> call.side, executed |-> TRUE]
      /\ call' = Idle
      /\ UNCHANGED <<mode, migrated, promoting>>
  BY DEF Bought, Executed
<1>3. /\ position'[t] = [qty |-> position[t].qty + call.qty, basis |-> position[t].basis + paid]
      /\ lots'[t] = Append(lots[t], l)
      /\ \A u \in Tickers \ {t} : position'[u] = position[u] /\ lots'[u] = lots[u]
  BY <1>1, <1>2 DEF IInv, TypeOK
<1>4. /\ lots'[t] \in Seq(Lots)
      /\ Shares(lots'[t]) = Shares(lots[t]) + call.qty
      /\ Cost(lots'[t]) = Cost(lots[t]) + paid
  BY <1>1, <1>3, OneMoreLot DEF IInv, TypeOK
<1>5. TypeOK'
  <2>1. position' \in [Tickers -> [qty : Nat, basis : Nat]]
    <3> HIDE DEF t, paid
    <3> QED BY <1>1, <1>2 DEF IInv, TypeOK
  <2>2. lots' \in [Tickers -> Seq(Lots)]
    BY <1>1, <1>2, <1>3, <1>4 DEF IInv, TypeOK
  <2>3. cash' \in Int /\ pnl' \in Int /\ trades' \in Nat
    <3> HIDE DEF paid
    <3> QED BY <1>1, <1>2 DEF IInv, TypeOK
  <2>4. fills' \subseteq (Cycles \cup {NoCycle}) \X Tickers \X {"BUY", "SELL"}
    BY <1>1, <1>2 DEF IInv, TypeOK
  <2> QED BY <1>1, <1>2, <2>1, <2>2, <2>3, <2>4 DEF IInv, TypeOK
<1>6. IInv'
  <2>1. position'[t].qty - Shares(lots'[t]) >= 0
    <3>1. position[t].qty - Shares(lots[t]) >= 0
      BY <1>1 DEF IInv, LotsWithinPosition, Missing
    <3>2. position'[t].qty = position[t].qty + call.qty
      BY <1>3
    <3> HIDE DEF t
    <3> QED BY <1>1, <1>4, <3>1, <3>2
  <2>2. Matches(t) => position'[t].qty = Shares(lots'[t]) /\ position'[t].basis = Cost(lots'[t])
    <3>1. position'[t].qty = position[t].qty + call.qty /\ position'[t].basis = position[t].basis + paid
      BY <1>3
    <3> HIDE DEF t, paid
    <3> QED BY <1>1, <1>4, <3>1 DEF Matches, Missing
  <2> HIDE DEF t
  <2> QED BY <1>1, <1>2, <1>3, <1>5, <2>1, <2>2, OneBookChanges
<1>7. Basis \in Int /\ Basis' = Basis - position[t].basis + position'[t].basis
  <2> HIDE DEF t
  <2> QED BY <1>1, <1>3, <1>5, OnePositionChanges DEF IInv, TypeOK
<1>8. position'[t].basis = position[t].basis + paid /\ cash \in Int /\ pnl \in Int
  BY <1>3 DEF IInv, TypeOK
<1>9. cash' + Basis' - pnl' = cash + Basis - pnl
  <2> DEFINE x == position[t].basis
             y == position'[t].basis
  <2>1. x \in Int /\ y \in Int /\ y = x + paid /\ paid \in Int
    BY <1>1, <1>8
  <2> HIDE DEF t, paid, x, y
  <2>2. cash \in Int /\ cash' \in Int /\ pnl \in Int /\ pnl' \in Int
        /\ cash' - pnl' - (cash - pnl) = x - y
    BY <1>2, <1>8, <2>1
  <2> DEFINE b == Basis
             e == Basis'
  <2>3. b \in Int /\ e \in Int /\ e = b - x + y
    <3>1. b \in Int /\ e = b - x + y
      BY <1>7 DEF x, y
    <3> HIDE DEF b, e
    <3> QED BY <2>1, <3>1
  <2>4. cash' + e - pnl' = cash + b - pnl
    <3>1. e = b + paid
      <4> HIDE DEF b, e
      <4> QED BY <2>1, <2>3
    <3>2. cash' = cash - paid /\ pnl' = pnl
      BY <1>2
    <3> HIDE DEF b, e
    <3> QED BY <2>1, <2>2, <2>3, <3>1, <3>2
  <2> QED BY <2>4
<1> QED
  BY <1>6, <1>9

\* The numbers of a sell: the position read by the call is still the position.
LEMMA SoldBook ==
    ASSUME IInv, Sold
    PROVE  LET t == call.ticker
               n == call.qty
           IN  /\ n \in Nat \ {0} /\ n <= position[t].qty
               /\ position[t].qty \in Nat \ {0} /\ position[t].basis \in Nat
               /\ Shares(lots[t]) <= position[t].qty
               /\ lots'[t] = Left(lots[t], n)
               /\ position'[t] = IF n >= position[t].qty THEN [qty |-> 0, basis |-> 0]
                                 ELSE [qty |-> position[t].qty - n,
                                       basis |-> BasisAfter(lots[t], n, position[t].qty, position[t].basis)]
               /\ \A u \in Tickers \ {t} : position'[u] = position[u] /\ lots'[u] = lots[u]
               /\ cash' = cash + n * call.price
               /\ pnl' = pnl + n * call.price
                          - CostOfSold(lots[t], n, position[t].qty, position[t].basis)
<1> DEFINE t == call.ticker
           n == call.qty
<1>1. /\ t \in Tickers /\ n \in Nat \ {0} /\ position[t].qty \in Nat /\ position[t].basis \in Nat
      /\ Shares(lots[t]) \in Nat
  BY CalledBook DEF Sold
<1>2. call.held = position[t].qty /\ call.basis = position[t].basis /\ n <= call.held
  BY DEF IInv, CallTracks, Sold
<1>3. Shares(lots[t]) <= position[t].qty
  <2>1. position[t].qty - Shares(lots[t]) >= 0
    BY <1>1 DEF IInv, LotsWithinPosition, Missing
  <2> HIDE DEF t
  <2> QED BY <1>1, <2>1
<1>4. /\ lots' = [lots EXCEPT ![t] = Left(lots[t], n)]
      /\ position' = [position EXCEPT ![t] =
             IF n >= call.held THEN [qty |-> 0, basis |-> 0]
             ELSE [qty |-> call.held - n, basis |-> BasisAfter(lots[t], n, call.held, call.basis)]]
      /\ cash' = cash + n * call.price
      /\ pnl' = pnl + n * call.price - CostOfSold(lots[t], n, call.held, call.basis)
  BY DEF Sold
<1>5. /\ lots'[t] = Left(lots[t], n)
      /\ position'[t] = IF n >= call.held THEN [qty |-> 0, basis |-> 0]
             ELSE [qty |-> call.held - n, basis |-> BasisAfter(lots[t], n, call.held, call.basis)]
      /\ \A u \in Tickers \ {t} : position'[u] = position[u] /\ lots'[u] = lots[u]
  <2> HIDE DEF t, n
  <2> QED BY <1>1, <1>4 DEF IInv, TypeOK
<1>6. position[t].qty \in Nat \ {0}
  <2> HIDE DEF t, n
  <2> QED BY <1>1, <1>2
<1> QED
  BY <1>1, <1>2, <1>3, <1>4, <1>5, <1>6

LEMMA SoldKeeps ==
    ASSUME IInv, Sold
    PROVE  IInv' /\ (AllMatch => cash' + Basis' - pnl' = cash + Basis - pnl)
<1> DEFINE t == call.ticker
           n == call.qty
           s == lots[t]
           held == position[t].qty
           basis == position[t].basis
           left == Left(s, n)
           price == call.price
           taken == n * price
           cost == CostOfSold(s, n, held, basis)
<1>1. /\ t \in Tickers /\ n \in Nat \ {0} /\ n <= held /\ held \in Nat \ {0} /\ basis \in Nat
      /\ s \in Seq(Lots) /\ Shares(s) <= held /\ Shares(s) \in Nat /\ Cost(s) \in Nat
      /\ taken \in Nat
      /\ call.side \in {"BUY", "SELL"} /\ call.cycle \in Cycles \cup {NoCycle}
  BY CalledBook, SoldBook DEF Sold
<1>2. /\ lots'[t] = left
      /\ position'[t] = IF n >= held THEN [qty |-> 0, basis |-> 0]
                                     ELSE [qty |-> held - n, basis |-> BasisAfter(s, n, held, basis)]
      /\ \A u \in Tickers \ {t} : position'[u] = position[u] /\ lots'[u] = lots[u]
      /\ cash' = cash + taken
      /\ pnl' = pnl + taken - cost
  BY SoldBook
<1>3. /\ fills' = fills \cup {<<call.cycle, t, call.side>>}
      /\ trades' = trades + 1
      /\ answer' = [side |-> call.side, executed |-> TRUE]
      /\ call' = Idle
      /\ UNCHANGED <<mode, migrated, promoting>>
      /\ DOMAIN position' = DOMAIN position /\ DOMAIN lots' = DOMAIN lots
      /\ position' = [u \in DOMAIN position |-> position'[u]]
      /\ lots' = [u \in DOMAIN lots |-> lots'[u]]
  BY DEF Sold, Executed
<1>4. /\ left \in Seq(Lots) /\ Shares(left) \in Nat /\ Cost(left) \in Nat
      /\ Shares(left) = IF n >= Shares(s) THEN 0 ELSE Shares(s) - n
      /\ n >= Shares(s) => Cost(left) = 0
  <2>1. n \in Nat
    BY <1>1
  <2> HIDE DEF s, n
  <2> QED BY <1>1, <2>1, LotsLeft, CostLeft
<1>5. n < held => /\ BasisAfter(s, n, held, basis) \in Nat
                  /\ Shares(s) = held => BasisAfter(s, n, held, basis) = Cost(left)
  <2>1. n \in Nat /\ held \in Nat
    BY <1>1
  <2> HIDE DEF s, n, held, basis
  <2> QED BY <1>1, <2>1, BasisIsCost
<1>6. cost \in Int /\ (Shares(s) = held => cost = Cost(s) - Cost(left))
  <2>1. Unmatched(s, n) \in Nat
    <3> HIDE DEF s, n
    <3> QED BY <1>1 DEF Unmatched
  <2>2. Unmatched(s, n) * basis \in Nat
    <3> HIDE DEF s, n, basis
    <3> QED BY <1>1, <2>1, TimesNat
  <2>3. (Unmatched(s, n) * basis) \div held \in Nat
    <3> HIDE DEF s, n, basis, held
    <3> QED BY <1>1, <2>2, DivNat
  <2>4. cost \in Int
    <3> DEFINE extra == (Unmatched(s, n) * basis) \div held
    <3>1. cost = Cost(s) - Cost(left) + extra
      BY DEF CostOfSold
    <3>2. extra \in Nat
      BY <2>3
    <3> HIDE DEF s, n, basis, held, left, extra, cost
    <3> QED BY <1>1, <1>4, <3>1, <3>2
  <2>5. n \in Nat
    BY <1>1
  <2> HIDE DEF s, n, held, basis
  <2> QED BY <1>1, <2>4, <2>5, CostIsConserved
<1>7. /\ position'[t] \in [qty : Nat, basis : Nat]
      /\ position'[t].qty - Shares(lots'[t]) >= 0
      /\ Shares(s) = held => position'[t].qty = Shares(lots'[t]) /\ position'[t].basis = Cost(lots'[t])
  <2>1. CASE n >= held
    <3>1. position'[t] = [qty |-> 0, basis |-> 0]
      BY <1>2, <2>1
    <3>2. n >= Shares(s)
      <4> HIDE DEF s, n, held
      <4> QED BY <1>1, <2>1
    <3>3. Shares(left) = 0 /\ Cost(left) = 0
      BY <1>4, <3>2
    <3> HIDE DEF t, s, n, held, left
    <3> QED BY <1>2, <3>1, <3>3
  <2>2. CASE n < held
    <3>0. ~(n >= held)
      <4> HIDE DEF n, held
      <4> QED BY <1>1, <2>2
    <3>1. position'[t] = [qty |-> held - n, basis |-> BasisAfter(s, n, held, basis)]
      BY <1>2, <3>0
    <3>2. held - n \in Nat /\ (held - n) - Shares(left) >= 0 /\ (Shares(s) = held => held - n = Shares(left))
      <4> HIDE DEF s, n, held, left
      <4> QED BY <1>1, <1>4, <2>2
    <3> HIDE DEF t, s, n, held, left, basis
    <3> QED BY <1>2, <1>5, <2>2, <3>1, <3>2
  <2> QED
    <3>1. n >= held \/ n < held
      <4> HIDE DEF n, held
      <4> QED BY <1>1
    <3> QED BY <2>1, <2>2, <3>1
<1>8. TypeOK'
  <2>1. position' \in [Tickers -> [qty : Nat, basis : Nat]]
    <3>1. \A u \in Tickers : position'[u] \in [qty : Nat, basis : Nat]
      <4> HIDE DEF t
      <4> QED BY <1>2, <1>7 DEF IInv, TypeOK
    <3> QED BY <1>3, <3>1 DEF IInv, TypeOK
  <2>2. lots' \in [Tickers -> Seq(Lots)]
    <3>1. \A u \in Tickers : lots'[u] \in Seq(Lots)
      <4> HIDE DEF t, left
      <4> QED BY <1>2, <1>4 DEF IInv, TypeOK
    <3> QED BY <1>3, <3>1 DEF IInv, TypeOK
  <2>3. cash' \in Int /\ pnl' \in Int /\ trades' \in Nat
    <3>1. cash \in Int /\ pnl \in Int /\ trades \in Nat /\ taken \in Nat /\ cost \in Int
      BY <1>1, <1>6 DEF IInv, TypeOK
    <3>2. cash' = cash + taken /\ pnl' = pnl + taken - cost /\ trades' = trades + 1
      BY <1>2, <1>3
    <3> HIDE DEF taken, cost
    <3> QED BY <3>1, <3>2
  <2>4. fills' \subseteq (Cycles \cup {NoCycle}) \X Tickers \X {"BUY", "SELL"}
    <3> HIDE DEF t
    <3> QED BY <1>1, <1>3 DEF IInv, TypeOK
  <2> QED BY <1>1, <1>3, <2>1, <2>2, <2>3, <2>4 DEF IInv, TypeOK
<1>m. Matches(t) => Shares(s) = held /\ basis = Cost(s)
  <2>1. Matches(t) => held - Shares(s) = 0 /\ Cost(s) = basis
    BY DEF Matches, Missing
  <2> HIDE DEF s, held, basis, t
  <2> QED BY <1>1, <2>1
<1>9. IInv'
  <2> HIDE DEF t, s, held, left
  <2> QED BY <1>1, <1>2, <1>3, <1>7, <1>8, <1>m, OneBookChanges
<1>10. Basis \in Int /\ Basis' = Basis - basis + position'[t].basis
  <2>1. basis = position[t].basis
    OBVIOUS
  <2> HIDE DEF t, basis
  <2> QED BY <1>1, <1>2, <1>8, <2>1, OnePositionChanges DEF IInv, TypeOK
<1>11. ASSUME AllMatch PROVE cash' + Basis' - pnl' = cash + Basis - pnl
  <2> DEFINE b == Basis
             e == Basis'
             y == position'[t].basis
             left0 == Cost(left)
  <2>1. cost = basis - y /\ y \in Nat
    <3>1. Matches(t)
      BY <1>1, <1>11 DEF AllMatch
    <3> HIDE DEF t, s, held, basis, left, cost
    <3>2. y = Cost(left)
      BY <1>2, <1>7, <1>m, <3>1
    <3> QED BY <1>4, <1>6, <1>m, <3>1, <3>2
  <2>2. e = b - basis + y /\ b \in Int
    BY <1>10
  <2>3. cash \in Int /\ pnl \in Int /\ cash' = cash + taken /\ pnl' = pnl + taken - cost
    BY <1>2 DEF IInv, TypeOK
  <2>4. basis \in Nat /\ taken \in Nat
    BY <1>1
  <2> HIDE DEF t, s, held, basis, left, cost, taken, b, e, y
  <2>5. cash' + e - pnl' = cash + b - pnl
    BY <2>1, <2>2, <2>3, <2>4
  <2> QED BY <2>5 DEF b, e
<1> QED
  BY <1>9, <1>11

\* A migration gives a book the lot that is missing, and touches no other.
LEMMA ReconcileKeeps ==
    ASSUME IInv, Reconcile
    PROVE  IInv' /\ UNCHANGED <<cash, pnl, position>>
<1> DEFINE need == {t \in Tickers : Missing(t) > 0 /\ t \notin migrated}
           lot(t) == [qty |-> Missing(t), price |-> position[t].basis \div position[t].qty]
<1>1. /\ \A t \in Tickers : lots'[t] = IF t \in need THEN Append(lots[t], lot(t)) ELSE lots[t]
      /\ lots' = [t \in Tickers |-> lots'[t]]
      /\ migrated' = migrated \cup need
      /\ UNCHANGED <<mode, cash, pnl, position, fills, trades, call, answer, promoting>>
  BY DEF Reconcile
<1>2. \A t \in Tickers : /\ position[t].qty \in Nat /\ position[t].basis \in Nat
                         /\ lots[t] \in Seq(Lots) /\ Shares(lots[t]) \in Nat
  BY SharesAndCost DEF IInv, TypeOK
<1>3. ASSUME NEW t \in need
      PROVE  /\ t \in Tickers /\ lot(t) \in Lots
             /\ lots'[t] \in Seq(Lots)
             /\ position[t].qty - Shares(lots'[t]) = 0
  <2>1. t \in Tickers /\ Missing(t) > 0 /\ Missing(t) = position[t].qty - Shares(lots[t])
    BY DEF Missing
  <2>2. Missing(t) \in Nat \ {0} /\ position[t].qty \in Nat \ {0}
    <3>1. position[t].qty \in Nat /\ Shares(lots[t]) \in Nat
      BY <1>2, <2>1
    <3> QED BY <2>1, <3>1
  <2>3. position[t].basis \div position[t].qty \in Nat
    BY <1>2, <2>1, <2>2, DivNat
  <2>4. lot(t) \in Lots /\ lot(t).qty = Missing(t)
    BY <2>2, <2>3 DEF Lots
  <2>5. lots'[t] = Append(lots[t], lot(t))
    BY <1>1, <2>1
  <2> HIDE DEF need, lot
  <2>6. lots'[t] \in Seq(Lots) /\ Shares(lots'[t]) = Shares(lots[t]) + Missing(t)
    BY <1>2, <2>1, <2>4, <2>5, OneMoreLot
  <2>7. position[t].qty - Shares(lots'[t]) = 0
    BY <1>2, <2>1, <2>6
  <2> QED BY <2>1, <2>4, <2>6, <2>7
<1>4. TypeOK'
  <2>1. \A t \in Tickers : lots'[t] \in Seq(Lots)
    <3> HIDE DEF need
    <3> QED BY <1>1, <1>2, <1>3
  <2>2. lots' \in [Tickers -> Seq(Lots)]
    BY <1>1, <2>1
  <2>3. need \subseteq Tickers
    OBVIOUS
  <2> HIDE DEF need
  <2> QED BY <1>1, <2>2, <2>3 DEF IInv, TypeOK
<1>5. LotsWithinPosition'
  <2> SUFFICES ASSUME NEW t \in Tickers PROVE position[t].qty - Shares(lots'[t]) >= 0
    BY <1>1 DEF LotsWithinPosition, Missing
  <2> HIDE DEF need
  <2>1. CASE t \in need
    <3>1. position[t].qty - Shares(lots'[t]) = 0
      BY <1>3, <2>1
    <3> QED BY <3>1
  <2>2. CASE t \notin need
    BY <1>1, <2>2 DEF IInv, LotsWithinPosition, Missing
  <2> QED BY <2>1, <2>2
<1>6. CallTracks'
  BY <1>1 DEF IInv, CallTracks
<1>7. VerifiedBooksMatch'
  <2> SUFFICES ASSUME promoting \/ mode = "ENFORCE", NEW t \in Tickers PROVE Matches(t)'
    BY <1>1 DEF VerifiedBooksMatch
  <2>1. Matches(t)
    BY DEF IInv, VerifiedBooksMatch
  <2>2. t \notin need
    BY <2>1 DEF Matches
  <2>3. lots'[t] = lots[t] /\ position' = position
    BY <1>1, <2>2
  <2> QED BY <2>1, <2>3 DEF Matches, Missing
<1> QED
  BY <1>1, <1>4, <1>5, <1>6, <1>7 DEF IInv

\* The reads of a call keep the invariant, and move no money.
LEMMA SubmitKeeps ==
    ASSUME IInv, NEW t \in Tickers, NEW n \in Nat \ {0}, NEW p \in Prices,
           NEW c \in Cycles \cup {NoCycle}, NEW proposed \in Proposals, NEW side \in {"BUY", "SELL"},
           side = "SELL" => n <= position[t].qty,
           Submit(side, t, n, p, c, proposed)
    PROVE  IInv' /\ UNCHANGED <<cash, pnl, position>>
<1>1. /\ call' = [side |-> side, ticker |-> t, qty |-> n, price |-> p, cycle |-> c,
                  proposed |-> proposed, held |-> position[t].qty, basis |-> position[t].basis]
      /\ UNCHANGED <<mode, cash, pnl, position, lots, migrated, fills, trades, answer, promoting>>
  BY DEF Submit
<1>2. position[t].qty \in Nat /\ position[t].basis \in Nat
  BY DEF IInv, TypeOK
<1>3. call' \in Calls
  BY <1>1, <1>2 DEF Calls, Proposals
<1>4. TypeOK'
  BY <1>1, <1>3 DEF IInv, TypeOK
<1>5. CallTracks'
  BY <1>1, <1>2 DEF CallTracks
<1>6. LotsWithinPosition' /\ VerifiedBooksMatch'
  BY <1>1 DEF IInv, LotsWithinPosition, VerifiedBooksMatch, Matches, Missing
<1> QED
  BY <1>1, <1>4, <1>5, <1>6 DEF IInv

LEMMA StartKeeps == Init => IInv
<1> SUFFICES ASSUME Init PROVE IInv
  OBVIOUS
<1>1. << >> \in Seq(Lots) /\ Shares(<< >>) = 0
  <2>1. << >> \in Seq(Lots) /\ DOMAIN << >> = {}
    BY EmptySeq
  <2> QED BY <2>1, SumEmpty DEF Shares
<1>2. TypeOK
  <2>1. cash \in Int /\ pnl \in Int /\ trades \in Nat
    BY PaperAssumption DEF Init
  <2>2. position \in [Tickers -> [qty : Nat, basis : Nat]]
    BY PaperAssumption DEF Init
  <2>3. lots \in [Tickers -> Seq(Lots)]
    BY <1>1 DEF Init
  <2>4. answer \in [side : {"none", "BUY", "SELL"}, executed : BOOLEAN]
    BY DEF Init, None
  <2> QED BY <2>1, <2>2, <2>3, <2>4 DEF Init, TypeOK
<1>3. LotsWithinPosition
  BY <1>1, <1>2 DEF Init, LotsWithinPosition, Missing, TypeOK
<1>4. CallTracks /\ VerifiedBooksMatch
  BY DEF Init, CallTracks, VerifiedBooksMatch
<1> QED
  BY <1>2, <1>3, <1>4 DEF IInv

\* Every step keeps the invariant and, when the books match, the worth.
LEMMA StepKeeps ==
    ASSUME IInv, [Next]_vars
    PROVE  IInv' /\ (AllMatch => cash' + Basis' - pnl' = cash + Basis - pnl)
<1>0. UNCHANGED <<cash, pnl, position>> => cash' + Basis' - pnl' = cash + Basis - pnl
  BY DEF Basis
<1>1. ASSUME NEW t \in Tickers, SubmitBuy(t)
      PROVE  IInv' /\ UNCHANGED <<cash, pnl, position>>
  <2>1. PICK n \in Sizes, p \in Prices, c \in Cycles \cup {NoCycle}, proposed \in Proposals :
               Submit("BUY", t, n, p, c, proposed)
    BY <1>1 DEF SubmitBuy
  <2>2. n \in Nat \ {0}
    BY PaperAssumption
  <2> QED BY <2>1, <2>2, SubmitKeeps
<1>2. ASSUME NEW t \in Tickers, SubmitSell(t)
      PROVE  IInv' /\ UNCHANGED <<cash, pnl, position>>
  <2>1. PICK n \in Sizes, p \in Prices, c \in Cycles \cup {NoCycle}, proposed \in Proposals :
               n <= position[t].qty /\ Submit("SELL", t, n, p, c, proposed)
    BY <1>2 DEF SubmitSell
  <2>2. n \in Nat \ {0}
    BY PaperAssumption
  <2> QED BY <2>1, <2>2, SubmitKeeps
<1>3. ASSUME NEW t \in Tickers, SubmitExit(t)
      PROVE  IInv' /\ UNCHANGED <<cash, pnl, position>>
  <2>1. PICK p \in Prices, c \in Cycles, proposed \in Proposals :
               position[t].qty > 0 /\ Submit("SELL", t, position[t].qty, p, c, proposed)
    BY <1>3 DEF SubmitExit
  <2>2. position[t].qty \in Nat \ {0} /\ position[t].qty <= position[t].qty
    <3>1. position[t].qty \in Nat
      BY DEF IInv, TypeOK
    <3> QED BY <2>1, <3>1
  <2> QED BY <2>1, <2>2, SubmitKeeps
<1>4. ASSUME Refuse PROVE IInv' /\ UNCHANGED <<cash, pnl, position>>
  <2>1. /\ answer' = [side |-> call.side, executed |-> FALSE] /\ call' = Idle
        /\ UNCHANGED <<mode, cash, pnl, position, lots, migrated, fills, trades, promoting>>
    BY <1>4 DEF Refuse
  <2>2. call.side \in {"BUY", "SELL"}
    BY <1>4, CalledBook DEF Refuse
  <2>3. TypeOK'
    BY <2>1, <2>2 DEF IInv, TypeOK
  <2>4. LotsWithinPosition' /\ VerifiedBooksMatch' /\ CallTracks'
    BY <2>1 DEF IInv, LotsWithinPosition, VerifiedBooksMatch, Matches, Missing, CallTracks
  <2> QED BY <2>1, <2>3, <2>4 DEF IInv
<1>5. ASSUME Verify PROVE IInv' /\ UNCHANGED <<cash, pnl, position>>
  <2>1. /\ \A t \in Tickers : Matches(t)
        /\ promoting' = TRUE
        /\ UNCHANGED <<mode, cash, pnl, position, lots, migrated, fills, trades, call, answer>>
    BY <1>5 DEF Verify
  <2>2. TypeOK'
    BY <2>1 DEF IInv, TypeOK
  <2>3. LotsWithinPosition' /\ VerifiedBooksMatch' /\ CallTracks'
    BY <2>1 DEF IInv, LotsWithinPosition, VerifiedBooksMatch, Matches, Missing, CallTracks
  <2> QED BY <2>1, <2>2, <2>3 DEF IInv
<1>6. ASSUME Promote PROVE IInv' /\ UNCHANGED <<cash, pnl, position>>
  <2>1. /\ promoting /\ mode' = "ENFORCE" /\ promoting' = FALSE
        /\ UNCHANGED <<cash, pnl, position, lots, migrated, fills, trades, call, answer>>
    BY <1>6 DEF Promote
  <2>2. TypeOK'
    BY <2>1 DEF IInv, TypeOK
  <2>3. LotsWithinPosition' /\ VerifiedBooksMatch' /\ CallTracks'
    BY <2>1 DEF IInv, LotsWithinPosition, VerifiedBooksMatch, Matches, Missing, CallTracks
  <2> QED BY <2>1, <2>2, <2>3 DEF IInv
<1>7. ASSUME UNCHANGED vars PROVE IInv' /\ UNCHANGED <<cash, pnl, position>>
  BY <1>7 DEF vars, IInv, TypeOK, LotsWithinPosition, VerifiedBooksMatch, Matches, Missing, CallTracks
<1> QED
  BY <1>0, <1>1, <1>2, <1>3, <1>4, <1>5, <1>6, <1>7, BoughtKeeps, SoldKeeps, ReconcileKeeps DEF Next

LEMMA BooksInvariant == Spec => []IInv
<1>1. IInv /\ [Next]_vars => IInv'
  BY StepKeeps
<1> QED
  BY <1>1, StartKeeps, PTL DEF Spec

\* What the paper trader's documents hold, whatever the order of calls, exits
\* and migrations: quantities and prices never below zero, and no open lot of no
\* shares (paper_trader.buy and sell, lot_migration).
THEOREM TypeCorrect == Spec => []TypeOK
BY BooksInvariant, PTL DEF IInv

\* There are no orphan lots: the lots of a position never have more shares than
\* it holds, and a migration never finds LOT_OVERALLOCATION_EXCEEDS_POSITION.
THEOREM NoOrphanLots == Spec => []LotsWithinPosition
BY BooksInvariant, PTL DEF IInv

\* A promoted bot has matching books, though a trade that was under way when the
\* operator verified them commits after the promotion.
THEOREM PromotedBooksAgree == Spec => []PromotedBooksMatch
<1>1. IInv => PromotedBooksMatch
  BY DEF IInv, VerifiedBooksMatch, Matches, PromotedBooksMatch
<1> QED
  BY <1>1, BooksInvariant, PTL

\* Once the lots of every position agree with it, a buy, a full sell and a
\* partial sell all leave the bot's worth where the realized P&L puts it.
THEOREM MoneyIsConserved == Spec => WorthConserved
<1>1. IInv /\ [Next]_vars => [(\A t \in Tickers : Missing(t) = 0 /\ Cost(lots[t]) = position[t].basis)
           => cash' + Basis' - pnl' = cash + Basis - pnl]_vars
  BY StepKeeps DEF AllMatch, Matches
<1> QED
  BY <1>1, BooksInvariant, PTL DEF Spec, WorthConserved
=============================================================================
