---------------------- MODULE AdaptiveConcurrencyProofs ----------------------
(* Theorems about AdaptiveConcurrency, for any callers, limits and budgets. *)
EXTENDS AdaptiveConcurrency, SumTheorems

-----------------------------------------------------------------------------
(* The inductive invariant: the counters are exact and within the ceilings, *)
(* which are only tested against the counters.                             *)

CountersBounded ==
    /\ active <= MaxConcurrency
    /\ \A b \in Boxes : boxActive[b] <= MaxRunningPerBox

IInv == TypeOK /\ SlotsAccounted /\ CountersBounded

\* The readings of the boxes are sums of natural numbers.
LEMMA PartType ==
    ASSUME TypeOK, NEW b \in Boxes
    PROVE  /\ Part(b).free \in Int /\ Part(b).waiting \in Nat /\ Part(b).running \in Nat
           /\ SlotsOf(b) \in Nat
<1>1. metrics[b] \in Readings \cup {Unpolled}
  BY DEF TypeOK
<1>2. CASE metrics[b] = Unpolled
  BY <1>2 DEF Part, SlotsOf
<1>3. CASE metrics[b] # Unpolled
  <2>1. metrics[b] \in [free : 0 .. 100, waiting : Nat, running : Nat]
    BY <1>1, <1>3, ReadingAssumption
  <2>2. Slots[b] \in Nat
    BY ReadingAssumption
  <2> QED
    BY <1>3, <2>1, <2>2 DEF Part, SlotsOf
<1> QED
  BY <1>2, <1>3

\* The tiers stay between floor and cap.
LEMMA TierBounds ==
    ASSUME NEW free, NEW floor \in Nat, NEW cap \in Nat, floor <= cap,
           free \in Int
    PROVE  Tier(free, floor, cap) \in floor .. cap
<1>1. CASE free <= 20 \/ free <= 40 \/ free >= 80
  BY <1>1 DEF Tier, Most, Least
<1>2. CASE ~(free <= 20 \/ free <= 40 \/ free >= 80)
  <2> DEFINE x == floor + ((free - 40) * (cap - floor)) \div 40
  <2>1. (free - 40) * (cap - floor) \in Int
    OBVIOUS
  <2>2. x \in Int
    BY <2>1
  <2> HIDE DEF x
  <2>3. Most(floor, Least(cap, x)) \in floor .. cap
    BY <2>2 DEF Most, Least
  <2> QED
    BY <1>2, <2>3 DEF Tier, x
<1> QED
  BY <1>1, <1>2

\* A box is never given more than its ceiling.
LEMMA BoxLimitBound ==
    ASSUME TypeOK, NEW b \in Boxes
    PROVE  BoxLimit(b) \in 1 .. MaxRunningPerBox
<1> DEFINE floor == Least(MinConcurrency, MaxRunningPerBox)
           cap == Most(floor, IF Slots[b] = 0 THEN MaxRunningPerBox ELSE Least(Slots[b], MaxRunningPerBox))
<1>1. Slots[b] \in Nat
  BY ReadingAssumption
<1>2. floor \in 1 .. MaxRunningPerBox /\ cap \in floor .. MaxRunningPerBox
  BY <1>1, LimitAssumption DEF Least, Most
<1>3. CASE metrics[b] = Unpolled
  BY <1>3, LimitAssumption DEF BoxLimit
<1>4. CASE metrics[b] # Unpolled
  <2>1. metrics[b].free \in Int
    BY <1>4, PartType DEF Part
  <2> HIDE DEF floor, cap
  <2>2. floor \in Nat /\ cap \in Nat /\ floor <= cap /\ floor >= 1 /\ cap <= MaxRunningPerBox
    BY <1>2, LimitAssumption
  <2>3. Tier(metrics[b].free, floor, cap) \in floor .. cap
    BY <2>1, <2>2, TierBounds
  <2>4. BoxLimit(b) \in {floor, Tier(metrics[b].free, floor, cap)}
    BY <1>4 DEF BoxLimit, floor, cap
  <2> QED
    BY <2>2, <2>3, <2>4, LimitAssumption
<1> QED
  BY <1>3, <1>4

\* The pool's limit is at least one and at most its ceiling.
LEMMA NewLimitBound ==
    ASSUME TypeOK
    PROVE  NewLimit \in 1 .. MaxConcurrency
<1> DEFINE capacity == SlotsOf("jetson") + SlotsOf("dgx_spark")
           polled == {b \in Boxes : metrics[b] # Unpolled}
<1>1. capacity \in Nat
  BY PartType DEF Boxes
<1>2. IsFiniteSet(Boxes)
  <2>1. IsFiniteSet({"jetson"})
    BY FS_Singleton
  <2>2. IsFiniteSet({"jetson"} \cup {"dgx_spark"})
    BY <2>1, FS_AddElement
  <2> QED
    BY <2>2, {"jetson"} \cup {"dgx_spark"} = {"jetson", "dgx_spark"} DEF Boxes
<1>3. Cardinality(polled) \in Nat
  BY <1>2, FS_Subset, FS_CardinalityType, polled \subseteq Boxes
<1>4. PoolTier \in MinConcurrency .. MaxConcurrency
  <2> DEFINE sum == Part("jetson").free + Part("dgx_spark").free
             free == IF Cardinality(polled) = 0 THEN 100 ELSE sum \div Cardinality(polled)
  <2>1. sum \in Int
    BY PartType DEF Boxes
  <2>2. free \in Int
    <3> HIDE DEF sum, polled
    <3> QED
      BY <1>3, <2>1
  <2> HIDE DEF free
  <2>3. Tier(free, MinConcurrency, MaxConcurrency) \in MinConcurrency .. MaxConcurrency
    BY <2>2, TierBounds, LimitAssumption
  <2>4. PoolTier \in {MinConcurrency, Tier(free, MinConcurrency, MaxConcurrency)}
    BY DEF PoolTier, free
  <2> QED
    BY <2>3, <2>4, LimitAssumption
<1> DEFINE pt == PoolTier
<1>5. pt \in MinConcurrency .. MaxConcurrency
  BY <1>4
<1>6. CASE capacity > 0
  <2> HIDE DEF capacity, pt
  <2>1. Most(Least(MinConcurrency, capacity), Least(Least(MaxConcurrency, capacity), pt)) \in 1 .. MaxConcurrency
    BY <1>1, <1>5, <1>6, LimitAssumption DEF Most, Least
  <2> QED
    BY <1>6, <2>1 DEF NewLimit, capacity, pt
<1>7. CASE ~(capacity > 0)
  <2> HIDE DEF capacity, pt
  <2>1. Most(MinConcurrency, Least(MaxConcurrency, pt)) \in 1 .. MaxConcurrency
    BY <1>5, LimitAssumption DEF Most, Least
  <2> QED
    BY <1>7, <2>1 DEF NewLimit, capacity, pt
<1> QED
  BY <1>6, <1>7

\* The sets that are counted are finite.
LEMMA CountedFinite ==
    /\ IsFiniteSet(Running) /\ Cardinality(Running) \in Nat
    /\ \A b \in Boxes : IsFiniteSet(RunningOn(b)) /\ Cardinality(RunningOn(b)) \in Nat
<1>1. IsFiniteSet(Running)
  BY CallerAssumption, FS_Subset DEF Running
<1>2. \A b \in Boxes : RunningOn(b) \subseteq Running
  BY DEF RunningOn
<1> QED
  BY <1>1, <1>2, FS_Subset, FS_CardinalityType

\* The initial states satisfy the invariant.
LEMMA InitIInv == Init => IInv
<1> SUFFICES ASSUME Init PROVE IInv
  OBVIOUS
<1>1. Running = {} /\ \A b \in Boxes : RunningOn(b) = {}
  BY DEF Init, Running, RunningOn
<1>2. SlotsAccounted
  BY <1>1, FS_EmptySet DEF Init, SlotsAccounted
<1>3. TypeOK
  BY LimitAssumption DEF Init, TypeOK
<1>4. CountersBounded
  BY LimitAssumption DEF Init, CountersBounded
<1> QED
  BY <1>2, <1>3, <1>4 DEF IInv

\* A step that leaves the running callers and the counters alone keeps them exact.
LEMMA Untouched ==
    ASSUME IInv, UNCHANGED counters, Running' = Running
    PROVE  SlotsAccounted' /\ CountersBounded'
<1>1. \A b \in Boxes : RunningOn(b)' = RunningOn(b)
  BY DEF RunningOn
<1> QED
  BY <1>1 DEF IInv, SlotsAccounted, CountersBounded, counters

\* A caller evaluates its condition: it is counted when it takes a slot.
LEMMA EvaluateStep ==
    ASSUME IInv, NEW c \in Callers, pc[c] # "running", Evaluate(c),
           calls' \in [Callers -> 0 .. MaxCalls], metrics' = metrics
    PROVE  IInv'
<1>1. limit' \in 1 .. MaxConcurrency
  BY NewLimitBound DEF Evaluate, IInv, TypeOK
<1>2. CASE /\ BoxFree(c) /\ pc' = [pc EXCEPT ![c] = "running"]
           /\ active' = active + 1
           /\ tokens' = tokens + Tokens[c]
           /\ boxActive' = [b \in Boxes |-> boxActive[b] + (IF Home[c] = b THEN 1 ELSE 0)]
  <2>1. Running' = Running \cup {c} /\ c \notin Running
    BY <1>2 DEF Running, IInv, TypeOK
  <2>2. Cardinality(Running') = Cardinality(Running) + 1
    BY <2>1, CountedFinite, FS_AddElement
  <2>3. \A b \in Boxes : RunningOn(b)' = (IF Home[c] = b THEN RunningOn(b) \cup {c} ELSE RunningOn(b))
    BY <2>1 DEF RunningOn
  <2>4. \A b \in Boxes : Cardinality(RunningOn(b)') = Cardinality(RunningOn(b)) + (IF Home[c] = b THEN 1 ELSE 0)
    <3> SUFFICES ASSUME NEW b \in Boxes
                 PROVE  Cardinality(RunningOn(b)') = Cardinality(RunningOn(b)) + (IF Home[c] = b THEN 1 ELSE 0)
      OBVIOUS
    <3>1. IsFiniteSet(RunningOn(b)) /\ Cardinality(RunningOn(b)) \in Nat
      BY CountedFinite
    <3>2. c \notin RunningOn(b)
      BY <2>1 DEF RunningOn
    <3>3. CASE Home[c] = b
      BY <2>3, <3>1, <3>2, <3>3, FS_AddElement
    <3>4. CASE Home[c] # b
      BY <2>3, <3>1, <3>4
    <3> QED
      BY <3>3, <3>4
  <2>5. SlotsAccounted'
    BY <1>2, <2>2, <2>4 DEF IInv, SlotsAccounted
  <2>6. CountersBounded'
    <3>1. active' <= MaxConcurrency
      BY <1>1, <1>2, LimitAssumption DEF BoxFree, IInv, TypeOK
    <3>2. \A b \in Boxes : boxActive'[b] <= MaxRunningPerBox
      <4> SUFFICES ASSUME NEW b \in Boxes PROVE boxActive'[b] <= MaxRunningPerBox
        OBVIOUS
      <4>1. boxActive[b] \in Nat /\ boxActive[b] <= MaxRunningPerBox
        BY DEF IInv, TypeOK, CountersBounded
      <4>2. CASE Home[c] = b
        <5>1. BoxLimit(b) \in 1 .. MaxRunningPerBox
          BY BoxLimitBound DEF IInv
        <5>2. boxActive[b] < BoxLimit(b)
          BY <1>2, <4>2 DEF BoxFree
        <5> QED
          BY <1>2, <4>1, <4>2, <5>1, <5>2, LimitAssumption
      <4>3. CASE Home[c] # b
        BY <1>2, <4>1, <4>3
      <4> QED
        BY <4>2, <4>3
    <3> QED
      BY <3>1, <3>2 DEF CountersBounded
  <2>7. TypeOK'
    <3>1. active' \in Nat /\ tokens' \in Nat
      <4>1. Tokens[c] \in Nat /\ tokens \in Nat /\ active \in Nat
        BY CallerAssumption DEF IInv, TypeOK
      <4> QED
        BY <1>2, <4>1
    <3>2. boxActive' \in [Boxes -> Nat]
      BY <1>2 DEF IInv, TypeOK
    <3> QED
      BY <1>1, <1>2, <3>1, <3>2 DEF IInv, TypeOK
  <2> QED
    BY <2>5, <2>6, <2>7 DEF IInv
<1>3. CASE pc' = [pc EXCEPT ![c] = "asleep"] /\ UNCHANGED counters
  <2>1. Running' = Running
    BY <1>3 DEF Running, IInv, TypeOK
  <2>2. TypeOK'
    BY <1>1, <1>3 DEF IInv, TypeOK, counters
  <2> QED
    BY <1>3, <2>1, <2>2, Untouched DEF IInv
<1> QED
  BY <1>2, <1>3 DEF Evaluate

\* A caller gives its slot back.
LEMMA FinishStep ==
    ASSUME IInv, NEW c \in Callers, Finish(c)
    PROVE  IInv'
<1>1. pc[c] = "running" /\ pc' = Notified(c) /\ Release(c)
  BY DEF Finish
<1>2. TypeOK'
  <2>1. pc' \in [Callers -> {"idle", "asleep", "notified", "running"}]
    BY <1>1 DEF Notified, IInv, TypeOK
  <2>2. active' \in Nat /\ tokens' \in Nat
    BY <1>1, CallerAssumption DEF Release, Most, IInv, TypeOK
  <2>3. boxActive' \in [Boxes -> Nat]
    BY <1>1 DEF Release, Most, IInv, TypeOK
  <2> QED
    BY <2>1, <2>2, <2>3 DEF Finish, IInv, TypeOK
<1>3. Running' = Running \ {c} /\ c \in Running
  BY <1>1 DEF Running, Notified, IInv, TypeOK
<1>4. Cardinality(Running') = Cardinality(Running) - 1 /\ active > 0
  <2>1. Cardinality(Running') = Cardinality(Running) - 1
    BY <1>3, CountedFinite, FS_RemoveElement
  <2>2. IsFiniteSet(Running')
    BY <1>3, CountedFinite, FS_RemoveElement
  <2>3. Cardinality(Running') \in Nat
    BY <2>2, FS_CardinalityType
  <2> QED
    BY <2>1, <2>3, CountedFinite DEF IInv, SlotsAccounted
<1>5. active' = active - 1
  BY <1>1, <1>4 DEF Release, Most, IInv, TypeOK
<1>6. \A b \in Boxes : /\ boxActive'[b] = Cardinality(RunningOn(b)')
                       /\ boxActive'[b] <= MaxRunningPerBox
  <2> SUFFICES ASSUME NEW b \in Boxes
               PROVE  /\ boxActive'[b] = Cardinality(RunningOn(b)')
                      /\ boxActive'[b] <= MaxRunningPerBox
    OBVIOUS
  <2>1. /\ IsFiniteSet(RunningOn(b)) /\ Cardinality(RunningOn(b)) \in Nat
        /\ boxActive[b] = Cardinality(RunningOn(b)) /\ boxActive[b] <= MaxRunningPerBox
    BY CountedFinite DEF IInv, SlotsAccounted, CountersBounded
  <2>2. CASE Home[c] = b
    <3>1. RunningOn(b)' = RunningOn(b) \ {c} /\ c \in RunningOn(b)
      BY <1>3, <2>2 DEF RunningOn
    <3>2. IsFiniteSet(RunningOn(b)') /\ Cardinality(RunningOn(b)') = Cardinality(RunningOn(b)) - 1
      BY <2>1, <3>1, FS_RemoveElement
    <3>3. Cardinality(RunningOn(b)') \in Nat
      BY <3>2, FS_CardinalityType
    <3>4. boxActive'[b] = Most(0, boxActive[b] - 1)
      BY <1>1, <2>2 DEF Release
    <3> QED
      BY <2>1, <3>2, <3>3, <3>4, LimitAssumption DEF Most
  <2>3. CASE Home[c] # b
    <3>1. RunningOn(b)' = RunningOn(b)
      BY <1>3, <2>3 DEF RunningOn
    <3> QED
      BY <1>1, <2>1, <2>3, <3>1 DEF Release
  <2> QED
    BY <2>2, <2>3
<1>7. SlotsAccounted'
  BY <1>4, <1>5, <1>6 DEF IInv, SlotsAccounted
<1>8. CountersBounded'
  <2>1. active' <= MaxConcurrency
    BY <1>5, LimitAssumption DEF IInv, TypeOK, CountersBounded
  <2> QED
    BY <1>6, <2>1 DEF CountersBounded
<1> QED
  BY <1>2, <1>7, <1>8 DEF IInv

\* Every step preserves the invariant.
LEMMA NextIInv == IInv /\ [Next]_vars => IInv'
<1> SUFFICES ASSUME IInv, [Next]_vars PROVE IInv'
  OBVIOUS
<1>1. ASSUME NEW c \in Callers, Call(c) PROVE IInv'
  <2>1. calls' \in [Callers -> 0 .. MaxCalls]
    BY <1>1, LimitAssumption DEF Call, IInv, TypeOK
  <2> QED
    BY <1>1, <2>1, EvaluateStep DEF Call
<1>2. ASSUME NEW c \in Callers, Resume(c) PROVE IInv'
  <2>1. calls' \in [Callers -> 0 .. MaxCalls]
    BY <1>2 DEF Resume, IInv, TypeOK
  <2> QED
    BY <1>2, <2>1, EvaluateStep DEF Resume
<1>3. ASSUME NEW c \in Callers, Finish(c) PROVE IInv'
  BY <1>3, FinishStep
<1>4. ASSUME NEW c \in Callers, Leave(c) PROVE IInv'
  <2>1. Running' = Running
    BY <1>4 DEF Leave, Running, IInv, TypeOK
  <2>2. TypeOK'
    BY <1>4 DEF Leave, IInv, TypeOK, counters
  <2> QED
    BY <1>4, <2>1, <2>2, Untouched DEF Leave, IInv
<1>5. ASSUME NEW b \in Boxes, Poll(b) PROVE IInv'
  <2>1. Running' = Running
    BY <1>5 DEF Poll, Running
  <2>2. TypeOK'
    BY <1>5 DEF Poll, IInv, TypeOK, counters
  <2> QED
    BY <1>5, <2>1, <2>2, Untouched DEF Poll, IInv
<1>6. CASE UNCHANGED vars
  <2>1. Running' = Running
    BY <1>6 DEF vars, Running
  <2>2. TypeOK'
    BY <1>6 DEF vars, counters, IInv, TypeOK
  <2> QED
    BY <1>6, <2>1, <2>2, Untouched DEF vars, IInv
<1> QED
  BY <1>1, <1>2, <1>3, <1>4, <1>5, <1>6 DEF Next

\* The invariant holds in every reachable state.
LEMMA Invariance == Spec => []IInv
BY InitIInv, NextIInv, PTL DEF Spec

-----------------------------------------------------------------------------
(* The token budget, which is only tested against the counter: the counter *)
(* is the sum of the tokens of the running callers.                        *)

HeavyRunning == {c \in Running : Heavy(c)}

BudgetInv == tokens = TokensOf(Running) /\ HeavyWithinBudget

\* What any callers use is a natural number, and at least what some of them use.
LEMMA TokensOfType ==
    ASSUME NEW S \in SUBSET Callers
    PROVE  /\ IsFiniteSet(S)
           /\ TokensOf(S) \in Nat
           /\ \A T \in SUBSET S : TokensOf(T) <= TokensOf(S)
<1>1. IsFiniteSet(S) /\ \A c \in S : Tokens[c] \in Nat
  BY CallerAssumption, FS_Subset
<1> QED
  BY <1>1, SumNat, SumSubset DEF TokensOf

\* One caller more.
LEMMA TokensOfMore ==
    ASSUME NEW S \in SUBSET Callers, NEW c \in Callers, c \notin S
    PROVE  TokensOf(S \cup {c}) = TokensOf(S) + Tokens[c]
<1>1. IsFiniteSet(S) /\ Tokens[c] \in Int /\ \A d \in S : Tokens[d] \in Int
  BY CallerAssumption, FS_Subset
<1> QED
  BY <1>1, SumAdd DEF TokensOf

\* One caller less.
LEMMA TokensOfLess ==
    ASSUME NEW S \in SUBSET Callers, NEW c \in S
    PROVE  TokensOf(S \ {c}) = TokensOf(S) - Tokens[c] /\ Tokens[c] <= TokensOf(S)
<1> DEFINE R == S \ {c}
<1>1. TokensOf(R \cup {c}) = TokensOf(R) + Tokens[c] /\ TokensOf(R) \in Nat
  BY TokensOfMore, TokensOfType
<1>2. R \cup {c} = S /\ Tokens[c] \in Nat
  BY CallerAssumption
<1> QED
  BY <1>1, <1>2

\* Nothing happens to those who run.
LEMMA BudgetUntouched ==
    ASSUME BudgetInv, UNCHANGED tokens, Running' = Running
    PROVE  BudgetInv'
BY DEF BudgetInv, HeavyWithinBudget, Heavy, TokensOf

\* A caller that takes a slot is within the budget, or alone.
LEMMA BudgetEvaluate ==
    ASSUME IInv, BudgetInv, NEW c \in Callers, pc[c] # "running", Evaluate(c)
    PROVE  BudgetInv'
<1>1. CASE InBudget(c) /\ pc' = [pc EXCEPT ![c] = "running"] /\ tokens' = tokens + Tokens[c]
  <2>1. Running' = Running \cup {c} /\ c \notin Running /\ Running \in SUBSET Callers
    BY <1>1 DEF Running, IInv, TypeOK
  <2>2. tokens' = TokensOf(Running)'
    BY <1>1, <2>1, TokensOfMore DEF BudgetInv, TokensOf
  <2>3. HeavyWithinBudget'
    <3>1. CASE ~Heavy(c)
      <4>1. HeavyRunning' = HeavyRunning
        BY <2>1, <3>1 DEF HeavyRunning, Heavy
      <4> QED
        BY <4>1 DEF BudgetInv, HeavyWithinBudget, HeavyRunning, Heavy, TokensOf
    <3>2. CASE Heavy(c) /\ active = 0
      <4>1. Running = {}
        BY <3>2, CountedFinite, FS_EmptySet DEF IInv, SlotsAccounted
      <4>2. {d \in Running' : Heavy(d)} \in SUBSET {c}
        BY <2>1, <4>1
      <4>3. IsFiniteSet({c}) /\ Cardinality({c}) = 1
        BY FS_Singleton
      <4> DEFINE G == {d \in Running' : Heavy(d)}
      <4>4. Cardinality(G) <= 1 /\ Cardinality(G) \in Nat
        <5> HIDE DEF G
        <5>1. IsFiniteSet(G) /\ Cardinality(G) <= Cardinality({c})
          BY <4>2, <4>3, FS_Subset DEF G
        <5> QED
          BY <4>3, <5>1, FS_CardinalityType
      <4>5. ~(Cardinality(G) > 1)
        BY <4>4
      <4> QED
        BY <4>5 DEF HeavyWithinBudget, Heavy
    <3>3. CASE Heavy(c) /\ tokens + Tokens[c] <= MaxTokenBudget
      <4>1. /\ TokensOf(Running)' <= MaxTokenBudget
            /\ Running' \in SUBSET Callers
        BY <1>1, <2>1, <2>2, <3>3
      <4>2. TokensOf({d \in Running' : Heavy(d)}) <= TokensOf(Running')
        BY <4>1, TokensOfType, {d \in Running' : Heavy(d)} \in SUBSET Running'
      <4>3. TokensOf({d \in Running' : Heavy(d)}) \in Nat /\ TokensOf(Running') \in Nat
        BY <4>1, TokensOfType, {d \in Running' : Heavy(d)} \in SUBSET Callers
      <4>4. TokensOf({d \in Running' : Heavy(d)}) <= MaxTokenBudget
        BY <4>1, <4>2, <4>3, LimitAssumption DEF TokensOf
      <4> QED
        BY <4>4 DEF HeavyWithinBudget, Heavy, TokensOf
    <3> QED
      BY <1>1, <3>1, <3>2, <3>3 DEF InBudget
  <2> QED
    BY <2>2, <2>3 DEF BudgetInv
<1>2. CASE pc' = [pc EXCEPT ![c] = "asleep"] /\ UNCHANGED counters
  <2>1. Running' = Running
    BY <1>2 DEF Running, IInv, TypeOK
  <2> QED
    BY <1>2, <2>1, BudgetUntouched DEF counters
<1> QED
  BY <1>1, <1>2 DEF Evaluate

\* A caller that leaves gives back its tokens.
LEMMA BudgetFinish ==
    ASSUME IInv, BudgetInv, NEW c \in Callers, Finish(c)
    PROVE  BudgetInv'
<1>1. Running' = Running \ {c} /\ c \in Running /\ Running \in SUBSET Callers
  BY DEF Finish, Running, Notified, IInv, TypeOK
<1>2. tokens' = TokensOf(Running)'
  <2>1. TokensOf(Running \ {c}) = tokens - Tokens[c] /\ Tokens[c] <= tokens
    BY <1>1, TokensOfLess DEF BudgetInv
  <2>2. tokens' = tokens - Tokens[c]
    <3>1. tokens \in Nat /\ Tokens[c] \in Nat
      BY CallerAssumption DEF IInv, TypeOK
    <3> QED
      BY <2>1, <3>1 DEF Finish, Release, Most
  <2> QED
    BY <1>1, <2>1, <2>2 DEF TokensOf
<1>3. HeavyWithinBudget'
  <2> DEFINE H == HeavyRunning
             G == {d \in Running' : Heavy(d)}
  <2>1. G \in SUBSET H /\ H \in SUBSET Callers
    BY <1>1 DEF HeavyRunning
  <2>2. /\ Cardinality(G) <= Cardinality(H) /\ Cardinality(G) \in Nat /\ Cardinality(H) \in Nat
        /\ TokensOf(G) <= TokensOf(H) /\ TokensOf(G) \in Nat /\ TokensOf(H) \in Nat
    <3> HIDE DEF G, H
    <3>1. IsFiniteSet(H) /\ IsFiniteSet(G)
      BY <2>1, TokensOfType, FS_Subset
    <3> QED
      BY <2>1, <3>1, TokensOfType, FS_Subset, FS_CardinalityType
  <2>3. Cardinality(H) > 1 => TokensOf(H) <= MaxTokenBudget
    BY DEF BudgetInv, HeavyWithinBudget, HeavyRunning
  <2>4. Cardinality(G) > 1 => TokensOf(G) <= MaxTokenBudget
    <3> HIDE DEF G, H
    <3> QED
      BY <2>2, <2>3, LimitAssumption
  <2> QED
    BY <2>4 DEF HeavyWithinBudget, Heavy, TokensOf
<1> QED
  BY <1>2, <1>3 DEF BudgetInv

\* Every step keeps the counter exact and the large requests within the budget.
LEMMA BudgetStep == IInv /\ BudgetInv /\ [Next]_vars => BudgetInv'
<1> SUFFICES ASSUME IInv, BudgetInv, [Next]_vars PROVE BudgetInv'
  OBVIOUS
<1>1. ASSUME NEW c \in Callers, Call(c) \/ Resume(c) PROVE BudgetInv'
  BY <1>1, BudgetEvaluate DEF Call, Resume
<1>2. ASSUME NEW c \in Callers, Finish(c) PROVE BudgetInv'
  BY <1>2, BudgetFinish
<1>3. ASSUME NEW c \in Callers, Leave(c) PROVE BudgetInv'
  <2>1. Running' = Running /\ UNCHANGED tokens
    BY <1>3 DEF Leave, Running, counters, IInv, TypeOK
  <2> QED
    BY <2>1, BudgetUntouched
<1>4. ASSUME NEW b \in Boxes, Poll(b) PROVE BudgetInv'
  <2>1. Running' = Running /\ UNCHANGED tokens
    BY <1>4 DEF Poll, Running, counters
  <2> QED
    BY <2>1, BudgetUntouched
<1>5. CASE UNCHANGED vars
  <2>1. Running' = Running /\ UNCHANGED tokens
    BY <1>5 DEF vars, counters, Running
  <2> QED
    BY <2>1, BudgetUntouched
<1> QED
  BY <1>1, <1>2, <1>3, <1>4, <1>5 DEF Next

\* Nobody runs at first.
LEMMA BudgetInit == Init => BudgetInv
<1> SUFFICES ASSUME Init PROVE BudgetInv
  OBVIOUS
<1>1. Running = {}
  BY DEF Init, Running
<1>2. TokensOf({}) = 0
  BY SumEmpty DEF TokensOf
<1>3. {c \in Running : Heavy(c)} = {}
  BY <1>1
<1>4. HeavyWithinBudget
  BY <1>3, FS_EmptySet DEF HeavyWithinBudget
<1> QED
  BY <1>1, <1>2, <1>4 DEF Init, BudgetInv

-----------------------------------------------------------------------------
(* The theorems.                                                           *)

\* Every reachable state is well typed; in particular the limit is never 0.
THEOREM TypeCorrect == Spec => []TypeOK
BY Invariance, PTL DEF IInv

\* No cancellation leaks a slot or gives one back twice (_acquire_slot,
\* _release_slot and track).
THEOREM SlotsExact == Spec => []SlotsAccounted
BY Invariance, PTL DEF IInv

\* No box runs more calls than its ceiling (limit_for), and all together stay
\* within the ceiling of the pool (_compute_limit).
THEOREM CeilingsKept == Spec => []WithinCeilings
<1>1. IInv => WithinCeilings
  BY DEF IInv, SlotsAccounted, CountersBounded, WithinCeilings
<1> QED
  BY <1>1, Invariance, PTL

\* The large requests that run together fit the token budget, or there is but
\* one of them, though requests without a budget run beside them (_acquire_slot).
THEOREM BudgetIsKept == Spec => []HeavyWithinBudget
<1>1. BudgetInv => HeavyWithinBudget
  BY DEF BudgetInv
<1> QED
  BY <1>1, BudgetInit, BudgetStep, Invariance, PTL DEF Spec
=============================================================================
