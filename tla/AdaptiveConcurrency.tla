------------------------- MODULE AdaptiveConcurrency -------------------------
(***************************************************************************)
(* The limiter all language-model calls of a process pass: a global pool   *)
(* whose limit follows the load of the model servers, a pool for each      *)
(* server, and a budget of tokens for large requests.                      *)
(*                                                                         *)
(* The process is one event loop and the condition's lock is never held    *)
(* across an await, so that taking it never waits: a caller evaluates its  *)
(* condition and takes its slot, or goes to sleep, in one step.  A         *)
(* notified caller evaluates again when the loop resumes it, and other     *)
(* callers may come first.  KV-cache room is a percentage.                 *)
(***************************************************************************)
EXTENDS Integers, FiniteSets, Functions

CONSTANTS
    Callers,            \* tasks that call a model, one call at a time
    Home,               \* the box a caller names, or NoBox
    Tokens,             \* the estimated tokens of its requests
    Urgent,             \* callers of priority 0
    MaxCalls,           \* bound: calls of one caller
    Slots,              \* max_concurrent of each box
    Readings,           \* what a poll of a box can show
    MinConcurrency, MaxConcurrency, MaxRunningPerBox, MaxTokenBudget,
    HeavyTokens,        \* requests of this many tokens are subject to the budget
    NoBox, Unpolled

Boxes == {"jetson", "dgx_spark"}

ASSUME LimitAssumption ==
    /\ MinConcurrency \in Nat \ {0} /\ MaxConcurrency \in Nat /\ MinConcurrency <= MaxConcurrency
    /\ MaxRunningPerBox \in Nat \ {0}
    /\ MaxTokenBudget \in Nat /\ HeavyTokens \in Nat \ {0} /\ MaxCalls \in Nat

ASSUME CallerAssumption ==
    /\ IsFiniteSet(Callers)
    /\ Home \in [Callers -> Boxes \cup {NoBox}] /\ NoBox \notin Boxes
    /\ Tokens \in [Callers -> Nat] /\ Urgent \subseteq Callers

ASSUME ReadingAssumption ==
    /\ Slots \in [Boxes -> Nat]
    /\ Readings \subseteq [free : 0 .. 100, waiting : Nat, running : Nat]
    /\ Unpolled \notin Readings

VARIABLES
    pc,         \* each caller: idle, asleep, notified or running
    calls,      \* calls each caller has made
    active,     \* _active_tasks_count
    tokens,     \* _active_tokens
    boxActive,  \* _box_active
    limit,      \* _current_limit
    metrics     \* the last reading of each box, or Unpolled

counters == <<active, tokens, boxActive>>
vars == <<pc, calls, counters, limit, metrics>>

Running == {c \in Callers : pc[c] = "running"}
RunningOn(b) == {c \in Running : Home[c] = b}

TypeOK ==
    /\ pc \in [Callers -> {"idle", "asleep", "notified", "running"}]
    /\ calls \in [Callers -> 0 .. MaxCalls]
    /\ active \in Nat /\ tokens \in Nat
    /\ boxActive \in [Boxes -> Nat]
    /\ limit \in 1 .. MaxConcurrency
    /\ metrics \in [Boxes -> Readings \cup {Unpolled}]

Init ==
    /\ pc = [c \in Callers |-> "idle"]
    /\ calls = [c \in Callers |-> 0]
    /\ active = 0 /\ tokens = 0
    /\ boxActive = [b \in Boxes |-> 0]
    /\ limit = MaxConcurrency
    /\ metrics = [b \in Boxes |-> Unpolled]

-----------------------------------------------------------------------------
(* The limits.                                                             *)

Least(m, n) == IF m <= n THEN m ELSE n
Most(m, n) == IF m >= n THEN m ELSE n

Saturated(waiting, running) == waiting > 0 /\ running > 0 /\ waiting >= running

\* The tiers of the remaining cache, between floor and cap.  They are not
\* monotone: just above 40 the interpolation starts from floor again.
Tier(free, floor, cap) ==
    IF free <= 20 THEN floor
    ELSE IF free <= 40 THEN Most(floor, Least(2, cap))
    ELSE IF free >= 80 THEN cap
    ELSE Most(floor, Least(cap, floor + ((free - 40) * (cap - floor)) \div 40))

\* Mutant of BoxLimit: a polled box is given what the server says it takes.
BoxLimitOfServer(b) == IF metrics[b] = Unpolled THEN MaxRunningPerBox ELSE Slots[b]

\* limit_for: a box is judged on its own reading, below its ceiling.
BoxLimit(b) ==
    LET floor == Least(MinConcurrency, MaxRunningPerBox)
        cap == Most(floor, IF Slots[b] = 0 THEN MaxRunningPerBox ELSE Least(Slots[b], MaxRunningPerBox))
        r == metrics[b]
    IN  IF r = Unpolled THEN MaxRunningPerBox
        ELSE IF Saturated(r.waiting, r.running) THEN floor
        ELSE Tier(r.free, floor, cap)

\* A reading of box b as a part of a sum or an average.
Part(b) == IF metrics[b] = Unpolled THEN [free |-> 0, waiting |-> 0, running |-> 0] ELSE metrics[b]
SlotsOf(b) == IF metrics[b] = Unpolled THEN 0 ELSE Slots[b]

\* _compute_limit: the tiers of the average cache and the summed queues.
PoolTier ==
    LET j == Part("jetson")
        d == Part("dgx_spark")
        polled == Cardinality({b \in Boxes : metrics[b] # Unpolled})
        free == IF polled = 0 THEN 100 ELSE (j.free + d.free) \div polled
    IN  IF Saturated(j.waiting + d.waiting, j.running + d.running) THEN MinConcurrency
        ELSE Tier(free, MinConcurrency, MaxConcurrency)

\* Mutant of NewLimit: no capacity polled counts as a capacity of zero.
NewLimitWithin ==
    LET capacity == SlotsOf("jetson") + SlotsOf("dgx_spark")
    IN  Most(Least(MinConcurrency, capacity), Least(Least(MaxConcurrency, capacity), PoolTier))

\* _maybe_update_limit, when it re-evaluates: within the capacity polled.
NewLimit ==
    LET capacity == SlotsOf("jetson") + SlotsOf("dgx_spark")
        Bound(n) == IF capacity > 0 THEN Least(n, capacity) ELSE n
    IN  Most(Bound(MinConcurrency), Least(Bound(MaxConcurrency), PoolTier))

-----------------------------------------------------------------------------
(* Slots.                                                                  *)

\* Both the pool and the box the caller names have room.
BoxFree(c) ==
    /\ active < limit'
    /\ Home[c] \in Boxes => boxActive[Home[c]] < BoxLimit(Home[c])

Heavy(c) == Tokens[c] >= HeavyTokens /\ c \notin Urgent

\* Mutant of InBudget: each request is compared with the budget on its own.
InBudgetAlone(c) == Heavy(c) => Tokens[c] <= MaxTokenBudget \/ active = 0

\* A large request fits the budget, or nothing is running.
InBudget(c) == Heavy(c) => tokens + Tokens[c] <= MaxTokenBudget \/ active = 0

\* The loop of _acquire_slot: the limit is re-evaluated if five seconds have
\* passed; then the caller takes a slot or sleeps.
Evaluate(c) ==
    /\ limit' \in {limit, NewLimit}
    /\ \/ /\ BoxFree(c) /\ InBudget(c)
          /\ pc' = [pc EXCEPT ![c] = "running"]
          /\ active' = active + 1
          /\ tokens' = tokens + Tokens[c]
          /\ boxActive' = [b \in Boxes |-> boxActive[b] + (IF Home[c] = b THEN 1 ELSE 0)]
       \/ /\ ~(BoxFree(c) /\ InBudget(c))
          /\ pc' = [pc EXCEPT ![c] = "asleep"]
          /\ UNCHANGED counters

\* A caller enters track.
Call(c) ==
    /\ pc[c] = "idle" /\ calls[c] < MaxCalls
    /\ calls' = [calls EXCEPT ![c] = @ + 1]
    /\ Evaluate(c)
    /\ UNCHANGED metrics

\* The loop resumes a notified caller.
Resume(c) ==
    /\ pc[c] = "notified"
    /\ Evaluate(c)
    /\ UNCHANGED <<calls, metrics>>

\* Mutant of Notified: one sleeper is woken.
NotifiedOne(c) ==
    LET asleep == {d \in Callers : pc[d] = "asleep"}
    IN  [d \in Callers |-> IF d = c THEN "idle"
                           ELSE IF asleep # {} /\ d = CHOOSE e \in asleep : TRUE THEN "notified"
                           ELSE pc[d]]

\* Caller c has left, and all sleepers are woken.
Notified(c) ==
    [d \in Callers |-> IF d = c THEN "idle" ELSE IF pc[d] = "asleep" THEN "notified" ELSE pc[d]]

\* _release_slot gives back what the caller holds.
Release(c) ==
    /\ active' = Most(0, active - 1)
    /\ tokens' = Most(0, tokens - Tokens[c])
    /\ boxActive' = [b \in Boxes |-> IF Home[c] = b THEN Most(0, boxActive[b] - 1) ELSE boxActive[b]]

\* The call returns, raises or is cancelled: all ways lead through the finally.
Finish(c) ==
    /\ pc[c] = "running"
    /\ Release(c)
    /\ pc' = Notified(c)
    /\ UNCHANGED <<calls, limit, metrics>>

\* Mutant of Leave: the caller gives back a slot it never took.
LeaveReleasing(c) ==
    /\ pc[c] \in {"asleep", "notified"}
    /\ Release(c)
    /\ pc' = Notified(c)
    /\ UNCHANGED <<calls, limit, metrics>>

\* A caller is cancelled while it waits: it takes the lock again and leaves.
Leave(c) ==
    /\ pc[c] \in {"asleep", "notified"}
    /\ pc' = [pc EXCEPT ![c] = "idle"]
    /\ UNCHANGED <<calls, counters, limit, metrics>>

\* The metrics of a box are polled; a box may lose its model.
Poll(b) ==
    /\ \E r \in Readings \cup {Unpolled} : metrics' = [metrics EXCEPT ![b] = r]
    /\ UNCHANGED <<pc, calls, counters, limit>>

Next ==
    \/ \E c \in Callers : Call(c) \/ Resume(c) \/ Finish(c) \/ Leave(c)
    \/ \E b \in Boxes : Poll(b)

Spec == Init /\ [][Next]_vars

\* The event loop resumes whom it should, and a call of a model ends (by its
\* timeout if by nothing else).  Nothing obliges a caller to call or to leave.
FairSpec ==
    /\ Spec
    /\ \A c \in Callers : WF_vars(Resume(c)) /\ WF_vars(Finish(c))

-----------------------------------------------------------------------------
(* Properties.                                                             *)

\* The counters tell who holds slots: no cancellation leaks a slot or gives
\* one back twice, which the code's max(0, ...) would hide.
SlotsAccounted ==
    /\ active = Cardinality(Running)
    /\ \A b \in Boxes : boxActive[b] = Cardinality(RunningOn(b))

TokensOf(S) == SumFunctionOnSet(Tokens, S)

\* No box ever runs more than it was measured to sustain, whatever the floor
\* of the global pool and the polled metrics; and calls that name a box and
\* calls that name none together stay within the ceiling of that pool.
WithinCeilings ==
    /\ \A b \in Boxes : Cardinality(RunningOn(b)) <= MaxRunningPerBox
    /\ Cardinality(Running) <= MaxConcurrency

\* The large requests that run together fit the budget, unless there is but
\* one; requests that are exempt from the budget still use it up.
HeavyWithinBudget ==
    LET heavy == {c \in Running : Heavy(c)}
    IN  Cardinality(heavy) > 1 => TokensOf(heavy) <= MaxTokenBudget

\* Whoever waits gets its slot, though callers are cancelled while they wait
\* and after they have been notified.
WaiterServed == \A c \in Callers : pc[c] = "asleep" ~> pc[c] \in {"running", "idle"}
=============================================================================
