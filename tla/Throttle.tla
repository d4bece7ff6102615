------------------------------- MODULE Throttle -------------------------------
(***************************************************************************)
(* The quota of one operator for one operation, in one of its two forms.   *)
(*                                                                         *)
(* In memory each process keeps the times of the calls it let through: a   *)
(* thread reads the clock, waits for the lock, and one call in _GC_INTERVAL *)
(* of whatever operator drops the keys whose last time is old.  In Redis   *)
(* the workers share a counter that expires; incr and ttl are one request  *)
(* and expire another, and a worker may die between the two.               *)
(***************************************************************************)
EXTENDS Integers, Sequences, FiniteSets

CONSTANTS
    Callers,   \* threads of the process, or workers
    Limit,
    Window,    \* window_seconds
    MaxClock,  \* bound: how long a behaviour lasts
    MaxCalls   \* bound: calls of a behaviour

ASSUME ThrottleAssumption ==
    /\ Limit \in Nat \ {0} /\ Window \in Nat \ {0}
    /\ MaxClock \in Nat /\ MaxCalls \in Nat /\ IsFiniteSet(Callers)

VARIABLES
    policy,    \* "memory" or "redis"
    clock,
    stamps,    \* in memory: the calls let through whose times the key holds, by
               \* their number: oldest first, or nearly so
    counter,   \* in Redis: its value and when it expires, or Never
    caller,    \* what each caller is doing
    calls,     \* calls so far
    granted,   \* history: when each call let through read the clock
    tallied,   \* history: when each call was counted in Redis
    refusal,   \* history: the last refusal was deserved
    late       \* history: a call waited while the clock went on, or died

throttleVars == <<policy, clock, stamps, counter, caller, calls, granted, tallied, refusal, late>>

-----------------------------------------------------------------------------
Away  == [step |-> "away", now |-> 0, count |-> 0, ttl |-> 0]
Never == MaxClock + Window + 1
Gone  == [count |-> 0, expires |-> Never]

Within(s, from, to) == Cardinality({i \in DOMAIN s : from <= s[i] /\ s[i] <= to})

Goes(t, c) == caller' = [caller EXCEPT ![t] = c]

Calls(t) ==
    /\ caller[t] = Away /\ calls < MaxCalls
    /\ calls' = calls + 1
    /\ Goes(t, [step |-> "called", now |-> clock, count |-> 0, ttl |-> 0])
    /\ UNCHANGED <<policy, clock, stamps, counter, granted, tallied, refusal, late>>

(* _gc, which the call of any operator may set off.                        *)
Newest(s, i)      == \A j \in s : j <= i
Collects(s, now) == IF \E i \in s : Newest(s, i) /\ granted[i] < now - Window THEN {} ELSE s

Kept(s, now) == {i \in s : granted[i] >= now - Window}

CollectGarbage ==
    /\ policy = "memory"
    /\ stamps' = Collects(stamps, clock)
    /\ UNCHANGED <<policy, clock, counter, caller, calls, granted, tallied, refusal, late>>

(* check, with the lock held.                                              *)
Full(kept) == Cardinality(kept) >= Limit
CheckInMemory(t) ==
    LET now  == caller[t].now
        kept == Kept(stamps, now)
    IN  /\ policy = "memory" /\ caller[t].step = "called"
        /\ IF Full(kept)
           THEN /\ stamps' = kept /\ UNCHANGED granted
                /\ refusal' = (Within(granted, now - Window, clock) >= Limit)
           ELSE /\ stamps' = kept \cup {Len(granted) + 1}
                /\ granted' = Append(granted, now)
                /\ UNCHANGED refusal
        /\ Goes(t, Away)
        /\ UNCHANGED <<policy, clock, counter, calls, tallied, late>>

(* incr and ttl.  A key that is new, or whose worker died, has no ttl.     *)
Current == IF counter.expires <= clock THEN Gone ELSE counter

CountInRedis(t) ==
    /\ policy = "redis" /\ caller[t].step = "called"
    /\ counter' = [Current EXCEPT !.count = @ + 1]
    /\ tallied' = Append(tallied, clock)
    /\ Goes(t, [step |-> "counted", now |-> clock, count |-> Current.count + 1, ttl |-> Current.expires])
    /\ UNCHANGED <<policy, clock, stamps, calls, granted, refusal, late>>

NoExpire(t) == counter      \* mutant: the key stays
Expires(t) ==
    IF caller[t].ttl = Never /\ Current # Gone THEN [Current EXCEPT !.expires = clock + Window]
    ELSE Current

DecideInRedis(t) ==
    /\ caller[t].step = "counted"
    /\ counter' = Expires(t)
    /\ IF caller[t].count > Limit
       THEN /\ refusal' = (Within(tallied, caller[t].now - Window, clock) > Limit)
            /\ UNCHANGED granted
       ELSE granted' = Append(granted, caller[t].now) /\ UNCHANGED refusal
    /\ Goes(t, Away)
    /\ UNCHANGED <<policy, clock, stamps, calls, tallied, late>>

Dies(t) ==
    /\ caller[t].step = "counted"
    /\ Goes(t, Away) /\ late' = TRUE
    /\ UNCHANGED <<policy, clock, stamps, counter, calls, granted, tallied, refusal>>

ClockTicks ==
    /\ clock < MaxClock
    /\ clock' = clock + 1
    /\ late' = (late \/ \E t \in Callers : caller[t] # Away)
    /\ UNCHANGED <<policy, stamps, counter, caller, calls, granted, tallied, refusal>>

ThrottleInit ==
    /\ policy \in {"memory", "redis"}
    /\ clock = 0 /\ stamps = {} /\ counter = Gone
    /\ caller = [t \in Callers |-> Away] /\ calls = 0
    /\ granted = <<>> /\ tallied = <<>> /\ refusal = TRUE /\ late = FALSE

ThrottleNext ==
    \/ \E t \in Callers : Calls(t) \/ CheckInMemory(t) \/ CountInRedis(t) \/ DecideInRedis(t) \/ Dies(t)
    \/ CollectGarbage \/ ClockTicks

ThrottleSpec == ThrottleInit /\ [][ThrottleNext]_throttleVars

-----------------------------------------------------------------------------
(* Properties                                                              *)

(* The types; a process never keeps more times than the quota.             *)
ThrottleTypeOK ==
    /\ policy \in {"memory", "redis"}
    /\ clock \in 0 .. MaxClock /\ calls \in 0 .. MaxCalls
    /\ stamps \subseteq DOMAIN granted /\ \A i \in DOMAIN granted : granted[i] \in 0 .. clock
    /\ Cardinality(stamps) <= Limit
    /\ counter.count \in 0 .. MaxCalls

(* The quota is one: no period of a window's length, its ends included,    *)
(* sees more calls go through, provided that no call waits for the lock    *)
(* over a tick (the times are then out of order, and _gc looks at the last *)
(* one).  The window of Redis does not slide, so that two may meet in a    *)
(* period: at most twice the quota.                                        *)
QuotaHolds ==
    \A at \in 0 .. clock :
        /\ policy = "memory" /\ ~ late => Within(granted, at, at + Window) <= Limit
        /\ policy = "redis" => Within(granted, at, at + Window - 1) <= 2 * Limit

(* Nobody is refused for what happened before the window: in memory there  *)
(* are Limit calls let through in it; in Redis, where the calls refused    *)
(* count as well, Limit others, unless one was slow or died.               *)
RefusalsAreDeserved == refusal \/ (policy = "redis" /\ late)

(* The quota is neither exceeded nor short.                                *)
QuotaIsFair == QuotaHolds /\ RefusalsAreDeserved
=============================================================================
