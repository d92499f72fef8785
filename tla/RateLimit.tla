----------------------------- MODULE RateLimit ------------------------------
(***************************************************************************)
(* The token buckets of internal/middleware/ratelimit.go: one per client   *)
(* address, in the memory of one pod.  `allow` refills, by whole tokens,   *)
(* what the time since the last refill is worth; a goroutine forgets the   *)
(* buckets that have not been refilled for long.  Both hold the mutex.     *)
(*                                                                         *)
(* Time is counted in the unit the constants are given in.  A bucket that  *)
(* is forgotten comes back full, so forgetting one too early would let a   *)
(* client exceed the limit.                                                *)
(***************************************************************************)
EXTENDS Integers, Sequences

CONSTANTS
    Keys,           \* client addresses
    Capacity,       \* capacity
    RefillPer,      \* refillPer: one token per this time
    IdleLimit,      \* 10 minutes: a bucket older than this is forgotten
    CleanupEvery,   \* 5 minutes: the ticker of the cleanup goroutine
    Horizon         \* a bound: the clock stops here

\* The limits of server.go:30-36 refill a token in at most 3 minutes.
ASSUME LimiterAssumption ==
    /\ Capacity \in Nat \ {0} /\ RefillPer \in Nat \ {0}
    /\ IdleLimit \in Nat /\ 2 * RefillPer <= IdleLimit
    /\ CleanupEvery \in Nat \ {0}
    /\ Horizon \in Nat

VARIABLES
    clock,
    bucket,     \* tb.buckets: [tokens, seen] or NoBucket
    granted,    \* per key, the times of the requests let through (a history variable)
    refused     \* per key, the time of the last refusal, or Never (a history variable)

limiterVars == <<clock, bucket, granted, refused>>

NoBucket == [tokens |-> -1]
Never == -1

LimiterTypeOK ==
    /\ clock \in 0..Horizon
    /\ bucket \in [Keys -> [tokens : 0..Capacity, seen : 0..Horizon] \cup {NoBucket}]
    /\ granted \in [Keys -> Seq(0..Horizon)]
    /\ refused \in [Keys -> 0..Horizon \cup {Never}]

LimiterInit ==
    /\ clock = 0
    /\ bucket = [k \in Keys |-> NoBucket]
    /\ granted = [k \in Keys |-> <<>>]
    /\ refused = [k \in Keys |-> Never]

-----------------------------------------------------------------------------

\* Mutant: lastSeen stays where it is.
RefillAgain(b) ==
    LET new == (clock - b.seen) \div RefillPer
        all == b.tokens + new
    IN  [b EXCEPT !.tokens = IF all > Capacity THEN Capacity ELSE all]

\* Whole tokens only; the remainder of the time is dropped with the refill.
Refill(b) ==
    LET new == (clock - b.seen) \div RefillPer
        all == b.tokens + new
    IN  IF new = 0 THEN b
        ELSE [tokens |-> IF all > Capacity THEN Capacity ELSE all, seen |-> clock]

\* A bucket made by this call was last seen at the zero time: it is refilled,
\* which leaves it full, and seen now.
Current(k) ==
    IF bucket[k] = NoBucket THEN [tokens |-> Capacity, seen |-> clock] ELSE Refill(bucket[k])

Allow(k) ==
    LET b == Current(k)
    IN  /\ b.tokens > 0
        /\ bucket' = [bucket EXCEPT ![k] = [b EXCEPT !.tokens = @ - 1]]
        /\ granted' = [granted EXCEPT ![k] = Append(@, clock)]
        /\ UNCHANGED <<clock, refused>>

\* Mutant: every request counts as seen.
RefuseTouches(k) ==
    LET b == Current(k)
    IN  /\ b.tokens = 0
        /\ bucket' = [bucket EXCEPT ![k] = [b EXCEPT !.seen = clock]]
        /\ refused' = [refused EXCEPT ![k] = clock]
        /\ UNCHANGED <<clock, granted>>

Refuse(k) ==
    LET b == Current(k)
    IN  /\ b.tokens = 0
        /\ bucket' = [bucket EXCEPT ![k] = b]
        /\ refused' = [refused EXCEPT ![k] = clock]
        /\ UNCHANGED <<clock, granted>>

\* The cleanup goroutine.
Cleanup ==
    /\ clock % CleanupEvery = 0
    /\ bucket' = [k \in Keys |->
                    IF bucket[k] # NoBucket /\ clock - bucket[k].seen > IdleLimit
                    THEN NoBucket ELSE bucket[k]]
    /\ UNCHANGED <<clock, granted, refused>>

ClockTick ==
    /\ clock < Horizon
    /\ clock' = clock + 1
    /\ UNCHANGED <<bucket, granted, refused>>

LimiterNext ==
    \/ \E k \in Keys : Allow(k) \/ Refuse(k)
    \/ Cleanup
    \/ ClockTick

LimiterSpec == LimiterInit /\ [][LimiterNext]_limiterVars

-----------------------------------------------------------------------------

\* In any time RefillPer long, at most Capacity requests of an address get
\* through: "5 req/3 min per IP" (server.go:31).  Neither the rounding of the
\* refill nor a bucket that is forgotten and made again lets more through
\* (ratelimit.go:32-40 and :57-62).
WindowBound ==
    \A k \in Keys : \A i \in 1..Len(granted[k]) :
        i + Capacity \in 1..Len(granted[k]) =>
            granted[k][i + Capacity] - granted[k][i] >= RefillPer

\* Who is refused had a request let through less than RefillPer ago: a client
\* that keeps trying is not kept out by its own refused attempts, although the
\* remainder of the time is dropped at every refill (ratelimit.go:57-66).
RefusedOnlyWhenBusy ==
    \A k \in Keys :
        refused[k] # Never =>
            \E i \in 1..Len(granted[k]) :
                refused[k] - RefillPer < granted[k][i] /\ granted[k][i] <= refused[k]

=============================================================================
