----------------------------- MODULE RateLimiter -----------------------------
(* internal/web/ratelimit.go: the attempts to log in of each address within a *)
(* sliding window, counted by the requests and thinned out by a goroutine.    *)
(* Time is counted in units of the window's length divided by Window; of the  *)
(* times the limiter keeps, two may be equal, so each is kept with the number *)
(* of its request.                                                            *)
EXTENDS Naturals, FiniteSets

CONSTANTS Addresses, Limit, Window,
          MaxTime,      \* bound: time
          MaxTries      \* bound: requests

VARIABLES now,
          tries,        \* requests so far
          attempts,     \* rateLimiter.attempts; {} for an absent key
          cleaner,      \* the goroutine of cleanup
          admitted,     \* every admitted request, by its time
          refused       \* every refused request
vars == <<now, tries, attempts, cleaner, admitted, refused>>

Attempt == [nth : 1..MaxTries, at : 0..MaxTime]

Init == /\ now = 0 /\ cleaner = "running" /\ tries = 0
        /\ attempts = [a \in Addresses |-> {}]
        /\ admitted = [a \in Addresses |-> {}]
        /\ refused = {}

Valid(times) == {t \in times : now - t.at < Window}

Tick == /\ now < MaxTime
        /\ now' = now + 1
        /\ UNCHANGED <<tries, attempts, cleaner, admitted, refused>>

\* allow, which rateLimitLogin asks before every login.
Allow(a) ==
    LET valid == Valid(attempts[a])
        this  == [nth |-> tries + 1, at |-> now]
    IN
    /\ tries < MaxTries
    /\ tries' = tries + 1
    /\ IF Cardinality(valid) >= Limit
       THEN /\ attempts' = [attempts EXCEPT ![a] = valid]
            /\ refused' = refused \union {<<a, now>>}
            /\ UNCHANGED admitted
       ELSE /\ attempts' = [attempts EXCEPT ![a] = valid \union {this}]
            /\ admitted' = [admitted EXCEPT ![a] = @ \union {this}]
            /\ UNCHANGED refused
    /\ UNCHANGED <<now, cleaner>>

\* One round of the goroutine, under the lock.
Cleanup == /\ cleaner = "running"
           /\ attempts' = [a \in Addresses |-> Valid(attempts[a])]
           /\ UNCHANGED <<now, tries, cleaner, admitted, refused>>

Stop == /\ cleaner = "running"
        /\ cleaner' = "stopped"
        /\ UNCHANGED <<now, tries, attempts, admitted, refused>>

Next == Tick \/ Cleanup \/ Stop \/ \E a \in Addresses : Allow(a)
Spec == Init /\ [][Next]_vars

-----------------------------------------------------------------------------
TypeOK == /\ now \in 0..MaxTime /\ tries \in 0..MaxTries /\ cleaner \in {"running", "stopped"}
          /\ attempts \in [Addresses -> SUBSET Attempt]
          /\ admitted \in [Addresses -> SUBSET Attempt]
          /\ refused \subseteq Addresses \X (0..MaxTime)

\* In the window that ends at t.
Within(a, t) == {s \in admitted[a] : s.at <= t /\ t - s.at < Window}

\* In no window does an address get more than its limit, and nobody is refused
\* who has not used it up, whatever the clean-up does between the requests.
LimitHolds ==
    /\ \A a \in Addresses : \A t \in 0..now : Cardinality(Within(a, t)) <= Limit
    /\ \A r \in refused : Cardinality(Within(r[1], r[2])) >= Limit
=============================================================================
