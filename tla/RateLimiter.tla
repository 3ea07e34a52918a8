---------------------------- MODULE RateLimiter ----------------------------
(***************************************************************************)
(* The rate limiters of the public endpoints: Limiter in front of          *)
(* UrcAuthApi.StartAuthSession and HttpLimiter in front of the login and   *)
(* device pages.  Both are the same algorithm: a bucket per peer address,  *)
(* good for a window from its first request, under one mutex.              *)
(*                                                                         *)
(* The clock is read before the mutex is taken, so a request may decide    *)
(* with a time that is older than the bucket it finds, or older than the   *)
(* time another request has pruned with.                                   *)
(*                                                                         *)
(* A definition X_Fault is X with a plausible bug, kept beside it to show  *)
(* that a property notices; no specification uses it.                      *)
(***************************************************************************)
EXTENDS Integers, FiniteSets

CONSTANTS
    Peers,     \* peer addresses
    Requests,  \* concurrent requests
    Limit,     \* RATE_LIMIT
    Window,    \* RATE_LIMIT_WINDOW
    MaxWait,   \* bound: how long a request waits for the mutex
    MaxClock,  \* bound: the last instant of the clock
    NoPeer

ASSUME LimiterAssumption ==
    /\ Limit \in Nat \ {0} /\ Window \in Nat \ {0}
    /\ MaxWait \in Nat /\ 2 * MaxWait <= Window
    /\ MaxClock \in Nat
    /\ NoPeer \notin Peers

VARIABLES
    clock,     \* Instant::now
    buckets,   \* Peers -> bucket
    requests,  \* Requests -> a request that waits for the mutex
    passed     \* history: the requests let through

vars == <<clock, buckets, requests, passed>>

-----------------------------------------------------------------------------
Instants == 0 .. MaxClock

\* count = 0: no bucket
Bucket == [start : Instants, count : 0 .. Limit]

Request == [peer : Peers \cup {NoPeer}, now : Instants]

\* A request that was let through: the peer's first, second ..., the time, and
\* the start of the bucket that it was counted in
Pass == [peer : Peers, no : Nat, at : Instants, start : Instants]

NoBucket    == [start |-> 0, count |-> 0]
IdleRequest == [peer |-> NoPeer, now |-> 0]

TypeOK ==
    /\ clock \in Instants
    /\ buckets \in [Peers -> Bucket]
    /\ requests \in [Requests -> Request]
    /\ passed \subseteq Pass

Init ==
    /\ clock = 0
    /\ buckets = [p \in Peers |-> NoBucket]
    /\ requests = [q \in Requests |-> IdleRequest]
    /\ passed = {}

-----------------------------------------------------------------------------
\* A request arrives: `now' is sampled, then the mutex is awaited.
Arrive(q, p) ==
    /\ requests[q].peer = NoPeer
    /\ requests' = [requests EXCEPT ![q] = [peer |-> p, now |-> clock]]
    /\ UNCHANGED <<clock, buckets, passed>>

\* Faulty variant: a bucket is good for ever.
Current_Forever(b, now) == b.count # 0

\* now.duration_since(start) < window; the difference is never negative, it
\* is zero for a bucket younger than the request
Current(b, now) == b.count # 0 /\ now - b.start < Window

\* insert, then prune
Opened(p, now) ==
    [r \in Peers |-> IF r = p THEN [start |-> now, count |-> 1]
                     ELSE IF Current(buckets[r], now) THEN buckets[r] ELSE NoBucket]

\* Faulty variant: the copy of the bucket is counted up and not stored.
Counted_Copy(p) == buckets

Counted(p) == [buckets EXCEPT ![p].count = @ + 1]

Full(b) == b.count >= Limit

PassesOf(p) == {x \in passed : x.peer = p}

LetThrough(p, bs) ==
    /\ buckets' = bs
    /\ passed' = passed \cup {[peer |-> p, no |-> Cardinality(PassesOf(p)) + 1,
                               at |-> clock, start |-> bs[p].start]}

Refused == UNCHANGED <<buckets, passed>>

\* allow, under the mutex
Allow(q) ==
    LET p   == requests[q].peer
        now == requests[q].now
        b   == buckets[p]
    IN  /\ p # NoPeer
        /\ CASE ~Current(b, now)            -> LetThrough(p, Opened(p, now))
             [] Current(b, now) /\ Full(b)  -> Refused
             [] Current(b, now) /\ ~Full(b) -> LetThrough(p, Counted(p))
        /\ requests' = [requests EXCEPT ![q] = IdleRequest]
        /\ UNCHANGED clock

\* The mutex is held for a few operations on a map: nobody waits for long.
Tick ==
    /\ clock < MaxClock
    /\ \A q \in Requests : requests[q].peer # NoPeer => clock - requests[q].now < MaxWait
    /\ clock' = clock + 1
    /\ UNCHANGED <<buckets, requests, passed>>

Next ==
    \/ \E q \in Requests : Allow(q) \/ \E p \in Peers : Arrive(q, p)
    \/ Tick

Spec == Init /\ [][Next]_vars

-----------------------------------------------------------------------------
(* Properties *)

\* How many requests of peer p were let through in an interval
PassedIn(p, from, to) ==
    Cardinality({x \in PassesOf(p) : from <= x.at /\ x.at <= to})

\* In any span of one window a peer gets three windows' worth of requests at
\* most: the bucket that ends in it, the bucket that starts in it, and one more
\* because a request that waited opens a bucket with its old time, when another
\* peer's request has pruned the bucket that it would have counted in.  Twice
\* the limit, what a fixed window allows, is exceeded.  (Were requests to wait
\* for more than half a window, there could be a fourth bucket.)
BurstBound ==
    \A p \in Peers, i \in Instants : PassedIn(p, i, i + Window - 1) <= 3 * Limit

\* Who is refused has used up the limit himself, and within the last window
\* before his request: a peer is never refused for the requests of another one,
\* nor for old ones.
OnlyBusyRefused ==
    [][\A q \in Requests :
         LET p == requests[q].peer
         IN  p # NoPeer /\ requests'[q].peer = NoPeer /\ passed' = passed =>
                PassedIn(p, requests[q].now - Window + 1, clock) >= Limit]_vars

=============================================================================
