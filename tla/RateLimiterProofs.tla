------------------------- MODULE RateLimiterProofs -------------------------
(***************************************************************************)
(* Proofs about the rate limiters, for every limit and window and any      *)
(* number of peers and concurrent requests.                                *)
(***************************************************************************)
EXTENDS RateLimiter, FiniteSetTheorems, TLAPS

-----------------------------------------------------------------------------
(* The inductive invariant *)

\* A request that waits has a time that is old by MaxWait at most.
WaitInv ==
    \A q \in Requests :
        requests[q].peer # NoPeer => requests[q].now <= clock /\ clock - requests[q].now <= MaxWait

\* Passes are numbered, in the past, and not before the start of their bucket.
PassInv ==
    /\ IsFiniteSet(passed)
    /\ \A x \in passed : /\ x.start <= x.at /\ x.at <= clock
                         /\ x.no <= Cardinality(PassesOf(x.peer))

\* The passes among ps that were counted in the bucket of peer p with this start
In(ps, p, start) == {x \in ps : x.peer = p /\ x.start = start}

\* No bucket ever took more than the limit.
SizeInv == \A p \in Peers, s \in Instants : Cardinality(In(passed, p, s)) <= Limit

\* The bucket of pass x was over when a bucket with this start was opened: that
\* was a window after x's bucket had started and not before x, by a request
\* that had waited for MaxWait at most.
Over(x, start) ==
    /\ x.at - MaxWait <= start
    /\ x.start + Window - MaxWait <= start

\* Buckets of one peer follow each other.
OrderInv ==
    \A x, y \in passed :
        x.peer = y.peer /\ x.start < y.start => Over(x, y.start) /\ x.start + Window <= y.at

\* A bucket counts its passes; all others of the peer were counted in buckets
\* whose window is over.
BucketInv ==
    \A p \in Peers :
        LET b == buckets[p] IN
        /\ b.count # 0 => Cardinality(In(passed, p, b.start)) = b.count
        /\ \A x \in PassesOf(p) :
              b.count = 0 \/ x.start # b.start => x.start + Window <= clock
        /\ \A x \in PassesOf(p) :
              b.count # 0 /\ x.start # b.start => Over(x, b.start)

IInv == TypeOK /\ WaitInv /\ PassInv /\ SizeInv /\ OrderInv /\ BucketInv

\* The passes of a peer and those of a bucket are finitely many.
LEMMA FinitePasses ==
    ASSUME PassInv, NEW p, NEW s
    PROVE  /\ IsFiniteSet(PassesOf(p)) /\ Cardinality(PassesOf(p)) \in Nat
           /\ IsFiniteSet(In(passed, p, s)) /\ Cardinality(In(passed, p, s)) \in Nat
  <1>1. PassesOf(p) \in SUBSET passed /\ In(passed, p, s) \in SUBSET passed
    BY DEF PassesOf, In
  <1>2. IsFiniteSet(PassesOf(p)) /\ IsFiniteSet(In(passed, p, s))
    BY <1>1, FS_Subset DEF PassInv
  <1> QED
    BY <1>2, FS_CardinalityType

\* Init establishes the invariant.
LEMMA InitInv == Init => IInv
  <1> SUFFICES ASSUME Init PROVE IInv
    OBVIOUS
  <1> USE LimiterAssumption DEF Init
  <1>1. 0 \in Instants
    BY DEF Instants
  <1>2. TypeOK
    BY <1>1 DEF TypeOK, Bucket, NoBucket, Request, IdleRequest
  <1>3. \A p, s : PassesOf(p) = {} /\ In(passed, p, s) = {}
    BY DEF PassesOf, In
  <1>4. WaitInv /\ OrderInv
    BY DEF WaitInv, IdleRequest, OrderInv
  <1>5. PassInv
    BY FS_EmptySet DEF PassInv
  <1>6. SizeInv
    BY <1>3, FS_EmptySet DEF SizeInv
  <1>7. BucketInv
    BY <1>3 DEF BucketInv, NoBucket
  <1> QED
    BY <1>2, <1>4, <1>5, <1>6, <1>7 DEF IInv

-----------------------------------------------------------------------------
(* A request is let through *)

\* One more pass, counted in a bucket that starts at s and is not full; earlier
\* buckets of the peer were over when it was opened.
LEMMA NewPass ==
    ASSUME IInv, NEW p \in Peers, NEW s \in Instants, s <= clock,
           Cardinality(In(passed, p, s)) < Limit,
           \A x \in PassesOf(p) : x.start # s => Over(x, s) /\ x.start + Window <= clock,
           passed' = passed \cup {[peer |-> p, no |-> Cardinality(PassesOf(p)) + 1,
                                   at |-> clock, start |-> s]},
           UNCHANGED clock
    PROVE  /\ passed' \subseteq Pass /\ PassInv' /\ SizeInv' /\ OrderInv'
           /\ Cardinality(In(passed', p, s)) = Cardinality(In(passed, p, s)) + 1
           /\ \A x \in PassesOf(p)' : x.start = s \/ x \in PassesOf(p)
           /\ \A r \in Peers \ {p} : PassesOf(r)' = PassesOf(r)
                                     /\ \A t : In(passed', r, t) = In(passed, r, t)
  <1> DEFINE c == Cardinality(PassesOf(p))
             y == [peer |-> p, no |-> c + 1, at |-> clock, start |-> s]
  <1> USE LimiterAssumption
  <1>1. PassInv /\ clock \in Instants /\ passed \subseteq Pass
    BY DEF IInv, TypeOK
  <1>2. /\ c \in Nat /\ IsFiniteSet(PassesOf(p))
        /\ Cardinality(In(passed, p, s)) \in Nat /\ IsFiniteSet(In(passed, p, s))
    BY <1>1, FinitePasses
  <1>3. y \in Pass /\ y.peer = p /\ y.no = c + 1 /\ y.at = clock /\ y.start = s
    BY <1>1, <1>2 DEF Pass
  <1>4. passed' = passed \cup {y}
    OBVIOUS
  <1> HIDE DEF y
  <1>5. y \notin passed
    <2> SUFFICES ASSUME y \in passed PROVE FALSE
      OBVIOUS
    <2>1. y.no <= c
      BY <1>1, <1>3 DEF PassInv
    <2> HIDE DEF c
    <2> QED
      BY <1>2, <1>3, <2>1
  <1>6. /\ PassesOf(p)' = PassesOf(p) \cup {y} /\ In(passed', p, s) = In(passed, p, s) \cup {y}
        /\ y \notin PassesOf(p) /\ y \notin In(passed, p, s)
        /\ \A t : t # s => In(passed', p, t) = In(passed, p, t)
        /\ \A r \in Peers \ {p} : PassesOf(r)' = PassesOf(r)
                                  /\ \A t : In(passed', r, t) = In(passed, r, t)
    BY <1>3, <1>4, <1>5 DEF PassesOf, In
  <1>7. /\ Cardinality(PassesOf(p)') = c + 1
        /\ Cardinality(In(passed', p, s)) = Cardinality(In(passed, p, s)) + 1
    <2>1. Cardinality(PassesOf(p) \cup {y}) = Cardinality(PassesOf(p)) + 1
      BY <1>2, <1>6, FS_AddElement
    <2>2. Cardinality(In(passed, p, s) \cup {y}) = Cardinality(In(passed, p, s)) + 1
      BY <1>2, <1>6, FS_AddElement
    <2> QED
      BY <1>6, <2>1, <2>2
  <1>8. PassInv'
    <2>1. IsFiniteSet(passed')
      BY <1>1, <1>4, FS_AddElement DEF PassInv
    <2> SUFFICES ASSUME NEW x \in passed'
                 PROVE  x.start <= x.at /\ x.at <= clock /\ x.no <= Cardinality(PassesOf(x.peer)')
      BY <2>1 DEF PassInv
    <2>2. CASE x = y
      <3> HIDE DEF c
      <3> QED
        BY <1>1, <1>2, <1>3, <1>7, <2>2 DEF Instants
    <2>3. CASE x \in passed /\ x.peer = p
      <3>1. x.start <= x.at /\ x.at <= clock /\ x.no <= c /\ x.no \in Nat
        BY <1>1, <2>3 DEF PassInv, Pass
      <3> HIDE DEF c
      <3> QED
        BY <1>2, <1>7, <2>3, <3>1
    <2>4. CASE x \in passed /\ x.peer # p
      <3>1. x.peer \in Peers \ {p}
        BY <1>1, <2>4 DEF Pass
      <3> QED
        BY <1>1, <1>6, <2>4, <3>1 DEF PassInv
    <2> QED
      BY <1>4, <2>2, <2>3, <2>4
  <1>9. SizeInv'
    <2> SUFFICES ASSUME NEW r \in Peers, NEW t \in Instants
                 PROVE  Cardinality(In(passed', r, t)) <= Limit
      BY DEF SizeInv
    <2>1. CASE r = p /\ t = s
      BY <1>2, <1>7, <2>1
    <2>2. CASE ~(r = p /\ t = s)
      BY <1>6, <2>2 DEF IInv, SizeInv
    <2> QED
      BY <2>1, <2>2
  <1>10. OrderInv'
    <2> SUFFICES ASSUME NEW x \in passed', NEW z \in passed', x.peer = z.peer, x.start < z.start
                 PROVE  Over(x, z.start) /\ x.start + Window <= z.at
      BY DEF OrderInv, Over
    <2>1. CASE x \in passed /\ z \in passed
      BY <2>1 DEF IInv, OrderInv
    <2>2. CASE z = y
      <3>1. x \in PassesOf(p) /\ x.start # s
        BY <1>1, <1>3, <1>4, <2>2 DEF PassesOf, Pass, Instants
      <3> QED
        BY <1>3, <2>2, <3>1
    <2>3. CASE x = y /\ z \in passed
      <3>1. z \in PassesOf(p) /\ z \in Pass
        BY <1>1, <1>3, <2>3 DEF PassesOf
      <3>2. z.start \in Int /\ s \in Int /\ s < z.start
        BY <1>3, <2>3, <3>1 DEF Pass, Instants
      <3>3. z.start + Window - MaxWait <= s
        BY <3>1, <3>2 DEF Over
      <3> QED
        BY <3>2, <3>3
    <2> QED
      BY <1>4, <2>1, <2>2, <2>3
  <1>11. passed' \subseteq Pass
    BY <1>1, <1>3, <1>4
  <1>12. \A x \in PassesOf(p)' : x.start = s \/ x \in PassesOf(p)
    BY <1>3, <1>6
  <1> QED
    BY <1>6, <1>7, <1>8, <1>9, <1>10, <1>11, <1>12

\* The bucket is current and not full: it is counted up.
LEMMA CountedInv ==
    ASSUME IInv, NEW p \in Peers, buckets[p].count # 0, ~Full(buckets[p]),
           LetThrough(p, Counted(p)), UNCHANGED clock
    PROVE  /\ buckets' \in [Peers -> Bucket] /\ passed' \subseteq Pass
           /\ PassInv' /\ SizeInv' /\ OrderInv' /\ BucketInv'
  <1> DEFINE b == buckets[p]
  <1> USE LimiterAssumption
  <1>1. /\ b \in Bucket /\ b.start \in Instants /\ b.count \in Nat /\ b.count < Limit
        /\ clock \in Instants /\ passed \subseteq Pass /\ PassInv /\ buckets \in [Peers -> Bucket]
    BY DEF IInv, TypeOK, Bucket, Full
  <1>2. Cardinality(In(passed, p, b.start)) = b.count
    BY DEF IInv, BucketInv
  <1>3. b.start <= clock
    <2>1. In(passed, p, b.start) # {}
      BY <1>2, FS_EmptySet
    <2>2. PICK x \in passed : x.start = b.start
      BY <2>1 DEF In, PassesOf
    <2> QED
      BY <1>1, <2>2 DEF PassInv, Pass, Instants
  <1>4. buckets' = [buckets EXCEPT ![p].count = @ + 1]
    BY DEF LetThrough, Counted
  <1>5. /\ buckets'[p].start = b.start /\ buckets'[p].count = b.count + 1
        /\ \A r \in Peers \ {p} : buckets'[r] = buckets[r]
    BY <1>1, <1>4 DEF Bucket
  <1>6. buckets' \in [Peers -> Bucket]
    BY <1>1, <1>4 DEF Bucket
  <1>7. passed' = passed \cup {[peer |-> p, no |-> Cardinality(PassesOf(p)) + 1,
                                at |-> clock, start |-> b.start]}
    BY <1>1 DEF LetThrough, Counted, Bucket
  <1>8. \A x \in PassesOf(p) : x.start # b.start => Over(x, b.start) /\ x.start + Window <= clock
    BY DEF IInv, BucketInv
  <1> HIDE DEF b
  <1>9. /\ passed' \subseteq Pass /\ PassInv' /\ SizeInv' /\ OrderInv'
        /\ Cardinality(In(passed', p, b.start)) = Cardinality(In(passed, p, b.start)) + 1
        /\ \A x \in PassesOf(p)' : x.start = b.start \/ x \in PassesOf(p)
        /\ \A r \in Peers \ {p} : PassesOf(r)' = PassesOf(r)
                                  /\ \A t : In(passed', r, t) = In(passed, r, t)
    BY <1>1, <1>2, <1>3, <1>7, <1>8, NewPass
  <1>10. BucketInv'
    <2> SUFFICES ASSUME NEW r \in Peers
                 PROVE  /\ buckets'[r].count # 0 =>
                              Cardinality(In(passed', r, buckets'[r].start)) = buckets'[r].count
                        /\ \A x \in PassesOf(r)' :
                              buckets'[r].count = 0 \/ x.start # buckets'[r].start =>
                                 x.start + Window <= clock
                        /\ \A x \in PassesOf(r)' :
                              buckets'[r].count # 0 /\ x.start # buckets'[r].start =>
                                 Over(x, buckets'[r].start)
      BY DEF BucketInv, Over
    <2>1. CASE r = p
      <3>1. buckets'[p].count # 0
        BY <1>1, <1>5
      <3> QED
        BY <1>2, <1>5, <1>8, <1>9, <2>1, <3>1
    <2>2. CASE r # p
      BY <1>5, <1>9, <2>2 DEF IInv, BucketInv
    <2> QED
      BY <2>1, <2>2
  <1> QED
    BY <1>6, <1>9, <1>10

\* When the bucket of a peer is not current, all that the peer was let through
\* for was counted in buckets whose window is over.
LEMMA StaleOver ==
    ASSUME IInv, NEW r \in Peers, NEW now \in Instants, now <= clock, ~Current(buckets[r], now),
           NEW x \in PassesOf(r)
    PROVE  x \in Pass /\ x.start + Window <= clock
  <1> USE LimiterAssumption
  <1>1. /\ buckets[r] \in Bucket /\ clock \in Instants /\ x \in Pass
    BY DEF IInv, TypeOK, PassesOf
  <1>2. CASE buckets[r].count = 0 \/ x.start # buckets[r].start
    BY <1>1, <1>2 DEF IInv, BucketInv
  <1>3. CASE buckets[r].count # 0 /\ x.start = buckets[r].start
    BY <1>1, <1>3 DEF Current, Bucket, Instants
  <1> QED
    BY <1>1, <1>2, <1>3

\* There is no bucket or it is over: a new one is opened at the time of the
\* request, and the buckets that are over at that time are pruned.
LEMMA OpenedInv ==
    ASSUME IInv, NEW p \in Peers, NEW now \in Instants, now <= clock, clock - now <= MaxWait,
           ~Current(buckets[p], now), LetThrough(p, Opened(p, now)), UNCHANGED clock
    PROVE  /\ buckets' \in [Peers -> Bucket] /\ passed' \subseteq Pass
           /\ PassInv' /\ SizeInv' /\ OrderInv' /\ BucketInv'
  <1> USE LimiterAssumption
  <1>1. /\ clock \in Instants /\ PassInv /\ passed \subseteq Pass /\ buckets \in [Peers -> Bucket]
    BY DEF IInv, TypeOK
  <1>2. \A x \in PassesOf(p) : Over(x, now) /\ x.start + Window <= clock /\ x.start # now
    <2> SUFFICES ASSUME NEW x \in PassesOf(p)
                 PROVE  Over(x, now) /\ x.start + Window <= clock /\ x.start # now
      OBVIOUS
    <2>1. x \in Pass /\ x.start + Window <= clock
      BY StaleOver
    <2>2. x.at <= clock
      BY <1>1 DEF PassInv, PassesOf
    <2> QED
      BY <1>1, <2>1, <2>2 DEF Over, Pass, Instants
  <1>3. In(passed, p, now) = {}
    BY <1>2 DEF In, PassesOf
  <1>4. Cardinality(In(passed, p, now)) = 0
    BY <1>3, FS_EmptySet
  <1>5. passed' = passed \cup {[peer |-> p, no |-> Cardinality(PassesOf(p)) + 1,
                                at |-> clock, start |-> now]}
    BY DEF LetThrough, Opened
  <1>6. /\ passed' \subseteq Pass /\ PassInv' /\ SizeInv' /\ OrderInv'
        /\ Cardinality(In(passed', p, now)) = Cardinality(In(passed, p, now)) + 1
        /\ \A x \in PassesOf(p)' : x.start = now \/ x \in PassesOf(p)
        /\ \A r \in Peers \ {p} : PassesOf(r)' = PassesOf(r)
                                  /\ \A t : In(passed', r, t) = In(passed, r, t)
    <2>1. Cardinality(In(passed, p, now)) < Limit
      BY <1>4
    <2>2. \A x \in PassesOf(p) : x.start # now => Over(x, now) /\ x.start + Window <= clock
      BY <1>2
    <2> QED
      BY <1>5, <2>1, <2>2, NewPass
  <1>7. /\ buckets'[p].start = now /\ buckets'[p].count = 1
        /\ \A r \in Peers \ {p} :
              buckets'[r] = IF Current(buckets[r], now) THEN buckets[r] ELSE NoBucket
    BY DEF LetThrough, Opened
  <1>8. buckets' \in [Peers -> Bucket]
    <2>1. [start |-> now, count |-> 1] \in Bucket /\ NoBucket \in Bucket
      BY <1>1 DEF Bucket, NoBucket, Instants
    <2> QED
      BY <1>1, <2>1 DEF LetThrough, Opened
  <1>9. BucketInv'
    <2> SUFFICES ASSUME NEW r \in Peers
                 PROVE  /\ buckets'[r].count # 0 =>
                              Cardinality(In(passed', r, buckets'[r].start)) = buckets'[r].count
                        /\ \A x \in PassesOf(r)' :
                              buckets'[r].count = 0 \/ x.start # buckets'[r].start =>
                                 x.start + Window <= clock
                        /\ \A x \in PassesOf(r)' :
                              buckets'[r].count # 0 /\ x.start # buckets'[r].start =>
                                 Over(x, buckets'[r].start)
      BY DEF BucketInv, Over
    <2>1. CASE r = p
      BY <1>2, <1>4, <1>6, <1>7, <2>1
    <2>2. CASE r # p /\ Current(buckets[r], now)
      BY <1>6, <1>7, <2>2 DEF IInv, BucketInv
    <2>3. CASE r # p /\ ~Current(buckets[r], now)
      <3>1. buckets'[r].count = 0 /\ PassesOf(r)' = PassesOf(r)
        BY <1>6, <1>7, <2>3 DEF NoBucket
      <3>2. \A x \in PassesOf(r) : x.start + Window <= clock
        BY <2>3, StaleOver
      <3> QED
        BY <3>1, <3>2
    <2> QED
      BY <2>1, <2>2, <2>3
  <1> QED
    BY <1>6, <1>8, <1>9

-----------------------------------------------------------------------------
(* The invariant is inductive *)

\* What the parts of the invariant about passes and buckets depend on
LEMMA SamePasses ==
    ASSUME IInv, UNCHANGED <<buckets, passed>>, clock' \in Instants, clock <= clock'
    PROVE  /\ (buckets \in [Peers -> Bucket] /\ passed \subseteq Pass)'
           /\ PassInv' /\ SizeInv' /\ OrderInv' /\ BucketInv'
  <1> USE LimiterAssumption
  <1>1. clock \in Instants /\ passed \subseteq Pass /\ buckets \in [Peers -> Bucket]
    BY DEF IInv, TypeOK
  <1>2. \A p : PassesOf(p)' = PassesOf(p)
    BY DEF PassesOf
  <1>3. PassInv'
    BY <1>1, <1>2 DEF IInv, PassInv, Pass, Instants
  <1>4. SizeInv' /\ OrderInv'
    BY DEF IInv, SizeInv, OrderInv, Over
  <1>5. BucketInv'
    <2> SUFFICES ASSUME NEW p \in Peers, NEW x \in PassesOf(p),
                        buckets[p].count = 0 \/ x.start # buckets[p].start
                 PROVE  x.start + Window <= clock'
      BY <1>2 DEF IInv, BucketInv, Over
    <2>1. x \in Pass /\ x.start + Window <= clock
      BY <1>1 DEF IInv, BucketInv, PassesOf
    <2> QED
      BY <1>1, <2>1 DEF Pass, Instants
  <1> QED
    BY <1>1, <1>3, <1>4, <1>5

\* allow keeps the invariant.
LEMMA AllowInv == ASSUME IInv, NEW q \in Requests, Allow(q) PROVE IInv'
  <1> USE LimiterAssumption
  <1>1. /\ requests[q] \in Request /\ requests[q].peer # NoPeer /\ WaitInv /\ TypeOK
        /\ requests' = [requests EXCEPT ![q] = IdleRequest] /\ clock' = clock
    BY DEF Allow, IInv, TypeOK
  <1>2. PICK p \in Peers : p = requests[q].peer
    BY <1>1 DEF Request
  <1>3. PICK now \in Instants : now = requests[q].now
    BY <1>1 DEF Request
  <1>4. now <= clock /\ clock - now <= MaxWait
    BY <1>1, <1>3 DEF WaitInv
  <1>5. /\ (buckets \in [Peers -> Bucket] /\ passed \subseteq Pass)'
        /\ PassInv' /\ SizeInv' /\ OrderInv' /\ BucketInv'
    <2>1. CASE ~Current(buckets[p], now)
      <3>1. LetThrough(p, Opened(p, now))
        BY <1>2, <1>3, <2>1 DEF Allow
      <3> QED
        BY <1>1, <1>4, <2>1, <3>1, OpenedInv
    <2>2. CASE Current(buckets[p], now) /\ Full(buckets[p])
      <3>1. UNCHANGED <<buckets, passed>>
        BY <1>2, <1>3, <2>2 DEF Allow, Refused
      <3> QED
        BY <1>1, <3>1, SamePasses DEF TypeOK, Instants
    <2>3. CASE Current(buckets[p], now) /\ ~Full(buckets[p])
      <3>1. LetThrough(p, Counted(p)) /\ buckets[p].count # 0
        BY <1>2, <1>3, <2>3 DEF Allow, Current
      <3> QED
        BY <1>1, <2>3, <3>1, CountedInv
    <2> QED
      BY <2>1, <2>2, <2>3
  <1>6. IdleRequest \in Request /\ IdleRequest.peer = NoPeer
    BY DEF IdleRequest, Request, Instants
  <1>7. TypeOK'
    BY <1>1, <1>5, <1>6 DEF TypeOK
  <1>8. WaitInv'
    BY <1>1, <1>6 DEF WaitInv, TypeOK
  <1> QED
    BY <1>5, <1>7, <1>8 DEF IInv

\* The arrival of a request keeps the invariant.
LEMMA ArriveInv == ASSUME IInv, NEW q \in Requests, NEW p \in Peers, Arrive(q, p) PROVE IInv'
  <1> USE LimiterAssumption
  <1>1. /\ WaitInv /\ TypeOK /\ UNCHANGED <<clock, buckets, passed>>
        /\ requests' = [requests EXCEPT ![q] = [peer |-> p, now |-> clock]]
    BY DEF Arrive, IInv
  <1>2. [peer |-> p, now |-> clock] \in Request
    BY <1>1 DEF TypeOK, Request
  <1>3. TypeOK'
    BY <1>1, <1>2 DEF TypeOK
  <1>4. WaitInv'
    BY <1>1 DEF WaitInv, TypeOK, Instants
  <1>5. PassInv' /\ SizeInv' /\ OrderInv' /\ BucketInv'
    BY <1>1, SamePasses DEF TypeOK, Instants
  <1> QED
    BY <1>3, <1>4, <1>5 DEF IInv

\* Time passes: nobody has waited for MaxWait yet.
LEMMA TickInv == ASSUME IInv, Tick PROVE IInv'
  <1> USE LimiterAssumption
  <1>1. WaitInv /\ TypeOK /\ clock' = clock + 1 /\ UNCHANGED <<buckets, requests, passed>>
    BY DEF Tick, IInv
  <1>2. clock' \in Instants /\ clock <= clock'
    BY <1>1 DEF Tick, TypeOK, Instants
  <1>3. TypeOK'
    BY <1>1, <1>2 DEF TypeOK
  <1>4. WaitInv'
    <2> SUFFICES ASSUME NEW q \in Requests, requests[q].peer # NoPeer
                 PROVE  requests[q].now <= clock' /\ clock' - requests[q].now <= MaxWait
      BY <1>1 DEF WaitInv
    <2>1. requests[q].now \in Int /\ clock \in Int /\ requests[q].now <= clock
      BY <1>1 DEF WaitInv, TypeOK, Request, Instants
    <2>2. clock - requests[q].now < MaxWait
      BY DEF Tick
    <2> QED
      BY <1>1, <2>1, <2>2
  <1>5. PassInv' /\ SizeInv' /\ OrderInv' /\ BucketInv'
    BY <1>1, <1>2, SamePasses
  <1> QED
    BY <1>3, <1>4, <1>5 DEF IInv

\* Every step keeps the invariant.
LEMMA NextInv == IInv /\ [Next]_vars => IInv'
  <1> SUFFICES ASSUME IInv, [Next]_vars PROVE IInv'
    OBVIOUS
  <1>1. CASE \E q \in Requests : Allow(q)
    BY <1>1, AllowInv
  <1>2. CASE \E q \in Requests, p \in Peers : Arrive(q, p)
    BY <1>2, ArriveInv
  <1>3. CASE Tick
    BY <1>3, TickInv
  <1>4. CASE UNCHANGED vars
    <2>1. TypeOK' /\ WaitInv'
      BY <1>4 DEF vars, IInv, TypeOK, WaitInv
    <2>2. clock' \in Instants /\ clock <= clock'
      BY <1>4 DEF vars, IInv, TypeOK, Instants
    <2>3. PassInv' /\ SizeInv' /\ OrderInv' /\ BucketInv'
      BY <1>4, <2>2, SamePasses DEF vars
    <2> QED
      BY <2>1, <2>3 DEF IInv
  <1> QED
    BY <1>1, <1>2, <1>3, <1>4 DEF Next

\* The inductive invariant holds in every reachable state.
THEOREM Inductive == Spec => []IInv
  BY InitInv, NextInv, PTL DEF Spec

\* The state of the limiter is well typed.
THEOREM TypeCorrect == Spec => []TypeOK
  BY Inductive, PTL DEF IInv

-----------------------------------------------------------------------------
(* The bound on bursts *)

\* Passes of one peer that were counted in one bucket are Limit at most.
LEMMA OneBucket ==
    ASSUME IInv, NEW p \in Peers, NEW S \in SUBSET PassesOf(p),
           \A x, y \in S : x.start = y.start
    PROVE  IsFiniteSet(S) /\ Cardinality(S) \in Nat /\ Cardinality(S) <= Limit
  <1> USE LimiterAssumption
  <1>1. IsFiniteSet(PassesOf(p))
    BY FinitePasses DEF IInv
  <1>2. IsFiniteSet(S) /\ Cardinality(S) \in Nat
    BY <1>1, FS_Subset, FS_CardinalityType
  <1>3. CASE S = {}
    BY <1>2, <1>3, FS_EmptySet
  <1>4. CASE S # {}
    <2>1. PICK x \in S : TRUE
      BY <1>4
    <2>2. x.start \in Instants
      BY DEF IInv, TypeOK, PassesOf, Pass
    <2>3. S \in SUBSET In(passed, p, x.start)
      BY <2>1 DEF In, PassesOf
    <2>4. IsFiniteSet(In(passed, p, x.start)) /\ Cardinality(In(passed, p, x.start)) \in Nat
      BY FinitePasses DEF IInv
    <2>5. Cardinality(In(passed, p, x.start)) <= Limit
      BY <2>2 DEF IInv, SizeInv
    <2>6. Cardinality(S) <= Cardinality(In(passed, p, x.start))
      BY <2>3, <2>4, FS_Subset
    <2> QED
      BY <1>2, <2>4, <2>5, <2>6
  <1> QED
    BY <1>2, <1>3, <1>4

\* A union has no more elements than its parts together.
LEMMA AtMostSum ==
    ASSUME NEW S, NEW T, IsFiniteSet(S), IsFiniteSet(T)
    PROVE  /\ IsFiniteSet(S \cup T) /\ Cardinality(S \cup T) \in Nat
           /\ Cardinality(S \cup T) <= Cardinality(S) + Cardinality(T)
  <1>1. /\ IsFiniteSet(S \cup T)
        /\ Cardinality(S \cup T) = Cardinality(S) + Cardinality(T) - Cardinality(S \cap T)
    BY FS_Union
  <1>2. IsFiniteSet(S \cap T)
    BY FS_Intersection
  <1>3. Cardinality(S) \in Nat /\ Cardinality(T) \in Nat /\ Cardinality(S \cap T) \in Nat
        /\ Cardinality(S \cup T) \in Nat
    BY <1>1, <1>2, FS_CardinalityType
  <1> QED
    BY <1>1, <1>3

\* The passes of a span are those of three buckets: one that was opened before
\* the span by more than MaxWait, one that was opened less than that before it,
\* and one that was opened in it.
LEMMA ThreeBuckets == IInv => BurstBound
  <1> SUFFICES ASSUME IInv, NEW p \in Peers, NEW i \in Instants
               PROVE  PassedIn(p, i, i + Window - 1) <= 3 * Limit
    BY DEF BurstBound
  <1> USE LimiterAssumption
  <1> DEFINE S == {x \in PassesOf(p) : i <= x.at /\ x.at <= i + Window - 1}
             A == {x \in S : x.start < i - MaxWait}
             B == {x \in S : i - MaxWait <= x.start /\ x.start < i}
             C == {x \in S : i <= x.start}
  <1>1. \A x \in S : /\ x \in passed /\ x.peer = p /\ x.at \in Int /\ x.start \in Int
                     /\ i <= x.at /\ x.at <= i + Window - 1
    BY DEF IInv, TypeOK, PassesOf, Pass, Instants
  <1>2. i \in Int /\ Window \in Int /\ MaxWait \in Int /\ 2 * MaxWait <= Window
    BY DEF Instants
  <1>3. \A x, y \in S : x.start < y.start =>
            /\ i - MaxWait <= y.start /\ x.start < i /\ x.start + MaxWait <= y.start
    <2> SUFFICES ASSUME NEW x \in S, NEW y \in S, x.start < y.start
                 PROVE  i - MaxWait <= y.start /\ x.start < i /\ x.start + MaxWait <= y.start
      OBVIOUS
    <2>1. Over(x, y.start) /\ x.start + Window <= y.at
      BY <1>1 DEF IInv, OrderInv
    <2>2. /\ x.at \in Int /\ x.start \in Int /\ y.at \in Int /\ y.start \in Int
          /\ i <= x.at /\ y.at <= i + Window - 1
      BY <1>1
    <2> HIDE DEF S
    <2> QED
      BY <1>2, <2>1, <2>2 DEF Over
  <1>4. \A x, y \in S : x.start \in Int /\ y.start \in Int
    BY <1>1
  <1>5. S = (A \cup B) \cup C
    BY <1>2, <1>4
  <1>6. A \in SUBSET PassesOf(p) /\ B \in SUBSET PassesOf(p) /\ C \in SUBSET PassesOf(p)
    OBVIOUS
  <1>7. /\ \A x, y \in A : x.start = y.start
        /\ \A x, y \in B : x.start = y.start
        /\ \A x, y \in C : x.start = y.start
    <2> HIDE DEF S
    <2> QED
      BY <1>2, <1>3, <1>4
  <1> HIDE DEF A, B, C
  <1>8. /\ IsFiniteSet(A) /\ Cardinality(A) \in Nat /\ Cardinality(A) <= Limit
        /\ IsFiniteSet(B) /\ Cardinality(B) \in Nat /\ Cardinality(B) <= Limit
        /\ IsFiniteSet(C) /\ Cardinality(C) \in Nat /\ Cardinality(C) <= Limit
    BY <1>6, <1>7, OneBucket
  <1>9. /\ IsFiniteSet(A \cup B) /\ Cardinality(A \cup B) \in Nat
        /\ Cardinality(A \cup B) <= Cardinality(A) + Cardinality(B)
    BY <1>8, AtMostSum
  <1>10. Cardinality((A \cup B) \cup C) \in Nat
         /\ Cardinality((A \cup B) \cup C) <= Cardinality(A \cup B) + Cardinality(C)
    BY <1>8, <1>9, AtMostSum
  <1>11. Cardinality(S) <= 3 * Limit
    <2>1. Cardinality(S) = Cardinality((A \cup B) \cup C)
      BY <1>5
    <2> HIDE DEF S
    <2> QED
      BY <1>8, <1>9, <1>10, <2>1
  <1> QED
    BY <1>11 DEF PassedIn

\* In any span of one window no peer is let through more than three times the
\* limit: for every limit and window, as long as a request never waits for the
\* mutex for more than half a window.
THEOREM BurstsBounded == Spec => []BurstBound
  BY Inductive, ThreeBuckets, PTL

-----------------------------------------------------------------------------
(* Refusals *)

\* A full bucket that is current was filled by its own peer, within the window
\* before the request.
LEMMA FullBucket ==
    ASSUME IInv, NEW p \in Peers, NEW now \in Instants,
           Current(buckets[p], now), Full(buckets[p])
    PROVE  PassedIn(p, now - Window + 1, clock) >= Limit
  <1> USE LimiterAssumption
  <1> DEFINE b == buckets[p]
             S == {x \in PassesOf(p) : now - Window + 1 <= x.at /\ x.at <= clock}
  <1>1. /\ b.start \in Int /\ b.count \in Nat /\ b.count # 0 /\ now \in Int
        /\ now - b.start < Window /\ b.count >= Limit
    BY DEF IInv, TypeOK, Bucket, Instants, Current, Full
  <1>2. Cardinality(In(passed, p, b.start)) = b.count
    BY <1>1 DEF IInv, BucketInv
  <1>3. In(passed, p, b.start) \in SUBSET S
    <2> SUFFICES ASSUME NEW x \in passed, x.peer = p, x.start = b.start
                 PROVE  now - Window + 1 <= x.at /\ x.at <= clock
      BY DEF In, PassesOf
    <2>1. x.start <= x.at /\ x.at <= clock /\ x.at \in Int
      BY DEF IInv, PassInv, TypeOK, Pass, Instants
    <2> HIDE DEF b
    <2> QED
      BY <1>1, <2>1
  <1>4. IsFiniteSet(S)
    <2>1. IsFiniteSet(PassesOf(p)) /\ S \in SUBSET PassesOf(p)
      BY FinitePasses DEF IInv
    <2> QED
      BY <2>1, FS_Subset
  <1>5. Cardinality(In(passed, p, b.start)) <= Cardinality(S) /\ Cardinality(S) \in Nat
    BY <1>3, <1>4, FS_Subset, FS_CardinalityType
  <1>6. Cardinality(S) >= Limit
    <2> HIDE DEF S, b
    <2> QED
      BY <1>1, <1>2, <1>5
  <1> QED
    BY <1>6 DEF PassedIn

\* Who is let through is recorded: passed changes.
LEMMA PassRecorded ==
    ASSUME IInv, NEW p \in Peers, NEW bs, LetThrough(p, bs)
    PROVE  passed' # passed
  <1> DEFINE c == Cardinality(PassesOf(p))
             y == [peer |-> p, no |-> c + 1, at |-> clock, start |-> bs[p].start]
  <1>1. c \in Nat
    BY FinitePasses DEF IInv
  <1>2. y \in passed' /\ y.peer = p /\ y.no = c + 1
    BY DEF LetThrough
  <1>3. ASSUME y \in passed PROVE FALSE
    <2>1. y.no <= c
      BY <1>2, <1>3 DEF IInv, PassInv
    <2> HIDE DEF c, y
    <2> QED
      BY <1>1, <1>2, <2>1
  <1> QED
    BY <1>2, <1>3

\* A request that ends and is not let through was refused.
LEMMA RefusedStep ==
    ASSUME IInv, [Next]_vars, NEW q \in Requests,
           requests[q].peer # NoPeer, requests'[q].peer = NoPeer, passed' = passed
    PROVE  PassedIn(requests[q].peer, requests[q].now - Window + 1, clock) >= Limit
  <1> USE LimiterAssumption
  <1>1. requests \in [Requests -> Request]
    BY DEF IInv, TypeOK
  <1>2. Allow(q)
    <2>1. ~Tick /\ ~UNCHANGED vars
      BY DEF Tick, vars
    <2>2. \A r \in Requests, p \in Peers : ~Arrive(r, p)
      BY <1>1 DEF Arrive
    <2>3. \A r \in Requests : Allow(r) => r = q
      BY <1>1 DEF Allow
    <2> QED
      BY <2>1, <2>2, <2>3 DEF Next
  <1>3. PICK p \in Peers, now \in Instants : p = requests[q].peer /\ now = requests[q].now
    BY <1>1 DEF Request
  <1>4. ~LetThrough(p, Opened(p, now)) /\ ~LetThrough(p, Counted(p))
    BY PassRecorded
  <1>5. Current(buckets[p], now) /\ Full(buckets[p])
    BY <1>2, <1>3, <1>4 DEF Allow
  <1> QED
    BY <1>3, <1>5, FullBucket

\* Who is refused has himself used up the limit, within the window before his
\* request: never for the requests of others or for old ones.
THEOREM RefusalsEarned == Spec => OnlyBusyRefused
  <1>1. ASSUME IInv, [Next]_vars
        PROVE  \A q \in Requests :
                 LET p == requests[q].peer
                 IN  p # NoPeer /\ requests'[q].peer = NoPeer /\ passed' = passed =>
                        PassedIn(p, requests[q].now - Window + 1, clock) >= Limit
    BY <1>1, RefusedStep
  <1> QED
    BY <1>1, Inductive, PTL DEF Spec, OnlyBusyRefused

=============================================================================
