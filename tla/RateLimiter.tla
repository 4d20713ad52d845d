---------------------------- MODULE RateLimiter ----------------------------
(***************************************************************************)
(* The token buckets that limit the requests of a client                   *)
(* (internal/http/middleware/ratelimit): a table of buckets by key under   *)
(* one lock, a lock for each bucket, and a clean-up of idle buckets that   *)
(* every request may have to run.  A request reads the clock first, and    *)
(* works with that time while others go on.                                *)
(*                                                                         *)
(* Tokens are counted in parts: a request costs Cost of them, and Rate     *)
(* come back in a unit of time.                                            *)
(***************************************************************************)
EXTENDS Integers, Sequences, FiniteSets

CONSTANTS
    Procs,       \* requests under way, the goroutines of the HTTP server
    Keys,        \* the addresses of clients
    Buckets,     \* names for the bucket objects
    NoBucket, NoProc, NoKey,
    Cost, Rate, Burst, TTL,
    Minute,      \* the least interval of clean-ups
    MaxBuckets,  \* 0 for no limit
    Lag,         \* the longest time a call of Allow takes
    MaxTime      \* bound on the clock

ASSUME NamesAssumption == NoBucket \notin Buckets /\ NoProc \notin Procs /\ NoKey \notin Keys
ASSUME ConfigAssumption ==
    /\ Cost \in Nat \ {0} /\ Rate \in Nat \ {0} /\ Burst \in Nat \ {0}
    /\ TTL \in Nat /\ Minute \in Nat \ {0} /\ MaxBuckets \in Nat
    /\ Lag \in Nat /\ MaxTime \in Nat

VARIABLES
    clock,
    pc, key, now, held,   \* of each request: step, address, time, bucket
    mu, toVisit,          \* who cleans up with the table locked, keys left
    table,                \* the bucket of each key
    tokens, last, lastSeen,  \* of each bucket
    lastCleanup,
    orphans,              \* buckets that were removed from the table
    grants                \* when requests of a key passed by its bucket

request == <<pc, key, now, held>>
bucket == <<tokens, last, lastSeen>>
vars == <<clock, request, mu, toVisit, table, bucket, lastCleanup, orphans, grants>>

Capacity == Burst * Cost
Interval == IF TTL \div 2 > Minute THEN TTL \div 2 ELSE Minute
Never == -1

TypeOK ==
    /\ clock \in 0..MaxTime
    /\ pc \in [Procs -> {"idle", "cleanup", "sweep", "lookup", "create", "allow"}]
    /\ key \in [Procs -> Keys \cup {NoKey}]
    /\ now \in [Procs -> 0..MaxTime]
    /\ held \in [Procs -> Buckets \cup {NoBucket}]
    /\ mu \in Procs \cup {NoProc}
    /\ toVisit \in SUBSET Keys
    /\ table \in [Keys -> Buckets \cup {NoBucket}]
    /\ tokens \in [Buckets -> 0..Capacity]
    /\ last \in [Buckets -> 0..MaxTime]
    /\ lastSeen \in [Buckets -> 0..MaxTime]
    /\ lastCleanup \in {Never} \cup 0..MaxTime
    /\ orphans \in SUBSET Buckets
    /\ grants \in [Keys -> Seq(0..MaxTime)]

Init ==
    /\ clock = 0
    /\ pc = [p \in Procs |-> "idle"]
    /\ key = [p \in Procs |-> NoKey]
    /\ now = [p \in Procs |-> 0]
    /\ held = [p \in Procs |-> NoBucket]
    /\ mu = NoProc
    /\ toVisit = {}
    /\ table = [k \in Keys |-> NoBucket]
    /\ tokens = [b \in Buckets |-> 0]
    /\ last = [b \in Buckets |-> 0]
    /\ lastSeen = [b \in Buckets |-> 0]
    /\ lastCleanup = Never
    /\ orphans = {}
    /\ grants = [k \in Keys |-> <<>>]
-----------------------------------------------------------------------------
At(p, s) == pc[p] = s
Go(p, s) == pc' = [pc EXCEPT ![p] = s]

\* The call returns, and its variables end.
Done(p) ==
    /\ Go(p, "idle")
    /\ key' = [key EXCEPT ![p] = NoKey]
    /\ now' = [now EXCEPT ![p] = 0]
    /\ held' = [held EXCEPT ![p] = NoBucket]

\* A request comes: Allow reads the clock.
Arrive(p, k) ==
    /\ At(p, "idle")
    /\ Go(p, IF TTL = 0 THEN "lookup" ELSE "cleanup")
    /\ key' = [key EXCEPT ![p] = k]
    /\ now' = [now EXCEPT ![p] = clock]
    /\ UNCHANGED <<clock, held, mu, toVisit, table, bucket, lastCleanup, orphans, grants>>

\* maybeCleanup: it is too early ...
NoCleanup(p) ==
    /\ At(p, "cleanup") /\ mu = NoProc
    /\ lastCleanup # Never /\ now[p] - lastCleanup < Interval
    /\ Go(p, "lookup")
    /\ UNCHANGED <<clock, key, now, held, mu, toVisit, table, bucket, lastCleanup, orphans, grants>>

\* ... or this request does it, with the table locked.
StartCleanup(p) ==
    /\ At(p, "cleanup") /\ mu = NoProc
    /\ lastCleanup = Never \/ now[p] - lastCleanup >= Interval
    /\ lastCleanup' = now[p]
    /\ mu' = p
    /\ toVisit' = {k \in Keys : table[k] # NoBucket}
    /\ Go(p, "sweep")
    /\ UNCHANGED <<clock, key, now, held, table, bucket, orphans, grants>>

\* Mutant: the interval of clean-ups is taken for the time to live.
ExpiredEarly(p, b) == now[p] - lastSeen[b] > Interval

Expired(p, b) == now[p] - lastSeen[b] > TTL

\* One bucket is locked, looked at, and removed if it was idle.  Other
\* requests that hold it may use it before and after.
Sweep(p, k) ==
    /\ At(p, "sweep") /\ k \in toVisit
    /\ toVisit' = toVisit \ {k}
    /\ IF Expired(p, table[k])
       THEN /\ orphans' = orphans \cup {table[k]}
            /\ table' = [table EXCEPT ![k] = NoBucket]
       ELSE UNCHANGED <<orphans, table>>
    /\ UNCHANGED <<clock, request, mu, bucket, lastCleanup, grants>>

EndCleanup(p) ==
    /\ At(p, "sweep") /\ toVisit = {}
    /\ mu' = NoProc
    /\ Go(p, "lookup")
    /\ UNCHANGED <<clock, key, now, held, toVisit, table, bucket, lastCleanup, orphans, grants>>

\* getOrCreateBucket, with the read lock ...
Lookup(p) ==
    /\ At(p, "lookup") /\ mu = NoProc
    /\ held' = [held EXCEPT ![p] = table[key[p]]]
    /\ Go(p, IF table[key[p]] = NoBucket THEN "create" ELSE "allow")
    /\ UNCHANGED <<clock, key, now, mu, toVisit, table, bucket, lastCleanup, orphans, grants>>

\* A name that denotes no bucket of the table or of a request.
Free(b) == (\A k \in Keys : table[k] # b) /\ (\A p \in Procs : held[p] # b)

\* Mutant: the request found another's bucket, and uses one of its own.
FoundOwn(p) ==
    /\ At(p, "create") /\ mu = NoProc
    /\ table[key[p]] # NoBucket
    /\ \E b \in Buckets :
          /\ Free(b)
          /\ held' = [held EXCEPT ![p] = b]
          /\ tokens' = [tokens EXCEPT ![b] = Capacity]
    /\ Go(p, "allow")
    /\ UNCHANGED <<clock, key, now, mu, toVisit, table, last, lastSeen, lastCleanup, orphans, grants>>

\* ... and again with the write lock: another request was first, ...
Found(p) ==
    /\ At(p, "create") /\ mu = NoProc
    /\ table[key[p]] # NoBucket
    /\ held' = [held EXCEPT ![p] = table[key[p]]]
    /\ Go(p, "allow")
    /\ UNCHANGED <<clock, key, now, mu, toVisit, table, bucket, lastCleanup, orphans, grants>>

Size == Cardinality({k \in Keys : table[k] # NoBucket})

\* Mutant: one bucket more.
FullLater == MaxBuckets > 0 /\ Size > MaxBuckets

Full == MaxBuckets > 0 /\ Size >= MaxBuckets

\* ... there are too many buckets, and the request is refused, ...
Refuse(p) ==
    /\ At(p, "create") /\ mu = NoProc
    /\ table[key[p]] = NoBucket /\ Full
    /\ Done(p)
    /\ UNCHANGED <<clock, mu, toVisit, table, bucket, lastCleanup, orphans, grants>>

\* ... or a full bucket is put into the table.
Create(p, b) ==
    /\ At(p, "create") /\ mu = NoProc
    /\ table[key[p]] = NoBucket /\ ~Full /\ Free(b)
    /\ table' = [table EXCEPT ![key[p]] = b]
    /\ tokens' = [tokens EXCEPT ![b] = Capacity]
    /\ last' = [last EXCEPT ![b] = now[p]]
    /\ lastSeen' = [lastSeen EXCEPT ![b] = now[p]]
    /\ orphans' = orphans \ {b}
    /\ held' = [held EXCEPT ![p] = b]
    /\ Go(p, "allow")
    /\ UNCHANGED <<clock, key, now, mu, toVisit, lastCleanup, grants>>

Least(a, b) == IF a < b THEN a ELSE b

\* Mutant: the refill is not capped.
RefillUncapped(p, b) == IF now[p] > last[b] THEN tokens[b] + Rate * (now[p] - last[b]) ELSE tokens[b]

\* Mutant: only whole tokens come back, and the rest of the time is lost.
RefillWhole(p, b) ==
    IF now[p] > last[b] THEN Least(Capacity, tokens[b] + Cost * ((Rate * (now[p] - last[b])) \div Cost))
                        ELSE tokens[b]

\* The tokens a request finds.
Refill(p, b) ==
    IF now[p] > last[b] THEN Least(Capacity, tokens[b] + Rate * (now[p] - last[b]))
                        ELSE tokens[b]

\* The refill moves the bucket's time, never back.
NewLast(p, b) == IF now[p] > last[b] THEN now[p] ELSE last[b]

\* bucket.allow: refill, and pay if there is enough.
Allow(p) ==
    /\ At(p, "allow")
    /\ LET b == held[p]
           found == Refill(p, b)
           allowed == found >= Cost IN
         /\ tokens' = [tokens EXCEPT ![b] = IF allowed THEN found - Cost ELSE found]
         /\ last' = [last EXCEPT ![b] = NewLast(p, b)]
         /\ lastSeen' = [lastSeen EXCEPT ![b] = now[p]]
         /\ grants' = IF allowed /\ b \notin orphans
                      THEN [grants EXCEPT ![key[p]] = Append(@, clock)] ELSE grants
    /\ Done(p)
    /\ UNCHANGED <<clock, mu, toVisit, table, lastCleanup, orphans>>

\* Time passes, and no request takes longer than Lag.
Tick ==
    /\ clock < MaxTime
    /\ \A p \in Procs : ~At(p, "idle") => clock < now[p] + Lag
    /\ clock' = clock + 1
    /\ UNCHANGED <<request, mu, toVisit, table, bucket, lastCleanup, orphans, grants>>

Step(p) ==
    \/ \E k \in Keys : Arrive(p, k) \/ Sweep(p, k)
    \/ NoCleanup(p) \/ StartCleanup(p) \/ EndCleanup(p)
    \/ Lookup(p) \/ Found(p) \/ Refuse(p) \/ Allow(p)
    \/ \E b \in Buckets : Create(p, b)

Next == Tick \/ \E p \in Procs : Step(p)

Spec == Init /\ [][Next]_vars
-----------------------------------------------------------------------------
\* The table holds at most MaxBuckets buckets, however many requests create
\* one at the same time (getOrCreateBucket).
BucketLimit == MaxBuckets > 0 => Size <= MaxBuckets

\* Requests of a key use one bucket, unless the clean-up removed theirs: two
\* that found none at the same time do not create two.
OneBucketPerKey == \A p \in Procs :
    At(p, "allow") => held[p] \in orphans \/ table[key[p]] = held[p]

\* A bucket that is removed could have been full again, so a new one gives
\* nothing away.
TTLEnough == TTL = 0 \/ Rate * (TTL + 1 - 2 * Lag) >= Capacity

\* In any period a client passes at most Burst requests and those the rate
\* gives in the period and Lag, though its bucket may be removed and created
\* again, and requests carry old times.  (A request whose bucket was removed
\* after it had found it is not counted.)
KeyRate == \A k \in Keys : \A i, j \in DOMAIN grants[k] :
    i <= j => (j - i + 1) * Cost <= Capacity + Rate * (grants[k][j] - grants[k][i] + Lag)

\* A request that finds its client's bucket is denied only to a client over its
\* rate: since some request that passed, those that passed and this one are more
\* than Burst and what the rate gave until the time this one came with.  So no
\* token is lost to other requests, to clean-ups or to times out of order.
DeniedOverRate ==
    [][\A p \in Procs : LET k == key[p] IN
          At(p, "allow") /\ ~At(p, "allow")' /\ held[p] \notin orphans /\ grants'[k] = grants[k] =>
             \E i \in DOMAIN grants[k] :
                (Len(grants[k]) - i + 2) * Cost > Capacity + Rate * (now[p] - grants[k][i])]_vars
=============================================================================
