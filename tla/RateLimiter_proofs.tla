------------------------- MODULE RateLimiter_proofs -------------------------
(***************************************************************************)
(* For any number of requests, clients and buckets, any rate and burst:    *)
(* the table of buckets stays within its limit, requests of a client share *)
(* a bucket and, if idle buckets are kept long enough, the clean-up does   *)
(* not let a client pass more often than burst and rate say.               *)
(***************************************************************************)
EXTENDS RateLimiter, FiniteSetTheorems, TLAPS

\* The time a request works with is at most Lag old.
Times ==
    /\ \A p \in Procs : ~At(p, "idle") =>
          now[p] <= clock /\ clock <= now[p] + Lag /\ key[p] \in Keys
    /\ \A b \in Buckets :
          lastSeen[b] <= last[b] /\ last[b] <= lastSeen[b] + Lag /\ last[b] <= clock

\* The table is swept by the holder of its lock, and only there.
Sweeping ==
    /\ \A p \in Procs : At(p, "sweep") <=> mu = p
    /\ mu = NoProc => toVisit = {}
    /\ \A k \in toVisit : table[k] # NoBucket
    /\ TTL = 0 => \A p \in Procs : pc[p] \notin {"cleanup", "sweep"}

\* A bucket is one key's, or removed; who holds one holds the key's.
Ownership ==
    /\ \A k, l \in Keys : table[k] = table[l] /\ table[k] # NoBucket => k = l
    /\ \A k \in Keys : table[k] \notin orphans
    /\ \A p \in Procs : IF At(p, "allow")
                        THEN held[p] \in Buckets /\ (held[p] \in orphans \/ table[key[p]] = held[p])
                        ELSE held[p] = NoBucket

Used == {k \in Keys : table[k] # NoBucket}

WithinLimit == IsFiniteSet(Used) /\ BucketLimit

IInv == TypeOK /\ Times /\ Sweeping /\ Ownership /\ WithinLimit

\* What the grants from the i-th on have cost.
Spent(k, i) == (Len(grants[k]) - i + 1) * Cost

\* It is no more than a full bucket and what came back until the bucket's last
\* refill; without a bucket, what came back since.
Debt ==
    /\ \A k \in Keys : \A i \in DOMAIN grants[k] : grants[k][i] <= clock
    /\ \A k \in Keys : \A i \in DOMAIN grants[k] :
          IF table[k] = NoBucket
          THEN Spent(k, i) <= Rate * (clock - grants[k][i])
          ELSE Spent(k, i) + tokens[table[k]] <= Capacity + Rate * (last[table[k]] - grants[k][i] + Lag)

RateInv == Debt /\ KeyRate
-----------------------------------------------------------------------------
LEMMA MulMono == \A r \in Nat : \A a, b \in Int : a <= b => r * a <= r * b
OBVIOUS

LEMMA MulLater ==
    ASSUME NEW r \in Nat, NEW a \in Int, NEW b \in Int, NEW g \in Int, a <= b
    PROVE  r * (a - g) <= r * (b - g) /\ r * (a - g) \in Int /\ r * (b - g) \in Int
<1>1. a - g \in Int /\ b - g \in Int /\ a - g <= b - g
  OBVIOUS
<1>2. r * (a - g) <= r * (b - g)
  BY <1>1, MulMono
<1> QED BY <1>1, <1>2

LEMMA CapacityType == Capacity \in Nat
BY ConfigAssumption DEF Capacity

\* A request finds at least what the bucket held, at most its capacity.
LEMMA RefillType ==
    ASSUME TypeOK, NEW p \in Procs, NEW b \in Buckets
    PROVE  /\ Refill(p, b) \in 0..Capacity
           /\ Refill(p, b) <= tokens[b] + Rate * (NewLast(p, b) - last[b])
           /\ NewLast(p, b) \in {last[b], now[p]} /\ NewLast(p, b) >= now[p] /\ NewLast(p, b) >= last[b]
<1>1. tokens[b] \in 0..Capacity /\ last[b] \in 0..MaxTime /\ now[p] \in 0..MaxTime
  BY DEF TypeOK
<1>2. /\ tokens[b] \in Int /\ 0 <= tokens[b] /\ tokens[b] <= Capacity /\ Capacity \in Int
      /\ last[b] \in Int /\ now[p] \in Int
  BY <1>1, CapacityType, ConfigAssumption
<1>3. CASE now[p] > last[b]
  <2>1. now[p] - last[b] \in Nat /\ Rate \in Nat
    BY <1>2, <1>3, ConfigAssumption
  <2>2. Rate * (now[p] - last[b]) \in Nat
    BY <2>1
  <2> DEFINE x == Rate * (now[p] - last[b])
  <2>3. Refill(p, b) = Least(Capacity, tokens[b] + x) /\ NewLast(p, b) = now[p]
    BY <1>3 DEF Refill, NewLast
  <2>4. x \in Nat
    BY <2>2
  <2>5. Rate * (NewLast(p, b) - last[b]) = x
    BY <2>3
  <2> HIDE DEF x
  <2>6. Refill(p, b) \in 0..Capacity /\ Refill(p, b) <= tokens[b] + x
    BY <1>2, <2>3, <2>4 DEF Least
  <2> QED BY <1>2, <1>3, <2>3, <2>5, <2>6
<1>4. CASE ~(now[p] > last[b])
  <2>1. Refill(p, b) = tokens[b] /\ NewLast(p, b) = last[b]
    BY <1>4 DEF Refill, NewLast
  <2>2. Rate * (last[b] - last[b]) = 0
    BY <1>2, ConfigAssumption
  <2> QED BY <1>1, <1>2, <1>4, <2>1, <2>2
<1> QED BY <1>3, <1>4

LEMMA InitInv == Init => IInv
<1> SUFFICES ASSUME Init PROVE IInv
  OBVIOUS
<1> USE DEF Init
<1>1. TypeOK
  BY CapacityType, ConfigAssumption DEF TypeOK
<1>2. Times /\ Sweeping /\ Ownership
  BY ConfigAssumption, NamesAssumption DEF Times, Sweeping, Ownership, At
<1>3. Used = {}
  BY DEF Used
<1>4. WithinLimit
  <2>1. IsFiniteSet(Used) /\ Cardinality(Used) = 0
    BY <1>3, FS_EmptySet
  <2> QED BY <2>1, ConfigAssumption DEF WithinLimit, BucketLimit, Size, Used
<1> QED BY <1>1, <1>2, <1>4 DEF IInv

\* Steps that leave the table alone keep it within its limit.
LEMMA TableKept ==
    ASSUME WithinLimit, UNCHANGED table
    PROVE  WithinLimit'
BY DEF WithinLimit, BucketLimit, Used, Size

LEMMA ArriveInv ==
    ASSUME IInv, NEW p \in Procs, NEW k \in Keys, Arrive(p, k)
    PROVE  IInv'
<1> USE DEF IInv, Arrive, At, Go, bucket
<1>1. TypeOK'
  BY DEF TypeOK
<1>2. Times'
  BY ConfigAssumption DEF Times, TypeOK
<1>3. Sweeping'
  BY DEF Sweeping, TypeOK
<1>4. Ownership'
  BY DEF Ownership, TypeOK
<1> QED BY <1>1, <1>2, <1>3, <1>4, TableKept

LEMMA NoCleanupInv ==
    ASSUME IInv, NEW p \in Procs, NoCleanup(p)
    PROVE  IInv'
<1> USE DEF IInv, NoCleanup, At, Go, bucket
<1>1. TypeOK'
  BY DEF TypeOK
<1>2. Times'
  BY DEF Times, TypeOK
<1>3. Sweeping'
  BY DEF Sweeping, TypeOK
<1>4. Ownership'
  BY DEF Ownership, TypeOK
<1> QED BY <1>1, <1>2, <1>3, <1>4, TableKept

LEMMA StartCleanupInv ==
    ASSUME IInv, NEW p \in Procs, StartCleanup(p)
    PROVE  IInv'
<1> USE DEF IInv, StartCleanup, At, Go, bucket
<1>1. TypeOK'
  BY DEF TypeOK
<1>2. Times'
  BY DEF Times, TypeOK
<1>3. Sweeping'
  BY NamesAssumption DEF Sweeping, TypeOK
<1>4. Ownership'
  BY DEF Ownership, TypeOK
<1> QED BY <1>1, <1>2, <1>3, <1>4, TableKept

LEMMA SweepInv ==
    ASSUME IInv, NEW p \in Procs, NEW k \in Keys, Sweep(p, k)
    PROVE  IInv'
<1> USE DEF IInv, Sweep, At, request, bucket
<1>1. table[k] \in Buckets
  BY DEF Sweeping, TypeOK
<1>2. TypeOK'
  BY <1>1 DEF TypeOK
<1>3. Times'
  BY DEF Times
<1>4. Sweeping'
  BY NamesAssumption DEF Sweeping, TypeOK, Ownership
<1>5. Ownership'
  <2>1. CASE UNCHANGED <<orphans, table>>
    BY <2>1 DEF Ownership
  <2>2. CASE orphans' = orphans \cup {table[k]} /\ table' = [table EXCEPT ![k] = NoBucket]
    <3>1. \A l, m \in Keys : table'[l] = table'[m] /\ table'[l] # NoBucket => l = m
      BY <2>2 DEF Ownership, TypeOK
    <3>2. \A l \in Keys : table'[l] \notin orphans'
      <4>1. orphans \subseteq Buckets
        BY DEF TypeOK
      <4> QED BY <1>1, <2>2, <4>1, NamesAssumption DEF Ownership, TypeOK
    <3>3. \A q \in Procs : IF At(q, "allow")'
                            THEN held'[q] \in Buckets /\ (held'[q] \in orphans' \/ table'[key'[q]] = held'[q])
                            ELSE held'[q] = NoBucket
      BY <2>2 DEF Ownership, TypeOK
    <3> QED BY <3>1, <3>2, <3>3 DEF Ownership
  <2> QED BY <2>1, <2>2
<1>6. WithinLimit'
  <2>1. CASE UNCHANGED table
    BY <2>1, TableKept
  <2>2. CASE table' = [table EXCEPT ![k] = NoBucket]
    <3>1. Used' = Used \ {k} /\ k \in Used
      BY <1>1, <2>2, NamesAssumption DEF Used, TypeOK
    <3>2. IsFiniteSet(Used') /\ Cardinality(Used') = Cardinality(Used) - 1
      BY <3>1, FS_RemoveElement DEF WithinLimit
    <3>3. Cardinality(Used) \in Nat
      BY FS_CardinalityType DEF WithinLimit
    <3> QED BY <3>2, <3>3, ConfigAssumption DEF WithinLimit, BucketLimit, Size, Used
  <2> QED BY <2>1, <2>2
<1> QED BY <1>2, <1>3, <1>4, <1>5, <1>6

LEMMA EndCleanupInv ==
    ASSUME IInv, NEW p \in Procs, EndCleanup(p)
    PROVE  IInv'
<1> USE DEF IInv, EndCleanup, At, Go, bucket
<1>1. TypeOK'
  BY DEF TypeOK
<1>2. Times'
  BY DEF Times, TypeOK
<1>3. Sweeping'
  BY NamesAssumption DEF Sweeping, TypeOK
<1>4. Ownership'
  BY DEF Ownership, TypeOK
<1> QED BY <1>1, <1>2, <1>3, <1>4, TableKept

LEMMA LookupInv ==
    ASSUME IInv, NEW p \in Procs, Lookup(p)
    PROVE  IInv'
<1> USE DEF IInv, Lookup, At, Go, bucket
<1>1. key[p] \in Keys /\ table[key[p]] \in Buckets \cup {NoBucket}
  BY DEF Times, TypeOK
<1>2. TypeOK'
  BY <1>1 DEF TypeOK
<1>3. Times'
  BY DEF Times, TypeOK
<1>4. Sweeping'
  BY NamesAssumption DEF Sweeping, TypeOK
<1>5. Ownership'
  BY <1>1 DEF Ownership, TypeOK
<1> QED BY <1>2, <1>3, <1>4, <1>5, TableKept

LEMMA FoundInv ==
    ASSUME IInv, NEW p \in Procs, Found(p)
    PROVE  IInv'
<1> USE DEF IInv, Found, At, Go, bucket
<1>1. key[p] \in Keys /\ table[key[p]] \in Buckets
  BY DEF Times, TypeOK
<1>2. TypeOK'
  BY <1>1 DEF TypeOK
<1>3. Times'
  BY DEF Times, TypeOK
<1>4. Sweeping'
  BY NamesAssumption DEF Sweeping, TypeOK
<1>5. Ownership'
  BY <1>1 DEF Ownership, TypeOK
<1> QED BY <1>2, <1>3, <1>4, <1>5, TableKept

LEMMA RefuseInv ==
    ASSUME IInv, NEW p \in Procs, Refuse(p)
    PROVE  IInv'
<1> USE DEF IInv, Refuse, Done, At, Go, bucket
<1>1. TypeOK'
  BY ConfigAssumption DEF TypeOK
<1>2. Times'
  BY DEF Times, TypeOK
<1>3. Sweeping'
  BY NamesAssumption DEF Sweeping, TypeOK
<1>4. Ownership'
  BY DEF Ownership, TypeOK
<1> QED BY <1>1, <1>2, <1>3, <1>4, TableKept

LEMMA CreateInv ==
    ASSUME IInv, NEW p \in Procs, NEW b \in Buckets, Create(p, b)
    PROVE  IInv'
<1> USE DEF IInv, Create, At, Go
<1>1. key[p] \in Keys /\ now[p] <= clock /\ clock <= now[p] + Lag
  BY DEF Times
<1>2. TypeOK'
  BY <1>1, CapacityType DEF TypeOK
<1>3. Times'
  BY <1>1, ConfigAssumption DEF Times, TypeOK
<1>4. Sweeping'
  BY NamesAssumption DEF Sweeping, TypeOK
<1>5. Ownership'
  BY <1>1, NamesAssumption DEF Ownership, TypeOK, Free
<1>6. WithinLimit'
  <2>1. Used' = Used \cup {key[p]} /\ key[p] \notin Used
    BY <1>1, NamesAssumption DEF Used, TypeOK
  <2>2. IsFiniteSet(Used') /\ Cardinality(Used') = Cardinality(Used) + 1
    BY <2>1, FS_AddElement DEF WithinLimit
  <2>3. Cardinality(Used) \in Nat
    BY FS_CardinalityType DEF WithinLimit
  <2> QED BY <2>2, <2>3, ConfigAssumption DEF WithinLimit, BucketLimit, Full, Size, Used
<1> QED BY <1>2, <1>3, <1>4, <1>5, <1>6

LEMMA AllowInv ==
    ASSUME IInv, NEW p \in Procs, Allow(p)
    PROVE  IInv'
<1> DEFINE b == held[p]
           found == Refill(p, b)
<1> USE DEF IInv, Done, At, Go
<1>1. /\ b \in Buckets /\ key[p] \in Keys
      /\ now[p] <= clock /\ clock <= now[p] + Lag /\ now[p] \in Int /\ clock \in 0..MaxTime
  BY DEF Allow, Ownership, Times, TypeOK
<1>2. found \in 0..Capacity
  BY <1>1, RefillType
<1>3. tokens' \in [Buckets -> 0..Capacity]
  <2>1. \E t \in 0..Capacity : tokens' = [tokens EXCEPT ![b] = t]
    <3>1. found >= Cost => found - Cost \in 0..Capacity
      BY <1>2, CapacityType, ConfigAssumption
    <3> QED BY <1>2, <3>1 DEF Allow
  <2> QED BY <1>1, <2>1 DEF TypeOK
<1>4. /\ NewLast(p, b) \in {last[b], now[p]}
      /\ NewLast(p, b) >= now[p] /\ NewLast(p, b) >= last[b]
      /\ last' = [last EXCEPT ![b] = NewLast(p, b)]
      /\ lastSeen' = [lastSeen EXCEPT ![b] = now[p]]
  BY <1>1, RefillType DEF Allow
<1> HIDE DEF found
<1>5. grants' \in [Keys -> Seq(0..MaxTime)]
  <2>1. \/ grants' = grants
        \/ grants' = [grants EXCEPT ![key[p]] = Append(grants[key[p]], clock)]
    BY DEF Allow
  <2>2. Append(grants[key[p]], clock) \in Seq(0..MaxTime)
    BY <1>1 DEF TypeOK
  <2> QED BY <2>1, <2>2 DEF TypeOK
<1>6. /\ UNCHANGED <<clock, mu, toVisit, table, lastCleanup, orphans>>
      /\ pc' = [pc EXCEPT ![p] = "idle"] /\ pc[p] = "allow"
      /\ key' = [key EXCEPT ![p] = NoKey]
      /\ now' = [now EXCEPT ![p] = 0]
      /\ held' = [held EXCEPT ![p] = NoBucket]
  BY DEF Allow
<1> HIDE DEF b
<1>7. TypeOK'
  BY <1>1, <1>3, <1>4, <1>5, <1>6, ConfigAssumption DEF TypeOK
<1>8. Times'
  BY <1>1, <1>4, <1>6, ConfigAssumption DEF Times, TypeOK
<1>9. Sweeping'
  BY <1>6, NamesAssumption DEF Sweeping, TypeOK
<1>10. Ownership'
  BY <1>6 DEF Ownership, TypeOK
<1> QED BY <1>6, <1>7, <1>8, <1>9, <1>10, TableKept

LEMMA TickInv == IInv /\ Tick => IInv'
<1> SUFFICES ASSUME IInv, Tick PROVE IInv'
  OBVIOUS
<1> USE DEF IInv, Tick, request, bucket
<1>1. TypeOK'
  BY ConfigAssumption DEF TypeOK
<1>2. Times'
  BY ConfigAssumption DEF Times, TypeOK, At
<1>3. Sweeping' /\ Ownership'
  BY DEF Sweeping, Ownership, At
<1> QED BY <1>1, <1>2, <1>3, TableKept

LEMMA NextInv == IInv /\ [Next]_vars => IInv'
<1> SUFFICES ASSUME IInv, [Next]_vars PROVE IInv'
  OBVIOUS
<1>1. CASE UNCHANGED vars
  <2> USE <1>1 DEF IInv, vars, request, bucket
  <2>1. TypeOK' /\ Times' /\ Sweeping' /\ Ownership'
    BY DEF TypeOK, Times, Sweeping, Ownership, At
  <2> QED BY <2>1, TableKept
<1>2. CASE Tick
  BY <1>2, TickInv
<1>3. ASSUME NEW p \in Procs, Step(p)
      PROVE  IInv'
  BY <1>3, ArriveInv, SweepInv, NoCleanupInv, StartCleanupInv, EndCleanupInv, LookupInv,
     FoundInv, RefuseInv, AllowInv, CreateInv DEF Step
<1> QED BY <1>1, <1>2, <1>3 DEF Next

\* The inductive invariant of table, locks and times.
THEOREM Invariance == Spec => []IInv
BY InitInv, NextInv, PTL DEF Spec

\* Type correctness: the tokens of a bucket stay between none and its capacity.
THEOREM TypeCorrect == Spec => []TypeOK
BY Invariance, PTL DEF IInv

\* getOrCreateBucket keeps the table within MaxBuckets.
THEOREM TableIsBounded == Spec => []BucketLimit
BY Invariance, PTL DEF IInv, WithinLimit

\* Requests of a key that find no bucket at the same time use the same one.
THEOREM BucketIsShared == Spec => []OneBucketPerKey
<1>1. IInv => OneBucketPerKey
  BY DEF IInv, Ownership, OneBucketPerKey
<1> QED BY <1>1, Invariance, PTL
-----------------------------------------------------------------------------
(***************************************************************************)
(* The rate of a client.                                                   *)
(***************************************************************************)
LEMMA SeqMember ==
    ASSUME NEW S, NEW g \in Seq(S), NEW i \in DOMAIN g
    PROVE  g[i] \in S /\ i \in 1..Len(g) /\ Len(g) \in Nat
OBVIOUS

LEMMA GrantType ==
    ASSUME IInv, NEW k \in Keys, NEW i \in DOMAIN grants[k]
    PROVE  /\ grants[k][i] \in Int /\ i \in Nat /\ Len(grants[k]) \in Nat
           /\ 1 <= i /\ i <= Len(grants[k])
           /\ Spent(k, i) \in Int /\ clock \in Nat
<1>1. grants[k] \in Seq(0..MaxTime)
  BY DEF IInv, TypeOK
<1>2. grants[k][i] \in 0..MaxTime /\ i \in 1..Len(grants[k]) /\ Len(grants[k]) \in Nat
  BY <1>1, SeqMember
<1>3. Len(grants[k]) - i + 1 \in Int /\ Cost \in Int
  BY <1>2, ConfigAssumption
<1> QED BY <1>2, <1>3, ConfigAssumption DEF Spent, IInv, TypeOK

LEMMA RateKept ==
    ASSUME RateInv, UNCHANGED <<clock, table, tokens, last, grants>>
    PROVE  RateInv'
BY DEF RateInv, Debt, KeyRate, Spent

LEMMA RateInit == Init => RateInv
BY DEF Init, RateInv, Debt, KeyRate

LEMMA RateTick == IInv /\ RateInv /\ Tick => RateInv'
<1> SUFFICES ASSUME IInv, RateInv, Tick PROVE RateInv'
  OBVIOUS
<1>1. KeyRate'
  BY DEF RateInv, KeyRate, Tick
<1>2. /\ UNCHANGED <<table, tokens, last, grants>>
      /\ clock \in Int /\ clock' \in Int /\ clock <= clock'
  BY DEF Tick, bucket, IInv, TypeOK
<1>3. ASSUME NEW k \in Keys, NEW i \in DOMAIN grants[k]
      PROVE  /\ grants[k][i] <= clock'
             /\ table[k] = NoBucket => Spent(k, i) <= Rate * (clock' - grants[k][i])
  <2> DEFINE g == grants[k][i]
             o == Spent(k, i)
  <2>1. g \in Int /\ o \in Int /\ g <= clock
    BY <1>3, GrantType DEF RateInv, Debt
  <2>2. table[k] = NoBucket => o <= Rate * (clock - g)
    BY <1>3 DEF RateInv, Debt
  <2>3. clock \in Int /\ clock' \in Int /\ clock <= clock' /\ Rate \in Nat
    BY <1>2, ConfigAssumption
  <2> HIDE DEF g, o
  <2>4. Rate * (clock - g) <= Rate * (clock' - g) /\ Rate * (clock - g) \in Int /\ Rate * (clock' - g) \in Int
    BY <2>1, <2>3, MulLater
  <2>5. table[k] = NoBucket => o <= Rate * (clock' - g)
    BY <2>1, <2>2, <2>4
  <2>6. g <= clock' /\ (table[k] = NoBucket => o <= Rate * (clock' - g))
    BY <2>1, <2>3, <2>5
  <2> QED BY <2>6 DEF g, o
<1>4. ASSUME NEW k \in Keys, NEW i \in DOMAIN grants[k]
      PROVE  IF table[k] = NoBucket
             THEN Spent(k, i) <= Rate * (clock' - grants[k][i])
             ELSE Spent(k, i) + tokens[table[k]] <= Capacity + Rate * (last[table[k]] - grants[k][i] + Lag)
  <2>1. CASE table[k] = NoBucket
    BY <1>3, <1>4, <2>1
  <2>2. CASE table[k] # NoBucket
    BY <1>4, <2>2 DEF RateInv, Debt
  <2> QED BY <2>1, <2>2
<1>5. \A k, i : Spent(k, i)' = Spent(k, i)
  BY <1>2 DEF Spent
<1>6. Debt'
  BY <1>2, <1>3, <1>4, <1>5 DEF Debt
<1> QED BY <1>1, <1>6 DEF RateInv

\* A bucket that is removed could have been full again, with Lag to spare.
LEMMA RateSweep ==
    ASSUME TTLEnough, IInv, RateInv, NEW p \in Procs, NEW l \in Keys, Sweep(p, l)
    PROVE  RateInv'
<1> USE DEF Sweep, bucket
<1>1. CASE UNCHANGED table
  BY <1>1, RateKept
<1>2. CASE Expired(p, table[l]) /\ table' = [table EXCEPT ![l] = NoBucket]
  <2> DEFINE b == table[l]
             x == last[b]
  <2>1. b \in Buckets /\ table[l] # NoBucket /\ TTL # 0
    BY DEF IInv, Sweeping, TypeOK, At
  <2>2. /\ clock - x >= TTL + 1 - Lag
        /\ x \in Int /\ clock \in Int /\ tokens[b] \in Nat /\ TTL \in Int /\ Lag \in Int
    <3>1. now[p] - lastSeen[b] > TTL /\ now[p] <= clock
      BY <1>2 DEF Expired, IInv, Times, At
    <3>2. x <= lastSeen[b] + Lag
      BY <2>1 DEF IInv, Times
    <3>3. /\ now[p] \in Int /\ lastSeen[b] \in Int /\ clock \in Int /\ x \in Int
          /\ tokens[b] \in Nat
      BY <2>1, CapacityType DEF IInv, TypeOK
    <3> HIDE DEF b, x
    <3> QED BY <3>1, <3>2, <3>3, ConfigAssumption
  <2> HIDE DEF b, x
  <2>3. Capacity + Rate * Lag <= Rate * (clock - x)
    <3>1. Rate * (TTL + 1 - 2 * Lag) >= Capacity
      BY <2>1 DEF TTLEnough
    <3>2. Rate * (TTL + 1 - Lag) = Rate * (TTL + 1 - 2 * Lag) + Rate * Lag
      BY <2>2, ConfigAssumption
    <3>3. Rate * (TTL + 1 - Lag) <= Rate * (clock - x)
      <4>1. TTL + 1 - Lag \in Int /\ clock - x \in Int /\ TTL + 1 - Lag <= clock - x
        BY <2>2
      <4> QED BY <4>1, MulMono, ConfigAssumption
    <3>4. /\ Rate * (TTL + 1 - Lag) \in Int /\ Rate * (TTL + 1 - 2 * Lag) \in Int
          /\ Rate * Lag \in Int /\ Rate * (clock - x) \in Int /\ Capacity \in Int
      BY <2>2, CapacityType, ConfigAssumption
    <3> QED BY <3>1, <3>2, <3>3, <3>4
  <2>4. ASSUME NEW i \in DOMAIN grants[l]
        PROVE  Spent(l, i) <= Rate * (clock - grants[l][i])
    <3> DEFINE g == grants[l][i]
    <3>1. g \in Int /\ Spent(l, i) \in Int
      BY <2>4, GrantType
    <3>2. Spent(l, i) + tokens[b] <= Capacity + Rate * (x - g + Lag)
      BY <2>1, <2>4 DEF RateInv, Debt, b, x
    <3> HIDE DEF g
    <3>3. Rate * (x - g + Lag) + Rate * (clock - x) = Rate * (clock - g) + Rate * Lag
      BY <2>2, <3>1, ConfigAssumption
    <3>4. /\ Rate * (x - g + Lag) \in Int /\ Rate * (clock - x) \in Int
          /\ Rate * (clock - g) \in Int /\ Rate * Lag \in Int /\ Capacity \in Int
      BY <2>2, <3>1, CapacityType, ConfigAssumption
    <3>5. Spent(l, i) <= Rate * (clock - g)
      BY <2>2, <2>3, <3>1, <3>2, <3>3, <3>4
    <3> QED BY <3>5 DEF g
  <2>5. Debt'
    BY <1>2, <2>4 DEF RateInv, Debt, Spent, IInv, TypeOK
  <2>6. KeyRate'
    BY DEF RateInv, KeyRate
  <2> QED BY <2>5, <2>6 DEF RateInv
<1> QED BY <1>1, <1>2

\* A new bucket is full: the client had that much to come.
LEMMA RateCreate ==
    ASSUME IInv, RateInv, NEW p \in Procs, NEW b \in Buckets, Create(p, b)
    PROVE  RateInv'
<1> USE DEF Create
<1>1. /\ key[p] \in Keys /\ now[p] \in Int /\ clock \in Int /\ clock <= now[p] + Lag
      /\ table[key[p]] = NoBucket /\ \A k \in Keys : table[k] # b
  BY DEF IInv, Times, TypeOK, At, Free
<1>2. ASSUME NEW i \in DOMAIN grants[key[p]]
      PROVE  Spent(key[p], i) + Capacity <= Capacity + Rate * (now[p] - grants[key[p]][i] + Lag)
  <2> DEFINE g == grants[key[p]][i]
             o == Spent(key[p], i)
  <2>1. g \in Int /\ o \in Int
    BY <1>1, <1>2, GrantType
  <2>2. o <= Rate * (clock - g)
    BY <1>1, <1>2 DEF RateInv, Debt
  <2> HIDE DEF g, o
  <2>3. clock - g \in Int /\ now[p] - g + Lag \in Int /\ clock - g <= now[p] - g + Lag
    BY <1>1, <2>1, ConfigAssumption
  <2>4. Rate * (clock - g) <= Rate * (now[p] - g + Lag)
    BY <2>3, MulMono, ConfigAssumption
  <2>5. Rate * (clock - g) \in Int /\ Rate * (now[p] - g + Lag) \in Int /\ Capacity \in Int
    BY <2>3, CapacityType, ConfigAssumption
  <2>6. o + Capacity <= Capacity + Rate * (now[p] - g + Lag)
    BY <2>1, <2>2, <2>4, <2>5
  <2> QED BY <2>6 DEF g, o
<1>3. /\ \A k \in Keys : table'[k] = IF k = key[p] THEN b ELSE table[k]
      /\ tokens'[b] = Capacity /\ last'[b] = now[p] /\ UNCHANGED <<clock, grants>>
      /\ \A c \in Buckets : c # b => tokens'[c] = tokens[c] /\ last'[c] = last[c]
  BY DEF IInv, TypeOK
<1>4. \A k \in Keys : table[k] \in Buckets \cup {NoBucket}
  BY DEF IInv, TypeOK
<1>5. ASSUME NEW k \in Keys, NEW i \in DOMAIN grants[k]
      PROVE  IF table'[k] = NoBucket
             THEN Spent(k, i) <= Rate * (clock - grants[k][i])
             ELSE Spent(k, i) + tokens'[table'[k]]
                    <= Capacity + Rate * (last'[table'[k]] - grants[k][i] + Lag)
  <2>1. CASE k = key[p]
    BY <1>2, <1>3, <1>5, <2>1, NamesAssumption
  <2>2. CASE k # key[p]
    BY <1>1, <1>3, <1>4, <1>5, <2>2 DEF RateInv, Debt
  <2> QED BY <2>1, <2>2
<1>6. Debt'
  BY <1>3, <1>5 DEF RateInv, Debt, Spent
<1>7. KeyRate'
  BY DEF RateInv, KeyRate
<1> QED BY <1>6, <1>7 DEF RateInv

\* A request that passes, or not, with the refill it finds.
LEMMA RateAllow ==
    ASSUME IInv, RateInv, NEW p \in Procs, Allow(p)
    PROVE  RateInv'
<1>1. PICK b \in Buckets : b = held[p]
  BY DEF IInv, Ownership, Allow, At
<1>2. PICK k \in Keys : k = key[p]
  BY DEF IInv, Times, Allow, At
<1>3. PICK f \in 0..Capacity : f = Refill(p, b)
  BY <1>1, RefillType DEF IInv
<1>4. PICK n \in Int : /\ n = NewLast(p, b)
                       /\ n <= clock /\ clock <= n + Lag /\ n >= last[b]
                       /\ f <= tokens[b] + Rate * (n - last[b])
  <2>1. now[p] \in Int /\ last[b] \in Int /\ clock \in Int
    BY DEF IInv, TypeOK
  <2>2. now[p] <= clock /\ clock <= now[p] + Lag /\ last[b] <= clock
    BY DEF IInv, Times, Allow, At
  <2> QED BY <1>3, <2>1, <2>2, RefillType, ConfigAssumption DEF IInv
<1>5. /\ clock \in Int /\ last[b] \in Int /\ tokens[b] \in Nat /\ f \in Int /\ 0 <= f /\ f <= Capacity
      /\ Capacity \in Int /\ Rate \in Nat /\ Cost \in Nat /\ Cost > 0 /\ Lag \in Nat
      /\ n \in Int /\ n <= clock /\ clock <= n + Lag
  BY <1>3, <1>4, CapacityType, ConfigAssumption DEF IInv, TypeOK
<1>6. PICK t \in Int : /\ t = IF f >= Cost THEN f - Cost ELSE f
                       /\ t >= 0
                       /\ tokens' = [tokens EXCEPT ![b] = t]
  <2> DEFINE u == IF f >= Cost THEN f - Cost ELSE f
  <2>1. u \in Int /\ u >= 0
    BY <1>5
  <2>2. tokens' = [tokens EXCEPT ![b] = u]
    BY <1>1, <1>3, Zenon DEF Allow
  <2> QED BY <2>1, <2>2
<1>7. /\ last' = [last EXCEPT ![b] = n]
      /\ grants' = IF f >= Cost /\ b \notin orphans
                   THEN [grants EXCEPT ![k] = Append(grants[k], clock)] ELSE grants
      /\ UNCHANGED <<clock, table>>
  BY <1>1, <1>2, <1>3, <1>4 DEF Allow
<1>8. /\ tokens'[b] = t /\ last'[b] = n
      /\ \A c \in Buckets : c # b => tokens'[c] = tokens[c] /\ last'[c] = last[c]
      /\ \A l \in Keys : table[l] \in Buckets \cup {NoBucket}
      /\ \A l \in Keys : l # k => grants'[l] = grants[l]
  BY <1>6, <1>7 DEF IInv, TypeOK
<1>9. /\ b \in orphans \/ table[k] = b
      /\ b \in orphans => \A l \in Keys : table[l] # b
      /\ b \notin orphans => \A l \in Keys : l # k => table[l] # b
  BY <1>1, <1>2, NamesAssumption DEF IInv, Ownership, Allow, At
<1>10. \A l, i : Spent(l, i)' = (Len(grants'[l]) - i + 1) * Cost
  BY DEF Spent
\* Keys whose bucket it is not.
<1>11. ASSUME NEW l \in Keys, table[l] # b
       PROVE  /\ grants'[l] = grants[l]
              /\ \A i \in DOMAIN grants[l] :
                    IF table[l] = NoBucket
                    THEN Spent(l, i) <= Rate * (clock - grants[l][i])
                    ELSE Spent(l, i) + tokens'[table[l]]
                           <= Capacity + Rate * (last'[table[l]] - grants[l][i] + Lag)
  <2>1. grants'[l] = grants[l]
    BY <1>7, <1>8, <1>9, <1>11
  <2>2. table[l] # NoBucket => tokens'[table[l]] = tokens[table[l]] /\ last'[table[l]] = last[table[l]]
    BY <1>8, <1>11
  <2> QED BY <2>1, <2>2, <1>11 DEF RateInv, Debt
\* The key whose bucket it is, before the request pays.
<1>12. ASSUME table[k] = b, NEW i \in DOMAIN grants[k]
       PROVE  Spent(k, i) + f <= Capacity + Rate * (n - grants[k][i] + Lag)
  <2>1. PICK g \in Int, o \in Int : g = grants[k][i] /\ o = Spent(k, i)
    BY <1>12, GrantType
  <2>2. o + tokens[b] <= Capacity + Rate * (last[b] - g + Lag)
    BY <1>12, <2>1, NamesAssumption DEF RateInv, Debt
  <2>3. PICK x \in Int : x = last[b]
    BY <1>5
  <2>4. Rate * (x - g + Lag) + Rate * (n - x) = Rate * (n - g + Lag)
    BY <1>5, <2>1, <2>3
  <2>5. /\ Rate * (x - g + Lag) \in Int /\ Rate * (n - x) \in Int
        /\ Rate * (n - g + Lag) \in Int
    BY <1>5, <2>1, <2>3
  <2>6. o + tokens[b] <= Capacity + Rate * (x - g + Lag) /\ f <= tokens[b] + Rate * (n - x)
    BY <1>4, <2>2, <2>3
  <2>7. o + f <= Capacity + Rate * (n - g + Lag)
    BY <1>5, <2>1, <2>4, <2>5, <2>6
  <2> QED BY <2>1, <2>7
<1>13. CASE f >= Cost /\ b \notin orphans
  <2>1. PICK s \in Seq(0..MaxTime) : s = grants[k]
    BY DEF IInv, TypeOK
  <2>2. grants'[k] = Append(s, clock)
    BY <1>7, <1>13, <2>1 DEF IInv, TypeOK
  <2>3. clock \in 0..MaxTime
    BY DEF IInv, TypeOK
  <2>4. /\ Len(s) \in Nat /\ Len(Append(s, clock)) = Len(s) + 1
        /\ DOMAIN s = 1..Len(s)
        /\ DOMAIN Append(s, clock) = 1..(Len(s) + 1)
        /\ Append(s, clock)[Len(s) + 1] = clock
        /\ \A i \in DOMAIN s : Append(s, clock)[i] = s[i]
    BY <2>1, <2>3
  <2>5. table[k] = b /\ t = f - Cost
    BY <1>6, <1>9, <1>13
  <2>6. ASSUME NEW i \in DOMAIN grants'[k]
        PROVE  /\ grants'[k][i] <= clock /\ grants'[k][i] \in Int
               /\ (Len(grants'[k]) - i + 1) * Cost + t <= Capacity + Rate * (n - grants'[k][i] + Lag)
    <3>1. CASE i = Len(s) + 1
      <4>1. grants'[k][i] = clock /\ (Len(grants'[k]) - i + 1) * Cost = Cost
        BY <1>5, <2>2, <2>4, <3>1
      <4>2. n - clock + Lag \in Nat /\ Rate * (n - clock + Lag) \in Nat
        <5>1. n - clock + Lag \in Nat
          BY <1>5
        <5> QED BY <1>5, <5>1
      <4>3. Cost + t <= Capacity + Rate * (n - clock + Lag)
        BY <1>5, <1>6, <2>5, <4>2
      <4> QED BY <1>5, <4>1, <4>3
    <3>2. CASE i # Len(s) + 1
      <4>1. i \in DOMAIN s /\ i \in Nat /\ grants'[k][i] = s[i]
        BY <2>2, <2>4, <2>6, <3>2
      <4>2. PICK g \in Int : g = s[i] /\ g <= clock
        BY <2>1, <4>1, GrantType DEF RateInv, Debt
      <4>3. (Len(s) - i + 1) * Cost + f <= Capacity + Rate * (n - g + Lag)
        BY <1>12, <2>1, <2>5, <4>1, <4>2 DEF Spent
      <4>4. (Len(grants'[k]) - i + 1) * Cost = (Len(s) - i + 1) * Cost + Cost
        BY <1>5, <2>2, <2>4, <4>1
      <4>5. (Len(s) - i + 1) * Cost \in Int /\ Rate * (n - g + Lag) \in Int
        BY <1>5, <2>4, <4>1, <4>2
      <4>6. (Len(grants'[k]) - i + 1) * Cost + t <= Capacity + Rate * (n - g + Lag)
        BY <1>5, <2>5, <4>3, <4>4, <4>5
      <4> QED BY <4>1, <4>2, <4>6
    <3> QED BY <3>1, <3>2
  <2>7. ASSUME NEW l \in Keys, NEW i \in DOMAIN grants'[l]
        PROVE  /\ grants'[l][i] <= clock
               /\ IF table[l] = NoBucket
                  THEN Spent(l, i)' <= Rate * (clock - grants'[l][i])
                  ELSE Spent(l, i)' + tokens'[table[l]]
                         <= Capacity + Rate * (last'[table[l]] - grants'[l][i] + Lag)
    <3>1. CASE l = k
      <4>1. table[l] # NoBucket /\ tokens'[table[l]] = t /\ last'[table[l]] = n
        BY <1>8, <2>5, <3>1, NamesAssumption
      <4>2. Spent(l, i)' = (Len(grants'[k]) - i + 1) * Cost
        BY <1>10, <3>1
      <4> QED BY <2>6, <2>7, <3>1, <4>1, <4>2
    <3>2. CASE l # k
      <4>1. table[l] # b
        BY <1>9, <1>13, <3>2
      <4>2. grants'[l] = grants[l] /\ Spent(l, i)' = Spent(l, i)
        BY <1>11, <4>1 DEF Spent
      <4>3. grants[l][i] <= clock
        BY <2>7, <4>2 DEF RateInv, Debt
      <4> QED BY <1>11, <2>7, <4>1, <4>2, <4>3
    <3> QED BY <3>1, <3>2
  <2>8. Debt'
    BY <1>7, <2>7 DEF Debt
  <2>9. KeyRate'
    <3> SUFFICES ASSUME NEW l \in Keys, NEW i \in DOMAIN grants'[l], NEW j \in DOMAIN grants'[l], i <= j
                 PROVE  (j - i + 1) * Cost <= Capacity + Rate * (grants'[l][j] - grants'[l][i] + Lag)
      BY DEF KeyRate
    <3>1. CASE l # k
      <4>1. grants'[l] = grants[l]
        BY <1>8, <3>1
      <4> QED BY <4>1 DEF RateInv, KeyRate
    <3>2. CASE l = k /\ j # Len(s) + 1
      <4>1. i \in DOMAIN s /\ j \in DOMAIN s /\ grants'[l][i] = s[i] /\ grants'[l][j] = s[j]
        BY <2>2, <2>4, <3>2
      <4> QED BY <2>1, <3>2, <4>1 DEF RateInv, KeyRate
    <3>3. CASE l = k /\ j = Len(s) + 1
      <4>1. PICK g \in Int : g = grants'[l][i]
        BY <2>6, <3>3
      <4>2. PICK m \in Int : m = (j - i + 1) * Cost
        <5>1. i \in Nat /\ j \in Nat
          BY <2>2, <2>4, <3>3
        <5> QED BY <1>5, <5>1
      <4>3. m + t <= Capacity + Rate * (n - g + Lag)
        BY <2>2, <2>4, <2>6, <3>3, <4>1, <4>2
      <4>4. grants'[l][j] = clock
        BY <2>2, <2>4, <3>3
      <4>5. Rate * (n - g + Lag) <= Rate * (clock - g + Lag)
        <5>1. n - g + Lag \in Int /\ clock - g + Lag \in Int /\ n - g + Lag <= clock - g + Lag
          BY <1>5, <4>1
        <5> QED BY <1>5, <5>1, MulMono
      <4>6. Rate * (n - g + Lag) \in Int /\ Rate * (clock - g + Lag) \in Int
        BY <1>5, <4>1
      <4>7. m <= Capacity + Rate * (clock - g + Lag)
        BY <1>5, <1>6, <4>3, <4>5, <4>6
      <4> QED BY <4>1, <4>2, <4>4, <4>7
    <3> QED BY <3>1, <3>2, <3>3
  <2> QED BY <2>8, <2>9 DEF RateInv
<1>14. CASE ~(f >= Cost /\ b \notin orphans)
  <2>1. grants' = grants
    BY <1>7, <1>14
  <2>2. ASSUME NEW l \in Keys, NEW i \in DOMAIN grants[l]
        PROVE  IF table[l] = NoBucket
               THEN Spent(l, i) <= Rate * (clock - grants[l][i])
               ELSE Spent(l, i) + tokens'[table[l]]
                      <= Capacity + Rate * (last'[table[l]] - grants[l][i] + Lag)
    <3>1. CASE table[l] # b
      BY <1>11, <2>2, <3>1
    <3>2. CASE table[l] = b
      <4>1. l = k /\ t = f
        BY <1>6, <1>9, <1>14, <3>2
      <4> QED BY <1>8, <1>12, <2>2, <3>2, <4>1, NamesAssumption
    <3> QED BY <3>1, <3>2
  <2>3. Debt'
    BY <1>7, <2>1, <2>2 DEF RateInv, Debt, Spent
  <2>4. KeyRate'
    BY <2>1 DEF RateInv, KeyRate
  <2> QED BY <2>3, <2>4 DEF RateInv
<1> QED BY <1>13, <1>14

LEMMA RateNext == TTLEnough /\ IInv /\ RateInv /\ [Next]_vars => RateInv'
<1> SUFFICES ASSUME TTLEnough, IInv, RateInv, [Next]_vars PROVE RateInv'
  OBVIOUS
<1>1. CASE UNCHANGED vars
  BY <1>1, RateKept DEF vars, bucket
<1>2. CASE Tick
  BY <1>2, RateTick
<1>3. ASSUME NEW p \in Procs, Step(p)
      PROVE  RateInv'
  <2>1. CASE \E k \in Keys : Arrive(p, k)
    BY <2>1, RateKept DEF Arrive, bucket
  <2>2. CASE NoCleanup(p) \/ StartCleanup(p) \/ EndCleanup(p)
    BY <2>2, RateKept DEF NoCleanup, StartCleanup, EndCleanup, bucket
  <2>3. CASE Lookup(p) \/ Found(p) \/ Refuse(p)
    BY <2>3, RateKept DEF Lookup, Found, Refuse, bucket
  <2> QED BY <1>3, <2>1, <2>2, <2>3, RateSweep, RateCreate, RateAllow DEF Step
<1> QED BY <1>1, <1>2, <1>3 DEF Next

\* If idle buckets are kept long enough to be full again, no client passes more
\* often than burst and rate allow, in any period and through any clean-up.
THEOREM RateIsKept == ASSUME TTLEnough PROVE Spec => []KeyRate
<1>1. Init => RateInv
  BY RateInit
<1>2. IInv /\ RateInv /\ [Next]_vars => RateInv'
  BY RateNext
<1>3. RateInv => KeyRate
  BY DEF RateInv
<1> QED BY <1>1, <1>2, <1>3, Invariance, PTL DEF Spec
-----------------------------------------------------------------------------
(***************************************************************************)
(* No client is denied what its rate allows.                               *)
(***************************************************************************)
\* What is left in a bucket is what a full one, the rate since some grant and
\* the grants from that one on leave.
Left(k, i, b) == tokens[b] + Spent(k, i) >= Capacity + Rate * (last[b] - grants[k][i])

Credit == \A k \in Keys, b \in Buckets : table[k] = b =>
    tokens[b] = Capacity \/ \E i \in DOMAIN grants[k] : Left(k, i, b)

LEMMA CreditKept ==
    ASSUME Credit, UNCHANGED <<table, tokens, last, grants>>
    PROVE  Credit'
BY DEF Credit, Left, Spent

LEMMA CreditSweep ==
    ASSUME IInv, Credit, NEW p \in Procs, NEW l \in Keys, Sweep(p, l)
    PROVE  Credit'
<1>1. \A k \in Keys : table'[k] \in Buckets => table'[k] = table[k]
  BY NamesAssumption DEF Sweep, IInv, TypeOK
<1> QED BY <1>1 DEF Sweep, bucket, Credit, Left, Spent

\* A new bucket is full, and no other's.
LEMMA CreditCreate ==
    ASSUME IInv, Credit, NEW p \in Procs, NEW b \in Buckets, Create(p, b)
    PROVE  Credit'
<1> SUFFICES ASSUME NEW k \in Keys, NEW c \in Buckets, table'[k] = c
             PROVE  tokens'[c] = Capacity \/ \E i \in DOMAIN grants'[k] : Left(k, i, c)'
  BY DEF Credit, Capacity
<1>1. /\ table'[k] = IF k = key[p] THEN b ELSE table[k]
      /\ tokens'[b] = Capacity /\ grants' = grants
      /\ c # b => tokens'[c] = tokens[c] /\ last'[c] = last[c]
      /\ table[k] # b
  BY DEF Create, Free, IInv, TypeOK
<1>2. CASE k = key[p]
  BY <1>1, <1>2
<1>3. CASE k # key[p]
  BY <1>1, <1>3 DEF Credit, Left, Spent
<1> QED BY <1>2, <1>3

\* What a request finds, if it is not a full bucket, is left since some grant.
LEMMA FoundIsLeft ==
    ASSUME IInv, Credit, NEW p \in Procs, NEW k \in Keys, NEW b \in Buckets,
           table[k] = b, Refill(p, b) # Capacity
    PROVE  \E i \in DOMAIN grants[k] :
              Refill(p, b) + Spent(k, i) >= Capacity + Rate * (NewLast(p, b) - grants[k][i])
<1>1. PICK c \in Int, x \in Int, t \in Int, m \in Int :
        /\ c = Capacity /\ x = last[b] /\ t = tokens[b] /\ m = now[p]
        /\ t <= c
  BY CapacityType DEF IInv, TypeOK
<1>2. Refill(p, b) = (IF m > x THEN Least(c, t + Rate * (m - x)) ELSE t)
      /\ NewLast(p, b) = IF m > x THEN m ELSE x
  BY <1>1 DEF Refill, NewLast
<1>3. PICK y \in Int : y = Rate * (m - x) /\ (m > x => y >= 0)
  <2>1. Rate * (m - x) \in Int
    BY <1>1, ConfigAssumption
  <2>2. m > x => Rate * (m - x) >= 0
    <3>1. m > x => m - x \in Nat
      BY <1>1
    <3> QED BY <3>1, ConfigAssumption
  <2> QED BY <2>1, <2>2
<1>4. Rate * (x - x) = 0
  BY <1>1, ConfigAssumption
<1>5. t # c
  BY <1>1, <1>2, <1>3 DEF Least
<1>6. PICK i \in DOMAIN grants[k] : Left(k, i, b)
  BY <1>1, <1>5 DEF Credit
<1>7. PICK g \in Int, o \in Int : g = grants[k][i] /\ o = Spent(k, i)
  BY GrantType
<1>8. t + o >= c + Rate * (x - g)
  BY <1>1, <1>6, <1>7 DEF Left
<1>9. CASE m > x
  <2>1. Refill(p, b) = t + y /\ NewLast(p, b) = m
    BY <1>1, <1>2, <1>3, <1>9 DEF Least
  <2>2. Rate * (m - g) = Rate * (x - g) + Rate * (m - x)
    BY <1>1, <1>7, ConfigAssumption
  <2>3. Rate * (m - g) \in Int /\ Rate * (x - g) \in Int
    BY <1>1, <1>7, ConfigAssumption
  <2>4. t + y + o >= c + Rate * (m - g)
    BY <1>1, <1>3, <1>7, <1>8, <2>2, <2>3
  <2> QED BY <1>1, <1>7, <2>1, <2>4
<1>10. CASE ~(m > x)
  BY <1>1, <1>2, <1>7, <1>8, <1>10
<1> QED BY <1>9, <1>10

\* What a request leaves of a bucket in the table, whether it passes or not.
LEMMA AllowFacts ==
    ASSUME IInv, NEW p \in Procs, Allow(p)
    PROVE  \E b \in Buckets, k \in Keys, f \in Int :
              /\ b = held[p] /\ k = key[p] /\ f = Refill(p, b) /\ f <= Capacity
              /\ NewLast(p, b) \in Int /\ NewLast(p, b) <= clock /\ NewLast(p, b) >= now[p]
              /\ b \notin orphans => table[k] = b
              /\ b \in orphans => \A l \in Keys : table[l] # b
              /\ b \notin orphans => \A l \in Keys : table[l] = b => l = k
              /\ tokens' = [tokens EXCEPT ![b] = IF f >= Cost THEN f - Cost ELSE f]
              /\ last' = [last EXCEPT ![b] = NewLast(p, b)]
              /\ grants' = IF f >= Cost /\ b \notin orphans
                           THEN [grants EXCEPT ![k] = Append(grants[k], clock)] ELSE grants
<1>1. PICK b \in Buckets : b = held[p]
  BY DEF IInv, Ownership, Allow, At
<1>2. PICK k \in Keys : k = key[p]
  BY DEF IInv, Times, Allow, At
<1>3. PICK f \in 0..Capacity : f = Refill(p, b)
  BY <1>1, RefillType DEF IInv
<1>4. f \in Int /\ f <= Capacity
  BY CapacityType
<1>5. NewLast(p, b) \in Int /\ NewLast(p, b) <= clock /\ NewLast(p, b) >= now[p]
  <2>1. now[p] \in Int /\ last[b] \in Int /\ clock \in Int
    BY DEF IInv, TypeOK
  <2>2. now[p] <= clock /\ last[b] <= clock
    BY DEF IInv, Times, Allow, At
  <2> QED BY <2>1, <2>2, RefillType DEF IInv
<1>6. /\ b \notin orphans => table[k] = b
      /\ b \in orphans => \A l \in Keys : table[l] # b
      /\ b \notin orphans => \A l \in Keys : table[l] = b => l = k
  BY <1>1, <1>2, NamesAssumption DEF IInv, Ownership, Allow, At
<1>7. tokens' = [tokens EXCEPT ![b] = IF f >= Cost THEN f - Cost ELSE f]
  BY <1>1, <1>3, Zenon DEF Allow
<1>8. /\ last' = [last EXCEPT ![b] = NewLast(p, b)]
      /\ grants' = IF f >= Cost /\ b \notin orphans
                   THEN [grants EXCEPT ![k] = Append(grants[k], clock)] ELSE grants
  BY <1>1, <1>2, <1>3 DEF Allow
<1> QED BY <1>1, <1>2, <1>3, <1>4, <1>5, <1>6, <1>7, <1>8

LEMMA CreditAllow ==
    ASSUME IInv, Credit, NEW p \in Procs, Allow(p)
    PROVE  Credit'
<1>1. PICK b \in Buckets, k \in Keys, f \in Int :
        /\ b = held[p] /\ k = key[p] /\ f = Refill(p, b) /\ f <= Capacity
        /\ NewLast(p, b) \in Int /\ NewLast(p, b) <= clock
        /\ b \in orphans => \A l \in Keys : table[l] # b
        /\ b \notin orphans => \A l \in Keys : table[l] = b => l = k
        /\ b \notin orphans => table[k] = b
        /\ tokens' = [tokens EXCEPT ![b] = IF f >= Cost THEN f - Cost ELSE f]
        /\ last' = [last EXCEPT ![b] = NewLast(p, b)]
        /\ grants' = IF f >= Cost /\ b \notin orphans
                     THEN [grants EXCEPT ![k] = Append(grants[k], clock)] ELSE grants
  BY AllowFacts
<1>2. PICK n \in Int : n = NewLast(p, b) /\ n <= clock
  BY <1>1
<1>3. /\ tokens'[b] = IF f >= Cost THEN f - Cost ELSE f
      /\ last'[b] = n
      /\ \A c \in Buckets : c # b => tokens'[c] = tokens[c] /\ last'[c] = last[c]
      /\ clock \in Int /\ Capacity \in Int /\ Rate \in Nat /\ Cost \in Nat
      /\ table' = table /\ Capacity' = Capacity
  BY <1>1, <1>2, CapacityType, ConfigAssumption DEF IInv, TypeOK, Allow, Capacity
<1> SUFFICES ASSUME NEW l \in Keys, NEW c \in Buckets, table[l] = c
             PROVE  tokens'[c] = Capacity \/ \E i \in DOMAIN grants'[l] : Left(l, i, c)'
  BY <1>3 DEF Credit
<1>4. PICK s \in Seq(0..MaxTime) : s = grants[k]
  BY DEF IInv, TypeOK
<1>5. CASE c # b
  <2>1. grants'[l] = grants[l]
    BY <1>1, <1>5 DEF IInv, TypeOK
  <2>2. tokens'[c] = tokens[c] /\ last'[c] = last[c]
    BY <1>3, <1>5
  <2>3. tokens[c] = Capacity \/ \E i \in DOMAIN grants[l] : Left(l, i, c)
    BY DEF Credit
  <2> QED BY <1>3, <2>1, <2>2, <2>3 DEF Left, Spent
<1>6. CASE c = b /\ f < Cost
  <2>1. l = k /\ grants'[k] = grants[k] /\ tokens'[b] = f
    BY <1>1, <1>3, <1>6
  <2>2. CASE f # Capacity
    <3>1. PICK i \in DOMAIN grants[k] : f + Spent(k, i) >= Capacity + Rate * (n - grants[k][i])
      BY <1>1, <1>2, <1>6, <2>1, <2>2, FoundIsLeft
    <3> QED BY <1>3, <1>6, <2>1, <3>1 DEF Left, Spent
  <2> QED BY <1>6, <2>1, <2>2
<1>7. CASE c = b /\ f >= Cost
  <2>1. l = k /\ tokens'[b] = f - Cost /\ grants'[k] = Append(s, clock)
    BY <1>1, <1>3, <1>4, <1>7 DEF IInv, TypeOK
  <2>2. /\ Len(s) \in Nat /\ Len(Append(s, clock)) = Len(s) + 1
        /\ DOMAIN s = 1..Len(s) /\ DOMAIN Append(s, clock) = 1..(Len(s) + 1)
        /\ Append(s, clock)[Len(s) + 1] = clock
        /\ \A i \in DOMAIN s : Append(s, clock)[i] = s[i]
    <3>1. clock \in 0..MaxTime
      BY DEF IInv, TypeOK
    <3> QED BY <3>1
  <2>3. CASE f = Capacity
    <3> DEFINE i == Len(s) + 1
    <3>1. i \in DOMAIN grants'[k] /\ grants'[k][i] = clock
      BY <2>1, <2>2
    <3>2. Spent(k, i)' = Cost
      BY <1>3, <2>1, <2>2 DEF Spent
    <3>3. Rate * (n - clock) <= 0 /\ Rate * (n - clock) \in Int
      <4>1. n - clock \in Int /\ n - clock <= 0
        BY <1>2, <1>3
      <4>2. Rate * (n - clock) <= Rate * 0
        BY <1>3, <4>1, MulMono
      <4> QED BY <1>3, <4>1, <4>2
    <3>4. (f - Cost) + Cost >= Capacity + Rate * (n - clock)
      BY <1>3, <2>3, <3>3
    <3>5. Left(k, i, b)'
      BY <1>3, <2>1, <3>1, <3>2, <3>4 DEF Left
    <3> QED BY <1>7, <2>1, <3>1, <3>5
  <2>4. CASE f # Capacity
    <3>1. PICK i \in DOMAIN grants[k] : f + Spent(k, i) >= Capacity + Rate * (n - grants[k][i])
      BY <1>1, <1>2, <1>7, <2>1, <2>4, FoundIsLeft
    <3>2. i \in DOMAIN grants'[k] /\ grants'[k][i] = s[i] /\ i \in Int
      BY <1>4, <2>1, <2>2, <3>1
    <3>3. Spent(k, i)' = Spent(k, i) + Cost /\ Spent(k, i) \in Int
      <4>1. Len(s) - i + 1 \in Int /\ Len(s) + 1 - i + 1 = Len(s) - i + 1 + 1
        BY <2>2, <3>2
      <4>2. (Len(s) - i + 1 + 1) * Cost = (Len(s) - i + 1) * Cost + Cost
        BY <1>3, <4>1
      <4>3. Spent(k, i)' = (Len(s) - i + 1 + 1) * Cost /\ Spent(k, i) = (Len(s) - i + 1) * Cost
        <5>1. Len(grants'[k]) = Len(s) + 1
          BY <2>1, <2>2
        <5> QED BY <1>4, <4>1, <5>1 DEF Spent
      <4>4. Spent(k, i) \in Int
        BY <3>1, GrantType
      <4> QED BY <4>2, <4>3, <4>4
    <3>4. PICK g \in Int : g = s[i]
      BY <1>4, <3>1, GrantType
    <3>5. Rate * (n - g) \in Int
      BY <1>3, <3>4
    <3>6. (f - Cost) + (Spent(k, i) + Cost) >= Capacity + Rate * (n - g)
      BY <1>3, <1>4, <3>1, <3>3, <3>4, <3>5
    <3>7. Left(k, i, b)'
      BY <1>3, <2>1, <3>2, <3>3, <3>4, <3>6 DEF Left
    <3> QED BY <1>7, <2>1, <3>2, <3>7
  <2> QED BY <2>3, <2>4
<1>8. f < Cost \/ f >= Cost
  BY <1>3
<1> QED BY <1>5, <1>6, <1>7, <1>8

LEMMA CreditNext == IInv /\ Credit /\ [Next]_vars => Credit'
<1> SUFFICES ASSUME IInv, Credit, [Next]_vars PROVE Credit'
  OBVIOUS
<1>1. CASE UNCHANGED vars
  BY <1>1, CreditKept DEF vars, bucket
<1>2. CASE Tick
  BY <1>2, CreditKept DEF Tick, bucket
<1>3. ASSUME NEW p \in Procs, Step(p)
      PROVE  Credit'
  <2>1. CASE \E k \in Keys : Arrive(p, k)
    BY <2>1, CreditKept DEF Arrive, bucket
  <2>2. CASE NoCleanup(p) \/ StartCleanup(p) \/ EndCleanup(p)
    BY <2>2, CreditKept DEF NoCleanup, StartCleanup, EndCleanup, bucket
  <2>3. CASE Lookup(p) \/ Found(p) \/ Refuse(p)
    BY <2>3, CreditKept DEF Lookup, Found, Refuse, bucket
  <2> QED BY <1>3, <2>1, <2>2, <2>3, CreditSweep, CreditCreate, CreditAllow DEF Step
<1> QED BY <1>1, <1>2, <1>3 DEF Next

\* A request leaves its bucket by Allow only.
LEMMA OnlyAllow ==
    ASSUME IInv, [Next]_vars, NEW p \in Procs, At(p, "allow"), ~At(p, "allow")'
    PROVE  Allow(p)
<1>1. ~UNCHANGED pc
  BY DEF At
<1>2. ASSUME NEW q \in Procs, Step(q)
      PROVE  Allow(p)
  <2>1. \A s : Go(q, s) => q = p
    BY DEF Go, At, IInv, TypeOK
  <2>2. q = p
    BY <1>1, <1>2, <2>1 DEF Step, Arrive, Sweep, NoCleanup, StartCleanup, EndCleanup, Lookup, Found,
       Refuse, Allow, Create, Done, request
  <2> QED BY <1>2, <2>2 DEF Step, Arrive, Sweep, NoCleanup, StartCleanup, EndCleanup, Lookup, Found,
       Refuse, Create, At
<1> QED BY <1>1, <1>2 DEF Next, Tick, vars, request

\* A request that is not let through has found its client over the rate.
LEMMA DenialIsDue ==
    ASSUME IInv, Credit, NEW p \in Procs, Allow(p), held[p] \notin orphans,
           grants'[key[p]] = grants[key[p]]
    PROVE  \E i \in DOMAIN grants[key[p]] :
              (Len(grants[key[p]]) - i + 2) * Cost > Capacity + Rate * (now[p] - grants[key[p]][i])
<1>1. PICK b \in Buckets, k \in Keys, f \in Int :
        /\ b = held[p] /\ k = key[p] /\ f = Refill(p, b)
        /\ NewLast(p, b) \in Int /\ NewLast(p, b) >= now[p]
        /\ b \notin orphans => table[k] = b
        /\ grants' = IF f >= Cost /\ b \notin orphans
                     THEN [grants EXCEPT ![k] = Append(grants[k], clock)] ELSE grants
  BY AllowFacts
<1>2. /\ Capacity \in Int /\ Rate \in Nat /\ Cost \in Nat /\ now[p] \in Int
      /\ Cost <= Capacity /\ clock \in 0..MaxTime
  <2>1. Cost <= Burst * Cost
    <3>1. Cost * 1 <= Cost * Burst
      BY MulMono, ConfigAssumption
    <3> QED BY <3>1, ConfigAssumption
  <2> QED BY <2>1, CapacityType, ConfigAssumption DEF Capacity, IInv, TypeOK
<1>3. f < Cost
  <2>1. ASSUME f >= Cost PROVE FALSE
    <3>1. grants'[k] = Append(grants[k], clock) /\ grants[k] \in Seq(0..MaxTime)
      BY <1>1, <2>1 DEF IInv, TypeOK
    <3>2. Len(grants'[k]) = Len(grants[k]) + 1 /\ Len(grants[k]) \in Nat
      BY <1>2, <3>1
    <3>3. Len(grants'[k]) # Len(grants[k])
      BY <3>2
    <3> QED BY <1>1, <3>3
  <2> QED BY <1>2, <2>1
<1>4. f # Capacity /\ table[k] = b
  BY <1>1, <1>2, <1>3
<1>5. PICK i \in DOMAIN grants[k] : f + Spent(k, i) >= Capacity + Rate * (NewLast(p, b) - grants[k][i])
  BY <1>1, <1>4, FoundIsLeft
<1>6. PICK g \in Int, o \in Int, m \in Nat :
        g = grants[k][i] /\ o = Spent(k, i) /\ m = Len(grants[k]) /\ i \in Nat
  BY GrantType
<1>7. PICK x \in Int, w \in Int : x = NewLast(p, b) /\ w = now[p] /\ w <= x
  BY <1>1, <1>2
<1>8. Rate * (w - g) <= Rate * (x - g) /\ Rate * (w - g) \in Int /\ Rate * (x - g) \in Int
  BY <1>2, <1>6, <1>7, MulLater
<1>9. (m - i + 2) * Cost = o + Cost
  <2>1. m - i + 1 \in Int /\ m - i + 2 = (m - i + 1) + 1
    BY <1>6
  <2>2. ((m - i + 1) + 1) * Cost = (m - i + 1) * Cost + Cost
    BY <1>2, <2>1
  <2> QED BY <1>6, <2>1, <2>2 DEF Spent
<1>10. f + o >= Capacity + Rate * (x - g)
  BY <1>5, <1>6, <1>7
<1>11. (m - i + 2) * Cost > Capacity + Rate * (w - g)
  <2>1. PICK d \in Int, e \in Int : d = Rate * (w - g) /\ e = Rate * (x - g) /\ d <= e
    BY <1>8
  <2>2. f + o >= Capacity + e
    BY <1>10, <2>1
  <2>3. o + Cost > Capacity + d
    <3>1. \A a, c, n, u, v, z \in Int : a < c /\ a + n >= z + v /\ u <= v => n + c > z + u
      OBVIOUS
    <3>2. Cost \in Int
      BY <1>2
    <3> QED BY <1>2, <1>3, <1>6, <2>1, <2>2, <3>1, <3>2
  <2> QED BY <1>9, <2>1, <2>3
<1> QED BY <1>1, <1>6, <1>7, <1>11

\* Whatever other requests and the clean-up do, and with any TTL, a client that
\* keeps to its rate is not denied by its bucket.
THEOREM NoUndueDenial == Spec => DeniedOverRate
<1>1. Init => Credit
  BY NamesAssumption DEF Init, Credit
<1>2. IInv /\ Credit /\ [Next]_vars => Credit'
  BY CreditNext
<1>3. IInv /\ Credit /\ [Next]_vars =>
        \A p \in Procs :
           At(p, "allow") /\ ~At(p, "allow")' /\ held[p] \notin orphans
           /\ grants'[key[p]] = grants[key[p]] =>
              \E i \in DOMAIN grants[key[p]] :
                (Len(grants[key[p]]) - i + 2) * Cost > Capacity + Rate * (now[p] - grants[key[p]][i])
  BY OnlyAllow, DenialIsDue
<1> QED BY <1>1, <1>2, <1>3, Invariance, PTL DEF Spec, DeniedOverRate
=============================================================================
