--------------------------- MODULE Gateway_proofs ---------------------------
(* Invariants of a call of the gateway, for every configuration and deadline. *)
EXTENDS Gateway, TLAPS

\* What is known at each point of the loop.
Calling ==
    pc = "call" => /\ reply = None /\ retries = attempt - 1
                   /\ late \in {0, 1} /\ (late = 1 => ContextDone)

Sleeping ==
    pc = "sleep" => /\ reply = None /\ lastErr = heard /\ heard \in Errors
                    /\ retries = attempt /\ attempt < cfg.MaxAttempts /\ late = 0
                    /\ wakeAt <= now + delay

Counted == late <= 1 /\ retries \in {attempt - 1, attempt}

\* A call returns what the orders service said last: an answer or an error.
FailureIsReported ==
    pc = "returned" => \/ heard \in Answers /\ reply = heard /\ lastErr = None
                       \/ heard \in Errors /\ reply = None /\ lastErr = heard

IInv == TypeOK /\ Calling /\ Sleeping /\ Counted /\ FailureIsReported /\ AnsweredInTime

LEMMA BackoffType ==
  ASSUME NEW n \in Nat \ {0}, cfg.BaseDelay \in Int, cfg.MaxDelay \in Int
  PROVE  Backoff(n) \in Int
<1> DEFINE d == cfg.BaseDelay * 2 ^ (n - 1)
<1>1. d \in Int
  <2>1. 2 ^ (n - 1) \in Int
    OBVIOUS
  <2> QED BY <2>1
<1> HIDE DEF d
<1>2. Wrap(d) \in Int
  BY <1>1, TimesAssumption DEF TimesAssumption, Wrap
<1>3. Backoff(n) = IF Wrap(d) > cfg.MaxDelay THEN cfg.MaxDelay ELSE Wrap(d)
  BY DEF Backoff, d
<1> QED BY <1>2, <1>3

LEMMA InitIInv == Init => IInv
<1> SUFFICES ASSUME Init PROVE IInv
  OBVIOUS
<1>1. cfg \in Settings /\ cfg.MaxAttempts \in Int /\ 1 <= cfg.MaxAttempts /\ Accepted(cfg)
  BY SettingsAssumption DEF SettingsAssumption, Init, Accepted
<1>2. pc = "call"
  BY <1>1 DEF Init, Enter
<1> QED BY <1>1, <1>2, TimesAssumption DEF TimesAssumption, Init, IInv, TypeOK, Calling, Sleeping,
        Counted, FailureIsReported, AnsweredInTime, None

LEMMA StepInv ==
  ASSUME IInv, Step \/ Cancel \/ Tick
  PROVE  IInv'
<1>0. /\ cfg.MaxAttempts \in Int /\ cfg.BaseDelay \in Int /\ cfg.MaxDelay \in Int
      /\ attempt \in Int /\ now \in Int /\ deadline \in Int /\ 1 <= attempt
      /\ attempt <= cfg.MaxAttempts
  BY SettingsAssumption, TimesAssumption DEF SettingsAssumption, TimesAssumption, IInv, TypeOK
<1> USE <1>0, TimesAssumption DEF TimesAssumption, IInv, TypeOK, Calling, Sleeping, Counted,
        FailureIsReported, AnsweredInTime, ContextDone, None, Answers, Errors
<1>1. ASSUME NEW a \in Answers, Succeed(a) PROVE IInv'
  BY <1>1 DEF Succeed
<1>2. ASSUME NEW e \in Errors, GiveUp(e) PROVE IInv'
  BY <1>2 DEF GiveUp
<1>3. ASSUME NEW e \in Errors, Retry(e) PROVE IInv'
  <2>1. Backoff(attempt) \in Int
    BY BackoffType
  <2>2. attempt < cfg.MaxAttempts /\ ~ContextDone
    BY <1>3 DEF Retry, LastChance
  <2> QED BY <1>3, <2>1, <2>2 DEF Retry
<1>4. CASE Wake
  <2>1. pc' = "call"
    BY <1>4 DEF Wake, Enter
  <2> QED BY <1>4, <2>1 DEF Wake
<1>5. CASE Abandon
  BY <1>5 DEF Abandon
<1>6. CASE Cancel
  BY <1>6 DEF Cancel
<1>7. CASE Tick
  <2>1. now < deadline
    BY <1>7 DEF Tick, Waiting, TimerFired, SleepCancelled
  <2> QED BY <1>7, <2>1 DEF Tick, Waiting
<1> QED BY <1>1, <1>2, <1>3, <1>4, <1>5, <1>6, <1>7 DEF Step

LEMMA BeginInv ==
  ASSUME IInv, NEW d \in {0, Timeout}, Begin(d)
  PROVE  IInv'
<1>1. cfg \in Settings /\ cfg.MaxAttempts \in Int /\ 1 <= cfg.MaxAttempts /\ Accepted(cfg)
  BY SettingsAssumption DEF SettingsAssumption, IInv, TypeOK, Accepted
<1>2. pc' = "call"
  BY <1>1 DEF Begin, Enter
<1> QED BY <1>1, <1>2, TimesAssumption DEF TimesAssumption, Begin, IInv, TypeOK, Calling, Sleeping,
        Counted, FailureIsReported, AnsweredInTime, ContextDone, None

\* What a step of the worker does to the variables of the gateway.
CallStep == Step \/ Cancel \/ Tick \/ Begin(0) \/ Begin(Timeout)

LEMMA CallInv == IInv /\ [CallStep]_vars => IInv'
<1> SUFFICES ASSUME IInv, [CallStep]_vars PROVE IInv'
  OBVIOUS
<1>1. CASE Step \/ Cancel \/ Tick
  BY <1>1, StepInv
<1>2. CASE Begin(0) \/ Begin(Timeout)
  BY <1>2, BeginInv
<1>3. CASE UNCHANGED vars
  BY <1>3 DEF vars, IInv, TypeOK, Calling, Sleeping, Counted, FailureIsReported,
     AnsweredInTime, ContextDone
<1> QED BY <1>1, <1>2, <1>3 DEF CallStep
-----------------------------------------------------------------------------
(* The pauses.  A second attempt comes after a pause of the base delay, and *)
(* before the context has ended; so the base delay is below the time-out,  *)
(* and no shift made then overflows.                                       *)

\* What the delay is at each point: none, or that of the last back-off.
Delayed ==
    /\ pc = "call" => delay = IF attempt = 1 THEN 0 ELSE Backoff(attempt - 1)
    /\ pc = "sleep" => delay = Backoff(attempt)

\* The time spent when an attempt is not the first.
Waited ==
    /\ pc = "call" /\ attempt # 1 => cfg.BaseDelay <= now
    /\ pc = "sleep" => cfg.BaseDelay <= wakeAt

Paced == Delayed /\ Waited

\* The powers that occur: there are at most ten attempts.
LEMMA Powers ==
  ASSUME NEW n \in 0..9
  PROVE  /\ 2 ^ n \in Nat \ {0} /\ 2 ^ n <= 512
         /\ \A m \in 0..9 : m <= n => 2 ^ m <= 2 ^ n
<1>1. /\ 2 ^ 0 = 1 /\ 2 ^ 1 = 2 /\ 2 ^ 2 = 4 /\ 2 ^ 3 = 8 /\ 2 ^ 4 = 16
      /\ 2 ^ 5 = 32 /\ 2 ^ 6 = 64 /\ 2 ^ 7 = 128 /\ 2 ^ 8 = 256 /\ 2 ^ 9 = 512
  OBVIOUS
<1> DEFINE P(i) == 2 ^ i
<1>2. /\ P(0) = 1 /\ P(1) = 2 /\ P(2) = 4 /\ P(3) = 8 /\ P(4) = 16
      /\ P(5) = 32 /\ P(6) = 64 /\ P(7) = 128 /\ P(8) = 256 /\ P(9) = 512
  BY <1>1
<1> HIDE DEF P
<1>3. \A i \in 0..9 : P(i) \in Nat \ {0} /\ P(i) <= 512 /\ \A m \in 0..9 : m <= i => P(m) <= P(i)
  BY <1>2
<1> QED BY <1>3 DEF P

\* A product that fits into a duration is not changed.
LEMMA BackoffValue ==
  ASSUME NEW k \in Nat \ {0}, NEW base \in Nat \ {0}, base * k <= Limit - 1
  PROVE  Wrap(base * k) = base * k
<1> DEFINE d == base * k
<1>1. d \in Nat /\ d <= Limit - 1
  OBVIOUS
<1> HIDE DEF d
<1>2. Limit \in Nat \ {0}
  BY TimesAssumption DEF TimesAssumption
<1>3. (d + Limit) % (2 * Limit) = d + Limit
  BY <1>1, <1>2
<1>4. Wrap(d) = d
  BY <1>1, <1>2, <1>3 DEF Wrap
<1> QED BY <1>4 DEF d

LEMMA TimesMonotone ==
  ASSUME NEW a \in Nat, NEW b \in Nat, NEW c \in Nat, b <= c
  PROVE  a * b <= a * c
<1>1. PICK k \in Nat : c = b + k
  <2>1. c - b \in Nat /\ c = b + (c - b)
    OBVIOUS
  <2> QED BY <2>1
<1>2. a * c = a * b + a * k
  BY <1>1
<1>3. a * k \in Nat /\ a * b \in Nat
  OBVIOUS
<1> QED BY <1>2, <1>3

\* The back-offs up to one whose shift fits into a duration.
LEMMA BackoffBounds ==
  ASSUME cfg \in Settings, Accepted(cfg), NEW n \in 1..9,
         cfg.BaseDelay * 2 ^ (n - 1) <= Limit - 1
  PROVE  /\ cfg.BaseDelay <= Backoff(n) /\ Backoff(n) <= cfg.MaxDelay
         /\ \A m \in Nat \ {0} : m <= n => Backoff(m) <= Backoff(n)
<1> DEFINE base == cfg.BaseDelay
           top == cfg.MaxDelay
           K(i) == 2 ^ (i - 1)
<1>1. /\ base \in Nat \ {0} /\ top \in Nat /\ base <= top
      /\ cfg.MaxAttempts \in Nat /\ cfg.MaxAttempts <= 10
  BY SettingsAssumption DEF SettingsAssumption, Accepted
<1>2. \A i \in 1..10 : K(i) \in Nat \ {0} /\ \A m \in 1..10 : m <= i => K(m) <= K(i)
  <2> SUFFICES ASSUME NEW i \in 1..10
               PROVE  K(i) \in Nat \ {0} /\ \A m \in 1..10 : m <= i => K(m) <= K(i)
    OBVIOUS
  <2>1. i - 1 \in 0..9
    OBVIOUS
  <2>2. K(i) \in Nat \ {0} /\ \A m \in 0..9 : m <= i - 1 => 2 ^ m <= K(i)
    BY <2>1, Powers
  <2>3. ASSUME NEW m \in 1..10, m <= i PROVE K(m) <= K(i)
    <3>1. m - 1 \in 0..9 /\ m - 1 <= i - 1
      BY <2>3
    <3> QED BY <2>2, <3>1
  <2> QED BY <2>2, <2>3
<1>3. base * K(n) <= Limit - 1
  OBVIOUS
<1>4. K(1) = 1
  <2>1. 2 ^ 0 = 1
    OBVIOUS
  <2> QED BY <2>1
<1> HIDE DEF K, base, top
<1>5. Limit \in Nat \ {0}
  BY TimesAssumption DEF TimesAssumption
<1>6. \A i \in 1..n : Backoff(i) = IF base * K(i) > top THEN top ELSE base * K(i)
  <2> SUFFICES ASSUME NEW i \in 1..n
               PROVE  Backoff(i) = IF base * K(i) > top THEN top ELSE base * K(i)
    OBVIOUS
  <2>1. i \in 1..10 /\ n \in 1..10
    OBVIOUS
  <2>2. base * K(i) <= base * K(n)
    BY <1>1, <1>2, <2>1, TimesMonotone
  <2>3. base * K(i) \in Nat /\ base * K(n) \in Nat
    BY <1>1, <1>2, <2>1
  <2>4. base * K(i) <= Limit - 1
    BY <1>3, <1>5, <2>2, <2>3
  <2>5. Wrap(base * K(i)) = base * K(i)
    BY <1>1, <1>2, <2>1, <2>4, BackoffValue
  <2> QED BY <2>5 DEF Backoff, base, top, K
<1>7. \A i \in 1..n : base <= base * K(i) /\ base * K(i) \in Nat /\ base * K(i) <= base * K(n)
  <2> SUFFICES ASSUME NEW i \in 1..n
               PROVE  base <= base * K(i) /\ base * K(i) \in Nat /\ base * K(i) <= base * K(n)
    OBVIOUS
  <2>1. i \in 1..10 /\ n \in 1..10
    BY <1>1
  <2>2. base * K(1) <= base * K(i) /\ base * K(i) <= base * K(n)
    BY <1>1, <1>2, <2>1, TimesMonotone
  <2> QED BY <1>1, <1>2, <1>4, <2>1, <2>2
<1>8. /\ base <= Backoff(n) /\ Backoff(n) <= top
      /\ \A m \in Nat \ {0} : m <= n => Backoff(m) <= Backoff(n)
  <2>1. n \in 1..n /\ \A m \in Nat \ {0} : m <= n => m \in 1..n
    OBVIOUS
  <2> QED BY <1>1, <1>6, <1>7, <2>1
<1> QED BY <1>8 DEF base, top

\* The shift before any attempt but the first is of a base delay that has been
\* waited for, within the time-out.
LEMMA ShiftFits ==
  ASSUME IInv, Waited, pc = "call", NEW e \in Errors, ~LastChance(e)
  PROVE  attempt \in 1..9 /\ cfg.BaseDelay * 2 ^ (attempt - 1) <= Limit - 1
<1> DEFINE base == cfg.BaseDelay
           k == 2 ^ (attempt - 1)
<1>1. /\ cfg.MaxAttempts \in Nat /\ cfg.MaxAttempts <= 10 /\ base \in Nat \ {0} /\ base <= Limit - 1
      /\ attempt \in 1..cfg.MaxAttempts /\ now \in Nat /\ deadline \in 0..Timeout
      /\ Limit \in Nat \ {0} /\ Timeout \in Nat \ {0}
  BY SettingsAssumption, TimesAssumption
     DEF SettingsAssumption, TimesAssumption, IInv, TypeOK, Accepted
<1>2. attempt \in 1..9 /\ now < deadline
  BY <1>1 DEF LastChance, ContextDone
<1>3. k \in Nat \ {0} /\ k <= 512
  <2>1. attempt - 1 \in 0..9
    BY <1>2
  <2> QED BY <2>1, Powers
<1>4. CASE attempt = 1
  <2>1. k = 1
    <3>1. 2 ^ 0 = 1 /\ attempt - 1 = 0
      BY <1>4
    <3> QED BY <3>1
  <2> QED BY <1>1, <1>2, <2>1
<1>5. CASE attempt # 1
  <2>1. base < Timeout
    BY <1>1, <1>2, <1>5 DEF Waited
  <2> HIDE DEF base, k
  <2>2. base * k <= base * 512
    BY <1>1, <1>3, TimesMonotone
  <2>3. base * 512 <= Limit - 1 /\ base * k \in Nat
    BY <1>1, <1>3, <2>1, TimeoutAssumption DEF TimeoutAssumption
  <2> QED BY <1>1, <1>2, <2>2, <2>3 DEF base, k
<1> QED BY <1>4, <1>5

\* What a retry waits for.
LEMMA RetryDelay ==
  ASSUME IInv, Waited, NEW e \in Errors, Retry(e)
  PROVE  /\ cfg.BaseDelay <= Backoff(attempt) /\ Backoff(attempt) <= cfg.MaxDelay
         /\ \A m \in Nat \ {0} : m <= attempt => Backoff(m) <= Backoff(attempt)
<1>1. attempt \in 1..9 /\ cfg.BaseDelay * 2 ^ (attempt - 1) <= Limit - 1
  BY ShiftFits DEF Retry
<1>2. cfg \in Settings /\ Accepted(cfg)
  BY DEF IInv, TypeOK
<1> QED BY <1>1, <1>2, BackoffBounds

LEMMA PacedInit == Init => Paced
  BY DEF Init, Paced, Delayed, Waited, Enter

LEMMA DelayedInv == IInv /\ Delayed /\ [CallStep]_vars => Delayed'
<1> SUFFICES ASSUME IInv, Delayed, [CallStep]_vars PROVE Delayed'
  OBVIOUS
<1>1. cfg' = cfg /\ \A n : Backoff(n)' = Backoff(n)
  BY DEF vars, CallStep, Step, Succeed, GiveUp, Retry, Wake, Abandon, Cancel, Tick, Begin, Backoff
<1>2. CASE Wake
  <2>1. attempt' # 1 /\ attempt' - 1 = attempt
    BY <1>2, SettingsAssumption DEF SettingsAssumption, Wake, IInv, TypeOK
  <2> QED BY <1>1, <1>2, <2>1 DEF Wake, Delayed, Enter
<1>3. ASSUME NEW e \in Errors, Retry(e) PROVE Delayed'
  BY <1>1, <1>3 DEF Retry, Delayed
<1>4. CASE \/ \E a \in Answers : Succeed(a)
           \/ \E e \in Errors : GiveUp(e)
           \/ Abandon \/ Cancel \/ Tick \/ UNCHANGED vars
  BY <1>1, <1>4 DEF Delayed, vars, Succeed, GiveUp, Abandon, Cancel, Tick
<1>5. CASE Begin(0) \/ Begin(Timeout)
  BY <1>5 DEF Begin, Delayed, Enter
<1> QED BY <1>2, <1>3, <1>4, <1>5 DEF CallStep, Step

LEMMA WaitedInv == IInv /\ Waited /\ [CallStep]_vars => Waited'
<1> SUFFICES ASSUME IInv, Waited, [CallStep]_vars PROVE Waited'
  OBVIOUS
<1>1. /\ cfg' = cfg /\ cfg.BaseDelay \in Int /\ cfg.MaxDelay \in Int /\ now \in Nat /\ wakeAt \in Int
      /\ attempt \in Nat \ {0}
  BY SettingsAssumption, TimesAssumption
     DEF SettingsAssumption, TimesAssumption, IInv, TypeOK, vars, CallStep, Step, Succeed, GiveUp,
         Retry, Wake, Abandon, Cancel, Tick, Begin
<1>2. CASE Wake
  BY <1>1, <1>2 DEF Wake, TimerFired, Waited, Enter
<1>3. ASSUME NEW e \in Errors, Retry(e) PROVE Waited'
  <2>1. cfg.BaseDelay <= Backoff(attempt) /\ Backoff(attempt) \in Int
    BY <1>1, <1>3, RetryDelay, BackoffType
  <2>2. wakeAt' = now + Backoff(attempt) /\ pc' = "sleep"
    BY <1>3 DEF Retry
  <2> QED BY <1>1, <2>1, <2>2 DEF Waited
<1>4. CASE \/ \E a \in Answers : Succeed(a)
           \/ \E e \in Errors : GiveUp(e)
           \/ Abandon \/ Cancel \/ Tick \/ UNCHANGED vars
  BY <1>1, <1>4 DEF Waited, vars, Succeed, GiveUp, Abandon, Cancel, Tick
<1>5. CASE Begin(0) \/ Begin(Timeout)
  BY <1>5 DEF Begin, Waited, Enter
<1> QED BY <1>2, <1>3, <1>4, <1>5 DEF CallStep, Step

LEMMA PacedInv == IInv /\ Paced /\ [CallStep]_vars => Paced'
BY DelayedInv, WaitedInv DEF Paced

Grows == pc = "call" /\ pc' = "sleep" =>
            /\ cfg.BaseDelay <= delay' /\ delay' <= cfg.MaxDelay
            /\ delay <= delay'
            /\ wakeAt' - now = delay'

LEMMA PausesStep == IInv /\ Paced /\ [CallStep]_vars => [Grows]_vars
<1> SUFFICES ASSUME IInv, Paced, CallStep, pc = "call", pc' = "sleep" PROVE Grows
  BY DEF Grows
<1>1. PICK e \in Errors : Retry(e)
  BY DEF CallStep, Step, Succeed, GiveUp, Wake, Abandon, Cancel, Tick, Begin, Enter
<1>2. /\ cfg.BaseDelay <= Backoff(attempt) /\ Backoff(attempt) <= cfg.MaxDelay
      /\ \A m \in Nat \ {0} : m <= attempt => Backoff(m) <= Backoff(attempt)
  BY <1>1, RetryDelay DEF Paced
<1>3. /\ attempt \in Nat \ {0} /\ cfg.BaseDelay \in Nat /\ cfg.MaxDelay \in Int /\ now \in Int
  BY SettingsAssumption, TimesAssumption
     DEF SettingsAssumption, TimesAssumption, IInv, TypeOK, Accepted
<1>4. Backoff(attempt) \in Int
  BY <1>3, BackoffType
<1>5. delay <= Backoff(attempt)
  <2>1. CASE attempt = 1
    BY <1>2, <1>3, <1>4, <2>1 DEF Paced, Delayed
  <2>2. CASE attempt # 1
    BY <1>2, <1>3, <2>2 DEF Paced, Delayed
  <2> QED BY <2>1, <2>2
<1> QED BY <1>1, <1>2, <1>3, <1>4, <1>5 DEF Retry, Grows
=============================================================================
