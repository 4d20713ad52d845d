------------------------------ MODULE Gateway ------------------------------
(***************************************************************************)
(* A call of the orders gateway with retries (RetryingGateway.GetByID and  *)
(* ListFrom, which have the same loop) as the order handler of the worker  *)
(* makes it: attempts at the orders service, the back-off between them,    *)
(* and a context that ends by its deadline or with the session.  Worker    *)
(* says when there is a call; between two, the variables are those of the  *)
(* next.                                                                   *)
(*                                                                         *)
(* Durations wrap around at Limit (2^63 nanoseconds in time.Duration).     *)
(***************************************************************************)
EXTENDS Integers

CONSTANTS
    Settings,   \* what the environment may configure
    Limit,      \* durations are -Limit..Limit-1
    Timeout     \* of the handler's context

ASSUME SettingsAssumption ==
    Settings \subseteq [MaxAttempts : Int, BaseDelay : -Limit..Limit-1, MaxDelay : -Limit..Limit-1]
ASSUME TimesAssumption == Limit \in Nat \ {0} /\ Timeout \in Nat \ {0}

\* Two seconds, doubled nine times, fit into a duration.
ASSUME TimeoutAssumption == 512 * Timeout <= Limit

VARIABLES
    cfg,       \* the configuration of the process
    now, deadline,  \* time, and when the context ends
    pc, attempt,
    delay, wakeAt,  \* the back-off under way
    lastErr, reply, \* what the call returns: an error, or an answer
    retries,   \* the counter gateway_retries_total
    heard,     \* what the orders service said last, a history
    late       \* attempts begun after the context had ended, a history

vars == <<cfg, now, deadline, pc, attempt, delay, wakeAt, lastErr, reply, retries, heard, late>>

Answers == {"found", "missing"}
Errors == {"transient", "permanent"}
None == "none"

\* parseOrdersGateway.
Accepted(s) ==
    /\ 1 <= s.MaxAttempts /\ s.MaxAttempts <= 10
    /\ s.BaseDelay > 0 /\ s.MaxDelay > 0
    /\ s.MaxDelay >= s.BaseDelay

\* codes.Unavailable, ResourceExhausted and DeadlineExceeded.
IsRetryable(e) == e = "transient"

ContextDone == now >= deadline
Wrap(n) == ((n + Limit) % (2 * Limit)) - Limit

\* Mutant: the delay is not capped.
BackoffUncapped(n) == Wrap(cfg.BaseDelay * 2 ^ (n - 1))

\* backoff: the shift may overflow before it is compared.
Backoff(n) ==
    LET d == Wrap(cfg.BaseDelay * 2 ^ (n - 1)) IN
    IF d > cfg.MaxDelay THEN cfg.MaxDelay ELSE d

\* The loop's condition.
Enter(n) == IF n <= cfg.MaxAttempts THEN "call" ELSE "returned"

TypeOK ==
    /\ cfg \in Settings /\ Accepted(cfg)
    /\ now \in Nat /\ deadline \in 0..Timeout
    /\ pc \in {"call", "sleep", "returned"}
    /\ attempt \in 1..cfg.MaxAttempts
    /\ delay \in Int /\ wakeAt \in Int
    /\ lastErr \in Errors \cup {None}
    /\ reply \in Answers \cup {None}
    /\ heard \in Answers \cup Errors \cup {None}
    /\ retries \in Nat /\ late \in Nat

Init ==
    /\ cfg \in {s \in Settings : Accepted(s)}
    /\ now = 0 /\ deadline = Timeout
    /\ attempt = 1 /\ pc = Enter(1)
    /\ delay = 0 /\ wakeAt = 0
    /\ lastErr = None /\ reply = None
    /\ retries = 0 /\ heard = None /\ late = 0

\* A call with a context that ends at d, maybe at once.
Begin(d) ==
    /\ now' = 0 /\ deadline' = d
    /\ attempt' = 1 /\ pc' = Enter(1)
    /\ delay' = 0 /\ wakeAt' = 0
    /\ lastErr' = None /\ reply' = None
    /\ retries' = 0 /\ heard' = None
    /\ late' = IF d = 0 THEN 1 ELSE 0
    /\ UNCHANGED cfg
-----------------------------------------------------------------------------
\* An attempt succeeds: the order, or that there is none.
Succeed(a) ==
    /\ pc = "call"
    /\ pc' = "returned" /\ reply' = a /\ heard' = a
    /\ lastErr' = None
    /\ UNCHANGED <<cfg, now, deadline, attempt, delay, wakeAt, retries, late>>

\* Mutant: one attempt too many.
LastChanceLater(e) == ContextDone \/ attempt > cfg.MaxAttempts \/ ~IsRetryable(e)

LastChance(e) == ContextDone \/ attempt = cfg.MaxAttempts \/ ~IsRetryable(e)

\* Mutant: the error is noted and the loop not left.
GiveUpNever(e) ==
    /\ pc = "call" /\ LastChance(e)
    /\ lastErr' = e /\ heard' = e
    /\ UNCHANGED <<cfg, now, deadline, pc, attempt, delay, wakeAt, reply, retries, late>>

\* Mutant: the metric is forgotten.
RetryUncounted(e) ==
    /\ pc = "call" /\ ~LastChance(e)
    /\ pc' = "sleep" /\ lastErr' = e /\ heard' = e
    /\ delay' = Backoff(attempt) /\ wakeAt' = now + delay'
    /\ UNCHANGED <<cfg, now, deadline, attempt, reply, retries, late>>

\* It fails for good ...
GiveUp(e) ==
    /\ pc = "call" /\ LastChance(e)
    /\ pc' = "returned" /\ lastErr' = e /\ heard' = e
    /\ UNCHANGED <<cfg, now, deadline, attempt, delay, wakeAt, reply, retries, late>>

\* ... or is tried again after the back-off.
Retry(e) ==
    /\ pc = "call" /\ ~LastChance(e)
    /\ pc' = "sleep" /\ lastErr' = e /\ heard' = e
    /\ delay' = Backoff(attempt) /\ wakeAt' = now + delay'
    /\ retries' = retries + 1
    /\ UNCHANGED <<cfg, now, deadline, attempt, reply, late>>

\* sleepWithContext: the timer fires, or there was nothing to wait for, ...
TimerFired == now >= wakeAt

Wake ==
    /\ pc = "sleep" /\ TimerFired
    /\ attempt' = attempt + 1 /\ pc' = Enter(attempt + 1)
    /\ late' = IF ContextDone THEN late + 1 ELSE late
    /\ UNCHANGED <<cfg, now, deadline, delay, wakeAt, lastErr, reply, retries, heard>>

\* Mutant: time.Sleep instead of a select.
SleepUncancelled == FALSE

\* ... or the context ends; select takes either if both are ready.
SleepCancelled == ContextDone /\ delay > 0

Abandon ==
    /\ pc = "sleep" /\ SleepCancelled
    /\ pc' = "returned"
    /\ UNCHANGED <<cfg, now, deadline, attempt, delay, wakeAt, lastErr, reply, retries, heard, late>>

\* The session of the consumer ends.
Cancel ==
    /\ pc # "returned" /\ ~ContextDone
    /\ deadline' = now
    /\ UNCHANGED <<cfg, now, pc, attempt, delay, wakeAt, lastErr, reply, retries, heard, late>>

\* Time passes while the call waits; its own steps take none, and a call of the
\* orders service returns when its context ends.
Waiting ==
    \/ pc = "call" /\ ~ContextDone
    \/ pc = "sleep" /\ ~TimerFired /\ ~SleepCancelled

Tick ==
    /\ Waiting
    /\ now' = now + 1
    /\ UNCHANGED <<cfg, deadline, pc, attempt, delay, wakeAt, lastErr, reply, retries, heard, late>>

Step ==
    \/ \E a \in Answers : Succeed(a)
    \/ \E e \in Errors : GiveUp(e) \/ Retry(e)
    \/ Wake \/ Abandon
-----------------------------------------------------------------------------
(* The service is asked at most MaxAttempts times, at most once after the  *)
(* context has ended (the timer and the context may be ready together),    *)
(* and the metric counts every repetition, one more if the last was given  *)
(* up while it waited.                                                     *)
AttemptsBounded ==
    /\ attempt <= cfg.MaxAttempts
    /\ late <= 1
    /\ retries \in {attempt - 1, attempt}

(* The call is never out longer than its context.                          *)
AnsweredInTime == pc # "returned" => now <= deadline

(* Between two attempts there is a pause of at least the base delay and at *)
(* most the maximal one, and no pause is shorter than the one before it.   *)
(* The shift of backoff may overflow for settings that are accepted, but   *)
(* the context of the order handler ends before such a call comes to it.   *)
PausesGrow ==
    [][pc = "call" /\ pc' = "sleep" =>
          /\ cfg.BaseDelay <= delay' /\ delay' <= cfg.MaxDelay
          /\ delay <= delay'
          /\ wakeAt' - now = delay']_vars
=============================================================================
