------------------------------- MODULE Worker -------------------------------
(***************************************************************************)
(* The life of process service-courier-worker: Consumer.Run with the       *)
(* sessions of its consumer group, the claims of a session, the order      *)
(* handler with its call of the orders gateway (Gateway), the signal, and  *)
(* closeWorker.  What an event does to the tables, and what becomes of its *)
(* offset, is in OrderEvents.                                              *)
(*                                                                         *)
(* One partition is looked at closely; the others only read and work.      *)
(***************************************************************************)
EXTENDS Gateway

CONSTANT Others   \* the other partitions of the member

VARIABLES
    run,      \* the main goroutine
    signal,   \* SIGINT or SIGTERM has come
    session,  \* of the consumer group; it ends for all its claims at once
    claim,    \* the goroutine of the partition
    other     \* ... and those of the others

worker == <<run, signal, session, claim, other>>
workerVars == <<vars, worker>>

WorkerTypeOK ==
    /\ TypeOK
    /\ run \in {"loop", "consume", "pause", "group", "conn", "pool", "exited"}
    /\ signal \in BOOLEAN
    /\ session \in {"none", "open", "ending"}
    /\ claim \in {"none", "read", "lookup", "handle"}
    /\ other \in [Others -> {"none", "read", "work"}]

WorkerInit ==
    /\ Init
    /\ run = "loop" /\ signal = FALSE
    /\ session = "none" /\ claim = "none" /\ other = [p \in Others |-> "none"]

Idle == claim = "none" /\ \A p \in Others : other[p] = "none"

\* The context of the session ends, and with it that of the call under way.
CutCall ==
    IF claim = "lookup" /\ pc # "returned" /\ ~ContextDone THEN Cancel ELSE UNCHANGED vars

EndSession ==
    /\ session' = "ending"
    /\ IF session = "open" THEN CutCall ELSE UNCHANGED vars
-----------------------------------------------------------------------------
(* Consumer.Run.                                                           *)

Consume ==
    /\ run = "loop" /\ ~signal
    /\ run' = "consume"
    /\ UNCHANGED <<vars, signal, session, claim, other>>

\* Mutant: Run logs the error of the context and goes on.
LeaveNever ==
    /\ run \in {"loop", "pause"} /\ signal
    /\ run' = "loop"
    /\ UNCHANGED <<vars, signal, session, claim, other>>

\* consumeOnce and sleepOrDone return the error of the context.
Leave ==
    /\ run \in {"loop", "pause"} /\ signal
    /\ run' = "group"
    /\ UNCHANGED <<vars, signal, session, claim, other>>

\* The member joins; each of its partitions gets a claim.
OpenSession ==
    /\ run = "consume" /\ session = "none" /\ ~signal
    /\ session' = "open" /\ claim' = "read" /\ other' = [p \in Others |-> "read"]
    /\ UNCHANGED <<vars, run, signal>>

\* Mutant: Run returns whatever error Consume has.
ConsumeFailsForGood ==
    /\ run = "consume" /\ session = "none"
    /\ run' = "group"
    /\ UNCHANGED <<vars, signal, session, claim, other>>

\* It cannot join: a second's pause, unless that is because of the signal.
ConsumeFails ==
    /\ run = "consume" /\ session = "none"
    /\ run' = IF signal THEN "group" ELSE "pause"
    /\ UNCHANGED <<vars, signal, session, claim, other>>

\* Mutant: the signal is not waited out in Consume but beside it.
ConsumeReturnsAtOnce ==
    /\ run = "consume" /\ session = "ending"
    /\ session' = "none" /\ run' = "pause"
    /\ UNCHANGED <<vars, signal, claim, other>>

\* Consume returns when the claims of its session have: this is what sarama
\* promises of a consumer group.
ConsumeReturns ==
    /\ run = "consume" /\ session = "ending" /\ Idle
    /\ session' = "none" /\ run' = "pause"
    /\ UNCHANGED <<vars, signal, claim, other>>

PauseOver ==
    /\ run = "pause" /\ run' = "loop"
    /\ UNCHANGED <<vars, signal, session, claim, other>>

\* closeWorker: the consumer group, the connection of the gateway, and the pool,
\* none of whose connections is out by then.
AfterClosing == [group |-> "conn", conn |-> "pool", pool |-> "exited"]

CloseWorker ==
    /\ run \in DOMAIN AfterClosing
    /\ run' = AfterClosing[run]
    /\ UNCHANGED <<vars, signal, session, claim, other>>
-----------------------------------------------------------------------------
Signal ==
    /\ ~signal /\ run # "exited"
    /\ signal' = TRUE
    /\ IF session = "open" THEN EndSession ELSE UNCHANGED <<vars, session>>
    /\ UNCHANGED <<run, claim, other>>

\* The group gets or loses a member, or the broker loses this one.
Rebalance ==
    /\ session = "open" /\ EndSession
    /\ UNCHANGED <<run, signal, claim, other>>

(* ConsumeClaim.  The first claim that returns ends the session.           *)
ClaimTo(s) == claim' = s /\ UNCHANGED <<run, signal, other>>

\* A message is taken, the end of the session notwithstanding if both are ready.
Take ==
    /\ claim = "read" /\ ClaimTo("lookup")
    /\ Begin(IF session = "open" THEN Timeout ELSE 0)
    /\ UNCHANGED session

\* The end of the session is seen, or the channel of messages closed by it.
ClaimEnds ==
    /\ claim = "read" /\ session = "ending" /\ ClaimTo("none")
    /\ UNCHANGED <<vars, session>>

\* The gateway at work.
LooksUp ==
    /\ claim = "lookup" /\ (Step \/ Tick)
    /\ UNCHANGED worker

LookedUp == claim = "lookup" /\ pc = "returned"

\* The handler returns the gateway's error, and the claim with it, ...
LookupFails ==
    /\ LookedUp /\ lastErr # None /\ ClaimTo("none")
    /\ session' = "ending" /\ Begin(Timeout)

\* Mutant: the order is looked at before the error.
LookupMissingFirst ==
    /\ LookedUp /\ reply # "found" /\ ClaimTo("read")
    /\ Begin(Timeout) /\ UNCHANGED session

\* ... or has nothing to do: the event is marked, ...
LookupMissing ==
    /\ LookedUp /\ lastErr = None /\ reply # "found" /\ ClaimTo("read")
    /\ Begin(Timeout) /\ UNCHANGED session

\* ... or handles the event.
LookupFound ==
    /\ LookedUp /\ lastErr = None /\ reply = "found" /\ ClaimTo("handle")
    /\ Begin(Timeout) /\ UNCHANGED session

Handled ==
    /\ claim = "handle" /\ ClaimTo("read")
    /\ UNCHANGED <<vars, session>>

HandleFails ==
    /\ claim = "handle" /\ ClaimTo("none")
    /\ EndSession

(* The same for another partition, whose claim does not hold up this one.  *)
OtherTo(p, from, to) ==
    /\ other[p] = from /\ other' = [other EXCEPT ![p] = to]
    /\ UNCHANGED <<run, signal, claim>>

OtherTakes(p) == OtherTo(p, "read", "work") /\ UNCHANGED <<vars, session>>
OtherHandles(p) == OtherTo(p, "work", "read") /\ UNCHANGED <<vars, session>>
OtherFails(p) == OtherTo(p, "work", "none") /\ EndSession
OtherEnds(p) == session = "ending" /\ OtherTo(p, "read", "none") /\ UNCHANGED <<vars, session>>
-----------------------------------------------------------------------------
Main == Consume \/ Leave \/ ConsumeFails \/ ConsumeReturns \/ PauseOver \/ CloseWorker

Looked == LookupFails \/ LookupMissing \/ LookupFound
HandleEnds == Handled \/ HandleFails
OtherWorked(p) == OtherHandles(p) \/ OtherFails(p)

Next ==
    \/ Main \/ OpenSession \/ Signal \/ Rebalance
    \/ Take \/ ClaimEnds \/ LooksUp \/ Looked \/ HandleEnds
    \/ \E p \in Others : OtherTakes(p) \/ OtherWorked(p) \/ OtherEnds(p)

\* Goroutines run, time goes on, and an operation on the tables ends (time-out).
\* The orders service need not answer before the context of the call has ended.
\* A session that ends closes the channels of messages, which hold finitely many,
\* so that a claim cannot go on taking them: strong fairness.
Fairness ==
    /\ WF_workerVars(Main)
    /\ WF_workerVars(claim = "lookup" /\ (Wake \/ Abandon) /\ UNCHANGED worker)
    /\ WF_workerVars(claim = "lookup" /\ ContextDone /\ Step /\ UNCHANGED worker)
    /\ WF_workerVars(claim = "lookup" /\ Tick /\ UNCHANGED worker)
    /\ WF_workerVars(Looked) /\ WF_workerVars(HandleEnds)
    /\ SF_workerVars(ClaimEnds)
    /\ \A p \in Others : WF_workerVars(OtherWorked(p)) /\ SF_workerVars(OtherEnds(p))

WorkerSpec == WorkerInit /\ [][Next]_workerVars
FairSpec == WorkerSpec /\ Fairness
-----------------------------------------------------------------------------
(* An event is acknowledged without being handled only if the orders       *)
(* service said, last of all, that there is no such order: not because an  *)
(* error or a cancelled pause was taken for an answer.                     *)
AckJustified == [][claim = "lookup" /\ claim' = "read" => heard = "missing"]_workerVars

(* Nothing is closed under a claim: when closeWorker begins, all claims    *)
(* have returned, those that were in a call or a transaction included: Run *)
(* returns after Consume only, never beside it.                            *)
ClosedWhenIdle == run \in {"group", "conn", "pool", "exited"} => session = "none" /\ Idle

(* Only the signal ends the process: a broker that is not there, a failed  *)
(* claim, a rebalance do not.                                              *)
EndsOnlyBySignal == run \in {"group", "conn", "pool", "exited"} => signal

(* The signal ends the process, whatever the claims are doing, and even if *)
(* the orders service never answers.                                       *)
StopsOnSignal == signal ~> run = "exited"

(* Every look-up ends, also without a signal: the context is enough.       *)
Returns == claim = "lookup" ~> claim # "lookup"
=============================================================================
