--------------------------- MODULE Worker_proofs ---------------------------
(* Safety of the worker's life for any number of partitions, and of every  *)
(* call of the gateway it makes.                                           *)
EXTENDS Worker, Gateway_proofs

\* A claim at work belongs to a session, and a session to a call of Consume.
ClaimInSession == session = "none" => Idle
InConsume == session # "none" => run = "consume"

WorkerInv ==
    /\ WorkerTypeOK /\ IInv
    /\ ClaimInSession /\ InConsume /\ EndsOnlyBySignal

\* To the gateway, every step of the worker is a step of a call or none.
LEMMA StepOfCall == [Next]_workerVars => [CallStep]_vars
<1> SUFFICES ASSUME [Next]_workerVars PROVE [CallStep]_vars
  OBVIOUS
<1> USE DEF CallStep, CutCall, EndSession
<1>1. CASE Main
  BY <1>1 DEF Main, Consume, Leave, ConsumeFails, ConsumeReturns, PauseOver, CloseWorker
<1>2. CASE OpenSession  BY <1>2 DEF OpenSession
<1>3. CASE Signal       BY <1>3 DEF Signal
<1>4. CASE Rebalance    BY <1>4 DEF Rebalance
<1>5. CASE Take         BY <1>5 DEF Take
<1>6. CASE ClaimEnds    BY <1>6 DEF ClaimEnds
<1>7. CASE LooksUp      BY <1>7 DEF LooksUp
<1>8. CASE Looked       BY <1>8 DEF Looked, LookupFails, LookupMissing, LookupFound
<1>9. CASE HandleEnds   BY <1>9 DEF HandleEnds, Handled, HandleFails
<1>10. ASSUME NEW p \in Others, OtherTakes(p) \/ OtherWorked(p) \/ OtherEnds(p)
       PROVE  [CallStep]_vars
  BY <1>10 DEF OtherTakes, OtherWorked, OtherHandles, OtherFails, OtherEnds
<1>11. CASE UNCHANGED workerVars  BY <1>11 DEF workerVars
<1> QED BY <1>1, <1>2, <1>3, <1>4, <1>5, <1>6, <1>7, <1>8, <1>9, <1>10, <1>11 DEF Next

\* The main goroutine: it leaves Consume when its session is over.
LEMMA MainInv ==
  ASSUME WorkerInv, TypeOK', Main
  PROVE  WorkerTypeOK' /\ ClaimInSession' /\ InConsume' /\ EndsOnlyBySignal'
<1> USE DEF WorkerInv, WorkerTypeOK, ClaimInSession, InConsume, EndsOnlyBySignal, Idle
<1>1. CASE Consume         BY <1>1 DEF Consume
<1>2. CASE Leave           BY <1>2 DEF Leave
<1>3. CASE ConsumeFails    BY <1>3 DEF ConsumeFails
<1>4. CASE ConsumeReturns  BY <1>4 DEF ConsumeReturns
<1>5. CASE PauseOver       BY <1>5 DEF PauseOver
<1>6. CASE CloseWorker     BY <1>6 DEF CloseWorker, AfterClosing
<1> QED BY <1>1, <1>2, <1>3, <1>4, <1>5, <1>6 DEF Main

LEMMA SessionInv ==
  ASSUME WorkerInv, TypeOK', OpenSession \/ Signal \/ Rebalance
  PROVE  WorkerTypeOK' /\ ClaimInSession' /\ InConsume' /\ EndsOnlyBySignal'
<1> USE DEF WorkerInv, WorkerTypeOK, ClaimInSession, InConsume, EndsOnlyBySignal, Idle, EndSession
<1>1. CASE OpenSession  BY <1>1 DEF OpenSession
<1>2. CASE Signal       BY <1>2 DEF Signal
<1>3. CASE Rebalance    BY <1>3 DEF Rebalance
<1> QED BY <1>1, <1>2, <1>3

\* A claim that is at work has a session, which it may only end.
LEMMA ClaimInv ==
  ASSUME WorkerInv, TypeOK', Take \/ ClaimEnds \/ LooksUp \/ Looked \/ HandleEnds
  PROVE  WorkerTypeOK' /\ ClaimInSession' /\ InConsume' /\ EndsOnlyBySignal'
<1> USE DEF WorkerInv, WorkerTypeOK, ClaimInSession, InConsume, EndsOnlyBySignal, Idle, ClaimTo, EndSession
<1>1. CASE Take           BY <1>1 DEF Take
<1>2. CASE ClaimEnds      BY <1>2 DEF ClaimEnds
<1>3. CASE LooksUp        BY <1>3 DEF LooksUp, worker
<1>4. CASE LookupFails    BY <1>4 DEF LookupFails, LookedUp
<1>5. CASE LookupMissing  BY <1>5 DEF LookupMissing, LookedUp
<1>6. CASE LookupFound    BY <1>6 DEF LookupFound, LookedUp
<1>7. CASE Handled        BY <1>7 DEF Handled
<1>8. CASE HandleFails    BY <1>8 DEF HandleFails
<1> QED BY <1>1, <1>2, <1>3, <1>4, <1>5, <1>6, <1>7, <1>8 DEF Looked, HandleEnds

LEMMA OtherInv ==
  ASSUME WorkerInv, TypeOK', NEW p \in Others, OtherTakes(p) \/ OtherWorked(p) \/ OtherEnds(p)
  PROVE  WorkerTypeOK' /\ ClaimInSession' /\ InConsume' /\ EndsOnlyBySignal'
<1> USE DEF WorkerInv, WorkerTypeOK, ClaimInSession, InConsume, EndsOnlyBySignal, Idle, OtherTo, EndSession
<1>1. CASE OtherTakes(p)    BY <1>1 DEF OtherTakes
<1>2. CASE OtherHandles(p)  BY <1>2 DEF OtherHandles
<1>3. CASE OtherFails(p)    BY <1>3 DEF OtherFails
<1>4. CASE OtherEnds(p)     BY <1>4 DEF OtherEnds
<1> QED BY <1>1, <1>2, <1>3, <1>4 DEF OtherWorked

LEMMA NextInv ==
  ASSUME WorkerInv, [Next]_workerVars
  PROVE  WorkerInv'
<1>1. IInv' /\ TypeOK'
  BY StepOfCall, CallInv DEF WorkerInv, IInv
<1>2. WorkerTypeOK' /\ ClaimInSession' /\ InConsume' /\ EndsOnlyBySignal'
  <2>1. CASE Main
    BY <1>1, <2>1, MainInv
  <2>2. CASE OpenSession \/ Signal \/ Rebalance
    BY <1>1, <2>2, SessionInv
  <2>3. CASE Take \/ ClaimEnds \/ LooksUp \/ Looked \/ HandleEnds
    BY <1>1, <2>3, ClaimInv
  <2>4. ASSUME NEW p \in Others, OtherTakes(p) \/ OtherWorked(p) \/ OtherEnds(p)
        PROVE  WorkerTypeOK' /\ ClaimInSession' /\ InConsume' /\ EndsOnlyBySignal'
    BY <1>1, <2>4, OtherInv
  <2>5. CASE UNCHANGED workerVars
    BY <1>1, <2>5 DEF workerVars, worker, WorkerInv, WorkerTypeOK, ClaimInSession, InConsume,
       EndsOnlyBySignal, Idle
  <2> QED BY <2>1, <2>2, <2>3, <2>4, <2>5 DEF Next
<1> QED BY <1>1, <1>2 DEF WorkerInv

THEOREM Invariance == WorkerSpec => []WorkerInv
<1>1. WorkerInit => WorkerInv
  BY InitIInv DEF WorkerInit, WorkerInv, WorkerTypeOK, IInv, ClaimInSession, InConsume,
     EndsOnlyBySignal, Idle
<1>2. WorkerInv /\ [Next]_workerVars => WorkerInv'
  BY NextInv
<1> QED BY <1>1, <1>2, PTL DEF WorkerSpec

(* The variables of the worker keep their types. *)
THEOREM TypeCorrect == WorkerSpec => []WorkerTypeOK
<1>1. WorkerInv => WorkerTypeOK
  BY DEF WorkerInv
<1> QED BY <1>1, Invariance, PTL

(* The number of attempts is bounded, also of those after the context's end. *)
THEOREM AttemptsAreBounded == WorkerSpec => []AttemptsBounded
<1>1. WorkerInv => AttemptsBounded
  BY SettingsAssumption DEF SettingsAssumption, WorkerInv, IInv, TypeOK, Counted, AttemptsBounded
<1> QED BY <1>1, Invariance, PTL

(* The context bounds the call. *)
THEOREM ContextIsKept == WorkerSpec => []AnsweredInTime
<1>1. WorkerInv => AnsweredInTime
  BY DEF WorkerInv, IInv
<1> QED BY <1>1, Invariance, PTL

(* No event is acknowledged because an error of the gateway was lost. *)
THEOREM NoErrorIsLost == WorkerSpec => AckJustified
<1> DEFINE Justified == claim = "lookup" /\ claim' = "read" => heard = "missing"
<1>1. WorkerInv /\ [Next]_workerVars => [Justified]_workerVars
  <2> SUFFICES ASSUME WorkerInv, Next, claim = "lookup", claim' = "read" PROVE heard = "missing"
    OBVIOUS
  <2>1. CASE Main
    BY <2>1 DEF Main, Consume, Leave, ConsumeFails, ConsumeReturns, PauseOver, CloseWorker
  <2>2. CASE OpenSession
    BY <2>2 DEF OpenSession, WorkerInv, ClaimInSession, Idle
  <2>3. CASE Signal \/ Rebalance
    BY <2>3 DEF Signal, Rebalance
  <2>4. CASE Take \/ ClaimEnds \/ LooksUp \/ HandleEnds
    BY <2>4 DEF Take, ClaimEnds, LooksUp, worker, HandleEnds, Handled, HandleFails, ClaimTo
  <2>5. CASE LookupFails \/ LookupFound
    BY <2>5 DEF LookupFails, LookupFound, ClaimTo
  <2>6. CASE LookupMissing
    BY <2>6 DEF LookupMissing, LookedUp, WorkerInv, IInv, FailureIsReported, Answers, Errors, None
  <2>7. ASSUME NEW p \in Others, OtherTakes(p) \/ OtherWorked(p) \/ OtherEnds(p)
        PROVE  heard = "missing"
    BY <2>7 DEF OtherTakes, OtherWorked, OtherHandles, OtherFails, OtherEnds, OtherTo
  <2> QED BY <2>1, <2>2, <2>3, <2>4, <2>5, <2>6, <2>7 DEF Next, Looked
<1> QED BY <1>1, Invariance, PTL DEF WorkerSpec, AckJustified

(* Whatever the process is interrupted at, no resource is closed under a claim. *)
THEOREM NothingClosedInUse == WorkerSpec => []ClosedWhenIdle
<1>1. WorkerInv => ClosedWhenIdle
  BY DEF WorkerInv, InConsume, ClaimInSession, ClosedWhenIdle
<1> QED BY <1>1, Invariance, PTL

(* The process ends for the signal only. *)
THEOREM OnlySignalEnds == WorkerSpec => []EndsOnlyBySignal
<1>1. WorkerInv => EndsOnlyBySignal
  BY DEF WorkerInv
<1> QED BY <1>1, Invariance, PTL

(* Whatever delays are configured, attempts are spaced by pauses between   *)
(* the base and the maximal delay that never shrink.                       *)
THEOREM PausesAreSound == WorkerSpec => PausesGrow
<1>1. WorkerInit => Paced
  BY PacedInit DEF WorkerInit
<1>2. WorkerInv /\ Paced /\ [Next]_workerVars => Paced'
  BY StepOfCall, PacedInv DEF WorkerInv
<1>3. WorkerInv /\ Paced /\ [Next]_workerVars => [Grows]_vars
  BY StepOfCall, PausesStep DEF WorkerInv
<1>4. [][Grows]_vars => PausesGrow
  BY PTL DEF PausesGrow, Grows
<1> QED BY <1>1, <1>2, <1>3, <1>4, Invariance, PTL DEF WorkerSpec
=============================================================================
