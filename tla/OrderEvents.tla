---------------------------- MODULE OrderEvents ----------------------------
(***************************************************************************)
(* The worker: one partition of the topic of order events, the consumer    *)
(* group session that reads it (internal/transport/kafka/consumer.go), the *)
(* look-up of the order (internal/app/kafka_orders.go) and the processor   *)
(* (internal/service/orders), acting on the board of couriers.             *)
(*                                                                         *)
(* A claim handles its messages one after the other and marks those done;  *)
(* marks are flushed now and then and when the claim ends.  A partition    *)
(* has at most one claim at a time: the calls of a revoked claim are       *)
(* cancelled, and time out before the group may expire the member.  The    *)
(* calls are atomic by DeliveryBoard_proofs, theorem Refinement.           *)
(***************************************************************************)
EXTENDS Naturals, Sequences, FiniteSets

CONSTANTS
    Couriers,
    Orders,      \* the orders whose events go to this partition
    NoOrder,     \* the order id of a message that cannot be used
    MaxGarbage   \* bound on the number of such messages

ASSUME OrdersAssumption == NoOrder \notin Orders
ASSUME MaxGarbageAssumption == MaxGarbage \in Nat

VARIABLES
    gateway,    \* whether ORDER_SERVICE is configured
    truth,      \* the status each order has in the orders service
    log,        \* the partition
    committed,  \* how many messages the group has acknowledged
    phase,      \* what the worker is doing
    pos,        \* how many messages the claim has passed
    mark,       \* how many of them it has marked
    seen,       \* the status the event is handled with
    settled,    \* offsets whose handling ended well, or that are unusable
    status, board  \* of CourierBoard

Board == INSTANCE CourierBoard WITH AdminStatuses <- {}

service == <<gateway, truth, log>>
tables == <<status, board>>
vars == <<gateway, truth, log, committed, phase, pos, mark, seen, settled, status, board>>

OrderStatuses == {"created", "cooking", "completed", "canceled", "deleted"}
Messages == [order : Orders \cup {NoOrder}, status : OrderStatuses]
Phases == {"down", "join", "claim", "lookup", "handle"}

TypeOK ==
    /\ gateway \in BOOLEAN
    /\ truth \in [Orders -> OrderStatuses \cup {"none"}]
    /\ log \in Seq(Messages)
    /\ committed \in Nat
    /\ phase \in Phases
    /\ pos \in Nat
    /\ mark \in Nat
    /\ seen \in OrderStatuses \cup {"none"}
    /\ settled \in SUBSET Nat
    /\ status \in [Couriers -> {"available", "busy", "paused"}]
    /\ board \in SUBSET (Couriers \X Orders)

Init ==
    /\ gateway \in BOOLEAN
    /\ truth = [o \in Orders |-> "none"]
    /\ log = <<>>
    /\ committed = 0
    /\ phase = "down"
    /\ pos = 0
    /\ mark = 0
    /\ seen = "none"
    /\ settled = {}
    /\ Board!Init
-----------------------------------------------------------------------------
(***************************************************************************)
(* The orders service changes an order and publishes the change; anybody   *)
(* may publish a message that is not JSON or has no order id.              *)
(***************************************************************************)
Follows(s) == CASE s = "none" -> {"created"}
                [] s = "created" -> {"cooking", "completed", "canceled", "deleted"}
                [] s = "cooking" -> {"completed", "canceled"}
                [] OTHER -> {}

Change(o, s) ==
    /\ s \in Follows(truth[o])
    /\ truth' = [truth EXCEPT ![o] = s]
    /\ log' = Append(log, [order |-> o, status |-> s])
    /\ UNCHANGED <<gateway, committed, phase, pos, mark, seen, settled, tables>>

Garbage ==
    /\ Cardinality({i \in DOMAIN log : log[i].order = NoOrder}) < MaxGarbage
    /\ log' = Append(log, [order |-> NoOrder, status |-> "created"])
    /\ UNCHANGED <<gateway, truth, committed, phase, pos, mark, seen, settled, tables>>
-----------------------------------------------------------------------------
(***************************************************************************)
(* The claim.                                                              *)
(***************************************************************************)
\* Mutant: the last acknowledged message is read again.
JoinOneEarlier ==
    /\ phase = "join"
    /\ phase' = "claim"
    /\ pos' = committed - 1
    /\ mark' = committed - 1
    /\ UNCHANGED <<service, committed, seen, settled, tables>>

\* A session starts at the committed offset (OffsetOldest if there is none).
Join ==
    /\ phase = "join"
    /\ phase' = "claim"
    /\ pos' = committed
    /\ mark' = committed
    /\ UNCHANGED <<service, committed, seen, settled, tables>>

\* MarkMessage: this message, and with it all before, may be acknowledged.
Ack ==
    /\ pos' = pos + 1
    /\ mark' = pos + 1
    /\ settled' = settled \cup {pos + 1}
    /\ phase' = "claim"
    /\ seen' = "none"
    /\ UNCHANGED <<service, committed>>

\* ConsumeClaim returns: the session ends and flushes its marks, if it can.
EndClaim ==
    /\ phase' = "join"
    /\ seen' = "none"
    /\ committed' \in {committed, mark}
    /\ pos' = 0
    /\ mark' = 0
    /\ UNCHANGED <<service, settled>>

Current == log[pos + 1]

\* Mutant: a message that cannot be used is an error of the handler.
SkipAsError ==
    /\ phase = "claim" /\ pos < Len(log)
    /\ Current.order = NoOrder
    /\ EndClaim
    /\ UNCHANGED tables

\* A message that is not JSON, or has no order id, is marked and passed.
Skip ==
    /\ phase = "claim" /\ pos < Len(log)
    /\ Current.order = NoOrder
    /\ Ack
    /\ UNCHANGED tables

\* The handler is called: with a gateway it asks for the order first.
Take ==
    /\ phase = "claim" /\ pos < Len(log)
    /\ Current.order # NoOrder
    /\ phase' = IF gateway THEN "lookup" ELSE "handle"
    /\ seen' = IF gateway THEN "none" ELSE Current.status
    /\ UNCHANGED <<service, committed, pos, mark, settled, tables>>

\* The session's context is done: a rebalance, or the worker shuts down.
Revoke ==
    /\ phase = "claim"
    /\ EndClaim
    /\ UNCHANGED tables

\* The periodic flush of the marks.
Flush ==
    /\ phase \in {"claim", "lookup", "handle"}
    /\ committed' = mark
    /\ UNCHANGED <<service, phase, pos, mark, seen, settled, tables>>

\* The gateway's status replaces the one of the event.  The orders service is
\* taken to know every order but the deleted ones.
LookupFound ==
    /\ phase = "lookup"
    /\ truth[Current.order] # "deleted"
    /\ seen' = truth[Current.order]
    /\ phase' = "handle"
    /\ UNCHANGED <<service, committed, pos, mark, settled, tables>>

\* The orders service does not know the order any more: nothing is handled.
LookupMissing ==
    /\ phase = "lookup"
    /\ truth[Current.order] = "deleted"
    /\ Ack
    /\ UNCHANGED tables
-----------------------------------------------------------------------------
(***************************************************************************)
(* The processor.                                                          *)
(***************************************************************************)
\* Mutants: the factory lacks a status.
OperationNoCancel(s) == CASE s = "created" -> "assign"
                          [] s = "deleted" -> "unassign"
                          [] s = "completed" -> "complete"
                          [] OTHER -> "none"

OperationNoComplete(s) == CASE s = "created" -> "assign"
                            [] s \in {"canceled", "deleted"} -> "unassign"
                            [] OTHER -> "none"

\* The operation for a status: none for a status the factory does not know.
Operation(s) == CASE s = "created" -> "assign"
                  [] s \in {"canceled", "deleted"} -> "unassign"
                  [] s = "completed" -> "complete"
                  [] OTHER -> "none"

SomeoneAvailable == \E c \in Couriers : status[c] = "available"
Assigned(o) == \E c \in Couriers : <<c, o>> \in board

\* The transaction commits its change.
Effect(k, o) ==
    \/ k = "assign" /\ \E c \in Couriers : Board!Assign(c, o)
    \/ k = "unassign" /\ \E c \in Couriers : Board!Unassign(c, o)
    \/ k = "complete" /\ \E c \in Couriers : <<c, o>> \in board /\ Board!Complete(c)

\* Nothing to do, and the handler returns nil: an unknown status, ErrConflict
\* (nobody available), ErrNotFound or no delivery.
Nothing(k, o) ==
    \/ k = "none"
    \/ k = "assign" /\ ~SomeoneAvailable
    \/ k \in {"unassign", "complete"} /\ ~Assigned(o)

\* The processor's handler returns nil.
Handle ==
    /\ phase = "handle"
    /\ LET k == Operation(seen) o == Current.order IN
          Effect(k, o) \/ (Nothing(k, o) /\ UNCHANGED tables)
    /\ Ack

\* The order has a delivery already: the unique index refuses the second.
Duplicate ==
    /\ phase = "handle"
    /\ Operation(seen) = "assign" /\ SomeoneAvailable /\ Assigned(Current.order)
    /\ EndClaim
    /\ UNCHANGED tables

\* Mutant: the loop goes on with the next message after an error.
FailContinue ==
    /\ phase \in {"lookup", "handle"}
    /\ phase' = "claim"
    /\ pos' = pos + 1
    /\ seen' = "none"
    /\ UNCHANGED <<service, committed, mark, settled, tables>>

\* The look-up or the call fails, without effect (no handler of the program
\* returns a PermanentError) ...
Fail ==
    /\ phase \in {"lookup", "handle"}
    /\ EndClaim
    /\ UNCHANGED tables

\* ... or the answer to its COMMIT is lost.
Lost ==
    /\ phase = "handle"
    /\ Effect(Operation(seen), Current.order)
    /\ EndClaim
-----------------------------------------------------------------------------
(***************************************************************************)
(* The worker starts and crashes; the auto-release frees couriers.         *)
(***************************************************************************)
\* The process starts, and joins the group.
Start ==
    /\ phase = "down"
    /\ phase' = "join"
    /\ UNCHANGED <<service, committed, pos, mark, seen, settled, tables>>

\* The process is killed, or stops: what was marked and not flushed is lost.
Crash ==
    /\ phase # "down"
    /\ phase' = "down"
    /\ seen' = "none"
    /\ pos' = 0
    /\ mark' = 0
    /\ UNCHANGED <<service, committed, settled, tables>>

\* The auto-release loop of the other process.
AutoRelease(S) ==
    /\ Board!Release(S)
    /\ UNCHANGED <<service, committed, phase, pos, mark, seen, settled>>

Worker == Start \/ Join \/ Skip \/ Take \/ LookupFound \/ LookupMissing \/ Handle \/ Duplicate

Next ==
    \/ Worker \/ Flush \/ Revoke \/ Fail \/ Lost \/ Crash
    \/ \E o \in Orders, s \in OrderStatuses : Change(o, s)
    \/ Garbage
    \/ \E S \in SUBSET Couriers \ {{}} : AutoRelease(S)

Spec == Init /\ [][Next]_vars

(***************************************************************************)
(* The worker runs, the marks are flushed every second, and no order stays *)
(* created for ever.                                                       *)
(***************************************************************************)
Fairness ==
    /\ WF_vars(Worker)
    /\ WF_vars(Flush)
    /\ \A o \in Orders : WF_vars(\E s \in {"completed", "canceled"} : Change(o, s))

FairSpec == Spec /\ Fairness
-----------------------------------------------------------------------------
\* No message is acknowledged before it has been handled, or found unusable:
\* not by a crash, a rebalance or a failure in the middle of the log
\* (ConsumeClaim returns on the first error, consumer.go:182).
AcknowledgedIsSettled == 1..committed \subseteq settled

\* The claim has seen the whole log.
Idle == phase = "claim" /\ pos = Len(log)

\* When the log is read, a cancelled order has no delivery, however often its
\* events were delivered and whatever was lost in between (onCanceled).
CanceledIsUnassigned ==
    Idle => \A o \in Orders : truth[o] = "canceled" => ~Assigned(o)

\* When the log is read, whoever is busy has an order that is not finished
\* (onCompleted); a deleted order may keep its courier, the gateway does not
\* report it.
BusyWithOpenOrder ==
    Idle => \A c \in Couriers : status[c] = "busy" =>
        \E o \in Orders : <<c, o>> \in board /\ truth[o] \in {"created", "cooking", "deleted"}

\* The length a log may reach: created, cooking, and an end of each order.
MaxLog == 3 * Cardinality(Orders) + MaxGarbage

\* Failures, crashes and rebalances cease: a claim ends only by what the worker
\* itself does (Duplicate).
Calm == <>[][(Crash \/ Revoke \/ Lost \/ Fail) => Worker]_vars

\* With the gateway every message is acknowledged in the end: an event whose
\* repetition the unique index refuses blocks its partition only until the
\* order changes its status in the orders service.
EveryMessageAcknowledged ==
    gateway /\ Calm => \A n \in 1..MaxLog : Len(log) >= n ~> committed >= n
=============================================================================
