------------------------------ MODULE Delivery ------------------------------
(***************************************************************************)
(* The delivery use cases (internal/service/delivery), the "completed"     *)
(* handler of the order processor (internal/service/orders) and the SQL    *)
(* they run (internal/repository/delivery.go), called concurrently by HTTP *)
(* handlers, by the goroutine of each Kafka partition and by the           *)
(* auto-release loop, over one PostgreSQL database.                        *)
(*                                                                         *)
(* A caller runs one call at a time.  A call is one READ COMMITTED         *)
(* transaction: each statement reads the rows committed when it is         *)
(* granted, couriers it updates or selects FOR UPDATE stay locked until    *)
(* the transaction ends, and its writes (ins, del, touch) are invisible to *)
(* the others until Commit.  A waiting statement is an action whose guard  *)
(* is false.  The unit of time is five minutes.                            *)
(***************************************************************************)
EXTENDS Integers, FiniteSets

CONSTANTS
    Couriers,       \* ids of the rows of table couriers
    Transport,      \* transport_type of each courier
    Hired,          \* status values a courier may be created with
    Orders,         \* non-empty order ids, after strings.TrimSpace
    NoOrder,        \* the empty order id
    Procs,          \* goroutines that call the use cases
    NoProc,         \* holder of a free row lock
    May,            \* operations each caller issues
    Serves,         \* order ids each caller issues them for
    AdminStatuses,  \* statuses that PUT /courier sets in this instance
    MaxTime         \* bound on the clock

Kinds == {"assign", "unassign", "complete", "release"}
Statuses == {"available", "busy", "paused"}
TransportTypes == {"on_foot", "scooter", "car"}

ASSUME CouriersAssumption == Couriers \subseteq Nat
ASSUME TransportAssumption == Transport \in [Couriers -> TransportTypes]
ASSUME HiredAssumption == Hired \subseteq Statuses
ASSUME OrdersAssumption == NoOrder \notin Orders
ASSUME ProcsAssumption == NoProc \notin Procs
ASSUME MayAssumption == May \in [Procs -> SUBSET Kinds]
ASSUME ServesAssumption == Serves \in [Procs -> SUBSET (Orders \cup {NoOrder})]
ASSUME AdminAssumption == AdminStatuses \subseteq Statuses
ASSUME MaxTimeAssumption == MaxTime \in Nat

VARIABLES
    status,    \* committed couriers.status
    delivery,  \* committed rows of table delivery
    lock,      \* the transaction that holds the lock of a courier row
    now,       \* the clock
    pc,        \* the statement a caller is about to run
    op, arg,   \* its operation and order id
    cand,      \* Assign: rows of its SELECT not yet tried
    row,       \* the delivery in hand: none, or the one read or built
    todo,      \* ReleaseExpired: couriers still to be updated
    clk,       \* ReleaseExpired: the instant it took as now
    ins, del,  \* uncommitted inserts (rows) and deletes (order ids)
    touch,     \* couriers whose status the transaction has changed
    reply      \* what the call returned

db == <<status, delivery>>
local == <<op, arg, cand, row, todo, clk>>
writes == <<ins, del, touch>>
vars == <<status, delivery, lock, now, pc, op, arg, cand, row, todo, clk,
          ins, del, touch, reply>>

Labels == {"idle", "find", "pick", "insert", "busy", "read", "delete", "free",
           "scan", "release", "commit", "done"}
Replies == {"none", "ok", "invalid", "conflict", "notfound", "error"}
Rows == [courier : Couriers, order : Orders, deadline : Nat]
Candidates == [courier : Couriers, load : Nat]

TypeOK ==
    /\ status \in [Couriers -> Statuses]
    /\ delivery \in SUBSET Rows
    /\ lock \in [Couriers -> Procs \cup {NoProc}]
    /\ now \in Nat
    /\ pc \in [Procs -> Labels]
    /\ op \in [Procs -> Kinds \cup {"none"}]
    /\ arg \in [Procs -> Orders \cup {NoOrder}]
    /\ cand \in [Procs -> SUBSET Candidates]
    /\ row \in [Procs -> SUBSET Rows]
    /\ todo \in [Procs -> SUBSET Couriers]
    /\ clk \in [Procs -> Nat]
    /\ ins \in [Procs -> SUBSET Rows]
    /\ del \in [Procs -> SUBSET Orders]
    /\ touch \in [Procs -> SUBSET Couriers]
    /\ reply \in [Procs -> Replies]

Init ==
    /\ status \in [Couriers -> Hired]
    /\ delivery = {}
    /\ lock = [c \in Couriers |-> NoProc]
    /\ now = 0
    /\ pc = [p \in Procs |-> "idle"]
    /\ op = [p \in Procs |-> "none"]
    /\ arg = [p \in Procs |-> NoOrder]
    /\ cand = [p \in Procs |-> {}]
    /\ row = [p \in Procs |-> {}]
    /\ todo = [p \in Procs |-> {}]
    /\ clk = [p \in Procs |-> 0]
    /\ ins = [p \in Procs |-> {}]
    /\ del = [p \in Procs |-> {}]
    /\ touch = [p \in Procs |-> {}]
    /\ reply = [p \in Procs |-> "none"]
-----------------------------------------------------------------------------
(***************************************************************************)
(* Transactions and row locks.                                             *)
(***************************************************************************)
Goto(p, l) == pc' = [pc EXCEPT ![p] = l]

\* Mutant: the SELECT has no FOR UPDATE.
GrantableUnlocked(p, c) == c \in Couriers /\ p \in Procs

\* A row lock is granted when no other transaction holds it.
Grantable(p, c) == lock[c] \in {NoProc, p}

Acquire(p, c) == Grantable(p, c) /\ lock' = [lock EXCEPT ![c] = p]

\* The end of the transaction, by COMMIT or ROLLBACK, and the reply r.
Finish(p, r) ==
    /\ Goto(p, "done")
    /\ reply' = [reply EXCEPT ![p] = r]
    /\ lock' = [c \in Couriers |-> IF lock[c] = p THEN NoProc ELSE lock[c]]
    /\ cand' = [cand EXCEPT ![p] = {}]
    /\ row' = [row EXCEPT ![p] = {}]
    /\ todo' = [todo EXCEPT ![p] = {}]
    /\ clk' = [clk EXCEPT ![p] = 0]
    /\ ins' = [ins EXCEPT ![p] = {}]
    /\ del' = [del EXCEPT ![p] = {}]
    /\ touch' = [touch EXCEPT ![p] = {}]
    /\ UNCHANGED <<now, op, arg>>

\* Mutant: the error path returns without tx.Rollback, so the locks stay.
RollbackForgotten(p, r) ==
    /\ Goto(p, "done")
    /\ reply' = [reply EXCEPT ![p] = r]
    /\ cand' = [cand EXCEPT ![p] = {}]
    /\ row' = [row EXCEPT ![p] = {}]
    /\ todo' = [todo EXCEPT ![p] = {}]
    /\ clk' = [clk EXCEPT ![p] = 0]
    /\ UNCHANGED <<status, delivery, lock, now, op, arg, writes>>

\* The transaction fails or is refused: nothing it wrote becomes visible.
Rollback(p, r) == Finish(p, r) /\ UNCHANGED db

RowsOf(o) == {r \in delivery : r.order = o}

\* Mutant: no unique index, so an INSERT waits for nobody.
PendingInsertUnseen(p, o) == p \notin Procs /\ o \notin Orders

\* Statements of other transactions on the same order id that have not ended.
PendingInsert(p, o) == \E q \in Procs \ {p} : \E r \in ins[q] : r.order = o
PendingDelete(p, o) == \E q \in Procs \ {p} : o \in del[q]
-----------------------------------------------------------------------------
(***************************************************************************)
(* A call begins; a blank order id is refused before any transaction.      *)
(***************************************************************************)
Entry(k) == CASE k = "assign" -> "find"
              [] k \in {"unassign", "complete"} -> "read"
              [] k = "release" -> "scan"

Begin(p, k, o) ==
    /\ pc[p] = "idle"
    /\ op' = [op EXCEPT ![p] = k]
    /\ arg' = [arg EXCEPT ![p] = o]
    /\ clk' = [clk EXCEPT ![p] = IF k = "release" THEN now ELSE 0]
    /\ IF k \in {"assign", "unassign"} /\ o = NoOrder
       THEN Goto(p, "done") /\ reply' = [reply EXCEPT ![p] = "invalid"]
       ELSE Goto(p, Entry(k)) /\ UNCHANGED reply
    /\ UNCHANGED <<status, delivery, lock, now, cand, row, todo, ins, del, touch>>

Call(p) ==
    \/ \E k \in May[p] \ {"release"}, o \in Serves[p] : Begin(p, k, o)
    \/ "release" \in May[p] /\ Begin(p, "release", NoOrder)

\* The caller takes the reply and is free for its next call.
Return(p) ==
    /\ pc[p] = "done"
    /\ Goto(p, "idle")
    /\ op' = [op EXCEPT ![p] = "none"]
    /\ arg' = [arg EXCEPT ![p] = NoOrder]
    /\ reply' = [reply EXCEPT ![p] = "none"]
    /\ UNCHANGED <<status, delivery, lock, now, cand, row, todo, clk, ins, del, touch>>
-----------------------------------------------------------------------------
(***************************************************************************)
(* Assign.  The SELECT orders the available couriers by their number of    *)
(* deliveries, then by id, as of its snapshot, and locks them in that      *)
(* order: after waiting for a lock it looks at the courier's latest        *)
(* committed status and passes to the next one (keeping the lock) when the *)
(* courier is no longer available.                                         *)
(***************************************************************************)
Load(c) == Cardinality({r \in delivery : r.courier = c})

\* Mutant: every courier who is not busy is taken for available.
AvailableUnlessBusy(c) == status[c] # "busy"

\* The WHERE clause, evaluated in the snapshot and again under the lock.
Available(c) == status[c] = "available"

Snapshot ==
    {[courier |-> c, load |-> Load(c)] : c \in {d \in Couriers : Available(d)}}

Before(x, y) == \/ x.load < y.load
                \/ x.load = y.load /\ x.courier <= y.courier

First(p, x) == x \in cand[p] /\ \A y \in cand[p] : Before(x, y)

Deadline(t, n) == CASE t = "on_foot" -> n + 6
                    [] t = "scooter" -> n + 3
                    [] t = "car" -> n + 1

BuildAssign(p, c) ==
    [courier |-> c, order |-> arg[p], deadline |-> Deadline(Transport[c], now)]

Find(p) ==
    /\ pc[p] = "find"
    /\ IF Snapshot = {}
       THEN Rollback(p, "conflict")
       ELSE /\ cand' = [cand EXCEPT ![p] = Snapshot]
            /\ Goto(p, "pick")
            /\ UNCHANGED <<status, delivery, lock, now, op, arg, row, todo, clk,
                           ins, del, touch, reply>>

PickCourier(p) ==
    /\ pc[p] = "pick"
    /\ \E x \in cand[p] :
        /\ First(p, x)
        /\ Acquire(p, x.courier)
        /\ Available(x.courier)
        /\ row' = [row EXCEPT ![p] = {BuildAssign(p, x.courier)}]
    /\ cand' = [cand EXCEPT ![p] = {}]
    /\ Goto(p, "insert")
    /\ UNCHANGED <<status, delivery, now, op, arg, todo, clk, ins, del, touch, reply>>

SkipCourier(p) ==
    /\ pc[p] = "pick"
    /\ \E x \in cand[p] :
        /\ First(p, x)
        /\ Grantable(p, x.courier)
        /\ ~Available(x.courier)
        /\ IF cand[p] = {x}
           THEN Rollback(p, "conflict")
           ELSE /\ Acquire(p, x.courier)
                /\ cand' = [cand EXCEPT ![p] = @ \ {x}]
                /\ UNCHANGED <<status, delivery, now, pc, op, arg, row, todo,
                               clk, ins, del, touch, reply>>

\* Mutant: no unique index, the row is inserted beside the one that is there.
InsertDeliveryAgain(p) ==
    /\ pc[p] = "insert"
    /\ ins' = [ins EXCEPT ![p] = row[p]]
    /\ Goto(p, "busy")
    /\ UNCHANGED <<status, delivery, lock, now, local, del, touch, reply>>

\* The unique index makes the INSERT wait for any unfinished insert or delete
\* of the same order id, and fail if the row is there afterwards.
InsertDelivery(p) ==
    /\ pc[p] = "insert"
    /\ ~PendingInsert(p, arg[p])
    /\ ~PendingDelete(p, arg[p])
    /\ RowsOf(arg[p]) = {}
    /\ ins' = [ins EXCEPT ![p] = row[p]]
    /\ Goto(p, "busy")
    /\ UNCHANGED <<status, delivery, lock, now, local, del, touch, reply>>

\* The unique violation is wrapped as it comes, not mapped to a sentinel error.
InsertDuplicate(p) ==
    /\ pc[p] = "insert"
    /\ ~PendingInsert(p, arg[p])
    /\ ~PendingDelete(p, arg[p])
    /\ RowsOf(arg[p]) # {}
    /\ Rollback(p, "error")
-----------------------------------------------------------------------------
(***************************************************************************)
(* Unassign, and the "completed" event, read the row without locking it.   *)
(***************************************************************************)
\* Mutant: a completion goes on to delete the row, as an Unassign does.
GetByOrderIDToDelete(p) ==
    /\ pc[p] = "read"
    /\ RowsOf(arg[p]) # {}
    /\ row' = [row EXCEPT ![p] = RowsOf(arg[p])]
    /\ Goto(p, "delete")
    /\ UNCHANGED <<status, delivery, lock, now, op, arg, cand, todo, clk, writes, reply>>

GetByOrderID(p) ==
    /\ pc[p] = "read"
    /\ RowsOf(arg[p]) # {}
    /\ row' = [row EXCEPT ![p] = RowsOf(arg[p])]
    /\ Goto(p, IF op[p] = "unassign" THEN "delete" ELSE "free")
    /\ UNCHANGED <<status, delivery, lock, now, op, arg, cand, todo, clk, writes, reply>>

\* No delivery: ErrNotFound from Unassign, an empty commit from onCompleted.
GetNothing(p) ==
    /\ pc[p] = "read"
    /\ RowsOf(arg[p]) = {}
    /\ IF op[p] = "unassign"
       THEN Rollback(p, "notfound")
       ELSE Goto(p, "commit") /\ UNCHANGED <<status, delivery, lock, now, local, writes, reply>>

\* Mutant: Unassign deletes the row and forgets its courier.
DeleteAndCommit(p) ==
    /\ pc[p] = "delete"
    /\ ~PendingDelete(p, arg[p])
    /\ RowsOf(arg[p]) # {}
    /\ del' = [del EXCEPT ![p] = {arg[p]}]
    /\ Goto(p, "commit")
    /\ UNCHANGED <<status, delivery, lock, now, local, ins, touch, reply>>

DeleteByOrderID(p) ==
    /\ pc[p] = "delete"
    /\ ~PendingDelete(p, arg[p])
    /\ IF RowsOf(arg[p]) = {}
       THEN Rollback(p, "error")
       ELSE /\ del' = [del EXCEPT ![p] = {arg[p]}]
            /\ Goto(p, "free")
            /\ UNCHANGED <<status, delivery, lock, now, local, ins, touch, reply>>

\* UPDATE couriers of the courier of the row in hand: the last statement of
\* Assign (status busy), of Unassign and of onCompleted (status available).
UpdateCourierStatus(p) ==
    /\ pc[p] \in {"busy", "free"}
    /\ \E r \in row[p] :
        /\ Acquire(p, r.courier)
        /\ touch' = [touch EXCEPT ![p] = {r.courier}]
    /\ Goto(p, "commit")
    /\ UNCHANGED <<status, delivery, now, local, ins, del, reply>>
-----------------------------------------------------------------------------
(***************************************************************************)
(* ReleaseExpired: one UPDATE.  The couriers it visits are those its       *)
(* snapshot shows busy with some delivery whose deadline has passed; after *)
(* waiting for a courier's lock it looks again at the status only.         *)
(***************************************************************************)
Expired(r, t) == r.deadline < t

\* Mutant: the two status parameters of the UPDATE are swapped.
OverdueSwapped(t) == {c \in Couriers :
                         /\ status[c] = "available"
                         /\ \E r \in delivery : r.courier = c /\ Expired(r, t)}

Overdue(t) == {c \in Couriers :
                  /\ status[c] = "busy"
                  /\ \E r \in delivery : r.courier = c /\ Expired(r, t)}

ScanExpired(p) ==
    /\ pc[p] = "scan"
    /\ todo' = [todo EXCEPT ![p] = Overdue(clk[p])]
    /\ Goto(p, IF Overdue(clk[p]) = {} THEN "commit" ELSE "release")
    /\ UNCHANGED <<status, delivery, lock, now, op, arg, cand, row, clk, writes, reply>>

StillBusy(c) == status[c] = "busy"

ReleaseCourier(p) ==
    /\ pc[p] = "release"
    /\ \E c \in todo[p] :
        /\ Acquire(p, c)
        /\ touch' = [touch EXCEPT ![p] = IF StillBusy(c) THEN @ \cup {c} ELSE @]
        /\ todo' = [todo EXCEPT ![p] = @ \ {c}]
        /\ Goto(p, IF todo[p] = {c} THEN "commit" ELSE "release")
    /\ UNCHANGED <<status, delivery, now, op, arg, cand, row, clk, ins, del, reply>>
-----------------------------------------------------------------------------
(***************************************************************************)
(* The end of a transaction.                                               *)
(***************************************************************************)
\* Mutant: the reply's status is written to the courier.
NewStatusOfReply(k) ==
    CASE k = "assign" -> "busy" [] k = "unassign" -> "unassigned" [] OTHER -> "available"

NewStatus(k) == IF k = "assign" THEN "busy" ELSE "available"

Apply(p) ==
    /\ status' = [c \in Couriers |-> IF c \in touch[p] THEN NewStatus(op[p]) ELSE status[c]]
    /\ delivery' = {r \in delivery : r.order \notin del[p]} \cup ins[p]

\* COMMIT succeeds; or its answer is lost after the server applied it.
Commit(p) ==
    /\ pc[p] = "commit"
    /\ Apply(p)
    /\ \E r \in {"ok", "error"} : Finish(p, r)

\* A statement, or COMMIT, fails: a timeout of the operation or of the HTTP
\* request, the end of the Kafka session, or a lost connection.
Fail(p) ==
    /\ pc[p] \notin {"idle", "done"}
    /\ Rollback(p, "error")

\* The transactions that p's next statement waits for.
WaitsFor(p) ==
    LET holder(c) == {lock[c]} \ {NoProc, p}
        others == Procs \ {p}
    IN CASE pc[p] = "pick" ->
              UNION {holder(x.courier) : x \in {y \in cand[p] : First(p, y)}}
         [] pc[p] = "free" -> UNION {holder(r.courier) : r \in row[p]}
         [] pc[p] = "insert" ->
              {q \in others : arg[p] \in del[q] \/ \E r \in ins[q] : r.order = arg[p]}
         [] pc[p] = "delete" -> {q \in others : arg[p] \in del[q]}
         [] pc[p] = "release" ->
              IF \E c \in todo[p] : Grantable(p, c) THEN {}
              ELSE {lock[c] : c \in todo[p]}
         [] OTHER -> {}

InCycle(p) ==
    \E n \in 2..Cardinality(Procs) : \E f \in [0..n -> Procs] :
        /\ f[0] = p /\ f[n] = p
        /\ \A i \in 0..(n - 1) : f[i + 1] \in WaitsFor(f[i])

Deadlocked(p) == WaitsFor(p) # {} /\ InCycle(p)

\* PostgreSQL aborts a transaction of a cycle of waits.
DeadlockVictim(p) ==
    /\ Deadlocked(p)
    /\ Rollback(p, "error")
-----------------------------------------------------------------------------
(***************************************************************************)
(* The environment: PUT /courier sets a status (one UPDATE); time passes.  *)
(***************************************************************************)
SetStatus(c, s) ==
    /\ lock[c] = NoProc
    /\ status' = [status EXCEPT ![c] = s]
    /\ UNCHANGED <<delivery, lock, now, pc, local, writes, reply>>

Tick ==
    /\ now < MaxTime
    /\ now' = now + 1
    /\ UNCHANGED <<status, delivery, lock, pc, local, writes, reply>>

Statement(p) ==
    \/ Find(p) \/ PickCourier(p) \/ SkipCourier(p)
    \/ InsertDelivery(p) \/ InsertDuplicate(p)
    \/ GetByOrderID(p) \/ GetNothing(p) \/ DeleteByOrderID(p)
    \/ UpdateCourierStatus(p)
    \/ ScanExpired(p) \/ ReleaseCourier(p)
    \/ Commit(p)

Next ==
    \/ \E p \in Procs : Call(p) \/ Statement(p) \/ Return(p) \/ Fail(p) \/ DeadlockVictim(p)
    \/ \E c \in Couriers, s \in AdminStatuses : SetStatus(c, s)
    \/ Tick

Spec == Init /\ [][Next]_vars
-----------------------------------------------------------------------------
(***************************************************************************)
(* Fairness.  PostgreSQL runs every statement it has accepted and grants a *)
(* contended lock in the order of the requests (strong fairness); its      *)
(* deadlock detector fires; a caller takes its reply; the ticker of        *)
(* startAutoReleaseLoop calls ReleaseExpired again and again.  HTTP calls, *)
(* events and failures need never happen.                                  *)
(***************************************************************************)
Fairness ==
    \A p \in Procs :
        /\ SF_vars(Statement(p))
        /\ WF_vars(DeadlockVictim(p))
        /\ WF_vars(Return(p))
        /\ WF_vars("release" \in May[p] /\ Call(p))

FairSpec == Spec /\ Fairness
-----------------------------------------------------------------------------
(***************************************************************************)
(* Properties that hold whatever the callers do.                           *)
(***************************************************************************)
\* No order has two deliveries, although two calls may insert it at the same
\* time (the unique index of InsertDelivery).
OneDeliveryPerOrder == \A r, s \in delivery : r.order = s.order => r = s

\* From the moment Assign has chosen a courier until it ends, no other
\* transaction changes that courier: the SELECT ... FOR UPDATE decision is
\* never stale when the row is inserted and the status is set.
ChosenStaysAvailable ==
    \A p \in Procs : pc[p] \in {"insert", "busy", "commit"} /\ op[p] = "assign" =>
        \A r \in row[p] : status[r.courier] = "available"

\* No courier is booked twice: a delivery appears only together with the
\* change of its courier from available to busy (Assign, usecase.go).
AssignTakesAvailable ==
    [][\A r \in delivery' \ delivery :
          status[r.courier] = "available" /\ status'[r.courier] = "busy"]_vars

\* Who can be in a deadlock, whatever calls run together: assignments and the
\* auto-release, which lock several couriers, and an Unassign whose order is
\* being assigned again.  A completion, which has no timeout of its own
\* (onCompleted), never is: it holds nothing while it waits.
DeadlocksAreKnown ==
    \A p \in Procs : Deadlocked(p) =>
        \/ op[p] \in {"assign", "release"}
        \/ /\ op[p] = "unassign"
           /\ \E q \in Procs \ {p} : op[q] = "assign" /\ arg[q] = arg[p]

(***************************************************************************)
(* Properties of deployments where only one caller cancels an order.       *)
(***************************************************************************)
\* Who unassigns an order shares it with callers who only assign it: partitions
\* with the events of their orders, HTTP handlers of POST /delivery/assign.  An
\* administrator pauses couriers and makes them available, but never busy.
OneCanceller ==
    /\ \A p, q \in Procs :
          p # q /\ "unassign" \in May[p] /\ May[q] \cap {"unassign", "complete"} # {} =>
              Serves[p] \cap Serves[q] \subseteq {NoOrder}
    /\ "busy" \notin AdminStatuses
    /\ "busy" \notin Hired

\* A courier who is busy has a delivery: somebody can cancel, complete or
\* auto-release it, so no courier is lost to the pool (Unassign,
\* ReleaseCouriers).
BusyHasDelivery ==
    \A c \in Couriers : status[c] = "busy" => \E r \in delivery : r.courier = c

\* Unassign frees the courier of the very delivery it removes, although it
\* read that delivery without a lock (usecase.go: GetByOrderID,
\* DeleteByOrderID, then UpdateCourierStatus of the courier that was read).
UnassignFreesItsCourier ==
    [][\A r \in delivery \ delivery' : status'[r.courier] = "available"]_vars

\* Every interleaving of the transactions is a sequence of atomic operations
\* on the board.
Board == INSTANCE CourierBoard WITH
    board <- {<<r.courier, r.order>> : r \in delivery}

ImplementsBoard == Board!Spec

(***************************************************************************)
(* Liveness.                                                               *)
(***************************************************************************)
\* Every call returns: no wait for a lock is for ever, deadlocks are broken
\* (WithTx, and onCompleted which has no timeout of its own).
CallReturns == \A p \in Procs : pc[p] # "idle" ~> pc[p] = "idle"

\* From some point on, no transaction fails except as a deadlock victim.
Calm == <>[][\A p \in Procs : Fail(p) => DeadlockVictim(p)]_vars

\* The auto-release frees every busy courier with an overdue delivery
\* ("ReleaseExpired releases expired couriers").
ExpiredIsFreed ==
    Calm => \A c \in Couriers :
        (status[c] = "busy" /\ \E r \in delivery : r.courier = c /\ r.deadline < now)
            ~> status[c] = "available"

(***************************************************************************)
(* What the documentation says and the code does not do.                   *)
(***************************************************************************)
\* "ReleaseCouriers - release expired couriers": whoever it frees has no
\* delivery whose deadline is still ahead.
ReleaseOnlyExpired ==
    [][\A p \in Procs : \A c \in touch[p] :
          op[p] = "release" /\ status[c] = "busy" /\ status'[c] = "available" =>
              \A r \in delivery : r.courier = c => Expired(r, now)]_vars
=============================================================================
