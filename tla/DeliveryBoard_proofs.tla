------------------------ MODULE DeliveryBoard_proofs ------------------------
(***************************************************************************)
(* Theorems about Delivery when nobody but callers who only assign shares  *)
(* an order with the one who unassigns it (OneCanceller): the transactions *)
(* then implement the atomic operations of CourierBoard.                   *)
(*                                                                         *)
(* OInv strengthens IInv.  Its idea: nobody else deletes the row of the    *)
(* order that an Unassign or a completion works on, and while the row is   *)
(* there nobody can insert another, so the row it read without a lock is   *)
(* still the row of that order when it commits (Fresh).                    *)
(***************************************************************************)
EXTENDS Delivery_proofs

\* A caller does what it may for an order it serves; only an Unassign deletes,
\* that order.
Own ==
    \A p \in Procs :
        /\ arg[p] \in Serves[p] \cup {NoOrder}
        /\ op[p] \in May[p] \cup {"none"}
        /\ del[p] \subseteq {arg[p]}
        /\ pc[p] = "delete" => op[p] = "unassign"
        /\ del[p] # {} => pc[p] \in {"free", "commit"} /\ op[p] = "unassign"

\* The row in hand of an Unassign or a completion is still committed.
Fresh ==
    \A p \in Procs :
        (pc[p] \in {"delete", "free"} \/ (pc[p] = "commit" /\ op[p] \in {"unassign", "complete"})) =>
            row[p] \subseteq RowsOf(arg[p])

\* What a transaction is about to commit.
Ready ==
    \A p \in Procs :
        /\ pc[p] \in {"idle", "find", "pick", "read", "done"} => row[p] = {}
        /\ pc[p] \in {"insert", "busy", "delete", "free"} => row[p] # {}
        /\ pc[p] = "busy" => ins[p] = row[p]
        /\ pc[p] = "free" /\ op[p] = "unassign" => del[p] = {arg[p]}
        /\ pc[p] = "commit" =>
              /\ op[p] \in Kinds
              /\ op[p] = "assign" => ins[p] = row[p] /\ row[p] # {}
              /\ op[p] = "unassign" => del[p] = {arg[p]} /\ row[p] # {}
              /\ op[p] # "release" => touch[p] = {r.courier : r \in row[p]}
        /\ op[p] = "release" => \A c \in touch[p] : status[c] = "busy"

OInv == IInv /\ Own /\ Fresh /\ Ready /\ BusyHasDelivery
-----------------------------------------------------------------------------
LEMMA InitBoard == ASSUME OneCanceller, Init PROVE OInv
<1>1. IInv
  BY InitInv
<1>2. Own /\ Fresh /\ Ready
  BY DEF Init, Own, Fresh, Ready
<1>3. BusyHasDelivery
  BY DEF Init, BusyHasDelivery, OneCanceller
<1> QED
  BY <1>1, <1>2, <1>3 DEF OInv

\* A transaction ends without effect.
LEMMA RollbackBoard ==
    ASSUME OInv, NEW p \in Procs, NEW r \in Replies, Rollback(p, r)
    PROVE  Own' /\ Fresh' /\ Ready' /\ BusyHasDelivery'
<1> USE DEF OInv, IInv, Rollback, Finish, Goto, db
<1>1. Own'
  BY DEF TypeOK, Own
<1>2. Fresh'
  BY DEF TypeOK, Fresh, RowsOf
<1>3. Ready'
  BY DEF TypeOK, Ready
<1>4. BusyHasDelivery'
  BY DEF BusyHasDelivery
<1> QED
  BY <1>1, <1>2, <1>3, <1>4

\* A call begins on an order its caller serves.
LEMMA BeginBoard ==
    ASSUME OInv, NEW p \in Procs, NEW k \in Kinds, k \in May[p],
           NEW o \in Serves[p] \cup {NoOrder}, Begin(p, k, o)
    PROVE  Own' /\ Fresh' /\ Ready' /\ BusyHasDelivery'
<1> USE DEF OInv, IInv, Begin, Goto, Entry
<1>1. Own'
  BY DEF TypeOK, Own, Kinds
<1>2. Fresh'
  BY DEF TypeOK, Fresh, RowsOf, Kinds
<1>3. Ready'
  BY DEF TypeOK, Ready, Locked, Kinds
<1>4. BusyHasDelivery'
  BY DEF BusyHasDelivery
<1> QED
  BY <1>1, <1>2, <1>3, <1>4

\* A caller takes its reply.
LEMMA ReturnBoard ==
    ASSUME OInv, NEW p \in Procs, Return(p)
    PROVE  Own' /\ Fresh' /\ Ready' /\ BusyHasDelivery'
<1> USE DEF OInv, IInv, Return, Goto
<1>1. Own'
  BY DEF TypeOK, Own
<1>2. Fresh'
  BY DEF TypeOK, Fresh, RowsOf
<1>3. Ready'
  BY DEF TypeOK, Ready
<1>4. BusyHasDelivery'
  BY DEF BusyHasDelivery
<1> QED
  BY <1>1, <1>2, <1>3, <1>4

\* The SELECT takes its snapshot.
LEMMA FindBoard ==
    ASSUME OInv, NEW p \in Procs, Find(p)
    PROVE  Own' /\ Fresh' /\ Ready' /\ BusyHasDelivery'
<1>0. CASE Snapshot = {}
  BY <1>0, RollbackBoard DEF Find, Replies
<1> SUFFICES ASSUME ~(Snapshot = {}) PROVE Own' /\ Fresh' /\ Ready' /\ BusyHasDelivery'
  BY <1>0
<1> USE DEF OInv, IInv, Find, Goto
<1>1. Own'
  BY DEF TypeOK, Own
<1>2. Fresh'
  BY DEF TypeOK, Fresh, RowsOf
<1>3. Ready'
  BY DEF TypeOK, Ready
<1>4. BusyHasDelivery'
  BY DEF BusyHasDelivery
<1> QED
  BY <1>1, <1>2, <1>3, <1>4

\* Assign locks the courier it takes.
LEMMA PickCourierBoard ==
    ASSUME OInv, NEW p \in Procs, PickCourier(p)
    PROVE  Own' /\ Fresh' /\ Ready' /\ BusyHasDelivery'
<1> USE DEF OInv, IInv, PickCourier, Goto, Acquire
<1>1. Own'
  BY DEF TypeOK, Own
<1>2. Fresh'
  BY DEF TypeOK, Fresh, RowsOf
<1>3. Ready'
  BY DEF TypeOK, Ready, AtOperation
<1>4. BusyHasDelivery'
  BY DEF BusyHasDelivery
<1> QED
  BY <1>1, <1>2, <1>3, <1>4

\* Assign passes to the next courier.
LEMMA SkipCourierBoard ==
    ASSUME OInv, NEW p \in Procs, SkipCourier(p)
    PROVE  Own' /\ Fresh' /\ Ready' /\ BusyHasDelivery'
<1>0. CASE Rollback(p, "conflict")
  BY <1>0, RollbackBoard DEF Replies
<1> SUFFICES ASSUME ~Rollback(p, "conflict") PROVE Own' /\ Fresh' /\ Ready' /\ BusyHasDelivery'
  BY <1>0
<1>a. UNCHANGED <<status, delivery, pc, op, arg, row, ins, del, touch>>
  BY DEF SkipCourier
<1> USE DEF OInv, IInv, Acquire
<1>1. Own'
  BY <1>a DEF TypeOK, Own
<1>2. Fresh'
  BY <1>a DEF TypeOK, Fresh, RowsOf
<1>3. Ready'
  BY <1>a DEF TypeOK, Ready
<1>4. BusyHasDelivery'
  BY <1>a DEF BusyHasDelivery
<1> QED
  BY <1>1, <1>2, <1>3, <1>4

\* Assign inserts its delivery.
LEMMA InsertDeliveryBoard ==
    ASSUME OInv, NEW p \in Procs, InsertDelivery(p)
    PROVE  Own' /\ Fresh' /\ Ready' /\ BusyHasDelivery'
<1> USE DEF OInv, IInv, InsertDelivery, Goto, local
<1>1. Own'
  BY DEF TypeOK, Own
<1>2. Fresh'
  BY DEF TypeOK, Fresh, RowsOf
<1>3. Ready'
  BY DEF TypeOK, Ready
<1>4. BusyHasDelivery'
  BY DEF BusyHasDelivery
<1> QED
  BY <1>1, <1>2, <1>3, <1>4

\* The row of the order is read.
LEMMA GetByOrderIDBoard ==
    ASSUME OInv, NEW p \in Procs, GetByOrderID(p)
    PROVE  Own' /\ Fresh' /\ Ready' /\ BusyHasDelivery'
<1> USE DEF OInv, IInv, GetByOrderID, Goto, writes, RowsOf
<1>1. Own'
  BY DEF TypeOK, Own
<1>2. Fresh'
  BY DEF TypeOK, Fresh, AtOperation
<1>3. Ready'
  BY DEF TypeOK, Ready, AtOperation
<1>4. BusyHasDelivery'
  BY DEF BusyHasDelivery
<1> QED
  BY <1>1, <1>2, <1>3, <1>4

\* No row of the order.
LEMMA GetNothingBoard ==
    ASSUME OInv, NEW p \in Procs, GetNothing(p)
    PROVE  Own' /\ Fresh' /\ Ready' /\ BusyHasDelivery'
<1>0. CASE op[p] = "unassign"
  BY <1>0, RollbackBoard DEF GetNothing, Replies
<1> SUFFICES ASSUME ~(op[p] = "unassign") PROVE Own' /\ Fresh' /\ Ready' /\ BusyHasDelivery'
  BY <1>0
<1> USE DEF OInv, IInv, GetNothing, Goto, writes, local
<1>1. Own'
  BY DEF TypeOK, Own
<1>2. Fresh'
  BY DEF TypeOK, Fresh, Ready, RowsOf
<1>3. Ready'
  BY DEF TypeOK, Ready, Locked, AtOperation, Kinds
<1>4. BusyHasDelivery'
  BY DEF BusyHasDelivery
<1> QED
  BY <1>1, <1>2, <1>3, <1>4

\* Unassign deletes the row.
LEMMA DeleteByOrderIDBoard ==
    ASSUME OInv, NEW p \in Procs, DeleteByOrderID(p)
    PROVE  Own' /\ Fresh' /\ Ready' /\ BusyHasDelivery'
<1>0. CASE RowsOf(arg[p]) = {}
  BY <1>0, RollbackBoard DEF DeleteByOrderID, Replies
<1> SUFFICES ASSUME ~(RowsOf(arg[p]) = {}) PROVE Own' /\ Fresh' /\ Ready' /\ BusyHasDelivery'
  BY <1>0
<1> USE DEF OInv, IInv, DeleteByOrderID, Goto, local
<1>1. Own'
  BY DEF TypeOK, Own
<1>2. Fresh'
  BY DEF TypeOK, Fresh, RowsOf
<1>3. Ready'
  BY DEF TypeOK, Ready
<1>4. BusyHasDelivery'
  BY DEF BusyHasDelivery
<1> QED
  BY <1>1, <1>2, <1>3, <1>4

\* The courier of the row in hand is updated.
LEMMA UpdateCourierStatusBoard ==
    ASSUME OInv, NEW p \in Procs, UpdateCourierStatus(p)
    PROVE  Own' /\ Fresh' /\ Ready' /\ BusyHasDelivery'
<1> USE DEF OInv, IInv, UpdateCourierStatus, Goto, local
<1>1. Own'
  BY DEF TypeOK, Own, AtOperation
<1>2. Fresh'
  BY DEF TypeOK, Fresh, RowsOf, AtOperation
<1>3. Ready'
  BY DEF TypeOK, Ready, AtOperation, InHand, Kinds
<1>4. BusyHasDelivery'
  BY DEF BusyHasDelivery
<1> QED
  BY <1>1, <1>2, <1>3, <1>4

\* The auto-release takes its snapshot.
LEMMA ScanExpiredBoard ==
    ASSUME OInv, NEW p \in Procs, ScanExpired(p)
    PROVE  Own' /\ Fresh' /\ Ready' /\ BusyHasDelivery'
<1> USE DEF OInv, IInv, ScanExpired, Goto, writes
<1>1. Own'
  BY DEF TypeOK, Own, AtOperation
<1>2. Fresh'
  BY DEF TypeOK, Fresh, RowsOf, AtOperation
<1>3. Ready'
  BY DEF TypeOK, Ready, AtOperation, Kinds
<1>4. BusyHasDelivery'
  BY DEF BusyHasDelivery
<1> QED
  BY <1>1, <1>2, <1>3, <1>4

\* The auto-release visits a courier.
LEMMA ReleaseCourierBoard ==
    ASSUME OInv, NEW p \in Procs, ReleaseCourier(p)
    PROVE  Own' /\ Fresh' /\ Ready' /\ BusyHasDelivery'
<1> USE DEF OInv, IInv, ReleaseCourier, Goto, StillBusy
<1>1. Own'
  BY DEF TypeOK, Own, AtOperation
<1>2. Fresh'
  BY DEF TypeOK, Fresh, RowsOf, AtOperation
<1>3. Ready'
  BY DEF TypeOK, Ready, AtOperation, Kinds
<1>4. BusyHasDelivery'
  BY DEF BusyHasDelivery
<1> QED
  BY <1>1, <1>2, <1>3, <1>4

\* A transaction commits.
LEMMA CommitBoard ==
    ASSUME OInv, OneCanceller, NEW p \in Procs, Commit(p)
    PROVE  Own' /\ Fresh' /\ Ready' /\ BusyHasDelivery'
<1> USE DEF OInv, IInv, Commit, Goto, Apply, Finish
<1>1. Own'
  BY DEF TypeOK, Own
<1>2. Fresh'
  <2> SUFFICES ASSUME NEW q \in Procs, NEW r \in row'[q], arg'[q] = arg[q], op'[q] = op[q],
                      \/ pc'[q] \in {"delete", "free"}
                      \/ pc'[q] = "commit" /\ op[q] \in {"unassign", "complete"}
               PROVE  r \in delivery' /\ r.order = arg[q]
    BY DEF Fresh, RowsOf
  <2>1. q # p /\ row'[q] = row[q] /\ pc'[q] = pc[q]
    BY DEF TypeOK
  <2>2. r \in delivery /\ r.order = arg[q] /\ op[q] \in {"unassign", "complete"}
    BY <2>1 DEF Fresh, RowsOf, AtOperation
  <2>3. r.order \notin del[p]
    <3> SUFFICES ASSUME r.order \in del[p] PROVE FALSE
      OBVIOUS
    <3>1. arg[p] = arg[q] /\ arg[q] \in Orders /\ op[p] = "unassign"
      BY <2>2 DEF Own, TypeOK, Rows
    <3>2. arg[q] \in Serves[p] \cap Serves[q]
      BY <3>1, OrdersAssumption DEF Own
    <3>3. op[p] \in May[p] /\ op[q] \in May[q]
      BY <2>2, <3>1 DEF Own
    <3> QED
      BY <2>1, <2>2, <3>1, <3>2, <3>3, OrdersAssumption DEF OneCanceller
  <2> QED
    BY <2>2, <2>3
<1>3. Ready'
  BY DEF TypeOK, Ready, Locked
<1>4. BusyHasDelivery'
  <2> SUFFICES ASSUME NEW c \in Couriers, status'[c] = "busy"
               PROVE  \E r \in delivery' : r.courier = c
    BY DEF BusyHasDelivery
  <2>1. CASE c \in touch[p]
    <3>1. op[p] = "assign"
      BY <2>1 DEF NewStatus
    <3>2. ins[p] = row[p] /\ touch[p] = {r.courier : r \in row[p]}
      BY <3>1 DEF Ready
    <3> QED
      BY <2>1, <3>2
  <2>2. CASE c \notin touch[p]
    <3>1. PICK r \in delivery : r.courier = c
      BY <2>2 DEF BusyHasDelivery, TypeOK
    <3>2. r.order \notin del[p]
      <4> SUFFICES ASSUME r.order \in del[p] PROVE FALSE
        OBVIOUS
      <4>1. op[p] = "unassign" /\ r.order = arg[p]
        BY DEF Own
      <4>2. PICK s \in row[p] : s \in delivery /\ s.order = arg[p]
        BY <4>1 DEF Ready, Fresh, RowsOf
      <4>3. s = r /\ s.courier \in touch[p]
        BY <3>1, <4>1, <4>2 DEF Ready, Unique, OneDeliveryPerOrder
      <4> QED
        BY <2>2, <3>1, <4>3
    <3> QED
      BY <3>1, <3>2
  <2> QED
    BY <2>1, <2>2
<1> QED
  BY <1>1, <1>2, <1>3, <1>4

\* Time passes.
LEMMA TickBoard ==
    ASSUME OInv, Tick
    PROVE  Own' /\ Fresh' /\ Ready' /\ BusyHasDelivery'
<1> USE DEF OInv, IInv, Tick, local, writes
<1>1. Own'
  BY DEF TypeOK, Own
<1>2. Fresh'
  BY DEF TypeOK, Fresh, RowsOf
<1>3. Ready'
  BY DEF TypeOK, Ready
<1>4. BusyHasDelivery'
  BY DEF BusyHasDelivery
<1> QED
  BY <1>1, <1>2, <1>3, <1>4

\* An administrator sets a status, but not of a courier that is locked.
LEMMA SetStatusBoard ==
    ASSUME OInv, OneCanceller, NEW c \in Couriers, NEW s \in AdminStatuses, SetStatus(c, s)
    PROVE  Own' /\ Fresh' /\ Ready' /\ BusyHasDelivery'
<1> USE DEF OInv, IInv, SetStatus, local, writes
<1>1. Own'
  BY DEF TypeOK, Own
<1>2. Fresh'
  BY DEF TypeOK, Fresh, RowsOf
<1>3. Ready'
  <2>1. \A p \in Procs : \A d \in touch[p] : status'[d] = status[d]
    BY ProcsAssumption DEF TypeOK, Locked
  <2> QED
    BY <2>1 DEF TypeOK, Ready
<1>4. BusyHasDelivery'
  BY DEF TypeOK, BusyHasDelivery, OneCanceller
<1> QED
  BY <1>1, <1>2, <1>3, <1>4

LEMMA NextBoard == ASSUME OneCanceller, OInv, [Next]_vars PROVE OInv'
<1>1. IInv'
  BY NextInv DEF OInv
<1> DEFINE Goal == Own' /\ Fresh' /\ Ready' /\ BusyHasDelivery'
<1>2. ASSUME NEW p \in Procs, Call(p) PROVE Goal
  <2>1. ASSUME NEW k \in May[p] \ {"release"}, NEW o \in Serves[p], Begin(p, k, o) PROVE Goal
    BY <2>1, BeginBoard, MayAssumption
  <2>2. ASSUME "release" \in May[p], Begin(p, "release", NoOrder) PROVE Goal
    BY <2>2, BeginBoard DEF Kinds
  <2> QED
    BY <1>2, <2>1, <2>2 DEF Call
<1>3. ASSUME NEW p \in Procs, Statement(p) PROVE Goal
  <2>1. ASSUME InsertDuplicate(p) PROVE Goal
    BY <2>1, RollbackBoard DEF InsertDuplicate, Replies
  <2> QED
    BY <1>3, <2>1, FindBoard, PickCourierBoard, SkipCourierBoard, InsertDeliveryBoard,
       GetByOrderIDBoard, GetNothingBoard, DeleteByOrderIDBoard, UpdateCourierStatusBoard,
       ScanExpiredBoard, ReleaseCourierBoard, CommitBoard DEF Statement
<1>4. ASSUME NEW p \in Procs, Return(p) \/ Fail(p) \/ DeadlockVictim(p) PROVE Goal
  BY <1>4, ReturnBoard, RollbackBoard DEF Fail, DeadlockVictim, Replies
<1>5. ASSUME UNCHANGED vars PROVE Goal
  BY <1>5 DEF vars, OInv, Own, Fresh, Ready, BusyHasDelivery, RowsOf
<1>6. Goal
  BY <1>2, <1>3, <1>4, <1>5, TickBoard, SetStatusBoard DEF Next
<1> QED
  BY <1>1, <1>6 DEF OInv

LEMMA BoardInvariance == ASSUME OneCanceller PROVE Spec => []OInv
<1>1. Init => OInv
  BY InitBoard
<1>2. OInv /\ [Next]_vars => OInv'
  BY NextBoard
<1> QED
  BY <1>1, <1>2, PTL DEF Spec

\* Only a commit and the administrator change the tables.
LEMMA OnlyCommit ==
    ASSUME [Next]_vars
    PROVE  \/ \E p \in Procs : Commit(p)
           \/ \E c \in Couriers, s \in AdminStatuses : SetStatus(c, s)
           \/ UNCHANGED db
BY DEF Next, vars, db, Call, Begin, Statement, Return, Fail, DeadlockVictim, Tick,
       Rollback, local, writes, Find, PickCourier, SkipCourier, InsertDelivery, InsertDuplicate,
       GetByOrderID, GetNothing, DeleteByOrderID, UpdateCourierStatus, ScanExpired, ReleaseCourier

\* No courier is lost to the pool: whoever is busy has a delivery.
THEOREM NoLostCourier == ASSUME OneCanceller PROVE Spec => []BusyHasDelivery
BY BoardInvariance, PTL DEF OInv

\* Unassign frees the courier of the row it removes.
THEOREM UnassignIsExact == ASSUME OneCanceller PROVE Spec => UnassignFreesItsCourier
<1> DEFINE A == \A r \in delivery \ delivery' : status'[r.courier] = "available"
<1>1. OInv /\ [Next]_vars => [A]_vars
  <2> SUFFICES ASSUME OInv, [Next]_vars, NEW r \in delivery \ delivery'
               PROVE  status'[r.courier] = "available"
    OBVIOUS
  <2>1. PICK p \in Procs : Commit(p)
    BY OnlyCommit DEF db, SetStatus
  <2>2. r.order \in del[p] /\ r.courier \in Couriers
    BY <2>1 DEF Commit, Apply, OInv, IInv, TypeOK, Rows
  <2>3. op[p] = "unassign" /\ r \in row[p]
    <3>1. op[p] = "unassign" /\ r.order = arg[p]
      BY <2>1, <2>2 DEF Commit, OInv, Own
    <3>2. PICK s \in row[p] : s \in delivery /\ s.order = arg[p]
      BY <2>1, <3>1 DEF Commit, OInv, Ready, Fresh, RowsOf
    <3> QED
      BY <3>1, <3>2 DEF OInv, IInv, Unique, OneDeliveryPerOrder
  <2>4. r.courier \in touch[p]
    BY <2>1, <2>3 DEF Commit, OInv, Ready
  <2> QED
    BY <2>1, <2>2, <2>3, <2>4 DEF Commit, Apply, NewStatus
<1> QED
  BY <1>1, BoardInvariance, PTL DEF Spec, UnassignFreesItsCourier

\* A commit is one operation of the board.
LEMMA CommitRefines ==
    ASSUME OneCanceller, OInv, NEW p \in Procs, Commit(p)
    PROVE  Board!Next \/ UNCHANGED <<status, {<<r.courier, r.order>> : r \in delivery}>>
<1> DEFINE board == {<<r.courier, r.order>> : r \in delivery}
<1> USE DEF OInv, IInv
<1>0. pc[p] = "commit" /\ Apply(p) /\ op[p] \in Kinds /\ status \in [Couriers -> Statuses]
  BY DEF Commit, Ready, TypeOK
<1>1. CASE op[p] = "assign"
  <2>1. PICK r : row[p] = {r} /\ ins[p] = {r} /\ touch[p] = {r.courier} /\ del[p] = {}
    BY <1>0, <1>1 DEF Ready, InHand, Own
  <2>2. r.courier \in Couriers /\ r.order \in Orders
    BY <2>1 DEF TypeOK, Rows
  <2>3. status[r.courier] = "available"
    BY <1>0, <1>1, <2>1 DEF ChosenStaysAvailable
  <2>4. \A c \in Couriers : <<c, r.order>> \notin board
    BY <2>1 DEF Unique
  <2>5. delivery' = delivery \cup {r}
    BY <1>0, <2>1 DEF Apply
  <2>6. board' = board \cup {<<r.courier, r.order>>}
    BY <2>5
  <2>7. status' = [status EXCEPT ![r.courier] = "busy"]
    BY <1>0, <1>1, <2>1 DEF Apply, NewStatus
  <2>8. Board!Assign(r.courier, r.order)
    BY <2>3, <2>4, <2>6, <2>7 DEF Board!Assign
  <2> QED
    BY <2>2, <2>8 DEF Board!Next
<1>2. CASE op[p] = "unassign"
  <2>1. PICK r : /\ row[p] = {r} /\ RowsOf(arg[p]) = {r} /\ touch[p] = {r.courier}
                 /\ del[p] = {arg[p]} /\ ins[p] = {}
    <3>1. PICK r : row[p] = {r} /\ r \in RowsOf(arg[p])
      BY <1>0, <1>2 DEF Ready, Fresh, InHand
    <3>2. RowsOf(arg[p]) = {r}
      BY <3>1 DEF RowsOf, Unique, OneDeliveryPerOrder
    <3> QED
      BY <1>0, <1>2, <3>1, <3>2 DEF Ready, Locked
  <2>2. r \in delivery /\ r.courier \in Couriers /\ r.order \in Orders /\ r.order = arg[p]
    BY <2>1 DEF TypeOK, Rows, RowsOf
  <2>3. delivery' = {s \in delivery : s.order # r.order}
    BY <1>0, <2>1, <2>2 DEF Apply
  <2>4. board' = board \ {<<r.courier, r.order>>}
    BY <2>1, <2>2, <2>3 DEF RowsOf
  <2>5. status' = [status EXCEPT ![r.courier] = "available"]
    BY <1>0, <1>2, <2>1 DEF Apply, NewStatus
  <2>6. Board!Unassign(r.courier, r.order)
    BY <2>2, <2>4, <2>5 DEF Board!Unassign
  <2> QED
    BY <2>2, <2>6 DEF Board!Next
<1>3. CASE op[p] = "complete"
  <2>1. del[p] = {} /\ ins[p] = {} /\ touch[p] = {r.courier : r \in row[p]} /\ row[p] \subseteq delivery
    BY <1>0, <1>3 DEF Ready, Own, Locked, Fresh, RowsOf
  <2>2. board' = board
    BY <1>0, <2>1 DEF Apply
  <2>3. CASE row[p] = {}
    BY <1>0, <2>1, <2>2, <2>3 DEF Apply
  <2>4. CASE row[p] # {}
    <3>1. PICK r : row[p] = {r}
      <4>1. PICK r \in row[p] : TRUE
        BY <2>4
      <4>2. row[p] = {r}
        BY <4>1 DEF InHand
      <4> QED
        BY <4>2
    <3>2. r.courier \in Couriers /\ r.order \in Orders /\ <<r.courier, r.order>> \in board
      BY <2>1, <3>1 DEF TypeOK, Rows
    <3>3. status' = [status EXCEPT ![r.courier] = "available"]
      BY <1>0, <1>3, <2>1, <3>1 DEF Apply, NewStatus
    <3> QED
      BY <2>2, <3>2, <3>3 DEF Board!Next, Board!Complete
  <2> QED
    BY <2>3, <2>4
<1>4. CASE op[p] = "release"
  <2>1. del[p] = {} /\ ins[p] = {} /\ touch[p] \in SUBSET Couriers
    BY <1>4 DEF Own, Locked, TypeOK
  <2>2. board' = board
    BY <1>0, <2>1 DEF Apply
  <2>3. \A c \in touch[p] : status[c] = "busy" /\ \E o \in Orders : <<c, o>> \in board
    BY <1>4, <2>1 DEF Ready, BusyHasDelivery, TypeOK, Rows
  <2>4. Board!Release(touch[p])
    BY <1>0, <1>4, <2>2, <2>3 DEF Board!Release, Apply, NewStatus
  <2> QED
    BY <2>1, <2>4 DEF Board!Next
<1> QED
  BY <1>0, <1>1, <1>2, <1>3, <1>4 DEF Kinds

LEMMA SetStatusRefines ==
    ASSUME NEW c \in Couriers, NEW s \in AdminStatuses, SetStatus(c, s)
    PROVE  Board!Next
BY DEF SetStatus, Board!Next, Board!SetStatus

\* With one canceller per order the transactions implement the board: every
\* interleaving is a sequence of its atomic operations.
THEOREM Refinement == ASSUME OneCanceller PROVE Spec => ImplementsBoard
<1>1. Init => Board!Init
  <2> SUFFICES ASSUME Init PROVE Board!Init
    OBVIOUS
  <2>1. Hired \subseteq {"available", "paused"}
    BY HiredAssumption DEF OneCanceller, Statuses
  <2>2. status \in [Couriers -> {"available", "paused"}]
    BY <2>1 DEF Init
  <2>3. {<<r.courier, r.order>> : r \in delivery} = {}
    BY DEF Init
  <2> QED
    BY <2>2, <2>3 DEF Board!Init
<1>2. OInv /\ [Next]_vars => [Board!Next]_<<status, {<<r.courier, r.order>> : r \in delivery}>>
  BY OnlyCommit, CommitRefines, SetStatusRefines DEF db
<1> QED
  BY <1>1, <1>2, BoardInvariance, PTL DEF Spec, ImplementsBoard, Board!Spec
=============================================================================
