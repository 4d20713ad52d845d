--------------------------- MODULE Delivery_proofs ---------------------------
(***************************************************************************)
(* Theorems about Delivery, for every set of couriers, orders and callers. *)
(*                                                                         *)
(* IInv is the inductive invariant.  Its idea: what a transaction has      *)
(* decided rests on a lock it still holds (Locked), what it is about to    *)
(* write is tied to the delivery in hand (InHand), and the order ids of    *)
(* committed rows and of pending inserts are pairwise different (Unique).  *)
(***************************************************************************)
EXTENDS Delivery, FiniteSetTheorems, TLAPS

\* Tables are finite, so a courier's load is a number.
Finite ==
    /\ IsFiniteSet(delivery)
    /\ \A p \in Procs : IsFiniteSet(row[p]) /\ IsFiniteSet(ins[p])

\* The statement a caller is at belongs to its operation; Assign has an order.
AtOperation ==
    \A p \in Procs :
        /\ pc[p] \in {"find", "pick", "insert", "busy"} =>
              op[p] = "assign" /\ arg[p] \in Orders
        /\ pc[p] \in {"read", "delete", "free"} => op[p] \in {"unassign", "complete"}
        /\ pc[p] \in {"scan", "release"} => op[p] = "release"

\* Callers have at most one delivery in hand; the one of an Assign is for the
\* order asked for, and for an available courier whose lock it holds.
InHand ==
    \A p \in Procs :
        /\ \A r, s \in row[p] : r = s
        /\ pc[p] \in {"insert", "busy", "commit"} /\ op[p] = "assign" =>
              \A r \in row[p] : r.order = arg[p] /\ lock[r.courier] = p

\* A courier whose status a transaction has changed is locked by it; a pending
\* insert is the delivery in hand, and its courier is changed by the commit.
Locked ==
    \A p \in Procs :
        /\ \A c \in touch[p] : lock[c] = p /\ pc[p] \in {"release", "commit"}
        /\ \A r \in ins[p] :
              /\ pc[p] \in {"busy", "commit"} /\ op[p] = "assign"
              /\ r \in row[p]
              /\ pc[p] = "commit" => r.courier \in touch[p]

\* Order ids of rows and of pending inserts do not clash.
Unique ==
    /\ OneDeliveryPerOrder
    /\ \A p \in Procs : \A r \in ins[p] :
          /\ \A s \in delivery : r.order # s.order
          /\ \A q \in Procs \ {p} : \A s \in ins[q] : r.order # s.order

IInv ==
    /\ TypeOK /\ Finite /\ AtOperation /\ InHand /\ Locked /\ Unique
    /\ ChosenStaysAvailable
-----------------------------------------------------------------------------
LEMMA InitInv == Init => IInv
<1> SUFFICES ASSUME Init PROVE IInv
  OBVIOUS
<1>1. TypeOK
  BY HiredAssumption DEF Init, TypeOK, Labels, Replies
<1>2. Finite
  BY FS_EmptySet DEF Init, Finite
<1>3. AtOperation /\ InHand /\ Locked /\ Unique /\ ChosenStaysAvailable
  BY DEF Init, AtOperation, InHand, Locked, Unique, OneDeliveryPerOrder, ChosenStaysAvailable
<1> QED
  BY <1>1, <1>2, <1>3 DEF IInv

\* A transaction that ends without effect, whatever its reply.
LEMMA RollbackInv ==
    ASSUME IInv, NEW p \in Procs, NEW r \in Replies, Rollback(p, r)
    PROVE  IInv'
<1> USE DEF IInv, Rollback, Finish, Goto, db
<1>1. TypeOK'
  BY DEF TypeOK, Labels
<1>2. Finite'
  BY FS_EmptySet DEF TypeOK, Finite
<1>3. AtOperation'
  BY DEF TypeOK, AtOperation
<1>4. InHand'
  BY ProcsAssumption DEF TypeOK, InHand, Rows
<1>5. Locked'
  BY ProcsAssumption DEF TypeOK, Locked, Rows
<1>6. Unique'
  BY DEF TypeOK, Unique, OneDeliveryPerOrder
<1>7. ChosenStaysAvailable'
  BY DEF TypeOK, ChosenStaysAvailable
<1> QED
  BY <1>1, <1>2, <1>3, <1>4, <1>5, <1>6, <1>7

\* A call begins.
LEMMA BeginInv ==
    ASSUME IInv, NEW p \in Procs, NEW k \in Kinds, NEW o \in Orders \cup {NoOrder}, Begin(p, k, o)
    PROVE  IInv'
<1> USE DEF IInv, Begin, Goto, Entry
<1>1. TypeOK'
  BY DEF TypeOK, Labels, Kinds, Replies
<1>2. Finite'
  BY DEF TypeOK, Finite
<1>3. AtOperation'
  BY DEF TypeOK, AtOperation, Kinds
<1>4. InHand'
  BY DEF TypeOK, InHand, Rows
<1>5. Locked'
  BY DEF TypeOK, Locked, Rows
<1>6. Unique'
  BY DEF TypeOK, Unique, OneDeliveryPerOrder
<1>7. ChosenStaysAvailable'
  BY DEF TypeOK, ChosenStaysAvailable
<1> QED
  BY <1>1, <1>2, <1>3, <1>4, <1>5, <1>6, <1>7

\* A caller takes its reply.
LEMMA ReturnInv ==
    ASSUME IInv, NEW p \in Procs, Return(p)
    PROVE  IInv'
<1> USE DEF IInv, Return, Goto
<1>1. TypeOK'
  BY DEF TypeOK, Labels, Replies
<1>2. Finite'
  BY DEF TypeOK, Finite
<1>3. AtOperation'
  BY DEF TypeOK, AtOperation
<1>4. InHand'
  BY DEF TypeOK, InHand, Rows
<1>5. Locked'
  BY DEF TypeOK, Locked, Rows
<1>6. Unique'
  BY DEF TypeOK, Unique, OneDeliveryPerOrder
<1>7. ChosenStaysAvailable'
  BY DEF TypeOK, ChosenStaysAvailable
<1> QED
  BY <1>1, <1>2, <1>3, <1>4, <1>5, <1>6, <1>7

\* The candidates of the SELECT are records of couriers and natural loads.
LEMMA SnapshotType == ASSUME TypeOK, Finite PROVE Snapshot \in SUBSET Candidates
<1>1. ASSUME NEW c \in Couriers PROVE Load(c) \in Nat
  <2>1. IsFiniteSet({r \in delivery : r.courier = c})
    BY FS_Subset DEF Finite
  <2> QED
    BY <2>1, FS_CardinalityType DEF Load
<1> QED
  BY <1>1 DEF Snapshot, Candidates

\* The deadline computed for a courier is a time.
LEMMA DeadlineType == ASSUME TypeOK, NEW c \in Couriers PROVE Deadline(Transport[c], now) \in Nat
BY TransportAssumption DEF TypeOK, Deadline, TransportTypes

\* The SELECT takes its snapshot.
LEMMA FindInv ==
    ASSUME IInv, NEW p \in Procs, Find(p)
    PROVE  IInv'
<1>0. CASE Snapshot = {}
  BY <1>0, RollbackInv DEF Find, Replies
<1> SUFFICES ASSUME Snapshot # {} PROVE IInv'
  BY <1>0
<1> USE DEF IInv, Find, Goto
<1>1. TypeOK'
  BY SnapshotType DEF TypeOK, Labels
<1>2. Finite'
  BY DEF TypeOK, Finite
<1>3. AtOperation'
  BY DEF TypeOK, AtOperation
<1>4. InHand'
  BY DEF TypeOK, InHand, Rows
<1>5. Locked'
  BY DEF TypeOK, Locked, Rows
<1>6. Unique'
  BY DEF TypeOK, Unique, OneDeliveryPerOrder
<1>7. ChosenStaysAvailable'
  BY DEF TypeOK, ChosenStaysAvailable
<1> QED
  BY <1>1, <1>2, <1>3, <1>4, <1>5, <1>6, <1>7

\* Assign locks the courier it takes.
LEMMA PickCourierInv ==
    ASSUME IInv, NEW p \in Procs, PickCourier(p)
    PROVE  IInv'
<1>a. PICK x \in cand[p] :
          /\ PickCourier(p)!2!(x)
          /\ pc[p] = "pick" /\ pc' = [pc EXCEPT ![p] = "insert"]
          /\ cand' = [cand EXCEPT ![p] = {}]
          /\ UNCHANGED <<status, delivery, now, op, arg, todo, clk, ins, del, touch, reply>>
  BY DEF PickCourier, Goto
<1>b. x.courier \in Couriers
  BY DEF IInv, TypeOK, Candidates
<1> USE DEF IInv, Goto, Acquire, Grantable
<1>1. TypeOK'
  BY <1>a, <1>b, DeadlineType DEF TypeOK, Labels, Rows, BuildAssign, AtOperation
<1>2. Finite'
  BY <1>a, FS_Singleton DEF TypeOK, Finite
<1>3. AtOperation'
  BY <1>a DEF TypeOK, AtOperation
<1>4. InHand'
  BY <1>a, <1>b, ProcsAssumption DEF TypeOK, InHand, BuildAssign
<1>5. Locked'
  BY <1>a, <1>b, ProcsAssumption DEF TypeOK, Locked
<1>6. Unique'
  BY <1>a DEF TypeOK, Unique, OneDeliveryPerOrder
<1>7. ChosenStaysAvailable'
  BY <1>a DEF TypeOK, ChosenStaysAvailable, Available, BuildAssign
<1> QED
  BY <1>1, <1>2, <1>3, <1>4, <1>5, <1>6, <1>7

\* Assign passes to the next courier.
LEMMA SkipCourierInv ==
    ASSUME IInv, NEW p \in Procs, SkipCourier(p)
    PROVE  IInv'
<1>a. PICK x \in cand[p] : pc[p] = "pick" /\ SkipCourier(p)!2!(x)
  BY DEF SkipCourier
<1>b. x.courier \in Couriers
  BY DEF IInv, TypeOK, Candidates
<1>0. CASE cand[p] = {x}
  BY <1>0, <1>a, RollbackInv DEF Replies
<1> SUFFICES ASSUME cand[p] # {x} PROVE IInv'
  BY <1>0
<1>c. /\ Acquire(p, x.courier)
      /\ cand' = [cand EXCEPT ![p] = @ \ {x}]
      /\ UNCHANGED <<status, delivery, now, pc, op, arg, row, todo, clk, ins, del, touch, reply>>
  BY <1>a
<1> USE DEF IInv, Goto, Acquire, Grantable
<1>1. TypeOK'
  BY <1>c, <1>b DEF TypeOK
<1>2. Finite'
  BY <1>c DEF TypeOK, Finite
<1>3. AtOperation'
  BY <1>c DEF TypeOK, AtOperation
<1>4. InHand'
  BY <1>c, <1>b, ProcsAssumption DEF TypeOK, InHand, Rows
<1>5. Locked'
  BY <1>c, <1>b, ProcsAssumption DEF TypeOK, Locked
<1>6. Unique'
  BY <1>c DEF TypeOK, Unique, OneDeliveryPerOrder
<1>7. ChosenStaysAvailable'
  BY <1>c DEF TypeOK, ChosenStaysAvailable
<1> QED
  BY <1>1, <1>2, <1>3, <1>4, <1>5, <1>6, <1>7

\* Assign inserts its delivery.
LEMMA InsertDeliveryInv ==
    ASSUME IInv, NEW p \in Procs, InsertDelivery(p)
    PROVE  IInv'
<1> USE DEF IInv, InsertDelivery, Goto, local
<1>1. TypeOK'
  BY DEF TypeOK, Labels
<1>2. Finite'
  BY DEF TypeOK, Finite
<1>3. AtOperation'
  BY DEF TypeOK, AtOperation
<1>4. InHand'
  BY DEF TypeOK, InHand, Rows
<1>5. Locked'
  BY DEF TypeOK, Locked, AtOperation
<1>6. Unique'
  BY DEF TypeOK, Unique, OneDeliveryPerOrder, InHand, AtOperation, PendingInsert, RowsOf
<1>7. ChosenStaysAvailable'
  BY DEF TypeOK, ChosenStaysAvailable
<1> QED
  BY <1>1, <1>2, <1>3, <1>4, <1>5, <1>6, <1>7

\* The row of the order is read.
LEMMA GetByOrderIDInv ==
    ASSUME IInv, NEW p \in Procs, GetByOrderID(p)
    PROVE  IInv'
<1> USE DEF IInv, GetByOrderID, Goto, writes, RowsOf
<1>1. TypeOK'
  BY DEF TypeOK, Labels
<1>2. Finite'
  BY FS_Subset DEF TypeOK, Finite
<1>3. AtOperation'
  BY DEF TypeOK, AtOperation
<1>4. InHand'
  BY DEF TypeOK, InHand, Rows, Unique, OneDeliveryPerOrder, AtOperation
<1>5. Locked'
  BY DEF TypeOK, Locked, Rows
<1>6. Unique'
  BY DEF TypeOK, Unique, OneDeliveryPerOrder
<1>7. ChosenStaysAvailable'
  BY DEF TypeOK, ChosenStaysAvailable
<1> QED
  BY <1>1, <1>2, <1>3, <1>4, <1>5, <1>6, <1>7

\* No row of the order.
LEMMA GetNothingInv ==
    ASSUME IInv, NEW p \in Procs, GetNothing(p)
    PROVE  IInv'
<1>0. CASE op[p] = "unassign"
  BY <1>0, RollbackInv DEF GetNothing, Replies
<1> SUFFICES ASSUME ~(op[p] = "unassign") PROVE IInv'
  BY <1>0
<1> USE DEF IInv, GetNothing, Goto, writes, local
<1>1. TypeOK'
  BY DEF TypeOK, Labels
<1>2. Finite'
  BY DEF TypeOK, Finite
<1>3. AtOperation'
  BY DEF TypeOK, AtOperation
<1>4. InHand'
  BY DEF TypeOK, InHand, Rows, AtOperation
<1>5. Locked'
  BY DEF TypeOK, Locked, Rows
<1>6. Unique'
  BY DEF TypeOK, Unique, OneDeliveryPerOrder
<1>7. ChosenStaysAvailable'
  BY DEF TypeOK, ChosenStaysAvailable, AtOperation
<1> QED
  BY <1>1, <1>2, <1>3, <1>4, <1>5, <1>6, <1>7

\* Unassign deletes the row.
LEMMA DeleteByOrderIDInv ==
    ASSUME IInv, NEW p \in Procs, DeleteByOrderID(p)
    PROVE  IInv'
<1>0. CASE RowsOf(arg[p]) = {}
  BY <1>0, RollbackInv DEF DeleteByOrderID, Replies
<1> SUFFICES ASSUME ~(RowsOf(arg[p]) = {}) PROVE IInv'
  BY <1>0
<1>a. arg[p] \in Orders
  BY DEF IInv, TypeOK, RowsOf, Rows
<1> USE DEF IInv, DeleteByOrderID, Goto, local
<1>1. TypeOK'
  BY <1>a DEF TypeOK, Labels
<1>2. Finite'
  BY DEF TypeOK, Finite
<1>3. AtOperation'
  BY DEF TypeOK, AtOperation
<1>4. InHand'
  BY DEF TypeOK, InHand, Rows
<1>5. Locked'
  BY DEF TypeOK, Locked, Rows
<1>6. Unique'
  BY DEF TypeOK, Unique, OneDeliveryPerOrder
<1>7. ChosenStaysAvailable'
  BY DEF TypeOK, ChosenStaysAvailable
<1> QED
  BY <1>1, <1>2, <1>3, <1>4, <1>5, <1>6, <1>7

\* The courier of the row in hand is updated.
LEMMA UpdateCourierStatusInv ==
    ASSUME IInv, NEW p \in Procs, UpdateCourierStatus(p)
    PROVE  IInv'
<1>a. PICK r \in row[p] :
          /\ pc[p] \in {"busy", "free"}
          /\ Acquire(p, r.courier)
          /\ touch' = [touch EXCEPT ![p] = {r.courier}]
          /\ pc' = [pc EXCEPT ![p] = "commit"]
          /\ UNCHANGED <<status, delivery, now, local, ins, del, reply>>
  BY DEF UpdateCourierStatus, Goto
<1>b. r.courier \in Couriers
  BY DEF IInv, TypeOK, Rows
<1> USE DEF IInv, Goto, local, Acquire, Grantable
<1>1. TypeOK'
  BY <1>a, <1>b DEF TypeOK, Labels
<1>2. Finite'
  BY <1>a DEF TypeOK, Finite
<1>3. AtOperation'
  BY <1>a DEF TypeOK, AtOperation
<1>4. InHand'
  BY <1>a, <1>b, ProcsAssumption DEF TypeOK, InHand, AtOperation
<1>5. Locked'
  BY <1>a, <1>b, ProcsAssumption DEF TypeOK, Locked, InHand, AtOperation
<1>6. Unique'
  BY <1>a DEF TypeOK, Unique, OneDeliveryPerOrder
<1>7. ChosenStaysAvailable'
  BY <1>a DEF TypeOK, ChosenStaysAvailable, AtOperation
<1> QED
  BY <1>1, <1>2, <1>3, <1>4, <1>5, <1>6, <1>7

\* The auto-release takes its snapshot.
LEMMA ScanExpiredInv ==
    ASSUME IInv, NEW p \in Procs, ScanExpired(p)
    PROVE  IInv'
<1> USE DEF IInv, ScanExpired, Goto, writes
<1>1. TypeOK'
  BY DEF TypeOK, Labels, Overdue
<1>2. Finite'
  BY DEF TypeOK, Finite
<1>3. AtOperation'
  BY DEF TypeOK, AtOperation
<1>4. InHand'
  BY DEF TypeOK, InHand, Rows, AtOperation
<1>5. Locked'
  BY DEF TypeOK, Locked, Rows
<1>6. Unique'
  BY DEF TypeOK, Unique, OneDeliveryPerOrder
<1>7. ChosenStaysAvailable'
  BY DEF TypeOK, ChosenStaysAvailable, AtOperation
<1> QED
  BY <1>1, <1>2, <1>3, <1>4, <1>5, <1>6, <1>7

\* The auto-release visits a courier.
LEMMA ReleaseCourierInv ==
    ASSUME IInv, NEW p \in Procs, ReleaseCourier(p)
    PROVE  IInv'
<1> USE DEF IInv, ReleaseCourier, Goto, Acquire, Grantable
<1>1. TypeOK'
  BY DEF TypeOK, Labels
<1>2. Finite'
  BY DEF TypeOK, Finite
<1>3. AtOperation'
  BY DEF TypeOK, AtOperation
<1>4. InHand'
  BY ProcsAssumption DEF TypeOK, InHand, Rows, AtOperation
<1>5. Locked'
  BY ProcsAssumption DEF TypeOK, Locked, AtOperation
<1>6. Unique'
  BY DEF TypeOK, Unique, OneDeliveryPerOrder
<1>7. ChosenStaysAvailable'
  BY DEF TypeOK, ChosenStaysAvailable, AtOperation
<1> QED
  BY <1>1, <1>2, <1>3, <1>4, <1>5, <1>6, <1>7

\* A transaction commits.
LEMMA CommitInv ==
    ASSUME IInv, NEW p \in Procs, Commit(p)
    PROVE  IInv'
<1> USE DEF IInv, Commit, Goto, Apply, Finish
<1>1. TypeOK'
  BY DEF TypeOK, Labels, NewStatus, Statuses, Replies
<1>2. Finite'
  <2>1. IsFiniteSet({r \in delivery : r.order \notin del[p]})
    BY FS_Subset DEF Finite
  <2>2. IsFiniteSet(delivery')
    BY <2>1, FS_Union DEF Finite
  <2>3. \A q \in Procs : IsFiniteSet(row'[q]) /\ IsFiniteSet(ins'[q])
    BY FS_EmptySet DEF TypeOK, Finite
  <2> QED
    BY <2>2, <2>3 DEF Finite
<1>3. AtOperation'
  BY DEF TypeOK, AtOperation
<1>4. InHand'
  BY ProcsAssumption DEF TypeOK, InHand, Rows
<1>5. Locked'
  BY ProcsAssumption DEF TypeOK, Locked, Rows
<1>6. Unique'
  BY DEF TypeOK, Unique, OneDeliveryPerOrder, Locked, InHand
<1>7. ChosenStaysAvailable'
  BY DEF TypeOK, ChosenStaysAvailable, Locked, InHand, Rows
<1> QED
  BY <1>1, <1>2, <1>3, <1>4, <1>5, <1>6, <1>7

\* An administrator sets a status.
LEMMA SetStatusInv ==
    ASSUME IInv, NEW c \in Couriers, NEW s \in AdminStatuses, SetStatus(c, s)
    PROVE  IInv'
<1> USE DEF IInv, SetStatus, local, writes
<1>1. TypeOK'
  BY AdminAssumption DEF TypeOK
<1>2. Finite'
  BY DEF TypeOK, Finite
<1>3. AtOperation'
  BY DEF TypeOK, AtOperation
<1>4. InHand'
  BY DEF TypeOK, InHand, Rows
<1>5. Locked'
  BY DEF TypeOK, Locked, Rows
<1>6. Unique'
  BY DEF TypeOK, Unique, OneDeliveryPerOrder
<1>7. ChosenStaysAvailable'
  BY ProcsAssumption DEF TypeOK, ChosenStaysAvailable, InHand, Rows
<1> QED
  BY <1>1, <1>2, <1>3, <1>4, <1>5, <1>6, <1>7

\* Time passes.
LEMMA TickInv ==
    ASSUME IInv, Tick
    PROVE  IInv'
<1> USE DEF IInv, Tick, local, writes
<1>1. TypeOK'
  BY DEF TypeOK, Labels
<1>2. Finite'
  BY DEF TypeOK, Finite
<1>3. AtOperation'
  BY DEF TypeOK, AtOperation
<1>4. InHand'
  BY DEF TypeOK, InHand, Rows
<1>5. Locked'
  BY DEF TypeOK, Locked, Rows
<1>6. Unique'
  BY DEF TypeOK, Unique, OneDeliveryPerOrder
<1>7. ChosenStaysAvailable'
  BY DEF TypeOK, ChosenStaysAvailable
<1> QED
  BY <1>1, <1>2, <1>3, <1>4, <1>5, <1>6, <1>7

LEMMA StutterInv == ASSUME IInv, UNCHANGED vars PROVE IInv'
BY DEF vars, IInv, TypeOK, Finite, AtOperation, InHand, Locked, Unique,
       OneDeliveryPerOrder, ChosenStaysAvailable

\* Every step preserves the invariant.
LEMMA NextInv == ASSUME IInv, [Next]_vars PROVE IInv'
<1>1. ASSUME NEW p \in Procs, Call(p) PROVE IInv'
  <2>1. ASSUME NEW k \in May[p] \ {"release"}, NEW o \in Serves[p], Begin(p, k, o) PROVE IInv'
    BY <2>1, BeginInv, MayAssumption, ServesAssumption
  <2>2. ASSUME Begin(p, "release", NoOrder) PROVE IInv'
    BY <2>2, BeginInv DEF Kinds
  <2> QED
    BY <1>1, <2>1, <2>2 DEF Call
<1>2. ASSUME NEW p \in Procs, Statement(p) PROVE IInv'
  <2>1. ASSUME InsertDuplicate(p) PROVE IInv'
    BY <2>1, RollbackInv DEF InsertDuplicate, Replies
  <2> QED
    BY <1>2, <2>1, FindInv, PickCourierInv, SkipCourierInv, InsertDeliveryInv, GetByOrderIDInv,
       GetNothingInv, DeleteByOrderIDInv, UpdateCourierStatusInv, ScanExpiredInv,
       ReleaseCourierInv, CommitInv DEF Statement
<1>3. ASSUME NEW p \in Procs, Return(p) PROVE IInv'
  BY <1>3, ReturnInv
<1>4. ASSUME NEW p \in Procs, Fail(p) \/ DeadlockVictim(p) PROVE IInv'
  BY <1>4, RollbackInv DEF Fail, DeadlockVictim, Replies
<1>5. ASSUME NEW c \in Couriers, NEW s \in AdminStatuses, SetStatus(c, s) PROVE IInv'
  BY <1>5, SetStatusInv
<1> QED
  BY <1>1, <1>2, <1>3, <1>4, <1>5, TickInv, StutterInv DEF Next

THEOREM Invariance == Spec => []IInv
<1>1. Init => IInv
  BY InitInv
<1>2. IInv /\ [Next]_vars => IInv'
  BY NextInv
<1> QED
  BY <1>1, <1>2, PTL DEF Spec
-----------------------------------------------------------------------------
\* Every value the code stores is of its type: in particular a courier's status
\* is always one the CHECK constraint of table couriers admits.
THEOREM TypeCorrect == Spec => []TypeOK
BY Invariance, PTL DEF IInv

\* No order ever has two deliveries, however many calls insert it at once.
THEOREM NoOrderTwice == Spec => []OneDeliveryPerOrder
BY Invariance, PTL DEF IInv, Unique

\* The courier Assign has chosen is nobody else's until Assign ends.
THEOREM ChoiceIsStable == Spec => []ChosenStaysAvailable
BY Invariance, PTL DEF IInv

\* No courier is booked twice: a delivery appears only in the step that turns
\* its courier from available to busy.
THEOREM NoDoubleBooking == Spec => AssignTakesAvailable
<1> DEFINE A == \A r \in delivery' \ delivery :
                   status[r.courier] = "available" /\ status'[r.courier] = "busy"
<1>1. IInv /\ [Next]_vars => [A]_vars
  <2> SUFFICES ASSUME IInv, Next, NEW r \in delivery' \ delivery
               PROVE  status[r.courier] = "available" /\ status'[r.courier] = "busy"
    BY DEF vars
  <2>1. PICK p \in Procs : Commit(p)
    BY DEF Next, Call, Begin, Statement, Return, Fail, DeadlockVictim, SetStatus, Tick, Rollback,
           db, local, writes, Find, PickCourier, SkipCourier, InsertDelivery, InsertDuplicate,
           GetByOrderID, GetNothing, DeleteByOrderID, UpdateCourierStatus, ScanExpired,
           ReleaseCourier
  <2>2. r \in ins[p] /\ pc[p] = "commit"
    BY <2>1 DEF Commit, Apply
  <2>3. /\ op[p] = "assign" /\ r \in row[p] /\ r.courier \in touch[p]
        /\ r.courier \in Couriers
    BY <2>2 DEF IInv, Locked, TypeOK, Rows
  <2>4. status[r.courier] = "available"
    BY <2>2, <2>3 DEF IInv, ChosenStaysAvailable
  <2> QED
    BY <2>1, <2>3, <2>4 DEF Commit, Apply, NewStatus
<1> QED
  BY <1>1, Invariance, PTL DEF Spec, AssignTakesAvailable
-----------------------------------------------------------------------------
(***************************************************************************)
(* Deadlocks.  What a transaction holds is a lock, from its SELECT or      *)
(* UPDATE of couriers on, a pending insert or a pending delete.            *)
(***************************************************************************)
LockedAt == {"pick", "insert", "busy", "release", "commit"}

Holding ==
    \A p \in Procs :
        /\ \A c \in Couriers : lock[c] = p => pc[p] \in LockedAt
        /\ pc[p] = "delete" => op[p] = "unassign"
        /\ \A o \in del[p] : o = arg[p] /\ op[p] = "unassign" /\ pc[p] \in {"free", "commit"}

\* A transaction that ends gives up what it holds, the others keep theirs.
LEMMA FinishHolding ==
    ASSUME IInv, Holding, NEW p \in Procs, NEW r \in Replies, Finish(p, r)
    PROVE  Holding'
BY ProcsAssumption DEF IInv, TypeOK, Holding, LockedAt, Finish, Goto

LEMMA StatementHolding ==
    ASSUME IInv, Holding, NEW p \in Procs, Statement(p)
    PROVE  Holding'
<1> USE DEF IInv, TypeOK, Holding, LockedAt, Goto, Acquire, writes, local
<1>1. ASSUME Find(p) PROVE Holding'
  <2>1. CASE Snapshot = {}
    BY <1>1, <2>1, FinishHolding DEF Find, Rollback, Replies
  <2> QED
    BY <1>1, <2>1 DEF Find
<1>2. ASSUME PickCourier(p) PROVE Holding'
  BY <1>2 DEF PickCourier
<1>3. ASSUME SkipCourier(p) PROVE Holding'
  <2>1. CASE Rollback(p, "conflict")
    BY <2>1, FinishHolding DEF Rollback, Replies
  <2> QED
    BY <1>3, <2>1 DEF SkipCourier
<1>4. ASSUME InsertDelivery(p) PROVE Holding'
  BY <1>4 DEF InsertDelivery
<1>5. ASSUME GetByOrderID(p) PROVE Holding'
  BY <1>5 DEF GetByOrderID
<1>6. ASSUME GetNothing(p) PROVE Holding'
  <2>1. CASE Rollback(p, "notfound")
    BY <2>1, FinishHolding DEF Rollback, Replies
  <2> QED
    BY <1>6, <2>1 DEF GetNothing
<1>7. ASSUME DeleteByOrderID(p) PROVE Holding'
  <2>1. CASE Rollback(p, "error")
    BY <2>1, FinishHolding DEF Rollback, Replies
  <2> QED
    BY <1>7, <2>1 DEF DeleteByOrderID
<1>8. ASSUME UpdateCourierStatus(p) PROVE Holding'
  BY <1>8 DEF UpdateCourierStatus
<1>9. ASSUME ScanExpired(p) PROVE Holding'
  BY <1>9 DEF ScanExpired
<1>10. ASSUME ReleaseCourier(p) PROVE Holding'
  BY <1>10 DEF ReleaseCourier
<1>11. ASSUME Commit(p) \/ InsertDuplicate(p) PROVE Holding'
  BY <1>11, FinishHolding DEF Commit, InsertDuplicate, Rollback, Replies
<1> QED
  BY <1>1, <1>2, <1>3, <1>4, <1>5, <1>6, <1>7, <1>8, <1>9, <1>10, <1>11 DEF Statement

LEMMA HoldingNext == ASSUME IInv, Holding, [Next]_vars PROVE Holding'
<1>1. ASSUME NEW p \in Procs, Call(p) \/ Return(p) PROVE Holding'
  <2>1. ASSUME NEW k \in Kinds, NEW o, Begin(p, k, o) PROVE Holding'
    <3>1. pc'[p] \notin LockedAt \cup {"delete", "free"}
      BY <2>1 DEF IInv, TypeOK, Begin, Goto, Entry, Kinds, LockedAt
    <3> QED
      BY <2>1, <3>1 DEF IInv, TypeOK, Holding, LockedAt, Begin, Goto
  <2>2. CASE Return(p)
    BY <2>2 DEF IInv, TypeOK, Holding, LockedAt, Return, Goto
  <2> QED
    BY <1>1, <2>1, <2>2, MayAssumption DEF Call, Kinds
<1>2. ASSUME NEW p \in Procs, Fail(p) \/ DeadlockVictim(p) PROVE Holding'
  BY <1>2, FinishHolding DEF Fail, DeadlockVictim, Rollback, Replies
<1>3. ASSUME UNCHANGED <<lock, pc, op, arg, del>> PROVE Holding'
  BY <1>3 DEF Holding
<1>4. ASSUME Tick \/ (\E c \in Couriers, s \in AdminStatuses : SetStatus(c, s)) \/ UNCHANGED vars
      PROVE  Holding'
  BY <1>3, <1>4 DEF Tick, SetStatus, local, writes, vars
<1> QED
  BY <1>1, <1>2, <1>4, StatementHolding DEF Next

\* Whoever waits for q waits for a lock, an insert or a delete that q holds.
LEMMA WhatIsHeld ==
    ASSUME IInv, Holding, NEW p \in Procs, NEW q \in Procs, q \in WaitsFor(p)
    PROVE  \/ pc[q] \in LockedAt
           \/ op[q] = "assign"
           \/ /\ arg[p] = arg[q] /\ op[q] = "unassign" /\ pc[q] \in {"free", "commit"}
              /\ p # q /\ pc[p] \in {"insert", "delete"}
<1> USE DEF IInv, TypeOK, Rows, Candidates
<1>1. CASE pc[p] = "pick"
  <2>1. \E x \in cand[p] : q = lock[x.courier]
    BY <1>1, ProcsAssumption DEF WaitsFor
  <2> QED
    BY <2>1 DEF Holding
<1>2. CASE pc[p] = "free"
  <2>1. \E r \in row[p] : q = lock[r.courier]
    BY <1>2, ProcsAssumption DEF WaitsFor
  <2> QED
    BY <2>1 DEF Holding
<1>3. CASE pc[p] = "release"
  <2>1. \E c \in todo[p] : q = lock[c]
    BY <1>3 DEF WaitsFor
  <2> QED
    BY <2>1 DEF Holding
<1>4. CASE pc[p] \in {"insert", "delete"}
  <2>1. q # p /\ (arg[p] \in del[q] \/ ins[q] # {})
    BY <1>4 DEF WaitsFor
  <2> QED
    BY <1>4, <2>1 DEF Holding, Locked
<1> QED
  BY <1>1, <1>2, <1>3, <1>4 DEF WaitsFor, Labels

\* Statements that wait.
LEMMA WaitingAt ==
    ASSUME NEW p \in Procs, WaitsFor(p) # {}
    PROVE  pc[p] \in {"pick", "free", "insert", "delete", "release"}
BY DEF WaitsFor

LEMMA KnownDeadlocks == ASSUME IInv, Holding PROVE DeadlocksAreKnown
<1> SUFFICES ASSUME NEW p \in Procs, Deadlocked(p), op[p] \notin {"assign", "release"}
             PROVE  op[p] = "unassign" /\ \E q \in Procs \ {p} : op[q] = "assign" /\ arg[q] = arg[p]
  BY DEF DeadlocksAreKnown
<1>1. PICK n \in 2..Cardinality(Procs) : \E f \in [0..n -> Procs] :
         /\ f[0] = p /\ f[n] = p
         /\ \A i \in 0..(n - 1) : f[i + 1] \in WaitsFor(f[i])
  BY DEF Deadlocked, InCycle
<1>2. PICK f \in [0..n -> Procs] :
         /\ f[0] = p /\ f[n] = p
         /\ \A i \in 0..(n - 1) : f[i + 1] \in WaitsFor(f[i])
  BY <1>1
<1> DEFINE q == f[n - 1]
           r == f[n - 2]
<1>3. n \in Int /\ n >= 2
  OBVIOUS
<1>4. /\ n - 1 \in 0..(n - 1) /\ n - 2 \in 0..(n - 1)
      /\ (n - 1) + 1 = n /\ (n - 2) + 1 = n - 1
  BY <1>3
<1>5. q \in Procs /\ r \in Procs /\ p \in WaitsFor(q) /\ q \in WaitsFor(r)
  BY <1>2, <1>3, <1>4
<1> HIDE DEF q, r
\* p holds no lock, so it is waited for by a call on the order it deletes, ...
<1>6. pc[p] \in {"free", "delete"}
  BY WaitingAt DEF Deadlocked, IInv, AtOperation
<1>7. op[p] = "unassign" /\ arg[q] = arg[p] /\ q # p /\ pc[q] \in {"insert", "delete"}
  BY <1>5, <1>6, WhatIsHeld DEF LockedAt
\* ... which is waited for in its turn, and so is no other Unassign.
<1>8. pc[q] # "delete"
  BY <1>5, WhatIsHeld DEF LockedAt, Holding
<1>9. op[q] = "assign"
  BY <1>5, <1>7, <1>8 DEF IInv, AtOperation
<1> QED
  BY <1>5, <1>7, <1>9

\* Deadlocks are among assignments and releases, and an Unassign is in one only
\* with an Assign of its own order: a completion never.
THEOREM DeadlocksExplained == Spec => []DeadlocksAreKnown
<1>1. Init => Holding
  BY ProcsAssumption DEF Init, Holding
<1>2. IInv /\ Holding /\ [Next]_vars => Holding'
  BY HoldingNext
<1>3. IInv /\ Holding => DeadlocksAreKnown
  BY KnownDeadlocks
<1> QED
  BY <1>1, <1>2, <1>3, Invariance, PTL DEF Spec
=============================================================================
