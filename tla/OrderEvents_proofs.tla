------------------------- MODULE OrderEvents_proofs -------------------------
(***************************************************************************)
(* For every set of couriers and orders, whatever crashes, rebalances and  *)
(* failures: no message is acknowledged unhandled, a cancelled order ends  *)
(* without a delivery, and a busy courier has an order that is not         *)
(* finished, or whose end is still to be read.                             *)
(***************************************************************************)
EXTENDS OrderEvents, FiniteSetTheorems, TLAPS

InSession == phase \in {"claim", "lookup", "handle"}

\* How far the log has been read: the claim's position, or where the next
\* claim will begin.
Position == IF InSession THEN pos ELSE committed

\* All that was published of the order so far has been read.
Passed(o) == \A i \in DOMAIN log : log[i].order = o => i <= Position

\* What is marked is read, and in the log.
Marked ==
    /\ committed <= Len(log)
    /\ InSession => mark = pos /\ committed <= pos /\ pos <= Len(log)
    /\ phase \in {"lookup", "handle"} => pos < Len(log) /\ Current.order \in Orders

\* What is marked is settled.
MarkedIsSettled ==
    /\ 1..committed \subseteq settled
    /\ InSession => 1..mark \subseteq settled

\* An order has one courier at most.
OneCourier == \A o \in Orders, c, d \in Couriers :
    <<c, o>> \in board /\ <<d, o>> \in board => c = d

\* The last message of an order carries its status.
LastIsTruth == \A o \in Orders :
    /\ truth[o] = "none" => \A i \in DOMAIN log : log[i].order # o
    /\ \A i \in DOMAIN log :
          log[i].order = o /\ (\A j \in DOMAIN log : log[j].order = o => j <= i)
            => log[i].status = truth[o]

\* The last message of an order is handled with the order's status.
LastIsSeen ==
    phase = "handle" /\ (\A i \in DOMAIN log : log[i].order = Current.order => i <= pos + 1)
        => seen = truth[Current.order]

\* A cancelled order that has been read has no delivery.
CancelHandled == \A o \in Orders : truth[o] = "canceled" /\ Passed(o) => ~Assigned(o)

Open(o) == truth[o] \in {"created", "cooking", "deleted"}

\* A busy courier has an order that is open, or not read to its end.
BusyExplained == \A c \in Couriers : status[c] = "busy" =>
    \E o \in Orders : <<c, o>> \in board /\ (Open(o) \/ ~Passed(o))

IInv ==
    /\ TypeOK
    /\ Marked
    /\ MarkedIsSettled
    /\ OneCourier
    /\ LastIsTruth
    /\ LastIsSeen
    /\ CancelHandled
    /\ BusyExplained
-----------------------------------------------------------------------------
\* The operation is the one the status calls for (factory.go).
LEMMA OperationOf ==
    ASSUME NEW s
    PROVE  /\ Operation(s) = "assign" <=> s = "created"
           /\ Operation(s) = "unassign" <=> s \in {"canceled", "deleted"}
           /\ Operation(s) = "complete" <=> s = "completed"
           /\ Operation(s) = "none" <=> s \notin {"created", "canceled", "deleted", "completed"}
BY DEF Operation

\* A message of an order that has been published is one of the log's.
LEMMA CurrentMessage ==
    ASSUME TypeOK, pos < Len(log)
    PROVE  /\ pos + 1 \in DOMAIN log
           /\ Current \in Messages
           /\ Current = log[pos + 1]
BY DEF TypeOK, Current

LEMMA PositionType == TypeOK => Position \in Nat
BY DEF TypeOK, Position

\* What the effect of a call does to the tables.
LEMMA EffectType ==
    ASSUME TypeOK, NEW o \in Orders, NEW k, Effect(k, o)
    PROVE  /\ status' \in [Couriers -> {"available", "busy", "paused"}]
           /\ board' \in SUBSET (Couriers \X Orders)
<1>1. \E c \in Couriers, v \in {"available", "busy"} : status' = [status EXCEPT ![c] = v]
  BY DEF Effect, Board!Assign, Board!Unassign, Board!Complete
<1>2. \E c \in Couriers : board' \in {board, board \cup {<<c, o>>}, board \ {<<c, o>>}}
  BY DEF Effect, Board!Assign, Board!Unassign, Board!Complete
<1>3. status' \in [Couriers -> {"available", "busy", "paused"}]
  BY <1>1 DEF TypeOK
<1>4. board' \in SUBSET (Couriers \X Orders)
  BY <1>2 DEF TypeOK
<1> QED BY <1>3, <1>4

\* An effect touches the deliveries of its own order only.
LEMMA EffectElsewhere ==
    ASSUME TypeOK, NEW o \in Orders, NEW k, Effect(k, o),
           NEW p \in Orders, p # o, NEW c \in Couriers
    PROVE  <<c, p>> \in board' <=> <<c, p>> \in board
BY DEF TypeOK, Effect, Board!Assign, Board!Unassign, Board!Complete

LEMMA EffectOneCourier ==
    ASSUME TypeOK, OneCourier, NEW o \in Orders, NEW k, Effect(k, o)
    PROVE  OneCourier'
<1>1. CASE \E c \in Couriers : Board!Assign(c, o)
  BY <1>1 DEF OneCourier, Board!Assign
<1>2. CASE \E c \in Couriers : Board!Unassign(c, o)
  BY <1>2 DEF OneCourier, Board!Unassign
<1>3. CASE \E c \in Couriers : Board!Complete(c)
  BY <1>3 DEF OneCourier, Board!Complete
<1> QED BY <1>1, <1>2, <1>3 DEF Effect

\* Unassigning leaves no delivery of the order.
LEMMA UnassignClears ==
    ASSUME TypeOK, OneCourier, NEW o \in Orders, Effect("unassign", o)
    PROVE  ~Assigned(o)'
<1> PICK d \in Couriers : Board!Unassign(d, o)
  BY DEF Effect
<1> SUFFICES ASSUME NEW c \in Couriers, <<c, o>> \in board'
             PROVE  FALSE
  BY DEF Assigned
<1> QED BY DEF Board!Unassign, OneCourier

\* Whoever is busy after an effect has just got the order, or was busy before
\* without having this order.
LEMMA EffectBusy ==
    ASSUME TypeOK, OneCourier, NEW o \in Orders, NEW k, Effect(k, o),
           NEW c \in Couriers, status'[c] = "busy"
    PROVE  \/ k = "assign" /\ <<c, o>> \in board'
           \/ status[c] = "busy" /\ <<c, o>> \notin board
<1>1. CASE k = "assign" /\ \E d \in Couriers : Board!Assign(d, o)
  <2> PICK d \in Couriers : Board!Assign(d, o)
    BY <1>1
  <2>1. CASE d = c
    BY <1>1, <2>1 DEF Board!Assign
  <2>2. CASE d # c
    BY <2>2 DEF Board!Assign, TypeOK
  <2> QED BY <2>1, <2>2
<1>2. CASE \E d \in Couriers : Board!Unassign(d, o)
  BY <1>2 DEF Board!Unassign, TypeOK, OneCourier
<1>3. CASE \E d \in Couriers : <<d, o>> \in board /\ Board!Complete(d)
  BY <1>3 DEF Board!Complete, TypeOK, OneCourier
<1> QED BY <1>1, <1>2, <1>3 DEF Effect
-----------------------------------------------------------------------------
\* A step that reads no further and changes neither orders nor tables keeps
\* what is said of the tables.
LEMMA Quiet ==
    ASSUME IInv, UNCHANGED <<truth, log, status, board>>,
           Position' \in Nat, Position' <= Position
    PROVE  OneCourier' /\ LastIsTruth' /\ CancelHandled' /\ BusyExplained'
<1>1. \A o \in Orders : Passed(o)' => Passed(o)
  BY PositionType DEF Passed, IInv, TypeOK
<1>2. OneCourier'
  BY DEF IInv, OneCourier
<1>3. LastIsTruth'
  BY DEF IInv, LastIsTruth
<1>4. CancelHandled'
  BY <1>1 DEF IInv, CancelHandled, Assigned
<1>5. BusyExplained'
  BY <1>1 DEF IInv, BusyExplained, Open
<1> QED BY <1>2, <1>3, <1>4, <1>5

LEMMA InitInv == Init => IInv
<1> SUFFICES ASSUME Init PROVE IInv
  OBVIOUS
<1> USE DEF Init, Board!Init
<1>1. TypeOK
  BY DEF TypeOK, Phases
<1>2. Marked /\ MarkedIsSettled /\ OneCourier /\ LastIsTruth /\ LastIsSeen
  BY DEF Marked, MarkedIsSettled, InSession, OneCourier, LastIsTruth, LastIsSeen
<1>3. CancelHandled /\ BusyExplained
  BY DEF CancelHandled, BusyExplained, Assigned
<1> QED BY <1>1, <1>2, <1>3 DEF IInv
-----------------------------------------------------------------------------
(***************************************************************************)
(* The steps that are quiet.                                               *)
(***************************************************************************)
\* The end of a claim, whose tables are left alone.
LEMMA EndClaimInv ==
    ASSUME IInv, InSession, EndClaim, UNCHANGED tables
    PROVE  IInv'
<1> USE DEF IInv, EndClaim, InSession, service, tables
<1>1. TypeOK'
  BY DEF TypeOK, Phases
<1>2. Position' \in Nat /\ Position' <= Position
  BY DEF TypeOK, Position, Marked
<1>3. OneCourier' /\ LastIsTruth' /\ CancelHandled' /\ BusyExplained'
  BY <1>2, Quiet
<1>4. Marked'
  BY DEF TypeOK, Marked
<1>5. MarkedIsSettled'
  BY DEF MarkedIsSettled, Marked
<1>6. LastIsSeen'
  BY DEF LastIsSeen
<1> QED BY <1>1, <1>3, <1>4, <1>5, <1>6

LEMMA JoinInv == IInv /\ Join => IInv'
<1> SUFFICES ASSUME IInv, Join PROVE IInv'
  OBVIOUS
<1> USE DEF IInv, Join, InSession, service, tables
<1>1. TypeOK'
  BY DEF TypeOK, Phases
<1>2. Position' \in Nat /\ Position' <= Position
  BY DEF TypeOK, Position
<1>3. OneCourier' /\ LastIsTruth' /\ CancelHandled' /\ BusyExplained'
  BY <1>2, Quiet
<1>4. Marked' /\ MarkedIsSettled' /\ LastIsSeen'
  BY DEF TypeOK, Marked, MarkedIsSettled, LastIsSeen
<1> QED BY <1>1, <1>3, <1>4

LEMMA FlushInv == IInv /\ Flush => IInv'
<1> SUFFICES ASSUME IInv, Flush PROVE IInv'
  OBVIOUS
<1> USE DEF IInv, Flush, InSession, service, tables
<1>1. TypeOK'
  BY DEF TypeOK
<1>2. Position' \in Nat /\ Position' <= Position
  BY DEF TypeOK, Position
<1>3. OneCourier' /\ LastIsTruth' /\ CancelHandled' /\ BusyExplained'
  BY <1>2, Quiet
<1>4. Marked'
  BY DEF TypeOK, Marked, Current
<1>5. MarkedIsSettled' /\ LastIsSeen'
  BY DEF MarkedIsSettled, LastIsSeen, Current
<1> QED BY <1>1, <1>3, <1>4, <1>5

LEMMA TakeInv == IInv /\ Take => IInv'
<1> SUFFICES ASSUME IInv, Take PROVE IInv'
  OBVIOUS
<1> USE DEF IInv, Take, InSession, service, tables
<1>1. /\ pos + 1 \in DOMAIN log
      /\ Current \in Messages
      /\ Current = log[pos + 1]
      /\ Current' = Current
  BY CurrentMessage DEF Current
<1>2. Current.order \in Orders /\ Current.status \in OrderStatuses
  BY <1>1 DEF Messages
<1>3. TypeOK'
  BY <1>2 DEF TypeOK, Phases
<1>4. Position' \in Nat /\ Position' <= Position
  BY DEF TypeOK, Position
<1>5. OneCourier' /\ LastIsTruth' /\ CancelHandled' /\ BusyExplained'
  BY <1>4, Quiet
<1>6. Marked'
  BY <1>1, <1>2 DEF TypeOK, Marked
<1>7. MarkedIsSettled'
  BY DEF MarkedIsSettled
<1>8. LastIsSeen'
  BY <1>1, <1>2 DEF LastIsSeen, LastIsTruth
<1> QED BY <1>3, <1>5, <1>6, <1>7, <1>8

LEMMA LookupFoundInv == IInv /\ LookupFound => IInv'
<1> SUFFICES ASSUME IInv, LookupFound PROVE IInv'
  OBVIOUS
<1> USE DEF IInv, LookupFound, InSession, service, tables
<1>1. Current' = Current /\ Current.order \in Orders
  BY DEF Current, Marked
<1>2. TypeOK'
  BY <1>1 DEF TypeOK, Phases
<1>3. Position' \in Nat /\ Position' <= Position
  BY DEF TypeOK, Position
<1>4. OneCourier' /\ LastIsTruth' /\ CancelHandled' /\ BusyExplained'
  BY <1>3, Quiet
<1>5. Marked' /\ MarkedIsSettled'
  BY <1>1 DEF Marked, MarkedIsSettled
<1>6. LastIsSeen'
  BY <1>1 DEF LastIsSeen
<1> QED BY <1>2, <1>4, <1>5, <1>6

LEMMA StartInv == IInv /\ Start => IInv'
<1> SUFFICES ASSUME IInv, Start PROVE IInv'
  OBVIOUS
<1> USE DEF IInv, Start, InSession, service, tables
<1>1. TypeOK'
  BY DEF TypeOK, Phases
<1>2. Position' \in Nat /\ Position' <= Position
  BY DEF TypeOK, Position
<1>3. OneCourier' /\ LastIsTruth' /\ CancelHandled' /\ BusyExplained'
  BY <1>2, Quiet
<1>4. Marked' /\ MarkedIsSettled' /\ LastIsSeen'
  BY DEF Marked, MarkedIsSettled, LastIsSeen
<1> QED BY <1>1, <1>3, <1>4

LEMMA CrashInv == IInv /\ Crash => IInv'
<1> SUFFICES ASSUME IInv, Crash PROVE IInv'
  OBVIOUS
<1> USE DEF IInv, Crash, InSession, service, tables
<1>1. TypeOK'
  BY DEF TypeOK, Phases
<1>2. Position' \in Nat /\ Position' <= Position
  BY DEF TypeOK, Position, Marked, Phases
<1>3. OneCourier' /\ LastIsTruth' /\ CancelHandled' /\ BusyExplained'
  BY <1>2, Quiet
<1>4. Marked' /\ MarkedIsSettled' /\ LastIsSeen'
  BY DEF Marked, MarkedIsSettled, LastIsSeen
<1> QED BY <1>1, <1>3, <1>4
-----------------------------------------------------------------------------
(***************************************************************************)
(* Reading on.                                                             *)
(***************************************************************************)
TablesType ==
    /\ status \in [Couriers -> {"available", "busy", "paused"}]
    /\ board \in SUBSET (Couriers \X Orders)

\* A message is passed: only its own order may be read further.
LEMMA AckFrame ==
    ASSUME IInv, InSession, pos < Len(log), Ack, TablesType'
    PROVE  /\ TypeOK' /\ Marked' /\ MarkedIsSettled' /\ LastIsTruth' /\ LastIsSeen'
           /\ \A x \in Orders : x # Current.order /\ Passed(x)' => Passed(x)
           /\ \A x \in Orders : Passed(x)' =>
                 \A i \in DOMAIN log : log[i].order = x => i <= pos + 1
<1> USE DEF IInv, Ack, service
<1>1. TypeOK'
  BY DEF TypeOK, TablesType, Phases
<1>2. Marked'
  BY DEF TypeOK, Marked, InSession
<1>3. MarkedIsSettled'
  <2>1. 1..(pos + 1) \subseteq 1..pos \cup {pos + 1}
    BY DEF TypeOK
  <2> QED BY <2>1 DEF MarkedIsSettled, Marked, InSession
<1>4. LastIsTruth' /\ LastIsSeen'
  BY DEF LastIsTruth, LastIsSeen
<1>5. Position = pos /\ Position' = pos + 1
  BY DEF Position, InSession
<1>6. ASSUME NEW x \in Orders, x # Current.order, Passed(x)'
      PROVE  Passed(x)
  <2> SUFFICES ASSUME NEW i \in DOMAIN log, log[i].order = x
               PROVE  i <= pos
    BY <1>5 DEF Passed
  <2>1. i <= pos + 1
    BY <1>5, <1>6 DEF Passed
  <2>2. i # pos + 1
    BY <1>6 DEF Current
  <2> QED BY <2>1, <2>2 DEF TypeOK
<1>7. ASSUME NEW x \in Orders, Passed(x)'
      PROVE  \A i \in DOMAIN log : log[i].order = x => i <= pos + 1
  BY <1>5, <1>7 DEF Passed
<1> QED BY <1>1, <1>2, <1>3, <1>4, <1>6, <1>7

LEMMA SkipInv == IInv /\ Skip => IInv'
<1> SUFFICES ASSUME IInv, Skip PROVE IInv'
  OBVIOUS
<1> USE DEF IInv
<1>1. InSession /\ pos < Len(log) /\ Ack /\ UNCHANGED <<truth, tables>>
  BY DEF Skip, InSession, Ack, service
<1>2. TablesType'
  BY <1>1 DEF TablesType, TypeOK, tables
<1>3. \A x \in Orders : Passed(x)' => Passed(x)
  BY <1>1, <1>2, AckFrame, OrdersAssumption DEF Skip
<1>4. OneCourier' /\ CancelHandled'
  BY <1>1, <1>3 DEF OneCourier, CancelHandled, Assigned, tables
<1>5. BusyExplained'
  BY <1>1, <1>3 DEF BusyExplained, Open, tables
<1> QED BY <1>1, <1>2, <1>4, <1>5, AckFrame

LEMMA LookupMissingInv == IInv /\ LookupMissing => IInv'
<1> SUFFICES ASSUME IInv, LookupMissing PROVE IInv'
  OBVIOUS
<1> USE DEF IInv
<1>1. InSession /\ pos < Len(log) /\ Ack /\ UNCHANGED <<truth, tables>>
  BY DEF LookupMissing, InSession, Ack, service, Marked
<1>2. TablesType'
  BY <1>1 DEF TablesType, TypeOK, tables
<1>3. \A x \in Orders : Passed(x)' => Passed(x) \/ truth[x] = "deleted"
  BY <1>1, <1>2, AckFrame DEF LookupMissing
<1>4. OneCourier' /\ CancelHandled'
  BY <1>1, <1>3 DEF OneCourier, CancelHandled, Assigned, tables
<1>5. BusyExplained'
  BY <1>1, <1>3 DEF BusyExplained, Open, tables
<1> QED BY <1>1, <1>2, <1>4, <1>5, AckFrame

\* A message handled, with its effect or with nothing to do.
LEMMA HandleInv == IInv /\ Handle => IInv'
<1> SUFFICES ASSUME IInv, Handle PROVE IInv'
  OBVIOUS
<1> USE DEF IInv
<1>1. InSession /\ pos < Len(log) /\ Ack /\ UNCHANGED truth
  BY DEF Handle, InSession, Ack, service, Marked, TypeOK
<1>2. PICK o \in Orders : Current.order = o /\ \E i \in DOMAIN log : log[i].order = o
  BY <1>1, CurrentMessage DEF Handle, Marked
<1>op. PICK k : k = Operation(seen)
  OBVIOUS
<1>3. Effect(k, o) \/ (Nothing(k, o) /\ UNCHANGED tables)
  BY <1>2, <1>op DEF Handle
<1>4. TablesType'
  BY <1>2, <1>3, EffectType DEF TablesType, TypeOK, tables
<1>5. \A x \in Orders : x # o /\ Passed(x)' => Passed(x)
  BY <1>1, <1>2, <1>4, AckFrame
<1>6. Passed(o)' => seen = truth[o] /\ truth[o] # "none"
  <2>1. Passed(o)' => \A i \in DOMAIN log : log[i].order = o => i <= pos + 1
    BY <1>1, <1>2, <1>4, AckFrame
  <2> QED BY <1>2, <2>1 DEF LastIsSeen, LastIsTruth, Handle
<1>7. OneCourier'
  BY <1>2, <1>3, EffectOneCourier DEF OneCourier, tables
<1>8. CancelHandled'
  <2> SUFFICES ASSUME NEW x \in Orders, truth[x] = "canceled", Passed(x)'
               PROVE  ~Assigned(x)'
    BY <1>1 DEF CancelHandled
  <2>1. CASE x # o
    BY <1>2, <1>3, <1>5, <2>1, EffectElsewhere DEF CancelHandled, Assigned, tables
  <2>2. CASE x = o
    <3>1. k = "unassign"
      BY <1>6, <2>2, <1>op, OperationOf
    <3> QED BY <1>2, <1>3, <2>2, <3>1, UnassignClears DEF Nothing, Assigned, tables
  <2> QED BY <2>1, <2>2
<1>9. BusyExplained'
  <2> SUFFICES ASSUME NEW c \in Couriers, status'[c] = "busy"
               PROVE  \E x \in Orders : <<c, x>> \in board' /\ (Open(x)' \/ ~Passed(x)')
    BY DEF BusyExplained
  <2>1. \A x \in Orders : Open(x)' <=> Open(x)
    BY <1>1 DEF Open
  <2>2. Passed(o)' /\ k \in {"assign", "none"} => Open(o)
    <3>1. Passed(o)' => truth[o] \in OrderStatuses
      BY <1>2, <1>6 DEF TypeOK
    <3> QED BY <1>6, <3>1, <1>op, OperationOf DEF Open, OrderStatuses
  <2>3. CASE k = "assign" /\ <<c, o>> \in board'
    BY <1>2, <2>1, <2>2, <2>3
  <2>4. CASE status[c] = "busy" /\ ~(k = "assign" /\ <<c, o>> \in board')
    <3>1. PICK x \in Orders : <<c, x>> \in board /\ (Open(x) \/ ~Passed(x))
      BY <2>4 DEF BusyExplained
    <3>2. CASE x # o
      BY <1>2, <1>3, <1>5, <2>1, <3>1, <3>2, EffectElsewhere DEF tables
    <3>3. CASE x = o
      <4>1. UNCHANGED tables /\ Nothing(k, o)
        BY <1>2, <1>3, <2>4, <3>1, <3>3, EffectBusy
      <4>2. k \in {"assign", "none"}
        BY <3>1, <3>3, <4>1 DEF Nothing, Assigned
      <4> QED BY <2>1, <2>2, <3>1, <3>3, <4>1, <4>2 DEF tables
    <3> QED BY <3>2, <3>3
  <2> QED BY <1>2, <1>3, <2>3, <2>4, EffectBusy DEF tables
<1> QED BY <1>1, <1>4, <1>7, <1>8, <1>9, AckFrame

\* The same effect, not acknowledged: its message is still to be read.
LEMMA LostInv == IInv /\ Lost => IInv'
<1> SUFFICES ASSUME IInv, Lost PROVE IInv'
  OBVIOUS
<1> USE DEF IInv
<1>1. InSession /\ EndClaim /\ UNCHANGED <<truth, log>> /\ pos < Len(log)
  BY DEF Lost, InSession, EndClaim, service, Marked
<1>2. PICK o \in Orders : Current.order = o /\ pos + 1 \in DOMAIN log /\ log[pos + 1].order = o
  BY <1>1, CurrentMessage DEF Lost, Marked
<1>op. PICK k : k = Operation(seen)
  OBVIOUS
<1>3. Effect(k, o)
  BY <1>2, <1>op DEF Lost
<1>4. Position' <= pos /\ Position' \in Nat /\ Position = pos
  BY <1>1 DEF EndClaim, Position, InSession, Marked, TypeOK
<1>5. ~Passed(o)'
  <2>1. pos + 1 \in DOMAIN log' /\ log'[pos + 1].order = o /\ ~(pos + 1 <= Position')
    BY <1>1, <1>2, <1>4 DEF TypeOK
  <2> QED BY <2>1 DEF Passed
<1>6. \A x \in Orders : Passed(x)' => Passed(x)
  BY <1>1, <1>4 DEF Passed, TypeOK
<1>7. TablesType'
  BY <1>2, <1>3, EffectType DEF TablesType
<1>8. TypeOK'
  BY <1>1, <1>7 DEF TypeOK, TablesType, EndClaim, service, Phases
<1>9. Marked' /\ MarkedIsSettled' /\ LastIsTruth' /\ LastIsSeen'
  BY <1>1 DEF EndClaim, service, Marked, MarkedIsSettled, LastIsTruth, LastIsSeen, InSession, TypeOK
<1>10. OneCourier'
  BY <1>2, <1>3, EffectOneCourier
<1>11. CancelHandled'
  BY <1>1, <1>2, <1>3, <1>5, <1>6, EffectElsewhere DEF CancelHandled, Assigned
<1>12. BusyExplained'
  <2> SUFFICES ASSUME NEW c \in Couriers, status'[c] = "busy"
               PROVE  \E x \in Orders : <<c, x>> \in board' /\ (Open(x)' \/ ~Passed(x)')
    BY DEF BusyExplained
  <2>1. CASE <<c, o>> \in board'
    BY <1>2, <1>5, <2>1
  <2>2. CASE status[c] = "busy" /\ <<c, o>> \notin board
    BY <1>1, <1>2, <1>3, <1>6, <2>2, EffectElsewhere DEF BusyExplained, Open
  <2> QED BY <1>2, <1>3, <2>1, <2>2, EffectBusy
<1> QED BY <1>8, <1>9, <1>10, <1>11, <1>12
-----------------------------------------------------------------------------
(***************************************************************************)
(* The other actors.                                                       *)
(***************************************************************************)
\* A courier is freed: nobody becomes busy, no delivery changes.
LEMMA AutoReleaseInv ==
    ASSUME IInv, NEW S \in SUBSET Couriers, AutoRelease(S)
    PROVE  IInv'
<1> USE DEF IInv, AutoRelease, Board!Release, service
<1>1. TypeOK'
  BY DEF TypeOK
<1>2. Marked' /\ MarkedIsSettled' /\ OneCourier' /\ LastIsTruth' /\ LastIsSeen'
  BY DEF Marked, MarkedIsSettled, OneCourier, LastIsTruth, LastIsSeen, InSession, Current
<1>3. \A x \in Orders : Passed(x)' <=> Passed(x)
  BY DEF Passed, Position, InSession
<1>4. CancelHandled'
  BY <1>3 DEF CancelHandled, Assigned
<1>5. BusyExplained'
  BY <1>3 DEF BusyExplained, Open, TypeOK
<1> QED BY <1>1, <1>2, <1>4, <1>5

\* The log grows by a message that is not read yet.
LEMMA Published ==
    ASSUME IInv, NEW m \in Messages, log' = Append(log, m),
           UNCHANGED <<gateway, committed, phase, pos, mark, seen, settled, tables>>
    PROVE  /\ Len(log') = Len(log) + 1 /\ log'[Len(log) + 1] = m
           /\ DOMAIN log' = DOMAIN log \cup {Len(log) + 1}
           /\ \A i \in DOMAIN log : log'[i] = log[i]
           /\ Marked' /\ MarkedIsSettled' /\ OneCourier'
           /\ \A x \in Orders : (Passed(x)' => Passed(x)) /\ (m.order = x => ~Passed(x)')
           /\ phase \in {"lookup", "handle"} => Current' = Current
<1> USE DEF IInv, tables
<1>1. /\ log \in Seq(Messages) /\ Len(log) \in Nat
      /\ Len(log') = Len(log) + 1 /\ log'[Len(log) + 1] = m
      /\ DOMAIN log' = DOMAIN log \cup {Len(log) + 1}
      /\ \A i \in DOMAIN log : log'[i] = log[i]
  BY DEF TypeOK
<1>2. phase \in {"lookup", "handle"} => Current' = Current
  BY <1>1 DEF Marked, TypeOK, Current
<1>3. Marked'
  BY <1>1, <1>2 DEF Marked, TypeOK, InSession
<1>4. MarkedIsSettled' /\ OneCourier'
  BY DEF MarkedIsSettled, OneCourier, InSession
<1>5. Position' = Position /\ Position \in Nat /\ Position <= Len(log)
  BY DEF Position, InSession, TypeOK, Marked
<1>6. \A x \in Orders : (Passed(x)' => Passed(x)) /\ (m.order = x => ~Passed(x)')
  BY <1>1, <1>5 DEF Passed
<1> QED BY <1>1, <1>2, <1>3, <1>4, <1>6

LEMMA GarbageInv == IInv /\ Garbage => IInv'
<1> SUFFICES ASSUME IInv, Garbage PROVE IInv'
  OBVIOUS
<1> DEFINE m == [order |-> NoOrder, status |-> "created"]
<1> USE DEF IInv, Garbage, tables
<1>1. m \in Messages
  BY DEF Messages, OrderStatuses
<1>2. TypeOK'
  BY <1>1 DEF TypeOK
<1>3. LastIsTruth'
  BY <1>1, Published, OrdersAssumption DEF LastIsTruth
<1>4. LastIsSeen'
  BY <1>1, Published DEF LastIsSeen
<1>5. CancelHandled' /\ BusyExplained'
  BY <1>1, Published DEF CancelHandled, BusyExplained, Assigned, Open
<1> QED BY <1>1, <1>2, <1>3, <1>4, <1>5, Published

\* An order changes, and the change is not read yet.
LEMMA ChangeInv ==
    ASSUME IInv, NEW o \in Orders, NEW s \in OrderStatuses, Change(o, s)
    PROVE  IInv'
<1> DEFINE m == [order |-> o, status |-> s]
<1> USE DEF IInv, Change, tables
<1>1. m \in Messages
  BY DEF Messages
<1>2. /\ Len(log') = Len(log) + 1 /\ log'[Len(log) + 1] = m
      /\ DOMAIN log' = DOMAIN log \cup {Len(log) + 1}
      /\ \A i \in DOMAIN log : log'[i] = log[i]
      /\ Marked' /\ MarkedIsSettled' /\ OneCourier'
      /\ \A x \in Orders : (Passed(x)' => Passed(x)) /\ ~Passed(o)'
      /\ phase \in {"lookup", "handle"} => Current' = Current
  BY <1>1, Published
<1>3. TypeOK'
  BY <1>1 DEF TypeOK
<1>4. Len(log) \in Nat /\ truth' = [truth EXCEPT ![o] = s] /\ s # "none"
  BY DEF TypeOK, OrderStatuses
<1>5. LastIsTruth'
  <2> SUFFICES ASSUME NEW x \in Orders
               PROVE  /\ truth'[x] = "none" => \A i \in DOMAIN log' : log'[i].order # x
                      /\ \A i \in DOMAIN log' :
                            log'[i].order = x /\ (\A j \in DOMAIN log' : log'[j].order = x => j <= i)
                              => log'[i].status = truth'[x]
    BY DEF LastIsTruth
  <2>1. CASE x = o
    <3>1. \A i \in DOMAIN log : ~(Len(log) + 1 <= i)
      BY <1>4 DEF TypeOK
    <3> QED BY <1>2, <1>4, <2>1, <3>1 DEF TypeOK
  <2>2. CASE x # o
    BY <1>2, <1>4, <2>2 DEF LastIsTruth, TypeOK
  <2> QED BY <2>1, <2>2
<1>6. LastIsSeen'
  <2> SUFFICES ASSUME phase = "handle",
                      \A i \in DOMAIN log' : log'[i].order = Current.order => i <= pos + 1
               PROVE  seen = truth'[Current.order]
    BY <1>2 DEF LastIsSeen
  <2>1. Current.order # o
    BY <1>2, <1>4 DEF Marked, TypeOK
  <2> QED BY <1>2, <1>4, <2>1 DEF LastIsSeen, Marked, TypeOK
<1>7. \A x \in Orders : Passed(x)' => x # o /\ truth'[x] = truth[x]
  BY <1>2, <1>4 DEF TypeOK
<1>8. CancelHandled'
  BY <1>2, <1>7 DEF CancelHandled, Assigned
<1>9. BusyExplained'
  BY <1>2, <1>7 DEF BusyExplained, Open
<1> QED BY <1>2, <1>3, <1>5, <1>6, <1>8, <1>9
-----------------------------------------------------------------------------
\* Every step preserves the invariant.
LEMMA NextInv == IInv /\ [Next]_vars => IInv'
<1> SUFFICES ASSUME IInv, [Next]_vars PROVE IInv'
  OBVIOUS
<1>1. CASE UNCHANGED vars
  <2> USE <1>1 DEF IInv, vars, service, tables
  <2>1. TypeOK' /\ Marked' /\ MarkedIsSettled' /\ LastIsSeen'
    BY DEF TypeOK, Marked, MarkedIsSettled, LastIsSeen, InSession, Current
  <2>2. Position' \in Nat /\ Position' <= Position
    BY PositionType DEF Position, InSession, TypeOK
  <2> QED BY <2>1, <2>2, Quiet
<1>2. CASE Worker
  <2>1. CASE Duplicate
    BY <2>1, EndClaimInv DEF Duplicate, InSession
  <2> QED BY <1>2, <2>1, StartInv, JoinInv, SkipInv, TakeInv, LookupFoundInv,
             LookupMissingInv, HandleInv DEF Worker
<1>3. CASE Flush
  BY <1>3, FlushInv
<1>4. CASE Revoke
  BY <1>4, EndClaimInv DEF Revoke, InSession
<1>5. CASE Fail
  BY <1>5, EndClaimInv DEF Fail, InSession
<1>6. CASE Lost
  BY <1>6, LostInv
<1>7. CASE Crash
  BY <1>7, CrashInv
<1>8. CASE \E o \in Orders, s \in OrderStatuses : Change(o, s)
  BY <1>8, ChangeInv
<1>9. CASE Garbage
  BY <1>9, GarbageInv
<1>10. CASE \E S \in SUBSET Couriers \ {{}} : AutoRelease(S)
  BY <1>10, AutoReleaseInv
<1> QED BY <1>1, <1>2, <1>3, <1>4, <1>5, <1>6, <1>7, <1>8, <1>9, <1>10 DEF Next

\* The inductive invariant holds of every behaviour.
THEOREM Invariance == Spec => []IInv
BY InitInv, NextInv, PTL DEF Spec

\* Type correctness, for every instance.
THEOREM TypeCorrect == Spec => []TypeOK
BY Invariance, PTL DEF IInv

\* ConsumeClaim never lets the group acknowledge a message that was not
\* handled: not after an error, a lost answer, a crash or a rebalance.
THEOREM NothingSkipped == Spec => []AcknowledgedIsSettled
<1>1. IInv => AcknowledgedIsSettled
  BY DEF IInv, MarkedIsSettled, AcknowledgedIsSettled
<1> QED BY <1>1, Invariance, PTL

\* When the whole log is read, every order is passed.
LEMMA IdlePassed == ASSUME TypeOK, Idle, NEW o \in Orders PROVE Passed(o)
BY DEF TypeOK, Idle, Passed, Position, InSession

\* onCanceled and the order of the partition leave no delivery of a cancelled
\* order, whatever was delivered again.
THEOREM CancelTakesEffect == Spec => []CanceledIsUnassigned
<1>1. IInv => CanceledIsUnassigned
  BY IdlePassed DEF IInv, CanceledIsUnassigned, CancelHandled
<1> QED BY <1>1, Invariance, PTL

\* onCompleted and onCanceled leave no courier busy for finished orders only.
THEOREM NoIdleBusyCourier == Spec => []BusyWithOpenOrder
<1>1. IInv => BusyWithOpenOrder
  BY IdlePassed DEF IInv, BusyWithOpenOrder, BusyExplained, Open
<1> QED BY <1>1, Invariance, PTL
=============================================================================
