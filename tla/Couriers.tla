------------------------------ MODULE Couriers ------------------------------
(***************************************************************************)
(* The HTTP operations on couriers: GET /courier/{id}, GET /couriers, POST *)
(* and PUT /courier, from the request's body to the status code of the     *)
(* answer, with their statements on table couriers.  Each of them is one   *)
(* statement, a transaction of its own; the id of a new courier is drawn   *)
(* before its row can be refused, and an UPDATE finds its row in a         *)
(* snapshot and writes it when the row is no longer locked.                *)
(***************************************************************************)
EXTENDS Integers, FiniteSets

CONSTANTS
    Procs,           \* requests under way
    Names, Phones,   \* texts that pass the checks
    Empty,           \* the empty text, also that of a missing field
    Malformed,       \* a text that no check accepts
    Absent,          \* a null pointer of an update
    Calls,           \* the requests of clients
    NoCall,
    PageSize,        \* the limit of a client that lists couriers by pages
    MaxId            \* bound on the ids drawn

Statuses == {"available", "busy", "paused"}
Transports == {"on_foot", "scooter", "car"}
Fields == {"name", "phone", "status", "transport"}
Ids == 1..MaxId

\* CourierStatus.Valid, CourierTransportType.Valid, ValidatePhone, a name that is not blank.
Legal == [name |-> Names, phone |-> Phones, status |-> Statuses, transport |-> Transports]

Texts == Names \cup Phones \cup Statuses \cup Transports \cup {Empty, Malformed}
Bodies == [Fields -> Texts \cup {Absent}]
Ops == {"get", "create", "update"}

\* A request; text tells whether its body (or the id of its address) can be read.
CallType == [op : Ops, text : {"ok", "garbage", "large"}, id : Int, body : Bodies]

ASSUME CallsAssumption ==
    /\ Calls \subseteq CallType /\ NoCall \notin Calls
    /\ \A c \in Calls : /\ c.op = "create" => \A f \in Fields : c.body[f] # Absent
                        /\ c.op = "get" => c.text # "large"
ASSUME TextsAssumption ==
    \A f \in Fields : {Empty, Malformed, Absent} \cap Legal[f] = {}
ASSUME AbsentAssumption == Absent # Empty /\ Absent # Malformed
ASSUME BoundsAssumption == MaxId \in Nat /\ PageSize \in Nat \ {0}

Results == {"ok", "invalid", "conflict", "notfound", "garbage", "large", "error"}
Codes == {200, 201, 400, 404, 409, 413, 500}

VARIABLES
    couriers,    \* the table: rows by id
    lastId,      \* its sequence
    pc, call,    \* of each request: next step, contents
    row,         \* ... the id it has drawn
    result,      \* ... what the use case returned
    promised,    \* ... the codes that were right at some moment of it, a history
    walk, offset, owed  \* a client listing by pages: its place, whom it has still to see

table == <<couriers, lastId>>
request == <<pc, call, row, result, promised>>
client == <<walk, offset, owed>>
vars == <<table, request, client>>

Rows == [Fields -> Texts \cup {Absent}]

TypeOK ==
    /\ lastId \in 0..MaxId
    /\ DOMAIN couriers \subseteq 1..lastId
    /\ \A i \in DOMAIN couriers : couriers[i] \in Rows
    /\ pc \in [Procs -> {"idle", "select", "nextval", "insert", "find", "update", "answer"}]
    /\ call \in [Procs -> Calls \cup {NoCall}]
    /\ row \in [Procs -> 0..lastId]
    /\ result \in [Procs -> Results]
    /\ promised \in [Procs -> SUBSET Codes]
    /\ walk \in {"none", "on", "over"} /\ offset \in Nat
    /\ owed \subseteq Ids

Init ==
    /\ couriers = <<>> /\ lastId = 0
    /\ pc = [p \in Procs |-> "idle"]
    /\ call = [p \in Procs |-> NoCall]
    /\ row = [p \in Procs |-> 0]
    /\ result = [p \in Procs |-> "ok"]
    /\ promised = [p \in Procs |-> {}]
    /\ walk = "none" /\ offset = 0 /\ owed = {}
-----------------------------------------------------------------------------
(* The checks of the service.                                              *)

\* validateCreate gives a courier without transport the default ...
WithDefaults(b) == IF b["transport"] = Empty THEN [b EXCEPT !["transport"] = "on_foot"] ELSE b

\* ... and refuses it if a field is not legal.
CreateRefused(c) == \E f \in Fields : WithDefaults(c.body)[f] \notin Legal[f]

\* Mutant: an empty text is taken for a field that is absent.
UpdateRefusedUnlessEmpty(c) ==
    \/ c.id <= 0
    \/ \A f \in Fields : c.body[f] = Absent
    \/ \E f \in Fields : c.body[f] \notin {Absent, Empty} /\ c.body[f] \notin Legal[f]

\* validateUpdate: a positive id, at least one field, and those given legal.
UpdateRefused(c) ==
    \/ c.id <= 0
    \/ \A f \in Fields : c.body[f] = Absent
    \/ \E f \in Fields : c.body[f] # Absent /\ c.body[f] \notin Legal[f]

Refused(c) ==
    \/ c.op = "get" /\ c.id <= 0
    \/ c.op = "create" /\ CreateRefused(c)
    \/ c.op = "update" /\ UpdateRefused(c)

FirstStatement == [get |-> "select", create |-> "nextval", update |-> "find"]

(* The answer: errors.Is picks the code, what no case names is a 500.      *)
Mapped == [get |-> [ok |-> 200, garbage |-> 400, invalid |-> 400, notfound |-> 404],
           create |-> [ok |-> 201, garbage |-> 400, large |-> 413, invalid |-> 400, conflict |-> 409],
           update |-> [ok |-> 200, garbage |-> 400, large |-> 413, invalid |-> 400,
                       conflict |-> 409, notfound |-> 404]]

\* Mutant: the handler of PUT does not know the conflict.
CodeNoConflict(op, r) ==
    IF r \in DOMAIN Mapped[op] \ (IF op = "update" THEN {"conflict"} ELSE {})
      THEN Mapped[op][r] ELSE 500

Code(op, r) == IF r \in DOMAIN Mapped[op] THEN Mapped[op][r] ELSE 500
-----------------------------------------------------------------------------
(* What the API answers if the request meets this table: the codes in the  *)
(* descriptions of the handlers, and 413, which only the code has.         *)

Taken(t, f, others) == \E i \in DOMAIN t \cap others : t[i]["phone"] = f

PromisedCreate(t, b) ==
    LET asked == WithDefaults(b) IN
    IF \E f \in Fields : asked[f] \notin Legal[f] THEN 400
    ELSE IF Taken(t, b["phone"], Ids) THEN 409 ELSE 201

PromisedUpdate(t, i, b) ==
    LET given == {f \in Fields : b[f] # Absent} IN
    IF i \notin Nat \ {0} \/ given = {} \/ \E f \in given : b[f] \notin Legal[f] THEN 400
    ELSE IF i \notin DOMAIN t THEN 404
    ELSE IF Taken(t, b["phone"], Ids \ {i}) THEN 409 ELSE 200

Promised(t, c) ==
    IF c.text = "garbage" THEN 400
    ELSE IF c.text = "large" THEN 413
    ELSE IF c.op = "create" THEN PromisedCreate(t, c.body)
    ELSE IF c.op = "update" THEN PromisedUpdate(t, c.id, c.body)
    ELSE IF c.id \notin Nat \ {0} THEN 400
    ELSE IF c.id \in DOMAIN t THEN 200 ELSE 404

UnderWay(p) == pc[p] \notin {"idle", "answer"}

\* What request q is promised once the table is t.
Noted(q, t) == IF UnderWay(q) THEN promised[q] \cup {Promised(t, call[q])} ELSE promised[q]
-----------------------------------------------------------------------------
At(p, s) == pc[p] = s
Go(p, s) == pc' = [pc EXCEPT ![p] = s]
Conclude(p, r) == Go(p, "answer") /\ result' = [result EXCEPT ![p] = r]

\* The handler reads the request and the service checks it ...
Receive(p, c) ==
    /\ At(p, "idle")
    /\ call' = [call EXCEPT ![p] = c]
    /\ promised' = [promised EXCEPT ![p] = {Promised(couriers, c)}]
    /\ UNCHANGED <<table, row, client>>

\* ... which ends here, before any statement, ...
Refuse(p, c) ==
    /\ Receive(p, c)
    /\ \/ c.text # "ok" /\ Conclude(p, c.text)
       \/ c.text = "ok" /\ Refused(c) /\ Conclude(p, "invalid")

\* ... or goes on to the repository.
Accept(p, c) ==
    /\ Receive(p, c)
    /\ c.text = "ok" /\ ~Refused(c)
    /\ Go(p, FirstStatement[c.op])
    /\ UNCHANGED result

\* CourierRepo.Get.
Select(p) ==
    /\ At(p, "select")
    /\ Conclude(p, IF call[p].id \in DOMAIN couriers THEN "ok" ELSE "notfound")
    /\ UNCHANGED <<table, call, row, promised, client>>

\* Mutant: the id is the highest of the table plus one.
NextValUndrawn(p) ==
    /\ At(p, "nextval") /\ lastId < MaxId
    /\ row' = [row EXCEPT ![p] = lastId + 1]
    /\ Go(p, "insert")
    /\ UNCHANGED <<table, call, result, promised, client>>

\* CourierRepo.Create: the id is drawn, whatever becomes of the row.
NextVal(p) ==
    /\ At(p, "nextval") /\ lastId < MaxId
    /\ lastId' = lastId + 1
    /\ row' = [row EXCEPT ![p] = lastId + 1]
    /\ Go(p, "insert")
    /\ UNCHANGED <<couriers, call, result, promised, client>>

Stored(i, r) == [j \in DOMAIN couriers \cup {i} |-> IF j = i THEN r ELSE couriers[j]]

\* A statement changes the table; its answer may be lost.
Written(p, t) ==
    /\ couriers' = t
    /\ \E lost \in BOOLEAN :
         /\ Conclude(p, IF lost THEN "error" ELSE "ok")
         /\ promised' = [q \in Procs |-> IF q # p THEN Noted(q, t)
                                        ELSE IF lost THEN promised[p] \cup {500} ELSE promised[p]]

Insert(p) ==
    /\ At(p, "insert")
    /\ ~Taken(couriers, call[p].body["phone"], Ids)
    /\ Written(p, Stored(row[p], WithDefaults(call[p].body)))
    /\ UNCHANGED <<lastId, call, row, client>>

\* The unique constraint of couriers.phone, which IsDuplicate recognises.
InsertDuplicate(p) ==
    /\ At(p, "insert")
    /\ Taken(couriers, call[p].body["phone"], Ids)
    /\ Conclude(p, "conflict")
    /\ UNCHANGED <<table, call, row, promised, client>>

\* CourierRepo.UpdatePartial: the row is looked for in the statement's snapshot, ...
Find(p) ==
    /\ At(p, "find") /\ call[p].id \in DOMAIN couriers
    /\ Go(p, "update")
    /\ UNCHANGED <<table, call, row, result, promised, client>>

FindNothing(p) ==
    /\ At(p, "find") /\ call[p].id \notin DOMAIN couriers
    /\ Conclude(p, "notfound")
    /\ UNCHANGED <<table, call, row, promised, client>>

\* Mutant: the statement sets every column but the transport.
MergeForgetful(old, b) == [f \in Fields |-> IF b[f] = Absent \/ f = "transport" THEN old[f] ELSE b[f]]

\* ... and COALESCE evaluated on the row as it is once its lock is granted.
Merge(old, b) == [f \in Fields |-> IF b[f] = Absent THEN old[f] ELSE b[f]]

Update(p) ==
    /\ At(p, "update")
    /\ ~Taken(couriers, call[p].body["phone"], Ids \ {call[p].id})
    /\ Written(p, Stored(call[p].id, Merge(couriers[call[p].id], call[p].body)))
    /\ UNCHANGED <<lastId, call, row, client>>

UpdateDuplicate(p) ==
    /\ At(p, "update")
    /\ Taken(couriers, call[p].body["phone"], Ids \ {call[p].id})
    /\ Conclude(p, "conflict")
    /\ UNCHANGED <<table, call, row, promised, client>>

\* A statement fails without effect: the operation's three seconds, the connection.
Fail(p) ==
    /\ UnderWay(p)
    /\ Conclude(p, "error")
    /\ promised' = [promised EXCEPT ![p] = @ \cup {500}]
    /\ UNCHANGED <<table, call, row, client>>

Answer(p) ==
    /\ At(p, "answer")
    /\ Go(p, "idle")
    /\ call' = [call EXCEPT ![p] = NoCall]
    /\ row' = [row EXCEPT ![p] = 0]
    /\ result' = [result EXCEPT ![p] = "ok"]
    /\ promised' = [promised EXCEPT ![p] = {}]
    /\ UNCHANGED <<table, client>>

\* The delivery use cases write the status of couriers (module Delivery).
UpdateCourierStatus(i, s) ==
    /\ i \in DOMAIN couriers /\ couriers[i]["status"] # s
    /\ couriers' = Stored(i, [couriers[i] EXCEPT !["status"] = s])
    /\ promised' = [q \in Procs |-> Noted(q, couriers')]
    /\ UNCHANGED <<lastId, pc, call, row, result, client>>
-----------------------------------------------------------------------------
(* GET /couriers, and a client that walks through all pages.               *)

\* Mutant: ORDER BY status, id.
PrecedesByStatus(i, j) ==
    \/ couriers[i]["status"] = "available" /\ couriers[j]["status"] = "busy"
    \/ couriers[i]["status"] = couriers[j]["status"] /\ i < j

Precedes(i, j) == i < j    \* ORDER BY id
Rank(i) == Cardinality({j \in DOMAIN couriers : Precedes(j, i)})

\* CourierRepo.List: LIMIT and OFFSET.
List(limit, from) == {i \in DOMAIN couriers : from <= Rank(i) /\ Rank(i) < from + limit}

StartWalk ==
    /\ walk = "none"
    /\ walk' = "on" /\ owed' = DOMAIN couriers
    /\ UNCHANGED <<table, request, offset>>

\* It asks for the next page until one is not full.
NextPage ==
    /\ walk = "on"
    /\ LET page == List(PageSize, offset) IN
         /\ owed' = owed \ page
         /\ IF Cardinality(page) = PageSize
              THEN walk' = "on" /\ offset' = offset + PageSize
              ELSE walk' = "over" /\ offset' = 0
    /\ UNCHANGED <<table, request>>

EndWalk ==
    /\ walk = "over"
    /\ walk' = "none" /\ owed' = {}
    /\ UNCHANGED <<table, request, offset>>

Step(p) ==
    \/ \E c \in Calls : Refuse(p, c) \/ Accept(p, c)
    \/ Select(p) \/ NextVal(p) \/ Insert(p) \/ InsertDuplicate(p)
    \/ Find(p) \/ FindNothing(p) \/ Update(p) \/ UpdateDuplicate(p)
    \/ Fail(p) \/ Answer(p)

Next ==
    \/ \E p \in Procs : Step(p)
    \/ \E i \in Ids, s \in {"available", "busy"} : UpdateCourierStatus(i, s)
    \/ StartWalk \/ NextPage \/ EndWalk

Spec == Init /\ [][Next]_vars
-----------------------------------------------------------------------------
(* Every row of the table has legal fields, the default transport filled   *)
(* in, and no phone is there twice: creations and partial updates of       *)
(* several requests, checked one by one, leave a table that is legal as a  *)
(* whole.                                                                  *)
TableIsSound ==
    /\ \A i \in DOMAIN couriers, f \in Fields : couriers[i][f] \in Legal[f]
    /\ \A i, j \in DOMAIN couriers : couriers[i]["phone"] = couriers[j]["phone"] => i = j

(* The code of an answer is one that the operation by itself would have    *)
(* given at some moment between request and answer, or 500 if a statement  *)
(* failed: conflicts and missing couriers are not reported from thin air   *)
(* nor under a wrong code, whatever other requests did meanwhile.          *)
AnswersTruthful ==
    \A p \in Procs : At(p, "answer") => Code(call[p].op, result[p]) \in promised[p]

(* No lost update: a courier stays, and a field changes only to the value  *)
(* that an update under way asks for, or as the status of a delivery; an   *)
(* update never writes back a field that it read or was not given.         *)
OnlyAskedFields ==
    [][\A i \in DOMAIN couriers :
          /\ i \in DOMAIN couriers'
          /\ \A f \in Fields : couriers'[i][f] # couriers[i][f] =>
                \/ f = "status" /\ couriers'[i][f] \in {"available", "busy"}
                \/ \E p \in Procs : /\ At(p, "update") /\ call[p].id = i
                                    /\ call[p].body[f] = couriers'[i][f]]_vars

(* A client that lists page after page sees every courier who was there    *)
(* when it began, although couriers are created and change their status    *)
(* between its requests, and ids appear out of order.                      *)
WalkMissesNobody == walk = "over" => owed = {}

\* The code of a request, once its last statement has run or none has to.
AnswerCodes == [p \in Procs |-> IF At(p, "answer") THEN Code(call[p].op, result[p]) ELSE 0]

Directory == INSTANCE CourierDirectory WITH Clients <- Procs, asked <- call, code <- AnswerCodes

(* Requests are served as if one by one: the checks, the draw of an id, the *)
(* search for a row and its change, each at its time, are to clients one   *)
(* step, whose code tells what it did; 500 means all of it or nothing.     *)
ImplementsDirectory == Directory!Spec
=============================================================================
