-------------------------- MODULE CourierDirectory --------------------------
(***************************************************************************)
(* What the operations on couriers promise their clients: a directory on   *)
(* which every request takes effect at one moment between its arrival and  *)
(* its answer, as if nobody else were served, and is answered with the     *)
(* code of what it met at that moment.                                     *)
(*                                                                         *)
(* A request that is answered 500 has had its whole effect or none.        *)
(***************************************************************************)
EXTENDS Integers

CONSTANTS
    Clients, Calls, NoCall,
    Ids, Fields,
    Legal,           \* the texts that each field may have
    Empty, Absent    \* a missing field of a creation, of an update

VARIABLES
    couriers,   \* the rows by id
    asked,      \* of each client: its request
    code        \* ... the code it is answered with, 0 while it waits

vars == <<couriers, asked, code>>

Init ==
    /\ couriers = <<>>
    /\ asked = [p \in Clients |-> NoCall]
    /\ code = [p \in Clients |-> 0]

\* The row of a new courier: who names no transport goes on foot.
NewRow(b) == [b EXCEPT !["transport"] = IF @ = Empty THEN "on_foot" ELSE @]

Changed(row, b) == [f \in Fields |-> IF b[f] = Absent THEN row[f] ELSE b[f]]

Given(b) == {f \in Fields : b[f] # Absent}

\* A request that can be read, about an id that can be, with legal fields only.
Legitimate(c) ==
    /\ c.text = "ok"
    /\ c.op # "create" => c.id > 0
    /\ c.op = "create" => \A f \in Fields : NewRow(c.body)[f] \in Legal[f]
    /\ c.op = "update" => Given(c.body) # {} /\ \A f \in Given(c.body) : c.body[f] \in Legal[f]

With(i, row) == [j \in DOMAIN couriers \cup {i} |-> IF j = i THEN row ELSE couriers[j]]

HasPhone(f, i) == couriers[i]["phone"] = f

\* The tables and codes that a request may leave when it is served alone.
Outcomes(c) ==
    CASE c.op = "get" -> {<<couriers, IF c.id \in DOMAIN couriers THEN 200 ELSE 404>>}
      [] c.op = "create" ->
           IF \E i \in DOMAIN couriers : HasPhone(c.body["phone"], i)
             THEN {<<couriers, 409>>}
             ELSE {<<With(i, NewRow(c.body)), 201>> : i \in Ids \ DOMAIN couriers}
      [] c.op = "update" ->
           IF c.id \notin DOMAIN couriers THEN {<<couriers, 404>>}
           ELSE IF \E i \in DOMAIN couriers \ {c.id} : HasPhone(c.body["phone"], i)
             THEN {<<couriers, 409>>}
             ELSE {<<With(c.id, Changed(couriers[c.id], c.body)), 200>>}
-----------------------------------------------------------------------------
Ask(p, c) ==
    /\ asked[p] = NoCall
    /\ asked' = [asked EXCEPT ![p] = c]
    /\ Legitimate(c)
    /\ UNCHANGED <<couriers, code>>

\* What is not legitimate is answered without being served.
Reject(p, c) ==
    /\ asked[p] = NoCall
    /\ asked' = [asked EXCEPT ![p] = c]
    /\ ~Legitimate(c)
    /\ code' = [code EXCEPT ![p] = IF c.text = "large" THEN 413 ELSE 400]
    /\ UNCHANGED couriers

Waits(p) == asked[p] # NoCall /\ code[p] = 0

\* The moment of a request; the code may be lost.
Serve(p) ==
    /\ Waits(p)
    /\ UNCHANGED asked
    /\ \E o \in Outcomes(asked[p]), lost \in BOOLEAN :
         /\ couriers' = o[1]
         /\ code' = [code EXCEPT ![p] = IF lost THEN 500 ELSE o[2]]

Break(p) ==
    /\ Waits(p)
    /\ code' = [code EXCEPT ![p] = 500]
    /\ UNCHANGED <<couriers, asked>>

Reply(p) ==
    /\ code[p] # 0
    /\ asked' = [asked EXCEPT ![p] = NoCall]
    /\ code' = [code EXCEPT ![p] = 0]
    /\ UNCHANGED couriers

\* Deliveries engage couriers and free them.
SetStatus(i, s) ==
    /\ i \in DOMAIN couriers
    /\ couriers' = With(i, [couriers[i] EXCEPT !["status"] = s])
    /\ UNCHANGED <<asked, code>>

Next ==
    \/ \E p \in Clients : Serve(p) \/ Break(p) \/ Reply(p) \/ \E c \in Calls : Ask(p, c) \/ Reject(p, c)
    \/ \E i \in Ids, s \in {"available", "busy"} : SetStatus(i, s)

Spec == Init /\ [][Next]_vars
=============================================================================
