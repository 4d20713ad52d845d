----------------------------- MODULE MCCouriers -----------------------------
(* An instance of Couriers for TLC. *)
EXTENDS Couriers, TLC

CONSTANTS p1, p2, n1, f1, f2

Body(n, f, s, t) == [name |-> n, phone |-> f, status |-> s, transport |-> t]
NoBody == Body(Absent, Absent, Absent, Absent)
Request(op, text, id, b) == [op |-> op, text |-> text, id |-> id, body |-> b]

\* Creations and updates that pass the checks, ...
Creations == {Body(n1, f, "busy", Empty) : f \in Phones}
Changes == {[NoBody EXCEPT !["status"] = "available"], [NoBody EXCEPT !["phone"] = f2]}
Exchange == Body(n1, f1, Absent, "car")

\* ... and at least one request that each rule refuses.
BadCreations == {Body(Malformed, f1, "busy", "car"), Body(n1, Empty, "busy", "car"),
                 Body(n1, f1, Malformed, "car"), Body(n1, f1, "busy", Malformed)}
BadChanges == {NoBody, [NoBody EXCEPT !["transport"] = Empty]}
              \cup {[NoBody EXCEPT ![x] = Malformed] : x \in Fields}

SomeCalls ==
    {Request("create", "ok", 0, b) : b \in Creations \cup BadCreations}
    \cup {Request("update", "ok", 1, b) : b \in Changes \cup BadChanges}
    \cup {Request("update", "ok", 2, Exchange)}
    \cup {Request("update", "ok", 0, Body(n1, Absent, Absent, Absent))}
    \cup {Request("get", "ok", i, NoBody) : i \in 0..1}
    \cup {Request(op, "garbage", 0, IF op = "create" THEN Body(n1, f1, "busy", "car") ELSE NoBody) : op \in Ops}
    \cup {Request("update", "large", 0, NoBody)}

CourierSymmetry == Permutations({p1, p2})
=============================================================================
