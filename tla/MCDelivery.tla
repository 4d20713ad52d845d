----------------------------- MODULE MCDelivery -----------------------------
(* Instances of Delivery for TLC. *)
EXTENDS Delivery, TLC

CONSTANTS http, kafka, kafka2, releaser, o1, o2

\* A car, whose deliveries expire after one unit of time, and a pedestrian,
\* whose deliveries do not expire within MaxTime.
CarAndFoot == [c \in Couriers |-> IF c = 1 THEN "car" ELSE "on_foot"]
AllCars == [c \in Couriers |-> "car"]

\* An HTTP handler and a Kafka partition that may touch the same orders.
SharedMay == [p \in Procs |-> CASE p = http -> {"assign", "unassign"}
                                [] p = kafka -> {"assign", "unassign", "complete"}
                                [] p = releaser -> {"release"}]
SharedServes == [p \in Procs |-> CASE p = http -> Orders \cup {NoOrder}
                                   [] p = kafka -> Orders
                                   [] p = releaser -> {}]

\* Events only, each order in one partition.
PartitionMay == kafka :> {"assign", "unassign", "complete"}
             @@ kafka2 :> {"assign", "unassign", "complete"}
             @@ releaser :> {"release"}
PartitionServes == kafka :> {o1} @@ kafka2 :> {o2} @@ releaser :> {}

OrderSymmetry == Permutations({o1, o2})
=============================================================================
