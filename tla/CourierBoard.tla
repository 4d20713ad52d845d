---------------------------- MODULE CourierBoard ----------------------------
(***************************************************************************)
(* What the delivery service promises when every order is cancelled by one *)
(* caller only, who shares it with callers who assign it at most: a board  *)
(* of assignments on which every operation is one step.                    *)
(*                                                                         *)
(* A courier on the board may be available: a completed or overdue order   *)
(* stays on the board until it is cancelled, its courier works on.         *)
(***************************************************************************)
CONSTANTS
    Couriers, Orders,
    AdminStatuses   \* what an administrator sets

VARIABLES
    status,   \* of each courier
    board     \* the pairs <<courier, order>> assigned and not cancelled

Init ==
    /\ status \in [Couriers -> {"available", "paused"}]
    /\ board = {}

\* An order not on the board goes to a courier who is available.
Assign(c, o) ==
    /\ status[c] = "available"
    /\ \A d \in Couriers : <<d, o>> \notin board
    /\ board' = board \cup {<<c, o>>}
    /\ status' = [status EXCEPT ![c] = "busy"]

\* Cancelling an order frees the courier it was assigned to.
Unassign(c, o) ==
    /\ <<c, o>> \in board
    /\ board' = board \ {<<c, o>>}
    /\ status' = [status EXCEPT ![c] = "available"]

\* Completing an order frees the courier it was assigned to.
Complete(c) ==
    /\ \E o \in Orders : <<c, o>> \in board
    /\ status' = [status EXCEPT ![c] = "available"]
    /\ UNCHANGED board

\* The auto-release frees, at once, a set of busy couriers who have orders.
Release(S) ==
    /\ \A c \in S : status[c] = "busy" /\ \E o \in Orders : <<c, o>> \in board
    /\ status' = [c \in Couriers |-> IF c \in S THEN "available" ELSE status[c]]
    /\ UNCHANGED board

\* PUT /courier.
SetStatus(c, s) ==
    /\ status' = [status EXCEPT ![c] = s]
    /\ UNCHANGED board

Next ==
    \/ \E c \in Couriers, o \in Orders : Assign(c, o) \/ Unassign(c, o)
    \/ \E c \in Couriers : Complete(c)
    \/ \E S \in SUBSET Couriers : Release(S)
    \/ \E c \in Couriers, s \in AdminStatuses : SetStatus(c, s)

Spec == Init /\ [][Next]_<<status, board>>
=============================================================================
