----------------------------- MODULE MCWorker ------------------------------
(* An instance of Worker for TLC. *)
EXTENDS Worker

CONSTANT p1

\* Configurations, some of which are refused at the start; with a base delay of
\* 4000 the second shift overflows.
SomeSettings == [MaxAttempts : {0, 1, 3, 4, 11}, BaseDelay : {0, 1, 2, 4000},
                 MaxDelay : {1, 3, 5, 4500}]
=============================================================================
