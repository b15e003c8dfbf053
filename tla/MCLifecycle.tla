------------------------------ MODULE MCLifecycle ------------------------------
(* The instance of Lifecycle for TLC, with 4-bit durations: block times that are *)
(* refused, fit, and overflow to a negative and to a positive duration.          *)
EXTENDS Lifecycle

MCBlockTime == {0, 1, 3, 6}
===============================================================================
