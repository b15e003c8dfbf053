----------------------------- MODULE MCEpochChange -----------------------------
(* Small instances of EpochChange for TLC.                                     *)
EXTENDS EpochChange

\* Both sides of every conversion for a modulus of 8: a negative number, the
\* largest int32, a positive number int32 turns negative, and the first that wrap.
MCNumber == {-1, 0, 2, 3, 6, 8, 10}
===============================================================================
