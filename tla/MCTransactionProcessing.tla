------------------------ MODULE MCTransactionProcessing ------------------------
(* Small instances of TransactionProcessing for TLC.                           *)
EXTENDS TransactionProcessing

\* A negative limit, none, one block, and as many as the slowest transaction needs.
MCNumber == {-1, 0, 1, 3}

\* Clients that allow some blocks.
MCPositive == {1, 2}
===============================================================================
