---------------------------- MODULE MCAccountState -----------------------------
(* Small instances of AccountState for TLC.                                    *)
EXTENDS AccountState, TLC

CONSTANTS a1, a2

\* One account, two in either order, and one account twice.
MCSlice == {<<a1>>, <<a1, a2>>, <<a2, a1>>, <<a1, a1>>}

MCTwo == {<<a1, a2>>}

Symmetry == Permutations(Request)
===============================================================================
