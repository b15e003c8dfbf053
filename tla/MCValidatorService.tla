--------------------------- MODULE MCValidatorService --------------------------
(* The instance of ValidatorService for TLC: two requests; lists of keys with a  *)
(* text that cannot be decoded before and behind a key; two shards, of which one *)
(* may have an interface without a port.                                         *)
EXTENDS ValidatorService

MCBatch == {<<"k1">>, <<"k1", "k2">>, <<"k1", "bad">>, <<"bad", "k2">>}
MCNumber == {0, 1, 2}
MCInterface == {[s \in {0, 1} |-> IF s = 1 THEN i ELSE "localhost:1"] : i \in {"localhost:2", "off"}}
================================================================================
