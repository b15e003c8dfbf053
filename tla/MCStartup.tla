-------------------------------- MODULE MCStartup ------------------------------
(* The instances of Startup for TLC: two options, a default file, one named like *)
(* it and one that is not; files with nothing, one option, both, one twice, a    *)
(* value that cannot be assigned, and one that is no file.                       *)
EXTENDS Startup

Sets(o, v) == [option |-> o, value |-> v]

MCFile == {"default", "likeDefault", "user"}
MCArgument == {<<"default">>, <<"user">>, <<"user", "likeDefault">>,
               <<"user", "likeDefault", "user">>}
MCContent == {Unreadable, <<>>, <<Sets("a", 1)>>, <<Sets("a", 2), Sets("b", 1)>>,
              <<Sets("b", 2), Sets("b", 1)>>, <<Sets("a", 1), Sets("b", 9)>>}
MCOwn == [o \in {"a", "b"} |-> 0]
MCNumber == {0, 1, 8}
MCNodePort == [s \in {0, 1} |-> 20 + s]
MCFileObserver == {[shard |-> 0, port |-> 30]}
MCOldPem == {<<>>, <<"k1">>, <<"k1", "k2", "k3">>}

\* One start that comes as far as the faucet.
MCOneArgument == {<<"user">>}
MCOneContent == {<<Sets("a", 1)>>}
===============================================================================
