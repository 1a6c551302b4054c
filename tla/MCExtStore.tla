----------------------------- MODULE MCExtStore -----------------------------
(* Small stores for TLC.                                                    *)
EXTENDS ExtStore

\* Two packages built with phpize, and one extension bundled with PHP.
Apcu == [name |-> "apcu", ext |-> "apcu", prio |-> 80, bundled |-> FALSE]
Redis == [name |-> "redis", ext |-> "redis", prio |-> 80, bundled |-> FALSE]
Gd == [name |-> "gd", ext |-> "gd", prio |-> 20, bundled |-> TRUE]

\* The same extension from a release with another priority.
ApcuEarly == [Apcu EXCEPT !.name = "apcu-early", !.prio = 60]

MCExt == {"apcu", "redis", "gd"}
MCPeclExt == {"apcu", "redis"}
MCPkg == {Apcu, Redis, Gd}
MCTwoPriorities == {Apcu, ApcuEarly}

MCParallel == {[jobs |-> 2, prebuilts |-> TRUE]}
MCSequential == {[jobs |-> 1, prebuilts |-> TRUE]}
=============================================================================
