---------------------------- MODULE MCOciPublish ----------------------------
(* Two lookups in the repository of one extension, from machines of two     *)
(* base releases, and one in a repository nothing is published to.          *)
EXTENDS OciPublish

MCLookup == {"l1", "l2", "l3"}
MCRepo == [l \in MCLookup |-> IF l = "l3" THEN "amqp" ELSE "redis"]
MCCell == [ts : {"nts", "zts"}, base : 1..2]
NTS(n) == [ts |-> "nts", base |-> n]
ZTS(n) == [ts |-> "zts", base |-> n]
MCWanted == [l \in MCLookup |-> IF l = "l2" THEN NTS(2) ELSE NTS(1)]
MCMatrix == [r \in {"amqp", "redis"} |-> IF r = "redis" THEN {"nts"} ELSE {}]

Published(d, m, c) == [descriptor |-> d, manifest |-> m, builtFor |-> c,
                       builtOn |-> c, run |-> 0]

\* Nothing; or an annotated manifest behind a bare descriptor, and after it an
\* annotation that is not true any longer.
MCIndexes ==
  [r \in {"amqp", "redis"} |->
     IF r = "amqp" THEN {<<>>}
     ELSE {<<>>, <<Published(NoCell, NTS(1), NTS(1)),
                   Published(NTS(2), ZTS(1), ZTS(1))>>}]
=============================================================================
