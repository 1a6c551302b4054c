--------------------------- MODULE BatchSchedule ---------------------------
(***************************************************************************)
(* What RunInstall promises about the order in which a batch is worked on, *)
(* whatever the lookups, packages and builds do: every argument is settled *)
(* once, the ones that must run alone run alone and first, and at most     *)
(* `width` of the others run at once.                                      *)
(***************************************************************************)
EXTENDS Naturals, FiniteSets

VARIABLES
  alone,   \* the arguments that share the PHP source tree or the terminal
  width,   \* how many of the others may run at once
  st       \* st[i]: what has become of argument i

vars == <<alone, width, st>>
Running == {i \in DOMAIN st : st[i] = "running"}

Init == st = [i \in DOMAIN st |-> "queued"]

\* Arguments are refused before any of the batch has started.
Reject(i) ==
  /\ \A j \in DOMAIN st : st[j] \in {"queued", "failed"}
  /\ st[i] = "queued"
  /\ st' = [st EXCEPT ![i] = "failed"]

Start(i) ==
  /\ st[i] = "queued"
  /\ IF i \in alone
     THEN Running = {}
     ELSE /\ \A j \in alone : st[j] \in {"ok", "failed"}
          /\ Cardinality(Running) < width
  /\ st' = [st EXCEPT ![i] = "running"]

Settle(i) ==
  /\ st[i] = "running"
  /\ \E r \in {"ok", "failed"} : st' = [st EXCEPT ![i] = r]

Next ==
  /\ \E i \in DOMAIN st : Reject(i) \/ Start(i) \/ Settle(i)
  /\ UNCHANGED <<alone, width>>

Spec == Init /\ [][Next]_vars
=============================================================================
