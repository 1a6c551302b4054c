---------------------------- MODULE ExtRegistry ----------------------------
(***************************************************************************)
(* What the extension store of gpie promises to the PHP that starts next: *)
(* a directive gpie wrote never names a module that is not there.          *)
(* Modules and directives are separate files, so no step changes both;     *)
(* the promise rests on the order of the steps: a module is put in place   *)
(* before its directive is, and taken away only after it.                  *)
(***************************************************************************)
CONSTANT Ext          \* the extension names

VARIABLES module,     \* extensions whose module file is in extension_dir
          directive   \* extensions named by a directive gpie owns

vars == <<module, directive>>

TypeOK ==
  /\ module \subseteq Ext
  /\ directive \subseteq Ext

Init ==
  /\ module = {}
  /\ directive = {}

\* A module is copied into extension_dir.
PutModule(e) ==
  /\ module' = module \cup {e}
  /\ UNCHANGED directive

\* An INI file is rewritten: any set of directives whose modules are in place.
SetDirectives(D) ==
  /\ D \subseteq module
  /\ directive' = D
  /\ UNCHANGED module

\* A module is deleted once no directive of gpie's names it.
RemoveModule(e) ==
  /\ e \notin directive
  /\ module' = module \ {e}
  /\ UNCHANGED directive

Next ==
  \/ \E e \in Ext : PutModule(e) \/ RemoveModule(e)
  \/ \E D \in SUBSET Ext : SetDirectives(D)

Spec == Init /\ [][Next]_vars
=============================================================================
