--------------------------- MODULE ExtStoreProofs ---------------------------
(***************************************************************************)
(* The promise of the extension store for any set of extensions and        *)
(* packages, any number of parallel installs and every fault: no directive *)
(* of gpie's names a missing module, and the store refines ExtRegistry.    *)
(* It needs one hypothesis: an extension keeps its priority.               *)
(***************************************************************************)
EXTENDS ExtStore, TLAPS

\* All packages that provide an extension declare the same priority.
SinglePriority == \A p, q \in Pkg : p.ext = q.ext => p.prio = q.prio

-----------------------------------------------------------------------------
(* The inductive invariant, in named parts.                                *)

\* Only one command runs, so an install never meets an uninstall.
OneCommand ==
  /\ cmd # "install" => \A p \in Pkg : pc[p] = "idle"
  /\ cmd # "uninstall" => upc = "idle"

\* A package past copySo has its module in place.
CopiedFirst ==
  \A p \in Pkg :
    pc[p] \in {"check", "replace", "fill", "read", "append", "trunc", "write",
               "verify"} => p.ext \in Modules

\* The scan directory decides which kind of file is written, for all commands.
OneKindOfFile ==
  /\ HasScanDir => Blocks(ini) = {}
  /\ ~HasScanDir => \A e \in Ext : scan[e] = {}
  /\ \A p \in Pkg :
       /\ pc[p] \in {"replace", "fill"} => HasScanDir
       /\ pc[p] \in {"read", "append", "trunc", "write"} =>
            ~HasScanDir /\ HasPhpIni
  /\ \A e \in Ext :
       /\ managed[e].kind = "scan" => HasScanDir
       /\ managed[e].kind = "php.ini" => ~HasScanDir /\ HasPhpIni

\* Every dedicated file of an extension is the one its packages agree on.
OneDedicatedFile ==
  \A p \in Pkg :
    /\ scan[p.ext] \subseteq {p.prio}
    /\ managed[p.ext].kind = "scan" => managed[p.ext].prio = p.prio

\* An extension no package provides never gets a directive.
Provided(e) == \E p \in Pkg : p.ext = e
NoStrangers ==
  \A e \in Ext : ~Provided(e) =>
    /\ scan[e] = {}
    /\ managed[e].kind # "scan"

\* What is about to be written over php.ini names present modules only.
SnapshotsHaveModules ==
  /\ \A p \in Pkg : pc[p] \in {"trunc", "write"} =>
       Blocks(snap[p]) \subseteq Modules
  /\ upc \in {"trunc", "write"} =>
       /\ Blocks(usnap) \subseteq Modules
       /\ target \notin Blocks(usnap)
       /\ ~HasScanDir

\* An uninstall that is about to delete the module has disabled it.
DisabledFirst ==
  /\ upc \in {"read", "unlink"} => managed[target] # NoLoc
  /\ upc = "unlink" => managed[target].kind = "scan"
  /\ upc = "rm" => target \notin Directives

IInv ==
  /\ TypeOK
  /\ OneCommand
  /\ CopiedFirst
  /\ OneKindOfFile
  /\ OneDedicatedFile
  /\ NoStrangers
  /\ SnapshotsHaveModules
  /\ DisabledFirst
  /\ DirectivesHaveModules

-----------------------------------------------------------------------------
(* The operators on php.ini, and the steps every action shares.            *)

\* What the edits of php.ini do to the set of extensions it names.
LEMMA PhpIniOperators ==
  ASSUME NEW f \in PhpIni, NEW e \in Ext
  PROVE  /\ Truncated \in PhpIni /\ Blocks(Truncated) = {}
         /\ Strip(f, e) \in PhpIni /\ Blocks(Strip(f, e)) = Blocks(f) \ {e}
         /\ AppendBlock(f, e) \in PhpIni
         /\ Blocks(AppendBlock(f, e)) = Blocks(f) \cup {e}
<1>1. Truncated \in PhpIni /\ Blocks(Truncated) = {}
  BY DEF Truncated, PhpIni, Blocks
<1>2. Strip(f, e) \in PhpIni /\ Blocks(Strip(f, e)) = Blocks(f) \ {e}
  BY DEF Strip, PhpIni, Blocks
<1>3. AppendBlock(f, e) \in PhpIni
  BY DEF AppendBlock, PhpIni
<1>4. Blocks(AppendBlock(f, e)) = Blocks(f) \cup {e}
  BY DEF AppendBlock, PhpIni, Blocks
<1> QED
  BY <1>1, <1>2, <1>3, <1>4

\* An error leaves the package where one of its attempts starts or ends.
LEMMA FailMoves ==
  ASSUME TypeOK, NEW p \in Pkg, Fail(p)
  PROVE  /\ pc' \in [Pkg -> InstallPc]
         /\ attempt' \in [Pkg -> {"prebuilt", "source"}]
         /\ pc'[p] \in {"helper", "copy", "failed"}
         /\ \A q \in Pkg : q # p => pc'[q] = pc[q]
  BY DEF TypeOK, Fail, Goto, InstallPc

\* The empty store satisfies the invariant.
LEMMA InitEstablishesIInv == Init => IInv
<1> SUFFICES ASSUME Init PROVE IInv
  OBVIOUS
<1> USE DEF Init
<1>1. TypeOK
  <2>1. Truncated \in PhpIni /\ ini \in PhpIni
    BY ConfAssumption DEF Truncated, PhpIni
  <2> QED
    BY <2>1 DEF TypeOK, Module, InstallPc, UninstallPc, Loc, NoLoc
<1>2. OneCommand
  BY DEF OneCommand
<1>3. CopiedFirst
  BY DEF CopiedFirst
<1>4. OneKindOfFile
  BY DEF OneKindOfFile, Blocks, Truncated, NoLoc
<1>5. OneDedicatedFile /\ NoStrangers
  BY PkgAssumption DEF OneDedicatedFile, NoStrangers, NoLoc
<1>6. SnapshotsHaveModules /\ DisabledFirst
  BY DEF SnapshotsHaveModules, DisabledFirst
<1>7. DirectivesHaveModules
  BY DEF DirectivesHaveModules, Directives, Blocks, Truncated
<1> QED
  BY <1>1, <1>2, <1>3, <1>4, <1>5, <1>6, <1>7 DEF IInv

-----------------------------------------------------------------------------
(* Every action of an install keeps the invariant.                         *)

\* Taking a package from the batch: no file changes.
LEMMA BeginKeepsIInv ==
  ASSUME SinglePriority, IInv, NEW p \in Pkg, Begin(p)
  PROVE  IInv'
<1> USE DEF IInv, Begin, store, workers, removal
<1>1. TypeOK'
  <2>1. pc' \in [Pkg -> InstallPc]
    BY DEF TypeOK, Goto, InstallPc
  <2>2. attempt' \in [Pkg -> {"prebuilt", "source"}]
    BY DEF TypeOK
  <2>3. reported' \subseteq Ext
    BY DEF TypeOK
  <2> QED
    BY <2>1, <2>2, <2>3 DEF TypeOK
<1>2. OneCommand'
  BY DEF OneCommand
<1>3. CopiedFirst'
  BY DEF CopiedFirst, TypeOK, Modules, Goto
<1>4. OneKindOfFile'
  BY DEF OneKindOfFile, TypeOK, Goto
<1>5. OneDedicatedFile' /\ NoStrangers'
  BY DEF OneDedicatedFile, NoStrangers
<1>6. SnapshotsHaveModules'
  BY DEF SnapshotsHaveModules, TypeOK, Modules, OneKindOfFile, Goto
<1>7. DisabledFirst'
  BY DEF DisabledFirst, OneCommand
<1>8. DirectivesHaveModules'
  BY DEF DirectivesHaveModules, Modules, Directives
<1> QED
  BY <1>1, <1>2, <1>3, <1>4, <1>5, <1>6, <1>7, <1>8

\* A copy that succeeds, or fails half-way, takes no module away, and one that
\* succeeds puts the module of the package in place before its directive.
LEMMA CopySoKeepsIInv ==
  ASSUME SinglePriority, IInv, NEW p \in Pkg, CopySo(p)
  PROVE  IInv'
<1> USE DEF IInv, CopySo, store, workers, removal
<1>1. TypeOK'
  <2>1. pc' \in [Pkg -> InstallPc] /\ attempt' \in [Pkg -> {"prebuilt", "source"}]
    BY FailMoves DEF TypeOK, Goto, InstallPc
  <2>2. so' \in [Ext -> Module]
    BY DEF TypeOK, Module
  <2> QED
    BY <2>1, <2>2 DEF TypeOK
<1>2. OneCommand'
  BY DEF OneCommand
<1>3. CopiedFirst'
  BY FailMoves, PkgAssumption DEF CopiedFirst, TypeOK, Modules, Goto
<1>4. OneKindOfFile'
  BY FailMoves DEF OneKindOfFile, TypeOK, Goto
<1>5. OneDedicatedFile' /\ NoStrangers'
  BY DEF OneDedicatedFile, NoStrangers
<1>6. Modules \subseteq Modules' /\ Directives' = Directives
  BY DEF TypeOK, Modules, Directives
<1>7. SnapshotsHaveModules'
  BY <1>6, FailMoves DEF SnapshotsHaveModules, TypeOK, Goto
<1>8. DisabledFirst'
  BY DEF DisabledFirst, OneCommand
<1>9. DirectivesHaveModules'
  BY <1>6 DEF DirectivesHaveModules
<1> QED
  BY <1>1, <1>2, <1>3, <1>4, <1>5, <1>7, <1>8, <1>9

\* The load check only chooses the file that will be written.
LEMMA CheckLoadedKeepsIInv ==
  ASSUME SinglePriority, IInv, NEW p \in Pkg, CheckLoaded(p)
  PROVE  IInv'
<1> USE DEF IInv, CheckLoaded, store, workers, removal
<1>1. TypeOK'
  <2>1. pc' \in [Pkg -> InstallPc] /\ attempt' \in [Pkg -> {"prebuilt", "source"}]
    BY FailMoves DEF TypeOK, Goto, InstallPc
  <2>2. reported' \subseteq Ext
    BY PkgAssumption DEF TypeOK, Report
  <2> QED
    BY <2>1, <2>2 DEF TypeOK
<1>2. OneCommand'
  BY DEF OneCommand
<1>3. CopiedFirst'
  BY FailMoves DEF CopiedFirst, TypeOK, Modules, Goto
<1>4. OneKindOfFile'
  BY FailMoves DEF OneKindOfFile, TypeOK, Goto, NoIniLocation
<1>5. OneDedicatedFile' /\ NoStrangers'
  BY DEF OneDedicatedFile, NoStrangers
<1>6. SnapshotsHaveModules'
  BY FailMoves, PkgAssumption, PhpIniOperators, ZenonT(40)
  DEF SnapshotsHaveModules, TypeOK, Modules, Module, OneCommand,
      OneKindOfFile, DirectivesHaveModules, Directives, CopiedFirst, Goto
<1>7. DisabledFirst'
  BY DEF DisabledFirst, OneCommand
<1>8. DirectivesHaveModules'
  BY DEF DirectivesHaveModules, Modules, Directives
<1> QED
  BY <1>1, <1>2, <1>3, <1>4, <1>5, <1>6, <1>7, <1>8

\* Truncating a dedicated file takes a directive away.
LEMMA ReplaceIniKeepsIInv ==
  ASSUME SinglePriority, IInv, NEW p \in Pkg, ReplaceIni(p)
  PROVE  IInv'
<1> USE DEF IInv, ReplaceIni, store, workers, removal
<1>1. TypeOK'
  <2>1. pc' \in [Pkg -> InstallPc] /\ attempt' \in [Pkg -> {"prebuilt", "source"}]
    BY FailMoves DEF TypeOK, Goto, InstallPc
  <2>2. scan' \in [Ext -> SUBSET Nat]
    BY DEF TypeOK
  <2> QED
    BY <2>1, <2>2 DEF TypeOK
<1>2. OneCommand'
  BY DEF OneCommand
<1>3. CopiedFirst'
  BY FailMoves DEF CopiedFirst, TypeOK, Modules, Goto
<1>4. OneKindOfFile'
  BY FailMoves DEF OneKindOfFile, TypeOK, Goto
<1>5. OneDedicatedFile'
  BY PkgAssumption DEF OneDedicatedFile, TypeOK
<1>6. NoStrangers'
  BY DEF NoStrangers, TypeOK
<1>7. SnapshotsHaveModules'
  BY FailMoves, PkgAssumption, PhpIniOperators, ZenonT(40)
  DEF SnapshotsHaveModules, TypeOK, Modules, Module, OneCommand,
      OneKindOfFile, DirectivesHaveModules, Directives, CopiedFirst, Goto
<1>8. DisabledFirst'
  BY DEF DisabledFirst, OneCommand
<1>9. DirectivesHaveModules'
  BY FailMoves, PkgAssumption, PhpIniOperators, ZenonT(40)
  DEF DirectivesHaveModules, TypeOK, Modules, Module, CopiedFirst,
      OneKindOfFile, SnapshotsHaveModules, Directives, Goto
<1> QED
  BY <1>1, <1>2, <1>3, <1>4, <1>5, <1>6, <1>7, <1>8, <1>9

\* Filling a dedicated file adds the directive of a module that was copied
\* before; the file is the one the packages of the extension agree on.
LEMMA FillIniKeepsIInv ==
  ASSUME SinglePriority, IInv, NEW p \in Pkg, FillIni(p)
  PROVE  IInv'
<1> USE DEF IInv, FillIni, store, workers, removal
<1>1. TypeOK'
  <2>1. pc' \in [Pkg -> InstallPc] /\ attempt' \in [Pkg -> {"prebuilt", "source"}]
    BY FailMoves DEF TypeOK, Goto, InstallPc
  <2>2. scan' \in [Ext -> SUBSET Nat]
    BY PkgAssumption DEF TypeOK
  <2> QED
    BY <2>1, <2>2 DEF TypeOK
<1>2. OneCommand'
  BY DEF OneCommand
<1>3. CopiedFirst'
  BY FailMoves DEF CopiedFirst, TypeOK, Modules, Goto
<1>4. OneKindOfFile'
  BY FailMoves DEF OneKindOfFile, TypeOK, Goto
<1>5. OneDedicatedFile'
  BY PkgAssumption DEF OneDedicatedFile, TypeOK, SinglePriority
<1>6. NoStrangers'
  BY DEF NoStrangers, TypeOK, Provided
<1>7. SnapshotsHaveModules'
  BY FailMoves, PkgAssumption, PhpIniOperators, ZenonT(40)
  DEF SnapshotsHaveModules, TypeOK, Modules, Module, OneCommand,
      OneKindOfFile, DirectivesHaveModules, Directives, CopiedFirst, Goto
<1>8. DisabledFirst'
  BY DEF DisabledFirst, OneCommand
<1>9. DirectivesHaveModules'
  BY FailMoves, PkgAssumption, PhpIniOperators, ZenonT(40)
  DEF DirectivesHaveModules, TypeOK, Modules, Module, CopiedFirst,
      OneKindOfFile, SnapshotsHaveModules, Directives, Goto
<1> QED
  BY <1>1, <1>2, <1>3, <1>4, <1>5, <1>6, <1>7, <1>8, <1>9

\* What is read from php.ini names present modules, with the new block too.
LEMMA ReadPhpIniKeepsIInv ==
  ASSUME SinglePriority, IInv, NEW p \in Pkg, ReadPhpIni(p)
  PROVE  IInv'
<1> USE DEF IInv, ReadPhpIni, store, workers, removal
<1>1. TypeOK'
  <2>1. pc' \in [Pkg -> InstallPc] /\ attempt' \in [Pkg -> {"prebuilt", "source"}]
    BY FailMoves DEF TypeOK, Goto, InstallPc
  <2>2. snap' \in [Pkg -> PhpIni]
    <3>1. AppendBlock(Strip(ini, p.ext), p.ext) \in PhpIni
      BY PkgAssumption, PhpIniOperators DEF TypeOK
    <3> QED
      BY <3>1 DEF TypeOK
  <2> QED
    BY <2>1, <2>2 DEF TypeOK
<1>2. OneCommand'
  BY DEF OneCommand
<1>3. CopiedFirst'
  BY FailMoves DEF CopiedFirst, TypeOK, Modules, Goto
<1>4. OneKindOfFile'
  BY FailMoves DEF OneKindOfFile, TypeOK, Goto
<1>5. OneDedicatedFile' /\ NoStrangers'
  BY DEF OneDedicatedFile, NoStrangers
<1>6. SnapshotsHaveModules'
  <2>1. /\ p.ext \in Ext /\ p.ext \in Modules /\ ini \in PhpIni
        /\ Blocks(ini) \subseteq Modules
    BY PkgAssumption
    DEF TypeOK, CopiedFirst, OneKindOfFile, Blocks, DirectivesHaveModules,
        Directives
  <2>2. Blocks(AppendBlock(Strip(ini, p.ext), p.ext)) \subseteq Modules
    BY <2>1, PhpIniOperators
  <2>3. \A q \in Pkg : pc'[q] \in {"trunc", "write"} =>
          \/ pc[q] \in {"trunc", "write"} /\ snap'[q] = snap[q]
          \/ snap'[q] = AppendBlock(Strip(ini, p.ext), p.ext)
    BY FailMoves DEF TypeOK, Goto
  <2>4. upc' = upc /\ usnap' = usnap /\ target' = target /\ Modules' = Modules
    BY DEF Modules
  <2> QED
    BY <2>2, <2>3, <2>4 DEF SnapshotsHaveModules
<1>7. DisabledFirst'
  BY DEF DisabledFirst, OneCommand
<1>8. DirectivesHaveModules'
  BY DEF DirectivesHaveModules, Modules, Directives
<1> QED
  BY <1>1, <1>2, <1>3, <1>4, <1>5, <1>6, <1>7, <1>8

\* Appending to php.ini adds the directive of a module that was copied before.
LEMMA AppendPhpIniKeepsIInv ==
  ASSUME SinglePriority, IInv, NEW p \in Pkg, AppendPhpIni(p)
  PROVE  IInv'
<1> USE DEF IInv, AppendPhpIni, store, workers, removal
<1>1. TypeOK'
  <2>1. pc' \in [Pkg -> InstallPc] /\ attempt' \in [Pkg -> {"prebuilt", "source"}]
    BY FailMoves DEF TypeOK, Goto, InstallPc
  <2>2. ini' \in PhpIni
    BY PkgAssumption, PhpIniOperators DEF TypeOK
  <2> QED
    BY <2>1, <2>2 DEF TypeOK
<1>2. OneCommand'
  BY DEF OneCommand
<1>3. CopiedFirst'
  BY FailMoves DEF CopiedFirst, TypeOK, Modules, Goto
<1>4. OneKindOfFile'
  BY FailMoves DEF OneKindOfFile, TypeOK, Goto
<1>5. OneDedicatedFile' /\ NoStrangers'
  BY DEF OneDedicatedFile, NoStrangers
<1>6. SnapshotsHaveModules'
  BY FailMoves, PkgAssumption, PhpIniOperators, ZenonT(40)
  DEF SnapshotsHaveModules, TypeOK, Modules, Module, OneCommand,
      OneKindOfFile, DirectivesHaveModules, Directives, CopiedFirst, Goto
<1>7. DisabledFirst'
  BY DEF DisabledFirst, OneCommand
<1>8. DirectivesHaveModules'
  <2>1. p.ext \in Ext /\ p.ext \in Modules /\ ini \in PhpIni
    BY PkgAssumption DEF TypeOK, CopiedFirst, OneKindOfFile
  <2>2. Blocks(AppendBlock(ini, p.ext)) = Blocks(ini) \cup {p.ext}
    BY <2>1, PhpIniOperators
  <2>3. ini' = ini \/ ini' = AppendBlock(ini, p.ext)
    OBVIOUS
  <2>4. Blocks(ini)' \subseteq Blocks(ini) \cup {p.ext}
    BY <2>2, <2>3 DEF Blocks
  <2> QED
    BY <2>1, <2>4 DEF DirectivesHaveModules, Directives, Modules
<1> QED
  BY <1>1, <1>2, <1>3, <1>4, <1>5, <1>6, <1>7, <1>8

\* Truncating php.ini takes directives away.
LEMMA TruncatePhpIniKeepsIInv ==
  ASSUME SinglePriority, IInv, NEW p \in Pkg, TruncatePhpIni(p)
  PROVE  IInv'
<1> USE DEF IInv, TruncatePhpIni, store, workers, removal
<1>1. TypeOK'
  <2>1. pc' \in [Pkg -> InstallPc] /\ attempt' \in [Pkg -> {"prebuilt", "source"}]
    BY FailMoves DEF TypeOK, Goto, InstallPc
  <2>2. ini' \in PhpIni
    BY PhpIniOperators DEF TypeOK
  <2> QED
    BY <2>1, <2>2 DEF TypeOK
<1>2. OneCommand'
  BY DEF OneCommand
<1>3. CopiedFirst'
  BY FailMoves DEF CopiedFirst, TypeOK, Modules, Goto
<1>4. OneKindOfFile'
  BY FailMoves DEF OneKindOfFile, TypeOK, Goto
<1>5. OneDedicatedFile' /\ NoStrangers'
  BY DEF OneDedicatedFile, NoStrangers
<1>6. SnapshotsHaveModules'
  BY FailMoves, PkgAssumption, PhpIniOperators, ZenonT(40)
  DEF SnapshotsHaveModules, TypeOK, Modules, Module, OneCommand,
      OneKindOfFile, DirectivesHaveModules, Directives, CopiedFirst, Goto
<1>7. DisabledFirst'
  BY DEF DisabledFirst, OneCommand
<1>8. DirectivesHaveModules'
  BY PhpIniOperators DEF DirectivesHaveModules, TypeOK, Modules, Directives
<1> QED
  BY <1>1, <1>2, <1>3, <1>4, <1>5, <1>6, <1>7, <1>8

\* Writing back what was read may undo what others wrote, but names present
\* modules only: no module goes while an install runs.
LEMMA WritePhpIniKeepsIInv ==
  ASSUME SinglePriority, IInv, NEW p \in Pkg, WritePhpIni(p)
  PROVE  IInv'
<1> USE DEF IInv, WritePhpIni, store, workers, removal
<1>1. TypeOK'
  <2>1. pc' \in [Pkg -> InstallPc] /\ attempt' \in [Pkg -> {"prebuilt", "source"}]
    BY FailMoves DEF TypeOK, Goto, InstallPc
  <2>2. ini' \in PhpIni
    BY DEF TypeOK
  <2> QED
    BY <2>1, <2>2 DEF TypeOK
<1>2. OneCommand'
  BY DEF OneCommand
<1>3. CopiedFirst'
  BY FailMoves DEF CopiedFirst, TypeOK, Modules, Goto
<1>4. OneKindOfFile'
  BY FailMoves DEF OneKindOfFile, TypeOK, Goto
<1>5. OneDedicatedFile' /\ NoStrangers'
  BY DEF OneDedicatedFile, NoStrangers
<1>6. SnapshotsHaveModules'
  BY FailMoves, PkgAssumption, PhpIniOperators, ZenonT(40)
  DEF SnapshotsHaveModules, TypeOK, Modules, Module, OneCommand,
      OneKindOfFile, DirectivesHaveModules, Directives, CopiedFirst, Goto
<1>7. DisabledFirst'
  BY DEF DisabledFirst, OneCommand
<1>8. DirectivesHaveModules'
  BY DEF DirectivesHaveModules, Modules, SnapshotsHaveModules, Directives
<1> QED
  BY <1>1, <1>2, <1>3, <1>4, <1>5, <1>6, <1>7, <1>8

\* The final load check changes no file.
LEMMA VerifyLoadedKeepsIInv ==
  ASSUME SinglePriority, IInv, NEW p \in Pkg, VerifyLoaded(p)
  PROVE  IInv'
<1> USE DEF IInv, VerifyLoaded, store, workers, removal
<1>1. TypeOK'
  <2>1. pc' \in [Pkg -> InstallPc] /\ attempt' \in [Pkg -> {"prebuilt", "source"}]
    BY FailMoves DEF TypeOK, Goto, InstallPc
  <2>2. reported' \subseteq Ext
    BY PkgAssumption DEF TypeOK, Report
  <2> QED
    BY <2>1, <2>2 DEF TypeOK
<1>2. OneCommand'
  BY DEF OneCommand
<1>3. CopiedFirst'
  BY FailMoves DEF CopiedFirst, TypeOK, Modules, Goto
<1>4. OneKindOfFile'
  BY FailMoves DEF OneKindOfFile, TypeOK, Goto
<1>5. OneDedicatedFile' /\ NoStrangers'
  BY DEF OneDedicatedFile, NoStrangers
<1>6. SnapshotsHaveModules'
  BY FailMoves, PkgAssumption, PhpIniOperators, ZenonT(40)
  DEF SnapshotsHaveModules, TypeOK, Modules, Module, OneCommand,
      OneKindOfFile, DirectivesHaveModules, Directives, CopiedFirst, Goto
<1>7. DisabledFirst'
  BY DEF DisabledFirst, OneCommand
<1>8. DirectivesHaveModules'
  BY DEF DirectivesHaveModules, Modules, Directives
<1> QED
  BY <1>1, <1>2, <1>3, <1>4, <1>5, <1>6, <1>7, <1>8

\* docker-php-ext-install adds a module, and no directive of gpie's.
LEMMA InstallBundledKeepsIInv ==
  ASSUME SinglePriority, IInv, NEW p \in Pkg, InstallBundled(p)
  PROVE  IInv'
<1> USE DEF IInv, InstallBundled, store, workers, removal
<1>1. TypeOK'
  <2>1. pc' \in [Pkg -> InstallPc]
    BY DEF TypeOK, Goto, InstallPc
  <2>2. so' \in [Ext -> Module]
    BY DEF TypeOK, Module
  <2>3. helper' \subseteq Ext /\ reported' \subseteq Ext
    BY PkgAssumption DEF TypeOK
  <2> QED
    BY <2>1, <2>2, <2>3 DEF TypeOK
<1>2. OneCommand'
  BY DEF OneCommand
<1>3. CopiedFirst'
  BY DEF CopiedFirst, TypeOK, Modules, Goto
<1>4. OneKindOfFile'
  BY DEF OneKindOfFile, TypeOK, Goto
<1>5. OneDedicatedFile' /\ NoStrangers'
  BY DEF OneDedicatedFile, NoStrangers
<1>6. SnapshotsHaveModules'
  <2>1. Modules \subseteq Modules'
    BY DEF TypeOK, Modules
  <2> QED
    BY <2>1 DEF SnapshotsHaveModules, TypeOK, Goto
<1>7. DisabledFirst'
  BY DEF DisabledFirst, OneCommand
<1>8. DirectivesHaveModules'
  <2>1. Modules \subseteq Modules'
    BY DEF TypeOK, Modules
  <2> QED
    BY <2>1 DEF DirectivesHaveModules, Directives
<1> QED
  BY <1>1, <1>2, <1>3, <1>4, <1>5, <1>6, <1>7, <1>8

-----------------------------------------------------------------------------
(* Commands start and end, and uninstall.                                  *)

\* DiscoverManaged finds each extension in the one file that enables it.
LEMMA DiscoverLocates ==
  ASSUME SinglePriority, IInv
  PROVE  /\ Discover \in [Ext -> Loc]
         /\ \A e \in Ext :
              /\ Discover[e].kind = "scan" => HasScanDir /\ Provided(e)
              /\ Discover[e].kind = "php.ini" => ~HasScanDir /\ HasPhpIni
         /\ \A p \in Pkg :
              Discover[p.ext].kind = "scan" => Discover[p.ext].prio = p.prio
<1>1. ASSUME NEW e \in Ext, scan[e] # {}
      PROVE  \E p \in Pkg : p.ext = e /\ scan[e] = {p.prio}
  BY <1>1 DEF IInv, NoStrangers, Provided, OneDedicatedFile
<1>2. ASSUME NEW e \in Ext, scan[e] # {}
      PROVE  LET n == CHOOSE n \in scan[e] : \A m \in scan[e] : m <= n
             IN  n \in Nat /\ \A p \in Pkg : p.ext = e => n = p.prio
  <2>1. PICK p \in Pkg : p.ext = e /\ scan[e] = {p.prio}
    BY <1>1, <1>2
  <2>2. p.prio \in Nat /\ p.prio <= p.prio
    BY PkgAssumption
  <2>3. (CHOOSE n \in scan[e] : \A m \in scan[e] : m <= n) = p.prio
    BY <2>1, <2>2
  <2> QED
    BY <2>1, <2>2, <2>3 DEF SinglePriority
<1>3. ASSUME NEW e \in Ext
      PROVE  /\ Discover[e] \in Loc
             /\ Discover[e].kind = "scan" => HasScanDir /\ scan[e] # {}
             /\ Discover[e].kind = "php.ini" => ~HasScanDir /\ HasPhpIni
             /\ Discover[e].kind = "scan" => \A p \in Pkg :
                  p.ext = e => Discover[e].prio = p.prio
  BY <1>2 DEF Discover, InPhpIni, InScanDir, NoLoc, Loc, IInv, OneKindOfFile
<1>4. \A e \in Ext : scan[e] # {} => Provided(e)
  BY <1>1 DEF Provided
<1> QED
  BY <1>3, <1>4, PkgAssumption DEF Discover

\* A new install command has nothing past copySo.
LEMMA StartInstallKeepsIInv ==
  ASSUME SinglePriority, IInv, NEW T \in SUBSET Pkg, NEW f \in Flags, StartInstall(T, f)
  PROVE  IInv'
<1> USE DEF IInv, StartInstall, store, workers, removal
<1>1. TypeOK'
  <2>1. pc' \in [Pkg -> InstallPc]
    BY DEF InstallPc
  <2> QED
    BY <2>1 DEF TypeOK
<1>2. OneCommand'
  BY DEF OneCommand
<1>3. CopiedFirst'
  BY DEF CopiedFirst
<1>4. OneKindOfFile'
  BY DEF OneKindOfFile
<1>5. OneDedicatedFile' /\ NoStrangers'
  BY DEF OneDedicatedFile, NoStrangers
<1>6. SnapshotsHaveModules'
  BY DEF SnapshotsHaveModules, Modules
<1>7. DisabledFirst'
  BY DEF DisabledFirst, OneCommand
<1>8. DirectivesHaveModules'
  BY DEF DirectivesHaveModules, Modules, Directives
<1> QED
  BY <1>1, <1>2, <1>3, <1>4, <1>5, <1>6, <1>7, <1>8

\* At its end an install leaves no local state behind.
LEMMA EndInstallKeepsIInv ==
  ASSUME SinglePriority, IInv, EndInstall
  PROVE  IInv'
<1> USE DEF IInv, EndInstall, store, workers, removal
<1>1. TypeOK'
  <2>1. pc' \in [Pkg -> InstallPc] /\ attempt' \in [Pkg -> {"prebuilt", "source"}]
    BY DEF ProcessEnds, InstallPc
  <2>2. snap' \in [Pkg -> PhpIni] /\ usnap' \in PhpIni
    BY DEF ProcessEnds, Truncated, PhpIni
  <2>3. managed' \in [Ext -> Loc]
    BY DEF ProcessEnds, NoLoc, Loc
  <2> QED
    BY <2>1, <2>2, <2>3 DEF TypeOK, ProcessEnds, UninstallPc
<1>2. OneCommand'
  BY DEF OneCommand, ProcessEnds
<1>3. CopiedFirst'
  BY DEF CopiedFirst, ProcessEnds
<1>4. OneKindOfFile'
  BY DEF OneKindOfFile, ProcessEnds, NoLoc
<1>5. OneDedicatedFile' /\ NoStrangers'
  BY PkgAssumption DEF OneDedicatedFile, NoStrangers, ProcessEnds, NoLoc
<1>6. SnapshotsHaveModules'
  BY DEF SnapshotsHaveModules, ProcessEnds
<1>7. DisabledFirst'
  BY DEF DisabledFirst, ProcessEnds
<1>8. DirectivesHaveModules'
  BY DEF DirectivesHaveModules, Modules, Directives
<1> QED
  BY <1>1, <1>2, <1>3, <1>4, <1>5, <1>6, <1>7, <1>8

\* A kill leaves the files as they are at any step, and forgets the rest.
LEMMA KillKeepsIInv ==
  ASSUME SinglePriority, IInv, Kill
  PROVE  IInv'
<1> USE DEF IInv, Kill, store, workers, removal
<1>1. TypeOK'
  <2>1. pc' \in [Pkg -> InstallPc] /\ attempt' \in [Pkg -> {"prebuilt", "source"}]
    BY DEF ProcessEnds, InstallPc
  <2>2. snap' \in [Pkg -> PhpIni] /\ usnap' \in PhpIni
    BY DEF ProcessEnds, Truncated, PhpIni
  <2>3. managed' \in [Ext -> Loc]
    BY DEF ProcessEnds, NoLoc, Loc
  <2> QED
    BY <2>1, <2>2, <2>3 DEF TypeOK, ProcessEnds, UninstallPc
<1>2. OneCommand'
  BY DEF OneCommand, ProcessEnds
<1>3. CopiedFirst'
  BY DEF CopiedFirst, ProcessEnds
<1>4. OneKindOfFile'
  BY DEF OneKindOfFile, ProcessEnds, NoLoc
<1>5. OneDedicatedFile' /\ NoStrangers'
  BY PkgAssumption DEF OneDedicatedFile, NoStrangers, ProcessEnds, NoLoc
<1>6. SnapshotsHaveModules'
  BY DEF SnapshotsHaveModules, ProcessEnds
<1>7. DisabledFirst'
  BY DEF DisabledFirst, ProcessEnds
<1>8. DirectivesHaveModules'
  BY DEF DirectivesHaveModules, Modules, Directives
<1> QED
  BY <1>1, <1>2, <1>3, <1>4, <1>5, <1>6, <1>7, <1>8

\* At its end an uninstall leaves no local state behind.
LEMMA EndUninstallKeepsIInv ==
  ASSUME SinglePriority, IInv, EndUninstall
  PROVE  IInv'
<1> USE DEF IInv, EndUninstall, store, workers, removal
<1>1. TypeOK'
  <2>1. pc' \in [Pkg -> InstallPc] /\ attempt' \in [Pkg -> {"prebuilt", "source"}]
    BY DEF ProcessEnds, InstallPc
  <2>2. snap' \in [Pkg -> PhpIni] /\ usnap' \in PhpIni
    BY DEF ProcessEnds, Truncated, PhpIni
  <2>3. managed' \in [Ext -> Loc]
    BY DEF ProcessEnds, NoLoc, Loc
  <2> QED
    BY <2>1, <2>2, <2>3 DEF TypeOK, ProcessEnds, UninstallPc
<1>2. OneCommand'
  BY DEF OneCommand, ProcessEnds
<1>3. CopiedFirst'
  BY DEF CopiedFirst, ProcessEnds
<1>4. OneKindOfFile'
  BY DEF OneKindOfFile, ProcessEnds, NoLoc
<1>5. OneDedicatedFile' /\ NoStrangers'
  BY PkgAssumption DEF OneDedicatedFile, NoStrangers, ProcessEnds, NoLoc
<1>6. SnapshotsHaveModules'
  BY DEF SnapshotsHaveModules, ProcessEnds
<1>7. DisabledFirst'
  BY DEF DisabledFirst, ProcessEnds
<1>8. DirectivesHaveModules'
  BY DEF DirectivesHaveModules, Modules, Directives
<1> QED
  BY <1>1, <1>2, <1>3, <1>4, <1>5, <1>6, <1>7, <1>8

\* A new uninstall command has located every directive.
LEMMA StartUninstallKeepsIInv ==
  ASSUME SinglePriority, IInv, NEW n \in 1..MaxSpecs, StartUninstall(n)
  PROVE  IInv'
<1> USE DEF IInv, StartUninstall, store, workers, removal
<1>1. TypeOK'
  <2>1. managed' \in [Ext -> Loc]
    BY DiscoverLocates
  <2>2. specs' \in Nat
    OBVIOUS
  <2> QED
    BY <2>1, <2>2 DEF TypeOK, UninstallPc
<1>2. OneCommand'
  BY DEF OneCommand
<1>3. CopiedFirst'
  BY DEF CopiedFirst, Modules
<1>4. OneKindOfFile'
  BY DiscoverLocates DEF OneKindOfFile
<1>5. OneDedicatedFile'
  BY DiscoverLocates DEF OneDedicatedFile
<1>6. NoStrangers'
  BY DiscoverLocates DEF NoStrangers
<1>7. SnapshotsHaveModules'
  BY DEF SnapshotsHaveModules, Modules
<1>8. DisabledFirst'
  BY DEF DisabledFirst
<1>9. DirectivesHaveModules'
  BY DEF DirectivesHaveModules, Modules, Directives
<1> QED
  BY <1>1, <1>2, <1>3, <1>4, <1>5, <1>6, <1>7, <1>8, <1>9

\* The next argument selects an extension that was located.
LEMMA PickSpecKeepsIInv ==
  ASSUME SinglePriority, IInv, NEW e \in Ext, PickSpec(e)
  PROVE  IInv'
<1> USE DEF IInv, PickSpec, store, workers, removal
<1>1. TypeOK'
  <2>1. specs' \in Nat
    BY DEF TypeOK
  <2>2. upc' \in UninstallPc /\ target' \in Ext
    BY DEF TypeOK, UninstallPc
  <2> QED
    BY <2>1, <2>2 DEF TypeOK
<1>2. OneCommand'
  BY DEF OneCommand
<1>3. CopiedFirst'
  BY DEF CopiedFirst, Modules
<1>4. OneKindOfFile'
  BY DEF OneKindOfFile
<1>5. OneDedicatedFile' /\ NoStrangers'
  BY DEF OneDedicatedFile, NoStrangers
<1>6. SnapshotsHaveModules'
  BY DEF SnapshotsHaveModules, Modules
<1>7. DisabledFirst'
  BY DEF DisabledFirst
<1>8. DirectivesHaveModules'
  BY DEF DirectivesHaveModules, Modules, Directives
<1> QED
  BY <1>1, <1>2, <1>3, <1>4, <1>5, <1>6, <1>7, <1>8

\* Reading the located file: if it holds the block it is edited next, and if
\* it does not, no other file does.
LEMMA ReadManagedKeepsIInv ==
  ASSUME SinglePriority, IInv, ReadManaged
  PROVE  IInv'
<1> USE DEF IInv, ReadManaged, store, workers, removal
<1>1. TypeOK'
  <2>1. upc' \in UninstallPc
    BY DEF UninstallPc
  <2>2. usnap' \in PhpIni
    BY PhpIniOperators DEF TypeOK
  <2> QED
    BY <2>1, <2>2 DEF TypeOK
<1>2. OneCommand'
  BY DEF OneCommand
<1>3. CopiedFirst'
  BY DEF CopiedFirst, Modules
<1>4. OneKindOfFile'
  BY DEF OneKindOfFile
<1>5. OneDedicatedFile' /\ NoStrangers'
  BY DEF OneDedicatedFile, NoStrangers
<1>6. SnapshotsHaveModules'
  <2>1. Modules' = Modules
    BY DEF Modules
  <2>2. CASE upc' = "trunc"
    <3>1. /\ managed[target].kind = "php.ini" /\ target \in Ext
          /\ usnap' = Strip(ini, target) /\ target' = target
      BY <2>2 DEF TypeOK
    <3>2. ini \in PhpIni /\ ~HasScanDir /\ HasPhpIni
      BY <3>1 DEF TypeOK, OneKindOfFile
    <3>3. /\ Blocks(usnap') = Blocks(ini) \ {target}
          /\ Blocks(ini) \subseteq Modules
      <4>1. Blocks(ini) \subseteq Directives
        BY <3>2 DEF Directives, Blocks
      <4> QED
        BY <3>1, <3>2, <4>1, PhpIniOperators DEF DirectivesHaveModules
    <3> QED
      BY <2>1, <2>2, <3>1, <3>2, <3>3 DEF SnapshotsHaveModules
  <2>3. CASE upc' # "trunc"
    BY <2>1, <2>3 DEF SnapshotsHaveModules
  <2> QED
    BY <2>2, <2>3
<1>7. DisabledFirst'
  BY DEF DisabledFirst, Directives, OneKindOfFile
<1>8. DirectivesHaveModules'
  BY DEF DirectivesHaveModules, Modules, Directives
<1> QED
  BY <1>1, <1>2, <1>3, <1>4, <1>5, <1>6, <1>7, <1>8

\* Deleting the one dedicated file disables the extension.
LEMMA RemoveIniKeepsIInv ==
  ASSUME SinglePriority, IInv, RemoveIni
  PROVE  IInv'
<1> USE DEF IInv, RemoveIni, store, workers, removal
<1>1. TypeOK'
  <2>1. upc' \in UninstallPc
    BY DEF UninstallPc
  <2>2. scan' \in [Ext -> SUBSET Nat]
    BY DEF TypeOK
  <2> QED
    BY <2>1, <2>2 DEF TypeOK
<1>2. OneCommand'
  BY DEF OneCommand
<1>3. CopiedFirst'
  BY DEF CopiedFirst, Modules
<1>4. OneKindOfFile'
  BY DEF OneKindOfFile, TypeOK
<1>5. OneDedicatedFile'
  BY PkgAssumption DEF OneDedicatedFile, TypeOK
<1>6. NoStrangers'
  BY DEF NoStrangers, TypeOK
<1>7. SnapshotsHaveModules'
  BY DEF SnapshotsHaveModules, Modules
<1>8. DisabledFirst'
  <2>1. HasScanDir /\ managed[target].kind = "scan" /\ target \in Ext
    BY DEF DisabledFirst, OneKindOfFile, TypeOK
  <2>2. scan[target] \subseteq {managed[target].prio}
    BY <2>1 DEF OneDedicatedFile, NoStrangers, Provided
  <2>3. target \notin Blocks(ini)
    BY <2>1 DEF OneKindOfFile
  <2> QED
    BY <2>1, <2>2, <2>3 DEF DisabledFirst, Directives, TypeOK
<1>9. DirectivesHaveModules'
  <2>1. \A e \in Ext : scan'[e] \subseteq scan[e]
    BY DEF TypeOK
  <2> QED
    BY <2>1 DEF DirectivesHaveModules, Directives, Modules
<1> QED
  BY <1>1, <1>2, <1>3, <1>4, <1>5, <1>6, <1>7, <1>8, <1>9

\* Truncating php.ini in an uninstall takes directives away.
LEMMA TruncateManagedKeepsIInv ==
  ASSUME SinglePriority, IInv, TruncateManaged
  PROVE  IInv'
<1> USE DEF IInv, TruncateManaged, store, workers, removal
<1>1. TypeOK'
  <2>1. upc' \in UninstallPc
    BY DEF UninstallPc
  <2>2. ini' \in PhpIni
    BY PhpIniOperators DEF TypeOK
  <2> QED
    BY <2>1, <2>2 DEF TypeOK
<1>2. OneCommand'
  BY DEF OneCommand
<1>3. CopiedFirst'
  BY DEF CopiedFirst, Modules
<1>4. OneKindOfFile'
  BY PhpIniOperators DEF OneKindOfFile, TypeOK
<1>5. OneDedicatedFile' /\ NoStrangers'
  BY DEF OneDedicatedFile, NoStrangers
<1>6. SnapshotsHaveModules'
  BY DEF SnapshotsHaveModules, Modules
<1>7. DisabledFirst'
  BY DEF DisabledFirst
<1>8. DirectivesHaveModules'
  BY PhpIniOperators DEF DirectivesHaveModules, TypeOK, Modules, Directives
<1> QED
  BY <1>1, <1>2, <1>3, <1>4, <1>5, <1>6, <1>7, <1>8

\* Rewriting php.ini without the block disables the extension and adds nothing.
LEMMA RewriteManagedKeepsIInv ==
  ASSUME SinglePriority, IInv, RewriteManaged
  PROVE  IInv'
<1> USE DEF IInv, RewriteManaged, store, workers, removal
<1>1. TypeOK'
  <2>1. upc' \in UninstallPc /\ ini' \in PhpIni
    BY DEF TypeOK, UninstallPc
  <2> QED
    BY <2>1 DEF TypeOK
<1>2. OneCommand'
  BY DEF OneCommand
<1>3. CopiedFirst'
  BY DEF CopiedFirst, Modules
<1>4. OneKindOfFile'
  BY DEF OneKindOfFile, SnapshotsHaveModules
<1>5. OneDedicatedFile' /\ NoStrangers'
  BY DEF OneDedicatedFile, NoStrangers
<1>6. SnapshotsHaveModules'
  BY DEF SnapshotsHaveModules, Modules
<1>7. DisabledFirst'
  <2>1. CASE upc' = "rm"
    BY <2>1 DEF DisabledFirst, SnapshotsHaveModules, OneKindOfFile, Directives
  <2>2. CASE upc' # "rm"
    BY <2>2 DEF DisabledFirst
  <2> QED
    BY <2>1, <2>2
<1>8. DirectivesHaveModules'
  BY DEF DirectivesHaveModules, Modules, SnapshotsHaveModules, Directives
<1> QED
  BY <1>1, <1>2, <1>3, <1>4, <1>5, <1>6, <1>7, <1>8

\* The module that is deleted has been disabled before (mod.go:131-134).
LEMMA RemoveSoKeepsIInv ==
  ASSUME SinglePriority, IInv, RemoveSo
  PROVE  IInv'
<1> USE DEF IInv, RemoveSo, store, workers, removal
<1>1. TypeOK'
  <2>1. upc' \in UninstallPc
    BY DEF UninstallPc
  <2>2. so' \in [Ext -> Module]
    BY DEF TypeOK, Module
  <2> QED
    BY <2>1, <2>2 DEF TypeOK
<1>2. OneCommand'
  BY DEF OneCommand
<1>3. CopiedFirst'
  BY DEF CopiedFirst, OneCommand
<1>4. OneKindOfFile'
  BY DEF OneKindOfFile
<1>5. OneDedicatedFile' /\ NoStrangers'
  BY DEF OneDedicatedFile, NoStrangers
<1>6. SnapshotsHaveModules'
  BY DEF SnapshotsHaveModules, OneCommand
<1>7. DisabledFirst'
  BY DEF DisabledFirst
<1>8. DirectivesHaveModules'
  BY DEF DirectivesHaveModules, TypeOK, Modules, DisabledFirst, Directives
<1> QED
  BY <1>1, <1>2, <1>3, <1>4, <1>5, <1>6, <1>7, <1>8

-----------------------------------------------------------------------------
(* The theorems.                                                           *)

\* Every step of the store keeps the invariant.
LEMMA StepKeepsIInv ==
  ASSUME SinglePriority, IInv, [Next]_vars
  PROVE  IInv'
<1>1. CASE UNCHANGED vars
  BY <1>1
  DEF vars, store, workers, removal, IInv, TypeOK, OneCommand, CopiedFirst,
      OneKindOfFile, OneDedicatedFile, NoStrangers, SnapshotsHaveModules,
      DisabledFirst, DirectivesHaveModules, Directives, Modules
<1>2. ASSUME NEW p \in Pkg, ScanInstallStep(p)
      PROVE  IInv'
  BY <1>2, BeginKeepsIInv, CopySoKeepsIInv, CheckLoadedKeepsIInv,
     ReplaceIniKeepsIInv, FillIniKeepsIInv, VerifyLoadedKeepsIInv,
     InstallBundledKeepsIInv DEF ScanInstallStep
<1>3. ASSUME ScanUninstallStep
      PROVE  IInv'
  BY <1>3, PickSpecKeepsIInv, ReadManagedKeepsIInv, RemoveIniKeepsIInv,
     RemoveSoKeepsIInv, EndUninstallKeepsIInv DEF ScanUninstallStep
<1>4. CASE ScanNext
  BY <1>2, <1>3, <1>4, StartInstallKeepsIInv, EndInstallKeepsIInv,
     StartUninstallKeepsIInv, KillKeepsIInv DEF ScanNext
<1>5. ASSUME NEW p \in Pkg, PhpIniStep(p)
      PROVE  IInv'
  BY <1>5, ReadPhpIniKeepsIInv, AppendPhpIniKeepsIInv,
     TruncatePhpIniKeepsIInv, WritePhpIniKeepsIInv DEF PhpIniStep
<1>6. CASE Next
  BY <1>4, <1>5, <1>6, TruncateManagedKeepsIInv, RewriteManagedKeepsIInv
  DEF Next
<1> QED
  BY <1>1, <1>6

\* The invariant holds in every reachable state.
THEOREM IInvHolds ==
  ASSUME SinglePriority
  PROVE  Spec => []IInv
<1>1. Init => IInv
  BY InitEstablishesIInv
<1>2. IInv /\ [Next]_vars => IInv'
  BY StepKeepsIInv
<1> QED
  BY <1>1, <1>2, PTL DEF Spec

\* Type correctness of the store and of the processes that work on it.
THEOREM TypeCorrect ==
  ASSUME SinglePriority
  PROVE  Spec => []TypeOK
<1>1. IInv => TypeOK
  BY DEF IInv
<1> QED
  BY <1>1, IInvHolds, PTL

\* No directive of gpie's ever names a missing module, whatever fails or is
\* killed and however many packages are installed at once (mod.go:131-134).
THEOREM NoDanglingDirective ==
  ASSUME SinglePriority
  PROVE  Spec => []DirectivesHaveModules
<1>1. IInv => DirectivesHaveModules
  BY DEF IInv
<1> QED
  BY <1>1, IInvHolds, PTL

\* With a scan directory no command ever touches php.ini, so that such a store
\* takes the steps of ScanNext and no other (ini.go:33-70, managed.go:46-80).
THEOREM ScanDirSparesPhpIni ==
  ASSUME SinglePriority, HasScanDir
  PROVE  Spec => ScanSpec
<1>1. ASSUME IInv, [Next]_vars
      PROVE  [ScanNext]_vars
  <2>1. \A p \in Pkg : ~PhpIniStep(p)
    BY <1>1
    DEF IInv, OneKindOfFile, PhpIniStep, ReadPhpIni, AppendPhpIni,
        TruncatePhpIni, WritePhpIni
  <2>2. ~TruncateManaged /\ ~RewriteManaged
    BY <1>1 DEF IInv, SnapshotsHaveModules, TruncateManaged, RewriteManaged
  <2> QED
    BY <1>1, <2>1, <2>2 DEF Next
<1> QED
  BY <1>1, IInvHolds, PTL DEF Spec, ScanSpec

\* Every step of the store is a step of the abstract registry, or a stutter.
LEMMA StepImplementsRegistry ==
  ASSUME IInv, IInv', [Next]_vars
  PROVE  [Registry!Next]_(Registry!vars)
<1> USE DEF Registry!vars
<1>1. Directives' \subseteq Ext /\ Directives \subseteq Ext
  BY DEF Directives
<1>2. CASE Modules' = Modules
  BY <1>1, <1>2
  DEF IInv, DirectivesHaveModules, Registry!Next, Registry!SetDirectives
<1>3. CASE Modules' # Modules /\ \E p \in Pkg : CopySo(p) \/ InstallBundled(p)
  <2>1. PICK p \in Pkg : CopySo(p) \/ InstallBundled(p)
    BY <1>3
  <2>2. p.ext \in Ext
    BY PkgAssumption
  <2>3. PICK q \in {"good", "bad"} : so' = [so EXCEPT ![p.ext] = q]
    <3>1. so' # so
      BY <1>3 DEF Modules
    <3> QED
      BY <2>1, <3>1 DEF CopySo, InstallBundled
  <2>4. Modules' = Modules \cup {p.ext}
    BY <2>2, <2>3 DEF IInv, TypeOK, Modules
  <2>5. Directives' = Directives
    BY <2>1 DEF CopySo, InstallBundled, Directives
  <2> QED
    BY <2>2, <2>4, <2>5 DEF Registry!Next, Registry!PutModule
<1>4. CASE Modules' # Modules /\ RemoveSo
  <2>1. target \in Ext /\ Modules' = Modules \ {target}
    BY <1>4 DEF IInv, TypeOK, RemoveSo, Modules
  <2>2. target \notin Directives /\ Directives' = Directives
    BY <1>4 DEF IInv, DisabledFirst, RemoveSo, Directives
  <2> QED
    BY <2>1, <2>2 DEF Registry!Next, Registry!RemoveModule
<1>5. CASE ~(RemoveSo \/ \E p \in Pkg : CopySo(p) \/ InstallBundled(p))
  <2>1. so' = so
    BY <1>5
    DEF Next, vars, store, ScanNext, ScanInstallStep, ScanUninstallStep,
        PhpIniStep, StartInstall, EndInstall, StartUninstall, Kill, Begin, CheckLoaded, ReplaceIni,
        FillIni, ReadPhpIni, AppendPhpIni, TruncatePhpIni, WritePhpIni,
        VerifyLoaded, PickSpec, ReadManaged, RemoveIni, TruncateManaged,
        RewriteManaged, EndUninstall
  <2> QED
    BY <2>1, <1>2 DEF Modules
<1> QED
  BY <1>2, <1>3, <1>4, <1>5

\* The store implements the abstract registry of extensions: modules and
\* directives change in the order that keeps every directive valid.
THEOREM StoreImplementsRegistry ==
  ASSUME SinglePriority
  PROVE  Spec => ImplementsRegistry
<1>1. Init => Registry!Init
  BY DEF Init, Registry!Init, Modules, Directives, Blocks, Truncated
<1>2. IInv /\ IInv' /\ [Next]_vars => [Registry!Next]_(Registry!vars)
  BY StepImplementsRegistry
<1> QED
  BY <1>1, <1>2, IInvHolds, PTL DEF Spec, ImplementsRegistry, Registry!Spec

-----------------------------------------------------------------------------
(* What was reported as enabled stays loaded.                              *)

\* Each extension has one provider among the packages.
OneProvider == \A p, q \in Pkg : p.ext = q.ext => p = q

\* Installs at work do not get in each other's way: no two are of one extension,
\* and without a scan directory there is one at a time and no write of php.ini
\* is cut short.
Solitary == \A p, q \in Active : p = q
NoLostWrites == Faults \cap {"enospc", "kill"} = {}
Undisturbed ==
  /\ \A p, q \in Active : p.ext = q.ext => p = q
  /\ HasScanDir \/ (Solitary /\ NoLostWrites)

\* PHP would load e if php.ini read like f.
LoadsFrom(e, f) ==
  /\ so[e] = "good"
  /\ \/ scan[e] # {} \/ e \in helper
     \/ HasPhpIni /\ e \in Blocks(f)
     \/ HasPhpIni /\ f.user /\ e \in UserEnables
Safe(f) == \A e \in reported : LoadsFrom(e, f)

\* A command that names an extension takes it from the report before it touches
\* its files.
NamedNotReported ==
  /\ \A p \in Active : p.ext \notin reported
  /\ upc \notin {"idle", "pick"} => target \notin reported

\* What was reported loads with php.ini as it is, except between the two halves
\* of a rewrite, and with what is about to be written over it.
ReportedIsSafe ==
  /\ (\A p \in Pkg : pc[p] # "write") /\ upc # "write" => Safe(ini)
  /\ \A p \in Pkg : pc[p] \in {"trunc", "write"} => Safe(snap[p])
  /\ upc \in {"trunc", "write"} => Safe(usnap)

RInv == NamedNotReported /\ ReportedIsSafe

\* Steps that start or end a command, or take an argument: the files and what is
\* about to be written stay as they are.
LEMMA CommandKeepsRInv ==
  ASSUME IInv, RInv, Undisturbed,
         \/ \E T \in SUBSET Pkg, f \in Flags : StartInstall(T, f)
         \/ \E n \in 1..MaxSpecs : StartUninstall(n)
         \/ EndInstall \/ EndUninstall \/ Kill
  PROVE  RInv'
<1> USE DEF IInv, RInv, store, workers, removal
<1>1. UNCHANGED <<so, scan, ini, helper, target, reported>>
  BY DEF StartInstall, StartUninstall, EndInstall, EndUninstall, Kill
<1>2. (\A p \in Pkg : pc[p] # "write") /\ upc # "write"
  <2>1. CASE Kill
    <3>1. HasScanDir
      BY <2>1 DEF Undisturbed, NoLostWrites, Kill
    <3> QED
      BY <3>1 DEF OneKindOfFile, SnapshotsHaveModules
  <2>2. CASE ~Kill
    BY <2>2 DEF StartInstall, StartUninstall, EndInstall, EndUninstall, OneCommand
  <2> QED
    BY <2>1, <2>2
<1>3. /\ \A p \in Pkg : pc'[p] \in {"idle", "queued"}
      /\ upc' \in {"idle", "pick"}
  <2>1. upc' \in {"idle", "pick"}
    BY DEF StartInstall, StartUninstall, EndInstall, EndUninstall, Kill, ProcessEnds,
       OneCommand
  <2>2. CASE \E n \in 1..MaxSpecs : StartUninstall(n)
    BY <2>1, <2>2 DEF StartUninstall, OneCommand
  <2>3. CASE ~\E n \in 1..MaxSpecs : StartUninstall(n)
    BY <2>1, <2>3 DEF StartInstall, EndInstall, EndUninstall, Kill, ProcessEnds
  <2> QED
    BY <2>2, <2>3
<1>4. NamedNotReported'
  BY <1>1, <1>3 DEF NamedNotReported, Active
<1>5. Safe(ini)'
  BY <1>1, <1>2 DEF ReportedIsSafe, Safe, LoadsFrom
<1>6. ReportedIsSafe'
  BY <1>3, <1>5 DEF ReportedIsSafe
<1> QED
  BY <1>4, <1>6

\* An install that is at work changes the files of its own extension only.
OwnFiles(p) ==
  /\ \A e \in Ext : e # p.ext => so'[e] = so[e] /\ scan'[e] = scan[e]
  /\ helper \subseteq helper'
  /\ \A q \in Pkg : q # p => pc'[q] = pc[q]
  /\ UNCHANGED <<upc, target, usnap>>

LEMMA OwnFilesKeepRInv ==
  ASSUME TypeOK, RInv, NEW p \in Pkg, OwnFiles(p), p.ext \notin reported,
         UNCHANGED <<ini, snap, reported>>, pc[p] # "write",
         pc'[p] \notin {"trunc", "write"}
  PROVE  RInv'
<1> USE DEF OwnFiles
<1>1. reported \subseteq Ext
  BY DEF TypeOK
<1>2. NamedNotReported'
  BY DEF RInv, NamedNotReported, Active
<1>3. ASSUME NEW f, Safe(f), NEW e \in reported
      PROVE  LoadsFrom(e, f)'
  BY <1>1, <1>3 DEF Safe, LoadsFrom
<1>4. Safe(ini) => Safe(ini)'
  BY <1>1 DEF Safe, LoadsFrom
<1>5. ASSUME NEW q \in Pkg, pc'[q] \in {"trunc", "write"}
      PROVE  Safe(snap[q])'
  <2>1. Safe(snap[q])
    BY <1>5 DEF RInv, ReportedIsSafe
  <2> QED
    BY <1>1, <2>1 DEF Safe, LoadsFrom
<1>6. upc' \in {"trunc", "write"} => Safe(usnap)'
  BY <1>1 DEF Safe, LoadsFrom, RInv, ReportedIsSafe
<1>7. ReportedIsSafe'
  BY <1>4, <1>5, <1>6 DEF RInv, ReportedIsSafe
<1> QED
  BY <1>2, <1>7 DEF RInv

\* A report follows a look at what PHP loads.
LEMMA ReportKeepsRInv ==
  ASSUME IInv, RInv, Undisturbed, NEW p \in Active, Report(p), Goto(p, "done"),
         OwnFiles(p), UNCHANGED <<ini, snap>>, pc[p] # "write",
         LoadsFrom(p.ext, ini)', upc = "idle"
  PROVE  RInv'
<1> USE DEF OwnFiles, Report, Goto
<1>1. TypeOK /\ OneKindOfFile /\ p.ext \notin reported
  BY DEF IInv, RInv, NamedNotReported
<1>2. pc'[p] = "done" /\ reported \subseteq Ext
  BY <1>1 DEF TypeOK, Active
<1>3. NamedNotReported'
  BY <1>2 DEF RInv, NamedNotReported, Active, Undisturbed
<1>4. \A q \in Pkg : pc'[q] \notin {"trunc", "write"}
  <2>1. ASSUME NEW q \in Pkg, pc'[q] \in {"trunc", "write"}
        PROVE  FALSE
    <3>1. q # p /\ pc[q] \in {"trunc", "write"} /\ q \in Active
      BY <1>2, <2>1 DEF Active
    <3> QED
      BY <1>1, <3>1 DEF OneKindOfFile, Undisturbed, Solitary
  <2> QED
    BY <2>1
<1>5. Safe(ini)'
  <2>1. Safe(ini)
    BY <1>2, <1>4 DEF RInv, ReportedIsSafe
  <2> QED
    BY <1>1, <1>2, <2>1 DEF Safe, LoadsFrom
<1>6. ReportedIsSafe'
  BY <1>4, <1>5 DEF ReportedIsSafe
<1> QED
  BY <1>3, <1>6 DEF RInv

\* What one package does to the files leaves those of the reported alone.
LEMMA ScanStepKeepsRInv ==
  ASSUME IInv, RInv, Undisturbed, NEW p \in Pkg, ScanInstallStep(p)
  PROVE  RInv'
<1> USE DEF IInv, RInv, store, workers, removal
<1>0. /\ upc = "idle" /\ upc' = upc /\ target' = target /\ snap' = snap /\ ini' = ini
      /\ usnap' = usnap /\ p.ext \in Ext
  BY PkgAssumption DEF OneCommand, ScanInstallStep, Begin, CopySo, CheckLoaded, ReplaceIni,
     FillIni, VerifyLoaded, InstallBundled
<1>1. CASE Begin(p)
  <2>1. /\ \A q \in Pkg : q # p => pc'[q] = pc[q]
        /\ pc'[p] \in {"copy", "helper"} /\ reported' = reported \ {p.ext}
        /\ UNCHANGED <<so, scan, helper>>
    BY <1>1 DEF Begin, Goto, TypeOK
  <2>2. NamedNotReported'
    BY <1>0, <2>1 DEF NamedNotReported, Active
  <2>3. ReportedIsSafe'
    BY <1>0, <1>1, <2>1 DEF ReportedIsSafe, Safe, LoadsFrom, Begin
  <2> QED
    BY <2>2, <2>3
<1>2. CASE UNCHANGED reported /\ ~Begin(p)
  <2>1. p \in Active /\ pc[p] # "write"
    BY <1>2 DEF ScanInstallStep, CopySo, CheckLoaded, ReplaceIni, FillIni, VerifyLoaded,
       InstallBundled, Active
  <2>2. p.ext \notin reported
    BY <2>1 DEF NamedNotReported
  <2>3. OwnFiles(p) /\ pc'[p] \notin {"trunc", "write"}
    <3>1. CASE CopySo(p)
      BY <1>0, <3>1, FailMoves DEF CopySo, OwnFiles, Goto, TypeOK
    <3>2. CASE CheckLoaded(p) \/ VerifyLoaded(p)
      BY <1>0, <3>2, FailMoves DEF CheckLoaded, VerifyLoaded, OwnFiles, Goto, TypeOK
    <3>3. CASE ReplaceIni(p) \/ FillIni(p)
      BY <1>0, <3>3, FailMoves DEF ReplaceIni, FillIni, OwnFiles, Goto, TypeOK
    <3>4. CASE InstallBundled(p)
      BY <1>0, <3>4 DEF InstallBundled, OwnFiles, Goto, TypeOK
    <3> QED
      BY <1>2, <3>1, <3>2, <3>3, <3>4 DEF ScanInstallStep
  <2> QED
    BY <1>0, <1>2, <2>1, <2>2, <2>3, OwnFilesKeepRInv
<1>3. CASE ~UNCHANGED reported /\ ~Begin(p)
  <2>1. p \in Active /\ pc[p] # "write" /\ Report(p) /\ Goto(p, "done")
    BY <1>3 DEF ScanInstallStep, CopySo, CheckLoaded, ReplaceIni, FillIni, VerifyLoaded,
       InstallBundled, Active, Report
  <2>2. CASE CheckLoaded(p) \/ VerifyLoaded(p)
    <3>1. Loads(p.ext) /\ UNCHANGED store
      BY <1>3, <2>2 DEF CheckLoaded, VerifyLoaded
    <3>2. LoadsFrom(p.ext, ini)' /\ OwnFiles(p)
      BY <1>0, <2>1, <3>1 DEF Loads, Enabled, Directives, LoadsFrom, OwnFiles, Goto, Blocks,
         TypeOK
    <3> QED
      BY <1>0, <2>1, <3>1, <3>2, ReportKeepsRInv
  <2>3. CASE InstallBundled(p)
    <3>1. p.ext \in helper' /\ so'[p.ext] = "good" /\ OwnFiles(p)
      BY <1>0, <1>3, <2>1, <2>3 DEF InstallBundled, OwnFiles, Goto, TypeOK
    <3>2. LoadsFrom(p.ext, ini)'
      BY <3>1 DEF LoadsFrom
    <3> QED
      BY <1>0, <2>1, <3>1, <3>2, ReportKeepsRInv
  <2> QED
    BY <1>3, <2>2, <2>3 DEF ScanInstallStep, CopySo, ReplaceIni, FillIni
<1> QED
  BY <1>1, <1>2, <1>3

\* The steps of one package on php.ini, when it is at work alone.
LEMMA PhpIniStepKeepsRInv ==
  ASSUME IInv, RInv, Undisturbed, NEW p \in Pkg, PhpIniStep(p)
  PROVE  RInv'
<1> USE DEF IInv, store, workers, removal
<1>1. /\ pc[p] \in {"read", "append", "trunc", "write"} /\ p \in Active
      /\ upc = "idle" /\ UNCHANGED <<so, scan, helper, upc, target, usnap, reported>>
  BY DEF PhpIniStep, ReadPhpIni, AppendPhpIni, TruncatePhpIni, WritePhpIni, Active,
     OneCommand
<1>2. /\ TypeOK /\ ini \in PhpIni /\ p.ext \in Ext /\ p.ext \notin reported
      /\ reported \subseteq Ext /\ Solitary /\ NoLostWrites
  BY <1>1, PkgAssumption DEF TypeOK, RInv, NamedNotReported, OneKindOfFile, Undisturbed
<1>3. \A q \in Pkg : q # p => pc[q] \notin {"trunc", "write"} /\ pc'[q] = pc[q]
  <2>1. \A q \in Pkg : q # p => pc[q] \notin {"trunc", "write"}
    BY <1>1, <1>2 DEF Solitary, Active
  <2>2. \A q \in Pkg : q # p => pc'[q] = pc[q]
    BY <1>2, FailMoves DEF PhpIniStep, ReadPhpIni, AppendPhpIni, TruncatePhpIni,
       WritePhpIni, Goto, TypeOK
  <2> QED
    BY <2>1, <2>2
<1>4. NamedNotReported'
  BY <1>1, <1>2, <1>3 DEF RInv, NamedNotReported, Active
<1>5. pc[p] # "write" => Safe(ini)
  BY <1>1, <1>3 DEF RInv, ReportedIsSafe
<1>6. ASSUME NEW f, Safe(f), ini' = f
      PROVE  Safe(ini)'
  BY <1>1, <1>6 DEF Safe, LoadsFrom
<1>7. ASSUME NEW f, Safe(f), snap'[p] = f
      PROVE  Safe(snap[p])'
  BY <1>1, <1>7 DEF Safe, LoadsFrom
<1>8. CASE ReadPhpIni(p)
  <2> DEFINE new == AppendBlock(Strip(ini, p.ext), p.ext)
  <2>1. /\ Strip(ini, p.ext) \in PhpIni /\ new.user = ini.user
        /\ Blocks(new) = Blocks(ini) \cup {p.ext}
    <3>1. Strip(ini, p.ext) \in PhpIni /\ Blocks(Strip(ini, p.ext)) = Blocks(ini) \ {p.ext}
          /\ Strip(ini, p.ext).user = ini.user
      BY <1>2, PhpIniOperators DEF Strip, PhpIni
    <3>2. new.user = Strip(ini, p.ext).user
      BY <3>1 DEF AppendBlock, PhpIni
    <3> QED
      BY <1>2, <3>1, <3>2, PhpIniOperators
  <2>2. Safe(new)
    BY <1>5, <1>8, <2>1 DEF Safe, LoadsFrom, ReadPhpIni
  <2> HIDE DEF new
  <2>3. ini' = ini /\ Safe(ini) /\ pc'[p] # "write"
    BY <1>2, <1>5, <1>8, FailMoves DEF ReadPhpIni, Goto, TypeOK
  <2>4. pc'[p] = "trunc" => snap'[p] = new
    BY <1>2, <1>8, FailMoves DEF ReadPhpIni, Goto, TypeOK, new
  <2>5. Safe(ini)'
    BY <1>6, <2>3
  <2>6. pc'[p] = "trunc" => Safe(snap[p])'
    BY <1>7, <2>2, <2>4
  <2>7. ReportedIsSafe'
    BY <1>1, <1>3, <2>3, <2>5, <2>6 DEF ReportedIsSafe
  <2> QED
    BY <1>4, <2>7 DEF RInv
<1>9. CASE AppendPhpIni(p)
  <2> DEFINE new == AppendBlock(ini, p.ext)
  <2>1. new.user = ini.user /\ Blocks(new) = Blocks(ini) \cup {p.ext}
    BY <1>2, PhpIniOperators DEF AppendBlock, PhpIni
  <2>2. Safe(ini) /\ Safe(new)
    BY <1>5, <1>9, <2>1 DEF Safe, LoadsFrom, AppendPhpIni
  <2>3. (ini' = ini \/ ini' = new) /\ pc'[p] \notin {"trunc", "write"}
    BY <1>2, <1>9, FailMoves DEF AppendPhpIni, Goto, TypeOK
  <2> HIDE DEF new
  <2>4. Safe(ini)'
    BY <1>6, <2>2, <2>3
  <2>5. ReportedIsSafe'
    BY <1>1, <1>3, <2>3, <2>4 DEF ReportedIsSafe
  <2> QED
    BY <1>4, <2>5 DEF RInv
<1>10. CASE TruncatePhpIni(p)
  <2>1. /\ Safe(ini) /\ Safe(snap[p]) /\ snap' = snap
        /\ \/ pc'[p] = "write"
           \/ ini' = ini /\ pc'[p] \notin {"trunc", "write"}
    BY <1>2, <1>5, <1>10, FailMoves DEF RInv, ReportedIsSafe, TruncatePhpIni, Goto, TypeOK
  <2>2. Safe(snap[p])'
    BY <1>7, <2>1
  <2>3. ini' = ini => Safe(ini)'
    BY <1>6, <2>1
  <2>4. ReportedIsSafe'
    BY <1>1, <1>3, <2>1, <2>2, <2>3 DEF ReportedIsSafe
  <2> QED
    BY <1>4, <2>4 DEF RInv
<1>11. CASE WritePhpIni(p)
  <2>1. Safe(snap[p]) /\ ini' = snap[p] /\ pc'[p] = "verify"
    BY <1>2, <1>11 DEF RInv, ReportedIsSafe, WritePhpIni, Goto, TypeOK, NoLostWrites
  <2>2. Safe(ini)'
    BY <1>6, <2>1
  <2>3. ReportedIsSafe'
    BY <1>1, <1>3, <2>1, <2>2 DEF ReportedIsSafe
  <2> QED
    BY <1>4, <2>3 DEF RInv
<1> QED
  BY <1>8, <1>9, <1>10, <1>11 DEF PhpIniStep

\* An uninstall takes the extension it is about out of the report first.
LEMMA UninstallKeepsRInv ==
  ASSUME IInv, RInv, Undisturbed,
         \/ \E e \in Ext : PickSpec(e)
         \/ ReadManaged \/ RemoveIni \/ TruncateManaged \/ RewriteManaged \/ RemoveSo
  PROVE  RInv'
<1> USE DEF IInv, store, workers, removal
<1>1. /\ UNCHANGED <<helper, pc, snap>> /\ \A p \in Pkg : pc[p] = "idle"
      /\ TypeOK /\ ini \in PhpIni /\ reported \subseteq Ext /\ target \in Ext
  BY DEF PickSpec, ReadManaged, RemoveIni, TruncateManaged, RewriteManaged, RemoveSo,
     OneCommand, TypeOK
<1>2. Active' = {} /\ \A p \in Pkg : pc'[p] = "idle"
  BY <1>1 DEF Active
<1>3. CASE \E e \in Ext : PickSpec(e)
  <2>1. PICK e \in Ext : PickSpec(e)
    BY <1>3
  <2>2. NamedNotReported'
    BY <1>2, <2>1 DEF PickSpec, NamedNotReported, RInv
  <2>3. ReportedIsSafe'
    BY <1>1, <1>2, <2>1 DEF PickSpec, ReportedIsSafe, Safe, LoadsFrom, RInv
  <2> QED
    BY <2>2, <2>3 DEF RInv
<1>4. CASE ~\E e \in Ext : PickSpec(e)
  <2>1. UNCHANGED <<target, reported>> /\ target \notin reported
    BY <1>4 DEF ReadManaged, RemoveIni, TruncateManaged, RewriteManaged, RemoveSo, RInv,
       NamedNotReported
  <2>2. NamedNotReported'
    BY <1>2, <2>1 DEF NamedNotReported
  <2>3. upc \in {"trunc", "write"} => NoLostWrites
    BY DEF SnapshotsHaveModules, Undisturbed
  <2>4. CASE ReadManaged
    <3>1. Safe(ini)
      BY <1>1, <2>4 DEF RInv, ReportedIsSafe, ReadManaged
    <3>2. Strip(ini, target).user = ini.user
          /\ Blocks(Strip(ini, target)) = Blocks(ini) \ {target}
      BY <1>1, PhpIniOperators DEF Strip, PhpIni
    <3>3. Safe(Strip(ini, target))
      BY <2>1, <3>1, <3>2 DEF Safe, LoadsFrom
    <3>4. UNCHANGED <<so, scan, ini, helper, reported>> /\ upc' # "write"
          /\ (upc' = "trunc" => usnap' = Strip(ini, target))
      BY <2>4 DEF ReadManaged
    <3>5. Safe(ini)' /\ (upc' = "trunc" => Safe(usnap)')
      BY <3>1, <3>3, <3>4 DEF Safe, LoadsFrom
    <3> QED
      BY <1>2, <2>2, <3>4, <3>5 DEF ReportedIsSafe, RInv
  <2>5. CASE RemoveIni \/ RemoveSo
    <3>1. Safe(ini) /\ upc' \notin {"trunc", "write"} /\ UNCHANGED <<ini, helper, reported>>
          /\ \A e \in Ext : e # target => so'[e] = so[e] /\ scan'[e] = scan[e]
      BY <1>1, <2>5 DEF RInv, ReportedIsSafe, RemoveIni, RemoveSo, TypeOK
    <3>2. Safe(ini)'
      BY <1>1, <2>1, <3>1 DEF Safe, LoadsFrom
    <3> QED
      BY <1>2, <2>2, <3>1, <3>2 DEF ReportedIsSafe, RInv
  <2>6. CASE TruncateManaged
    <3>1. Safe(ini) /\ Safe(usnap) /\ UNCHANGED <<so, scan, helper, usnap, reported>>
          /\ (upc' = "write" \/ (upc' = "pick" /\ ini' = ini))
      BY <1>1, <2>6 DEF RInv, ReportedIsSafe, TruncateManaged
    <3>2. Safe(usnap)' /\ (ini' = ini => Safe(ini)')
      BY <3>1 DEF Safe, LoadsFrom
    <3> QED
      BY <1>2, <2>2, <3>1, <3>2 DEF ReportedIsSafe, RInv
  <2>7. CASE RewriteManaged
    <3>1. Safe(usnap) /\ UNCHANGED <<so, scan, helper, reported>>
          /\ upc' = "rm" /\ ini' = usnap
      BY <2>3, <2>7 DEF RInv, ReportedIsSafe, RewriteManaged, NoLostWrites
    <3>2. Safe(ini)'
      BY <3>1 DEF Safe, LoadsFrom
    <3> QED
      BY <1>2, <2>2, <3>1, <3>2 DEF ReportedIsSafe, RInv
  <2> QED
    BY <1>4, <2>4, <2>5, <2>6, <2>7
<1> QED
  BY <1>3, <1>4

LEMMA StepKeepsRInv ==
  ASSUME IInv, RInv, Undisturbed, [Next]_vars
  PROVE  RInv'
<1>1. CASE UNCHANGED vars
  BY <1>1 DEF vars, store, workers, removal, RInv, NamedNotReported, ReportedIsSafe, Active,
     Safe, LoadsFrom, Blocks
<1>2. CASE Next
  BY <1>2, CommandKeepsRInv, ScanStepKeepsRInv, PhpIniStepKeepsRInv, UninstallKeepsRInv
  DEF Next, ScanNext, ScanUninstallStep
<1> QED
  BY <1>1, <1>2

LEMMA RInvReported ==
  ASSUME IInv, RInv
  PROVE  ReportedStaysLoaded
<1> SUFFICES ASSUME cmd = "none", NEW e \in reported PROVE Loads(e)
  BY DEF ReportedStaysLoaded
<1>1. Safe(ini) /\ e \in Ext
  BY DEF IInv, OneCommand, RInv, ReportedIsSafe, TypeOK
<1> QED
  BY <1>1 DEF Safe, LoadsFrom, Loads, Enabled, Directives

LEMMA InitEstablishesRInv == Init => RInv
  BY DEF Init, RInv, NamedNotReported, ReportedIsSafe, Active, Safe

\* The steps of the store other than Begin ...
OtherStep ==
  \/ \E p \in Pkg : \/ CopySo(p) \/ CheckLoaded(p) \/ ReplaceIni(p) \/ FillIni(p)
                    \/ VerifyLoaded(p) \/ InstallBundled(p) \/ PhpIniStep(p)
  \/ \E T \in SUBSET Pkg, f \in Flags : StartInstall(T, f)
  \/ \E n \in 1..MaxSpecs : StartUninstall(n)
  \/ EndInstall \/ EndUninstall \/ Kill
  \/ \E e \in Ext : PickSpec(e)
  \/ ReadManaged \/ RemoveIni \/ TruncateManaged \/ RewriteManaged \/ RemoveSo
  \/ UNCHANGED vars

\* ... put no install to work.
LEMMA OthersDoNotBegin ==
  ASSUME IInv, OtherStep
  PROVE  Active' \subseteq Active
<1> USE DEF store, workers, removal
<1>0. TypeOK
  BY DEF IInv
<1>1. ASSUME NEW p \in Pkg,
             \/ CopySo(p) \/ CheckLoaded(p) \/ ReplaceIni(p) \/ FillIni(p)
             \/ VerifyLoaded(p) \/ InstallBundled(p) \/ PhpIniStep(p)
      PROVE  Active' \subseteq Active
  <2>1. p \in Active
    BY <1>1 DEF CopySo, CheckLoaded, ReplaceIni, FillIni, VerifyLoaded, InstallBundled,
       PhpIniStep, ReadPhpIni, AppendPhpIni, TruncatePhpIni, WritePhpIni, Active
  <2>2. \A q \in Pkg : q # p => pc'[q] = pc[q]
    <3>1. CASE CopySo(p) \/ CheckLoaded(p) \/ ReplaceIni(p) \/ FillIni(p)
      BY <1>0, <3>1, FailMoves DEF CopySo, CheckLoaded, ReplaceIni, FillIni, Goto, TypeOK
    <3>2. CASE VerifyLoaded(p) \/ InstallBundled(p) \/ PhpIniStep(p)
      BY <1>0, <3>2, FailMoves DEF VerifyLoaded, InstallBundled, PhpIniStep, ReadPhpIni,
         AppendPhpIni, TruncatePhpIni, WritePhpIni, Goto, TypeOK
    <3> QED
      BY <1>1, <3>1, <3>2
  <2> QED
    BY <2>1, <2>2 DEF Active
<1>2. CASE \/ \E T \in SUBSET Pkg, f \in Flags : StartInstall(T, f)
           \/ \E n \in 1..MaxSpecs : StartUninstall(n)
           \/ EndInstall \/ EndUninstall \/ Kill
  <2>1. \A p \in Pkg : pc'[p] = pc[p] \/ pc'[p] \in {"idle", "queued"}
    BY <1>2 DEF StartInstall, StartUninstall, EndInstall, EndUninstall, Kill, ProcessEnds
  <2> QED
    BY <2>1 DEF Active
<1>3. CASE \/ \E e \in Ext : PickSpec(e)
           \/ ReadManaged \/ RemoveIni \/ TruncateManaged \/ RewriteManaged \/ RemoveSo
           \/ UNCHANGED vars
  <2>1. pc' = pc
    BY <1>3 DEF PickSpec, ReadManaged, RemoveIni, TruncateManaged, RewriteManaged,
       RemoveSo, vars
  <2> QED
    BY <2>1 DEF Active
<1> QED
  BY <1>1, <1>2, <1>3 DEF OtherStep

LEMMA BeginAddsOne ==
  ASSUME TypeOK, NEW p \in Pkg, Begin(p)
  PROVE  Active' = Active \cup {p}
<1>1. pc'[p] \in {"copy", "helper"} /\ \A q \in Pkg : q # p => pc'[q] = pc[q]
  BY DEF Begin, Goto, TypeOK
<1> QED
  BY <1>1 DEF Active

LEMMA BeginOrOther == [Next]_vars => (\E p \in Pkg : Begin(p)) \/ OtherStep
BY DEF Next, ScanNext, ScanUninstallStep, ScanInstallStep, OtherStep

\* A hypothesis of the proofs: nobody asks for more than --jobs 1.
OneJob == \A f \in Flags : f.jobs = 1

\* With --jobs 1 no two installs are at work at once.
LEMMA OneJobIsSolitary ==
  ASSUME SinglePriority, OneJob
  PROVE  Spec => []Solitary
<1>1. Init => Solitary
  BY DEF Init, Solitary, Active
<1>2. IInv /\ Solitary /\ [Next]_vars => Solitary'
  <2> SUFFICES ASSUME IInv, Solitary, [Next]_vars
               PROVE  Solitary'
    OBVIOUS
  <2>1. CASE OtherStep
    BY <2>1, OthersDoNotBegin DEF Solitary
  <2>2. ASSUME NEW p \in Pkg, Begin(p)
        PROVE  Solitary'
    <3>1. Active = {} /\ Active' = {p}
      BY <2>2, BeginAddsOne DEF IInv, TypeOK, OneJob, Begin, Parallel
    <3> QED
      BY <3>1 DEF Solitary
  <2> QED
    BY <2>1, <2>2, BeginOrOther
<1> QED
  BY <1>1, <1>2, IInvHolds, PTL DEF Spec

\* An extension gpie reported as enabled is one PHP loads until a command names
\* it: with a scan directory whatever is installed at once, fails or is killed, as
\* each extension has one provider, so that each has a file of its own ...
THEOREM ScanDirKeepsReported ==
  ASSUME OneProvider, HasScanDir
  PROVE  Spec => []ReportedStaysLoaded
<1>0. Spec => []IInv
  BY IInvHolds DEF OneProvider, SinglePriority
<1>1. IInv => Undisturbed
  BY DEF Undisturbed, Active, OneProvider
<1>2. IInv /\ RInv /\ [Next]_vars => RInv'
  BY <1>1, StepKeepsRInv
<1>3. IInv /\ RInv => ReportedStaysLoaded
  BY RInvReported
<1> QED
  BY <1>0, <1>2, <1>3, InitEstablishesRInv, PTL DEF Spec

\* ... and in the shared php.ini when installs run one at a time and no rewrite is
\* cut short between its truncation and its write.
THEOREM OneJobKeepsReported ==
  ASSUME SinglePriority, OneJob, HasScanDir \/ NoLostWrites
  PROVE  Spec => []ReportedStaysLoaded
<1>1. Solitary => Undisturbed
  BY DEF Undisturbed, Solitary
<1>2. IInv /\ Solitary /\ RInv /\ [Next]_vars => RInv'
  BY <1>1, StepKeepsRInv
<1>3. IInv /\ RInv => ReportedStaysLoaded
  BY RInvReported
<1> QED
  BY <1>2, <1>3, InitEstablishesRInv, IInvHolds, OneJobIsSolitary, PTL DEF Spec
=============================================================================
