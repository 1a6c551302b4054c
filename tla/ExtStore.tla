------------------------------ MODULE ExtStore ------------------------------
(***************************************************************************)
(* The files gpie shares with PHP and with itself: the modules in          *)
(* extension_dir, the dedicated INI files of the scan directory, the       *)
(* shared php.ini and the INI files docker-php-ext-enable writes.          *)
(*                                                                         *)
(* One gpie command runs at a time, but `gpie install --jobs N` runs the   *)
(* whole of install.Install for N packages at once, and nothing locks the  *)
(* files: every system call below is a step of its own.  The store starts  *)
(* empty, except for what the user keeps in php.ini; everything else a     *)
(* command meets is what earlier commands, failed or killed ones included, *)
(* have left behind.                                                       *)
(*                                                                         *)
(* The INI files are abstracted to what PHP and gpie tell apart in them:   *)
(* a dedicated file either holds the block of its extension or enables     *)
(* nothing; php.ini holds the user's own lines and some blocks of gpie's.  *)
(***************************************************************************)
EXTENDS Naturals, FiniteSets

CONSTANTS
  Ext,          \* extension names
  Pkg,          \* packages: records [name, ext, prio, bundled]
  HasScanDir,   \* PHP's scan directory exists
  HasPhpIni,    \* PHP loads a php.ini
  UserEnables,  \* extensions the user's own php.ini lines enable
  EnableIni,    \* FALSE under --skip-enable
  Flags,        \* of an install: records [jobs, prebuilts] (--jobs, and
                \* --prefer-prebuilt, which looks for modules in the cache)
  Faults,       \* what may go wrong: a subset of FaultKinds
  MaxSpecs      \* bound: arguments of one `gpie uninstall`

FaultKinds == {"php", "perm", "enospc", "rm", "kill"}

ASSUME PkgAssumption ==
  \A p \in Pkg : p.ext \in Ext /\ p.prio \in Nat /\ p.bundled \in BOOLEAN
ASSUME ConfAssumption ==
  /\ {HasScanDir, HasPhpIni, EnableIni} \subseteq BOOLEAN
  /\ UserEnables \subseteq Ext
  /\ Flags \subseteq [jobs : Nat \ {0}, prebuilts : BOOLEAN]
  /\ Faults \subseteq FaultKinds
  /\ MaxSpecs \in Nat

VARIABLES
  so,        \* so[e]: the module of e in extension_dir
  scan,      \* scan[e]: priorities n whose file n-e.ini holds the block of e
  ini,       \* php.ini: the user's lines and the number of blocks of each e
  helper,    \* extensions with a docker-php-ext-<e>.ini, which has no marker
  cmd,       \* the gpie command that is running
  flags,     \* the flags of the latest install
  pc,        \* pc[p]: where the install of package p stands
  attempt,   \* attempt[p]: the prebuilt module is tried before the source
  snap,      \* snap[p]: what p is about to write over php.ini
  managed,   \* managed[e]: the file DiscoverManaged found e in
  specs,     \* arguments of the uninstall still to be handled
  upc,       \* where the uninstall stands
  target,    \* the extension being uninstalled
  usnap,     \* what the uninstall is about to write over php.ini
  reported   \* history: extensions last reported as installed and enabled

store == <<so, scan, ini, helper>>
workers == <<pc, attempt, snap>>
removal == <<managed, specs, upc, target, usnap>>
vars == <<store, cmd, flags, workers, removal, reported>>

-----------------------------------------------------------------------------
(* The values of the variables.                                            *)

Module == {"absent", "good", "bad"}   \* bad: PHP fails to load it
PhpIni == [user : BOOLEAN, blocks : [Ext -> 0..2]]   \* 2: two or more
Truncated == [user |-> FALSE, blocks |-> [e \in Ext |-> 0]]
Loc == [kind : {"none", "scan", "php.ini"}, prio : Nat]
NoLoc == [kind |-> "none", prio |-> 0]
InPhpIni == [kind |-> "php.ini", prio |-> 0]
InScanDir(n) == [kind |-> "scan", prio |-> n]

InstallPc == {"idle", "queued", "copy", "check", "replace", "fill", "read",
              "append", "trunc", "write", "verify", "helper", "done", "failed"}
UninstallPc == {"idle", "pick", "read", "unlink", "trunc", "write", "rm"}

TypeOK ==
  /\ so \in [Ext -> Module]
  /\ scan \in [Ext -> SUBSET Nat]
  /\ ini \in PhpIni
  /\ helper \subseteq Ext
  /\ cmd \in {"none", "install", "uninstall"}
  /\ flags \in Flags
  /\ pc \in [Pkg -> InstallPc]
  /\ attempt \in [Pkg -> {"prebuilt", "source"}]
  /\ snap \in [Pkg -> PhpIni]
  /\ managed \in [Ext -> Loc]
  /\ specs \in Nat
  /\ upc \in UninstallPc
  /\ target \in Ext
  /\ usnap \in PhpIni
  /\ reported \subseteq Ext

-----------------------------------------------------------------------------
(* What a PHP process started now would do with these files.               *)

\* The extensions named by gpie's blocks in one version of php.ini.
Blocks(f) == {e \in Ext : f.blocks[e] > 0}

\* Extensions a directive of gpie's own names, in either kind of file.
Directives ==
  {e \in Ext : scan[e] # {} \/ (HasPhpIni /\ e \in Blocks(ini))}

\* Every directive PHP reads, whoever wrote it.
Enabled(e) ==
  \/ e \in Directives
  \/ e \in helper
  \/ HasPhpIni /\ ini.user /\ e \in UserEnables

\* PhpBinary.ExtensionIsLoaded runs a fresh `php`.
Loads(e) == so[e] = "good" /\ Enabled(e)

\* additionalIniDir and loadedPhpIni find no file to write to.
NoIniLocation == ~HasScanDir /\ ~HasPhpIni

\* Mutation of Strip: the blocks of every extension are dropped.
StripAll(f, e) == [f EXCEPT !.blocks = [x \in Ext |-> 0]]

\* RemoveMarkerBlock drops every block of e and keeps the rest.
Strip(f, e) == [f EXCEPT !.blocks[e] = 0]
AppendBlock(f, e) == [f EXCEPT !.blocks[e] = IF @ = 0 THEN 1 ELSE 2]

\* DiscoverManaged reads the scan directory in file-name order and php.ini
\* last; a later file replaces an earlier one in the map.
Discover ==
  [e \in Ext |->
     IF HasPhpIni /\ e \in Blocks(ini) THEN InPhpIni
     ELSE IF HasScanDir /\ scan[e] # {}
          THEN InScanDir(CHOOSE n \in scan[e] : \A m \in scan[e] : m <= n)
          ELSE NoLoc]

-----------------------------------------------------------------------------
Init ==
  /\ so = [e \in Ext |-> "absent"]
  /\ scan = [e \in Ext |-> {}]
  /\ ini = [Truncated EXCEPT !.user = HasPhpIni]
  /\ helper = {}
  /\ cmd = "none"
  /\ flags \in Flags
  /\ pc = [p \in Pkg |-> "idle"]
  /\ attempt = [p \in Pkg |-> "source"]
  /\ snap = [p \in Pkg |-> Truncated]
  /\ managed = [e \in Ext |-> NoLoc]
  /\ specs = 0
  /\ upc = "idle"
  /\ target \in Ext
  /\ usnap = Truncated
  /\ reported = {}

\* The process of the command is gone, and its local state with it.
ProcessEnds ==
  /\ cmd' = "none"
  /\ pc' = [p \in Pkg |-> "idle"]
  /\ attempt' = [p \in Pkg |-> "source"]
  /\ snap' = [p \in Pkg |-> Truncated]
  /\ managed' = [e \in Ext |-> NoLoc]
  /\ specs' = 0
  /\ upc' = "idle"
  /\ usnap' = Truncated
  /\ UNCHANGED flags

-----------------------------------------------------------------------------
(* gpie install.                                                           *)

Goto(p, l) == pc' = [pc EXCEPT ![p] = l]

\* Mutation of Fail: the prebuilt module is tried again.
FailRetries(p) ==
  /\ UNCHANGED attempt
  /\ Goto(p, IF attempt[p] = "prebuilt" THEN "copy" ELSE "failed")

\* An error of install.Install: a failed prebuilt falls back to the source
\* build, whose own failure is the failure of the package.
Fail(p) ==
  IF attempt[p] = "prebuilt"
  THEN /\ attempt' = [attempt EXCEPT ![p] = "source"]
       /\ Goto(p, IF p.bundled THEN "helper" ELSE "copy")
  ELSE /\ Goto(p, "failed")
       /\ UNCHANGED attempt

\* The report of a package that PHP was seen to load.
Report(p) == reported' = reported \cup {p.ext}

StartInstall(T, f) ==
  /\ cmd = "none"
  /\ T # {}
  /\ cmd' = "install"
  /\ flags' = f
  /\ pc' = [p \in Pkg |-> IF p \in T THEN "queued" ELSE "idle"]
  /\ UNCHANGED <<store, attempt, snap, removal, reported>>

Active == {p \in Pkg : pc[p] \notin {"idle", "queued", "done", "failed"}}
Parallel(p) == flags.jobs > 1 /\ ~p.bundled

\* A worker, or the sequential loop, takes p: bundled extensions and --jobs 1
\* run alone and first, the rest in a pool of that many workers.
Begin(p) ==
  /\ cmd = "install" /\ pc[p] = "queued"
  /\ IF Parallel(p)
     THEN /\ \A q \in Pkg : pc[q] = "queued" => Parallel(q)
          /\ \A q \in Active : Parallel(q)
          /\ Cardinality(Active) < flags.jobs
     ELSE Active = {}
  /\ \/ /\ flags.prebuilts
        /\ attempt' = [attempt EXCEPT ![p] = "prebuilt"]
        /\ Goto(p, "copy")
     \/ /\ attempt' = [attempt EXCEPT ![p] = "source"]
        /\ Goto(p, IF p.bundled THEN "helper" ELSE "copy")
  /\ reported' = reported \ {p.ext}
  /\ UNCHANGED <<store, cmd, flags, snap, removal>>

\* Mutation of CopySo: its error is dropped and setupIni runs anyway.
CopySoIgnoringErrors(p) ==
  /\ pc[p] = "copy"
  /\ \/ \E q \in {"good", "bad"} : so' = [so EXCEPT ![p.ext] = q]
     \/ UNCHANGED so
  /\ Goto(p, IF EnableIni THEN "check" ELSE "done")
  /\ UNCHANGED <<scan, ini, helper, cmd, flags, attempt, snap, removal, reported>>

\* copySo renames a complete file into place, or writes over the module with
\* `sudo cp` or writeDirect, which may leave half of it.  Whether PHP can load
\* a new module is unknown.
CopySo(p) ==
  /\ pc[p] = "copy"
  /\ \/ /\ \E q \in {"good", "bad"} : so' = [so EXCEPT ![p.ext] = q]
        /\ Goto(p, IF EnableIni THEN "check" ELSE "done")
        /\ UNCHANGED attempt
     \/ Fail(p) /\ UNCHANGED so   \* policy, download, build or copy failed
     \/ /\ "enospc" \in Faults
        /\ so' = [so EXCEPT ![p.ext] = "bad"]
        /\ Fail(p)
  /\ UNCHANGED <<scan, ini, helper, cmd, flags, snap, removal, reported>>

\* setupIni, up to the choice of the file to write.
CheckLoaded(p) ==
  /\ pc[p] = "check"
  /\ \/ Loads(p.ext) /\ Goto(p, "done") /\ Report(p) /\ UNCHANGED attempt
     \/ /\ ~Loads(p.ext)
        /\ Goto(p, IF HasScanDir THEN "replace"
                   ELSE IF NoIniLocation THEN "done" ELSE "read")
        /\ UNCHANGED <<attempt, reported>>
     \/ "php" \in Faults /\ Fail(p) /\ UNCHANGED reported
  /\ UNCHANGED <<store, cmd, flags, snap, removal>>

\* replaceIni: os.WriteFile truncates the dedicated file, then fills it.
ReplaceIni(p) ==
  /\ pc[p] = "replace"
  /\ \/ /\ scan' = [scan EXCEPT ![p.ext] = @ \ {p.prio}]
        /\ Goto(p, "fill")
        /\ UNCHANGED attempt
     \/ "perm" \in Faults /\ Fail(p) /\ UNCHANGED scan
  /\ UNCHANGED <<so, ini, helper, cmd, flags, snap, removal, reported>>

FillIni(p) ==
  /\ pc[p] = "fill"
  /\ \/ /\ scan' = [scan EXCEPT ![p.ext] = @ \cup {p.prio}]
        /\ Goto(p, "verify")
        /\ UNCHANGED attempt
     \/ "enospc" \in Faults /\ Fail(p) /\ UNCHANGED scan
  /\ UNCHANGED <<so, ini, helper, cmd, flags, snap, removal, reported>>

\* Mutation of ReadPhpIni: php.ini is appended to without a look at it.
ReadPhpIniNever(p) ==
  /\ pc[p] = "read"
  /\ Goto(p, "append")
  /\ UNCHANGED <<store, cmd, flags, attempt, snap, removal, reported>>

\* appendIniReplacingBlock reads php.ini.  Without a block of the extension
\* the new block is appended; with one the whole file is to be rewritten.
ReadPhpIni(p) ==
  /\ pc[p] = "read"
  /\ \/ /\ p.ext \notin Blocks(ini)
        /\ Goto(p, "append")
        /\ UNCHANGED <<attempt, snap>>
     \/ /\ p.ext \in Blocks(ini)
        /\ snap' = [snap EXCEPT ![p] = AppendBlock(Strip(ini, p.ext), p.ext)]
        /\ Goto(p, "trunc")
        /\ UNCHANGED attempt
     \/ "perm" \in Faults /\ Fail(p) /\ UNCHANGED snap
  /\ UNCHANGED <<store, cmd, flags, removal, reported>>

\* writeIni opens with O_APPEND: what is in the file by then is kept.  The
\* error may also come after the last line was written, from its line end or
\* from the close.
AppendPhpIni(p) ==
  /\ pc[p] = "append"
  /\ \/ /\ ini' = AppendBlock(ini, p.ext)
        /\ Goto(p, "verify")
        /\ UNCHANGED attempt
     \/ /\ {"perm", "enospc"} \cap Faults # {}
        /\ Fail(p)
        /\ ini' \in {ini, AppendBlock(ini, p.ext)}
  /\ UNCHANGED <<so, scan, helper, cmd, flags, snap, removal, reported>>

\* writeFile: the open truncates php.ini ...
TruncatePhpIni(p) ==
  /\ pc[p] = "trunc"
  /\ \/ /\ ini' = Truncated
        /\ Goto(p, "write")
        /\ UNCHANGED attempt
     \/ "perm" \in Faults /\ Fail(p) /\ UNCHANGED ini
  /\ UNCHANGED <<so, scan, helper, cmd, flags, snap, removal, reported>>

\* ... and the write puts back what was read earlier, over whatever others
\* have appended since.
WritePhpIni(p) ==
  /\ pc[p] = "write"
  /\ \/ /\ ini' = snap[p]
        /\ Goto(p, "verify")
        /\ UNCHANGED attempt
     \/ "enospc" \in Faults /\ Fail(p) /\ UNCHANGED ini
  /\ UNCHANGED <<so, scan, helper, cmd, flags, snap, removal, reported>>

\* Mutation of VerifyLoaded: what was written is taken to load.
VerifyNothing(p) ==
  /\ pc[p] = "verify"
  /\ Goto(p, "done") /\ Report(p)
  /\ UNCHANGED <<store, cmd, flags, attempt, snap, removal>>

\* The load check at the end of setupIni.  On failure the INI stays written.
VerifyLoaded(p) ==
  /\ pc[p] = "verify"
  /\ \/ Loads(p.ext) /\ Goto(p, "done") /\ Report(p) /\ UNCHANGED attempt
     \/ ~Loads(p.ext) /\ Fail(p) /\ UNCHANGED reported
     \/ "php" \in Faults /\ Fail(p) /\ UNCHANGED reported
  /\ UNCHANGED <<store, cmd, flags, snap, removal>>

\* docker.InstallBundled: docker-php-ext-install compiles the module, and
\* docker-php-ext-enable writes its INI unless PHP loads the module already.
InstallBundled(p) ==
  /\ pc[p] = "helper"
  /\ \/ /\ so' = [so EXCEPT ![p.ext] = "good"]
        /\ helper' = IF Enabled(p.ext) THEN helper ELSE helper \cup {p.ext}
        /\ reported' = IF p.ext \in helper' THEN reported \cup {p.ext}
                                            ELSE reported
        /\ Goto(p, "done")
     \/ /\ Goto(p, "failed")
        /\ UNCHANGED <<so, helper, reported>>
  /\ UNCHANGED <<scan, ini, cmd, flags, attempt, snap, removal>>

EndInstall ==
  /\ cmd = "install"
  /\ \A p \in Pkg : pc[p] \in {"idle", "done", "failed"}
  /\ ProcessEnds
  /\ UNCHANGED <<store, target, reported>>

-----------------------------------------------------------------------------
(* gpie uninstall.                                                         *)

StartUninstall(n) ==
  /\ cmd = "none"
  /\ cmd' = "uninstall"
  /\ specs' = n
  /\ managed' = Discover        \* once, before the first argument
  /\ upc' = "pick"
  /\ UNCHANGED <<store, flags, workers, target, usnap, reported>>

\* Mutation of PickSpec: the loop runs past the last argument.
PickSpecPastEnd(e) ==
  /\ upc = "pick"
  /\ specs' = specs - 1
  /\ UNCHANGED <<upc, target, reported>>
  /\ UNCHANGED <<store, cmd, flags, workers, managed, usnap>>

\* The next argument names e; an extension without a marker is not managed.
PickSpec(e) ==
  /\ upc = "pick" /\ specs > 0
  /\ specs' = specs - 1
  /\ \/ managed[e] = NoLoc /\ UNCHANGED <<upc, target, reported>>
     \/ /\ managed[e] # NoLoc
        /\ upc' = "read"
        /\ target' = e
        /\ reported' = reported \ {e}
  /\ UNCHANGED <<store, cmd, flags, workers, managed, usnap>>

\* Mutation of ReadManaged: the module is removed before its directive.
ReadManagedModuleFirst ==
  /\ upc = "read"
  /\ upc' = "rm"
  /\ UNCHANGED <<store, cmd, flags, workers, managed, specs, target, usnap,
                 reported>>

\* Uninstall reads the file the map names: a dedicated file that holds nothing
\* but the block is deleted, php.ini is rewritten if it changed.
ReadManaged ==
  /\ upc = "read"
  /\ \/ /\ managed[target].kind = "scan"
        /\ upc' = IF managed[target].prio \in scan[target] THEN "unlink"
                                                           ELSE "pick"
        /\ UNCHANGED usnap
     \/ /\ managed[target].kind = "php.ini"
        /\ usnap' = Strip(ini, target)
        /\ upc' = IF target \in Blocks(ini) THEN "trunc" ELSE "rm"
     \/ "perm" \in Faults /\ upc' = "pick" /\ UNCHANGED usnap
  /\ UNCHANGED <<store, cmd, flags, workers, managed, specs, target,
                 reported>>

RemoveIni ==
  /\ upc = "unlink"
  /\ \/ /\ scan' = [scan EXCEPT ![target] = @ \ {managed[target].prio}]
        /\ upc' = "rm"
     \/ "rm" \in Faults /\ upc' = "pick" /\ UNCHANGED scan
  /\ UNCHANGED <<so, ini, helper, cmd, flags, workers, managed, specs,
                 target, usnap, reported>>

TruncateManaged ==
  /\ upc = "trunc"
  /\ \/ ini' = Truncated /\ upc' = "write"
     \/ "perm" \in Faults /\ upc' = "pick" /\ UNCHANGED ini
  /\ UNCHANGED <<so, scan, helper, cmd, flags, workers, managed, specs,
                 target, usnap, reported>>

RewriteManaged ==
  /\ upc = "write"
  /\ \/ ini' = usnap /\ upc' = "rm"
     \/ "enospc" \in Faults /\ upc' = "pick" /\ UNCHANGED ini
  /\ UNCHANGED <<so, scan, helper, cmd, flags, workers, managed, specs,
                 target, usnap, reported>>

\* The module goes last, if it is there at all.
RemoveSo ==
  /\ upc = "rm"
  /\ upc' = "pick"
  /\ \/ so' = [so EXCEPT ![target] = "absent"]
     \/ "rm" \in Faults /\ UNCHANGED so
  /\ UNCHANGED <<scan, ini, helper, cmd, flags, workers, managed, specs,
                 target, usnap, reported>>

EndUninstall ==
  /\ upc = "pick" /\ specs = 0
  /\ ProcessEnds
  /\ UNCHANGED <<store, target, reported>>

-----------------------------------------------------------------------------
\* The gpie process dies between two system calls; the files stay as they are.
Kill ==
  /\ "kill" \in Faults
  /\ cmd # "none"
  /\ ProcessEnds
  /\ UNCHANGED <<store, target, reported>>

\* The steps a store with a scan directory takes.
ScanInstallStep(p) ==
  \/ Begin(p) \/ CopySo(p) \/ CheckLoaded(p) \/ ReplaceIni(p) \/ FillIni(p)
  \/ VerifyLoaded(p) \/ InstallBundled(p)

ScanUninstallStep ==
  \/ \E e \in Ext : PickSpec(e)
  \/ ReadManaged \/ RemoveIni \/ RemoveSo \/ EndUninstall

ScanNext ==
  \/ \E T \in SUBSET Pkg, f \in Flags : StartInstall(T, f)
  \/ \E p \in Pkg : ScanInstallStep(p)
  \/ EndInstall
  \/ \E n \in 1..MaxSpecs : StartUninstall(n)
  \/ ScanUninstallStep
  \/ Kill

\* The steps on the shared php.ini.
PhpIniStep(p) ==
  ReadPhpIni(p) \/ AppendPhpIni(p) \/ TruncatePhpIni(p) \/ WritePhpIni(p)

Next ==
  \/ ScanNext
  \/ \E p \in Pkg : PhpIniStep(p)
  \/ TruncateManaged
  \/ RewriteManaged

Spec == Init /\ [][Next]_vars

\* All there is to Spec when there is a scan directory
\* (ExtStoreProofs!ScanDirSparesPhpIni).
ScanSpec == Init /\ [][ScanNext]_vars

-----------------------------------------------------------------------------
(* Properties.                                                             *)

Modules == {e \in Ext : so[e] # "absent"}

\* No directive gpie owns names a module that is not there: Install puts the
\* module in place before its directive, and Uninstall disables first because
\* the other way round PHP would warn on every startup (mod.go:131-134).
\* Needs one priority for each extension.
DirectivesHaveModules == Directives \subseteq Modules

\* The same for every interleaving as a refinement: modules and directives
\* change as the abstract registry of extensions allows, and no other way.
Registry == INSTANCE ExtRegistry WITH module <- Modules, directive <- Directives
ImplementsRegistry == Registry!Spec

\* An extension gpie reported as enabled is one PHP loads, until a later
\* command names that extension: no install or uninstall of another extension,
\* failed or killed, takes it away (setupIni verifies, and then reports).
ReportedStaysLoaded == cmd = "none" => \A e \in reported : Loads(e)

\* Repeated installs, failed ones included, do not stack blocks of one
\* extension in php.ini (ini.go:161-163).
NoStackedBlocks == \A e \in Ext : ini.blocks[e] <= 1

\* Every command ends: each package is installed or fails, a prebuilt that
\* fails is followed by one source build and not by another try, and neither
\* half of the batch (sequential, pool) waits for the other forever.
CommandEnds == cmd # "none" ~> cmd = "none"
=============================================================================
