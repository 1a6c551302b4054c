----------------------------- MODULE InstallRun -----------------------------
(***************************************************************************)
(* One `gpie install`: RunInstall classifies its arguments, looks all of   *)
(* them up in the prebuilt cache at once, installs the system packages the *)
(* batch needs in one transaction, installs the sequential targets and     *)
(* then the rest in a pool of workers, and removes the build-only packages *)
(* it added.                                                               *)
(*                                                                         *)
(* The decision what to provision is taken from the lookups, long before   *)
(* the modules are installed and the failures of that step are known.      *)
(* What install.Install does to the files is the matter of ExtStore; here  *)
(* a module needs development packages and a compiler to be built, and     *)
(* runtime libraries to be loaded.  The package managers are external.     *)
(***************************************************************************)
EXTENDS Naturals, Sequences, FiniteSets, SequencesExt

CONSTANTS
  Requests,  \* the batches: sequences of arguments
  Images,    \* the container images gpie may run in
  Flags,     \* records [jobs, installDeps, cleanupDeps, prebuilts, enable]
  Matches,   \* Matches[r]: the package names pattern r of the catalog matches
  Depends,   \* Depends[p]: every package that p pulls in, itself not included
  Faults     \* what may fail by itself: a subset of FaultKinds

\* resolve: an argument is refused; prebuilt: a resolved artifact cannot be
\* installed; build: a download or a compilation fails; pm: a package-manager
\* command fails; search: a search for the names of a pattern fails; cancel:
\* SIGINT or SIGTERM.
FaultKinds == {"resolve", "prebuilt", "build", "pm", "search", "cancel"}

ASSUME FaultsAssumption == Faults \subseteq FaultKinds
ASSUME FlagsAssumption ==
  \A f \in Flags :
    /\ f.jobs \in Nat \ {0}
    /\ {f.cleanupDeps, f.installDeps, f.prebuilts, f.enable} \subseteq BOOLEAN
ASSUME RequestsAssumption == \A r \in Requests : r \in Seq(ToSet(r))

\* Depends is transitive, and an image complete: its package database has what
\* its packages need.  A pattern is no name, and only persistent packages are
\* named by patterns (docker/system-deps.json).
ASSUME PackagesAssumption ==
  /\ DOMAIN Depends \cap DOMAIN Matches = {}
  /\ \A p \in DOMAIN Depends :
       /\ Depends[p] \subseteq DOMAIN Depends
       /\ \A q \in Depends[p] : Depends[q] \subseteq Depends[p]
  /\ \A g \in Images :
       /\ g.installed \cup g.available \cup g.phpizeDeps \subseteq DOMAIN Depends
       /\ \A p \in g.installed : Depends[p] \subseteq g.installed
  /\ \A r \in Requests, g \in Images : \A i \in DOMAIN r :
       r[i].needs[g.family].buildOnly \subseteq DOMAIN Depends

VARIABLES
  request, image, flags,  \* fixed when the run starts
  phase,      \* where RunInstall stands
  cancelled,  \* the context is done: every command started now fails
  next,       \* the argument the classify loop looks at
  prebuilt,   \* prebuilt[i]: what the lookup of target i has found
  outcome,    \* outcome[i]: what has become of argument i
  installed,  \* the packages of the image
  world,      \* apk: the packages that were asked for
  deps,       \* what became of the package transaction
  buildDeps,  \* the packages to remove at the end
  queue,      \* workChan
  results,    \* resultsChan, in the order the builds ended
  failures    \* the failures the summary names, in order

inputs == <<request, image, flags>>
batch == <<next, prebuilt, outcome, queue, results, failures>>
packages == <<installed, world, deps, buildDeps>>
vars == <<inputs, phase, cancelled, batch, packages>>

Item == DOMAIN request
Phase == {"classify", "lookup", "provision", "sequential", "pool", "cleanup",
          "done"}
Failed == {"rejected", "unbuildable", "unloadable", "faulty"}
Outcome == {"queued", "running", "ok"} \cup Failed

TypeOK ==
  /\ request \in Requests /\ image \in Images /\ flags \in Flags
  /\ phase \in Phase /\ cancelled \in BOOLEAN
  /\ next \in 1..Len(request) + 1
  /\ prebuilt \in [Item -> {"none", "pending", "hit"}]
  /\ outcome \in [Item -> Outcome]
  /\ installed \subseteq DOMAIN Depends
  /\ world \subseteq DOMAIN Depends
  /\ deps \in {"none", "installed", "failed"}
  /\ buildDeps \subseteq DOMAIN Depends
  /\ queue \in Seq(Item) /\ results \in Seq(Item) /\ failures \in Seq(Item)

-----------------------------------------------------------------------------
(* The batch.                                                              *)

\* What argument i needs in an image of this family.
Needs(i) == request[i].needs[image.family]
Targets == {i \in Item : outcome[i] # "rejected"}
Hits == {i \in Targets : prebuilt[i] = "hit"}
Misses == Targets \ Hits
Running == {i \in Item : outcome[i] = "running"}

\* wantParallel, and the split into sequential and parallel indices.
Sequential(i) == flags.jobs = 1 \/ request[i].bundled
InOrder(S) ==
  CHOOSE s \in [1..Cardinality(S) -> S] :
    \A i, j \in DOMAIN s : i < j => s[i] < s[j]

-----------------------------------------------------------------------------
(* System packages.                                                        *)

Closure(S) == S \cup UNION {Depends[p] : p \in S}

\* The patterns whose search may succeed, which is all that can fail in the
\* resolution of a list of packages.
Searches == IF "search" \in Faults THEN SUBSET DOMAIN Matches ELSE {DOMAIN Matches}

\* ResolveRuntimePackages: names stay, and a pattern becomes the names it
\* matches, or is skipped if its search fails.
Resolved(S, found, g) ==
  (S \ DOMAIN Matches) \cup UNION {Matches[r] \cap g.available : r \in S \cap found}

\* Mutation of Phpize: one hit is enough to do without the toolchain.
PhpizeWithoutHits ==
  IF image.autoconf \/ Hits # {} THEN {} ELSE image.phpizeDeps

\* PhpizeDeps: the toolchain, unless there is a compiler or nothing that is
\* not bundled is compiled.
Phpize ==
  IF image.autoconf \/ \A i \in Misses : request[i].bundled THEN {}
  ELSE image.phpizeDeps

\* The merged dependencies of the batch: a hit needs only the runtime
\* packages its manifest names, resolved where the artifact was built.
Persistent(built) ==
  (UNION {Needs(i).persistent : i \in Misses})
    \cup UNION {Resolved(Needs(i).persistent, built, image) : i \in Hits}
BuildOnly == (UNION {Needs(i).buildOnly : i \in Misses}) \cup Phpize

\* Mutation of Missing: everything asked for counts as added by this run.
MissingAll(S) == S

\* Missing: which of the raw names of the catalog are not installed yet.
Missing(S) == S \ installed

-----------------------------------------------------------------------------
Init ==
  /\ request \in Requests /\ image \in Images /\ flags \in Flags
  /\ phase = "classify" /\ cancelled = FALSE
  /\ next = 1
  /\ prebuilt = [i \in Item |-> "none"]
  /\ outcome = [i \in Item |-> "queued"]
  /\ installed = image.installed
  /\ world = image.installed
  /\ deps = "none"
  /\ buildDeps = {}
  /\ queue = <<>> /\ results = <<>> /\ failures = <<>>

Settle(i, o) == outcome' = [outcome EXCEPT ![i] = o]

\* SIGINT or SIGTERM.
Cancel ==
  /\ "cancel" \in Faults
  /\ phase # "done" /\ ~cancelled
  /\ cancelled' = TRUE
  /\ UNCHANGED <<inputs, phase, batch, packages>>

\* Mutation of Classify: the loop runs past the last argument.
ClassifyPastEnd ==
  /\ phase = "classify"
  /\ next' = next + 1
  /\ UNCHANGED <<inputs, phase, cancelled, prebuilt, outcome, queue, results,
                 failures, packages>>

\* The loop over the arguments: one that is refused does not stop the others.
Classify ==
  /\ phase = "classify" /\ next <= Len(request)
  /\ next' = next + 1
  /\ \/ /\ cancelled => request[next].bundled
        /\ UNCHANGED <<outcome, failures>>
     \/ /\ "resolve" \in Faults \/ cancelled
        /\ Settle(next, "rejected")
        /\ failures' = Append(failures, next)
  /\ UNCHANGED <<inputs, phase, cancelled, prebuilt, queue, results, packages>>

\* resolvePrebuilts starts one goroutine for each target, if a registry is
\* asked for at all.
StartLookups ==
  /\ phase = "classify" /\ next > Len(request)
  /\ phase' = "lookup"
  /\ prebuilt' = [i \in Item |-> IF i \in Targets /\ flags.prebuilts
                                 THEN "pending" ELSE "none"]
  /\ UNCHANGED <<inputs, cancelled, next, outcome, queue, results, failures,
                 packages>>

\* Mutation of Lookup: a miss returns without wg.Done.
LookupMissNotDone(i) ==
  /\ prebuilt[i] = "pending" /\ ~cancelled
  /\ prebuilt' = [prebuilt EXCEPT ![i] = "hit"]
  /\ UNCHANGED <<inputs, phase, cancelled, next, outcome, queue, results,
                 failures, packages>>

\* The lookup of target i ends: a miss, an error and another Zend API all
\* leave the target without an artifact.
Lookup(i) ==
  /\ prebuilt[i] = "pending"
  /\ \/ prebuilt' = [prebuilt EXCEPT ![i] = "none"]
     \/ ~cancelled /\ prebuilt' = [prebuilt EXCEPT ![i] = "hit"]
  /\ UNCHANGED <<inputs, phase, cancelled, next, outcome, queue, results,
                 failures, packages>>

\* wg.Wait
EndLookups ==
  /\ phase = "lookup"
  /\ \A i \in Item : prebuilt[i] # "pending"
  /\ phase' = "provision"
  /\ UNCHANGED <<inputs, cancelled, batch, packages>>

\* AvailableBuildPackages drops the names a dry run rejects, or keeps them all
\* if it cannot tell: the sets it may return.
AvailableBuildPackages(S) ==
  {S \cap image.available} \cup (IF "pm" \in Faults THEN {S} ELSE {})

\* Install in one transaction, which fails as a whole if a name is not
\* available.
InstallPackages(wanted) ==
  /\ wanted \subseteq image.available
  /\ installed' = installed \cup Closure(wanted)
  /\ world' = world \cup wanted

\* Mutation of Provision: the runtime packages of hits are build-only too.
ProvisionRuntimeAsBuildOnly ==
  LET runtime == Resolved(Persistent(DOMAIN Matches), DOMAIN Matches, image)
  IN /\ phase = "provision" /\ flags.installDeps
     /\ phase' = "sequential"
     /\ InstallPackages(runtime \cup (BuildOnly \cap image.available))
     /\ deps' = "installed"
     /\ buildDeps' = IF flags.cleanupDeps THEN Missing(BuildOnly \cup runtime) ELSE {}
     /\ UNCHANGED <<inputs, cancelled, batch>>

\* provisionSystemDeps: failures are warnings, and leave nothing to clean up.
Provision ==
  /\ phase = "provision"
  /\ phase' = "sequential"
  /\ \E built \in Searches :
       \/ /\ ~flags.installDeps \/ Persistent(built) \cup BuildOnly = {}
          /\ UNCHANGED packages
       \/ /\ flags.installDeps /\ Persistent(built) \cup BuildOnly # {}
          /\ \E found \in Searches, kept \in AvailableBuildPackages(BuildOnly) :
               LET wanted == Resolved(Persistent(built), found, image) \cup kept
               IN \/ /\ ~cancelled
                     /\ InstallPackages(wanted)
                     /\ deps' = "installed"
                     /\ \/ flags.cleanupDeps /\ buildDeps' = Missing(BuildOnly)
                        \/ /\ ~flags.cleanupDeps \/ "pm" \in Faults
                           /\ UNCHANGED buildDeps
                  \/ /\ \/ cancelled \/ "pm" \in Faults
                        \/ ~(wanted \subseteq image.available)
                     /\ deps' = "failed"
                     /\ UNCHANGED <<installed, world, buildDeps>>
  /\ UNCHANGED <<inputs, cancelled, batch>>

-----------------------------------------------------------------------------
(* The installs.                                                           *)

\* Whether the image can compile target i, and load its module.
Toolchain(i) ==
  \/ request[i].bundled   \* docker-php-ext-configure fetches its own
  \/ image.autoconf
  \/ image.phpizeDeps # {} /\ image.phpizeDeps \subseteq installed
Buildable(i) == Toolchain(i) /\ Needs(i).headers \subseteq installed
Loadable(i) == Needs(i).links \subseteq installed

\* The load check at the end of setupIni, which --skip-enable leaves out.
LoadCheck(i) == flags.enable => Loadable(i)

\* installPrebuilt or installPrebuiltBundled succeeds.
FromPrebuilt(i) ==
  /\ prebuilt[i] = "hit"
  /\ LoadCheck(i)
  /\ Settle(i, "ok")

\* There is no artifact, or it could not be installed: build from source with
\* whatever the image has by now.  The helper scripts that build a bundled
\* extension do not check that it loads.
FromSource(i) ==
  /\ \/ prebuilt[i] # "hit" \/ ~LoadCheck(i)
     \/ "prebuilt" \in Faults \/ cancelled
  /\ \/ ~Buildable(i) /\ Settle(i, "unbuildable")
     \/ /\ Buildable(i) /\ ~request[i].bundled /\ ~LoadCheck(i)
        /\ Settle(i, "unloadable")
     \/ /\ Buildable(i) /\ (request[i].bundled \/ LoadCheck(i))
        /\ Settle(i, "ok")
     \/ ("build" \in Faults \/ cancelled) /\ Settle(i, "faulty")

\* The sequential loop takes its targets in order, one at a time.
StartSequential(i) ==
  /\ phase = "sequential" /\ Running = {}
  /\ outcome[i] = "queued" /\ Sequential(i)
  /\ \A j \in Item : j < i /\ Sequential(j) => outcome[j] # "queued"
  /\ Settle(i, "running")
  /\ UNCHANGED <<inputs, phase, cancelled, next, prebuilt, queue, results,
                 failures, packages>>

EndSequential(i) ==
  /\ phase = "sequential" /\ outcome[i] = "running"
  /\ FromPrebuilt(i) \/ FromSource(i)
  /\ failures' = IF outcome'[i] = "ok" THEN failures ELSE Append(failures, i)
  /\ UNCHANGED <<inputs, phase, cancelled, next, prebuilt, queue, results,
                 packages>>

\* Mutation of StartPool: the pool starts while a sequential target runs.
StartPoolEarly ==
  /\ phase = "sequential"
  /\ \A i \in Item : outcome[i] = "queued" => ~Sequential(i)
  /\ phase' = "pool"
  /\ queue' = InOrder({i \in Item : outcome[i] = "queued"})
  /\ UNCHANGED <<inputs, cancelled, next, prebuilt, outcome, results,
                 failures, packages>>

\* runTargetsParallel fills and closes the channel, then starts the workers.
StartPool ==
  /\ phase = "sequential" /\ Running = {}
  /\ \A i \in Item : outcome[i] = "queued" => ~Sequential(i)
  /\ phase' = "pool"
  /\ queue' = InOrder({i \in Item : outcome[i] = "queued"})
  /\ UNCHANGED <<inputs, cancelled, next, prebuilt, outcome, results,
                 failures, packages>>

\* A worker receives the next index.
Take ==
  /\ phase = "pool" /\ queue # <<>>
  /\ Cardinality(Running) < flags.jobs
  /\ queue' = Tail(queue)
  /\ Settle(Head(queue), "running")
  /\ UNCHANGED <<inputs, phase, cancelled, next, prebuilt, results, failures,
                 packages>>

\* A worker sends its result.
Deliver(i) ==
  /\ phase = "pool" /\ outcome[i] = "running"
  /\ FromPrebuilt(i) \/ FromSource(i)
  /\ results' = Append(results, i)
  /\ UNCHANGED <<inputs, phase, cancelled, next, prebuilt, queue, failures,
                 packages>>

\* Mutation of EndPool: the results are taken in the order they came.
EndPoolUnsorted ==
  /\ phase = "pool" /\ queue = <<>> /\ Running = {}
  /\ phase' = "cleanup"
  /\ failures' = failures \o SelectSeq(results, LAMBDA i : outcome[i] # "ok")
  /\ UNCHANGED <<inputs, cancelled, next, prebuilt, outcome, queue, results,
                 packages>>

\* wg.Wait, and the results in the order of the arguments.
EndPool ==
  /\ phase = "pool" /\ queue = <<>> /\ Running = {}
  /\ phase' = "cleanup"
  /\ failures' = failures \o InOrder({i \in ToSet(results) : outcome[i] # "ok"})
  /\ UNCHANGED <<inputs, cancelled, next, prebuilt, outcome, queue, results,
                 packages>>

\* PackageManager.Remove.  apt-get purge takes what depends on a package along
\* with it; apk del drops what nothing asks for any longer.  Both refuse a
\* name they do not know.
RemovePackages(S) ==
  /\ S \subseteq installed \cup image.available
  /\ world' = world \ S
  /\ installed' = IF image.family = "alpine" THEN Closure(world') \cap installed
                  ELSE {p \in installed : ({p} \cup Depends[p]) \cap S = {}}

\* The cleanup does not ask whether the batch succeeded.
Cleanup ==
  /\ phase = "cleanup"
  /\ phase' = "done"
  /\ \/ buildDeps # {} /\ ~cancelled /\ RemovePackages(buildDeps)
     \/ /\ \/ buildDeps = {} \/ cancelled \/ "pm" \in Faults
           \/ ~(buildDeps \subseteq installed \cup image.available)
        /\ UNCHANGED <<installed, world>>
  /\ UNCHANGED <<inputs, cancelled, batch, deps, buildDeps>>

\* RunInstall has returned.
Done == phase = "done" /\ UNCHANGED vars

Step ==
  \/ Classify \/ StartLookups \/ EndLookups \/ Provision
  \/ StartPool \/ Take \/ EndPool \/ Cleanup
  \/ \E i \in Item : Lookup(i) \/ StartSequential(i) \/ EndSequential(i)
                     \/ Deliver(i)

Next == Step \/ Cancel \/ Done

Spec == Init /\ [][Next]_vars

\* RunInstall and its goroutines keep running; nobody has to send a signal.
FairSpec == Spec /\ WF_vars(Step)

-----------------------------------------------------------------------------
(* Properties.                                                             *)

\* Cleaning up removes only what this run has added: what the image had stays
\* (packages.go:89-90).
ImageKept == image.installed \subseteq installed

\* What the resolution of a list is certain to give.
Certain(S, g) ==
  IF "search" \in Faults THEN S \ DOMAIN Matches ELSE Resolved(S, DOMAIN Matches, g)

\* What the catalog has to say of a batch for the next two: what a module
\* links against is neither build-only nor pulled in by something that is
\* (finding 3 is an entry for which that fails); on Alpine it comes with one
\* of the module's own persistent packages, since apk keeps nothing else, and
\* one that is certain to be resolved; and what a bundled extension is built
\* with pulls it in, since nobody checks that the extension loads.
RuntimeIsPersistent ==
  \A r \in Requests, g \in Images : \A i \in DOMAIN r :
    LET n == r[i].needs[g.family]
        only == g.phpizeDeps
                  \cup UNION {r[j].needs[g.family].buildOnly : j \in DOMAIN r}
    IN /\ r[i].bundled => n.links \subseteq Closure(n.headers)
       /\ \A p \in n.links :
            /\ ({p} \cup Depends[p]) \cap only = {}
            /\ g.family = "alpine" =>
                 \E q \in Certain(n.persistent, g) \ only : p \in {q} \cup Depends[q]

\* What a build needs comes with the packages of its entry that exist, and
\* there is a toolchain to be had.
HeadersAreListed ==
  \A r \in Requests, g \in Images :
    /\ g.autoconf \/ g.phpizeDeps # {}
    /\ g.phpizeDeps \subseteq g.available
    /\ \A i \in DOMAIN r :
         LET n == r[i].needs[g.family]
         IN n.headers \subseteq Closure(Certain(n.persistent, g)
                                         \cup (n.buildOnly \cap g.available))

\* A module that was installed has the libraries it links against, and keeps
\* them, also after --cleanup-build-deps (install.go:702-704, and the _comment
\* of system-deps.json: persistent packages stay in the image).
RuntimeLibrariesKept ==
  flags.enable => \A i \in Item : outcome[i] = "ok" => Loadable(i)

\* A package transaction that succeeds leaves the image able to compile every
\* target the cache had nothing for: filtering names that do not exist and
\* leaving the toolchain out for hits never costs a miss its build.
MissesAreBuildable ==
  flags.installDeps /\ deps # "failed" =>
    \A i \in Misses : outcome[i] # "unbuildable"

\* The same for every target: a prebuilt that was found never blocks an
\* install that a cache miss would have let through (install.go:57-60,
\* docs/prebuilt-oci.md:166-167).
NothingUnbuildable ==
  flags.installDeps /\ deps # "failed" =>
    \A i \in Item : outcome[i] # "unbuildable"

\* Those of a group that have failed, in the order of the arguments.
Failing(S) == InOrder({i \in S : outcome[i] \in Failed})

\* When the batch ends every argument has been settled, and the summary names
\* exactly those that failed, each once: first the refused ones, then those of
\* the sequential loop, then those of the pool, each group in the order of the
\* arguments however the builds have interleaved.
FailuresAreReported ==
  phase = "done" =>
    /\ \A i \in Item : outcome[i] \in {"ok"} \cup Failed
    /\ failures = Failing(Item \ Targets)
                     \o Failing({i \in Targets : Sequential(i)})
                     \o Failing({i \in Targets : ~Sequential(i)})

\* The order of the batch: what RunInstall promises, BatchSchedule says.
Schedule == INSTANCE BatchSchedule WITH
  alone <- {i \in Item : Sequential(i)},
  width <- flags.jobs,
  st <- [i \in Item |-> IF outcome[i] \in Failed THEN "failed" ELSE outcome[i]]
KeepsSchedule == Schedule!Spec

\* The run ends: no lookup, worker or channel is waited for in vain.
RunEnds == <>(phase = "done")
=============================================================================
