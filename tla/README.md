# A verification of gpie (go-pie)

`gpie` installs PHP extensions: it resolves a package, takes a prebuilt module
from an OCI registry or downloads and builds one, provides the system packages
it needs, copies the module into PHP's `extension_dir` and enables it in an INI
file. This directory holds TLA+ models of the program, TLC configurations that
check them, and proofs for TLAPS. Paths such as `ini.go` are relative to
`src/internal/`.

Contents: [inventory](#inventory) ·
[modules](#modules-and-the-code-they-model) · [runs](#runs) ·
[findings](#findings) · [fairness](#fairness) · [proofs](#proofs) ·
[abstractions and limits](#abstractions-and-limits) · [plan](#plan)

## Inventory

| Component | State it keeps | Operations | Talks to |
| --- | --- | --- | --- |
| install run, `commands/install.go` | targets, prebuilts, failures, the work and result channels, the cleanup list | `classify`, `resolvePrebuilts`, `provisionSystemDeps`, the sequential loop, `runTargetsParallel`, cleanup, summary | every other component; goroutines for lookups and workers |
| system packages, `docker/docker.go`, `packages.go`, `catalog.go` | none of its own; the package database of the image | `ResolveSystemDeps`, `MergeSystemDeps`, `InstallSystemDeps`, `Missing`, `Remove` | apt or apk |
| extension store, `install/` | modules in `extension_dir`, dedicated INI files, `php.ini` | `Install`, `setupIni`, `DiscoverManaged`, `Uninstall` | the file system and fresh `php` processes |
| bundled extensions, `docker/bundled.go` | the extracted PHP source, `docker-php-ext-*.ini` | `IsBundled`, `InstallBundled` | the helper scripts of the PHP image |
| target pipeline, `download/`, `buildpkg/` | a temporary directory per artifact | `Download`, `applyVerification`, `extract`, `locate*`, `BuildWith`, `Close`, `Keep` | GitHub, Packagist, Sigstore, phpize and make |
| prebuilt lookup, `oci/` | the pull-token cache of a `Registry` | `ResolvePrebuilt`, `GetIndex`, `GetManifest`, `GetBlob`, `pullToken` | an OCI registry |
| dependency resolver, `resolver/` | none | constraint parsing and matching, version choice, metadata, requirements | Packagist |
| platform discovery, `platform/`, `commands/php_target.go` | none | chooses a PHP and introspects it, finds its `php-config` and `phpize` | `php`, `php-config`, `phpize` |
| publishing workflow, `.github/workflows/prebuild-*.yml`, `emitOciArtifact` | the tags and the index of an extension version | build and push of the cells, index job, dispatch | the OCI registry, base images, clients in the middle of a lookup |
| the rest | none | `show`, `info`, `php-list`, archive extraction, release assets, sudo and process wrappers | |

Where it is hard:

- **Parallel installs.** `--jobs N` runs `install.Install` for N packages at
  once, and nothing locks the files. With a scan directory every extension has
  a file of its own; without one all of them read, change and rewrite the same
  `php.ini`.
- **Order of file changes.** A directive must never name a module that is not
  there, for a PHP started at any moment and after any failure or kill.
- **Decisions taken early.** What to provision is decided from the cache
  lookups, long before a hit turns out not to load. What to clean up is decided
  from raw catalog names, before patterns are resolved to package names.
- **Nested fallbacks.** Prebuilt, then each download method, then a build; each
  stage can fail with temporary files on disk, and each artifact has to pass
  the policy by itself.
- **Shared lookups.** All targets are looked up at once through one registry,
  with a mutex that is held over a network request.
- **Publishing under way.** The index a lookup reads is replaced while it reads
  it; cells fail one by one, runs are cancelled, and the base image changes
  between two cells of one run.
- **Boundaries.** One comparison decides which release is installed: pre-releases,
  prefixes, hyphen ranges, components that are left out.
- **Blocks in a text.** A block in `php.ini` has no end marker; an append that is
  cut short, or a line the user has commented out, leaves a marker alone.
- **Probing.** `phpize` and `php-config` of several PHPs lie side by side, and any
  of them may fail, hang or belong to another one.
- **Cancellation.** SIGINT and SIGTERM make every later command fail; the run
  still has to end and to report.

What makes each component correct: the *install run* settles every argument
once, reports exactly the failures, keeps bundled extensions alone, and neither
removes what the image had nor what an installed module needs; the *store*
keeps directives and modules consistent and keeps what it has reported; the
*pipeline* uses nothing its policy refuses, leaves no files and ends; a *lookup*
returns only a module for the cell that was asked for, and lookups wait for each
other no longer than for one token; the *workflow* publishes nothing under the
name of another machine and ends up serving everything it has pushed; the
*resolver* takes the newest stable release the constraint denotes, and only one
the target supports; *discovery* works with one PHP and its own tools.
`PROJECT.json` lists the hazards line by
line with the properties that cover them.

## Modules and the code they model

| Module | What it is |
| --- | --- |
| `ExtRegistry` | abstract: what the store promises to the next PHP that starts |
| `ExtStore` | the files of the store and the commands that change them, one system call at a time |
| `ExtStoreProofs` | the inductive invariant of `ExtStore` and the proofs |
| `IniText` | `php.ini` line by line beside the steps of `ExtStore` |
| `IniTextProofs` | that it is a store, and the proofs about its lines |
| `BatchSchedule` | abstract: in which order a batch may be worked on |
| `InstallRun` | one `gpie install` from its arguments to its summary |
| `InstallProofs` | its inductive invariant and the proofs |
| `TargetBuild` | one target from cache and origins to an installed module |
| `TargetProofs` | its inductive invariant and the proofs |
| `OciResolve` | the concurrent cache lookups of one run |
| `OciPublish` | the workflow that publishes the cells, beside those lookups |
| `OciProofs` | the inductive invariant of both and the proofs |
| `Versions` | version constraints as the code matches them, and what they denote |
| `VersionsProofs` | that the two agree, for all versions |
| `PhpTarget` | the search for the target PHP and its tools |
| `Resolver` | one request through the search, Packagist and `classify` |
| `ResolverProofs` | the inductive invariants of a request and of the search, and the proofs |
| `Sublists` | a list without some of its members, for `IniText` and `PhpTarget` |
| `DataLemmas` | what the proofs need of numbers, of functions defined by recursion, and of `Sublists` |
| `MC*` | small instances for TLC |

`ExtStore`, `InstallRun`, `TargetBuild`, `OciResolve` and `Resolver` are five
views of one program. `InstallRun` is the frame: its arguments are what `Resolver`
has accepted, its `FromPrebuilt`/`FromSource` stand for a whole run of `TargetBuild`,
its `Lookup` for a lookup of `OciResolve`, and the last step of a target for the
file changes of `ExtStore`. `ExtStore` in turn abstracts the schedule of
`InstallRun` to its `Begin` guard: bundled extensions alone and first, at most
`flags.jobs` of the others at once, which is what `RunKeepsSchedule` proves of
`InstallRun` for every batch.

**`ExtStore`.** `so`, `scan`, `ini` and `helper` are the module files, the
dedicated INI files (by priority, because the priority is in their name),
`php.ini` and the files of `docker-php-ext-enable`. A module is absent, good or
bad (PHP fails to load it); a dedicated file holds the block of its extension or
enables nothing; `php.ini` holds the user's lines or not, and none, one or more
blocks of each extension. `pc`, `attempt` and `snap` are the local state of the
installs, `managed`, `specs`, `upc`, `target` and `usnap` that of an uninstall.
One action is one system call of `Install` or `Uninstall` together with the
computation before it: `os.WriteFile` is `ReplaceIni` (the open truncates) and
`FillIni` (the write), or `TruncatePhpIni` and `WritePhpIni`;
`appendIniReplacingBlock` is `ReadPhpIni` followed by either an append or the
two halves of a rewrite with the contents read before. `Fail` is the error
return of `install.Install`: a prebuilt falls back to the source build. `Kill`
ends the process between two calls. Each install is given its own flags,
`--jobs` and `--prefer-prebuilt`, from the constant `Flags`. The store starts empty, so that everything
a command meets was left by earlier ones.

**`InstallRun`.** `phase` is where `RunInstall` stands; the goroutines of
`resolvePrebuilts` and the workers of `runTargetsParallel` are the actions
`Lookup`, `Take` and `Deliver`, interleaved freely. `installed` and `world` are
the package database. A target needs `headers` to be built and `links` to be
loaded; the catalog names what is installed for it, so a catalog that names too
little or removes too much shows as `unbuildable` or as an `ok` target that no
longer loads. Names are raw until `Resolved` turns a pattern into what it matches,
or into nothing if its search fails (`Searches`). `LoadCheck` is the end of
`setupIni`, which `--skip-enable` (`flags.enable`) leaves out and a bundled extension
never gets to.

**`TargetBuild`.** `pc` walks through `buildAndInstallInner`; `m` is the loop
variable of `Download`. Every fetch yields any artifact. `files` are the
temporary files and directories; `Return` runs the deferred `Close`.

**`IniText`.** `ExtStore` says of `php.ini` that it has the user's part and so many
blocks of each extension. Here it is `text`, a sequence of lines, each a record
of its kind (marker, note, directive, comment, setting) and what it is about.
Every action is the action of `ExtStore` and, beside it, the operation of
`managed.go` or `ini.go` on the lines: `TextRead` runs `RemoveMarkerBlock` over what
it has read, `TextAppend` may be cut short anywhere in a block, `TextWrite` puts
back the text read before. A line cut in its middle is junk, or, if the cut is
behind the `=`, a directive that names `Torn`, the rest of a name. `TextAgrees` says
that the lines and the counts never disagree. Blank lines are left out, since every
reader skips them. The priority and version lines are one "note" without their
values: no property depends on those, but `BlockExtent` has to skip the lines.

**`OciResolve`.** One `pc` for each goroutine, one `lock` for `tokenMu`. `seen` is
the index a lookup has fetched; what it names can be fetched by digest for as
long as the lookup runs, because the registry keeps untagged manifests. The
index a repository has at the start includes annotations that are stale or
missing; a body that was found by digest may arrive damaged. An `Insecure` registry
is asked without a lock and without a token; the runs have a secure one, the
theorems hold for both.

**`OciPublish`.** One repository is one extension version. A row of the matrix is
a thread safety; the machine it is built on is the base image that is current
when the row is built (`base`, changed by `Respin`). `ci[r]` is the latest run of
the workflow: `BuildCell` is `gpie build --emit-oci` and the push to a tag,
`ListTags`, `ReadTag` and `PushIndex` are the index job, and `Abandon` is
cancellation, a timeout or a failing push. `ListTags` yields any part of the tags,
since the job hides the failure of the command that lists them (line 146 of the
workflow). One run at a time for each extension
is the `concurrency` group of the workflow. A run may be dispatched at any time
or never, so the nightly check needs no model. A lookup step leaves the
workflow alone and the other way round, except that `PushIndex` replaces the
index.

**`Versions`.** Versions and constraints are already split into numbers and
tokens. The upper half is `constraint.go`: `ConstraintMatches`, `MatchesSingle`,
`MatchesTilde`, `HyphenUpper` and so on, one operator for each function. The lower
half says what a constraint denotes without looking at the code: an interval of
triples for each term (`Interval`), all of it but the interval for `!=`
(`GroupAdmits`), a union for the alternatives (`Admits`). `RegularConstraint` says
where the two are meant to agree; outside of it are texts of four components
and numbers that overflow.

**`PhpTarget`.** `PhpTargetArgs.Resolve`: `ChoosePhp` takes the path, the selector
or what discovery finds, the two `php` processes of `PhpBinaryFromPath` end in any
order (`ProbeEnds`), and the candidates for `php-config` and `phpize` are probed one
by one. A `machine` says which programs there are and which of them fail or
hang; `late` is the deadline all probes of `php-config` share.

**`Resolver`.** One `vendor/name:constraint` through `classify`: `PackageVersions`
receives any listing or fails, `Select` is `selectVersion`, `CheckSupport` the rest of
`Resolve`, `CheckRequirements` is `checkPlatformRequirements`. The entries of a
listing have fields that are absent or unset as the p2 format has them, and the
code reads each entry by itself. `why` is the check that refused the request.

## Runs

| Run | Distinct states | What it shows |
| --- | --- | --- |
| `StoreScan` | 249,120 | Scan directory, two phpize packages and a bundled one, two parallel installs, all faults and kills: no directive dangles, what was reported stays loaded, and the store implements `ExtRegistry`. The next-state relation is that of the store without the steps on `php.ini`; `ScanDirSparesPhpIni` proves that nothing is lost. |
| `StorePhpIni` | 273,624 | No scan directory, `php.ini` line by line, appends cut short anywhere in a block, uninstalls of two names. Each install either builds from source with two workers or tries prebuilts with one (`MCNotBoth`): the lines agree with `ExtStore`, the user's lines stay, no directive dangles, and, as long as installs have run one at a time, no blocks are stacked and reports stay true. Every command ends. What an install may do that is told both is `StoreUserTextLost`. |
| `RunBatch` | 598,102 | Two batches on two images with all flags and all faults, failing searches included: packages, schedule, summary, termination. The catalog entries are ones the theorems speak of (`BatchIsListed`). |
| `TargetPipeline` | 8,262 | All policies, modes and method lists: policy, temporary files, termination. |
| `OciLookups` | 167,015 | Three lookups in two repositories, to one of which two runs of the workflow publish across a change of the base image, from listings that may be cut short: hits are for the cell and fit the machine, one token fetch per repository, complete runs serve everything, all lookups end. |
| `ResolveRequest` | 18,496 | Seven machines, eight command lines, every operator at its boundaries, seven listings: the target and its tools, the release, the requirements, termination. |

Six more runs are expected to fail; each shows a finding:

| Run | Property | Finding |
| --- | --- | --- |
| `StoreUserTextLost` | `UserTextKept` | 1 |
| `StoreTwoPriorities` | `DirectivesHaveModules` | 2 |
| `RunImap` | `RuntimeLibrariesKept` | 3 |
| `RunHitFails` | `NothingUnbuildable` | 4 |
| `TargetMismatch` | `MismatchIsFatal` | 5 |
| `ResolveInherited` | `PublishedRequirementsMet` | 6 |

Bounds and why they are enough:

- Two parallel installs are the smallest number that interleave; the files have
  no per-worker state beyond what a worker has read, and a third worker adds
  only more of the same overlaps. That directives never dangle is proved for any
  number.
- `MaxSpecs` (arguments of one uninstall) is 1 or 2; 2 lets one command name an
  extension twice, which is when the map of managed extensions is stale.
- Blocks in `php.ini` are counted 0, 1, 2, where 2 stands for more: the
  properties ask only whether there is a duplicate.
- Batches have up to four arguments: bundled and not, with and without packages,
  mixed so that both loops run, the pool has more work than workers, and two
  failures of the pool can end in the wrong order.
- Method lists have up to three entries, so that a fallback of a fallback occurs.
- Three lookups over two repositories: two share a token, and the third waits
  for the mutex of a repository that is not its own.
- Two runs of the workflow (`MaxRuns`) and two releases of the base image
  (`Bases`): a second run meets tags of the first, of the same cell and of one
  whose base is gone. One row of the matrix builds either. The theorems hold for
  any numbers.
- `MaxText` bounds the lines of `php.ini` at the start of an install, and an append is
  cut short only in a text whose length is in `CutAt`: both stop torn appends from
  making the file grow without end. In `StorePhpIni` (`MaxText = 11`,
  `CutAt = {3}`) three lines are the user's; a torn block comes right after them, and
  there is room for whole blocks of both extensions behind it. One torn append at a
  time is enough for a marker without a directive that whole blocks then follow;
  the theorems hold for any number of them, anywhere.
- `MaxPart = 99` is the largest number in a version; it stands for the largest
  64-bit number, and no comparison depends on which it is (`VersionsProofs` has it
  as a parameter).
- The machines are an image, Debian with two PHPs, the same with hanging tools and
  with one installed by hand, Homebrew with links, in and outside `$PATH`, and none. Every
  machine is combined with every command line, and every constraint with three
  targets.

Deadlock is checked in every run. The models of a single run have a `Done`
action that stutters when the run is over; the store accepts a new command
forever.

## Findings

1. **Lost updates of `php.ini`** (`StoreUserTextLost`). Two parallel installs
   without a scan directory rewrite the shared file from stale reads. Under
   `--prefer-prebuilt --jobs 2` a package whose prebuilt has failed to load falls
   back to its source and reads the file again, while another has it truncated, or
   after another has written it back from such a read; it then writes what it has
   read, and the user's own lines are gone. In the same way one install removes the
   block of another after it was verified and reported. If an install does not try
   prebuilts, or has one worker, the lines stay (`StorePhpIni`, `UserLinesKept`): each
   package then reads the file before anybody could truncate it, or finds no block
   of its own and appends.
2. **Two priorities, one extension** (`StoreTwoPriorities`). Uninstall finds one
   of two dedicated files and deletes the module under the other. The second file
   is written only if the extension is not loaded at the second install, for
   instance after an update of PHP, since `setupIni` returns early otherwise. The
   theorems carry the hypothesis `SinglePriority` for this reason.
3. **A package that is persistent and build-only** (`RunImap`). The cleanup
   compares raw catalog names, of which one is a pattern, and purges the runtime
   library of `imap`.
4. **A hit that is worse than a miss** (`RunHitFails`). A cached module whose
   runtime library was never recorded cannot be loaded, and for the fallback
   there is no compiler.
5. **A mismatch that is not fatal** (`TargetMismatch`). The next download method
   is tried after a checksum mismatch, and `--verify=skip` returns before it
   looks.
6. **Inherited fields** (`ResolveInherited`). In an answer of Packagist an entry
   leaves out what equals the entry before; the resolver reads every entry by
   itself, and accepts a release whose requirements are not met.

Found while modelling, without a run of their own (`PROJECT.json` has them with
their lines and the text each disagrees with):

- For `lib-*` requirements only -dev packages are named (docker.go:44). On Alpine the
  runtime library comes and goes with its -dev package, and a module that was
  verified before the cleanup does not load after it.
- A failed search for the names of a pattern is taken for one without matches
  (packages.go:173), although a comment in the same file warns of that; the
  runtime package is not asked for, and on Alpine the cleanup takes it.
  `RuntimeIsPersistent` says which catalog entries can bear this and finding 3.
- The cleanup list for `enchant` names a package the distribution does not have
  (install.go:725), and the package manager refuses the whole list. This rests on
  how apt and apk treat an unknown name.
- All probes of `php-config` share one deadline, so that a candidate that hangs keeps
  the right one from being found, and the fallback is one that nobody has
  validated (phpize.go:44-57). `ToolsFitTarget` states what is left.
- `isStable` looks for a dash, so that `6.0.0RC1` is preferred to the newest release
  (request.go:64). In the listings of `ResolveRequest` such an entry counts as the
  code counts it.
- The index job hides the errors of listing and reading tags and ends well, and
  the verify job looks at no more than that (prebuild-extension.yml:146), so a run is
  green although a published cell cannot be found. `BuiltIsServed` speaks of the
  runs that left nothing out.
- A lookup fetches every manifest before the match, also of images annotated with
  another cell (oci.go:80), and ends with an error if one of them cannot be read.
- `findReleaseAsset` ignores the order of preference (github.go:50).
- Commenting out a directive of gpie leaves its marker, which takes the user's
  next directive along (managed.go:219). Users who edit blocks are not modelled.
- A version tagged `v1.81.0` is looked up with the `v` and published without it
  (cell.go:36).
- The nightly check takes a tag for a cell that can be found
  (check-prebuilt-coverage.py:266), and nothing cross-checks the label of the
  distribution (prebuild-shard.yml:140). `BuiltIsServed` therefore speaks of what
  a complete run leaves, not of when there will be one.
- Closing a gzip reader does not check its footer (archive.go:227).
- `docs/prebuilt-oci.md` says that `enforce` fails hard on an unverifiable
  prebuilt, while the code falls back to the source build; it also says that
  `--install-system-deps` does not bring autoconf to Alpine, while `PhpizeDeps` does;
  `--cleanup-build-deps` runs after a batch with failures too, where README.md:110
  and packages.go:141 speak of a successful build; and `signal.NotifyContext` goes
  on swallowing signals until `stop` is called, so that a second signal does not
  kill the process as root.go:114-115 says.
- Of constraints: `^0` and `^0.0` match 0.0.0 alone; `=1.2.0` does not match an
  extension that reports "1.2"; tags are stripped, so that a constraint that pins
  a pre-release matches the stable release too. The newest match is refused when
  the target does not support it, without a look at older ones. If the loaded
  extensions cannot be read, every `ext-*` requirement is missing, and
  `ext-zend-opcache` is never found under the name PHP reports.
- A `php.ini` with CRLF line ends is rewritten with LF.

## Fairness

`IniText` assumes weak fairness of the steps of a *running* command, and none of
starting one. `InstallRun` and `TargetBuild` assume weak fairness of the program's
own steps, not of signals. Network requests have timeouts or a context,
subprocesses are waited for, and the Go scheduler runs every runnable goroutine;
that phpize, make and the package managers end by themselves is assumed, since
nothing stops a child that keeps its pipes open (procutil.go:68).

`Resolver` assumes weak fairness of its one thread of steps: probes of tools have
timeouts, a hanging one included, and the two `php` processes, which have none,
are assumed to exit. `OciPublish` needs fairness for each lookup by itself; weak
fairness is enough although all of them contend for one mutex, because the mutex
is taken at most once for each repository. Of the workflow nothing is assumed:
lookups end while it runs, hangs or is never dispatched, and however often it
replaces the index.

## Proofs

Eight modules hold proofs. All of them are for any values of the constants.
Every safety invariant and action property of the passing runs is stated by a
theorem.

| Module | Obligations | Theorem | Property |
| --- | --- | --- | --- |
| `ExtStoreProofs` | 1272 | `TypeCorrect` | `TypeOK` |
| | | `NoDanglingDirective` | `DirectivesHaveModules` |
| | | `StoreImplementsRegistry` | `ImplementsRegistry` |
| | | `ScanDirKeepsReported`, `OneJobKeepsReported` | `ReportedStaysLoaded` |
| | | `ScanDirSparesPhpIni` | `Spec => ScanSpec` |
| `IniTextProofs` | 1554 | `TextIsStore` | `TextSpec => Spec` |
| | | `NoDanglingLine` | `DirectivesHaveModules` |
| | | `AloneKeepsReported` | `ReportedStaysLoadedAlone` |
| | | `AloneDoesNotStack` | `NoStackedBlocksAlone` |
| | | `LinesAgree` | `TextAgrees` |
| | | `UserLinesKept` | `UserTextKept` |
| `InstallProofs` | 1628 | `RunIsTyped` | `TypeOK` |
| | | `ImageIsKept` | `ImageKept` |
| | | `SummaryIsComplete` | `FailuresAreReported` |
| | | `MissesCanBeBuilt` | `MissesAreBuildable` |
| | | `LibrariesAreKept` | `RuntimeLibrariesKept` |
| | | `RunKeepsSchedule` | `KeepsSchedule` |
| `OciProofs` | 543 | `PubTypesHold` | `PubTypeOK` |
| | | `HitsAreForTheirCell` | `HitIsForCell` |
| | | `HitsFitTheirMachine` | `HitFitsMachine` |
| | | `OneTokenForARepository` | `TokenFetchedOnce` |
| | | `PublishedIsServed` | `BuiltIsServed` |
| `TargetProofs` | 206 | `TargetTypeCorrect` | `TypeOK` |
| | | `NothingRefusedIsUsed` | `PolicyHolds` |
| | | `TemporaryFilesGo` | `NoTempFilesLeft` |
| `VersionsProofs` | 471 | `TermsMeanIntervals` | each term denotes its interval |
| | | `ConstraintsMeanIntervals` | `ConstraintMatches <=> Admits` |
| `ResolverProofs` | 915 | `ResolverTypeCorrect` | `TypeOK` |
| | | `TheNewestIsTarget` | `TargetIsNewest` |
| | | `TheToolsFit` | `ToolsFitTarget` |
| | | `MatchingMeansInterval` | `ConstraintMeansInterval` |
| | | `NewestStableIsSelected` | `NewestStableOfInterval` |
| | | `OnlyFittingIsAccepted` | `AcceptedFitsTarget` |
| `DataLemmas` | 269 | lemmas only | |

Some theorems have a hypothesis about the configuration. Each holds of
an instance that a run checks; the last column says what goes wrong without it
(`TypeCorrect` alone could do without `SinglePriority`):

| Hypothesis | Meaning | Without it |
| --- | --- | --- |
| `SinglePriority` | the packages of an extension declare one priority | finding 2 |
| `OneProvider` | one package for each extension | two workers of one batch write the same files |
| `HasScanDir`, or `OneJob` | INI files of their own, or one install at a time | finding 1 |
| `OneReadEach` | no install is given both `--prefer-prebuilt` and several jobs; for `UserLinesKept` only | finding 1 |
| `NoLostWrites` | no kill and no full disk between truncating and writing `php.ini` | everything in the file is lost |
| `UserTextIsPlain` | the user's lines are none that gpie writes | a marker of the user's is taken for gpie's |
| `HeadersAreListed` | the catalog and the package index provide what a build includes, without a pattern where searches may fail | a catalog with a gap |
| `RuntimeIsPersistent` | what a module links against is not build-only and depends on nothing that is; on Alpine one of its own persistent packages brings it, one that no failed search can lose (`Certain`); the headers of a bundled extension bring it, since nobody checks that such an extension loads | finding 3, and the first two without a run |
| `RegularInputs` | version texts and constraints `Versions` gives a meaning to | numbers that overflow |
| `DiscoveryIsSorted` | discovery lists the binaries by version, with the version each reports when it is run (discover.go:18-30) | the last entry is not the newest |
| `PastIsTruthful` | images from before the model say truly where they were built | an old image of another base is served |

TLC evaluates the ones about data on the instance of its run: `MCInstallBatch`
the two about the catalog (`MCInstallRun` alone also holds the catalog entries
that break them), `MCIniText` and `MCResolver` theirs.

**The store.** Assumed: `PkgAssumption` and `ConfAssumption`, which type the
constants, and `SinglePriority`.

`DirectivesHaveModules` is not inductive: nothing in it says that the module of a
worker about to write a directive is in place, or that a snapshot about to be
written back is still true. `IInv` adds, in named parts:

- `OneCommand`: an install never overlaps an uninstall, so modules only come
  while installs run;
- `CopiedFirst`: a package past `copySo` has its module;
- `SnapshotsHaveModules`: what is about to be written over `php.ini` names present
  modules only, however stale it is;
- `OneKindOfFile`, `OneDedicatedFile`, `NoStrangers`: an extension has at most
  one file that can enable it, and `DiscoverManaged` finds that one;
- `DisabledFirst`: before an uninstall deletes the module, no directive names it.

There is one lemma for each action, with one step for each part; `StepKeepsIInv`
combines them. For the refinement every step that changes the set of present
modules is a `PutModule` or a `RemoveModule`, and every other step is a
`SetDirectives` or a stutter. `DirectivesHaveModules` and its preservation carry
over to the lost updates of finding 1: a stale rewrite may drop directives, but
can never bring back one whose module is gone.

`ReportedStaysLoaded` says that what one command reported survives all the
later ones. Looking at `php.ini` alone is not enough, since during a rewrite it is
empty: `RInv` adds that what is *about to be* written loads everything reported
(`ReportedIsSafe`), and that a command takes what it names from the report before
it touches a file (`NamedNotReported`). Every step that reads `php.ini` then
passes on a good text, as long as no other install writes between the read and
the write (`Undisturbed`): with a scan directory nobody writes the shared file, and
with one job (`OneJob`) nobody else is there.

**`php.ini` line by line.** Every step of `IniText` is one of `ExtStore` (`TextIsStore`),
so what holds of a store holds of the text. `overlapped` becomes true when two
installs have been at work at once; until then the store runs like one with one
job, which gives `AloneKeepsReported`, and `StackInv` says that an install appends
only where it has found no block of its extension. `TextInv` relates the lines to
the counts: each text, read or about to be written, renders the record of the
store (`Renders`): the user's lines come first or are gone (`HeadedBy`), and every
directive of gpie's ends a whole block, whatever torn blocks lie between
(`WellFormed`). A block is removed by `Without`, which is defined by recursion; its
lemma says which lines are left and in which order, and from that follows what
every operation leaves of such a text. `UserInv` is about rewrites that overlap: while one
has the file truncated, no package finds a block of its own in it and takes the
empty file for all there is. A prebuilt attempt that fails after its first write
breaks that when it turns into a source build beside another install, so the
theorem needs `OneReadEach`; the model leaves the pool free to overlap
them, and `StoreUserTextLost` shows what happens.

**The run.** Assumed: the typing of the constants; the catalog is arbitrary.
`IInv` says in which phase what may run (`BatchInPhase`), that the sequential loop
goes in order, that each target of the pool is in the channel once, with a
worker, or among the results (`PoolBooks`), and what the summary would say by
now (`FailuresSoFar`). The last two are what `FailuresAreReported` lacks: when the
pool ends, nothing is in flight, so the results, sorted, are all of the pool's
failures. `InOrder` is a CHOOSE over sequences; its lemmas say that there is an
ascending sequence of every finite set of indices, that it lists each once, and
that this determines it.
`PackagesKept` and `RemovalSpares` are about the package database: what the
image had comes with its dependencies and is never on the list, so no removal
takes it along. For the schedule every step is mapped to one of
`BatchSchedule` or a stutter.

**The cache.** Assumed: `LookupAssumption` and `PublishAssumption`, which type the
constants, and, for `HitsFitTheirMachine` alone, `PastIsTruthful`: what was
published before the workflow of the model says truly where it was built. The
invariant `PInv` has one part for each thing a property leaves out:

- `InIndex`: a lookup that has found its image looks at one of the index it
  holds, also after that index was replaced;
- `Checked`: past `GetConfig` the config has named the cell;
- `FetchedOnce`: who holds the mutex is about to fetch a token nobody has fetched;
- `AllTruthful`: every image says truly what it was built on, in every index,
  under every tag, and in every list a job or a lookup holds;
- `Collected`: the index job has read, or has still to read, everything that has
  a tag, unless it has missed something. `BuiltIsServed` speaks of idle runs only
  and follows at `PushIndex` from this.

**The pipeline.** Assumed: `MethodsAssumption` and `OptionsAssumption`. The stage a
target is in determines which files there are (`FilesOfStage`), what has been
verified (`VerifiedSoFar`), which method is at work (`MethodAtWork`), and whether
there is a result (`ResultAtEnd`); the two safety properties follow from these
however often the loop starts over.

**Constraints and requests.** `VersionsProofs` needs `MaxPartAssumption` only.
`RegularConstraint` is about the tokens of a constraint, each with the one it would
be joined with; `TermsAreRegular` is the recursion of `ConstraintTerms` over them. The
order on triples has no gaps (`NextAfter`), so `>` and `<=` are intervals like the
others; `CaretIsInterval`, `TildeIsInterval`, `PrefixIsInterval` and
`HyphenEndIsPrefix` are the operators one by one. `ResolverProofs` assumes
`RegularInputs`: the texts and constraints are those `Versions` gives a meaning
to (`MCResolver` has TLC check that of its instance). `SelectionMeans` shows that
the CHOOSE of `SelectVersion` always has something to choose: a finite set of
triples has a first newest one (`FirstNewest`), by the well-foundedness of the
numbers, component by component. The invariant adds where the inputs come from
(`GivenInputs`, `ToldInputs`), that the introspected PHP is that of the path
(`DescribesPath`), which stage has chosen something (`StageFits`), and what has been
checked so far (`SupportedSoFar`, `RequirementsSoFar`).

`TheNewestIsTarget` follows from what discovery returns, whichever way a path is
chosen (`ChosenPath`). `TheToolsFit` has no hypothesis; its invariant says of a
search that every candidate no longer in the list has been refused
(`SearchSoFar`), except that the deadline of `php-config` ends the search for one
that hangs, and what has been found by now (`PhpizeSoFar`, `ConfigFits`,
`PhpizeFits`). Dropping the repeated candidates leaves each of them once
(`WithoutLeaves`), so a search of the shorter list is a search of all.

**Recursion.** The library's induction theorems take an operator, which these
provers cannot instantiate. `DataLemmas` states them with sets and functions
instead: `NatSetInduction` has a set of numbers that holds 0 and successors, and
`PrimitiveRecursion` a table of steps, so that a function defined by recursion
exists and unfolds. `LeastNumber` and `LargestNumber` bound searches.

**Only model-checked.** The liveness properties (`CommandEnds`, `RunEnds`,
`TargetEnds`, `LookupsEnd`, `RequestSettles`): the prover has no rules for `ENABLED`
and fairness.

## Abstractions and limits

- One gpie command at a time. Two users who run gpie at once are not modelled.
- A write to a dedicated file that fails leaves no directive, and so does a rewrite
  of `php.ini` that fails, which is the worst it can leave. An append to `php.ini`
  may stop anywhere in the block (`IniText`). What is left of a torn name is `Torn`,
  no extension of the instance (`TornAssumption`): `extension=apc` for apcu.
  `DirectivesHaveModules` is about the directives of `Ext`, so it does not count
  such a rest, which may name a module that never was.
- The runs on `php.ini` leave out the faults `enospc` and `kill`, except for an
  append that is cut short. With them the truncated file loses the user's lines,
  which the code does not promise to prevent (hazard at mod.go:189).
- Sudo and direct calls are the same step; both may fail.
- The package managers are modelled from how gpie calls them: a transaction is
  all or nothing, an unknown name makes it fail, `apt-get purge` takes dependents
  along, `apk del` drops what nothing asks for. Indirect dependencies are
  resolved in the instance. Virtual packages are not modelled.
- The batches of `RunBatch` have catalog entries that can bear a failing search, as
  `BatchIsListed` has TLC check.
- What a module links against is data of the instance, chosen after entries of
  `docker/system-deps.json`.
- `TargetBuild` does not repeat what `ExtStore` says about an install.
- How a text is split into versions, tokens, fields and lines is abstracted to
  the result: the scanner of `constraint.go`, the JSON of Packagist, the output of
  `php -i`, the annotations of a manifest. So `Versions` does not say what the code
  makes of a token that is an operator within an operator (`==^1`), or of a prefix
  with a leading `v` or spaces, which `versionHasPrefix` compares as they are;
  `RegularConstraint` has neither.
- A cell of the cache is a thread safety and a release of the base image; the
  architecture, the PHP axis and libc differ between machines in the same way,
  and the version of the extension is the repository. For a bundled extension
  the patch level of PHP takes its place.
- An index may be there before any tag is, from before the workflow of the model;
  untagged images stay reachable by digest.
- `DiscoverPhp` returns a list sorted by version; the directories it looks in are
  data of the instance.

Not modelled, and why: *archive extraction*, *privilege escalation* and *presentation*
are sequential code over files or output without a state of their own, and
`TargetBuild` and `ExtStore` treat each use of the first two as a step that
succeeds or fails; *release assets* is the choice of a name from a list, and
`TargetBuild` lets every fetch return any artifact; *subprocesses* wraps os/exec;
*Windows installs* copy several DLLs before the INI file and share nothing with
the protocol of `ExtStore` but its last step; of the *publishing scripts* the matrix
is a constant, the coverage check is left out because a run may be dispatched at
any time, and the catalog generator is run by hand.

## Plan

1. Done: `ExtRegistry`, `ExtStore` and its proofs; `BatchSchedule`, `InstallRun`;
   `TargetBuild` and its proofs; `OciResolve`, `OciPublish` and their proofs;
   `IniText`; `Versions`, `PhpTarget`, `Resolver` and the proofs about constraints and
   requests.
2. Done: proofs of all safety properties of `InstallRun`, of `ReportedStaysLoaded`,
   of `IniText`, and of the search in `PhpTarget`.
3. `TypeOK` of `ExtStore` without `SinglePriority`.
4. A composition of `InstallRun` and `TargetBuild`, where `FromPrebuilt` and
   `FromSource` are implemented by the pipeline.
5. Windows installs (several DLLs before the INI), half-finished package
   transactions, and the choice among release assets.
