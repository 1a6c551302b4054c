----------------------------- MODULE PhpTarget -----------------------------
(***************************************************************************)
(* How a command finds the PHP it works for: PhpTargetArgs.Resolve chooses *)
(* a `php`, introspects it with two subprocesses at once, and looks for    *)
(* the php-config and the phpize of the same installation.  Every program  *)
(* it runs may fail, and one that hangs is stopped by a timeout.           *)
(*                                                                         *)
(* A path is <<directory, suffix>>: <<"usr", "8.3">> is /usr/bin/php8.3    *)
(* among the binaries and /usr/bin/phpize8.3 among the phpizes.            *)
(***************************************************************************)
EXTENDS Versions, SequencesExt, Sublists

CONSTANT
  Scenarios   \* [machine, args, request]: what a command may start with

VARIABLES
  machine,    \* [bin, tools, found, search]: the programs of this machine
  args,       \* [kind, path, selector, phpize]: the command line
  at,         \* where Resolve stands
  path,       \* the php binary that is chosen
  probes,     \* the two introspecting subprocesses
  php,        \* the introspected binary: path, version, zts, api
  cands,      \* candidates of the tool that is looked for, not yet tried
  late,       \* the deadline shared by all php-config probes has passed
  phpConfig,  \* the php-config to build with, or NoPath
  phpize      \* the phpize to build with, or NoPath

targetVars == <<machine, args, at, path, probes, php, cands, late,
                phpConfig, phpize>>

NoPath == <<"", "">>
NoPhp == [path |-> NoPath, version |-> <<0, 0, 0>>, zts |-> FALSE, api |-> 0]
Tools == {"php-config", "phpize"}
Probes == {"info", "consts"}
Missing == [run |-> "fails", api |-> 0, binary |-> NoPath]

-----------------------------------------------------------------------------
\* exec.LookPath: the first directory of $PATH that has the program.
LookPath(programs) ==
  LET hits == {i \in DOMAIN machine.search : <<machine.search[i], "">> \in programs}
  IN IF hits = {} THEN NoPath ELSE <<machine.search[Min(hits)], "">>

\* dedupConsecutive drops what equals the candidate before it.
Dedup(s) == Without(s, {i \in 2..Len(s) : s[i] = s[i - 1]})

\* candidateSiblingPaths: the sibling with the same suffix, the plain sibling,
\* and whatever is on $PATH.
CandidateSiblingPaths(p, tool) ==
  LET onPath == LookPath(DOMAIN machine.tools[tool])
  IN Dedup(<<p, <<p[1], "">>>>
           \o IF onPath = NoPath THEN <<>> ELSE <<onPath>>)

\* Running a tool; a path that does not exist fails to start.
Tool(tool, p) ==
  IF p \in DOMAIN machine.tools[tool] THEN machine.tools[tool][p] ELSE Missing

\* versionSelectorMatches: every component the selector has must be equal.
VersionSelectorMatches(selector, version) ==
  /\ Len(selector) <= Len(version)
  /\ \A i \in 1..Len(selector) : selector[i] = version[i]

\* Mutation of PhpBinaryFromSelector: the oldest match is taken.
PhpBinaryFromSelectorOldest(selector) ==
  LET matches == {i \in DOMAIN machine.found :
                    VersionSelectorMatches(selector, machine.found[i].version)}
  IN IF matches = {} THEN NoPath ELSE machine.found[Min(matches)].path

\* DiscoverPhp sorts by version, so the last match is the newest.
PhpBinaryFromSelector(selector) ==
  LET matches == {i \in DOMAIN machine.found :
                    VersionSelectorMatches(selector, machine.found[i].version)}
  IN IF matches = {} THEN NoPath ELSE machine.found[Max(matches)].path

\* DefaultPhp: the system PHP, else the newest.
DefaultPhp(list) ==
  LET system == {i \in DOMAIN list : list[i].system}
  IN IF list = <<>> THEN NoPath
     ELSE list[IF system # {} THEN Min(system) ELSE Len(list)].path

\* PhpBinaryFromPathEnv: `php` on $PATH, else what discovery finds.
PhpBinaryFromPathEnv ==
  LET onPath == LookPath(DOMAIN machine.bin)
  IN IF onPath # NoPath THEN onPath ELSE DefaultPhp(machine.found)

\* PhpTargetArgs.Resolve: the php the command line leads to.
ChosenPath ==
  CASE args.kind = "selector" -> PhpBinaryFromSelector(args.selector)
    [] args.kind = "path"     -> args.path
    [] args.kind = "none"     -> PhpBinaryFromPathEnv

-----------------------------------------------------------------------------
TargetInit ==
  /\ \E s \in Scenarios : machine = s.machine /\ args = s.args
  /\ at = "choose"
  /\ path = NoPath
  /\ probes = [k \in Probes |-> "none"]
  /\ php = NoPhp
  /\ cands = <<>>
  /\ late = FALSE
  /\ phpConfig = NoPath
  /\ phpize = NoPath

ChoosePhp ==
  /\ at = "choose"
  /\ path' = ChosenPath
  /\ IF path' = NoPath
     THEN at' = "failed" /\ UNCHANGED probes
     ELSE /\ at' = "introspect"
          /\ probes' = [k \in Probes |-> "runs"]
  /\ UNCHANGED <<machine, args, php, cands, late, phpConfig, phpize>>

\* One of the two `php` processes exits.
ProbeEnds(k) ==
  /\ at = "introspect" /\ probes[k] = "runs"
  /\ \/ path \in DOMAIN machine.bin /\ probes' = [probes EXCEPT ![k] = "ok"]
     \/ probes' = [probes EXCEPT ![k] = "failed"]
  /\ UNCHANGED <<machine, args, at, path, php, cands, late, phpConfig, phpize>>

SearchFor(tool) ==
  /\ at' = tool
  /\ cands' = CandidateSiblingPaths(php'.path, tool)
  /\ late' = FALSE

\* wg.Wait, and the record made of the two outputs.  Output that cannot be
\* parsed is as good as no output.
Introspected ==
  /\ at = "introspect" /\ \A k \in Probes : probes[k] # "runs"
  /\ IF \A k \in Probes : probes[k] = "ok"
     THEN /\ LET b == machine.bin[path]
             IN php' = [path |-> path, version |-> b.version,
                        zts |-> b.zts, api |-> b.api]
          /\ IF args.phpize # NoPath
             THEN at' = "explicit" /\ UNCHANGED <<cands, late>>
             ELSE SearchFor("php-config")
     ELSE at' = "failed" /\ UNCHANGED <<php, cands, late>>
  /\ UNCHANGED <<machine, args, path, probes, phpConfig, phpize>>

\* ExplicitPhpize checks that the named phpize runs, and nothing else.
CheckExplicitPhpize ==
  /\ at = "explicit"
  /\ UNCHANGED php
  /\ IF Tool("phpize", args.phpize).run = "ok"
     THEN phpize' = args.phpize /\ SearchFor("php-config")
     ELSE at' = "failed" /\ UNCHANGED <<cands, late, phpize>>
  /\ UNCHANGED <<machine, args, path, probes, phpConfig>>

AfterPhpConfig ==
  IF phpize = NoPath THEN SearchFor("phpize")
  ELSE at' = "target" /\ cands' = <<>> /\ UNCHANGED late

\* Mutation of ProbePhpConfig: a candidate that hangs is tried again.
ProbePhpConfigAgain ==
  /\ at = "php-config" /\ cands # <<>>
  /\ UNCHANGED php
  /\ LET t == Tool("php-config", Head(cands))
     IN IF t.run = "ok" /\ t.binary = php.path
        THEN phpConfig' = Head(cands) /\ AfterPhpConfig
        ELSE /\ cands' = IF t.run = "hangs" THEN cands ELSE Tail(cands)
             /\ UNCHANGED <<at, late, phpConfig>>
  /\ UNCHANGED <<machine, args, path, probes, phpize>>

\* guessPhpConfig tries one candidate.  One deadline bounds them all: after a
\* candidate that hangs, the rest fail at once.
ProbePhpConfig ==
  /\ at = "php-config" /\ cands # <<>>
  /\ UNCHANGED php
  /\ LET t == Tool("php-config", Head(cands))
     IN IF ~late /\ t.run = "ok" /\ t.binary = php.path
        THEN phpConfig' = Head(cands) /\ AfterPhpConfig
        ELSE /\ cands' = Tail(cands)
             /\ late' = (late \/ t.run = "hangs")
             /\ UNCHANGED <<at, phpConfig>>
  /\ UNCHANGED <<machine, args, path, probes, phpize>>

\* None points back at this php: the one on $PATH, whatever it belongs to.
FallBackToPhpConfig ==
  /\ at = "php-config" /\ cands = <<>>
  /\ UNCHANGED php
  /\ phpConfig' = LookPath(DOMAIN machine.tools["php-config"])
  /\ AfterPhpConfig
  /\ UNCHANGED <<machine, args, path, probes, phpize>>

\* Mutation of ProbePhpize: all probes share one deadline.
ProbePhpizeSharedDeadline ==
  /\ at = "phpize" /\ cands # <<>>
  /\ LET t == Tool("phpize", Head(cands))
     IN IF ~late /\ t.run = "ok" /\ t.api = php.api
        THEN phpize' = Head(cands) /\ at' = "target" /\ cands' = <<>>
             /\ UNCHANGED late
        ELSE /\ cands' = Tail(cands) /\ late' = (late \/ t.run = "hangs")
             /\ UNCHANGED <<at, phpize>>
  /\ UNCHANGED <<machine, args, path, probes, php, phpConfig>>

\* GuessPhpize tries one candidate, each with a deadline of its own.
ProbePhpize ==
  /\ at = "phpize" /\ cands # <<>>
  /\ LET t == Tool("phpize", Head(cands))
     IN IF t.run = "ok" /\ t.api = php.api
        THEN phpize' = Head(cands) /\ at' = "target" /\ cands' = <<>>
        ELSE cands' = Tail(cands) /\ UNCHANGED <<at, phpize>>
  /\ UNCHANGED <<machine, args, path, probes, php, late, phpConfig>>

\* The error of GuessPhpize is dropped: a target may have no phpize.
NoPhpize ==
  /\ at = "phpize" /\ cands = <<>>
  /\ at' = "target"
  /\ UNCHANGED <<machine, args, path, probes, php, cands, late, phpConfig,
                 phpize>>

TargetStep ==
  \/ ChoosePhp \/ (\E k \in Probes : ProbeEnds(k)) \/ Introspected
  \/ CheckExplicitPhpize \/ ProbePhpConfig \/ FallBackToPhpConfig
  \/ ProbePhpize \/ NoPhpize

-----------------------------------------------------------------------------
(* Properties.                                                             *)

\* What the two properties take from discovery: it lists the binaries by
\* version, with the version each reports when it is run, and calls one the
\* system PHP only if there is a `php` on $PATH (discover.go:18, 23, 29-30).
DiscoveryIsSorted ==
  \A s \in Scenarios :
    LET m == s.machine
    IN /\ NoPath \notin DOMAIN m.bin
       /\ m.found \in Seq(ToSet(m.found)) /\ m.search \in Seq(ToSet(m.search))
       /\ \A i, j \in DOMAIN m.found :
            i <= j => ~Before(m.found[j].version, m.found[i].version)
       /\ \A i \in DOMAIN m.found :
            /\ m.found[i].path \in DOMAIN m.bin =>
                 m.bin[m.found[i].path].version = m.found[i].version
            /\ m.found[i].system =>
                 \E k \in DOMAIN m.search : <<m.search[k], "">> \in DOMAIN m.bin

\* The target is the PHP the command line means: with a version selector the
\* newest installed PHP that has every component of it, and with neither a
\* flag nor a `php` on $PATH the newest of all (discover.go:91, 113).
TargetIsNewest ==
  LET Meant(d) == args.kind = "selector"
                    => VersionSelectorMatches(args.selector, d.version)
  IN at = "target" /\ (\/ args.kind = "selector"
                       \/ args.kind = "none" /\ LookPath(DOMAIN machine.bin) = NoPath)
     => /\ Meant(php)
        /\ \A i \in DOMAIN machine.found :
             Meant(machine.found[i])
             => ~Before(php.version, machine.found[i].version)

\* The guessed tools belong to the target.  phpize: one with the API of the
\* target is found whenever any candidate has it, behind candidates that fail,
\* hang or belong to another PHP, and no other is ever taken.  php-config: one
\* that points back at the target is preferred to every other, unless a
\* candidate hangs (phpize.go:16-19, 21-22, 41-42).
ToolsFitTarget ==
  at = "target" =>
    LET Sound(c) == /\ Tool("phpize", c).run = "ok"
                    /\ Tool("phpize", c).api = php.api
        Own(c) == /\ Tool("php-config", c).run = "ok"
                  /\ Tool("php-config", c).binary = php.path
        phpizes == ToSet(CandidateSiblingPaths(php.path, "phpize"))
        configs == ToSet(CandidateSiblingPaths(php.path, "php-config"))
    IN /\ \/ args.phpize # NoPath /\ phpize = args.phpize
          \/ args.phpize = NoPath /\ phpize \in phpizes /\ Sound(phpize)
          \/ args.phpize = NoPath /\ phpize = NoPath
             /\ \A c \in phpizes : ~Sound(c)
       /\ (/\ \E c \in configs : Own(c)
           /\ \A c \in configs : Tool("php-config", c).run # "hangs")
          => Own(phpConfig)
=============================================================================
