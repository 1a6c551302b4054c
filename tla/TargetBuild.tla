---------------------------- MODULE TargetBuild ----------------------------
(***************************************************************************)
(* buildAndInstallInner: how one target gets from what the cache and the   *)
(* origins offer to an installed module.  A prebuilt comes first; then the *)
(* declared download methods are tried in order, and the first artifact    *)
(* that passes the verification policy, unpacks and holds what its method  *)
(* promises is built if it is source, and installed.  Every stage may      *)
(* fail, and has temporary files to take away when it does.                *)
(*                                                                         *)
(* What an origin answers is not known beforehand: each fetch yields any   *)
(* artifact.  An artifact is known by its checksum (none published, the    *)
(* published one, another one) and by whether GitHub attests to it.        *)
(***************************************************************************)
EXTENDS Naturals, Sequences

CONSTANTS
  Methods,    \* the lists of download methods packages declare
  Policies,   \* --verify
  Modes,      \* install, build or download
  Attesting   \* whether gpie was built with attestation support

MethodNames == {"composer-default", "pre-packaged-source",
                "pre-packaged-binary", "windows-binary"}
PolicyNames == {"warn", "enforce", "attest", "skip"}
ModeNames == {"install", "build", "download"}

ASSUME MethodsAssumption == Methods \subseteq Seq(MethodNames)
ASSUME OptionsAssumption ==
  Policies \subseteq PolicyNames /\ Modes \subseteq ModeNames
  /\ Attesting \subseteq BOOLEAN

Artifact == [digest : {"none", "match", "mismatch"}, attested : BOOLEAN]
NoArtifact == [digest |-> "none", attested |-> FALSE]

VARIABLES
  methods, policy, mode, attesting,  \* fixed when the target is started
  pc,         \* where the target stands
  m,          \* the download method that is tried
  artifact,   \* what was fetched last
  files,      \* temporary files on disk
  kept,       \* DownloadedPackage.keep
  result,     \* what has become of the target
  mismatched  \* history: a published checksum did not match

conf == <<methods, policy, mode, attesting>>
vars == <<conf, pc, m, artifact, files, kept, result, mismatched>>

Pc == {"prebuilt", "staged", "fetch", "verify", "attest", "check", "extract",
       "locate", "build", "install", "done"}
TempFiles == {"prebuilt.so", "attest", "root"} \X Nat   \* kind, method
Staged == <<"prebuilt.so", 0>>

TypeOK ==
  /\ methods \in Methods /\ policy \in Policies /\ mode \in Modes
  /\ attesting \in Attesting
  /\ pc \in Pc
  /\ m \in 1..Len(methods) + 1
  /\ artifact \in Artifact
  /\ files \subseteq TempFiles
  /\ kept \in BOOLEAN /\ mismatched \in BOOLEAN
  /\ result \in {"none", "failed", "prebuilt", "installed", "built", "left"}

-----------------------------------------------------------------------------
Init ==
  /\ methods \in Methods /\ policy \in Policies /\ mode \in Modes
  /\ attesting \in Attesting
  /\ pc \in IF mode = "install" THEN {"prebuilt", "fetch"} ELSE {"fetch"}
  /\ m = 1
  /\ artifact \in IF pc = "prebuilt" THEN [digest : {"none", "match"},
                                           attested : BOOLEAN]
                  ELSE {NoArtifact}
  /\ files = {}
  /\ kept = FALSE
  /\ result = "none"
  /\ mismatched = FALSE

Goto(l) == pc' = l /\ UNCHANGED result

\* buildAndInstallInner returns, and runs the deferred Close, which takes away
\* the directory of the package that was used, and of no other.
Return(r) ==
  /\ pc' = "done"
  /\ result' = r
  /\ files' = IF kept' THEN files ELSE files \ {<<"root", m>>}

\* The method fails: the next one is tried.
NextMethod == m' = m + 1 /\ Goto("fetch")

\* verifyPrebuiltPolicy: unlike a download, a prebuilt needs its attestation,
\* and a gpie that cannot check one refuses it.
PrebuiltAllowed ==
  \/ policy \in {"skip", "warn"}
  \/ policy = "enforce" /\ artifact.digest = "match"
  \/ policy = "attest" /\ attesting /\ artifact.attested

\* installPrebuilt, up to the temporary file.
StagePrebuilt ==
  /\ pc = "prebuilt"
  /\ \/ /\ PrebuiltAllowed
        /\ files' = files \cup {Staged}
        /\ Goto("staged")
     \/ Goto("fetch") /\ UNCHANGED files
  /\ UNCHANGED <<conf, m, artifact, kept, mismatched>>

\* install.Install of the staged module; its file goes either way.
InstallPrebuilt ==
  /\ pc = "staged"
  /\ files' = files \ {Staged}
  /\ \/ pc' = "done" /\ result' = "prebuilt"
     \/ Goto("fetch")
  /\ UNCHANGED <<conf, m, artifact, kept, mismatched>>

\* Mutation of Fetch: the loop runs past the last method.
FetchPastEnd ==
  /\ pc = "fetch"
  /\ \/ NextMethod /\ UNCHANGED artifact
     \/ artifact' \in Artifact /\ Goto("verify") /\ UNCHANGED m
  /\ UNCHANGED <<conf, files, kept, mismatched>>

\* The asset is looked up and fetched; there may be none.  Packagist publishes
\* SHA-1 sums, GitHub SHA-256 digests, and either may be missing.
Fetch ==
  /\ pc = "fetch" /\ m <= Len(methods)
  /\ \/ NextMethod /\ UNCHANGED artifact
     \/ artifact' \in Artifact /\ Goto("verify") /\ UNCHANGED m
  /\ UNCHANGED <<conf, files, kept, mismatched>>

\* Every declared method has failed, and there is nothing to close.
GiveUp ==
  /\ pc = "fetch" /\ m > Len(methods)
  /\ pc' = "done" /\ result' = "failed"
  /\ UNCHANGED <<conf, m, artifact, files, kept, mismatched>>

\* A distribution archive belongs to no release, so nothing attests to it.
Attestable == methods[m] # "composer-default"

\* Mutation of Verify: a missing checksum is never refused.
VerifyOnlyPublished ==
  /\ pc = "verify"
  /\ \/ policy # "skip" /\ artifact.digest = "mismatch" /\ NextMethod
     \/ /\ policy = "skip" \/ artifact.digest # "mismatch"
        /\ Goto(IF policy = "attest" /\ Attestable THEN "attest" ELSE "extract")
        /\ UNCHANGED m
  /\ mismatched' = (mismatched \/ artifact.digest = "mismatch")
  /\ UNCHANGED <<conf, artifact, files, kept>>

\* applyVerification, up to the attestation.
Verify ==
  /\ pc = "verify"
  /\ \/ policy = "skip" /\ Goto("extract") /\ UNCHANGED m
     \/ /\ policy # "skip"
        /\ \/ artifact.digest = "mismatch"
           \/ artifact.digest = "none" /\ policy = "enforce"
        /\ NextMethod
     \/ /\ \/ artifact.digest = "match"
           \/ artifact.digest = "none" /\ policy \in {"warn", "attest"}
        /\ policy # "skip"
        /\ Goto(IF policy = "attest" /\ Attestable THEN "attest" ELSE "extract")
        /\ UNCHANGED m
  /\ mismatched' = (mismatched \/ artifact.digest = "mismatch")
  /\ UNCHANGED <<conf, artifact, files, kept>>

\* The artifact is written to a file for the verifier.
StageAttest ==
  /\ pc = "attest"
  /\ \/ files' = files \cup {<<"attest", m>>} /\ Goto("check") /\ UNCHANGED m
     \/ NextMethod /\ UNCHANGED files
  /\ UNCHANGED <<conf, artifact, kept, mismatched>>

\* Mutation of CheckAttest: an error of the verifier is retried.
CheckAttestRetries ==
  /\ pc = "check"
  /\ files' = files \ {<<"attest", m>>}
  /\ Goto(IF artifact.attested THEN "extract" ELSE "attest")
  /\ UNCHANGED <<conf, m, artifact, kept, mismatched>>

\* VerifyGithubAttestation: without support for it a warning; with it, no
\* valid attestation and no answer are both errors.
CheckAttest ==
  /\ pc = "check"
  /\ files' = files \ {<<"attest", m>>}
  /\ \/ (~attesting \/ artifact.attested) /\ Goto("extract") /\ UNCHANGED m
     \/ attesting /\ NextMethod
  /\ UNCHANGED <<conf, artifact, kept, mismatched>>

\* extract takes its directory away when it fails.
Extract ==
  /\ pc = "extract"
  /\ \/ files' = files \cup {<<"root", m>>} /\ Goto("locate") /\ UNCHANGED m
     \/ NextMethod /\ UNCHANGED files
  /\ UNCHANGED <<conf, artifact, kept, mismatched>>

\* Mutation of Locate: the directory of an archive without the file stays.
LocateLeavesRoot ==
  /\ pc = "locate"
  /\ \/ /\ methods[m] \in {"composer-default", "pre-packaged-source"}
        /\ Goto("build")
        /\ UNCHANGED <<m, kept>>
     \/ NextMethod /\ UNCHANGED kept
  /\ UNCHANGED <<conf, artifact, files, mismatched>>

\* locateSourceDir, locateSharedObject or locateWindowsDll, and what the mode
\* makes of the result: a download is left where it is, a binary is not built
\* (writing it out with --emit-oci may still fail).
Locate ==
  /\ pc = "locate"
  /\ UNCHANGED <<conf, artifact, mismatched>>
  /\ \/ files' = files \ {<<"root", m>>} /\ NextMethod /\ UNCHANGED kept
     \/ /\ mode = "download"
        /\ kept' = TRUE
        /\ Return("left")
        /\ UNCHANGED m
     \/ /\ mode # "download"
        /\ methods[m] \in {"composer-default", "pre-packaged-source"}
        /\ Goto("build")
        /\ UNCHANGED <<m, files, kept>>
     \/ /\ mode = "install"
        /\ methods[m] \in {"pre-packaged-binary", "windows-binary"}
        /\ Goto("install")
        /\ UNCHANGED <<m, files, kept>>
     \/ /\ mode = "build"
        /\ methods[m] \in {"pre-packaged-binary", "windows-binary"}
        /\ kept' = kept
        /\ \/ Return("built")
           \/ methods[m] = "pre-packaged-binary" /\ Return("failed")
        /\ UNCHANGED m

\* BuildWith: phpize, configure and make in the source directory.  A failure
\* here is final: the next download method is not tried.
Build ==
  /\ pc = "build"
  /\ kept' = kept
  /\ \/ mode = "install" /\ Goto("install") /\ UNCHANGED files
     \/ mode = "build" /\ Return("built")
     \/ Return("failed")
  /\ UNCHANGED <<conf, m, artifact, mismatched>>

Install ==
  /\ pc = "install"
  /\ kept' = kept
  /\ \E r \in {"installed", "failed"} : Return(r)
  /\ UNCHANGED <<conf, m, artifact, mismatched>>

Done == pc = "done" /\ UNCHANGED vars

Step ==
  \/ StagePrebuilt \/ InstallPrebuilt \/ Fetch \/ GiveUp \/ Verify
  \/ StageAttest \/ CheckAttest \/ Extract \/ Locate \/ Build \/ Install

Next == Step \/ Done
Spec == Init /\ [][Next]_vars

\* Every call in the pipeline returns: requests have timeouts, and the commands
\* of a build end by themselves or with the context.
FairSpec == Spec /\ WF_vars(Step)

-----------------------------------------------------------------------------
(* Properties.                                                             *)

\* What the policy asks of an artifact that comes from this method.
Satisfies(method, a) ==
  CASE policy = "skip" -> TRUE
    [] policy = "warn" -> a.digest # "mismatch"
    [] policy = "enforce" -> a.digest = "match"
    [] policy = "attest" ->
         /\ a.digest # "mismatch"
         /\ attesting /\ method # "composer-default" => a.attested

\* No module is installed, built or left behind that the policy refuses, on
\* any of the ways to it: whichever method or fallback has provided it, its
\* own verification is the one that counts (README.md:147-156).
PolicyHolds ==
  /\ result \in {"installed", "built", "left"} => Satisfies(methods[m], artifact)
  /\ result = "prebuilt" => PrebuiltAllowed

\* Whatever fails, and after every fallback, only a download the user asked
\* to keep is left on disk.
NoTempFilesLeft ==
  pc = "done" => files = IF result = "left" THEN {<<"root", m>>} ELSE {}

\* The target is settled: no failure sends it round again.
TargetEnds == <>(pc = "done")

\* A checksum mismatch is always fatal (README.md:147, download/mod.go:30-31).
MismatchIsFatal == mismatched => result \in {"none", "failed"}
=============================================================================
