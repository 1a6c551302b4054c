---------------------------- MODULE TargetProofs ----------------------------
(***************************************************************************)
(* The promises of the target pipeline for method lists of any length and  *)
(* every policy and mode: nothing the policy refuses is used, and no       *)
(* temporary file stays.                                                   *)
(***************************************************************************)
EXTENDS TargetBuild, TLAPS

-----------------------------------------------------------------------------
(* The inductive invariant, in named parts.                                *)

\* A method is at work wherever an artifact is handled, one of the list.
MethodAtWork ==
  pc \in {"verify", "attest", "check", "extract", "locate", "build", "install"}
  => m \in 1..Len(methods)

\* What has been verified, and how far.
VerifiedSoFar ==
  /\ pc = "staged" => PrebuiltAllowed
  /\ pc \in {"attest", "check"} =>
       policy = "attest" /\ artifact.digest # "mismatch"
  /\ pc \in {"extract", "locate", "build", "install"} =>
       Satisfies(methods[m], artifact)

\* The files there are belong to the method at work, and to the stage it is in.
FilesOfStage ==
  files = CASE pc = "staged" -> {Staged}
            [] pc = "check" -> {<<"attest", m>>}
            [] pc \in {"locate", "build", "install"} -> {<<"root", m>>}
            [] pc = "done" /\ result = "left" -> {<<"root", m>>}
            [] OTHER -> {}

\* Only the end has a result, and only a download that is left there is kept.
ResultAtEnd ==
  /\ (result = "none") = (pc # "done")
  /\ kept = (result = "left")

IInv ==
  /\ TypeOK
  /\ MethodAtWork
  /\ VerifiedSoFar
  /\ FilesOfStage
  /\ ResultAtEnd
  /\ PolicyHolds

-----------------------------------------------------------------------------
(* Every action keeps the invariant.                                       *)

\* At the start a prebuilt is at hand, or the first method is.
LEMMA InitEstablishesIInv == Init => IInv
<1> SUFFICES ASSUME Init PROVE IInv
  OBVIOUS
<1> USE DEF Init
<1>1. Len(methods) \in Nat
  BY MethodsAssumption
<1>2. pc \in {"prebuilt", "fetch"}
  OBVIOUS
<1>3. artifact \in Artifact
  <2>1. CASE pc = "prebuilt"
    <3>1. artifact \in [digest : {"none", "match"}, attested : BOOLEAN]
      BY <2>1
    <3> QED
      BY <3>1 DEF Artifact
  <2>2. CASE pc # "prebuilt"
    <3>1. artifact = NoArtifact
      BY <2>2
    <3>2. NoArtifact \in Artifact
      BY DEF Artifact, NoArtifact
    <3> QED
      BY <3>1, <3>2
  <2> QED
    BY <2>1, <2>2
<1>4. TypeOK
  <2>1. m \in 1..Len(methods) + 1
    BY <1>1
  <2> QED
    BY <1>2, <1>3, <2>1 DEF TypeOK, Pc, TempFiles
<1>5. MethodAtWork /\ VerifiedSoFar /\ FilesOfStage /\ ResultAtEnd
  BY <1>2 DEF MethodAtWork, VerifiedSoFar, FilesOfStage, ResultAtEnd
<1>6. PolicyHolds
  BY DEF PolicyHolds
<1> QED
  BY <1>4, <1>5, <1>6 DEF IInv

\* The prebuilt, from the policy to the end of its installation.
LEMMA PrebuiltKeepsIInv ==
  ASSUME IInv, StagePrebuilt \/ InstallPrebuilt
  PROVE  IInv'
<1> USE DEF IInv, conf, Goto
<1>1. CASE StagePrebuilt
  <2>1. TypeOK'
    BY <1>1 DEF StagePrebuilt, TypeOK, Pc, TempFiles, Staged
  <2>2. MethodAtWork' /\ ResultAtEnd'
    BY <1>1 DEF StagePrebuilt, MethodAtWork, ResultAtEnd
  <2>3. VerifiedSoFar' /\ PolicyHolds'
    BY <1>1 DEF StagePrebuilt, VerifiedSoFar, PolicyHolds, PrebuiltAllowed,
                ResultAtEnd
  <2>4. FilesOfStage'
    BY <1>1 DEF StagePrebuilt, FilesOfStage
  <2> QED
    BY <2>1, <2>2, <2>3, <2>4
<1>2. CASE InstallPrebuilt
  <2>1. TypeOK'
    BY <1>2 DEF InstallPrebuilt, TypeOK, Pc
  <2>2. MethodAtWork' /\ ResultAtEnd'
    BY <1>2 DEF InstallPrebuilt, MethodAtWork, ResultAtEnd
  <2>3. VerifiedSoFar' /\ PolicyHolds'
    BY <1>2 DEF InstallPrebuilt, VerifiedSoFar, PolicyHolds, PrebuiltAllowed,
                ResultAtEnd
  <2>4. FilesOfStage'
    BY <1>2 DEF InstallPrebuilt, FilesOfStage
  <2> QED
    BY <2>1, <2>2, <2>3, <2>4
<1> QED
  BY <1>1, <1>2

\* The loop of Download: a fetch, a fallback to the next method, the end.
LEMMA FetchKeepsIInv ==
  ASSUME IInv, Fetch \/ GiveUp
  PROVE  IInv'
<1> USE DEF IInv, conf, Goto, NextMethod, Fetch, GiveUp
<1>1. Len(methods) \in Nat /\ m \in Nat
  BY MethodsAssumption DEF TypeOK
<1>2. TypeOK'
  BY <1>1 DEF TypeOK, Pc
<1>3. MethodAtWork' /\ ResultAtEnd'
  BY <1>1 DEF TypeOK, MethodAtWork, ResultAtEnd
<1>4. VerifiedSoFar' /\ PolicyHolds'
  BY DEF VerifiedSoFar, PolicyHolds, ResultAtEnd
<1>5. FilesOfStage'
  BY DEF FilesOfStage
<1> QED
  BY <1>2, <1>3, <1>4, <1>5

\* Verification: what gets past it satisfies the policy.
LEMMA VerifyKeepsIInv ==
  ASSUME IInv, Verify \/ StageAttest \/ CheckAttest
  PROVE  IInv'
<1> USE DEF IInv, conf, Goto, NextMethod
<1>1. Len(methods) \in Nat /\ m \in Nat /\ policy \in PolicyNames
  BY MethodsAssumption, OptionsAssumption DEF TypeOK
<1>2. TypeOK'
  <2>1. m \in 1..Len(methods)
    BY DEF MethodAtWork, Verify, StageAttest, CheckAttest
  <2>2. CASE Verify
    BY <1>1, <2>1, <2>2 DEF TypeOK, Pc, Verify
  <2>3. CASE StageAttest
    BY <1>1, <2>1, <2>3 DEF TypeOK, Pc, StageAttest, TempFiles
  <2>4. CASE CheckAttest
    BY <1>1, <2>1, <2>4 DEF TypeOK, Pc, CheckAttest
  <2> QED
    BY <2>2, <2>3, <2>4
<1>3. MethodAtWork' /\ ResultAtEnd'
  BY DEF MethodAtWork, ResultAtEnd, Verify, StageAttest, CheckAttest
<1>4. VerifiedSoFar'
  <2>1. CASE Verify
    BY <1>1, <2>1
    DEF Verify, VerifiedSoFar, Satisfies, Attestable, TypeOK, Artifact,
        PolicyNames
  <2>2. CASE StageAttest
    BY <2>2 DEF StageAttest, VerifiedSoFar
  <2>3. CASE CheckAttest
    BY <2>3 DEF CheckAttest, VerifiedSoFar, Satisfies
  <2> QED
    BY <2>1, <2>2, <2>3
<1>5. PolicyHolds'
  BY DEF PolicyHolds, ResultAtEnd, Verify, StageAttest, CheckAttest
<1>6. FilesOfStage'
  BY DEF FilesOfStage, Verify, StageAttest, CheckAttest
<1> QED
  BY <1>2, <1>3, <1>4, <1>5, <1>6

\* The artifact is unpacked and found, or its directory goes.
LEMMA UnpackKeepsIInv ==
  ASSUME IInv, Extract \/ Locate
  PROVE  IInv'
<1> USE DEF IInv, conf, Goto, NextMethod, Return
<1>1. Len(methods) \in Nat /\ m \in Nat
  BY MethodsAssumption DEF TypeOK
<1>2. CASE Extract
  <2>1. TypeOK'
    BY <1>1, <1>2 DEF TypeOK, MethodAtWork, Pc, Extract, TempFiles
  <2>2. MethodAtWork' /\ ResultAtEnd'
    BY <1>2 DEF Extract, MethodAtWork, ResultAtEnd
  <2>3. VerifiedSoFar' /\ PolicyHolds'
    BY <1>2 DEF Extract, VerifiedSoFar, PolicyHolds, ResultAtEnd, Satisfies
  <2>4. FilesOfStage'
    BY <1>2 DEF Extract, FilesOfStage
  <2> QED
    BY <2>1, <2>2, <2>3, <2>4
<1>3. CASE Locate
  <2>1. TypeOK'
    <3>1. m \in 1..Len(methods) /\ m' \in 1..Len(methods) + 1
      BY <1>1, <1>3 DEF MethodAtWork, Locate
    <3>2. pc' \in Pc /\ kept' \in BOOLEAN
      BY <1>3 DEF TypeOK, Pc, Locate
    <3>3. files' \subseteq TempFiles
      BY <1>3 DEF TypeOK, Locate
    <3>4. result' \in {"none", "failed", "prebuilt", "installed", "built",
                      "left"}
      BY <1>3 DEF TypeOK, Locate
    <3> QED
      BY <1>3, <3>1, <3>2, <3>3, <3>4 DEF TypeOK, Locate
  <2>2. MethodAtWork' /\ ResultAtEnd'
    BY <1>3 DEF Locate, MethodAtWork, ResultAtEnd
  <2>3. VerifiedSoFar' /\ PolicyHolds'
    BY <1>3 DEF Locate, VerifiedSoFar, PolicyHolds, ResultAtEnd, Satisfies
  <2>4. FilesOfStage'
    BY <1>3 DEF Locate, FilesOfStage, ResultAtEnd
  <2> QED
    BY <2>1, <2>2, <2>3, <2>4
<1> QED
  BY <1>2, <1>3

\* The build and the installation end the target either way.
LEMMA BuildKeepsIInv ==
  ASSUME IInv, Build \/ Install
  PROVE  IInv'
<1> USE DEF IInv, conf, Goto, Return, Build, Install
<1>1. TypeOK'
  BY DEF TypeOK, Pc
<1>2. MethodAtWork' /\ ResultAtEnd'
  BY DEF MethodAtWork, ResultAtEnd
<1>3. VerifiedSoFar' /\ PolicyHolds'
  <2>1. Satisfies(methods[m], artifact)
    BY DEF VerifiedSoFar
  <2>2. UNCHANGED <<methods, m, artifact, policy, attesting>>
    OBVIOUS
  <2>3. Satisfies(methods[m], artifact)'
    BY <2>1, <2>2 DEF Satisfies
  <2>4. pc' \in {"install", "done"} /\ result' # "prebuilt"
    BY DEF ResultAtEnd
  <2> QED
    BY <2>3, <2>4 DEF VerifiedSoFar, PolicyHolds
<1>4. FilesOfStage'
  BY DEF FilesOfStage, ResultAtEnd
<1> QED
  BY <1>1, <1>2, <1>3, <1>4

\* Every step of the pipeline keeps the invariant.
LEMMA StepKeepsIInv == IInv /\ [Next]_vars => IInv'
<1> SUFFICES ASSUME IInv, [Next]_vars PROVE IInv'
  OBVIOUS
<1>1. CASE UNCHANGED vars
  BY <1>1
  DEF vars, conf, IInv, TypeOK, MethodAtWork, VerifiedSoFar, FilesOfStage,
      ResultAtEnd, PolicyHolds, Satisfies, PrebuiltAllowed
<1>2. CASE Step
  BY <1>2, PrebuiltKeepsIInv, FetchKeepsIInv, VerifyKeepsIInv,
     UnpackKeepsIInv, BuildKeepsIInv
  DEF Step
<1> QED
  BY <1>1, <1>2 DEF Next, Done

-----------------------------------------------------------------------------
(* The theorems.                                                           *)

\* The stage a target is in determines what has been verified and which files
\* there are, for method lists of any length.
THEOREM TargetIInvHolds == Spec => []IInv
  BY InitEstablishesIInv, StepKeepsIInv, PTL DEF Spec

\* The pipeline keeps its types, and the loop over the methods its bounds.
THEOREM TargetTypeCorrect == Spec => []TypeOK
<1>1. IInv => TypeOK
  BY DEF IInv
<1> QED
  BY <1>1, TargetIInvHolds, PTL

\* Nothing is installed, built or left behind that the policy refuses,
\* whichever fallback has provided it.
THEOREM NothingRefusedIsUsed == Spec => []PolicyHolds
<1>1. IInv => PolicyHolds
  BY DEF IInv
<1> QED
  BY <1>1, TargetIInvHolds, PTL

\* However many methods fail, and wherever, no temporary file stays.
THEOREM TemporaryFilesGo == Spec => []NoTempFilesLeft
<1>1. IInv => NoTempFilesLeft
  BY DEF IInv, FilesOfStage, NoTempFilesLeft
<1> QED
  BY <1>1, TargetIInvHolds, PTL
=============================================================================
