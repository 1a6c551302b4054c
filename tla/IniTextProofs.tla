---------------------------- MODULE IniTextProofs ----------------------------
(***************************************************************************)
(* Proofs about the shared php.ini, line by line: for any extensions,      *)
(* packages, failures and user's text.                                     *)
(***************************************************************************)
EXTENDS IniText, ExtStoreProofs, DataLemmas, FiniteSetTheorems, SequenceTheorems

-----------------------------------------------------------------------------
(* The lines beside the store.                                             *)

\* The text operations run beside the steps of the store, and add none.
LEMMA TextStepIsStoreStep ==
  ASSUME [TextNext]_tvars
  PROVE  [Next]_vars
<1>1. CASE UNCHANGED tvars
  BY <1>1 DEF tvars
<1>2. CASE TextStart
  BY <1>2 DEF TextStart, Next, ScanNext
<1>3. ASSUME NEW p \in Pkg, \/ TextBegin(p) \/ TextRead(p) \/ TextAppend(p)
                            \/ TextTruncate(p) \/ TextWrite(p)
      PROVE  Next
  BY <1>3 DEF TextBegin, TextRead, TextAppend, TextTruncate, TextWrite, Next, ScanNext,
     ScanInstallStep, PhpIniStep
<1>4. CASE TextReadManaged \/ TextTruncateManaged \/ TextRewriteManaged \/ TextEnd
  BY <1>4 DEF TextReadManaged, TextTruncateManaged, TextRewriteManaged, TextEnd, Next,
     ScanNext, ScanUninstallStep
<1>5. CASE TextIdle
  BY <1>5 DEF TextIdle, Next, ScanNext, ScanInstallStep, ScanUninstallStep
<1> QED
  BY <1>1, <1>2, <1>3, <1>4, <1>5 DEF TextNext, TextRunning

\* So php.ini line by line is a store.
THEOREM TextIsStore == TextSpec => Spec
<1>1. TextInit => Init
  BY DEF TextInit
<1>2. [TextNext]_tvars => [Next]_vars
  BY TextStepIsStoreStep
<1> QED
  BY <1>1, <1>2, PTL DEF TextSpec, Spec

\* No directive of gpie's names a missing module there either.
THEOREM NoDanglingLine ==
  ASSUME SinglePriority
  PROVE  TextSpec => []DirectivesHaveModules
BY TextIsStore, NoDanglingDirective, PTL

-----------------------------------------------------------------------------
(* As long as installs run one at a time.                                  *)

\* Until two installs have been at work at once, none has met another.
AloneInv == ~overlapped => Solitary

LEMMA StepKeepsAlone ==
  ASSUME IInv, AloneInv, [TextNext]_tvars
  PROVE  AloneInv' /\ (~overlapped' => ~overlapped)
<1>2. CASE \E p \in Pkg : TextBegin(p)
  <2>1. PICK p \in Pkg : TextBegin(p)
    BY <1>2
  <2>2. Active' = Active \cup {p}
    BY <2>1, BeginAddsOne DEF IInv, TextBegin
  <2>3. overlapped' = (overlapped \/ Active # {})
    BY <2>1 DEF TextBegin
  <2> QED
    BY <2>2, <2>3 DEF AloneInv, Solitary
<1>3. CASE ~\E p \in Pkg : TextBegin(p)
  <2>1. overlapped' = overlapped
    BY <1>3 DEF TextNext, TextStart, TextRunning, TextRead, TextAppend, TextTruncate,
       TextWrite, TextReadManaged, TextTruncateManaged, TextRewriteManaged, TextIdle,
       TextEnd, tvars
  <2>2. OtherStep
    BY <1>3 DEF TextNext, TextStart, TextRunning, TextRead, TextAppend, TextTruncate,
       TextWrite, TextReadManaged, TextTruncateManaged, TextRewriteManaged, TextIdle,
       TextEnd, OtherStep, PhpIniStep, tvars
  <2>3. Active' \subseteq Active
    BY <2>2, OthersDoNotBegin
  <2> QED
    BY <2>1, <2>3 DEF AloneInv, Solitary
<1> QED
  BY <1>2, <1>3

LEMMA InitEstablishesAlone == TextInit => IInv /\ AloneInv
<1> SUFFICES ASSUME TextInit PROVE IInv /\ AloneInv
  OBVIOUS
<1>1. Active = {}
  BY DEF TextInit, Init, Active
<1> QED
  BY <1>1, InitEstablishesIInv DEF TextInit, AloneInv, Solitary

\* As long as installs have run one at a time and no rewrite of php.ini was cut
\* short, an extension gpie reported as enabled is one PHP loads, until a command
\* names it: what is installed, fails or is uninstalled after it puts every other
\* block back.
THEOREM AloneKeepsReported ==
  ASSUME SinglePriority, HasScanDir \/ NoLostWrites
  PROVE  TextSpec => []ReportedStaysLoadedAlone
<1> DEFINE AInv == IInv /\ AloneInv /\ (~overlapped => RInv)
<1>1. TextInit => AInv
  BY InitEstablishesAlone, InitEstablishesRInv DEF TextInit
<1>2. AInv /\ [TextNext]_tvars => AInv'
  <2> SUFFICES ASSUME AInv, [TextNext]_tvars PROVE AInv'
    OBVIOUS
  <2>1. IInv' /\ AloneInv' /\ (~overlapped' => ~overlapped)
    BY TextStepIsStoreStep, StepKeepsIInv, StepKeepsAlone
  <2>2. ~overlapped => Undisturbed
    BY DEF AloneInv, Undisturbed, Solitary
  <2>3. ~overlapped' => RInv'
    BY <2>1, <2>2, TextStepIsStoreStep, StepKeepsRInv
  <2> QED
    BY <2>1, <2>3
<1>3. AInv => ReportedStaysLoadedAlone
  BY RInvReported DEF ReportedStaysLoadedAlone
<1> HIDE DEF AInv
<1> QED
  BY <1>1, <1>2, <1>3, PTL DEF TextSpec

-----------------------------------------------------------------------------
(* Blocks of one extension do not stack.                                   *)

\* One block of each extension at most, in php.ini and in what is about to be
\* written over it; and none of the extension an append is about to add one of.
Single(f) == \A e \in Ext : f.blocks[e] <= 1
StackInv ==
  /\ Single(ini)
  /\ \A p \in Pkg :
       /\ pc[p] = "append" => p.ext \notin Blocks(ini)
       /\ pc[p] \in {"trunc", "write"} => Single(snap[p])
  /\ upc \in {"trunc", "write"} => Single(usnap)

LEMMA SingleOperators ==
  ASSUME NEW f \in PhpIni, NEW e \in Ext, Single(f)
  PROVE  /\ Single(Strip(f, e)) /\ Single(AppendBlock(Strip(f, e), e))
         /\ e \notin Blocks(f) => Single(AppendBlock(f, e))
         /\ Single(Truncated)
BY DEF PhpIni, Single, Strip, AppendBlock, Blocks, Truncated

\* A package at work alone, and an uninstall, find and leave one block at most.
LEMMA StepKeepsStack ==
  ASSUME IInv, Solitary, StackInv, [Next]_vars
  PROVE  StackInv'
<1> USE DEF store, workers, removal
<1>0. TypeOK /\ ini \in PhpIni /\ OneCommand /\ snap \in [Pkg -> PhpIni] /\ target \in Ext
  BY DEF IInv, TypeOK
<1>1. ASSUME NEW p \in Pkg, PhpIniStep(p)
      PROVE  StackInv'
  <2>1. /\ pc[p] \in {"read", "append", "trunc", "write"} /\ p \in Active /\ p.ext \in Ext
        /\ upc = "idle" /\ UNCHANGED <<upc, usnap>>
    BY <1>0, <1>1, PkgAssumption DEF PhpIniStep, ReadPhpIni, AppendPhpIni, TruncatePhpIni,
       WritePhpIni, Active, OneCommand
  <2>2. \A q \in Pkg : q # p => pc'[q] = pc[q] /\ pc[q] \notin {"append", "trunc", "write"}
    <3>1. \A q \in Pkg : q # p => pc[q] \notin {"append", "trunc", "write"}
      BY <2>1 DEF Solitary, Active
    <3>2. \A q \in Pkg : q # p => pc'[q] = pc[q]
      BY <1>0, <1>1, FailMoves DEF PhpIniStep, ReadPhpIni, AppendPhpIni, TruncatePhpIni,
         WritePhpIni, Goto, TypeOK
    <3> QED
      BY <3>1, <3>2
  <2>3. CASE ReadPhpIni(p)
    <3>1. /\ ini' = ini
          /\ pc'[p] = "append" => p.ext \notin Blocks(ini)
          /\ pc'[p] # "write"
          /\ pc'[p] = "trunc" => snap'[p] = AppendBlock(Strip(ini, p.ext), p.ext)
      BY <1>0, <2>3, FailMoves DEF ReadPhpIni, Goto, TypeOK
    <3>2. Single(ini) /\ Single(AppendBlock(Strip(ini, p.ext), p.ext))
      BY <1>0, <2>1, SingleOperators DEF StackInv
    <3> QED
      BY <2>1, <2>2, <3>1, <3>2 DEF StackInv, Single, Blocks
  <2>4. CASE AppendPhpIni(p)
    <3>1. /\ ini' \in {ini, AppendBlock(ini, p.ext)}
          /\ pc'[p] \notin {"append", "trunc", "write"} /\ pc[p] = "append"
      BY <1>0, <2>4, FailMoves DEF AppendPhpIni, Goto, TypeOK
    <3>2. Single(ini) /\ Single(AppendBlock(ini, p.ext))
      BY <1>0, <2>1, <3>1, SingleOperators DEF StackInv
    <3>3. Single(ini')
      BY <3>1, <3>2
    <3> QED
      BY <2>1, <2>2, <3>1, <3>3 DEF StackInv, Single
  <2>5. CASE TruncatePhpIni(p)
    <3>1. /\ ini' \in {ini, Truncated} /\ pc[p] = "trunc" /\ pc'[p] # "append"
          /\ snap' = snap
      BY <1>0, <2>5, FailMoves DEF TruncatePhpIni, Goto, TypeOK
    <3>2. Single(ini) /\ Single(Truncated) /\ Single(snap[p])
      BY <1>0, <2>1, <3>1, SingleOperators DEF StackInv
    <3>3. Single(ini')
      BY <3>1, <3>2
    <3> QED
      BY <2>1, <2>2, <3>1, <3>2, <3>3 DEF StackInv, Single
  <2>6. CASE WritePhpIni(p)
    <3>1. /\ ini' \in {ini, snap[p]} /\ pc[p] = "write"
          /\ pc'[p] \notin {"append", "trunc", "write"}
      BY <1>0, <2>6, FailMoves DEF WritePhpIni, Goto, TypeOK
    <3>2. Single(ini')
      BY <3>1 DEF StackInv
    <3> QED
      BY <2>1, <2>2, <3>1, <3>2 DEF StackInv, Single
  <2> QED
    BY <1>1, <2>3, <2>4, <2>5, <2>6 DEF PhpIniStep
<1>2. CASE ReadManaged \/ TruncateManaged \/ RewriteManaged
  <2>1. /\ \A p \in Pkg : pc[p] = "idle" /\ pc' = pc
    BY <1>0, <1>2 DEF ReadManaged, TruncateManaged, RewriteManaged, OneCommand
  <2>2. /\ ini' \in {ini, Truncated} \/ (upc = "write" /\ ini' = usnap)
        /\ upc' \in {"trunc", "write"} =>
             usnap' = Strip(ini, target) \/ (usnap' = usnap /\ upc \in {"trunc", "write"})
    BY <1>2 DEF ReadManaged, TruncateManaged, RewriteManaged
  <2>3. Single(ini) /\ Single(Strip(ini, target)) /\ Single(Truncated)
    BY <1>0, SingleOperators DEF StackInv
  <2>4. Single(ini') /\ (upc' \in {"trunc", "write"} => Single(usnap'))
    BY <2>2, <2>3 DEF StackInv
  <2> QED
    BY <2>1, <2>4 DEF StackInv, Single
<1>3. ASSUME NEW p \in Pkg,
             \/ Begin(p) \/ CopySo(p) \/ CheckLoaded(p) \/ ReplaceIni(p) \/ FillIni(p)
             \/ VerifyLoaded(p) \/ InstallBundled(p)
      PROVE  StackInv'
  <2>1. UNCHANGED <<ini, snap, upc, usnap>>
    BY <1>3 DEF Begin, CopySo, CheckLoaded, ReplaceIni, FillIni, VerifyLoaded,
       InstallBundled
  <2>2. \A q \in Pkg : pc'[q] = pc[q] \/ pc'[q] \notin {"append", "trunc", "write"}
    <3>1. CASE Begin(p) \/ CopySo(p) \/ CheckLoaded(p) \/ ReplaceIni(p)
      BY <1>0, <3>1, FailMoves DEF Begin, CopySo, CheckLoaded, ReplaceIni, Goto, TypeOK
    <3>2. CASE FillIni(p) \/ VerifyLoaded(p) \/ InstallBundled(p)
      BY <1>0, <3>2, FailMoves DEF FillIni, VerifyLoaded, InstallBundled, Goto, TypeOK
    <3> QED
      BY <1>3, <3>1, <3>2
  <2> QED
    BY <2>1, <2>2 DEF StackInv, Single, Blocks
<1>4. CASE \/ \E T \in SUBSET Pkg, f \in Flags : StartInstall(T, f)
           \/ \E n \in 1..MaxSpecs : StartUninstall(n)
           \/ EndInstall \/ EndUninstall \/ Kill
           \/ \E e \in Ext : PickSpec(e)
           \/ RemoveIni \/ RemoveSo \/ UNCHANGED vars
  <2>1. /\ ini' = ini
        /\ \A p \in Pkg : (pc'[p] = pc[p] /\ snap'[p] = snap[p])
                          \/ pc'[p] \notin {"append", "trunc", "write"}
    BY <1>4 DEF StartInstall, StartUninstall, EndInstall, EndUninstall, Kill, ProcessEnds,
       PickSpec, RemoveIni, RemoveSo, vars
  <2>2. upc' \notin {"trunc", "write"} \/ (upc' = upc /\ usnap' = usnap)
    BY <1>4 DEF StartInstall, StartUninstall, EndInstall, EndUninstall, Kill, ProcessEnds,
       PickSpec, RemoveIni, RemoveSo, vars
  <2> QED
    BY <2>1, <2>2 DEF StackInv, Single, Blocks
<1> QED
  BY <1>1, <1>2, <1>3, <1>4 DEF Next, ScanNext, ScanInstallStep, ScanUninstallStep

\* As long as installs have run one at a time, no extension has two blocks in
\* php.ini, however often it is installed and whatever fails.
THEOREM AloneDoesNotStack ==
  ASSUME SinglePriority
  PROVE  TextSpec => []NoStackedBlocksAlone
<1> DEFINE AInv == IInv /\ AloneInv /\ (~overlapped => StackInv)
<1>1. TextInit => AInv
  BY InitEstablishesAlone DEF TextInit, Init, StackInv, Single, Truncated
<1>2. AInv /\ [TextNext]_tvars => AInv'
  <2> SUFFICES ASSUME AInv, [TextNext]_tvars PROVE AInv'
    OBVIOUS
  <2>1. IInv' /\ AloneInv' /\ (~overlapped' => ~overlapped)
    BY TextStepIsStoreStep, StepKeepsIInv, StepKeepsAlone
  <2>2. ~overlapped' => StackInv'
    BY <2>1, TextStepIsStoreStep, StepKeepsStack DEF AloneInv
  <2> QED
    BY <2>1, <2>2
<1>3. AInv => NoStackedBlocksAlone
  BY DEF NoStackedBlocksAlone, NoStackedBlocks, StackInv, Single
<1> HIDE DEF AInv
<1> QED
  BY <1>1, <1>2, <1>3, PTL DEF TextSpec
-----------------------------------------------------------------------------
(* Texts made of whole blocks.                                             *)

\* t begins with n lines of the user's, and the others are of gpie's.
HeadedBy(t, n) ==
  /\ n <= Len(t)
  /\ \A i \in 1..n : t[i] = UserText[i]
  /\ \A i \in 1..Len(t) : i > n => t[i] \in GpieLines

\* The user's lines come first or are gone, and every directive of gpie's ends
\* a whole block.
WellFormed(t) ==
  /\ t \in Seq(UserLines \cup GpieLines)
  /\ \E n \in {0, Len(UserText)} : HeadedBy(t, n)
  /\ \A j \in 1..Len(t), e \in Ext :
       t[j] = Line("directive", e) =>
         j > 2 /\ t[j - 2] = Line("marker", e) /\ t[j - 1] = Line("note", e)

DirectivesOf(t, e) == {j \in 1..Len(t) : t[j] = Line("directive", e)}

LEMMA ExtentOfBlock ==
  ASSUME NEW t, Len(t) \in Nat, NEW i \in 1..Len(t)
  PROVE  /\ \A j \in i + 1..Len(t) :
              /\ t[j].kind = "directive"
              /\ \A k \in i + 1..j - 1 : t[k].kind \in Comments
              => BlockExtent(t, i) = j
         /\ BlockExtent(t, i) # 0 =>
              /\ BlockExtent(t, i) \in i + 1..Len(t)
              /\ t[BlockExtent(t, i)].kind = "directive"
              /\ \A k \in i + 1..BlockExtent(t, i) - 1 : t[k].kind \in Comments
<1> DEFINE rest == {j \in i + 1..Len(t) : t[j].kind \notin Comments}
           least == CHOOSE j \in rest : \A k \in rest : j <= k
           first == IF rest = {} THEN 0 ELSE least
           extent == IF first # 0 /\ t[first].kind = "directive" THEN first ELSE 0
<1>1. BlockExtent(t, i) = extent
  BY DEF BlockExtent
<1>2. rest \subseteq Nat /\ rest \subseteq i + 1..Len(t)
  OBVIOUS
<1>3. ASSUME rest # {}
      PROVE  least \in rest /\ \A k \in rest : least <= k
  <2>1. \E j \in rest : \A k \in rest : j <= k
    <3> HIDE DEF rest
    <3> QED
      BY <1>2, <1>3, LeastNumber
  <2> HIDE DEF rest
  <2> QED
    BY <2>1
<1>4. \A j \in i + 1..Len(t) : j \in rest <=> t[j].kind \notin Comments
  OBVIOUS
<1> HIDE DEF rest, least
<1>5. ASSUME NEW j \in i + 1..Len(t), t[j].kind = "directive",
             \A k \in i + 1..j - 1 : t[k].kind \in Comments
      PROVE  extent = j
  <2>1. j \in rest
    BY <1>4, <1>5 DEF Comments
  <2>2. \A k \in rest : j <= k
    <3> SUFFICES ASSUME NEW k \in rest, k < j PROVE FALSE
      BY <1>2
    <3>1. k \in i + 1..j - 1
      BY <1>2
    <3> QED
      BY <1>2, <1>4, <1>5, <3>1
  <2>3. least = j
    <3>1. least \in rest /\ least <= j
      BY <1>3, <2>1
    <3>2. least \in Nat /\ j \in Nat /\ j <= least
      BY <1>2, <2>1, <2>2, <3>1
    <3> QED
      BY <3>1, <3>2
  <2> QED
    BY <1>5, <2>1, <2>3
<1>6. ASSUME extent # 0
      PROVE  /\ extent \in i + 1..Len(t)
             /\ t[extent].kind = "directive"
             /\ \A k \in i + 1..extent - 1 : t[k].kind \in Comments
  <2>1. rest # {} /\ extent = least /\ t[least].kind = "directive"
    BY <1>6
  <2>2. least \in rest /\ \A k \in rest : least <= k
    BY <1>3, <2>1
  <2>3. ASSUME NEW k \in i + 1..least - 1
        PROVE  t[k].kind \in Comments
    <3>1. k \in i + 1..Len(t) /\ ~(least <= k)
      BY <1>2, <2>2
    <3> QED
      BY <1>4, <2>2, <3>1
  <2> HIDE DEF extent
  <2> QED
    BY <1>2, <2>1, <2>2, <2>3
<1> QED
  BY <1>1, <1>5, <1>6

\* In a well formed text every directive ends a block, and every block is three
\* lines long.
LEMMA BlocksAreWhole ==
  ASSUME UserTextIsPlain, NEW t, WellFormed(t), NEW e \in Ext
  PROVE  /\ \A i \in BlocksOf(t, e) : i + 2 \in DirectivesOf(t, e) /\ BlockExtent(t, i) = i + 2
         /\ \A j \in DirectivesOf(t, e) : j - 2 \in BlocksOf(t, e)
<1>1. Len(t) \in Nat /\ DOMAIN t = 1..Len(t)
  BY DEF WellFormed
<1>2. PICK n \in {0, Len(UserText)} : HeadedBy(t, n)
  BY DEF WellFormed
<1>3. n \in Nat /\ \A i \in 1..n : i \in DOMAIN UserText /\ UserText[i] \in UserLines
  BY DEF UserTextIsPlain, UserLines
<1>4. ASSUME NEW i \in BlocksOf(t, e)
      PROVE  i + 2 \in DirectivesOf(t, e) /\ BlockExtent(t, i) = i + 2
  <2> DEFINE j == BlockExtent(t, i)
  <2>1. i \in 1..Len(t) /\ t[i].kind = "marker" /\ j # 0 /\ t[j].ext = e
    BY <1>1 DEF BlocksOf, Markers
  <2>2. j \in i + 1..Len(t) /\ t[j].kind = "directive"
        /\ \A k \in i + 1..j - 1 : t[k].kind \in Comments
    BY <1>1, <2>1, ExtentOfBlock
  <2> HIDE DEF j
  <2>3. ~(i <= n)
    BY <1>2, <1>3, <2>1 DEF HeadedBy, UserTextIsPlain
  <2>4. t[j] \in GpieLines
    BY <1>1, <1>2, <1>3, <2>1, <2>2, <2>3 DEF HeadedBy
  <2>5. t[j] = Line("directive", e)
    BY <2>1, <2>2, <2>4 DEF GpieLines, Line
  <2>6. j > 2 /\ t[j - 2] = Line("marker", e) /\ t[j - 1] = Line("note", e)
    BY <1>1, <2>1, <2>2, <2>5 DEF WellFormed
  <2>7. ~(j - 2 > i)
    <3> SUFFICES ASSUME j - 2 > i PROVE FALSE
      OBVIOUS
    <3>1. t[j - 2].kind \in Comments
      BY <1>1, <2>1, <2>2
    <3> QED
      BY <2>6, <3>1 DEF Line, Comments
  <2>8. i # j - 1
    BY <2>1, <2>6 DEF Line
  <2>9. j = i + 2
    BY <1>1, <2>1, <2>2, <2>7, <2>8
  <2>10. j \in DirectivesOf(t, e) /\ j = BlockExtent(t, i)
    BY <1>1, <2>1, <2>2, <2>5 DEF DirectivesOf, j
  <2> QED
    BY <2>9, <2>10
<1>5. ASSUME NEW j \in DirectivesOf(t, e)
      PROVE  j - 2 \in BlocksOf(t, e)
  <2>1. j \in 1..Len(t) /\ t[j] = Line("directive", e)
    BY DEF DirectivesOf
  <2>2. j > 2 /\ t[j - 2] = Line("marker", e) /\ t[j - 1] = Line("note", e)
    BY <2>1 DEF WellFormed
  <2> DEFINE i == j - 2
  <2>3. i \in 1..Len(t) /\ j \in i + 1..Len(t) /\ \A k \in i + 1..j - 1 : k = j - 1
    BY <1>1, <2>1, <2>2
  <2>4. t[j].kind = "directive" /\ t[j].ext = e /\ t[i].kind = "marker"
        /\ t[j - 1].kind \in Comments
    BY <2>1, <2>2 DEF Line, Comments
  <2> HIDE DEF i
  <2>5. BlockExtent(t, i) = j
    BY <1>1, <2>3, <2>4, ExtentOfBlock
  <2> QED
    BY <1>1, <2>1, <2>3, <2>4, <2>5 DEF BlocksOf, Markers, i
<1> QED
  BY <1>4, <1>5

\* Lines next to each other, none of them gone, stay so.
LEMMA NeighboursStay ==
  ASSUME NEW t, NEW gone, NEW r, Len(t) \in Nat, Len(r) \in Nat,
         NEW pos \in [0..Len(t) -> Nat], LeftOf(t, gone, r, pos),
         NEW i \in (1..Len(t)) \ gone, NEW j \in (1..Len(t)) \ gone, j = i + 1
  PROVE  pos[j] = pos[i] + 1
<1>1. pos[i] \in 1..Len(r) /\ pos[j] \in 1..Len(r) /\ pos[i] < pos[j]
  BY DEF LeftOf
<1>2. pos[i] + 1 \in 1..Len(r)
  BY <1>1
<1>3. PICK m \in (1..Len(t)) \ gone : pos[m] = pos[i] + 1
  BY <1>2 DEF LeftOf
<1>4. pos[m] \in Nat /\ i < m
  <2>1. m < i => pos[m] < pos[i]
    BY DEF LeftOf
  <2> QED
    BY <1>1, <1>3, <2>1
<1>5. ~(j < m)
  <2>1. j < m => pos[j] < pos[m]
    BY DEF LeftOf
  <2> QED
    BY <1>1, <1>3, <2>1
<1> QED
  BY <1>3, <1>4, <1>5

\* RemoveMarkerBlock drops the directives of e, keeps those of other extensions
\* and the user's lines, and breaks no block.
LEMMA RemovalKeepsTheRest ==
  ASSUME UserTextIsPlain, NEW t, WellFormed(t), NEW e \in Ext
  PROVE  /\ WellFormed(RemoveMarkerBlock(t, e))
         /\ HeadedBy(t, Len(UserText)) => HeadedBy(RemoveMarkerBlock(t, e), Len(UserText))
         /\ DirectivesOf(RemoveMarkerBlock(t, e), e) = {}
         /\ \A x \in Ext \ {e} :
              Cardinality(DirectivesOf(RemoveMarkerBlock(t, e), x))
                = Cardinality(DirectivesOf(t, x))
<1> DEFINE L == UserLines \cup GpieLines
           gone == UNION {i..BlockExtent(t, i) : i \in BlocksOf(t, e)}
           r == Without(t, gone)
<1>1. RemoveMarkerBlock(t, e) = r
  BY DEF RemoveMarkerBlock
<1>2. t \in Seq(L) /\ Len(t) \in Nat
  BY DEF WellFormed
<1>3. \A k : k \in gone <=> \E j \in DirectivesOf(t, e) : k \in j - 2..j
  <2>1. ASSUME NEW k \in gone
        PROVE  \E j \in DirectivesOf(t, e) : k \in j - 2..j
    <3>1. PICK i \in BlocksOf(t, e) : k \in i..BlockExtent(t, i)
      OBVIOUS
    <3>2. i + 2 \in DirectivesOf(t, e) /\ BlockExtent(t, i) = i + 2
      BY BlocksAreWhole
    <3>3. i \in Nat
      BY <1>2 DEF BlocksOf, Markers
    <3>4. (i + 2) - 2 = i
      BY <3>3
    <3> QED
      BY <3>1, <3>2, <3>4
  <2>2. ASSUME NEW j \in DirectivesOf(t, e), NEW k \in j - 2..j
        PROVE  k \in gone
    <3>1. j - 2 \in BlocksOf(t, e)
      BY BlocksAreWhole
    <3>2. BlockExtent(t, j - 2) = (j - 2) + 2 /\ j \in Nat
      BY <1>2, <3>1, BlocksAreWhole DEF DirectivesOf
    <3>3. k \in (j - 2)..BlockExtent(t, j - 2)
      BY <3>2
    <3> QED
      BY <3>1, <3>3
  <2> QED
    BY <2>1, <2>2
<1> HIDE DEF L, gone
<1>4. r \in Seq(L) /\ Len(r) \in Nat
  BY <1>2, WithoutLeaves
<1>5. PICK pos \in [0..Len(t) -> Nat] : LeftOf(t, gone, r, pos)
  BY <1>2, WithoutLeaves
<1> HIDE DEF r
<1>6. ASSUME NEW k \in gone
      PROVE  k \in 1..Len(t) /\ t[k] \in GpieLines /\ t[k].ext = e
  <2>1. PICK j \in DirectivesOf(t, e) : k \in j - 2..j
    BY <1>3
  <2>2. j \in 1..Len(t) /\ t[j] = Line("directive", e)
    BY DEF DirectivesOf
  <2>3. j > 2 /\ t[j - 2] = Line("marker", e) /\ t[j - 1] = Line("note", e)
    BY <2>2 DEF WellFormed
  <2>4. k = j - 2 \/ k = j - 1 \/ k = j
    BY <1>2, <2>1, <2>2
  <2>5. t[k] \in {Line("marker", e), Line("note", e), Line("directive", e)}
    BY <2>2, <2>3, <2>4
  <2>6. k \in 1..Len(t)
    BY <1>2, <2>2, <2>3, <2>4
  <2> QED
    BY <2>5, <2>6 DEF GpieLines, Line
<1>7. ASSUME NEW n \in {0, Len(UserText)}, HeadedBy(t, n)
      PROVE  HeadedBy(r, n)
  <2>1. n \in Nat /\ n <= Len(t) /\ \A i \in 1..n : t[i] = UserText[i] /\ t[i] \notin GpieLines
    BY <1>7 DEF HeadedBy, UserTextIsPlain, UserLines
  <2>2. \A i \in 1..n : pos[i] = i /\ i \in (1..Len(t)) \ gone
    <3>1. \A i \in 1..n : i \notin gone /\ i \in 1..Len(t)
      BY <1>2, <1>6, <2>1
    <3>2. \A i \in 1..n : (1..i) \cap gone = {}
      BY <2>1, <3>1
    <3> QED
      BY <1>5, <3>1, <3>2 DEF LeftOf
  <2>3. n <= Len(r)
    <3>1. CASE n = 0
      BY <1>4, <3>1
    <3>2. CASE n # 0
      <4>1. n \in 1..n
        BY <2>1, <3>2
      <4> QED
        BY <1>4, <1>5, <2>2, <4>1 DEF LeftOf
    <3> QED
      BY <3>1, <3>2
  <2>4. \A i \in 1..n : r[i] = UserText[i]
    BY <1>5, <2>1, <2>2 DEF LeftOf
  <2>5. ASSUME NEW k \in 1..Len(r), k > n
        PROVE  r[k] \in GpieLines
    <3>1. PICK i \in (1..Len(t)) \ gone : pos[i] = k
      BY <1>5 DEF LeftOf
    <3>2. i > n
      BY <1>2, <2>1, <2>2, <2>5, <3>1
    <3> QED
      BY <1>5, <1>7, <3>1, <3>2 DEF LeftOf, HeadedBy
  <2> QED
    BY <2>3, <2>4, <2>5 DEF HeadedBy
<1>8. ASSUME NEW x \in Ext, NEW k \in DirectivesOf(r, x)
      PROVE  /\ x # e
             /\ \E j \in DirectivesOf(t, x) :
                  /\ j \in (1..Len(t)) \ gone /\ pos[j] = k
                  /\ k > 2 /\ r[k - 2] = Line("marker", x) /\ r[k - 1] = Line("note", x)
  <2>1. k \in 1..Len(r) /\ r[k] = Line("directive", x)
    BY DEF DirectivesOf
  <2>2. PICK j \in (1..Len(t)) \ gone : pos[j] = k
    BY <1>5, <2>1 DEF LeftOf
  <2>3. t[j] = Line("directive", x) /\ j \in DirectivesOf(t, x)
    BY <1>5, <2>1, <2>2 DEF LeftOf, DirectivesOf
  <2>4. x # e
    <3>1. j \in j - 2..j
      BY <1>2
    <3> QED
      BY <1>3, <2>2, <2>3, <3>1
  <2>5. j > 2 /\ t[j - 2] = Line("marker", x) /\ t[j - 1] = Line("note", x)
    BY <2>3 DEF WellFormed
  <2>6. j - 2 \in (1..Len(t)) \ gone /\ j - 1 \in (1..Len(t)) \ gone
    BY <1>2, <1>6, <2>4, <2>5 DEF Line
  <2>7. pos[j - 1] = pos[j - 2] + 1 /\ pos[j] = pos[j - 1] + 1
    <3>1. \A a, b \in (1..Len(t)) \ gone : b = a + 1 => pos[b] = pos[a] + 1
      BY <1>2, <1>4, <1>5, NeighboursStay
    <3>2. j - 1 = (j - 2) + 1 /\ j = (j - 1) + 1
      BY <1>2
    <3> QED
      BY <2>2, <2>6, <3>1, <3>2
  <2>8. /\ pos[j - 2] \in 1..Len(r) /\ r[pos[j - 2]] = Line("marker", x)
        /\ pos[j - 1] \in 1..Len(r) /\ r[pos[j - 1]] = Line("note", x)
    BY <1>5, <2>5, <2>6 DEF LeftOf
  <2>9. k > 2 /\ k - 1 = pos[j - 1] /\ k - 2 = pos[j - 2]
    <3> DEFINE a == pos[j - 2]
               b == pos[j - 1]
    <3>1. a \in 1..Len(r) /\ b = a + 1 /\ k = b + 1
      BY <2>2, <2>7, <2>8
    <3> HIDE DEF a, b
    <3>2. k > 2 /\ k - 1 = b /\ k - 2 = a
      BY <1>4, <3>1
    <3> QED
      BY <3>2 DEF a, b
  <2> QED
    BY <2>2, <2>3, <2>4, <2>8, <2>9
<1>9. WellFormed(r)
  <2>1. \E n \in {0, Len(UserText)} : HeadedBy(r, n)
    BY <1>7 DEF WellFormed
  <2>2. \A k \in 1..Len(r), x \in Ext :
          r[k] = Line("directive", x) =>
            k > 2 /\ r[k - 2] = Line("marker", x) /\ r[k - 1] = Line("note", x)
    BY <1>8 DEF DirectivesOf
  <2> QED
    BY <1>4, <2>1, <2>2 DEF WellFormed, L
<1>10. DirectivesOf(r, e) = {}
  BY <1>8
<1>11. ASSUME NEW x \in Ext \ {e}
       PROVE  Cardinality(DirectivesOf(r, x)) = Cardinality(DirectivesOf(t, x))
  <2> DEFINE S == DirectivesOf(t, x)
             T == DirectivesOf(r, x)
             h == [j \in S |-> pos[j]]
  <2>1. IsFiniteSet(S)
    <3>1. IsFiniteSet(1..Len(t))
      BY <1>2, FS_Interval
    <3>2. S \in SUBSET (1..Len(t))
      BY DEF DirectivesOf
    <3> QED
      BY <3>1, <3>2, FS_Subset
  <2>2. \A j \in S : j \in (1..Len(t)) \ gone /\ j \in 0..Len(t)
    <3>1. \A j \in S : j \in 1..Len(t) /\ t[j].ext = x
      BY DEF DirectivesOf, Line
    <3> QED
      BY <1>2, <1>6, <3>1
  <2>3. \A j \in S : pos[j] \in T
    BY <1>5, <2>2 DEF LeftOf, DirectivesOf
  <2>4. \A i, j \in S : pos[i] = pos[j] => i = j
    <3> SUFFICES ASSUME NEW i \in S, NEW j \in S, pos[i] = pos[j], i # j PROVE FALSE
      OBVIOUS
    <3>1. (i < j => pos[i] < pos[j]) /\ (j < i => pos[j] < pos[i])
      BY <1>5, <2>2 DEF LeftOf
    <3>2. i \in Nat /\ j \in Nat /\ pos[i] \in Nat /\ pos[j] \in Nat
      BY <1>2, <2>2
    <3> QED
      BY <3>1, <3>2
  <2>5. \A k \in T : \E j \in S : pos[j] = k
    BY <1>8
  <2> HIDE DEF S, T
  <2>6. h \in Bijection(S, T)
    BY <2>3, <2>4, <2>5 DEF Bijection, Injection, Surjection, IsInjective
  <2>7. ExistsBijection(S, T)
    BY <2>6 DEF ExistsBijection
  <2>8. Cardinality(T) = Cardinality(S)
    BY <2>1, <2>7, FS_Bijection
  <2> QED
    BY <2>8 DEF S, T
<1> QED
  BY <1>1, <1>7, <1>9, <1>10, <1>11

-----------------------------------------------------------------------------
(* What an append makes of a text.                                         *)

\* r is t with lines of gpie's after it: a block of e if n is 1, and if n is 0 some
\* lines without a directive for an extension.
ExtendedBy(t, r, e, n) ==
  /\ r \in Seq(UserLines \cup GpieLines)
  /\ Len(t) <= Len(r)
  /\ \A i \in 1..Len(t) : r[i] = t[i]
  /\ \A i \in 1..Len(r) : i > Len(t) => r[i] \in GpieLines
  /\ n = 1 =>
       /\ Len(r) = Len(t) + 3
       /\ r[Len(t) + 1] = Line("marker", e)
       /\ r[Len(t) + 2] = Line("note", e)
       /\ r[Len(t) + 3] = Line("directive", e)
  /\ n = 0 => \A i \in 1..Len(r), x \in Ext : i > Len(t) => r[i] # Line("directive", x)

\* What a cut append has written has no directive for an extension.
LEMMA TornLines ==
  ASSUME NEW e \in Ext, NEW b \in FirstLines(e)
  PROVE  /\ b \in Seq(GpieLines)
         /\ \A i \in 1..Len(b), x \in Ext : b[i] # Line("directive", x)
<1> DEFINE x == Line("marker", e)
           y == Line("note", e)
           z == Line("junk", e)
           d == Line("directive", Torn)
           Quiet(l) == l \in GpieLines /\ \A w \in Ext : l # Line("directive", w)
<1>1. Quiet(x) /\ Quiet(y) /\ Quiet(z)
  BY DEF GpieLines, Line
<1>2. Quiet(d)
  BY TornAssumption DEF GpieLines, Line
<1>3. b \in {<<y>>, <<x>>, <<x, y>>, Append(<<x, y>>, z), Append(<<x, y>>, d)}
  BY DEF FirstLines
<1> HIDE DEF x, y, z, d
<1>4. b \in {<<y>>, <<x>>, <<x, y>>, <<x, y, z>>, <<x, y, d>>}
  BY <1>3
<1> SUFFICES b \in Seq(GpieLines) /\ \A i \in 1..Len(b) : Quiet(b[i])
  OBVIOUS
<1>5. CASE b = <<y>> \/ b = <<x>>
  BY <1>1, <1>5
<1>6. CASE b = <<x, y>>
  BY <1>1, <1>6
<1>7. CASE b = <<x, y, z>>
  BY <1>1, <1>7
<1>8. CASE b = <<x, y, d>>
  BY <1>1, <1>2, <1>8
<1> QED
  BY <1>4, <1>5, <1>6, <1>7, <1>8

LEMMA AppendedLines ==
  ASSUME NEW t \in Seq(UserLines \cup GpieLines), NEW e \in Ext
  PROVE  /\ ExtendedBy(t, t \o Block(e), e, 1)
         /\ \A b \in FirstLines(e) : ExtendedBy(t, t \o b, e, 0)
<1> DEFINE L == UserLines \cup GpieLines
           l == Len(t)
<1>1. ASSUME NEW b \in Seq(GpieLines)
      PROVE  /\ t \o b \in Seq(L) /\ Len(t \o b) = l + Len(b)
             /\ \A i \in 1..l : (t \o b)[i] = t[i]
             /\ \A i \in 1..Len(t \o b) : i > l =>
                  i - l \in 1..Len(b) /\ (t \o b)[i] = b[i - l] /\ b[i - l] \in GpieLines
             /\ \A i \in 1..Len(b) : (t \o b)[l + i] = b[i]
  <2>1. t \in Seq(L) /\ b \in Seq(L) /\ l \in Nat /\ Len(b) \in Nat
    OBVIOUS
  <2>2. t \o b \in Seq(L) /\ Len(t \o b) = l + Len(b)
    BY <2>1
  <2>3. \A i \in 1..l + Len(b) : (t \o b)[i] = IF i <= l THEN t[i] ELSE b[i - l]
    BY <2>1
  <2>4. \A i \in 1..l + Len(b) : i > l => i - l \in 1..Len(b)
    BY <2>1
  <2>5. \A i \in 1..Len(b) : l + i \in 1..l + Len(b) /\ ~(l + i <= l) /\ (l + i) - l = i
    BY <2>1
  <2>6. \A i \in 1..l : i \in 1..l + Len(b) /\ i <= l
    BY <2>1
  <2>7. \A i \in 1..l + Len(b) : i > l => ~(i <= l)
    BY <2>1
  <2> HIDE DEF l
  <2> QED
    BY <2>2, <2>3, <2>4, <2>5, <2>6, <2>7
<1>2. ASSUME NEW b \in FirstLines(e)
      PROVE  ExtendedBy(t, t \o b, e, 0)
  <2>1. b \in Seq(GpieLines) /\ \A i \in 1..Len(b), x \in Ext : b[i] # Line("directive", x)
    BY TornLines
  <2>2. /\ t \o b \in Seq(L) /\ Len(t \o b) = l + Len(b) /\ l <= Len(t \o b)
        /\ \A i \in 1..l : (t \o b)[i] = t[i]
        /\ \A i \in 1..Len(t \o b) : i > l =>
             i - l \in 1..Len(b) /\ (t \o b)[i] = b[i - l] /\ b[i - l] \in GpieLines
    BY <1>1, <2>1
  <2> DEFINE r == t \o b
  <2>3. \A i \in 1..Len(r), x \in Ext : i > l => r[i] # Line("directive", x)
    BY <2>1, <2>2
  <2> HIDE DEF r
  <2> QED
    BY <2>2, <2>3 DEF ExtendedBy, r
<1>3. ExtendedBy(t, t \o Block(e), e, 1)
  <2> DEFINE b == Block(e)
             r == t \o b
  <2>1. /\ b \in Seq(GpieLines) /\ Len(b) = 3
        /\ b[1] = Line("marker", e) /\ b[2] = Line("note", e) /\ b[3] = Line("directive", e)
    <3>1. /\ Line("marker", e) \in GpieLines /\ Line("note", e) \in GpieLines
          /\ Line("directive", e) \in GpieLines
      BY DEF GpieLines
    <3> QED
      BY <3>1 DEF Block
  <2> HIDE DEF b
  <2>2. /\ t \o b \in Seq(L) /\ Len(t \o b) = l + Len(b)
        /\ \A i \in 1..l : (t \o b)[i] = t[i]
        /\ \A i \in 1..Len(t \o b) : i > l => (t \o b)[i] \in GpieLines
        /\ \A i \in 1..Len(b) : (t \o b)[l + i] = b[i]
    <3>1. ASSUME NEW i \in 1..Len(t \o b), i > l
          PROVE  (t \o b)[i] \in GpieLines
      <4>1. (t \o b)[i] = b[i - l] /\ b[i - l] \in GpieLines
        BY <1>1, <2>1, <3>1
      <4> QED
        BY <4>1
    <3>2. /\ t \o b \in Seq(L) /\ Len(t \o b) = l + Len(b)
          /\ \A i \in 1..l : (t \o b)[i] = t[i]
          /\ \A i \in 1..Len(b) : (t \o b)[l + i] = b[i]
      BY <1>1, <2>1
    <3> QED
      BY <3>1, <3>2
  <2> HIDE DEF r
  <2>3. r[l + 1] = b[1] /\ r[l + 2] = b[2] /\ r[l + 3] = b[3] /\ Len(r) = l + 3
    BY <2>1, <2>2 DEF r
  <2>4. ExtendedBy(t, r, e, 1)
    BY <2>1, <2>2, <2>3 DEF ExtendedBy, r
  <2> QED
    BY <2>4 DEF r, b
<1> QED
  BY <1>2, <1>3

\* An append adds a directive if the block is complete, and breaks no block.
LEMMA AppendKeepsTheRest ==
  ASSUME NEW t, WellFormed(t), NEW e \in Ext, NEW n \in 0..1, NEW r, ExtendedBy(t, r, e, n)
  PROVE  /\ WellFormed(r)
         /\ HeadedBy(t, Len(UserText)) => HeadedBy(r, Len(UserText))
         /\ \A x \in Ext : DirectivesOf(r, x) = IF x = e /\ n = 1
                                                THEN DirectivesOf(t, x) \cup {Len(t) + 3}
                                                ELSE DirectivesOf(t, x)
<1> DEFINE l == Len(t)
           m == Len(r)
<1>1. l \in Nat /\ m \in Nat /\ l <= m /\ r \in Seq(UserLines \cup GpieLines)
  BY DEF WellFormed, ExtendedBy
<1>2. /\ \A i \in 1..l : r[i] = t[i]
      /\ \A i \in 1..m : i > l => r[i] \in GpieLines
      /\ n = 1 => /\ m = l + 3
                  /\ r[l + 1] = Line("marker", e) /\ r[l + 2] = Line("note", e)
                  /\ r[l + 3] = Line("directive", e)
      /\ n = 0 => \A i \in 1..m, x \in Ext : i > l => r[i] # Line("directive", x)
  BY DEF ExtendedBy
<1> HIDE DEF l, m
<1>3. ASSUME NEW i \in 1..m, i \notin 1..l, NEW x \in Ext, r[i] = Line("directive", x)
      PROVE  i = l + 3 /\ n = 1 /\ x = e
  <2>1. i > l /\ n = 1
    BY <1>1, <1>2, <1>3
  <2>2. i = l + 1 \/ i = l + 2 \/ i = l + 3
    BY <1>1, <1>2, <2>1
  <2> QED
    BY <1>2, <1>3, <2>1, <2>2 DEF Line
<1>4. \A i \in 1..l : i \in 1..m /\ r[i] = t[i]
  BY <1>1, <1>2
<1>5. ASSUME NEW k \in {0, Len(UserText)}, HeadedBy(t, k)
      PROVE  HeadedBy(r, k)
  <2>1. /\ k <= l /\ \A i \in 1..k : t[i] = UserText[i]
        /\ \A i \in 1..l : i > k => t[i] \in GpieLines
    BY <1>5 DEF HeadedBy, l
  <2>2. k \in Nat
    BY <1>5
  <2>3. \A i \in 1..m : i > k => r[i] \in GpieLines
    <3>1. \A i \in 1..m : i \in 1..l \/ i > l
      BY <1>1
    <3> QED
      BY <1>2, <1>4, <2>1, <3>1
  <2>4. k <= m /\ \A i \in 1..k : i \in 1..l
    BY <1>1, <2>1, <2>2
  <2> QED
    BY <1>4, <2>1, <2>3, <2>4 DEF HeadedBy, m
<1>6. ASSUME NEW j \in 1..m, NEW x \in Ext, r[j] = Line("directive", x)
      PROVE  j > 2 /\ r[j - 2] = Line("marker", x) /\ r[j - 1] = Line("note", x)
  <2>1. CASE j \in 1..l
    <3>1. j > 2 /\ t[j - 2] = Line("marker", x) /\ t[j - 1] = Line("note", x)
      BY <1>4, <1>6, <2>1 DEF WellFormed, l
    <3>2. j - 2 \in 1..l /\ j - 1 \in 1..l
      BY <1>1, <2>1, <3>1
    <3> QED
      BY <1>4, <3>1, <3>2
  <2>2. CASE j \notin 1..l
    <3>1. j = l + 3 /\ x = e /\ n = 1
      BY <1>3, <1>6, <2>2
    <3>2. j > 2 /\ j - 2 = l + 1 /\ j - 1 = l + 2
      BY <1>1, <3>1
    <3> QED
      BY <1>2, <3>1, <3>2
  <2> QED
    BY <2>1, <2>2
<1>7. WellFormed(r)
  <2>1. \E k \in {0, Len(UserText)} : HeadedBy(r, k)
    BY <1>5 DEF WellFormed
  <2> QED
    BY <1>1, <1>6, <2>1 DEF WellFormed, m
<1>8. ASSUME NEW x \in Ext
      PROVE  DirectivesOf(r, x) = IF x = e /\ n = 1
                                  THEN DirectivesOf(t, x) \cup {l + 3}
                                  ELSE DirectivesOf(t, x)
  <2>1. \A j \in DirectivesOf(t, x) : j \in DirectivesOf(r, x)
    BY <1>4 DEF DirectivesOf, l, m
  <2>2. ASSUME NEW j \in DirectivesOf(r, x)
        PROVE  j \in DirectivesOf(t, x) \/ (x = e /\ n = 1 /\ j = l + 3)
    <3>1. j \in 1..m /\ r[j] = Line("directive", x)
      BY DEF DirectivesOf, m
    <3>2. CASE j \in 1..l
      BY <1>4, <3>1, <3>2 DEF DirectivesOf, l
    <3>3. CASE j \notin 1..l
      BY <1>3, <3>1, <3>3
    <3> QED
      BY <3>2, <3>3
  <2>3. n = 1 => l + 3 \in DirectivesOf(r, e)
    <3>1. n = 1 => l + 3 \in 1..m
      BY <1>1, <1>2
    <3> QED
      BY <1>2, <3>1 DEF DirectivesOf, m
  <2> QED
    BY <2>1, <2>2, <2>3
<1> QED
  BY <1>5, <1>7, <1>8 DEF l

-----------------------------------------------------------------------------
(* The lines say what the store counts.                                    *)

\* The text t is what the store calls f.
Renders(t, f) ==
  /\ WellFormed(t)
  /\ f \in PhpIni
  /\ \A e \in Ext : f.blocks[e] = Capped(Cardinality(DirectivesOf(t, e)))

LEMMA DirectivesAreFinite ==
  ASSUME NEW t, WellFormed(t), NEW e
  PROVE  IsFiniteSet(DirectivesOf(t, e)) /\ Cardinality(DirectivesOf(t, e)) \in Nat
<1>1. IsFiniteSet(1..Len(t))
  BY FS_Interval DEF WellFormed
<1>2. DirectivesOf(t, e) \in SUBSET (1..Len(t))
  BY DEF DirectivesOf
<1> QED
  BY <1>1, <1>2, FS_Subset, FS_CardinalityType

\* There are as many blocks as directives, and parseMarkers finds them.
LEMMA RenderedCounts ==
  ASSUME UserTextIsPlain, NEW t, NEW f, Renders(t, f)
  PROVE  Counts(t, f) /\ Blocks(f) = ParseMarkers(t)
<1>1. WellFormed(t) /\ DOMAIN t = 1..Len(t) /\ Len(t) \in Nat
  BY DEF Renders, WellFormed
<1>2. ASSUME NEW e \in Ext
      PROVE  /\ Cardinality(BlocksOf(t, e)) = Cardinality(DirectivesOf(t, e))
             /\ BlocksOf(t, e) = {} <=> DirectivesOf(t, e) = {}
  <2> DEFINE S == DirectivesOf(t, e)
             T == BlocksOf(t, e)
             h == [j \in S |-> j - 2]
  <2>1. S \subseteq Nat /\ T \subseteq Nat
    BY <1>1 DEF DirectivesOf, BlocksOf, Markers
  <2>2. /\ \A j \in S : j - 2 \in T
        /\ \A i \in T : i + 2 \in S
    BY <1>1, BlocksAreWhole
  <2>3. IsFiniteSet(S)
    BY <1>1, DirectivesAreFinite
  <2> HIDE DEF S, T
  <2>4. h \in Bijection(S, T)
    <3>1. h \in [S -> T]
      BY <2>2
    <3>2. \A i, j \in S : h[i] = h[j] => i = j
      BY <2>1
    <3>3. \A i \in T : \E j \in S : h[j] = i
      <4> TAKE i \in T
      <4>1. i + 2 \in S /\ h[i + 2] = i
        BY <2>1, <2>2
      <4> QED
        BY <4>1
    <3> HIDE DEF h
    <3> QED
      BY <3>1, <3>2, <3>3 DEF Bijection, Injection, Surjection, IsInjective
  <2>5. Cardinality(T) = Cardinality(S)
    BY <2>3, <2>4, FS_Bijection DEF ExistsBijection
  <2>6. T = {} <=> S = {}
    BY <2>2
  <2> QED
    BY <2>5, <2>6 DEF S, T
<1>3. ASSUME NEW e \in Ext
      PROVE  Lines(t, Line("directive", e)) = Cardinality(DirectivesOf(t, e))
  BY <1>1 DEF Lines, DirectivesOf
<1>4. Counts(t, f)
  BY <1>2, <1>3 DEF Counts, Renders
<1>5. ASSUME NEW e \in Ext
      PROVE  f.blocks[e] > 0 <=> BlocksOf(t, e) # {}
  <2>1. IsFiniteSet(DirectivesOf(t, e)) /\ Cardinality(DirectivesOf(t, e)) \in Nat
    BY <1>1, DirectivesAreFinite
  <2>2. Cardinality(DirectivesOf(t, e)) = 0 <=> DirectivesOf(t, e) = {}
    BY <2>1, FS_EmptySet
  <2>3. f.blocks[e] = Capped(Cardinality(DirectivesOf(t, e)))
    BY DEF Renders
  <2> QED
    BY <1>2, <2>1, <2>2, <2>3 DEF Capped
<1> QED
  BY <1>4, <1>5 DEF Blocks, ParseMarkers

\* The operations on the text do what those of the store say.
LEMMA RemovalRenders ==
  ASSUME UserTextIsPlain, NEW t, NEW f, Renders(t, f), NEW e \in Ext
  PROVE  Renders(RemoveMarkerBlock(t, e), Strip(f, e))
<1> DEFINE r == RemoveMarkerBlock(t, e)
<1>1. /\ WellFormed(r)
      /\ DirectivesOf(r, e) = {}
      /\ \A x \in Ext \ {e} : Cardinality(DirectivesOf(r, x)) = Cardinality(DirectivesOf(t, x))
  BY RemovalKeepsTheRest DEF Renders
<1> HIDE DEF r
<1>2. Cardinality(DirectivesOf(r, e)) = 0
  BY <1>1, FS_EmptySet
<1>3. f \in PhpIni /\ \A x \in Ext : f.blocks[x] = Capped(Cardinality(DirectivesOf(t, x)))
  BY DEF Renders
<1>4. /\ Strip(f, e) \in PhpIni /\ Strip(f, e).blocks[e] = 0
      /\ \A x \in Ext \ {e} : Strip(f, e).blocks[x] = f.blocks[x]
  BY <1>3 DEF Strip, PhpIni
<1>5. Capped(0) = 0
  BY DEF Capped
<1>6. \A x \in Ext : Strip(f, e).blocks[x] = Capped(Cardinality(DirectivesOf(r, x)))
  <2> TAKE x \in Ext
  <2>1. CASE x = e
    BY <1>2, <1>4, <1>5, <2>1
  <2>2. CASE x # e
    BY <1>1, <1>3, <1>4, <2>2
  <2> QED
    BY <2>1, <2>2
<1> QED
  BY <1>1, <1>4, <1>6 DEF Renders, r

LEMMA AppendRenders ==
  ASSUME NEW t, NEW f, Renders(t, f), NEW e \in Ext, NEW n \in 0..1, NEW r,
         ExtendedBy(t, r, e, n)
  PROVE  Renders(r, IF n = 1 THEN AppendBlock(f, e) ELSE f)
<1>1. f \in PhpIni /\ WellFormed(t)
      /\ \A x \in Ext : f.blocks[x] = Capped(Cardinality(DirectivesOf(t, x)))
  BY DEF Renders
<1>2. /\ WellFormed(r)
      /\ \A x \in Ext : DirectivesOf(r, x) = IF x = e /\ n = 1
                                             THEN DirectivesOf(t, x) \cup {Len(t) + 3}
                                             ELSE DirectivesOf(t, x)
  BY <1>1, AppendKeepsTheRest
<1>3. CASE n # 1
  BY <1>1, <1>2, <1>3 DEF Renders
<1>4. CASE n = 1
  <2>1. /\ AppendBlock(f, e) \in PhpIni
        /\ AppendBlock(f, e).blocks[e] = IF f.blocks[e] = 0 THEN 1 ELSE 2
        /\ \A x \in Ext : x # e => AppendBlock(f, e).blocks[x] = f.blocks[x]
    BY <1>1 DEF AppendBlock, PhpIni
  <2> DEFINE c == Cardinality(DirectivesOf(t, e))
  <2>2. c \in Nat /\ Cardinality(DirectivesOf(r, e)) = c + 1
    <3>1. Len(t) + 3 \notin DirectivesOf(t, e)
      BY <1>1 DEF DirectivesOf, WellFormed
    <3>2. IsFiniteSet(DirectivesOf(t, e)) /\ c \in Nat
      BY <1>1, DirectivesAreFinite
    <3>3. DirectivesOf(r, e) = DirectivesOf(t, e) \cup {Len(t) + 3}
      BY <1>2, <1>4
    <3> QED
      BY <3>1, <3>2, <3>3, FS_AddElement
  <2>3. f.blocks[e] = Capped(c)
    BY <1>1
  <2> HIDE DEF c
  <2>4. (IF f.blocks[e] = 0 THEN 1 ELSE 2) = Capped(c + 1)
    BY <2>2, <2>3 DEF Capped
  <2>5. \A x \in Ext : AppendBlock(f, e).blocks[x] = Capped(Cardinality(DirectivesOf(r, x)))
    <3> TAKE x \in Ext
    <3>1. CASE x = e
      BY <2>1, <2>2, <2>4, <3>1
    <3>2. CASE x # e
      BY <1>1, <1>2, <2>1, <3>2
    <3> QED
      BY <3>1, <3>2
  <2> QED
    BY <1>2, <1>4, <2>1, <2>5 DEF Renders
<1> QED
  BY <1>3, <1>4

LEMMA EmptyRenders == Renders(<<>>, Truncated)
<1>1. WellFormed(<<>>)
  BY DEF WellFormed, HeadedBy
<1>2. \A e \in Ext : DirectivesOf(<<>>, e) = {}
  BY DEF DirectivesOf
<1>3. Capped(Cardinality({})) = 0
  BY FS_EmptySet DEF Capped
<1>4. Truncated \in PhpIni /\ \A e \in Ext : Truncated.blocks[e] = 0
  BY DEF Truncated, PhpIni
<1>5. \A e \in Ext : Truncated.blocks[e] = Capped(Cardinality(DirectivesOf(<<>>, e)))
  BY <1>2, <1>3, <1>4, Zenon
<1> QED
  BY <1>1, <1>4, <1>5 DEF Renders

\* A package about to write a block, or a part of one.
LEMMA AppendedRenders ==
  ASSUME NEW t, NEW f, Renders(t, f), NEW e \in Ext
  PROVE  /\ Renders(t \o Block(e), AppendBlock(f, e))
         /\ \A b \in FirstLines(e) : Renders(t \o b, f)
<1>1. t \in Seq(UserLines \cup GpieLines)
  BY DEF Renders, WellFormed
<1>2. ExtendedBy(t, t \o Block(e), e, 1)
  BY <1>1, AppendedLines
<1>3. Renders(t \o Block(e), AppendBlock(f, e))
  <2> DEFINE r == t \o Block(e)
  <2>1. ExtendedBy(t, r, e, 1)
    BY <1>2
  <2> HIDE DEF r
  <2>2. Renders(r, IF 1 = 1 THEN AppendBlock(f, e) ELSE f)
    BY <2>1, AppendRenders
  <2> QED
    BY <2>2 DEF r
<1>4. ASSUME NEW b \in FirstLines(e)
      PROVE  Renders(t \o b, f)
  <2> DEFINE r == t \o b
  <2>1. ExtendedBy(t, r, e, 0)
    BY <1>1, AppendedLines
  <2> HIDE DEF r
  <2>2. Renders(r, IF 0 = 1 THEN AppendBlock(f, e) ELSE f)
    BY <2>1, AppendRenders
  <2> QED
    BY <2>2 DEF r
<1> QED
  BY <1>3, <1>4


-----------------------------------------------------------------------------
(* So they do in every step.                                               *)

TextInv ==
  /\ tsnap \in [Pkg -> Seq(UserLines \cup GpieLines)]
  /\ Renders(text, ini)
  /\ \A p \in Pkg : pc[p] \in {"trunc", "write"} => Renders(tsnap[p], snap[p])
  /\ upc \in {"trunc", "write"} => Renders(tusnap, usnap)

LEMMA InitEstablishesTextInv ==
  ASSUME UserTextIsPlain, TextInit
  PROVE  TextInv
<1>1. text = UserText /\ UserText \in Seq(UserLines) /\ Len(UserText) \in Nat
      /\ \A i \in 1..Len(UserText) : UserText[i] \in UserLines /\ UserText[i] \notin GpieLines
  BY DEF TextInit, UserTextIsPlain, UserLines
<1>2. \A e \in Ext : Line("directive", e) \in GpieLines
  BY DEF GpieLines
<1>3. WellFormed(text)
  <2>1. UserText \in Seq(UserLines \cup GpieLines)
    BY <1>1
  <2>2. HeadedBy(UserText, Len(UserText))
    BY <1>1 DEF HeadedBy
  <2> QED
    BY <1>1, <1>2, <2>1, <2>2 DEF WellFormed
<1>4. \A e \in Ext : DirectivesOf(text, e) = {}
  BY <1>1, <1>2 DEF DirectivesOf
<1>5. Capped(Cardinality({})) = 0
  BY FS_EmptySet DEF Capped
<1>6. ini \in PhpIni /\ \A e \in Ext : ini.blocks[e] = 0
  BY ConfAssumption DEF TextInit, Init, PhpIni, Truncated
<1>7. Renders(text, ini)
  <2>1. \A e \in Ext : ini.blocks[e] = Capped(Cardinality(DirectivesOf(text, e)))
    BY <1>4, <1>5, <1>6, Zenon
  <2> QED
    BY <1>3, <1>6, <2>1 DEF Renders
<1>8. tsnap \in [Pkg -> Seq(UserLines \cup GpieLines)]
  BY DEF TextInit
<1> QED
  BY <1>7, <1>8 DEF TextInit, Init, TextInv

\* What a package does to php.ini.
LEMMA TextPhpIniKeepsTextInv ==
  ASSUME UserTextIsPlain, TypeOK, TextInv, NEW p \in Pkg, UNCHANGED <<upc, usnap, tusnap>>,
         TextRead(p) \/ TextAppend(p) \/ TextTruncate(p) \/ TextWrite(p)
  PROVE  TextInv'
<1>0. p.ext \in Ext /\ \A q \in Pkg : q # p => pc'[q] = pc[q] /\ snap'[q] = snap[q]
  BY PkgAssumption, FailMoves DEF TextRead, TextAppend, TextTruncate, TextWrite, ReadPhpIni,
     AppendPhpIni, TruncatePhpIni, WritePhpIni, Goto, TypeOK
<1>1. \A q \in Pkg : pc[q] \in {"trunc", "write"} => Renders(tsnap[q], snap[q])
  BY DEF TextInv
<1>2. Renders(text, ini)
  BY DEF TextInv
<1>3. ASSUME /\ tsnap' \in [Pkg -> Seq(UserLines \cup GpieLines)]
             /\ \A q \in Pkg : q # p => tsnap'[q] = tsnap[q]
             /\ Renders(text', ini')
             /\ pc'[p] \in {"trunc", "write"} => Renders(tsnap'[p], snap'[p])
      PROVE  TextInv'
  <2>1. \A q \in Pkg : pc'[q] \in {"trunc", "write"} => Renders(tsnap'[q], snap'[q])
    BY <1>0, <1>1, <1>3
  <2> QED
    BY <1>3, <2>1 DEF TextInv
<1>4. CASE TextRead(p)
  <2>1. /\ ini' = ini /\ text' = text /\ pc'[p] # "write"
        /\ pc'[p] = "trunc" =>
             /\ snap'[p] = AppendBlock(Strip(ini, p.ext), p.ext)
             /\ tsnap' = [tsnap EXCEPT ![p] = RemoveMarkerBlock(text, p.ext) \o Block(p.ext)]
        /\ pc'[p] # "trunc" => tsnap' = tsnap
    BY <1>4, FailMoves DEF TextRead, ReadPhpIni, Goto, TypeOK, store
  <2> DEFINE u == RemoveMarkerBlock(text, p.ext) \o Block(p.ext)
             f == AppendBlock(Strip(ini, p.ext), p.ext)
  <2>2. Renders(u, f)
    <3>1. Renders(RemoveMarkerBlock(text, p.ext), Strip(ini, p.ext))
      BY <1>0, <1>2, RemovalRenders
    <3> QED
      BY <1>0, <3>1, AppendedRenders
  <2>3. u \in Seq(UserLines \cup GpieLines)
    BY <2>2 DEF Renders, WellFormed
  <2> HIDE DEF u, f
  <2>4. /\ tsnap' \in [Pkg -> Seq(UserLines \cup GpieLines)]
        /\ \A q \in Pkg : q # p => tsnap'[q] = tsnap[q]
        /\ pc'[p] = "trunc" => tsnap'[p] = u /\ snap'[p] = f
    BY <2>1, <2>3 DEF TextInv, u, f
  <2>5. pc'[p] \in {"trunc", "write"} => Renders(tsnap'[p], snap'[p])
    BY <2>1, <2>2, <2>4
  <2> QED
    BY <1>2, <1>3, <2>1, <2>4, <2>5
<1>5. CASE TextAppend(p)
  <2>1. /\ tsnap' = tsnap /\ pc'[p] \notin {"trunc", "write"}
        /\ \/ ini' = AppendBlock(ini, p.ext) /\ text' = text \o Block(p.ext)
           \/ ini' = ini /\ (text' = text \/ \E b \in FirstLines(p.ext) : text' = text \o b)
    BY <1>5, FailMoves DEF TextAppend, AppendPhpIni, Goto, TypeOK
  <2>2. Renders(text', ini')
    BY <1>0, <1>2, <2>1, AppendedRenders
  <2> QED
    BY <1>3, <2>1, <2>2 DEF TextInv
<1>6. CASE TextTruncate(p)
  <2>1. /\ tsnap' = tsnap /\ snap' = snap /\ pc[p] = "trunc"
        /\ \/ ini' = Truncated /\ text' = <<>>
           \/ ini' = ini /\ text' = text
    BY <1>6, FailMoves DEF TextTruncate, TruncatePhpIni, Goto, TypeOK
  <2>2. Renders(text', ini')
    BY <1>2, <2>1, EmptyRenders
  <2>3. Renders(tsnap'[p], snap'[p])
    BY <1>1, <2>1
  <2> QED
    BY <1>3, <2>1, <2>2, <2>3 DEF TextInv
<1>7. CASE TextWrite(p)
  <2>1. /\ tsnap' = tsnap /\ pc[p] = "write" /\ pc'[p] \notin {"trunc", "write"}
        /\ \/ ini' = snap[p] /\ text' = tsnap[p]
           \/ ini' = ini /\ text' = text
    BY <1>7, FailMoves DEF TextWrite, WritePhpIni, Goto, TypeOK
  <2>2. Renders(text', ini')
    BY <1>1, <1>2, <2>1
  <2> QED
    BY <1>3, <2>1, <2>2 DEF TextInv
<1> QED
  BY <1>4, <1>5, <1>6, <1>7

\* What an uninstall does to php.ini.
LEMMA TextManagedKeepsTextInv ==
  ASSUME UserTextIsPlain, TypeOK, TextInv,
         TextReadManaged \/ TextTruncateManaged \/ TextRewriteManaged
  PROVE  TextInv'
<1>1. UNCHANGED <<pc, snap, tsnap>> /\ target \in Ext
  BY DEF TextReadManaged, TextTruncateManaged, TextRewriteManaged, ReadManaged,
     TruncateManaged, RewriteManaged, workers, TypeOK
<1>2. Renders(text, ini) /\ (upc \in {"trunc", "write"} => Renders(tusnap, usnap))
  BY DEF TextInv
<1>3. Renders(RemoveMarkerBlock(text, target), Strip(ini, target)) /\ Renders(<<>>, Truncated)
  BY <1>1, <1>2, RemovalRenders, EmptyRenders
<1>4. CASE TextReadManaged
  <2>1. /\ ini' = ini /\ text' = text /\ upc' # "write"
        /\ upc' = "trunc" =>
             usnap' = Strip(ini, target) /\ tusnap' = RemoveMarkerBlock(text, target)
    BY <1>4 DEF TextReadManaged, ReadManaged, store
  <2>2. upc' \in {"trunc", "write"} => Renders(tusnap', usnap')
    BY <1>3, <2>1
  <2> QED
    BY <1>1, <1>2, <2>1, <2>2 DEF TextInv
<1>5. CASE TextTruncateManaged
  <2>1. /\ usnap' = usnap /\ tusnap' = tusnap /\ upc = "trunc"
        /\ (ini' = Truncated /\ text' = <<>>) \/ (ini' = ini /\ text' = text)
    BY <1>5 DEF TextTruncateManaged, TruncateManaged
  <2>2. Renders(text', ini') /\ Renders(tusnap', usnap')
    BY <1>2, <1>3, <2>1
  <2> QED
    BY <1>1, <2>2 DEF TextInv
<1>6. CASE TextRewriteManaged
  <2>1. /\ upc = "write" /\ upc' \notin {"trunc", "write"}
        /\ (ini' = usnap /\ text' = tusnap) \/ (ini' = ini /\ text' = text)
    BY <1>6 DEF TextRewriteManaged, RewriteManaged
  <2>2. Renders(text', ini')
    BY <1>2, <2>1
  <2> QED
    BY <1>1, <2>1, <2>2 DEF TextInv
<1> QED
  BY <1>4, <1>5, <1>6

LEMMA StepKeepsTextInv ==
  ASSUME UserTextIsPlain, IInv, TextInv, [TextNext]_tvars
  PROVE  TextInv'
<1>0. TypeOK
  BY DEF IInv
<1>1. ASSUME NEW p \in Pkg, TextRead(p) \/ TextAppend(p) \/ TextTruncate(p) \/ TextWrite(p)
      PROVE  TextInv'
  <2>1. UNCHANGED <<upc, usnap, tusnap>>
    BY <1>1 DEF TextRead, TextAppend, TextTruncate, TextWrite, ReadPhpIni, AppendPhpIni,
       TruncatePhpIni, WritePhpIni, removal
  <2> QED
    BY <1>0, <1>1, <2>1, TextPhpIniKeepsTextInv
<1>2. CASE TextReadManaged \/ TextTruncateManaged \/ TextRewriteManaged
  BY <1>0, <1>2, TextManagedKeepsTextInv
<1>3. ASSUME UNCHANGED <<ini, text>>,
             tsnap' \in [Pkg -> Seq(UserLines \cup GpieLines)],
             \A q \in Pkg : \/ pc'[q] = pc[q] /\ snap'[q] = snap[q] /\ tsnap'[q] = tsnap[q]
                            \/ pc'[q] \notin {"trunc", "write"},
             upc' \notin {"trunc", "write"} \/ UNCHANGED <<upc, usnap, tusnap>>
      PROVE  TextInv'
  BY <1>3 DEF TextInv
<1>4. CASE TextStart \/ TextEnd \/ UNCHANGED tvars
  <2>1. UNCHANGED <<ini, text>> /\ (tsnap' = tsnap \/ tsnap' = [p \in Pkg |-> <<>>])
    BY <1>4 DEF TextStart, TextEnd, StartInstall, StartUninstall, EndInstall, EndUninstall,
       Kill, tvars, vars, texts, store
  <2>2. \A q \in Pkg : \/ pc'[q] = pc[q] /\ snap'[q] = snap[q] /\ tsnap'[q] = tsnap[q]
                       \/ pc'[q] \notin {"trunc", "write"}
    BY <1>4 DEF TextStart, TextEnd, StartInstall, StartUninstall, EndInstall, EndUninstall,
       Kill, ProcessEnds, tvars, vars, texts, workers
  <2>3. upc' \notin {"trunc", "write"} \/ UNCHANGED <<upc, usnap, tusnap>>
    BY <1>4 DEF TextStart, TextEnd, StartInstall, StartUninstall, EndInstall, EndUninstall,
       Kill, ProcessEnds, tvars, vars, texts, removal
  <2>4. tsnap' \in [Pkg -> Seq(UserLines \cup GpieLines)]
    <3>1. <<>> \in Seq(UserLines \cup GpieLines)
      OBVIOUS
    <3>2. [p \in Pkg |-> <<>>] \in [Pkg -> Seq(UserLines \cup GpieLines)]
      BY <3>1, Zenon
    <3> QED
      BY <2>1, <3>2 DEF TextInv
  <2> QED
    BY <1>3, <2>1, <2>2, <2>3, <2>4
<1>5. CASE TextIdle \/ \E p \in Pkg : TextBegin(p)
  <2>1. UNCHANGED <<ini, text, tsnap, tusnap>>
    BY <1>5 DEF TextIdle, TextBegin, texts, CopySo, CheckLoaded, ReplaceIni, FillIni,
       VerifyLoaded, InstallBundled, PickSpec, RemoveIni, RemoveSo, Begin, store
  <2>2. snap' = snap
    BY <1>5 DEF TextIdle, TextBegin, CopySo, CheckLoaded, ReplaceIni, FillIni,
       VerifyLoaded, InstallBundled, PickSpec, RemoveIni, RemoveSo, Begin, workers
  <2>3. upc' \notin {"trunc", "write"} \/ UNCHANGED <<upc, usnap>>
    BY <1>5 DEF TextIdle, TextBegin, CopySo, CheckLoaded, ReplaceIni, FillIni,
       VerifyLoaded, InstallBundled, PickSpec, RemoveIni, RemoveSo, Begin, removal
  <2>4. \A q \in Pkg : pc'[q] = pc[q] \/ pc'[q] \notin {"trunc", "write"}
    <3>1. ASSUME NEW p \in Pkg, CopySo(p) \/ CheckLoaded(p) \/ ReplaceIni(p) \/ FillIni(p)
          PROVE  \A q \in Pkg : pc'[q] = pc[q] \/ pc'[q] \notin {"trunc", "write"}
      BY <1>0, <3>1, FailMoves DEF CopySo, CheckLoaded, ReplaceIni, FillIni, Goto, TypeOK
    <3>2. ASSUME NEW p \in Pkg, VerifyLoaded(p) \/ InstallBundled(p) \/ Begin(p)
          PROVE  \A q \in Pkg : pc'[q] = pc[q] \/ pc'[q] \notin {"trunc", "write"}
      BY <1>0, <3>2, FailMoves DEF VerifyLoaded, InstallBundled, Begin, Goto, TypeOK
    <3>3. CASE (\E e \in Ext : PickSpec(e)) \/ RemoveIni \/ RemoveSo
      BY <3>3 DEF PickSpec, RemoveIni, RemoveSo, workers
    <3> QED
      BY <1>5, <3>1, <3>2, <3>3 DEF TextIdle, TextBegin
  <2> QED
    BY <1>3, <2>1, <2>2, <2>3, <2>4 DEF TextInv
<1> QED
  BY <1>1, <1>2, <1>4, <1>5 DEF TextNext, TextRunning

\* Whatever installs run at once, fail or are killed: php.ini reads, and what is
\* about to be written over it, as the store counts its blocks.  So no directive of
\* gpie's loses its marker, and no marker takes the directive of another block.
THEOREM LinesAgree ==
  ASSUME SinglePriority, UserTextIsPlain
  PROVE  TextSpec => []TextAgrees
<1> DEFINE AInv == IInv /\ TextInv
<1>1. TextInit => AInv
  BY InitEstablishesTextInv, InitEstablishesIInv DEF TextInit
<1>2. AInv /\ [TextNext]_tvars => AInv'
  BY TextStepIsStoreStep, StepKeepsIInv, StepKeepsTextInv
<1>3. AInv => TextAgrees
  BY RenderedCounts DEF TextAgrees, TextInv
<1> HIDE DEF AInv
<1> QED
  BY <1>1, <1>2, <1>3, PTL DEF TextSpec

-----------------------------------------------------------------------------
(* The user's lines.                                                       *)

HasUserText(t) == HeadedBy(t, Len(UserText))

\* The install of a package that may still read php.ini.
PreRead == {"queued", "copy", "check", "replace", "fill", "read"}

\* A hypothesis of the proofs: an install whose prebuilt attempt fails, and which
\* reads php.ini once more for the source build, never runs beside another one.
OneReadEach == \A f \in Flags : ~f.prebuilts \/ f.jobs = 1

PrebuiltIsAlone ==
  /\ \A p \in Pkg : attempt[p] = "prebuilt" => cmd = "install" /\ flags.prebuilts
  /\ flags.jobs = 1 => Solitary

\* The user's lines are in php.ini, except while it is being rewritten; then they
\* are in what will be written, and no package finds a block of its own in the
\* truncated file, which it would take for all there is.
UserInv ==
  /\ (\A p \in Pkg : pc[p] # "write") /\ upc # "write" => HasUserText(text)
  /\ \A p \in Pkg : pc[p] \in {"trunc", "write"} => HasUserText(tsnap[p])
  /\ upc \in {"trunc", "write"} => HasUserText(tusnap)
  /\ \/ HasUserText(text) \/ upc = "write"
     \/ \A p \in Pkg : pc[p] \in PreRead => p.ext \notin Blocks(ini)
  /\ PrebuiltIsAlone

\* The edits of php.ini keep the user's lines.
LEMMA EditsKeepUserText ==
  ASSUME UserTextIsPlain, NEW t, WellFormed(t), HasUserText(t), NEW e \in Ext
  PROVE  /\ HasUserText(RemoveMarkerBlock(t, e))
         /\ HasUserText(RemoveMarkerBlock(t, e) \o Block(e))
         /\ HasUserText(t \o Block(e))
         /\ \A b \in FirstLines(e) : HasUserText(t \o b)
<1>1. ASSUME NEW u, WellFormed(u), HasUserText(u)
      PROVE  HasUserText(u \o Block(e)) /\ \A b \in FirstLines(e) : HasUserText(u \o b)
  <2>1. u \in Seq(UserLines \cup GpieLines)
    BY <1>1 DEF WellFormed
  <2>2. \A r, n : n \in 0..1 /\ ExtendedBy(u, r, e, n) => HasUserText(r)
    BY <1>1, AppendKeepsTheRest DEF HasUserText
  <2>3. ExtendedBy(u, u \o Block(e), e, 1)
        /\ \A b \in FirstLines(e) : ExtendedBy(u, u \o b, e, 0)
    BY <2>1, AppendedLines
  <2>4. 0 \in 0..1 /\ 1 \in 0..1
    OBVIOUS
  <2> QED
    BY <2>2, <2>3, <2>4, Zenon
<1>2. WellFormed(RemoveMarkerBlock(t, e)) /\ HasUserText(RemoveMarkerBlock(t, e))
  BY RemovalKeepsTheRest DEF HasUserText
<1>3. HasUserText(t \o Block(e)) /\ \A b \in FirstLines(e) : HasUserText(t \o b)
  BY <1>1
<1>4. HasUserText(RemoveMarkerBlock(t, e) \o Block(e))
  BY <1>1, <1>2
<1> QED
  BY <1>2, <1>3, <1>4

\* A prebuilt attempt that is about to start a source build is at work alone.
LEMMA PrebuiltAlone ==
  ASSUME OneReadEach, IInv, UserInv, NEW p \in Active, attempt[p] = "prebuilt",
         pc[p] # "write"
  PROVE  HasUserText(text)
<1>1. \A q \in Pkg : pc[q] # "write"
  BY DEF UserInv, PrebuiltIsAlone, OneReadEach, Solitary, Active, IInv, TypeOK
<1>2. upc = "idle"
  BY DEF IInv, OneCommand, Active
<1> QED
  BY <1>1, <1>2 DEF UserInv

LEMMA StepKeepsPrebuiltAlone ==
  ASSUME IInv, PrebuiltIsAlone, [TextNext]_tvars
  PROVE  PrebuiltIsAlone'
<1>0. TypeOK
  BY DEF IInv
<1>1. ASSUME NEW p \in Pkg, TextBegin(p)
      PROVE  PrebuiltIsAlone'
  <2>1. flags.jobs = 1 => Active = {} /\ Active' = {p}
    BY <1>0, <1>1, BeginAddsOne DEF TextBegin, Begin, Parallel
  <2>2. /\ attempt' = [attempt EXCEPT ![p] = "source"] \/ flags.prebuilts
        /\ cmd = "install" /\ cmd' = cmd /\ flags' = flags
        /\ \A q \in Pkg : q # p => attempt'[q] = attempt[q]
    BY <1>0, <1>1 DEF TextBegin, Begin, TypeOK
  <2>3. \A q \in Pkg : attempt'[q] = "prebuilt" => cmd' = "install" /\ flags'.prebuilts
    BY <1>0, <2>2 DEF PrebuiltIsAlone, TypeOK
  <2> QED
    BY <2>1, <2>2, <2>3 DEF PrebuiltIsAlone, Solitary
<1>2. CASE ~\E p \in Pkg : TextBegin(p)
  <2>1. OtherStep
    BY <1>2 DEF TextNext, TextStart, TextRunning, TextRead, TextAppend, TextTruncate,
       TextWrite, TextReadManaged, TextTruncateManaged, TextRewriteManaged, TextIdle,
       TextEnd, OtherStep, PhpIniStep, tvars
  <2>2. Active' \subseteq Active
    BY <2>1, OthersDoNotBegin
  <2>3. CASE \/ \E T \in SUBSET Pkg, f \in Flags : StartInstall(T, f)
             \/ \E n \in 1..MaxSpecs : StartUninstall(n)
    <3>1. cmd = "none" /\ UNCHANGED attempt
      BY <2>3 DEF StartInstall, StartUninstall, workers
    <3>2. Active = {}
      BY <3>1 DEF IInv, OneCommand, Active
    <3> QED
      BY <2>2, <3>1, <3>2 DEF PrebuiltIsAlone, Solitary
  <2>4. CASE EndInstall \/ EndUninstall \/ Kill
    <3>1. attempt' = [q \in Pkg |-> "source"] /\ flags' = flags
      BY <2>4 DEF EndInstall, EndUninstall, Kill, ProcessEnds
    <3> QED
      BY <2>2, <3>1 DEF PrebuiltIsAlone, Solitary
  <2>5. CASE UNCHANGED <<cmd, flags>>
             /\ \A q \in Pkg : attempt'[q] = "prebuilt" => attempt[q] = "prebuilt"
    BY <2>2, <2>5 DEF PrebuiltIsAlone, Solitary
  <2>6. ASSUME NEW p \in Pkg,
               \/ CopySo(p) \/ CheckLoaded(p) \/ ReplaceIni(p) \/ FillIni(p)
               \/ VerifyLoaded(p) \/ InstallBundled(p) \/ PhpIniStep(p)
        PROVE  UNCHANGED <<cmd, flags>>
               /\ \A q \in Pkg : attempt'[q] = "prebuilt" => attempt[q] = "prebuilt"
    <3>1. CASE CopySo(p) \/ CheckLoaded(p) \/ ReplaceIni(p) \/ FillIni(p)
      BY <1>0, <3>1 DEF CopySo, CheckLoaded, ReplaceIni, FillIni, Fail, TypeOK
    <3>2. CASE VerifyLoaded(p) \/ InstallBundled(p) \/ PhpIniStep(p)
      BY <1>0, <3>2 DEF VerifyLoaded, InstallBundled, PhpIniStep, ReadPhpIni, AppendPhpIni,
         TruncatePhpIni, WritePhpIni, Fail, TypeOK
    <3> QED
      BY <2>6, <3>1, <3>2
  <2>7. CASE \/ \E e \in Ext : PickSpec(e)
             \/ ReadManaged \/ RemoveIni \/ TruncateManaged \/ RewriteManaged \/ RemoveSo
             \/ UNCHANGED vars
    <3>1. UNCHANGED <<cmd, flags, attempt>>
      BY <2>7 DEF PickSpec, ReadManaged, RemoveIni, TruncateManaged, RewriteManaged,
         RemoveSo, vars, workers
    <3> QED
      BY <2>5, <3>1
  <2> QED
    BY <2>1, <2>3, <2>4, <2>5, <2>6, <2>7 DEF OtherStep
<1> QED
  BY <1>1, <1>2

\* What a package does to php.ini.
LEMMA TextPhpIniKeepsUserInv ==
  ASSUME UserTextIsPlain, OneProvider, NoLostWrites, OneReadEach, IInv, TextInv, UserInv,
         PrebuiltIsAlone', NEW p \in Pkg,
         TextRead(p) \/ TextAppend(p) \/ TextTruncate(p) \/ TextWrite(p)
  PROVE  UserInv'
<1>0. TypeOK /\ p.ext \in Ext /\ p \in Active /\ upc = "idle" /\ upc' = "idle"
      /\ tusnap' = tusnap /\ WellFormed(text) /\ ini \in PhpIni
  <2>1. p \in Active /\ upc' = upc /\ tusnap' = tusnap
    BY DEF TextRead, TextAppend, TextTruncate, TextWrite, ReadPhpIni, AppendPhpIni,
       TruncatePhpIni, WritePhpIni, Active, removal
  <2> QED
    BY <2>1, PkgAssumption DEF IInv, OneCommand, Active, TextInv, Renders, TypeOK
<1>1. /\ \A q \in Pkg : q # p => pc'[q] = pc[q] /\ attempt'[q] = attempt[q]
      /\ tsnap \in [Pkg -> Seq(UserLines \cup GpieLines)]
  BY <1>0, FailMoves DEF TextRead, TextAppend, TextTruncate, TextWrite, ReadPhpIni,
     AppendPhpIni, TruncatePhpIni, WritePhpIni, Goto, TypeOK, TextInv, Fail
<1>2. /\ (\A q \in Pkg : pc[q] # "write") => HasUserText(text)
      /\ \A q \in Pkg : pc[q] \in {"trunc", "write"} => HasUserText(tsnap[q])
      /\ HasUserText(text) \/ \A q \in Pkg : pc[q] \in PreRead => q.ext \notin Blocks(ini)
  BY <1>0 DEF UserInv
<1>3. ASSUME /\ HasUserText(text') \/ \E q \in Pkg : pc'[q] = "write"
             /\ \A q \in Pkg : pc'[q] \in {"trunc", "write"} => HasUserText(tsnap'[q])
             /\ \/ HasUserText(text')
                \/ \A q \in Pkg : pc'[q] \in PreRead => q.ext \notin Blocks(ini')
      PROVE  UserInv'
  <2>1. /\ (\A q \in Pkg : pc'[q] # "write") /\ upc' # "write" => HasUserText(text')
        /\ upc' \notin {"trunc", "write"}
    BY <1>0, <1>3
  <2>2. \A f : Blocks(f)' = Blocks(f)
    BY DEF Blocks
  <2> QED
    BY <1>3, <2>1 DEF UserInv, HasUserText, HeadedBy, Blocks
<1>4. ASSUME attempt[p] = "prebuilt", pc[p] # "write"
      PROVE  HasUserText(text)
  BY <1>0, <1>4, PrebuiltAlone
<1>5. CASE TextRead(p)
  <2>1. /\ ini' = ini /\ text' = text /\ pc[p] = "read" /\ pc'[p] # "write"
        /\ pc'[p] \in PreRead => attempt[p] = "prebuilt"
        /\ pc'[p] = "trunc" =>
             /\ p.ext \in Blocks(ini)
             /\ tsnap' = [tsnap EXCEPT ![p] = RemoveMarkerBlock(text, p.ext) \o Block(p.ext)]
        /\ pc'[p] # "trunc" => tsnap' = tsnap
    BY <1>0, <1>5, FailMoves DEF TextRead, ReadPhpIni, Goto, Fail, TypeOK, PreRead, store
  <2>2. pc'[p] = "trunc" => HasUserText(text)
    BY <1>2, <2>1 DEF PreRead
  <2>3. pc'[p] = "trunc" => HasUserText(RemoveMarkerBlock(text, p.ext) \o Block(p.ext))
    BY <1>0, <2>2, EditsKeepUserText
  <2>4. \A q \in Pkg : pc'[q] \in {"trunc", "write"} => HasUserText(tsnap'[q])
    BY <1>1, <1>2, <2>1, <2>3
  <2>5. HasUserText(text') \/ \E q \in Pkg : pc'[q] = "write"
    BY <1>1, <1>2, <2>1
  <2>6. HasUserText(text') \/ \A q \in Pkg : pc'[q] \in PreRead => q.ext \notin Blocks(ini')
    BY <1>1, <1>2, <1>4, <2>1
  <2> QED
    BY <1>3, <2>4, <2>5, <2>6
<1>6. CASE TextAppend(p)
  <2>1. /\ tsnap' = tsnap /\ pc[p] = "append" /\ pc'[p] \notin {"trunc", "write"}
        /\ ini' = ini \/ ini' = AppendBlock(ini, p.ext)
        /\ \/ text' = text \o Block(p.ext) \/ text' = text
           \/ \E b \in FirstLines(p.ext) : text' = text \o b
        /\ pc'[p] \in PreRead => attempt[p] = "prebuilt"
    BY <1>0, <1>6, FailMoves DEF TextAppend, AppendPhpIni, Goto, Fail, TypeOK, PreRead
  <2>2. HasUserText(text) => HasUserText(text')
    BY <1>0, <2>1, EditsKeepUserText
  <2>3. HasUserText(text') \/ \E q \in Pkg : pc'[q] = "write"
    BY <1>1, <1>2, <2>1, <2>2
  <2>4. ASSUME ~HasUserText(text'), NEW q \in Pkg, pc'[q] \in PreRead
        PROVE  q.ext \notin Blocks(ini')
    <3>1. ~HasUserText(text) /\ q # p
      BY <1>4, <2>1, <2>2, <2>4
    <3>2. q.ext \notin Blocks(ini) /\ q.ext # p.ext
      BY <1>1, <1>2, <2>4, <3>1 DEF OneProvider
    <3>3. Blocks(ini') \subseteq Blocks(ini) \cup {p.ext}
      BY <1>0, <2>1, PhpIniOperators
    <3> QED
      BY <3>2, <3>3
  <2>5. \A q \in Pkg : pc'[q] \in {"trunc", "write"} => HasUserText(tsnap'[q])
    BY <1>1, <1>2, <2>1
  <2> QED
    BY <1>3, <2>3, <2>4, <2>5
<1>7. CASE TextTruncate(p)
  <2>1. /\ tsnap' = tsnap /\ pc[p] = "trunc"
        /\ \/ pc'[p] = "write" /\ ini' = Truncated
           \/ /\ pc'[p] \notin {"trunc", "write"} /\ ini' = ini /\ text' = text
              /\ pc'[p] \in PreRead => attempt[p] = "prebuilt"
    BY <1>0, <1>7, FailMoves DEF TextTruncate, TruncatePhpIni, Goto, Fail, TypeOK, PreRead
  <2>2. \A q \in Pkg : pc'[q] \in {"trunc", "write"} => HasUserText(tsnap'[q])
    BY <1>1, <1>2, <2>1
  <2>3. HasUserText(text') \/ \E q \in Pkg : pc'[q] = "write"
    BY <1>1, <1>2, <2>1
  <2>4. HasUserText(text') \/ \A q \in Pkg : pc'[q] \in PreRead => q.ext \notin Blocks(ini')
    <3>1. CASE ini' = Truncated
      BY <3>1 DEF Blocks, Truncated
    <3>2. CASE ini' # Truncated
      BY <1>1, <1>2, <1>4, <2>1, <3>2
    <3> QED
      BY <3>1, <3>2
  <2> QED
    BY <1>3, <2>2, <2>3, <2>4
<1>8. CASE TextWrite(p)
  <2>1. /\ tsnap' = tsnap /\ pc[p] = "write" /\ pc'[p] = "verify" /\ text' = tsnap[p]
    BY <1>0, <1>8 DEF TextWrite, WritePhpIni, Goto, TypeOK, NoLostWrites
  <2>2. HasUserText(text')
    BY <1>2, <2>1
  <2>3. \A q \in Pkg : pc'[q] \in {"trunc", "write"} => HasUserText(tsnap'[q])
    BY <1>1, <1>2, <2>1
  <2> QED
    BY <1>3, <2>2, <2>3
<1> QED
  BY <1>5, <1>6, <1>7, <1>8

\* What an uninstall does to php.ini, when no rewrite is cut short.
LEMMA TextManagedKeepsUserInv ==
  ASSUME UserTextIsPlain, NoLostWrites, IInv, TextInv, UserInv, PrebuiltIsAlone',
         TextReadManaged \/ TextTruncateManaged \/ TextRewriteManaged
  PROVE  UserInv'
<1>0. /\ target \in Ext /\ WellFormed(text) /\ upc # "idle"
      /\ \A q \in Pkg : pc'[q] = "idle" /\ pc[q] = "idle"
  BY DEF TextReadManaged, TextTruncateManaged, TextRewriteManaged, ReadManaged,
     TruncateManaged, RewriteManaged, workers, IInv, TypeOK, OneCommand, TextInv, Renders
<1>1. /\ upc # "write" => HasUserText(text)
      /\ upc \in {"trunc", "write"} => HasUserText(tusnap)
  BY <1>0 DEF UserInv
<1>2. ASSUME /\ upc' # "write" => HasUserText(text')
             /\ upc' \in {"trunc", "write"} => HasUserText(tusnap')
      PROVE  UserInv'
  BY <1>0, <1>2 DEF UserInv, HasUserText, HeadedBy, PreRead
<1>3. CASE TextReadManaged
  <2>1. /\ text' = text /\ upc = "read" /\ upc' # "write"
        /\ upc' = "trunc" => tusnap' = RemoveMarkerBlock(text, target)
    BY <1>3 DEF TextReadManaged, ReadManaged
  <2>2. HasUserText(text) /\ HasUserText(RemoveMarkerBlock(text, target))
    BY <1>0, <1>1, <2>1, EditsKeepUserText
  <2> QED
    BY <1>2, <2>1, <2>2
<1>4. CASE TextTruncateManaged
  <2>1. tusnap' = tusnap /\ upc = "trunc" /\ (upc' = "write" \/ (upc' = "pick" /\ text' = text))
    BY <1>4 DEF TextTruncateManaged, TruncateManaged
  <2> QED
    BY <1>1, <1>2, <2>1
<1>5. CASE TextRewriteManaged
  <2>1. upc = "write" /\ upc' = "rm" /\ text' = tusnap
    BY <1>5 DEF TextRewriteManaged, RewriteManaged, NoLostWrites
  <2> QED
    BY <1>1, <1>2, <2>1
<1> QED
  BY <1>3, <1>4, <1>5

LEMMA StepKeepsUserInv ==
  ASSUME UserTextIsPlain, OneProvider, NoLostWrites, OneReadEach, IInv, TextInv, UserInv,
         [TextNext]_tvars
  PROVE  UserInv'
<1>0. TypeOK /\ PrebuiltIsAlone'
  BY StepKeepsPrebuiltAlone DEF IInv, UserInv
<1>1. ASSUME NEW p \in Pkg, TextRead(p) \/ TextAppend(p) \/ TextTruncate(p) \/ TextWrite(p)
      PROVE  UserInv'
  BY <1>0, <1>1, TextPhpIniKeepsUserInv
<1>2. CASE TextReadManaged \/ TextTruncateManaged \/ TextRewriteManaged
  BY <1>0, <1>2, TextManagedKeepsUserInv
<1>3. CASE TextStart \/ TextEnd
  <2>1. text' = text /\ ~Kill
    BY <1>3 DEF TextStart, TextEnd, Kill, NoLostWrites, texts
  <2>2. (\A p \in Pkg : pc[p] # "write") /\ upc # "write"
    BY <1>3, <2>1 DEF TextStart, TextEnd, StartInstall, StartUninstall, EndInstall,
       EndUninstall, IInv, OneCommand
  <2>3. /\ \A p \in Pkg : pc'[p] \in {"idle", "queued"}
        /\ upc' \in {"idle", "pick"}
    <3>1. CASE \E n \in 1..MaxSpecs : StartUninstall(n)
      BY <3>1 DEF StartUninstall, workers, IInv, OneCommand
    <3>2. CASE \E T \in SUBSET Pkg, f \in Flags : StartInstall(T, f)
      BY <3>2 DEF StartInstall, removal, IInv, OneCommand
    <3>3. CASE EndInstall \/ EndUninstall
      BY <3>3 DEF EndInstall, EndUninstall, ProcessEnds
    <3> QED
      BY <1>3, <2>1, <3>1, <3>2, <3>3 DEF TextStart, TextEnd
  <2>4. HasUserText(text')
    BY <2>1, <2>2 DEF UserInv
  <2> QED
    BY <1>0, <2>3, <2>4 DEF UserInv, HasUserText, HeadedBy
<1>4. CASE TextIdle \/ \E p \in Pkg : TextBegin(p)
  <2>1. UNCHANGED <<ini, text, tsnap, tusnap>>
    BY <1>4 DEF TextIdle, TextBegin, texts, CopySo, CheckLoaded, ReplaceIni, FillIni,
       VerifyLoaded, InstallBundled, PickSpec, RemoveIni, RemoveSo, Begin, store
  <2>2. upc' = upc \/ (upc' \notin {"trunc", "write"} /\ upc # "write")
    BY <1>4 DEF TextIdle, TextBegin, CopySo, CheckLoaded, ReplaceIni, FillIni,
       VerifyLoaded, InstallBundled, PickSpec, RemoveIni, RemoveSo, Begin, removal
  <2>3. \A q \in Pkg :
          /\ pc'[q] = pc[q] \/ (pc'[q] \notin {"trunc", "write"} /\ pc[q] # "write")
          /\ pc'[q] \in PreRead /\ pc[q] \notin PreRead =>
               q \in Active /\ attempt[q] = "prebuilt" /\ pc[q] # "write"
    <3> DEFINE Goes(q) ==
          /\ pc'[q] = pc[q] \/ (pc'[q] \notin {"trunc", "write"} /\ pc[q] # "write")
          /\ pc'[q] \in PreRead /\ pc[q] \notin PreRead =>
               q \in Active /\ attempt[q] = "prebuilt" /\ pc[q] # "write"
    <3>1. ASSUME NEW p \in Pkg, CopySo(p) \/ CheckLoaded(p) \/ ReplaceIni(p)
          PROVE  \A q \in Pkg : Goes(q)
      BY <1>0, <3>1, FailMoves DEF CopySo, CheckLoaded, ReplaceIni, Goto, Fail, TypeOK,
         PreRead
    <3>2. ASSUME NEW p \in Pkg, FillIni(p) \/ VerifyLoaded(p)
          PROVE  \A q \in Pkg : Goes(q)
      BY <1>0, <3>2, FailMoves DEF FillIni, VerifyLoaded, Goto, Fail, TypeOK, PreRead, Active
    <3>3. ASSUME NEW p \in Pkg, InstallBundled(p) \/ Begin(p)
          PROVE  \A q \in Pkg : Goes(q)
      BY <1>0, <3>3 DEF InstallBundled, Begin, Goto, TypeOK, PreRead
    <3>4. CASE (\E e \in Ext : PickSpec(e)) \/ RemoveIni \/ RemoveSo
      BY <3>4 DEF PickSpec, RemoveIni, RemoveSo, workers
    <3> QED
      BY <1>4, <3>1, <3>2, <3>3, <3>4 DEF TextIdle, TextBegin
  <2>4. (\E q \in Pkg : pc[q] = "write") => \E q \in Pkg : pc'[q] = "write"
    BY <2>3
  <2>5. (\A q \in Pkg : pc'[q] # "write") /\ upc' # "write" => HasUserText(text)
    BY <2>2, <2>4 DEF UserInv
  <2>6. \A q \in Pkg : pc'[q] \in {"trunc", "write"} => HasUserText(tsnap[q])
    BY <2>3 DEF UserInv
  <2>7. upc' \in {"trunc", "write"} => HasUserText(tusnap)
    BY <2>2 DEF UserInv
  <2>8. \/ HasUserText(text) \/ upc' = "write"
        \/ \A q \in Pkg : pc'[q] \in PreRead => q.ext \notin Blocks(ini)
    <3> SUFFICES ASSUME ~HasUserText(text), upc' # "write",
                        NEW q \in Pkg, pc'[q] \in PreRead
                 PROVE  q.ext \notin Blocks(ini)
      OBVIOUS
    <3>1. pc[q] \in PreRead
      BY <2>3, PrebuiltAlone
    <3> QED
      BY <2>2, <3>1 DEF UserInv
  <2> QED
    BY <1>0, <2>1, <2>5, <2>6, <2>7, <2>8 DEF UserInv, HasUserText, HeadedBy, Blocks
<1>5. CASE UNCHANGED tvars
  BY <1>0, <1>5 DEF tvars, vars, texts, store, workers, removal, UserInv, HasUserText,
     HeadedBy, Blocks
<1> QED
  BY <1>1, <1>2, <1>3, <1>4, <1>5 DEF TextNext, TextRunning

\* The user's lines of php.ini are there, ahead of gpie's and none of them twice,
\* when no gpie command runs, also after source builds that rewrote the file at the
\* same time: each reads it before it may be truncated, or finds no block of its own
\* and appends.  It takes one provider for each extension, no rewrite cut short
\* between its two steps, and no command that both prefers prebuilts and has several
\* jobs: an install that falls back to its source beside another one loses them
\* (StoreUserTextLost).
THEOREM UserLinesKept ==
  ASSUME UserTextIsPlain, OneProvider, NoLostWrites, OneReadEach
  PROVE  TextSpec => []UserTextKept
<1> DEFINE AInv == IInv /\ TextInv /\ UserInv
<1>0. SinglePriority /\ OneReadEach
  BY DEF OneProvider, SinglePriority, OneReadEach
<1>1. TextInit => AInv
  <2> SUFFICES ASSUME TextInit PROVE AInv
    OBVIOUS
  <2>1. IInv /\ TextInv
    BY InitEstablishesAlone, InitEstablishesTextInv
  <2>2. HasUserText(text)
    BY DEF TextInit, HasUserText, HeadedBy, UserTextIsPlain
  <2>3. UserInv
    BY <2>2 DEF UserInv, TextInit, Init, PrebuiltIsAlone, Solitary, Active
  <2> QED
    BY <2>1, <2>3
<1>2. AInv /\ [TextNext]_tvars => AInv'
  BY <1>0, TextStepIsStoreStep, StepKeepsIInv, StepKeepsTextInv, StepKeepsUserInv
<1>3. AInv => UserTextKept
  <2> SUFFICES ASSUME AInv, cmd = "none" PROVE
        /\ Len(UserText) <= Len(text)
        /\ \A i \in DOMAIN UserText : text[i] = UserText[i]
        /\ \A i \in DOMAIN text, k \in DOMAIN UserText :
             i > Len(UserText) => text[i] # UserText[k]
    BY DEF UserTextKept
  <2>1. HasUserText(text)
    BY DEF UserInv, IInv, OneCommand
  <2>2. DOMAIN text = 1..Len(text)
    BY DEF TextInv, Renders, WellFormed
  <2>3. DOMAIN UserText = 1..Len(UserText)
        /\ \A k \in DOMAIN UserText : UserText[k] \notin GpieLines
    BY DEF UserTextIsPlain, UserLines
  <2> QED
    BY <2>1, <2>2, <2>3 DEF HasUserText, HeadedBy
<1> HIDE DEF AInv
<1> QED
  BY <1>1, <1>2, <1>3, PTL DEF TextSpec
=============================================================================
