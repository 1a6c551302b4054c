------------------------------ MODULE OciProofs ------------------------------
(***************************************************************************)
(* The promises of the prebuilt cache for any lookups, repositories,       *)
(* matrices, base images and numbers of workflow runs.                     *)
(***************************************************************************)
EXTENDS OciPublish, TLAPS

\* What was published before says truly which machine it was built on.
Truthful(s) == \A k \in DOMAIN s : s[k].builtFor = s[k].builtOn
PastIsTruthful == \A r \in Repos : \A s \in Indexes[r] : Truthful(s)

-----------------------------------------------------------------------------
(* The inductive invariant, in named parts.                                *)

\* A run of the workflow, as ci records it.
Run == [job : {"idle", "build", "index"}, run : 0..MaxRuns,
        todo : SUBSET UNION {Matrix[r] : r \in Repos},
        unread : SUBSET Image, kept : Seq(Image), missed : BOOLEAN]

\* The types, with every variable known to be a function.
LookupTypes ==
  /\ index \in [Repos -> Seq(Image)]
  /\ pc \in [Lookup -> Pc]
  /\ pos \in [Lookup -> Nat \ {0}]
  /\ seen \in [Lookup -> Seq(Image)]
  /\ sound \in [Lookup -> BOOLEAN]
  /\ lock \in Lookup \cup {Free}
  /\ tokens \in [Repos -> {"unknown", "empty", "bearer"}]
  /\ fetches \in [Repos -> Nat]

PublishTypes ==
  /\ base \in Bases
  /\ tags \in [Repos -> SUBSET Image]
  /\ ci \in [Repos -> Run]
  /\ \A r \in Repos : ci[r].todo \subseteq Matrix[r]
                      /\ ci[r].unread \subseteq tags[r]

\* A lookup that has found its image looks at one.
InIndex ==
  \A l \in Lookup :
    /\ pos[l] <= Len(seen[l]) + 1
    /\ pc[l] = "index" => pos[l] = 1
    /\ pc[l] \in {"config", "layer", "hit"} => pos[l] <= Len(seen[l])

\* Nothing damaged is accepted, and past GetConfig the config names the cell.
Checked ==
  \A l \in Lookup :
    /\ sound[l]
    /\ pc[l] \in {"layer", "hit"} => Here(l).builtFor = Wanted[l]

\* The holder of the mutex is about to fetch what nobody has fetched.
FetchedOnce ==
  /\ \A r \in Repos : /\ fetches[r] <= 1
                      /\ tokens[r] = "unknown" => fetches[r] = 0
  /\ lock # Free => tokens[Repo[lock]] = "unknown"

\* Images say truly what they were built on, wherever they are.
AllTruthful ==
  PastIsTruthful =>
    /\ \A l \in Lookup : Truthful(seen[l])
    /\ \A r \in Repos : /\ Truthful(index[r]) /\ Truthful(ci[r].kept)
                        /\ \A i \in tags[r] : i.builtFor = i.builtOn

\* What the index job has read, and what it has still to read, is everything
\* that has a tag, unless it has missed something.  The manifests under the
\* tags name the cells of their images.
Annotated(images) == {[i EXCEPT !.descriptor = i.builtFor] : i \in images}
Collected ==
  \A r \in Repos :
    /\ \A i \in tags[r] : i.manifest = i.builtFor
    /\ ci[r].job # "index" => ci[r].kept = <<>> /\ ci[r].unread = {}
    /\ ci[r].job = "index" /\ ~ci[r].missed =>
         ToSet(ci[r].kept) \cup Annotated(ci[r].unread) = Annotated(tags[r])

PInv ==
  /\ LookupTypes
  /\ PublishTypes
  /\ InIndex
  /\ Checked
  /\ FetchedOnce
  /\ AllTruthful
  /\ Collected
  /\ BuiltIsServed

\* The part that a lookup step can disturb.
LInv == LookupTypes /\ InIndex /\ Checked /\ FetchedOnce

-----------------------------------------------------------------------------
(* Lookups.                                                                *)

\* The mutex and the tokens: none but the first request exchanges a token.
LEMMA TokenSteps ==
  ASSUME LInv, NEW l \in Lookup, LockTokens(l) \/ FetchToken(l)
  PROVE  LInv' /\ UNCHANGED <<index, seen>>
<1> USE LookupAssumption DEF LInv, LookupTypes, InIndex, Checked, FetchedOnce, Here, Images
<1>0. Repo[l] \in Repos
  BY DEF Repos
<1>1. CASE LockTokens(l)
  BY <1>0, <1>1 DEF LockTokens
<1>2. CASE FetchToken(l)
  BY <1>0, <1>2 DEF FetchToken
<1> QED
  BY <1>1, <1>2

\* The requests of a lookup.
LEMMA RequestSteps ==
  ASSUME LInv, NEW l \in Lookup,
         GetIndex(l) \/ GetManifest(l) \/ EndScan(l) \/ GetConfig(l) \/ GetLayer(l)
  PROVE  LInv'
<1> USE DEF LInv, LookupTypes, InIndex, Checked, Here, Images, Goto, Pc
<1>1. Repo[l] \in Repos
  BY DEF Repos
<1>2. FetchedOnce'
  BY DEF FetchedOnce, GetIndex, GetManifest, EndScan, GetConfig, GetLayer
<1>3. CASE GetIndex(l)
  <2>1. seen[l] \in Seq(Image) /\ index[Repo[l]] \in Seq(Image)
    BY <1>1
  <2>2. LookupTypes'
    <3>1. seen' \in [Lookup -> Seq(Image)]
      BY <2>1, <1>3 DEF GetIndex
    <3>2. pc' \in [Lookup -> Pc]
      BY <1>3 DEF GetIndex
    <3>3. UNCHANGED <<index, pos, sound, lock, tokens, fetches>>
      BY <1>3 DEF GetIndex
    <3> QED
      BY <3>1, <3>2, <3>3
  <2>3. seen'[l] \in Seq(Image) /\ Len(seen'[l]) \in Nat /\ pos'[l] = 1
    BY <2>2, <1>3 DEF GetIndex
  <2>4. pc'[l] \in {"scan", "miss", "error"}
    BY <1>3 DEF GetIndex
  <2>5. \A k \in Lookup : k # l => pc'[k] = pc[k] /\ seen'[k] = seen[k]
    BY <1>3 DEF GetIndex
  <2>6. InIndex'
    BY <1>3, <2>3, <2>4, <2>5 DEF GetIndex
  <2>7. Checked'
    <3>1. UNCHANGED <<pos, sound>>
      BY <1>3 DEF GetIndex
    <3> QED
      BY <2>4, <2>5, <3>1, ZenonT(40)
  <2> QED
    BY <1>2, <2>2, <2>6, <2>7
<1>4. CASE GetManifest(l)
  <2>1. seen[l] \in Seq(Image) /\ Len(seen[l]) \in Nat
    OBVIOUS
  <2>2. LookupTypes'
    <3>1. pos' \in [Lookup -> Nat \ {0}]
      BY <1>4 DEF GetManifest
    <3>2. pc' \in [Lookup -> Pc] /\ sound' \in [Lookup -> BOOLEAN]
      BY <1>4 DEF GetManifest, VerifyDigest
    <3> QED
      BY <1>4, <3>1, <3>2 DEF GetManifest
  <2>3. InIndex'
    BY <1>4, <2>1 DEF GetManifest
  <2>4. Checked'
    <3>1. \A k \in Lookup : sound'[k]
      BY <1>4 DEF GetManifest, VerifyDigest
    <3>2. \A k \in Lookup : pc'[k] \in {"layer", "hit"} =>
            k # l /\ pc'[k] = pc[k] /\ pos'[k] = pos[k] /\ seen'[k] = seen[k]
      BY <1>4 DEF GetManifest
    <3> QED
      BY <3>1, <3>2
  <2> QED
    BY <1>2, <2>2, <2>3, <2>4
<1>5. CASE EndScan(l)
  BY <1>2, <1>5 DEF EndScan
<1>6. CASE GetConfig(l)
  <2>1. LookupTypes'
    BY <1>6, ZenonT(40) DEF GetConfig, VerifyDigest
  <2>2. InIndex'
    BY <1>6, SMTT(30) DEF GetConfig
  <2>3. Checked'
    BY <1>6, SMTT(30) DEF GetConfig, VerifyDigest
  <2> QED
    BY <1>2, <2>1, <2>2, <2>3
<1>7. CASE GetLayer(l)
  <2>1. LookupTypes'
    BY <1>7, ZenonT(40) DEF GetLayer, VerifyDigest
  <2>2. InIndex'
    BY <1>7, SMTT(30) DEF GetLayer
  <2>3. Checked'
    BY <1>7, SMTT(30) DEF GetLayer, VerifyDigest
  <2> QED
    BY <1>2, <2>1, <2>2, <2>3
<1> QED
  BY <1>3, <1>4, <1>5, <1>6, <1>7

\* A lookup that runs beside the workflow: the index it has fetched is its own.
LEMMA LookupKeepsPInv ==
  ASSUME PInv, NEW l \in Lookup, LookupStep(l), UNCHANGED pubVars
  PROVE  PInv'
<1> USE DEF PInv, pubVars
<1>1. LInv'
  BY TokenSteps, RequestSteps DEF LInv, LookupStep
<1>2. index' = index
  BY DEF LookupStep, LockTokens, FetchToken, GetIndex, GetManifest, EndScan,
         GetConfig, GetLayer
<1>3. seen' = seen \/ seen' = [seen EXCEPT ![l] = index[Repo[l]]]
  BY DEF LookupStep, LockTokens, FetchToken, GetIndex, GetManifest, EndScan,
         GetConfig, GetLayer
<1>4. AllTruthful'
  <2>1. Repo[l] \in Repos
    BY DEF Repos
  <2>2. \A k \in Lookup : seen'[k] = seen[k] \/ seen'[k] = index[Repo[l]]
    BY <1>3 DEF LookupTypes
  <2>3. PastIsTruthful => \A k \in Lookup : Truthful(seen'[k])
    BY <2>1, <2>2 DEF AllTruthful
  <2> QED
    BY <1>2, <2>3 DEF AllTruthful
<1>5. PublishTypes' /\ Collected' /\ BuiltIsServed'
  BY <1>2 DEF PublishTypes, Collected, BuiltIsServed
<1> QED
  BY <1>1, <1>4, <1>5 DEF LInv

-----------------------------------------------------------------------------
(* The workflow.                                                           *)

\* A step of the workflow leaves the lookups alone, and so their invariant.
LEMMA WorkflowSparesLookups ==
  ASSUME PInv, index' \in [Repos -> Seq(Image)],
         UNCHANGED <<pc, pos, seen, sound, lock, tokens, fetches>>
  PROVE  LInv'
  BY DEF PInv, LInv, LookupTypes, InIndex, Checked, FetchedOnce, Here, Images

\* What emitOciArtifact writes is an image that says the truth.
LEMMA EmittedIsTruthful ==
  ASSUME base \in Bases, NEW r \in Repos, NEW row \in Matrix[r], NEW n \in Nat
  PROVE  /\ Emitted(row, n) \in Image
         /\ Emitted(row, n).manifest = Emitted(row, n).builtFor
         /\ Emitted(row, n).builtFor = Emitted(row, n).builtOn
<1>1. [ts |-> row, base |-> base] \in Cell
  BY PublishAssumption
<1> QED
  BY <1>1 DEF Emitted, NewCell, Image

\* The sequence a tag is appended to, as a set.
LEMMA AppendedSet ==
  ASSUME NEW S, NEW s \in Seq(S), NEW x \in S
  PROVE  /\ ToSet(<<>>) = {}
         /\ Append(s, x) \in Seq(S)
         /\ ToSet(Append(s, x)) = ToSet(s) \cup {x}
<1>1. Append(s, x) \in Seq(S) /\ Len(Append(s, x)) = Len(s) + 1
  OBVIOUS
<1>2. DOMAIN Append(s, x) = 1..Len(s) + 1 /\ DOMAIN s = 1..Len(s)
  BY <1>1
<1>3. \A k \in 1..Len(s) : Append(s, x)[k] = s[k]
  OBVIOUS
<1>4. Append(s, x)[Len(s) + 1] = x
  OBVIOUS
<1>5. Len(s) \in Nat
  OBVIOUS
<1>6. ToSet(Append(s, x)) \subseteq ToSet(s) \cup {x}
  BY <1>2, <1>3, <1>4, <1>5 DEF ToSet
<1>7. ToSet(s) \cup {x} \subseteq ToSet(Append(s, x))
  BY <1>2, <1>3, <1>4, <1>5 DEF ToSet
<1>8. ToSet(<<>>) = {}
  BY DEF ToSet
<1> QED
  BY <1>1, <1>6, <1>7, <1>8

\* A cell that is built, or fails.
LEMMA BuildKeepsPInv ==
  ASSUME PInv, NEW r \in Repos, NEW row \in Matrix[r], BuildCell(r, row),
         UNCHANGED vars
  PROVE  PInv'
<1> USE DEF PInv, vars, BuildCell
<1>1. LInv'
  BY WorkflowSparesLookups DEF LookupTypes
<1> DEFINE image == Emitted(row, ci[r].run)
<1>2. ci[r] \in Run /\ ci[r].run \in Nat
  BY PublishAssumption DEF PublishTypes, Run
<1>3. /\ image \in Image /\ image.manifest = image.builtFor
      /\ image.builtFor = image.builtOn
  BY <1>2, EmittedIsTruthful DEF PublishTypes
<1> HIDE DEF image
<1>4. /\ ci' \in [Repos -> Run]
      /\ ci'[r].job = "build" /\ ci'[r].kept = ci[r].kept
      /\ ci'[r].unread = ci[r].unread /\ ci'[r].todo \subseteq ci[r].todo
      /\ \A q \in Repos : q # r => ci'[q] = ci[q]
  BY <1>2 DEF PublishTypes, Run
<1>5. PublishTypes'
  <2>1. tags' \in [Repos -> SUBSET Image] /\ \A q \in Repos : q # r => tags'[q] = tags[q]
    BY <1>3 DEF PublishTypes, image
  <2>2. ci'[r].unread = {} /\ ci'[r].todo \subseteq Matrix[r]
    BY <1>4 DEF Collected, PublishTypes
  <2>3. \A q \in Repos : ci'[q].todo \subseteq Matrix[q]
                         /\ ci'[q].unread \subseteq tags'[q]
    BY <1>4, <2>1, <2>2 DEF PublishTypes
  <2> QED
    BY <1>4, <2>1, <2>3 DEF PublishTypes
<1>6. AllTruthful'
  BY <1>3, <1>4 DEF AllTruthful, PublishTypes, image
<1>7. Collected'
  BY <1>3, <1>4 DEF Collected, PublishTypes, image
<1>8. BuiltIsServed'
  BY <1>4 DEF BuiltIsServed, PublishTypes
<1> QED
  BY <1>1, <1>5, <1>6, <1>7, <1>8 DEF LInv

\* A new base image, a new run, and the end of one that does not finish.
LEMMA RunsKeepPInv ==
  ASSUME PInv, UNCHANGED vars,
         Respin \/ \E r \in Repos : Dispatch(r) \/ Abandon(r)
  PROVE  PInv'
<1> USE DEF PInv, vars
<1>1. LInv'
  BY WorkflowSparesLookups DEF LookupTypes
<1>2. CASE Respin
  BY <1>1, <1>2 DEF Respin, LInv, PublishTypes, AllTruthful, Collected, BuiltIsServed
<1>3. ASSUME NEW r \in Repos, Dispatch(r) \/ Abandon(r)
      PROVE  PInv'
  <2>1. ci[r] \in Run /\ ci[r].run \in Nat /\ <<>> \in Seq(Image)
    BY PublishAssumption DEF PublishTypes, Run
  <2>2. NoRun \in Run
    BY PublishAssumption DEF NoRun, Run
  <2>3. /\ NoRun.job = "idle" /\ NoRun.todo = {} /\ NoRun.unread = {}
        /\ NoRun.kept = <<>>
    BY DEF NoRun
  <2>4. /\ ci' \in [Repos -> Run]
        /\ ci'[r].kept = <<>> /\ ci'[r].unread = {}
        /\ ci'[r].todo \subseteq Matrix[r]
        /\ ci'[r].job = "build" \/ ci'[r].missed
        /\ ci'[r].job # "index"
        /\ \A q \in Repos : q # r => ci'[q] = ci[q]
    <3>1. CASE Dispatch(r)
      <4>1. PICK n, new :
              /\ n = ci[r].run + 1
              /\ new = [NoRun EXCEPT !.job = "build", !.todo = Matrix[r], !.run = n]
              /\ ci' = [ci EXCEPT ![r] = new]
        BY <3>1 DEF Dispatch
      <4>2. n \in 0..MaxRuns
        <5>1. ci[r].run \in 0..MaxRuns
          BY <2>1 DEF Run
        <5>2. ci[r].run < MaxRuns
          BY <3>1 DEF Dispatch
        <5> QED
          BY <4>1, <5>1, <5>2, PublishAssumption
      <4>3. /\ new \in Run /\ new.job = "build" /\ new.todo = Matrix[r]
            /\ new.unread = {} /\ new.kept = <<>>
        <5>1. Matrix[r] \in SUBSET UNION {Matrix[q] : q \in Repos}
          OBVIOUS
        <5> QED
          BY <2>2, <2>3, <4>1, <4>2, <5>1 DEF Run
      <4> QED
        BY <4>1, <4>3 DEF PublishTypes
    <3>2. CASE Abandon(r)
      <4>1. PICK new : /\ new = [NoRun EXCEPT !.run = ci[r].run, !.missed = TRUE]
                       /\ ci' = [ci EXCEPT ![r] = new]
        BY <3>2 DEF Abandon
      <4>2. ci[r].run \in 0..MaxRuns
        BY <2>1 DEF Run
      <4>3. /\ new \in Run /\ new.job = "idle" /\ new.todo = {}
            /\ new.unread = {} /\ new.kept = <<>> /\ new.missed
        BY <2>2, <2>3, <4>1, <4>2 DEF Run
      <4> QED
        BY <4>1, <4>3 DEF PublishTypes
    <3> QED
      BY <1>3, <3>1, <3>2
  <2>5. UNCHANGED <<base, tags, index, seen>>
    BY <1>3 DEF Dispatch, Abandon
  <2>6. PublishTypes'
    BY <2>4, <2>5 DEF PublishTypes
  <2>7. Truthful(<<>>)
    BY DEF Truthful
  <2>8. AllTruthful'
    BY <2>4, <2>5, <2>7 DEF AllTruthful
  <2>9. Collected'
    BY <2>4, <2>5 DEF Collected
  <2>10. BuiltIsServed'
    BY <2>4, <2>5 DEF BuiltIsServed
  <2> QED
    BY <1>1, <2>6, <2>8, <2>9, <2>10 DEF LInv
<1> QED
  BY <1>2, <1>3

\* The tags are listed, or some of them, or none.
LEMMA ListKeepsPInv ==
  ASSUME PInv, NEW r \in Repos, ListTags(r), UNCHANGED vars
  PROVE  PInv'
<1> USE DEF PInv, vars
<1>1. LInv'
  BY WorkflowSparesLookups DEF LookupTypes
<1>2. ci[r] \in Run /\ ci[r].kept = <<>> /\ ci[r].unread = {}
  BY DEF PublishTypes, Collected, ListTags
<1>3. PICK some \in SUBSET tags[r], job \in {"idle", "index"}, missed \in BOOLEAN :
        /\ job = IF some = {} THEN "idle" ELSE "index"
        /\ missed = (some # tags[r])
        /\ ci' = [ci EXCEPT ![r].job = job, ![r].unread = some,
                            ![r].missed = missed]
  BY DEF ListTags
<1>4. UNCHANGED <<base, tags>>
  BY DEF ListTags
<1>5. tags[r] \in SUBSET Image
  BY DEF PublishTypes
<1>6. /\ ci' \in [Repos -> Run]
      /\ ci'[r].kept = <<>> /\ ci'[r].todo = ci[r].todo
      /\ ci'[r].job = job /\ ci'[r].unread = some /\ ci'[r].missed = missed
      /\ \A q \in Repos : q # r => ci'[q] = ci[q]
  <2>1. PICK new :
          /\ new = [ci[r] EXCEPT !.job = job, !.unread = some, !.missed = missed]
          /\ ci' = [ci EXCEPT ![r] = new]
    BY <1>3
  <2>2. some \in SUBSET Image
    BY <1>5
  <2>3. /\ new \in Run /\ new.kept = <<>> /\ new.todo = ci[r].todo
        /\ new.job = job /\ new.unread = some /\ new.missed = missed
    BY <1>2, <2>1, <2>2 DEF Run
  <2> QED
    BY <2>1, <2>3 DEF PublishTypes
<1>7. PublishTypes'
  BY <1>4, <1>6 DEF PublishTypes
<1>8. AllTruthful'
  BY <1>2, <1>4, <1>6 DEF AllTruthful
<1>9. ToSet(<<>>) = {}
  BY DEF ToSet
<1>10. job # "index" => some = {}
  BY <1>3
<1>11. ~missed => some = tags[r]
  BY <1>3
<1>12. Collected'
  BY <1>4, <1>6, <1>9, <1>10, <1>11 DEF Collected
<1>13. BuiltIsServed'
  <2>1. job = "idle" /\ ~missed => tags[r] = {}
    BY <1>3
  <2> QED
    BY <1>3, <1>4, <1>6, <2>1 DEF BuiltIsServed
<1> QED
  BY <1>1, <1>7, <1>8, <1>12, <1>13 DEF LInv

\* The annotation the index job writes is the cell the module was built for.
LEMMA AnnotationIsTrue ==
  ASSUME NEW i \in Image, i.manifest = i.builtFor
  PROVE  LET a == [i EXCEPT !.descriptor = i.manifest]
         IN /\ a \in Image
            /\ a.builtFor = i.builtFor /\ a.builtOn = i.builtOn
            /\ Annotated({i}) = {a}
  BY DEF Image, Annotated

\* One tag is read, or left out.
LEMMA ReadKeepsPInv ==
  ASSUME PInv, NEW r \in Repos, ReadTag(r), UNCHANGED vars
  PROVE  PInv'
<1> USE DEF PInv, vars
<1>1. LInv'
  BY WorkflowSparesLookups DEF LookupTypes
<1> DEFINE i == CHOOSE j \in ci[r].unread : TRUE
           a == [i EXCEPT !.descriptor = i.manifest]
<1>2. /\ ci[r] \in Run /\ ci[r].kept \in Seq(Image)
      /\ ci[r].job = "index" /\ i \in ci[r].unread /\ i \in tags[r] /\ i \in Image
  BY DEF PublishTypes, Run, ReadTag
<1>3. \/ ci' = [ci EXCEPT ![r].unread = @ \ {i}, ![r].kept = Append(@, a)]
      \/ ci' = [ci EXCEPT ![r].unread = @ \ {i}, ![r].missed = TRUE]
  BY DEF ReadTag
<1>4. UNCHANGED <<base, tags>>
  BY DEF ReadTag
<1>5. /\ a \in Image /\ Annotated({i}) = {a}
      /\ a.builtFor = i.builtFor /\ a.builtOn = i.builtOn
  BY <1>2, AnnotationIsTrue DEF Collected
<1> HIDE DEF i, a
<1>6. /\ Append(ci[r].kept, a) \in Seq(Image)
      /\ ToSet(Append(ci[r].kept, a)) = ToSet(ci[r].kept) \cup {a}
  BY <1>2, <1>5, AppendedSet
<1>7. /\ ci' \in [Repos -> Run]
      /\ ci'[r].job = "index" /\ ci'[r].todo = ci[r].todo
      /\ ci'[r].unread = ci[r].unread \ {i}
      /\ \/ ci'[r].kept = Append(ci[r].kept, a) /\ ci'[r].missed = ci[r].missed
         \/ ci'[r].kept = ci[r].kept /\ ci'[r].missed
      /\ \A q \in Repos : q # r => ci'[q] = ci[q]
  <2>1. CASE ci' = [ci EXCEPT ![r].unread = @ \ {i}, ![r].kept = Append(@, a)]
    BY <1>2, <1>6, <2>1 DEF PublishTypes, Run
  <2>2. CASE ci' = [ci EXCEPT ![r].unread = @ \ {i}, ![r].missed = TRUE]
    BY <1>2, <2>2 DEF PublishTypes, Run
  <2> QED
    BY <1>3, <2>1, <2>2
<1>8. PublishTypes'
  BY <1>4, <1>7 DEF PublishTypes
<1>9. PastIsTruthful => Truthful(Append(ci[r].kept, a))
  <2>1. PastIsTruthful => Truthful(ci[r].kept) /\ i.builtFor = i.builtOn
    BY <1>2 DEF AllTruthful
  <2>2. Len(ci[r].kept) \in Nat /\ DOMAIN ci[r].kept = 1..Len(ci[r].kept)
    BY <1>2
  <2>3. DOMAIN Append(ci[r].kept, a) = 1..Len(ci[r].kept) + 1
    BY <1>2, <1>5
  <2> QED
    BY <1>2, <1>5, <2>1, <2>2, <2>3 DEF Truthful
<1>10. AllTruthful'
  BY <1>4, <1>7, <1>9 DEF AllTruthful
<1>11. Annotated(ci[r].unread) = Annotated(ci[r].unread \ {i}) \cup {a}
  BY <1>2, <1>5 DEF Annotated
<1>12. Collected'
  <2>1. ASSUME ~ci'[r].missed
        PROVE  ToSet(ci'[r].kept) \cup Annotated(ci'[r].unread)
                 = Annotated(tags'[r])
    <3>1. ci'[r].kept = Append(ci[r].kept, a) /\ ~ci[r].missed
      BY <1>7, <2>1
    <3>2. ToSet(ci[r].kept) \cup Annotated(ci[r].unread) = Annotated(tags[r])
      BY <1>2, <3>1 DEF Collected
    <3>3. tags'[r] = tags[r] /\ ci'[r].unread = ci[r].unread \ {i}
      BY <1>4, <1>7
    <3> QED
      BY <1>6, <1>11, <3>1, <3>2, <3>3
  <2>2. \A q \in Repos : q # r => ci'[q] = ci[q] /\ tags'[q] = tags[q]
    BY <1>4, <1>7
  <2>3. tags' = tags /\ ci'[r].job = "index"
    BY <1>4, <1>7
  <2> QED
    BY <2>1, <2>2, <2>3 DEF Collected
<1>13. BuiltIsServed'
  BY <1>4, <1>7 DEF BuiltIsServed
<1> QED
  BY <1>1, <1>8, <1>10, <1>12, <1>13 DEF LInv

\* The index is pushed: it names every tag, if the job has read every tag.
LEMMA PushKeepsPInv ==
  ASSUME PInv, NEW r \in Repos, PushIndex(r),
         UNCHANGED <<pc, pos, seen, sound, lock, tokens, fetches>>
  PROVE  PInv'
<1> USE DEF PInv, PushIndex
<1>1. ci[r] \in Run /\ ci[r].kept \in Seq(Image) /\ <<>> \in Seq(Image)
  BY DEF PublishTypes, Run
<1>2. index' \in [Repos -> Seq(Image)]
      /\ \A q \in Repos : q # r => index'[q] = index[q]
  BY <1>1 DEF LookupTypes
<1>3. LInv'
  BY <1>2, WorkflowSparesLookups
<1>4. /\ ci' \in [Repos -> Run]
      /\ ci'[r].job = "idle" /\ ci'[r].kept = <<>> /\ ci'[r].unread = {}
      /\ ci'[r].todo = ci[r].todo /\ ci'[r].missed = ci[r].missed
      /\ \A q \in Repos : q # r => ci'[q] = ci[q]
  BY <1>1 DEF PublishTypes, Run
<1>5. index'[r] = IF ci[r].kept = <<>> THEN index[r] ELSE ci[r].kept
  BY DEF LookupTypes
<1>6. PublishTypes'
  BY <1>4 DEF PublishTypes
<1>7. AllTruthful'
  <2>1. Truthful(<<>>)
    BY DEF Truthful
  <2>2. PastIsTruthful => Truthful(index'[r]) /\ Truthful(ci'[r].kept)
    BY <1>4, <1>5, <2>1 DEF AllTruthful
  <2> QED
    BY <1>2, <1>4, <2>2 DEF AllTruthful
<1>8. Collected'
  BY <1>4 DEF Collected
<1>9. BuiltIsServed'
  <2>1. ASSUME ~ci[r].missed, tags[r] # {}
        PROVE  ToSet(index'[r]) = Annotated(tags[r])
    <3>1. ToSet(ci[r].kept) = Annotated(tags[r])
      BY <2>1 DEF Collected, Annotated
    <3>2. ci[r].kept # <<>>
      <4>1. ToSet(<<>>) = {}
        BY DEF ToSet
      <4>2. Annotated(tags[r]) # {}
        BY <2>1 DEF Annotated
      <4> QED
        BY <3>1, <4>1, <4>2
    <3> QED
      BY <1>5, <3>1, <3>2
  <2> QED
    BY <1>2, <1>4, <2>1 DEF BuiltIsServed, Annotated
<1> QED
  BY <1>3, <1>6, <1>7, <1>8, <1>9 DEF LInv

-----------------------------------------------------------------------------
(* The theorems.                                                           *)

\* Nothing is published, and every lookup is about to start.
LEMMA InitEstablishesPInv ==
  ASSUME PubInit
  PROVE  PInv
<1> USE DEF PubInit, Init
<1>1. \A r \in Repos : index[r] \in Indexes[r] /\ Indexes[r] \subseteq Seq(Image)
  BY LookupAssumption DEF Repos
<1>2. index \in [Repos -> Seq(Image)]
  BY <1>1
<1>3. <<>> \in Seq(Image) /\ Len(<<>>) = 0 /\ Truthful(<<>>)
  BY DEF Truthful
<1>4. LookupTypes
  BY <1>2, <1>3 DEF LookupTypes, Pc
<1>5. /\ NoRun.job = "idle" /\ NoRun.run = 0 /\ NoRun.todo = {}
      /\ NoRun.unread = {} /\ NoRun.kept = <<>>
  BY DEF NoRun
<1>6. NoRun \in Run
  BY <1>3, PublishAssumption DEF NoRun, Run
<1>7. PublishTypes
  BY <1>5, <1>6, PublishAssumption DEF PublishTypes
<1>8. InIndex /\ Checked /\ FetchedOnce
  BY <1>3 DEF InIndex, Checked, FetchedOnce
<1>9. AllTruthful
  BY <1>1, <1>3, <1>5 DEF AllTruthful, PastIsTruthful
<1>10. Collected /\ BuiltIsServed
  BY <1>5 DEF Collected, BuiltIsServed
<1> QED
  BY <1>4, <1>7, <1>8, <1>9, <1>10 DEF PInv

\* Every step keeps the invariant.
LEMMA StepKeepsPInv == PInv /\ [PubNext]_pvars => PInv'
<1> SUFFICES ASSUME PInv, [PubNext]_pvars PROVE PInv'
  OBVIOUS
<1>1. CASE UNCHANGED pvars
  BY <1>1
  DEF pvars, pubVars, vars, PInv, LookupTypes, PublishTypes, InIndex, Checked,
      FetchedOnce, AllTruthful, Collected, BuiltIsServed, Here, Images
<1>2. CASE Done /\ UNCHANGED pubVars
  BY <1>1, <1>2 DEF Done, pvars
<1>3. CASE (\E l \in Lookup : LookupStep(l)) /\ UNCHANGED pubVars
  BY <1>3, LookupKeepsPInv
<1>4. CASE (Respin \/ \E r \in Repos : PublishStep(r)) /\ UNCHANGED vars
  BY <1>4, RunsKeepPInv, BuildKeepsPInv, ListKeepsPInv, ReadKeepsPInv
  DEF PublishStep
<1>5. CASE /\ \E r \in Repos : PushIndex(r)
           /\ UNCHANGED <<pc, pos, seen, sound, lock, tokens, fetches>>
  BY <1>5, PushKeepsPInv
<1> QED
  BY <1>1, <1>2, <1>3, <1>4, <1>5 DEF PubNext

\* The inductive invariant holds of lookups beside the workflow.
THEOREM PInvHolds == PubSpec => []PInv
<1>1. PubInit => PInv
  BY InitEstablishesPInv
<1> QED
  BY <1>1, StepKeepsPInv, PTL DEF PubSpec

\* Lookups, tokens, tags, indexes and runs keep their types: no lookup looks
\* past the end of its index, and no run lists a tag that is not there.
THEOREM PubTypesHold == PubSpec => []PubTypeOK
<1>1. PInv => PubTypeOK
  <2> SUFFICES ASSUME PInv PROVE PubTypeOK
    OBVIOUS
  <2> USE DEF PInv
  <2>1. ASSUME NEW l \in Lookup PROVE pos[l] \in 1..Len(seen[l]) + 1
    <3>1. pos[l] \in Nat \ {0} /\ seen[l] \in Seq(Image)
      BY DEF LookupTypes
    <3>2. Len(seen[l]) \in Nat /\ pos[l] <= Len(seen[l]) + 1
      BY <3>1 DEF InIndex
    <3> QED
      BY <3>1, <3>2
  <2>2. TypeOK
    BY <2>1 DEF TypeOK, LookupTypes
  <2>3. \A r \in Repos : ci[r] \in Run /\ tags[r] \subseteq Image
    BY DEF PublishTypes
  <2> QED
    BY <2>2, <2>3 DEF PubTypeOK, PublishTypes, Run
<1> QED
  BY <1>1, PInvHolds, PTL

\* A hit is a module for the cell that was asked for, out of undamaged parts,
\* for any lookups and indexes, and while indexes are replaced.
THEOREM HitsAreForTheirCell == PubSpec => []HitIsForCell
<1>1. PInv => HitIsForCell
  BY DEF PInv, Checked, HitIsForCell
<1> QED
  BY <1>1, PInvHolds, PTL

\* A hit was built on a machine like the one that asks, for any number of base
\* images and runs, if that is true of what was published before.
THEOREM HitsFitTheirMachine ==
  ASSUME PastIsTruthful
  PROVE  PubSpec => []HitFitsMachine
<1>1. PInv => HitFitsMachine
  <2> SUFFICES ASSUME PInv, NEW l \in Lookup, pc[l] = "hit"
               PROVE  Here(l).builtOn = Wanted[l]
    BY DEF HitFitsMachine
  <2>1. pos[l] \in 1..Len(seen[l]) /\ seen[l] \in Seq(Image)
    BY DEF PInv, LookupTypes, InIndex
  <2>2. pos[l] \in DOMAIN seen[l]
    BY <2>1
  <2>3. Here(l).builtFor = Here(l).builtOn
    BY <2>2 DEF PInv, AllTruthful, Truthful, Here, Images
  <2> QED
    BY <2>3 DEF PInv, Checked
<1> QED
  BY <1>1, PInvHolds, PTL

\* Any number of lookups fetch the token of a repository once between them.
THEOREM OneTokenForARepository == PubSpec => []TokenFetchedOnce
<1>1. PInv => TokenFetchedOnce
  BY DEF PInv, FetchedOnce, TokenFetchedOnce
<1> QED
  BY <1>1, PInvHolds, PTL

\* After a run that has read every tag, everything pushed is found, for any
\* matrix and any number of runs.
THEOREM PublishedIsServed == PubSpec => []BuiltIsServed
<1>1. PInv => BuiltIsServed
  BY DEF PInv
<1> QED
  BY <1>1, PInvHolds, PTL
=============================================================================
