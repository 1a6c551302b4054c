--------------------------- MODULE ResolverProofs ---------------------------
(***************************************************************************)
(* Proofs about Resolver, for any machines, command lines, constraints,    *)
(* answers of Packagist and loaded extensions, as long as the versions in  *)
(* them are those Versions gives a meaning to (RegularInputs).             *)
(***************************************************************************)
EXTENDS Resolver, VersionsProofs

-----------------------------------------------------------------------------
(* Choosing the newest.                                                    *)

\* A bounded function has a largest value.
LEMMA LargestValue ==
  ASSUME NEW C, C # {}, NEW G \in [C -> 0..MaxPart]
  PROVE  \E i \in C : \A j \in C : G[j] <= G[i]
<1> DEFINE S == {MaxPart - G[i] : i \in C}
<1>1. \A i \in C : G[i] \in Nat /\ G[i] <= MaxPart
  BY MaxPartAssumption
<1>2. S \subseteq Nat /\ S # {}
  BY <1>1, MaxPartAssumption
<1>3. PICK m \in S : \A k \in S : m <= k
  <2> HIDE DEF S
  <2> QED
    BY <1>2, LeastNumber
<1>4. PICK i \in C : m = MaxPart - G[i]
  BY <1>3
<1>5. \A j \in C : G[j] <= G[i]
  BY <1>1, <1>3, <1>4, MaxPartAssumption
<1> QED
  BY <1>5

\* Among finitely many triples there is a first newest one.
LEMMA FirstNewest ==
  ASSUME NEW C, C \subseteq Nat, C # {}, NEW F \in [C -> Triple]
  PROVE  \E i \in C : \A j \in C : ~Before(F[i], F[j])
                                   /\ (F[i] = F[j] => i <= j)
<1>0. \A i \in C : /\ F[i] \in Triple
                   /\ F[i][1] \in 0..MaxPart /\ F[i][2] \in 0..MaxPart
                   /\ F[i][3] \in 0..MaxPart
  BY MaxPartAssumption DEF Triple
<1>1. PICK a \in C : \A j \in C : F[j][1] <= F[a][1]
  <2> DEFINE G == [j \in C |-> F[j][1]]
  <2>1. G \in [C -> 0..MaxPart]
    BY <1>0
  <2>2. \E i \in C : \A j \in C : G[j] <= G[i]
    <3> HIDE DEF G
    <3> QED
      BY <2>1, LargestValue
  <2> QED
    BY <2>2
<1> DEFINE C1 == {j \in C : F[j][1] = F[a][1]}
<1>2. PICK b \in C1 : \A j \in C1 : F[j][2] <= F[b][2]
  <2> DEFINE G == [j \in C1 |-> F[j][2]]
  <2>1. G \in [C1 -> 0..MaxPart] /\ C1 # {}
    BY <1>0, <1>1
  <2>2. \E i \in C1 : \A j \in C1 : G[j] <= G[i]
    <3> HIDE DEF G, C1
    <3> QED
      BY <2>1, LargestValue
  <2> QED
    BY <2>2
<1> DEFINE C2 == {j \in C1 : F[j][2] = F[b][2]}
<1>3. PICK c \in C2 : \A j \in C2 : F[j][3] <= F[c][3]
  <2> DEFINE G == [j \in C2 |-> F[j][3]]
  <2>1. G \in [C2 -> 0..MaxPart] /\ C2 # {}
    BY <1>0, <1>2
  <2>2. \E i \in C2 : \A j \in C2 : G[j] <= G[i]
    <3> HIDE DEF G, C2
    <3> QED
      BY <2>1, LargestValue
  <2> QED
    BY <2>2
<1> DEFINE C3 == {j \in C2 : F[j][3] = F[c][3]}
<1>4. PICK d \in C3 : \A j \in C3 : d <= j
  <2>1. C3 \subseteq Nat /\ C3 # {}
    BY <1>3
  <2> HIDE DEF C3
  <2> QED
    BY <2>1, LeastNumber
<1>5. ASSUME NEW j \in C
      PROVE  ~Before(F[d], F[j]) /\ (F[d] = F[j] => d <= j)
  <2>1. /\ F[d][1] = F[a][1] /\ F[d][2] = F[b][2] /\ F[d][3] = F[c][3]
        /\ d \in C
    BY <1>4
  <2>2. F[j][1] <= F[d][1]
    BY <1>1, <2>1
  <2>3. F[j][1] = F[d][1] => F[j][2] <= F[d][2]
    BY <1>2, <2>1
  <2>4. F[j][1] = F[d][1] /\ F[j][2] = F[d][2] => F[j][3] <= F[d][3]
    BY <1>3, <2>1
  <2>5. ~Before(F[d], F[j])
    BY <1>0, <2>1, <2>2, <2>3, <2>4 DEF Before
  <2>6. F[d] = F[j] => j \in C3
    BY <2>1
  <2> QED
    BY <1>4, <2>5, <2>6
<1> QED
  BY <1>4, <1>5

\* The matches, and the stable ones among them.
Matches(l, c) == {i \in DOMAIN l : ConstraintMatches(c, l[i].version)}
Stable(l, c) == {i \in Matches(l, c) : IsStable(l[i])}

\* selectVersion selects a match if there is one: a stable one if there is
\* one, and none of those it chooses from is newer.
LEMMA SelectionMeans ==
  ASSUME NEW l, NEW c, Len(l) \in Nat, DOMAIN l = 1..Len(l),
         \A i \in DOMAIN l : ParseVersion(l[i].version) \in Triple
  PROVE  LET s == SelectVersion(l, c)
         IN /\ s = 0 => Matches(l, c) = {}
            /\ s # 0 => /\ s \in Matches(l, c)
                        /\ Stable(l, c) # {} => s \in Stable(l, c)
                        /\ \A i \in IF Stable(l, c) # {} THEN Stable(l, c)
                                    ELSE Matches(l, c) :
                             ~Before(ParseVersion(l[s].version),
                                     ParseVersion(l[i].version))
<1> DEFINE s == SelectVersion(l, c)
           C == IF Stable(l, c) # {} THEN Stable(l, c) ELSE Matches(l, c)
           V(i) == ParseVersion(l[i].version)
           Q(i) == \A j \in C : ~Before(V(i), V(j)) /\ (V(i) = V(j) => i <= j)
<1>1. s = IF C = {} THEN 0 ELSE CHOOSE i \in C : Q(i)
  BY DEF SelectVersion, Stable, Matches
<1>2. /\ C \subseteq Matches(l, c) /\ C \subseteq DOMAIN l
      /\ C = {} => Matches(l, c) = {}
  BY DEF Stable, Matches
<1>3. 0 \notin C
  BY <1>2
<1>4. CASE C = {}
  BY <1>1, <1>2, <1>4
<1>5. CASE C # {}
  <2>1. \E i \in C : Q(i)
    <3> DEFINE F == [i \in C |-> V(i)]
    <3>1. C \subseteq Nat
      BY <1>2
    <3>2. F \in [C -> Triple]
      BY <1>2
    <3>3. \E i \in C : \A j \in C : ~Before(F[i], F[j])
                                    /\ (F[i] = F[j] => i <= j)
      <4> HIDE DEF F, C
      <4> QED
        BY <1>5, <3>1, <3>2, FirstNewest, ZenonT(40)
    <3> HIDE DEF C, V
    <3> QED
      BY <3>3
  <2>2. s \in C /\ Q(s)
    <3> HIDE DEF Q, C, s
    <3> QED
      BY <1>1, <1>5, <2>1
  <2> QED
    BY <1>2, <1>3, <2>2
<1> QED
  BY <1>4, <1>5

-----------------------------------------------------------------------------
(* The inductive invariant.                                                *)

\* What the command started with.
GivenInputs == \E s \in Scenarios : /\ machine = s.machine /\ args = s.args
                                    /\ request = s.request

\* What it has been told.
ToldInputs == /\ listing \in Listings \cup {<<>>}
              /\ loaded \in LoadedLists \cup {NoExtensions}

\* Both probes answer for the php that was chosen, and describe that one.
DescribesPath ==
  /\ probes \in [Probes -> {"none", "runs", "ok", "failed"}]
  /\ probes["info"] = "ok" => path \in DOMAIN machine.bin
  /\ at = "choose" => probes["info"] = "none"
  /\ at \in {"explicit", "target"} \cup Tools =>
       /\ path \in DOMAIN machine.bin
       /\ php = [path |-> path, version |-> machine.bin[path].version,
                 zts |-> machine.bin[path].zts, api |-> machine.bin[path].api]

\* The package is looked at when the target is known, and a release is chosen
\* from when there is a listing.
StageFits ==
  /\ rs # "start" => at = "target"
  /\ rs \in {"start", "fetch", "select"} => chosen = 0 /\ why = ""
  /\ rs \in {"support", "requirements", "accepted"} => chosen # 0
  /\ chosen # 0 => chosen \in DOMAIN listing

\* What has been checked of the entry so far.
SupportedSoFar ==
  rs \in {"requirements", "accepted"} =>
    /\ SupportsThreadSafety(Metadata(listing[chosen]), php.zts)
    /\ SupportsOsFamily(Metadata(listing[chosen]), OsFamily)

\* Whether the requirements are met, when that has been found out.
RequirementsSoFar ==
  /\ rs = "accepted" =>
       (\A r \in Requires(listing[chosen]) : Met(r)) \/ request.ignore
  /\ why = "requirements" =>
       /\ ~(\A r \in Requires(listing[chosen]) : Met(r))
       /\ ~request.ignore

IInv == /\ TypeOK
        /\ GivenInputs
        /\ ToldInputs
        /\ DescribesPath
        /\ StageFits
        /\ NewestStableOfInterval
        /\ SupportedSoFar
        /\ RequirementsSoFar

-----------------------------------------------------------------------------
\* The answer of Packagist is a sequence of releases.
LEMMA ListingTypes ==
  ASSUME RegularInputs, ToldInputs
  PROVE  /\ Len(listing) \in Nat /\ DOMAIN listing = 1..Len(listing)
         /\ \A i \in DOMAIN listing :
              /\ FullText(listing[i].version)
              /\ ParseVersion(listing[i].version) \in Triple
              /\ \A r \in Requires(listing[i]) : RegularConstraint(r.constraint)
<1>1. CASE listing \in Listings
  <2>1. listing \in Seq(ToSet(listing))
    BY <1>1 DEF RegularInputs
  <2>2. Len(listing) \in Nat /\ DOMAIN listing = 1..Len(listing)
    BY <2>1
  <2>3. \A i \in DOMAIN listing :
          /\ FullText(listing[i].version)
          /\ \A r \in Requires(listing[i]) : RegularConstraint(r.constraint)
    BY <1>1 DEF RegularInputs
  <2>4. \A i \in DOMAIN listing : ParseVersion(listing[i].version) \in Triple
    BY <2>3, ParsedIsTriple DEF FullText
  <2> QED
    BY <2>2, <2>3, <2>4
<1>2. CASE listing = <<>>
  BY <1>2
<1> QED
  BY <1>1, <1>2 DEF ToldInputs

\* The constraint of the request is regular.
LEMMA RequestIsRegular ==
  ASSUME RegularInputs, GivenInputs
  PROVE  RegularConstraint(request.constraint)
BY DEF RegularInputs, GivenInputs

\* For the request, matching and admitting are the same.
LEMMA MatchesAreAdmitted ==
  ASSUME RegularInputs, GivenInputs, ToldInputs
  PROVE  Matches(listing, request.constraint)
           = {i \in DOMAIN listing :
                Admits(request.constraint, listing[i].version)}
<1>1. RegularConstraint(request.constraint)
  BY RequestIsRegular
<1>2. \A i \in DOMAIN listing : FullText(listing[i].version)
  BY ListingTypes
<1>3. \A i \in DOMAIN listing :
        ConstraintMatches(request.constraint, listing[i].version)
          <=> Admits(request.constraint, listing[i].version)
  BY <1>1, <1>2, ConstraintsMeanIntervals
<1> QED
  BY <1>3 DEF Matches

\* A requirement blocks exactly when it is not met.
LEMMA BlockingIsUnmet ==
  ASSUME RegularInputs, GivenInputs, ToldInputs, DescribesPath, at = "target",
         NEW r, RegularConstraint(r.constraint)
  PROVE  IsBlocking(r) <=> ~Met(r)
<1>1. CASE r.kind = "php"
  <2>1. FullText(Text(php.version))
    BY DEF RegularInputs, GivenInputs, DescribesPath
  <2>2. ConstraintMatches(r.constraint, Text(php.version))
          <=> Admits(r.constraint, Text(php.version))
    BY <2>1, ConstraintsMeanIntervals
  <2>3. Met(r) <=> Admits(r.constraint, Text(php.version))
    BY <1>1 DEF Met
  <2>4. Satisfaction(r) = IF ConstraintMatches(r.constraint, Text(php.version))
                          THEN "satisfied" ELSE "mismatch"
    BY <1>1 DEF Satisfaction
  <2> QED
    BY <1>1, <2>2, <2>3, <2>4 DEF IsBlocking
<1>2. CASE r.kind = "ext"
  <2>1. ASSUME r.name \in DOMAIN loaded
        PROVE  FullText(loaded[r.name])
    <3>1. loaded \in LoadedLists
      BY <2>1 DEF ToldInputs, NoExtensions
    <3> QED
      BY <2>1, <3>1 DEF RegularInputs
  <2>2. r.name \in DOMAIN loaded =>
          (ConstraintMatches(r.constraint, loaded[r.name])
             <=> Admits(r.constraint, loaded[r.name]))
    BY <2>1, ConstraintsMeanIntervals
  <2>3. Met(r) <=> /\ r.name \in DOMAIN loaded
                   /\ Admits(r.constraint, loaded[r.name])
    BY <1>2 DEF Met
  <2>4. Satisfaction(r) = IF r.name \notin DOMAIN loaded THEN "missing"
                          ELSE IF ConstraintMatches(r.constraint, loaded[r.name])
                               THEN "satisfied" ELSE "mismatch"
    BY <1>2 DEF Satisfaction
  <2> QED
    BY <1>2, <2>2, <2>3, <2>4 DEF IsBlocking
<1>3. CASE r.kind \notin {"php", "ext"}
  BY <1>3 DEF IsBlocking, Met
<1> QED
  BY <1>1, <1>2, <1>3

-----------------------------------------------------------------------------
\* Before a release is chosen, `chosen` is 0, whatever the listing.
LEMMA NoneIsIndex == \A s : Len(s) \in Nat => 0 \in 0..Len(s)
OBVIOUS

\* At the start nothing is chosen, told or refused.
LEMMA InitEstablishesIInv == Init => IInv
<1> SUFFICES ASSUME Init PROVE IInv
  OBVIOUS
<1>1. TypeOK
  <2>1. chosen \in 0..Len(listing)
    BY NoneIsIndex DEF Init
  <2>2. at = "choose" /\ probes \in [Probes -> {"none"}] /\ late \in BOOLEAN
    BY DEF Init, TargetInit
  <2>3. rs = "start" /\ why = ""
    BY DEF Init
  <2> QED
    BY <2>1, <2>2, <2>3 DEF TypeOK
<1>2. GivenInputs
  BY DEF Init, GivenInputs
<1>3. ToldInputs
  BY DEF Init, ToldInputs
<1>4. DescribesPath
  BY DEF Init, TargetInit, DescribesPath, Tools, Probes
<1>5. StageFits /\ SupportedSoFar /\ RequirementsSoFar
  BY DEF Init, StageFits, SupportedSoFar, RequirementsSoFar
<1>6. NewestStableOfInterval
  BY DEF Init, NewestStableOfInterval
<1> QED
  BY <1>1, <1>2, <1>3, <1>4, <1>5, <1>6 DEF IInv

\* Every step of the search for the target ends with the description of the
\* path it started from.
LEMMA TargetStepDescribes ==
  ASSUME TypeOK, DescribesPath, TargetStep
  PROVE  /\ DescribesPath'
         /\ at' \in {"choose", "introspect", "explicit", "target", "failed"}
                      \cup Tools
         /\ late' \in BOOLEAN
         /\ machine' = machine /\ args' = args
         /\ at # "target"
<1> USE DEF TypeOK, DescribesPath, Tools, Probes
<1>1. CASE ChoosePhp
  BY <1>1 DEF ChoosePhp
<1>2. ASSUME NEW k \in Probes, ProbeEnds(k)
      PROVE  /\ DescribesPath'
             /\ at' = at /\ late' = late /\ at # "target"
             /\ machine' = machine /\ args' = args
  BY <1>2 DEF ProbeEnds
<1>3. CASE Introspected
  <2>1. CASE \A k \in Probes : probes[k] = "ok"
    <3>1. path \in DOMAIN machine.bin
      BY <2>1
    <3>2. /\ php' = [path |-> path, version |-> machine.bin[path].version,
                     zts |-> machine.bin[path].zts,
                     api |-> machine.bin[path].api]
          /\ at' \in {"explicit", "php-config"}
          /\ late' \in BOOLEAN
          /\ UNCHANGED <<machine, args, path, probes>>
          /\ at = "introspect"
      BY <1>3, <2>1 DEF Introspected, SearchFor
    <3> QED
      BY <3>1, <3>2
  <2>2. CASE ~(\A k \in Probes : probes[k] = "ok")
    BY <1>3, <2>2 DEF Introspected
  <2> QED
    BY <2>1, <2>2
<1>4. CASE CheckExplicitPhpize
  BY <1>4 DEF CheckExplicitPhpize, SearchFor
<1>5. CASE ProbePhpConfig
  BY <1>5 DEF ProbePhpConfig, AfterPhpConfig, SearchFor
<1>6. CASE FallBackToPhpConfig
  BY <1>6 DEF FallBackToPhpConfig, AfterPhpConfig, SearchFor
<1>7. CASE ProbePhpize
  BY <1>7 DEF ProbePhpize
<1>8. CASE NoPhpize
  BY <1>8 DEF NoPhpize
<1> QED
  BY <1>1, <1>2, <1>3, <1>4, <1>5, <1>6, <1>7, <1>8 DEF TargetStep

\* The search for the target leaves the request alone.
LEMMA TargetStepKeepsIInv ==
  ASSUME IInv, TargetStep, UNCHANGED resolverVars
  PROVE  IInv'
<1>1. /\ DescribesPath'
      /\ at' \in {"choose", "introspect", "explicit", "target", "failed"}
                   \cup Tools
      /\ late' \in BOOLEAN
      /\ machine' = machine /\ args' = args
      /\ at # "target"
  BY TargetStepDescribes DEF IInv
<1>2. rs = "start" /\ rs' = "start" /\ chosen' = 0 /\ why' = ""
  BY <1>1 DEF IInv, StageFits, resolverVars
<1>3. TypeOK'
  BY <1>1 DEF IInv, TypeOK, resolverVars, DescribesPath
<1>4. GivenInputs'
  BY <1>1 DEF IInv, GivenInputs, resolverVars
<1>5. ToldInputs'
  BY DEF IInv, ToldInputs, resolverVars
<1>6. StageFits' /\ SupportedSoFar' /\ RequirementsSoFar'
  BY <1>2 DEF StageFits, SupportedSoFar, RequirementsSoFar
<1>7. NewestStableOfInterval'
  BY <1>2 DEF NewestStableOfInterval
<1> QED
  BY <1>1, <1>3, <1>4, <1>5, <1>6, <1>7 DEF IInv

\* What the parts about the target need while the package is worked on.
LEMMA TargetIsLeftAlone ==
  ASSUME IInv, UNCHANGED <<targetVars, request>>
  PROVE  GivenInputs' /\ DescribesPath'
BY DEF IInv, GivenInputs, DescribesPath, targetVars

\* What is left to show of the types then.
LEMMA TypesKept ==
  ASSUME TypeOK, UNCHANGED targetVars,
         rs' \in {"start", "fetch", "select", "support", "requirements",
                  "accepted", "refused"},
         why' \in {"", "lookup", "version", "type", "name", "zts", "os",
                   "requirements"},
         why' # "" <=> rs' = "refused",
         chosen' \in 0..Len(listing')
  PROVE  TypeOK'
<1>1. UNCHANGED <<at, probes, late>>
  BY DEF targetVars
<1> QED
  BY <1>1 DEF TypeOK

\* Extensions are read, and the releases arrive.
LEMMA AnswersKeepIInv ==
  ASSUME RegularInputs, IInv, ReadLoaded \/ PackageVersions
  PROVE  IInv'
<1>1. GivenInputs' /\ DescribesPath'
  BY TargetIsLeftAlone DEF ReadLoaded, PackageVersions
<1>2. CASE ReadLoaded
  <2>1. /\ at' = "target" /\ rs' = "fetch" /\ chosen' = 0 /\ why' = ""
        /\ listing' = listing /\ UNCHANGED targetVars
        /\ loaded' \in LoadedLists \cup {NoExtensions}
    BY <1>2 DEF IInv, StageFits, ReadLoaded, Goto, targetVars
  <2>2. TypeOK'
    <3>1. chosen' \in 0..Len(listing')
      BY <1>2 DEF IInv, TypeOK, ReadLoaded
    <3> QED
      BY <2>1, <3>1, TypesKept DEF IInv
  <2>3. ToldInputs'
    BY <2>1 DEF IInv, ToldInputs
  <2>4. StageFits' /\ SupportedSoFar' /\ RequirementsSoFar'
    BY <2>1 DEF StageFits, SupportedSoFar, RequirementsSoFar
  <2>5. NewestStableOfInterval'
    BY <2>1 DEF NewestStableOfInterval
  <2> QED
    BY <1>1, <2>2, <2>3, <2>4, <2>5 DEF IInv
<1>3. CASE PackageVersions
  <2>1. /\ at' = "target" /\ chosen' = 0 /\ UNCHANGED <<targetVars, loaded>>
        /\ \/ rs' = "select" /\ why' = "" /\ listing' \in Listings
           \/ rs' = "refused" /\ why' = "lookup" /\ listing' = listing
    BY <1>3 DEF IInv, StageFits, PackageVersions, Goto, Refuse, targetVars
  <2>2. ToldInputs'
    BY <2>1 DEF IInv, ToldInputs
  <2>3. TypeOK'
    <3>1. chosen' \in 0..Len(listing')
      <4>1. \A l \in Listings \cup {<<>>} : Len(l) \in Nat
        BY DEF RegularInputs
      <4>2. Len(listing') \in Nat
        BY <2>2, <4>1 DEF ToldInputs
      <4>3. 0 \in 0..Len(listing')
        BY <4>2, NoneIsIndex
      <4> QED
        BY <2>1, <4>3
    <3> QED
      BY <2>1, <3>1, TypesKept DEF IInv
  <2>4. StageFits' /\ SupportedSoFar' /\ RequirementsSoFar'
    BY <2>1 DEF StageFits, SupportedSoFar, RequirementsSoFar
  <2>5. NewestStableOfInterval'
    BY <2>1 DEF NewestStableOfInterval
  <2> QED
    BY <1>1, <2>2, <2>3, <2>4, <2>5 DEF IInv
<1> QED
  BY <1>2, <1>3

\* The selected release is a newest stable one of the interval.
LEMMA SelectedFromInterval ==
  ASSUME RegularInputs, GivenInputs, ToldInputs
  PROVE  LET s == SelectVersion(listing, request.constraint)
             In == {i \in DOMAIN listing :
                      Admits(request.constraint, listing[i].version)}
             stable == {i \in In : IsStable(listing[i])}
             V(i) == ParseVersion(listing[i].version)
         IN /\ s = 0 => In = {}
            /\ s # 0 => /\ s \in In
                        /\ stable # {} => s \in stable
                        /\ \A i \in In : Before(V(s), V(i)) =>
                                           stable # {} /\ i \notin stable
<1> DEFINE s == SelectVersion(listing, request.constraint)
           In == {i \in DOMAIN listing :
                    Admits(request.constraint, listing[i].version)}
           stable == {i \in In : IsStable(listing[i])}
           V(i) == ParseVersion(listing[i].version)
<1>1. /\ Len(listing) \in Nat /\ DOMAIN listing = 1..Len(listing)
      /\ \A i \in DOMAIN listing : ParseVersion(listing[i].version) \in Triple
  BY ListingTypes
<1>2. /\ Matches(listing, request.constraint) = In
      /\ Stable(listing, request.constraint) = stable
  BY MatchesAreAdmitted DEF Stable
<1>3. /\ s = 0 => In = {}
      /\ s # 0 => /\ s \in In
                  /\ stable # {} => s \in stable
                  /\ \A i \in IF stable # {} THEN stable ELSE In :
                       ~Before(V(s), V(i))
  <2>1. LET t == SelectVersion(listing, request.constraint)
            l == listing
            c == request.constraint
        IN /\ t = 0 => Matches(l, c) = {}
           /\ t # 0 => /\ t \in Matches(l, c)
                       /\ Stable(l, c) # {} => t \in Stable(l, c)
                       /\ \A i \in IF Stable(l, c) # {} THEN Stable(l, c)
                                   ELSE Matches(l, c) :
                            ~Before(ParseVersion(l[t].version),
                                    ParseVersion(l[i].version))
    BY <1>1, SelectionMeans
  <2> QED
    BY <1>2, <2>1
<1> QED
  BY <1>3

\* A release is selected, or none.
LEMMA SelectKeepsIInv ==
  ASSUME RegularInputs, IInv, Select
  PROVE  IInv'
<1> DEFINE s == SelectVersion(listing, request.constraint)
           In == {i \in DOMAIN listing :
                    Admits(request.constraint, listing[i].version)}
           stable == {i \in In : IsStable(listing[i])}
           V(i) == ParseVersion(listing[i].version)
<1>1. GivenInputs' /\ DescribesPath'
  BY TargetIsLeftAlone DEF Select
<1>2. /\ s = 0 => In = {}
      /\ s # 0 => /\ s \in In
                  /\ stable # {} => s \in stable
                  /\ \A i \in In : Before(V(s), V(i)) =>
                                     stable # {} /\ i \notin stable
  BY SelectedFromInterval DEF IInv
<1>3. /\ chosen' = s /\ at = "target"
      /\ UNCHANGED <<targetVars, request, loaded, listing>>
      /\ \/ s = 0 /\ rs' = "refused" /\ why' = "version"
         \/ s # 0 /\ rs' = "support" /\ why' = ""
  BY DEF Select, Refuse, Goto, IInv, StageFits
<1>4. s \in 0..Len(listing) /\ (s # 0 => s \in DOMAIN listing)
  <2>1. Len(listing) \in Nat /\ DOMAIN listing = 1..Len(listing)
    BY ListingTypes DEF IInv
  <2>2. s # 0 => s \in DOMAIN listing
    BY <1>2
  <2> HIDE DEF s
  <2> QED
    BY <2>1, <2>2
<1> HIDE DEF s
<1>5. TypeOK'
  BY <1>3, <1>4, TypesKept DEF IInv
<1>6. ToldInputs'
  BY <1>3 DEF IInv, ToldInputs
<1>7. StageFits'
  BY <1>3, <1>4 DEF StageFits, targetVars
<1>8. SupportedSoFar' /\ RequirementsSoFar'
  BY <1>3 DEF SupportedSoFar, RequirementsSoFar
<1>9. NewestStableOfInterval'
  BY <1>2, <1>3 DEF NewestStableOfInterval
<1> QED
  BY <1>1, <1>5, <1>6, <1>7, <1>8, <1>9 DEF IInv

\* The checks leave the choice alone.
LEMMA ChecksKeepChoice ==
  ASSUME IInv, rs \in {"support", "requirements"},
         UNCHANGED <<targetVars, request, loaded, listing, chosen>>,
         \/ rs' \in {"requirements", "accepted"} /\ why' = why
         \/ /\ rs' = "refused"
            /\ why' \in {"type", "name", "zts", "os", "requirements"}
  PROVE  /\ TypeOK' /\ GivenInputs' /\ DescribesPath' /\ ToldInputs'
         /\ StageFits' /\ NewestStableOfInterval'
<1>1. GivenInputs' /\ DescribesPath'
  BY TargetIsLeftAlone
<1>2. ToldInputs'
  BY DEF IInv, ToldInputs
<1>3. why = "" /\ chosen # 0 /\ at = "target" /\ chosen \in DOMAIN listing
  BY DEF IInv, StageFits, TypeOK
<1>4. TypeOK'
  <2>1. chosen' \in 0..Len(listing')
    BY DEF IInv, TypeOK
  <2> QED
    BY <1>3, <2>1, TypesKept DEF IInv
<1>5. StageFits'
  BY <1>3 DEF StageFits, targetVars
<1>6. NewestStableOfInterval'
  <2>1. why' # "version"
    BY <1>3
  <2> QED
    BY <2>1 DEF IInv, NewestStableOfInterval
<1> QED
  BY <1>1, <1>2, <1>4, <1>5, <1>6

\* Type, name, thread safety and system of the selected release.
LEMMA SupportKeepsIInv ==
  ASSUME IInv, CheckSupport
  PROVE  IInv'
<1> DEFINE meta == Metadata(listing[chosen])
<1>1. /\ rs = "support" /\ why = ""
      /\ UNCHANGED <<targetVars, request, loaded, listing, chosen>>
      /\ \/ /\ rs' = "requirements" /\ why' = why
            /\ SupportsThreadSafety(meta, php.zts)
            /\ SupportsOsFamily(meta, OsFamily)
         \/ rs' = "refused" /\ why' \in {"type", "name", "zts", "os"}
  BY DEF CheckSupport, Refuse, Goto, IInv, TypeOK
<1> HIDE DEF meta
<1>2. /\ TypeOK' /\ GivenInputs' /\ DescribesPath' /\ ToldInputs'
      /\ StageFits' /\ NewestStableOfInterval'
  BY <1>1, ChecksKeepChoice
<1>3. SupportedSoFar'
  BY <1>1 DEF SupportedSoFar, targetVars, meta
<1>4. RequirementsSoFar'
  BY <1>1 DEF RequirementsSoFar
<1> QED
  BY <1>2, <1>3, <1>4 DEF IInv

\* The requirements of the selected release.
LEMMA RequirementsKeepIInv ==
  ASSUME RegularInputs, IInv, CheckRequirements
  PROVE  IInv'
<1> DEFINE R == Requires(listing[chosen])
<1>1. /\ rs = "requirements" /\ why = ""
      /\ UNCHANGED <<targetVars, request, loaded, listing, chosen>>
      /\ IF (\E r \in R : IsBlocking(r)) /\ ~request.ignore
         THEN rs' = "refused" /\ why' = "requirements"
         ELSE rs' = "accepted" /\ why' = why
  BY DEF CheckRequirements, Refuse, Goto, IInv, TypeOK
<1>2. /\ TypeOK' /\ GivenInputs' /\ DescribesPath' /\ ToldInputs'
      /\ StageFits' /\ NewestStableOfInterval'
  BY <1>1, ChecksKeepChoice
<1>3. SupportedSoFar'
  BY <1>1 DEF SupportedSoFar, targetVars, IInv
<1>4. \A r \in R : IsBlocking(r) <=> ~Met(r)
  <2>1. at = "target" /\ chosen \in DOMAIN listing
    BY <1>1 DEF IInv, StageFits
  <2>2. \A r \in R : RegularConstraint(r.constraint)
    BY <2>1, ListingTypes DEF IInv
  <2> QED
    BY <2>1, <2>2, BlockingIsUnmet DEF IInv
<1>5. RequirementsSoFar'
  <2>1. \A r \in R : Met(r)' <=> Met(r)
    BY <1>1 DEF Met, targetVars
  <2> QED
    BY <1>1, <1>4, <2>1 DEF RequirementsSoFar
<1> QED
  BY <1>2, <1>3, <1>5 DEF IInv

\* Every step keeps the invariant.
LEMMA StepKeepsIInv ==
  ASSUME RegularInputs, IInv, [Next]_vars
  PROVE  IInv'
<1>1. CASE TargetStep /\ UNCHANGED resolverVars
  BY <1>1, TargetStepKeepsIInv
<1>2. CASE ReadLoaded \/ PackageVersions
  BY <1>2, AnswersKeepIInv
<1>3. CASE Select
  BY <1>3, SelectKeepsIInv
<1>4. CASE CheckSupport
  BY <1>4, SupportKeepsIInv
<1>5. CASE CheckRequirements
  BY <1>5, RequirementsKeepIInv
<1>6. CASE UNCHANGED vars
  <2>1. UNCHANGED <<targetVars, request, rs, loaded, listing, chosen, why>>
    BY <1>6 DEF vars, resolverVars
  <2>2. TypeOK'
    <3>1. chosen' \in 0..Len(listing')
      BY <2>1 DEF IInv, TypeOK
    <3>2. /\ rs' \in {"start", "fetch", "select", "support", "requirements",
                      "accepted", "refused"}
          /\ why' \in {"", "lookup", "version", "type", "name", "zts", "os",
                       "requirements"}
          /\ why' # "" <=> rs' = "refused"
      BY <2>1 DEF IInv, TypeOK
    <3> QED
      BY <2>1, <3>1, <3>2, TypesKept DEF IInv
  <2>3. GivenInputs' /\ DescribesPath'
    BY <2>1, TargetIsLeftAlone
  <2>4. ToldInputs' /\ StageFits' /\ NewestStableOfInterval'
    BY <2>1 DEF IInv, ToldInputs, StageFits, NewestStableOfInterval, targetVars
  <2>5. SupportedSoFar'
    BY <2>1 DEF IInv, SupportedSoFar, targetVars
  <2>6. RequirementsSoFar'
    BY <2>1 DEF IInv, RequirementsSoFar, Met, targetVars
  <2> QED
    BY <2>2, <2>3, <2>4, <2>5, <2>6 DEF IInv
<1> QED
  BY <1>1, <1>2, <1>3, <1>4, <1>5, <1>6 DEF Next, Step, Done

-----------------------------------------------------------------------------
\* The inductive invariant holds of every request.
THEOREM ResolverIInvHolds ==
  ASSUME RegularInputs
  PROVE  Spec => []IInv
<1>1. IInv /\ [Next]_vars => IInv'
  BY StepKeepsIInv
<1> QED
  BY <1>1, InitEstablishesIInv, PTL DEF Spec

\* A request keeps its types, and never selects outside the listing.
THEOREM ResolverTypeCorrect ==
  ASSUME RegularInputs
  PROVE  Spec => []TypeOK
<1>1. IInv => TypeOK
  BY DEF IInv
<1> QED
  BY <1>1, ResolverIInvHolds, PTL

\* Whatever Packagist lists, the code matches what the constraint denotes.
THEOREM MatchingMeansInterval ==
  ASSUME RegularInputs
  PROVE  Spec => []ConstraintMeansInterval
<1>1. IInv => ConstraintMeansInterval
  BY RequestIsRegular, ListingTypes, ConstraintsMeanIntervals
     DEF IInv, ConstraintMeansInterval
<1> QED
  BY <1>1, ResolverIInvHolds, PTL

\* Whatever Packagist lists, in any order, the release that is selected is a
\* newest stable one the constraint denotes.
THEOREM NewestStableIsSelected ==
  ASSUME RegularInputs
  PROVE  Spec => []NewestStableOfInterval
<1>1. IInv => NewestStableOfInterval
  BY DEF IInv
<1> QED
  BY <1>1, ResolverIInvHolds, PTL

\* What is accepted fits the PHP of the selected path, and nothing is refused
\* for requirements that are met.
THEOREM OnlyFittingIsAccepted ==
  ASSUME RegularInputs
  PROVE  Spec => []AcceptedFitsTarget
<1>1. ASSUME IInv
      PROVE  AcceptedFitsTarget
  <2> DEFINE meta == Metadata(listing[chosen])
  <2>1. DownloadMethods(meta) # <<>>
    <3> DEFINE known == SelectSeq(meta.methods, LAMBDA m : m \in KnownMethods)
    <3>1. DownloadMethods(meta)
            = IF known = <<>> THEN <<"composer-default">> ELSE known
      BY DEF DownloadMethods
    <3>2. <<"composer-default">> # <<>>
      OBVIOUS
    <3> HIDE DEF known
    <3> QED
      BY <3>1, <3>2
  <2>2. rs = "accepted" => php.zts = machine.bin[path].zts
    BY <1>1 DEF IInv, StageFits, DescribesPath
  <2>3. rs = "accepted" => /\ SupportsThreadSafety(meta, php.zts)
                           /\ SupportsOsFamily(meta, OsFamily)
    BY <1>1 DEF IInv, SupportedSoFar
  <2>4. rs = "accepted" =>
          /\ "zts" \in meta.unsupported => ~machine.bin[path].zts
          /\ "nts" \in meta.unsupported => machine.bin[path].zts
          /\ \/ meta.os # {} /\ OsFamily \in meta.os \ meta.osExclude
             \/ meta.os = {} /\ OsFamily \notin meta.osExclude
    <3> HIDE DEF meta
    <3> QED
      BY <2>2, <2>3 DEF SupportsThreadSafety, SupportsOsFamily
  <2> HIDE DEF meta
  <2> QED
    BY <1>1, <2>1, <2>4 DEF IInv, RequirementsSoFar, AcceptedFitsTarget, meta
<1> QED
  BY <1>1, ResolverIInvHolds, PTL

-----------------------------------------------------------------------------
(* The target is the PHP the command line means.                           *)

\* The search goes on with the php it has chosen at the start.
PathIsChosen == at # "choose" => path = ChosenPath

LEMMA StepKeepsPath ==
  ASSUME TypeOK, DescribesPath, PathIsChosen, [Next]_vars
  PROVE  PathIsChosen'
<1>1. CASE TargetStep
  <2>1. machine' = machine /\ args' = args
    BY <1>1, TargetStepDescribes
  <2>2. ChosenPath' = ChosenPath
    BY <2>1 DEF ChosenPath, PhpBinaryFromSelector, PhpBinaryFromPathEnv, LookPath, DefaultPhp
  <2>3. \/ at # "choose" /\ path' = path
        \/ path' = ChosenPath
    BY <1>1 DEF TargetStep, ChoosePhp, ProbeEnds, Introspected, CheckExplicitPhpize,
       ProbePhpConfig, FallBackToPhpConfig, ProbePhpize, NoPhpize
  <2> HIDE DEF ChosenPath
  <2> QED
    BY <2>2, <2>3 DEF PathIsChosen
<1>2. CASE UNCHANGED targetVars
  <2>1. UNCHANGED <<machine, args, at, path>>
    BY <1>2 DEF targetVars
  <2>2. ChosenPath' = ChosenPath
    BY <2>1 DEF ChosenPath, PhpBinaryFromSelector, PhpBinaryFromPathEnv, LookPath, DefaultPhp
  <2> QED
    BY <2>1, <2>2 DEF PathIsChosen
<1> QED
  BY <1>1, <1>2 DEF Next, Step, Done, vars, ReadLoaded, PackageVersions, Select,
     CheckSupport, CheckRequirements

\* The first and the last of some numbers of a sequence.
LEMMA EndsOfNumbers ==
  ASSUME NEW n \in Nat, NEW S, S \subseteq 1..n, S # {}
  PROVE  /\ Min(S) \in S /\ \A i \in S : Min(S) <= i
         /\ Max(S) \in S /\ \A i \in S : i <= Max(S)
<1>1. \E m \in S : \A i \in S : m <= i
  <2>1. S \subseteq Nat
    OBVIOUS
  <2> QED
    BY <2>1, LeastNumber
<1>2. \E m \in S : \A i \in S : m >= i
  <2>1. \E m \in S : \A i \in S : i <= m
    <3>1. S \subseteq 0..n
      OBVIOUS
    <3> QED
      BY <3>1, LargestNumber
  <2> QED
    BY <2>1
<1>3. Min(S) \in S /\ \A i \in S : Min(S) <= i
  BY <1>1 DEF Min
<1>4. Max(S) \in S /\ \A i \in S : Max(S) >= i
  BY <1>2 DEF Max
<1> QED
  BY <1>3, <1>4

LEMMA SequenceRange ==
  ASSUME NEW S, NEW s \in Seq(S)
  PROVE  Len(s) \in Nat /\ DOMAIN s = 1..Len(s) /\ (s = <<>> <=> Len(s) = 0)
OBVIOUS

\* A `php` that is on $PATH is found there.
LEMMA OnPathIsFound ==
  ASSUME machine.search \in Seq(ToSet(machine.search)), NEW programs,
         NoPath \notin programs,
         NEW k \in DOMAIN machine.search, <<machine.search[k], "">> \in programs
  PROVE  LookPath(programs) # NoPath
<1> DEFINE hits == {i \in DOMAIN machine.search : <<machine.search[i], "">> \in programs}
<1>1. Len(machine.search) \in Nat /\ DOMAIN machine.search = 1..Len(machine.search)
  BY SequenceRange
<1>2. hits \subseteq 1..Len(machine.search) /\ hits # {}
  BY <1>1
<1>3. Min(hits) \in hits
  <2> HIDE DEF hits
  <2> QED
    BY <1>1, <1>2, EndsOfNumbers
<1>4. LookPath(programs) = <<machine.search[Min(hits)], "">>
  BY <1>2 DEF LookPath
<1> QED
  BY <1>3, <1>4

\* What is chosen from the discovered binaries is the newest that is meant.
LEMMA ChosenIsNewest ==
  ASSUME DiscoveryIsSorted, GivenInputs, ChosenPath \in DOMAIN machine.bin,
         \/ args.kind = "selector"
         \/ args.kind = "none" /\ LookPath(DOMAIN machine.bin) = NoPath
  PROVE  LET Meant(v) == args.kind = "selector"
                           => VersionSelectorMatches(args.selector, v)
             chosenVersion == machine.bin[ChosenPath].version
         IN /\ Meant(chosenVersion)
            /\ \A i \in DOMAIN machine.found :
                 Meant(machine.found[i].version)
                   => ~Before(chosenVersion, machine.found[i].version)
<1> DEFINE Meant(v) == args.kind = "selector" => VersionSelectorMatches(args.selector, v)
           list == machine.found
           n == Len(list)
<1>1. /\ NoPath \notin DOMAIN machine.bin
      /\ list \in Seq(ToSet(list)) /\ machine.search \in Seq(ToSet(machine.search))
      /\ \A i, j \in DOMAIN list : i <= j => ~Before(list[j].version, list[i].version)
      /\ \A i \in DOMAIN list :
           /\ list[i].path \in DOMAIN machine.bin =>
                machine.bin[list[i].path].version = list[i].version
           /\ list[i].system =>
                \E k \in DOMAIN machine.search : <<machine.search[k], "">> \in DOMAIN machine.bin
  <2>1. PICK s \in Scenarios : machine = s.machine
    BY DEF GivenInputs
  <2> QED
    BY <2>1 DEF DiscoveryIsSorted
<1>2. n \in Nat /\ DOMAIN list = 1..n /\ (list = <<>> <=> n = 0)
  BY <1>1, SequenceRange
<1> HIDE DEF list, n, Meant
<1>3. SUFFICES \E k \in DOMAIN list :
                 /\ ChosenPath = list[k].path
                 /\ Meant(list[k].version)
                 /\ \A i \in DOMAIN list : Meant(list[i].version) => i <= k
  <2> PICK k \in DOMAIN list : /\ ChosenPath = list[k].path
                               /\ Meant(list[k].version)
                               /\ \A i \in DOMAIN list : Meant(list[i].version) => i <= k
    BY <1>3
  <2>1. machine.bin[ChosenPath].version = list[k].version
    BY <1>1
  <2>2. \A i \in DOMAIN list : Meant(list[i].version) => ~Before(list[k].version, list[i].version)
    BY <1>1
  <2> QED
    BY <2>1, <2>2 DEF list, Meant
<1>4. CASE args.kind = "selector"
  <2> DEFINE matches == {i \in DOMAIN list :
                           VersionSelectorMatches(args.selector, list[i].version)}
  <2>1. ChosenPath = IF matches = {} THEN NoPath ELSE list[Max(matches)].path
    BY <1>4 DEF ChosenPath, PhpBinaryFromSelector, list
  <2>2. matches \subseteq 1..n /\ matches # {}
    BY <1>1, <1>2, <2>1
  <2>3. Max(matches) \in matches /\ \A i \in matches : i <= Max(matches)
    <3> HIDE DEF matches
    <3> QED
      BY <1>2, <2>2, EndsOfNumbers
  <2>4. \A i \in DOMAIN list : i \in matches <=> Meant(list[i].version)
    BY <1>4 DEF Meant
  <2>5. matches \subseteq DOMAIN list
    OBVIOUS
  <2> HIDE DEF matches
  <2> QED
    BY <2>1, <2>2, <2>3, <2>4, <2>5
<1>5. CASE args.kind = "none" /\ LookPath(DOMAIN machine.bin) = NoPath
  <2> DEFINE system == {i \in DOMAIN list : list[i].system}
  <2>1. system = {}
    BY <1>1, <1>5, OnPathIsFound
  <2>2. ChosenPath = PhpBinaryFromPathEnv
    BY <1>5 DEF ChosenPath
  <2>3. PhpBinaryFromPathEnv = DefaultPhp(list)
    BY <1>5 DEF PhpBinaryFromPathEnv, list
  <2>4. DefaultPhp(list) = IF list = <<>> THEN NoPath ELSE list[n].path
    BY <2>1 DEF DefaultPhp, n
  <2>5. list # <<>>
    BY <1>1, <2>2, <2>3, <2>4
  <2>6. n \in DOMAIN list /\ \A i \in DOMAIN list : i <= n
    BY <1>2, <2>5
  <2> QED
    BY <1>5, <2>2, <2>3, <2>4, <2>5, <2>6 DEF Meant
<1> QED
  BY <1>4, <1>5

\* The PHP a command works for is the newest the selector admits, or the newest
\* there is, whatever is installed beside it.
THEOREM TheNewestIsTarget ==
  ASSUME RegularInputs, DiscoveryIsSorted
  PROVE  Spec => []TargetIsNewest
<1>1. Init => PathIsChosen
  BY DEF Init, TargetInit, PathIsChosen
<1>2. IInv /\ PathIsChosen /\ [Next]_vars => PathIsChosen'
  BY StepKeepsPath DEF IInv
<1>3. IInv /\ PathIsChosen => TargetIsNewest
  <2> SUFFICES ASSUME IInv, PathIsChosen, at = "target",
                      \/ args.kind = "selector"
                      \/ args.kind = "none" /\ LookPath(DOMAIN machine.bin) = NoPath
               PROVE  LET Meant(d) == args.kind = "selector"
                                        => VersionSelectorMatches(args.selector, d.version)
                      IN /\ Meant(php)
                         /\ \A i \in DOMAIN machine.found :
                              Meant(machine.found[i])
                              => ~Before(php.version, machine.found[i].version)
    BY DEF TargetIsNewest
  <2>1. /\ ChosenPath \in DOMAIN machine.bin
        /\ php.version = machine.bin[ChosenPath].version
    BY DEF IInv, DescribesPath, PathIsChosen
  <2>2. GivenInputs
    BY DEF IInv
  <2> QED
    BY <2>1, <2>2, ChosenIsNewest
<1> QED
  BY <1>1, <1>2, <1>3, ResolverIInvHolds, PTL DEF Spec

-----------------------------------------------------------------------------
(* The tools belong to the target.                                         *)

Candidates(tool) == ToSet(CandidateSiblingPaths(php.path, tool))
Sound(c) == Tool("phpize", c).run = "ok" /\ Tool("phpize", c).api = php.api
Own(c) == Tool("php-config", c).run = "ok" /\ Tool("php-config", c).binary = php.path
Hanging(c) == Tool("php-config", c).run = "hangs"

PhpizeFits ==
  \/ args.phpize # NoPath /\ phpize = args.phpize
  \/ args.phpize = NoPath /\ phpize \in Candidates("phpize") /\ Sound(phpize)
  \/ args.phpize = NoPath /\ phpize = NoPath
     /\ \A c \in Candidates("phpize") : ~Sound(c)
ConfigFits ==
  (/\ \E c \in Candidates("php-config") : Own(c)
   /\ \A c \in Candidates("php-config") : ~Hanging(c))
  => Own(phpConfig)

\* A search has refused every candidate it no longer has before it, unless the
\* deadline of php-config has passed, which takes one that hangs.
SearchSoFar ==
  /\ at \in Tools => cands \in Seq(Candidates(at))
  /\ at = "php-config" =>
       /\ late => \E c \in Candidates(at) : Hanging(c)
       /\ ~late => \A c \in Candidates(at) \ ToSet(cands) : ~Own(c)
  /\ at = "phpize" => \A c \in Candidates(at) \ ToSet(cands) : ~Sound(c)

\* Which phpize there is by now: none, or the one of the command line.
PhpizeSoFar ==
  /\ at \in {"choose", "introspect", "explicit"} => phpize = NoPath
  /\ at = "explicit" => args.phpize # NoPath
  /\ at = "php-config" => phpize = args.phpize
  /\ at = "phpize" => phpize = NoPath /\ args.phpize = NoPath

ToolsInv ==
  /\ SearchSoFar
  /\ PhpizeSoFar
  /\ at \in {"phpize", "target"} => ConfigFits
  /\ at = "target" => PhpizeFits

\* A candidate is the first, or one of the rest.
LEMMA HeadOrTail ==
  ASSUME NEW S, NEW s \in Seq(S), s # <<>>
  PROVE  /\ Tail(s) \in Seq(S) /\ Head(s) \in S
         /\ ToSet(s) = {Head(s)} \cup ToSet(Tail(s))
<1>1. /\ Len(s) \in Nat /\ Len(s) > 0 /\ Tail(s) \in Seq(S) /\ Len(Tail(s)) = Len(s) - 1
      /\ Head(s) = s[1] /\ \A i \in 1..Len(s) - 1 : Tail(s)[i] = s[i + 1]
      /\ \A i \in 1..Len(s) : s[i] \in S
  OBVIOUS
<1>2. DOMAIN s = 1..Len(s) /\ DOMAIN Tail(s) = 1..Len(s) - 1
  BY <1>1, SequenceRange
<1>3. ASSUME NEW x \in ToSet(s)
      PROVE  x \in {Head(s)} \cup ToSet(Tail(s))
  <2>1. PICK i \in 1..Len(s) : x = s[i]
    BY <1>2 DEF ToSet
  <2>2. CASE i = 1
    BY <1>1, <2>1, <2>2
  <2>3. CASE i # 1
    <3>1. i - 1 \in 1..Len(s) - 1 /\ Tail(s)[i - 1] = x
      BY <1>1, <2>1, <2>3
    <3> QED
      BY <1>2, <3>1 DEF ToSet
  <2> QED
    BY <2>2, <2>3
<1>4. ASSUME NEW x \in ToSet(Tail(s))
      PROVE  x \in ToSet(s)
  <2>1. PICK i \in 1..Len(s) - 1 : x = Tail(s)[i]
    BY <1>2 DEF ToSet
  <2>2. i + 1 \in 1..Len(s) /\ x = s[i + 1]
    BY <1>1, <2>1
  <2> QED
    BY <1>2, <2>2 DEF ToSet
<1>5. Head(s) \in ToSet(s)
  <2>1. 1 \in DOMAIN s
    BY <1>1, <1>2
  <2> QED
    BY <1>1, <2>1 DEF ToSet
<1> QED
  BY <1>1, <1>3, <1>4, <1>5

\* The candidates are a sequence of themselves.
LEMMA CandidatesAreListed ==
  ASSUME NEW p, NEW tool
  PROVE  CandidateSiblingPaths(p, tool) \in Seq(ToSet(CandidateSiblingPaths(p, tool)))
<1> DEFINE onPath == LookPath(DOMAIN machine.tools[tool])
           rest == IF onPath = NoPath THEN <<>> ELSE <<onPath>>
           siblings == <<p, <<p[1], "">>>>
           all == siblings \o rest
           S == {p, <<p[1], "">>, onPath}
           tried == CandidateSiblingPaths(p, tool)
<1>1. all \in Seq(S)
  <2>1. siblings \in Seq(S)
    OBVIOUS
  <2>2. rest \in Seq(S)
    <3>1. onPath \in S
      OBVIOUS
    <3> HIDE DEF onPath, S
    <3>2. <<>> \in Seq(S) /\ <<onPath>> \in Seq(S)
      BY <3>1
    <3> QED
      BY <3>2
  <2> HIDE DEF S, rest, siblings
  <2> QED
    BY <2>1, <2>2
<1>2. tried = Without(all, {i \in 2..Len(all) : all[i] = all[i - 1]})
  BY DEF CandidateSiblingPaths, Dedup
<1> HIDE DEF tried, S, all
<1>3. tried \in Seq(S)
  BY <1>1, <1>2, WithoutLeaves
<1>4. Len(tried) \in Nat /\ DOMAIN tried = 1..Len(tried) /\ tried \in [1..Len(tried) -> S]
  BY <1>3, SequenceRange
<1>5. tried \in [1..Len(tried) -> ToSet(tried)]
  BY <1>4 DEF ToSet
<1>6. tried \in Seq(ToSet(tried))
  BY <1>4, <1>5
<1> QED
  BY <1>6 DEF tried

\* As long as the machine and the php are the same, so are the tools.
LEMMA SameTools ==
  ASSUME machine' = machine, php' = php
  PROVE  /\ \A tool : /\ CandidateSiblingPaths(php.path, tool)'
                           = CandidateSiblingPaths(php.path, tool)
                      /\ Candidates(tool)' = Candidates(tool)
         /\ \A c : /\ Sound(c)' <=> Sound(c)
                   /\ Own(c)' <=> Own(c)
                   /\ Hanging(c)' <=> Hanging(c)
BY DEF Candidates, CandidateSiblingPaths, LookPath, Tool, Sound, Own, Hanging

\* A search starts with all candidates before it.
LEMMA SearchStarts ==
  ASSUME NEW tool \in Tools, SearchFor(tool), machine' = machine
  PROVE  SearchSoFar'
<1>1. CandidateSiblingPaths(php.path, tool)' = CandidateSiblingPaths(php'.path, tool)
  BY DEF CandidateSiblingPaths, LookPath
<1>2. /\ at' = tool /\ ~late'
      /\ cands' = CandidateSiblingPaths(php'.path, tool)
      /\ Candidates(tool)' = ToSet(CandidateSiblingPaths(php'.path, tool))
  BY <1>1 DEF SearchFor, Candidates
<1>3. cands' \in Seq(Candidates(tool)') /\ Candidates(tool)' = ToSet(cands')
  BY <1>2, CandidatesAreListed
<1> QED
  BY <1>2, <1>3 DEF SearchSoFar, Tools

\* The steps before the tools are looked for.
LEMMA BeginningKeepsToolsInv ==
  ASSUME ToolsInv,
         \/ ChoosePhp \/ (\E k \in Probes : ProbeEnds(k)) \/ Introspected
         \/ CheckExplicitPhpize
  PROVE  ToolsInv'
<1>1. machine' = machine /\ args' = args
  BY DEF ChoosePhp, ProbeEnds, Introspected, CheckExplicitPhpize
<1>2. /\ \/ at' \in {"introspect", "failed"} /\ phpize' = phpize
         \/ at' = "explicit" /\ phpize' = phpize /\ args.phpize # NoPath
         \/ SearchFor("php-config") /\ phpize' = args.phpize
      /\ at \in {"choose", "introspect", "explicit"}
  BY DEF ChoosePhp, ProbeEnds, Introspected, CheckExplicitPhpize, ToolsInv, PhpizeSoFar
<1>3. phpize = NoPath
  BY <1>2 DEF ToolsInv, PhpizeSoFar
<1>4. CASE SearchFor("php-config") /\ phpize' = args.phpize
  <2>1. SearchSoFar'
    BY <1>1, <1>4, SearchStarts DEF Tools
  <2>2. at' = "php-config"
    BY <1>4 DEF SearchFor
  <2> QED
    BY <1>1, <1>4, <2>1, <2>2 DEF ToolsInv, PhpizeSoFar
<1>5. CASE at' \in {"introspect", "explicit", "failed"}
  BY <1>1, <1>2, <1>3, <1>5 DEF ToolsInv, PhpizeSoFar, SearchSoFar, SearchFor, Tools
<1> QED
  BY <1>2, <1>4, <1>5

\* php-config is settled: the search for phpize starts, or there is one.
LEMMA AfterPhpConfigFits ==
  ASSUME ToolsInv, at = "php-config", AfterPhpConfig, ConfigFits',
         UNCHANGED <<machine, args, php, phpize>>
  PROVE  ToolsInv'
<1>1. phpize = args.phpize
  BY DEF ToolsInv, PhpizeSoFar
<1>2. CASE phpize = NoPath
  <2>1. SearchFor("phpize")
    BY <1>2 DEF AfterPhpConfig
  <2>2. SearchSoFar' /\ at' = "phpize"
    BY <2>1, SearchStarts DEF SearchFor, Tools
  <2> QED
    BY <1>1, <1>2, <2>2 DEF ToolsInv, PhpizeSoFar
<1>3. CASE phpize # NoPath
  <2>1. at' = "target"
    BY <1>3 DEF AfterPhpConfig
  <2> QED
    BY <1>1, <1>3, <2>1 DEF ToolsInv, PhpizeSoFar, SearchSoFar, PhpizeFits, Tools
<1> QED
  BY <1>2, <1>3

\* One candidate for php-config, or none is left.
LEMMA PhpConfigKeepsToolsInv ==
  ASSUME ToolsInv, ProbePhpConfig \/ FallBackToPhpConfig
  PROVE  ToolsInv'
<1> DEFINE C == Candidates("php-config")
<1>1. /\ at = "php-config"
      /\ UNCHANGED <<machine, args, php, phpize>>
  BY DEF ProbePhpConfig, FallBackToPhpConfig
<1>2. /\ cands \in Seq(C)
      /\ late => \E c \in C : Hanging(c)
      /\ ~late => \A c \in C \ ToSet(cands) : ~Own(c)
      /\ phpize = args.phpize
  BY <1>1 DEF ToolsInv, SearchSoFar, PhpizeSoFar, Tools
<1>3. /\ C' = C
      /\ \A c : (Own(c)' <=> Own(c)) /\ (Hanging(c)' <=> Hanging(c))
  BY <1>1, SameTools
<1> HIDE DEF C
<1>4. ASSUME Own(phpConfig')
      PROVE  ConfigFits'
  <2>1. Own(phpConfig)'
    BY <1>1, <1>4 DEF Own, Tool
  <2> QED
    BY <2>1 DEF ConfigFits
<1>5. CASE FallBackToPhpConfig
  <2>1. cands = <<>> /\ AfterPhpConfig
    BY <1>5 DEF FallBackToPhpConfig
  <2>2. ToSet(cands) = {}
    BY <2>1 DEF ToSet
  <2>3. (\A c \in C : ~Hanging(c)) => \A c \in C : ~Own(c)
    BY <1>2, <2>2
  <2>4. ConfigFits'
    BY <1>3, <2>3 DEF ConfigFits, C
  <2> QED
    BY <1>1, <2>1, <2>4, AfterPhpConfigFits
<1>6. CASE ProbePhpConfig
  <2> DEFINE h == Head(cands)
  <2>1. /\ cands # <<>>
        /\ \/ Own(h) /\ phpConfig' = h /\ AfterPhpConfig
           \/ /\ late \/ ~Own(h)
              /\ cands' = Tail(cands) /\ late' = (late \/ Hanging(h))
              /\ at' = at
    BY <1>6 DEF ProbePhpConfig, Own, Hanging
  <2>2. Tail(cands) \in Seq(C) /\ h \in C /\ ToSet(cands) = {h} \cup ToSet(Tail(cands))
    BY <1>2, <2>1, HeadOrTail
  <2> HIDE DEF h
  <2>3. CASE Own(h) /\ phpConfig' = h /\ AfterPhpConfig
    <3>1. ConfigFits'
      BY <1>4, <2>3
    <3> QED
      BY <1>1, <2>3, <3>1, AfterPhpConfigFits
  <2>4. CASE /\ late \/ ~Own(h)
             /\ cands' = Tail(cands) /\ late' = (late \/ Hanging(h))
             /\ at' = at
    <3>1. late' => \E c \in C : Hanging(c)
      BY <1>2, <2>2, <2>4
    <3>2. ~late' => \A c \in C \ ToSet(cands') : ~Own(c)
      BY <1>2, <2>2, <2>4
    <3>3. SearchSoFar'
      BY <1>1, <1>3, <2>2, <2>4, <3>1, <3>2 DEF SearchSoFar, C
    <3> QED
      BY <1>1, <1>2, <2>4, <3>3 DEF ToolsInv, PhpizeSoFar
  <2> QED
    BY <2>1, <2>3, <2>4
<1> QED
  BY <1>5, <1>6

\* One candidate for phpize, or none is left.
LEMMA PhpizeKeepsToolsInv ==
  ASSUME ToolsInv, ProbePhpize \/ NoPhpize
  PROVE  ToolsInv'
<1> DEFINE C == Candidates("phpize")
<1>1. /\ at = "phpize"
      /\ UNCHANGED <<machine, args, php, phpConfig>>
  BY DEF ProbePhpize, NoPhpize
<1>2. /\ cands \in Seq(C)
      /\ \A c \in C \ ToSet(cands) : ~Sound(c)
      /\ phpize = NoPath /\ args.phpize = NoPath
      /\ ConfigFits
  BY <1>1 DEF ToolsInv, SearchSoFar, PhpizeSoFar, Tools
<1>3. /\ C' = C
      /\ \A c : Sound(c)' <=> Sound(c)
  BY <1>1, SameTools
<1>4. ConfigFits'
  BY <1>1, <1>2, SameTools DEF ConfigFits
<1> HIDE DEF C
<1>5. CASE NoPhpize
  <2>1. cands = <<>> /\ at' = "target" /\ phpize' = phpize
    BY <1>5 DEF NoPhpize
  <2>2. ToSet(cands) = {}
    BY <2>1 DEF ToSet
  <2>3. PhpizeFits'
    BY <1>1, <1>2, <1>3, <2>1, <2>2 DEF PhpizeFits, C
  <2> QED
    BY <1>4, <2>1, <2>3 DEF ToolsInv, PhpizeSoFar, SearchSoFar, Tools
<1>6. CASE ProbePhpize
  <2> DEFINE h == Head(cands)
  <2>1. /\ cands # <<>>
        /\ \/ Sound(h) /\ phpize' = h /\ at' = "target"
           \/ ~Sound(h) /\ cands' = Tail(cands) /\ at' = at /\ phpize' = phpize
    BY <1>6 DEF ProbePhpize, Sound
  <2>2. Tail(cands) \in Seq(C) /\ h \in C /\ ToSet(cands) = {h} \cup ToSet(Tail(cands))
    BY <1>2, <2>1, HeadOrTail
  <2> HIDE DEF h
  <2>3. CASE Sound(h) /\ phpize' = h /\ at' = "target"
    <3>1. Sound(phpize)'
      BY <1>1, <2>3 DEF Sound, Tool
    <3>2. PhpizeFits'
      BY <1>1, <1>2, <1>3, <2>2, <2>3, <3>1 DEF PhpizeFits, C
    <3> QED
      BY <1>4, <2>3, <3>2 DEF ToolsInv, PhpizeSoFar, SearchSoFar, Tools
  <2>4. CASE ~Sound(h) /\ cands' = Tail(cands) /\ at' = at /\ phpize' = phpize
    <3>1. \A c \in C \ ToSet(cands') : ~Sound(c)
      BY <1>2, <2>2, <2>4
    <3>2. SearchSoFar'
      BY <1>1, <1>3, <2>2, <2>4, <3>1 DEF SearchSoFar, C
    <3> QED
      BY <1>1, <1>2, <1>4, <2>4, <3>2 DEF ToolsInv, PhpizeSoFar
  <2> QED
    BY <2>1, <2>3, <2>4
<1> QED
  BY <1>5, <1>6

LEMMA StepKeepsToolsInv ==
  ASSUME ToolsInv, [Next]_vars
  PROVE  ToolsInv'
<1>1. CASE TargetStep
  BY <1>1, BeginningKeepsToolsInv, PhpConfigKeepsToolsInv, PhpizeKeepsToolsInv
     DEF TargetStep
<1>2. CASE UNCHANGED targetVars
  <2>1. UNCHANGED <<machine, args, at, php, cands, late, phpConfig, phpize>>
    BY <1>2 DEF targetVars
  <2>2. SearchSoFar'
    BY <2>1, SameTools DEF ToolsInv, SearchSoFar
  <2>3. PhpizeSoFar'
    BY <2>1 DEF ToolsInv, PhpizeSoFar
  <2>4. ConfigFits' <=> ConfigFits
    BY <2>1, SameTools DEF ConfigFits
  <2>5. PhpizeFits' <=> PhpizeFits
    BY <2>1, SameTools DEF PhpizeFits
  <2> QED
    BY <2>1, <2>2, <2>3, <2>4, <2>5 DEF ToolsInv
<1> QED
  BY <1>1, <1>2 DEF Next, Step, Done, vars, ReadLoaded, PackageVersions, Select,
     CheckSupport, CheckRequirements

\* The phpize and php-config of a target are its own, wherever they lie and
\* whatever lies before them.
THEOREM TheToolsFit == Spec => []ToolsFitTarget
<1>1. Init => ToolsInv
  BY DEF Init, TargetInit, ToolsInv, SearchSoFar, PhpizeSoFar, Tools
<1>2. ToolsInv /\ [Next]_vars => ToolsInv'
  BY StepKeepsToolsInv
<1>3. ToolsInv => ToolsFitTarget
  BY DEF ToolsInv, ToolsFitTarget, PhpizeFits, ConfigFits, Candidates, Sound, Own, Hanging
<1> QED
  BY <1>1, <1>2, <1>3, PTL DEF Spec
=============================================================================
