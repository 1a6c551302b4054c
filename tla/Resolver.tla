------------------------------ MODULE Resolver ------------------------------
(***************************************************************************)
(* One request `vendor/name:constraint`, from the command line to a        *)
(* resolved package: the target PHP of PhpTarget, then classify in         *)
(* install.go, which asks Packagist for the releases, selects one, checks  *)
(* that it is an extension the target supports, and compares its           *)
(* requirements with the PHP and the extensions that are there.            *)
(*                                                                         *)
(* An entry of a listing is a release as the p2 format writes it: a field  *)
(* equal to that of the entry before it is left out ("absent"), one that   *)
(* was cleared says "unset" (gen-prebuild-matrix.py:205-207).  The code    *)
(* reads each entry by itself.                                             *)
(***************************************************************************)
EXTENDS PhpTarget

CONSTANTS
  Listings,     \* what Packagist may answer: sequences of entries
  LoadedLists,  \* the extensions `php` may report: name -> version text
  OsFamily      \* the operating system family of the host

Absent == [given |-> "absent"]
Unset == [given |-> "unset"]
Set(v) == [given |-> "set", value |-> v]

VARIABLES
  request,   \* [constraint, ignore]: ignore is --ignore-platform-reqs
  rs,        \* where classify stands
  loaded,    \* the extensions the target has loaded
  listing,   \* the answer of Packagist
  chosen,    \* index of the selected entry, 0 before
  why        \* which check refused the request

resolverVars == <<request, rs, loaded, listing, chosen, why>>
vars == <<targetVars, resolverVars>>

-----------------------------------------------------------------------------
(* Reading an entry (packagist.go, metadata.go).                           *)

NoExtensions == [x \in {} |-> NoText]
TypeOf(entry) ==
  IF entry.type.given = "set" THEN entry.type.value
  ELSE IF entry.type.given = "unset" THEN "__unset" ELSE ""

\* parseRequires: anything but an object is no requirement at all.
Requires(entry) ==
  IF entry.requires.given = "set" THEN entry.requires.value ELSE {}

DefaultMetadata ==
  [unsupported |-> {}, os |-> {}, osExclude |-> {}, validName |-> TRUE,
   methods |-> <<>>]

\* MetadataFromValue: what is missing or of the wrong type has a default.
Metadata(entry) ==
  IF entry.phpExt.given = "set" THEN entry.phpExt.value ELSE DefaultMetadata

KnownMethods == {"composer-default", "pre-packaged-source",
                 "pre-packaged-binary", "windows-binary"}

\* parseDownloadMethods drops unknown methods and never returns none.
DownloadMethods(meta) ==
  LET known == SelectSeq(meta.methods, LAMBDA m : m \in KnownMethods)
  IN IF known = <<>> THEN <<"composer-default">> ELSE known

SupportsThreadSafety(meta, zts) ==
  (IF zts THEN "zts" ELSE "nts") \notin meta.unsupported

\* SupportsOsFamily: excluded families are out; an include list must name it.
SupportsOsFamily(meta, family) ==
  /\ family \notin meta.osExclude
  /\ meta.os = {} \/ family \in meta.os

-----------------------------------------------------------------------------
(* Selecting a release (request.go).                                       *)

\* isStable looks for a tag in the version as it is written: "alpha" and
\* "beta" anywhere, "rc" and "dev" only beside a dash.
IsStable(entry) ==
  /\ entry.version.tag \notin {"alpha", "beta", "dev"}
  /\ entry.version.tag = "RC" => entry.glued

\* Mutation of SelectVersion: the releases are compared as listed.
SelectVersionFirst(l, constraint) ==
  LET matches == {i \in DOMAIN l : ConstraintMatches(constraint, l[i].version)}
  IN IF matches = {} THEN 0 ELSE CHOOSE i \in matches : \A j \in matches : i <= j

\* selectVersion: the first of the newest stable matches, or of the newest
\* matches when none is stable; 0 when nothing matches.
SelectVersion(l, constraint) ==
  LET matches == {i \in DOMAIN l : ConstraintMatches(constraint, l[i].version)}
      stable == {i \in matches : IsStable(l[i])}
      candidates == IF stable # {} THEN stable ELSE matches
      V(i) == ParseVersion(l[i].version)
  IN IF candidates = {} THEN 0
     ELSE CHOOSE i \in candidates :
            \A j \in candidates : ~Before(V(i), V(j))
                                  /\ (V(i) = V(j) => i <= j)

\* The type of an entry without one is that of the first entry that has one.
EffectiveType(l, i) ==
  LET typed == SelectSeq(l, LAMBDA e : TypeOf(e) # "")
  IN IF TypeOf(l[i]) # "" THEN TypeOf(l[i])
     ELSE IF typed = <<>> THEN "" ELSE TypeOf(typed[1])

-----------------------------------------------------------------------------
(* Requirements (requirements.go).                                         *)

Satisfaction(r) ==
  CASE r.kind = "php" ->
         IF ConstraintMatches(r.constraint, Text(php.version))
         THEN "satisfied" ELSE "mismatch"
    [] r.kind = "ext" ->
         IF r.name \notin DOMAIN loaded THEN "missing"
         ELSE IF ConstraintMatches(r.constraint, loaded[r.name])
              THEN "satisfied" ELSE "mismatch"
    [] OTHER -> "unknown"

\* Mutation of IsBlocking: an extension of another version is let through.
IsBlockingMissingOnly(r) ==
  /\ r.kind \in {"php", "ext"}
  /\ Satisfaction(r) = "missing"

IsBlocking(r) ==
  /\ r.kind \in {"php", "ext"}
  /\ Satisfaction(r) \in {"missing", "mismatch"}

-----------------------------------------------------------------------------
Init ==
  /\ TargetInit
  /\ \E s \in Scenarios : s.machine = machine /\ s.args = args
                          /\ request = s.request
  /\ rs = "start"
  /\ loaded = NoExtensions
  /\ listing = <<>>
  /\ chosen = 0
  /\ why = ""

Goto(l) == rs' = l /\ UNCHANGED why

\* Mutation of Refuse: the reason is not told.
RefuseQuietly(reason) == Goto("refused")
Refuse(reason) == rs' = "refused" /\ why' = reason

\* RunInstall asks the target for its extensions once; an error means none.
ReadLoaded ==
  /\ at = "target" /\ rs = "start"
  /\ loaded' \in LoadedLists \cup {NoExtensions}
  /\ Goto("fetch")
  /\ UNCHANGED <<targetVars, request, listing, chosen>>

\* PackageVersions: one HTTP request, with no retry.
PackageVersions ==
  /\ rs = "fetch"
  /\ \/ \E l \in Listings : listing' = l /\ Goto("select")
     \/ Refuse("lookup") /\ UNCHANGED listing
  /\ UNCHANGED <<targetVars, request, loaded, chosen>>

Select ==
  /\ rs = "select"
  /\ chosen' = SelectVersion(listing, request.constraint)
  /\ IF chosen' = 0 THEN Refuse("version") ELSE Goto("support")
  /\ UNCHANGED <<targetVars, request, loaded, listing>>

\* The rest of Resolve: type, extension name, thread safety, system.
CheckSupport ==
  /\ rs = "support"
  /\ LET meta == Metadata(listing[chosen])
     IN IF EffectiveType(listing, chosen) \notin {"php-ext", "php-ext-zend"}
        THEN Refuse("type")
        ELSE IF ~meta.validName THEN Refuse("name")
        ELSE IF ~SupportsThreadSafety(meta, php.zts) THEN Refuse("zts")
        ELSE IF ~SupportsOsFamily(meta, OsFamily) THEN Refuse("os")
        ELSE Goto("requirements")
  /\ UNCHANGED <<targetVars, request, loaded, listing, chosen>>

\* checkPlatformRequirements
CheckRequirements ==
  /\ rs = "requirements"
  /\ IF /\ \E r \in Requires(listing[chosen]) : IsBlocking(r)
        /\ ~request.ignore
     THEN Refuse("requirements") ELSE Goto("accepted")
  /\ UNCHANGED <<targetVars, request, loaded, listing, chosen>>

Settled == at = "failed" \/ rs \in {"accepted", "refused"}
Done == Settled /\ UNCHANGED vars

Step ==
  \/ TargetStep /\ UNCHANGED resolverVars
  \/ ReadLoaded \/ PackageVersions \/ Select \/ CheckSupport
  \/ CheckRequirements

Next == Step \/ Done
Spec == Init /\ [][Next]_vars
FairSpec == Spec /\ WF_vars(Step)

-----------------------------------------------------------------------------
(* Properties.                                                             *)

TypeOK ==
  /\ at \in {"choose", "introspect", "explicit", "target", "failed"} \cup Tools
  /\ probes \in [Probes -> {"none", "runs", "ok", "failed"}]
  /\ late \in BOOLEAN
  /\ rs \in {"start", "fetch", "select", "support", "requirements",
             "accepted", "refused"}
  /\ why \in {"", "lookup", "version", "type", "name", "zts", "os",
              "requirements"}
  /\ chosen \in 0..Len(listing)
  /\ why # "" <=> rs = "refused"

\* Every text and constraint is one of those Versions gives a meaning to.
RegularInputs ==
  /\ \A s \in Scenarios :
       /\ RegularConstraint(s.request.constraint)
       /\ \A p \in DOMAIN s.machine.bin : FullText(Text(s.machine.bin[p].version))
  /\ \A l \in Listings :
       /\ l \in Seq(ToSet(l))
       /\ \A i \in DOMAIN l :
            /\ FullText(l[i].version)
            /\ \A r \in Requires(l[i]) : RegularConstraint(r.constraint)
  /\ \A m \in LoadedLists : \A n \in DOMAIN m : FullText(m[n])

\* A constraint matches a release exactly when the release lies in the
\* intervals the constraint denotes; in particular != is the complement of =
\* (constraint.go:105-107) and an empty alternative admits nothing
\* (constraint.go:38-40).
ConstraintMeansInterval ==
  rs = "select" =>
    \A i \in DOMAIN listing :
      ConstraintMatches(request.constraint, listing[i].version)
        <=> Admits(request.constraint, listing[i].version)

\* The release that is selected lies in the interval the constraint denotes,
\* no stable release of that interval is newer, and a pre-release is selected
\* only when the interval has no stable one.  A request is refused for want
\* of a version only if the interval is empty (request.go:37-62,
\* TestSelectsHighestStable).
NewestStableOfInterval ==
  LET In == {i \in DOMAIN listing :
               Admits(request.constraint, listing[i].version)}
      stable == {i \in In : IsStable(listing[i])}
      V(i) == ParseVersion(listing[i].version)
  IN /\ chosen # 0 =>
          /\ chosen \in In
          /\ stable # {} => chosen \in stable
          /\ \A i \in In : Before(V(chosen), V(i)) =>
                             stable # {} /\ i \notin stable
     /\ why = "version" => In = {}

\* Whether the PHP and the extensions of the target meet a requirement, as
\* the constraint is meant and not as the code evaluates it.
Met(r) ==
  CASE r.kind = "php" -> Admits(r.constraint, Text(php.version))
    [] r.kind = "ext" -> /\ r.name \in DOMAIN loaded
                         /\ Admits(r.constraint, loaded[r.name])
    [] OTHER -> TRUE

\* What an entry says of itself fits the target: the PHP of the selected path
\* has the required version and thread safety, the system is one of those the
\* entry lists, and every required extension is loaded in a required version.
\* --ignore-platform-reqs waives the requirements and nothing else, and the
\* requirements never refuse an entry they are met for (requirements.go:45,
\* install.go:440-482).
AcceptedFitsTarget ==
  rs \in {"accepted", "refused"} /\ chosen # 0 =>
    LET entry == listing[chosen]
        meta == Metadata(entry)
        met == \A r \in Requires(entry) : Met(r)
        family == \/ meta.os # {} /\ OsFamily \in meta.os \ meta.osExclude
                  \/ meta.os = {} /\ OsFamily \notin meta.osExclude
    IN /\ rs = "accepted" =>
            /\ met \/ request.ignore
            /\ "zts" \in meta.unsupported => ~machine.bin[path].zts
            /\ "nts" \in meta.unsupported => machine.bin[path].zts
            /\ family
            /\ DownloadMethods(meta) # <<>>
       /\ why = "requirements" => ~met /\ ~request.ignore

\* The release behind entry i: what is absent is inherited from the entry
\* before.
PublishedRequires(l, i) ==
  LET before == {j \in 1..i : l[j].requires.given # "absent"}
  IN IF before = {} THEN {}
     ELSE Requires(l[CHOOSE j \in before : \A k \in before : k <= j])

\* A release is accepted only if the requirements it was published with are
\* met, or waived: the format clears "a field inherited from the previous
\* entry" explicitly (gen-prebuild-matrix.py:205-207).
PublishedRequirementsMet ==
  rs = "accepted" /\ ~request.ignore =>
    \A r \in PublishedRequires(listing, chosen) : Met(r)

\* Every request is settled: no probe, hanging or not, keeps the command from
\* an answer.  The two `php` processes, which have no deadline, are assumed to
\* exit.
RequestSettles == <>Settled
=============================================================================
