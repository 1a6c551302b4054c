----------------------------- MODULE OciPublish -----------------------------
(***************************************************************************)
(* The writing side of the cache beside the lookups of OciResolve: the     *)
(* workflow that builds the cells of one extension version with            *)
(* `gpie build --emit-oci`, pushes each of them to a tag of its own, and   *)
(* merges the tags into the index the lookups read.  Clients read at any   *)
(* moment, cells and requests fail one by one, and the base images the     *)
(* cells are built in are replaced under way.                              *)
(*                                                                         *)
(* One repository stands for one extension version.  A row of the matrix   *)
(* is a thread safety; the machine it is built on is whatever the base     *)
(* image is on that day.                                                   *)
(***************************************************************************)
EXTENDS OciResolve, SequencesExt

CONSTANTS
  Matrix,   \* Matrix[r]: the rows the matrix has for repository r
  Bases,    \* the releases of the base image, 1..n
  MaxRuns   \* bound: how often the workflow is run for a repository

ASSUME PublishAssumption ==
  /\ 1 \in Bases /\ Bases \subseteq Nat /\ MaxRuns \in Nat
  /\ \A r \in Repos : \A row \in Matrix[r], b \in Bases :
       [ts |-> row, base |-> b] \in Cell

VARIABLES
  base,     \* the release of the base image that is current
  tags,     \* tags[r]: the images that have a tag of r
  ci        \* ci[r]: the latest run of the workflow for r

pubVars == <<base, tags, ci>>
pvars == <<vars, pubVars>>

\* job: idle, build or index; todo: rows not yet built; unread and kept: the
\* tags the index job has still to read, and those it has; missed: it has left
\* one out, or has not come to its end.
NoRun == [job |-> "idle", run |-> 0, todo |-> {}, unread |-> {}, kept |-> <<>>,
          missed |-> FALSE]

PubTypeOK ==
  /\ TypeOK
  /\ base \in Bases
  /\ \A r \in Repos :
       /\ tags[r] \subseteq Image
       /\ ci[r].job \in {"idle", "build", "index"} /\ ci[r].run \in 0..MaxRuns
       /\ ci[r].todo \subseteq Matrix[r] /\ ci[r].unread \subseteq tags[r]
       /\ ci[r].kept \in Seq(Image)
       /\ ci[r].missed \in BOOLEAN

PubInit ==
  /\ Init
  /\ base = 1
  /\ tags = [r \in Repos |-> {}]
  /\ ci = [r \in Repos |-> NoRun]

-----------------------------------------------------------------------------
\* Mutation of NewCell: the label is the one the matrix row was written for.
NewCellGuessed(row) == [ts |-> row, base |-> 1]

\* NewCell, in the container of a row: thread safety comes from its php, and
\* the distribution from its os-release.  A client computes its own cell so.
NewCell(row) == [ts |-> row, base |-> base]

\* emitOciArtifact: the config names the cell, and so does cell.txt, from which
\* the push takes the annotation of the manifest and the tag.
Emitted(row, run) ==
  [descriptor |-> NoCell, manifest |-> NewCell(row), builtFor |-> NewCell(row),
   builtOn |-> [ts |-> row, base |-> base], run |-> run]

\* A new release of the base image.
Respin ==
  /\ base + 1 \in Bases
  /\ base' = base + 1
  /\ UNCHANGED <<tags, ci>>

\* A run is dispatched, by the nightly check or by hand.  The concurrency
\* group of the workflow lets one run of an extension finish before the next.
Dispatch(r) ==
  /\ ci[r].job = "idle" /\ ci[r].run < MaxRuns /\ Matrix[r] # {}
  /\ ci' = [ci EXCEPT ![r] = [NoRun EXCEPT !.job = "build", !.todo = Matrix[r],
                                           !.run = ci[r].run + 1]]
  /\ UNCHANGED <<base, tags>>

\* One cell is built and pushed to its tag, over what an earlier run has pushed
\* there, or fails without a push.
BuildCell(r, row) ==
  /\ ci[r].job = "build" /\ row \in ci[r].todo
  /\ ci' = [ci EXCEPT ![r].todo = @ \ {row}]
  /\ \/ LET image == Emitted(row, ci[r].run)
        IN tags' = [tags EXCEPT ![r] =
             {i \in @ : i.builtFor # image.builtFor} \cup {image}]
     \/ UNCHANGED tags
  /\ UNCHANGED base

\* Mutation of ListTags: only what this run has pushed is indexed.
ListTagsOfRun(r) ==
  /\ ci[r].job = "build" /\ ci[r].todo = {}
  /\ ci' = [ci EXCEPT ![r].job = "index",
                      ![r].unread = {i \in tags[r] : i.run = ci[r].run}]
  /\ UNCHANGED <<base, tags>>

\* The index job starts when every cell has been built or has failed, and lists
\* the tags of the version.  Whatever a listing gives before it fails is taken
\* for all there is, and an empty one ends the job well.
ListTags(r) ==
  /\ ci[r].job = "build" /\ ci[r].todo = {}
  /\ \E some \in SUBSET tags[r] :
       ci' = [ci EXCEPT ![r].job = IF some = {} THEN "idle" ELSE "index",
                        ![r].unread = some,
                        ![r].missed = (some # tags[r])]
  /\ UNCHANGED <<base, tags>>

\* The next tag is read, in the one order they are listed in: its manifest for
\* the cell, its descriptor for the digest.  A tag that cannot be read is left
\* out.  The descriptor of the index gets the cell as its annotation.
ReadTag(r) ==
  /\ ci[r].job = "index"
  /\ ci[r].unread # {}
  /\ LET i == CHOOSE j \in ci[r].unread : TRUE
     IN \/ ci' = [ci EXCEPT
             ![r].unread = @ \ {i},
             ![r].kept = Append(@, [i EXCEPT !.descriptor = i.manifest])]
        \/ ci' = [ci EXCEPT ![r].unread = @ \ {i}, ![r].missed = TRUE]
  /\ UNCHANGED <<base, tags>>

\* The index is pushed at once.  With nothing to index it stays as it is.  Tags
\* left out are warnings, which the verify job does not see.
PushIndex(r) ==
  /\ ci[r].job = "index" /\ ci[r].unread = {}
  /\ index' = IF ci[r].kept = <<>> THEN index
              ELSE [index EXCEPT ![r] = ci[r].kept]
  /\ ci' = [ci EXCEPT ![r].job = "idle", ![r].kept = <<>>]
  /\ UNCHANGED <<base, tags>>

\* A run is cancelled, runs into a timeout of its jobs, or cannot push.
Abandon(r) ==
  /\ ci[r].job # "idle"
  /\ ci' = [ci EXCEPT ![r] = [NoRun EXCEPT !.run = ci[r].run, !.missed = TRUE]]
  /\ UNCHANGED <<base, tags>>

PublishStep(r) ==
  \/ Dispatch(r) \/ (\E row \in Matrix[r] : BuildCell(r, row))
  \/ ListTags(r) \/ ReadTag(r) \/ Abandon(r)

PubNext ==
  \/ (\E l \in Lookup : LookupStep(l)) /\ UNCHANGED pubVars
  \/ (Respin \/ \E r \in Repos : PublishStep(r)) /\ UNCHANGED vars
  \/ (\E r \in Repos : PushIndex(r))
     /\ UNCHANGED <<pc, pos, seen, sound, lock, tokens, fetches>>
  \/ Done /\ UNCHANGED pubVars

PubSpec == PubInit /\ [][PubNext]_pvars

\* Nothing is assumed of the workflow: it may never be run.
PubFairSpec ==
  PubSpec /\ \A l \in Lookup : WF_pvars(LookupStep(l) /\ UNCHANGED pubVars)

-----------------------------------------------------------------------------
(* Properties.                                                             *)

\* A module that a lookup returns was built on a machine like the one that
\* asks for it: same thread safety, same release of the distribution.  "The
\* distro label is read, never guessed" (docs/prebuilt-oci.md:310), so neither
\* a new base image in the middle of a run nor an index that is replaced while
\* it is read hands out a module of the other release.
HitFitsMachine ==
  \A l \in Lookup : pc[l] = "hit" => Here(l).builtOn = Wanted[l]

\* After a run whose index job has read everything, every module that has a
\* tag can be found, in its latest build, under an annotation that saves the
\* client a request: also those of cells that failed in this run, of base
\* images that are gone, and of runs that were cancelled before
\* (prebuild-extension.yml:106-109, 127-131).
BuiltIsServed ==
  \A r \in Repos :
    ci[r].job = "idle" /\ ci[r].run > 0 /\ ~ci[r].missed /\ tags[r] # {}
    => ToSet(index[r]) = {[i EXCEPT !.descriptor = i.builtFor] : i \in tags[r]}
=============================================================================
