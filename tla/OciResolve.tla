----------------------------- MODULE OciResolve -----------------------------
(***************************************************************************)
(* The concurrent lookups of resolvePrebuilts in one OCI registry: each    *)
(* goroutine runs oci.ResolvePrebuilt for its own cell, and all of them    *)
(* share one Registry with its cache of pull tokens.                       *)
(*                                                                         *)
(* A repository publishes an index of images.  The index is found by tag   *)
(* and taken as it comes; every image manifest and blob is found by digest *)
(* and may arrive damaged.  The registry itself is external.               *)
(***************************************************************************)
EXTENDS Naturals, Sequences

CONSTANTS
  Lookup,     \* the goroutines, one for each target
  Repo,       \* Repo[l]: the repository of the extension l is about
  Wanted,     \* Wanted[l]: the cell l asks for
  Cell,       \* all cells, records [ts, base] (of whose axes two will do)
  Indexes,    \* Indexes[r]: the indexes r may have at first, sequences of images
  Anonymous,  \* whether the registry serves requests without a token
  Insecure    \* whether it is one of plain HTTP, which is asked without a token

NoCell == [ts |-> "none", base |-> 0]

\* An image of the index: the annotations of its descriptor and of its
\* manifest, the cell its config names, the machine its module was built on,
\* and the run that built it.
Image == [descriptor : Cell \cup {NoCell}, manifest : Cell \cup {NoCell},
          builtFor : Cell, builtOn : Cell, run : Nat]

Free == "free"

ASSUME LookupAssumption ==
  /\ NoCell \notin Cell
  /\ Free \notin Lookup
  /\ \A l \in Lookup : Wanted[l] \in Cell
  /\ \A l \in Lookup : Indexes[Repo[l]] \subseteq Seq(Image)
  /\ Anonymous \in BOOLEAN /\ Insecure \in BOOLEAN

Repos == {Repo[l] : l \in Lookup}

VARIABLES
  index,    \* index[r]: what repository r publishes under the tag
  pc,       \* pc[l]: where lookup l stands
  pos,      \* pos[l]: the descriptor l looks at
  seen,     \* seen[l]: the index l has fetched
  sound,    \* sound[l]: all that l has fetched is what was published
  lock,     \* holder of tokenMu, if any
  tokens,   \* Registry.pullTokens
  fetches   \* history: how often a token was fetched for a repository

vars == <<index, pc, pos, seen, sound, lock, tokens, fetches>>

Pc == {"index", "scan", "config", "layer", "hit", "miss", "error"}
Settled == {"hit", "miss", "error"}

TypeOK ==
  /\ index \in [Repos -> Seq(Image)]
  /\ pc \in [Lookup -> Pc]
  /\ \A l \in Lookup : pos[l] \in 1..Len(seen[l]) + 1
  /\ seen \in [Lookup -> Seq(Image)]
  /\ sound \in [Lookup -> BOOLEAN]
  /\ lock \in Lookup \cup {Free}
  /\ tokens \in [Repos -> {"unknown", "empty", "bearer"}]
  /\ fetches \in [Repos -> Nat]

-----------------------------------------------------------------------------
Init ==
  /\ index \in [Repos -> UNION {Indexes[r] : r \in Repos}]
  /\ \A r \in Repos : index[r] \in Indexes[r]
  /\ pc = [l \in Lookup |-> "index"]
  /\ pos = [l \in Lookup |-> 1]
  /\ seen = [l \in Lookup |-> <<>>]
  /\ sound = [l \in Lookup |-> TRUE]
  /\ lock = Free
  /\ tokens = [r \in Repos |-> "unknown"]
  /\ fetches = [r \in Repos |-> 0]

Goto(l, s) == pc' = [pc EXCEPT ![l] = s]

\* The descriptor l looks at.
Images(l) == seen[l]
Here(l) == Images(l)[pos[l]]

\* Mutation of LockTokens: a token is cached only if there was one.
LockTokensAgain(l) ==
  /\ pc[l] \notin Settled
  /\ tokens[Repo[l]] # "bearer"
  /\ lock = Free
  /\ lock' = l
  /\ UNCHANGED <<index, pc, pos, seen, sound, tokens, fetches>>

\* pullToken: the first request for a repository holds the mutex over the
\* exchange, and every other lookup waits, whatever its repository.  For an
\* insecure registry the mutex is left alone.
LockTokens(l) ==
  /\ ~Insecure
  /\ pc[l] \notin Settled
  /\ lock = Free
  /\ tokens[Repo[l]] = "unknown"
  /\ lock' = l
  /\ UNCHANGED <<index, pc, pos, seen, sound, tokens, fetches>>

\* Mutation of FetchToken: the mutex is not released without a token.
FetchTokenKeepsLock(l) ==
  /\ lock = l /\ tokens[Repo[l]] = "unknown"
  /\ \E t \in {"empty", "bearer"} :
       /\ tokens' = [tokens EXCEPT ![Repo[l]] = t]
       /\ lock' = IF t = "empty" THEN l ELSE Free
  /\ fetches' = [fetches EXCEPT ![Repo[l]] = 1]
  /\ UNCHANGED <<index, pc, pos, seen, sound>>

\* fetchPullToken never fails: no token is remembered as an empty one.
FetchToken(l) ==
  /\ lock = l
  /\ \E t \in {"empty", "bearer"} : tokens' = [tokens EXCEPT ![Repo[l]] = t]
  /\ fetches' = [fetches EXCEPT ![Repo[l]] = @ + 1]
  /\ lock' = Free
  /\ UNCHANGED <<index, pc, pos, seen, sound>>

\* A request can be sent, and the registry would answer it.
Ready(l) == Insecure \/ (lock = Free /\ tokens[Repo[l]] # "unknown")
Authorized(l) == Anonymous \/ tokens[Repo[l]] = "bearer"

\* The body that arrives is the published one or another one; verifyDigest
\* accepts the published one only.
VerifyDigest(body) == body = "published"

\* Mutation of GetIndex: the scan starts one descriptor early.
GetIndexFromZero(l) ==
  /\ pc[l] = "index" /\ Ready(l)
  /\ Goto(l, "scan")
  /\ pos' = [pos EXCEPT ![l] = 0]
  /\ UNCHANGED <<index, seen, sound, lock, tokens, fetches>>

\* GetIndex: a tag that is absent or not ours to read is a miss.
GetIndex(l) ==
  /\ pc[l] = "index" /\ Ready(l)
  /\ \/ /\ Authorized(l)
        /\ seen' = [seen EXCEPT ![l] = index[Repo[l]]]
        /\ Goto(l, "scan")
     \/ Goto(l, "miss") /\ UNCHANGED seen
     \/ Goto(l, "error") /\ UNCHANGED seen
  /\ UNCHANGED <<index, pos, sound, lock, tokens, fetches>>

\* The sh.gpie.cell annotation of the descriptor or of the manifest.
Names(l, cell) == Here(l).descriptor = cell \/ Here(l).manifest = cell

\* GetManifest, for the image whose descriptor or whose own annotations name
\* the cell, and for every image before it.  An error ends the lookup.
GetManifest(l) ==
  /\ pc[l] = "scan" /\ pos[l] <= Len(Images(l)) /\ Ready(l)
  /\ \/ /\ Authorized(l)
        /\ \E body \in {"published", "damaged"} :
             /\ VerifyDigest(body)
             /\ sound' = [sound EXCEPT ![l] = @ /\ body = "published"]
        /\ IF Names(l, Wanted[l])
           THEN Goto(l, "config") /\ UNCHANGED pos
           ELSE pos' = [pos EXCEPT ![l] = @ + 1] /\ UNCHANGED pc
     \/ Goto(l, "error") /\ UNCHANGED <<pos, sound>>
  /\ UNCHANGED <<index, seen, lock, tokens, fetches>>

\* No image of the index is for the cell.
EndScan(l) ==
  /\ pc[l] = "scan" /\ pos[l] > Len(Images(l))
  /\ Goto(l, "miss")
  /\ UNCHANGED <<index, pos, seen, sound, lock, tokens, fetches>>

\* Mutation of GetConfig: the annotations are believed.
GetConfigUnchecked(l) ==
  /\ pc[l] = "config" /\ Ready(l)
  /\ Goto(l, "layer")
  /\ UNCHANGED <<index, pos, seen, sound, lock, tokens, fetches>>

\* The config blob: the manifest in it has to name the cell again, since the
\* annotations are only a hint.
GetConfig(l) ==
  /\ pc[l] = "config" /\ Ready(l)
  /\ \/ /\ Authorized(l)
        /\ \E body \in {"published", "damaged"} :
             /\ VerifyDigest(body)
             /\ sound' = [sound EXCEPT ![l] = @ /\ body = "published"]
        /\ Goto(l, IF Here(l).builtFor = Wanted[l] THEN "layer" ELSE "error")
     \/ Goto(l, "error") /\ UNCHANGED sound
  /\ UNCHANGED <<index, pos, seen, lock, tokens, fetches>>

\* The layer, and the module in it.
GetLayer(l) ==
  /\ pc[l] = "layer" /\ Ready(l)
  /\ \/ /\ Authorized(l)
        /\ \E body \in {"published", "damaged"} :
             /\ VerifyDigest(body)
             /\ sound' = [sound EXCEPT ![l] = @ /\ body = "published"]
        /\ Goto(l, "hit")
     \/ Goto(l, "error") /\ UNCHANGED sound
  /\ UNCHANGED <<index, pos, seen, lock, tokens, fetches>>

\* wg.Wait returns.
Done == (\A l \in Lookup : pc[l] \in Settled) /\ UNCHANGED vars

LookupStep(l) ==
  \/ LockTokens(l) \/ FetchToken(l) \/ GetIndex(l) \/ GetManifest(l)
  \/ EndScan(l) \/ GetConfig(l) \/ GetLayer(l)

Next == (\E l \in Lookup : LookupStep(l)) \/ Done
Spec == Init /\ [][Next]_vars

\* The scheduler runs every goroutine, and every request has a timeout.
FairSpec == Spec /\ \A l \in Lookup : WF_vars(LookupStep(l))

-----------------------------------------------------------------------------
(* Properties.                                                             *)

\* A hit is a module built for the very cell that was asked for, out of
\* nothing but what was published under the digests, even when annotations
\* are stale and responses are damaged (oci.go:110-115, registry.go:308-310).
HitIsForCell ==
  \A l \in Lookup : pc[l] = "hit" => sound[l] /\ Here(l).builtFor = Wanted[l]

\* Concurrent lookups fetch the pull token of a repository at most once
\* between them (registry.go:95-96).
TokenFetchedOnce == \A r \in Repos : fetches[r] <= 1

\* Every lookup is settled, although all of them share one mutex: none is left
\* waiting for a token that another lookup was going to fetch.
LookupsEnd == \A l \in Lookup : <>(pc[l] \in Settled)
=============================================================================
