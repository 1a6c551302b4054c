------------------------------ MODULE IniText ------------------------------
(***************************************************************************)
(* The shared php.ini line by line.  ExtStore says what a command does to  *)
(* php.ini in terms of the user's part and of blocks counted for each      *)
(* extension; this module runs the text operations of managed.go and       *)
(* ini.go beside every such step, and its invariants say that they do to   *)
(* the lines what ExtStore says.                                           *)
(*                                                                         *)
(* A line is a record [kind, ext].  Blank lines are left out: every reader *)
(* skips them.  The priority and version lines of a block are one "note",  *)
(* a comment whose value no reader uses to find the end of a block.        *)
(***************************************************************************)
EXTENDS ExtStore, Sequences, Sublists

CONSTANTS
  UserText,   \* the lines php.ini has before gpie is ever run
  Torn,       \* what is left of a name: an extension nobody asks for
  CutAt,      \* bound: an append is cut short only in a text as long as one of these
  MaxText     \* bound: no install is started with a php.ini longer than this

ASSUME TornAssumption == Torn \notin Ext

VARIABLES
  text,       \* the lines of php.ini
  tsnap,      \* tsnap[p]: the text p is about to write over php.ini
  tusnap,     \* the text the uninstall is about to write over php.ini
  overlapped  \* history: two installs have been at work at once

texts == <<text, tsnap, tusnap>>
tvars == <<vars, texts, overlapped>>

Line(kind, e) == [kind |-> kind, ext |-> e]
Comments == {"note", "comment"}

\* iniContents: the marker comes first and the directive last.
Block(e) == <<Line("marker", e), Line("note", e), Line("directive", e)>>

\* What an append that was cut short has written of it, whole lines or not.  A
\* directive without its "=" is a line that says nothing; one that has lost
\* the end of its value names another extension, or none.
FirstLines(e) ==
  LET head == <<Line("marker", e), Line("note", e)>>
  IN {<<Line("note", e)>>, <<Line("marker", e)>>, head,
      Append(head, Line("junk", e)), Append(head, Line("directive", Torn))}

Markers(t) == {i \in DOMAIN t : t[i].kind = "marker"}

\* Mutation of BlockExtent: a marker is skipped like any other comment.
BlockExtentThroughMarkers(t, i) ==
  LET rest == {j \in i + 1..Len(t) : t[j].kind \notin Comments \cup {"marker"}}
      first == IF rest = {} THEN 0
               ELSE CHOOSE j \in rest : \A k \in rest : j <= k
  IN IF first # 0 /\ t[first].kind = "directive" THEN first ELSE 0

\* blockExtent: the first line after the marker that is no comment ends the
\* block if it is a directive; 0 when there is no block.
BlockExtent(t, i) ==
  LET rest == {j \in i + 1..Len(t) : t[j].kind \notin Comments}
      first == IF rest = {} THEN 0
               ELSE CHOOSE j \in rest : \A k \in rest : j <= k
  IN IF first # 0 /\ t[first].kind = "directive" THEN first ELSE 0

\* Where the blocks of e begin.
BlocksOf(t, e) ==
  {i \in Markers(t) : LET end == BlockExtent(t, i)
                      IN end # 0 /\ t[end].ext = e}

\* Mutation of RemoveMarkerBlock: the line before the block goes too.
RemoveMarkerBlockTooFar(t, e) ==
  Without(t, UNION {(i - 1)..BlockExtent(t, i) : i \in BlocksOf(t, e)})

\* RemoveMarkerBlock drops every block of e and keeps all other lines.
RemoveMarkerBlock(t, e) ==
  Without(t, UNION {i..BlockExtent(t, i) : i \in BlocksOf(t, e)})

\* parseMarkers: the extensions a text has a block of.
ParseMarkers(t) == {e \in Ext : BlocksOf(t, e) # {}}

-----------------------------------------------------------------------------
(* Lines of the user's and lines of gpie's.                                *)

UserLines == {UserText[i] : i \in DOMAIN UserText}
GpieLines ==
  {Line(k, e) : k \in {"marker", "note", "junk", "directive"}, e \in Ext}
    \cup {Line("directive", Torn)}

\* A hypothesis of the proofs: the user's text has no marker, and enables none of
\* the extensions gpie is asked for.
UserTextIsPlain ==
  /\ UserText \in Seq(UserLines)
  /\ \A l \in UserLines : l.kind \in {"setting", "comment", "directive"}
  /\ UserLines \cap GpieLines = {}

-----------------------------------------------------------------------------
TextInit ==
  /\ Init
  /\ text = UserText
  /\ tsnap = [p \in Pkg |-> <<>>]
  /\ tusnap = <<>>
  /\ overlapped = FALSE

\* appendIniReplacingBlock: what will be written if there is a block already.
TextRead(p) ==
  /\ ReadPhpIni(p)
  /\ tsnap' = IF pc'[p] = "trunc"
              THEN [tsnap EXCEPT ![p] = RemoveMarkerBlock(text, p.ext)
                                          \o Block(p.ext)]
              ELSE tsnap
  /\ UNCHANGED <<text, tusnap, overlapped>>

\* writeIni appends the block.  An append that fails may have written a part
\* of it, or all of it, and Go does not take it back.
TextAppend(p) ==
  /\ AppendPhpIni(p)
  /\ \/ ini' = AppendBlock(ini, p.ext) /\ text' = text \o Block(p.ext)
     \/ /\ pc'[p] # "verify" /\ ini' = ini
        /\ \/ UNCHANGED text
           \/ /\ Len(text) \in CutAt
              /\ \E b \in FirstLines(p.ext) : text' = text \o b
  /\ UNCHANGED <<tsnap, tusnap, overlapped>>

TextTruncate(p) ==
  /\ TruncatePhpIni(p)
  /\ text' = IF pc'[p] = "write" THEN <<>> ELSE text
  /\ UNCHANGED <<tsnap, tusnap, overlapped>>

TextWrite(p) ==
  /\ WritePhpIni(p)
  /\ text' = IF pc'[p] = "verify" THEN tsnap[p] ELSE text
  /\ UNCHANGED <<tsnap, tusnap, overlapped>>

\* Uninstall, when the block is in php.ini.
TextReadManaged ==
  /\ ReadManaged
  /\ tusnap' = IF upc' = "trunc" THEN RemoveMarkerBlock(text, target) ELSE tusnap
  /\ UNCHANGED <<text, tsnap, overlapped>>

TextTruncateManaged ==
  /\ TruncateManaged
  /\ text' = IF upc' = "write" THEN <<>> ELSE text
  /\ UNCHANGED <<tsnap, tusnap, overlapped>>

TextRewriteManaged ==
  /\ RewriteManaged
  /\ text' = IF upc' = "rm" THEN tusnap ELSE text
  /\ UNCHANGED <<tsnap, tusnap, overlapped>>

\* A worker starts an install, beside those that are at work.
TextBegin(p) ==
  /\ Begin(p)
  /\ overlapped' = (overlapped \/ Active # {})
  /\ UNCHANGED texts

\* The process ends, and the texts it holds in memory with it.
TextEnd ==
  /\ EndInstall \/ EndUninstall \/ Kill
  /\ tsnap' = [p \in Pkg |-> <<>>]
  /\ tusnap' = <<>>
  /\ UNCHANGED <<text, overlapped>>

\* The steps that leave php.ini alone.
TextIdle ==
  /\ \/ \E p \in Pkg : CopySo(p) \/ CheckLoaded(p) \/ ReplaceIni(p)
                       \/ FillIni(p) \/ VerifyLoaded(p) \/ InstallBundled(p)
     \/ \E e \in Ext : PickSpec(e)
     \/ RemoveIni \/ RemoveSo
  /\ UNCHANGED <<texts, overlapped>>

TextStart ==
  /\ \/ Len(text) <= MaxText /\ \E T \in SUBSET Pkg, f \in Flags : StartInstall(T, f)
     \/ \E n \in 1..MaxSpecs : StartUninstall(n)
  /\ UNCHANGED <<texts, overlapped>>

TextRunning ==
  \/ \E p \in Pkg : TextBegin(p) \/ TextRead(p) \/ TextAppend(p)
                    \/ TextTruncate(p) \/ TextWrite(p)
  \/ TextReadManaged \/ TextTruncateManaged \/ TextRewriteManaged
  \/ TextIdle \/ TextEnd

TextNext == TextStart \/ TextRunning
TextSpec == TextInit /\ [][TextNext]_tvars
TextFairSpec == TextSpec /\ WF_tvars(TextRunning)

-----------------------------------------------------------------------------
(* Properties.                                                             *)

Capped(n) == IF n > 2 THEN 2 ELSE n
Lines(t, l) == Cardinality({i \in DOMAIN t : t[i] = l})

\* ExtStore counts what the lines say: as many blocks as parseMarkers finds,
\* as many as PHP reads directives, in php.ini and in whatever is about to be
\* written over it.  So no directive of gpie's is stranded without a marker,
\* where no uninstall would find it, and the end of no block is mistaken: an
\* orphaned marker, which a failed append leaves, does "not absorb the next
\* block's directive" (managed.go:151-155, 227-231).
Counts(t, f) ==
  \A e \in Ext : /\ f.blocks[e] = Capped(Cardinality(BlocksOf(t, e)))
                 /\ f.blocks[e] = Capped(Lines(t, Line("directive", e)))
TextAgrees ==
  /\ Counts(text, ini)
  /\ Blocks(ini) = ParseMarkers(text)
  /\ \A p \in Pkg : pc[p] \in {"trunc", "write"} => Counts(tsnap[p], snap[p])
  /\ upc \in {"trunc", "write"} => Counts(tusnap, usnap)

\* The user's own lines of php.ini are all there, in their order and ahead of
\* gpie's, none of them twice, whenever no gpie command runs: a shared php.ini
\* "must keep its existing content" (ini.go:57), and the removal of a block
\* preserves everything else (managed.go:183-184).  That holds of source builds
\* two at a time, and of installs one at a time.  It does not hold of prebuilt
\* attempts that overlap another install: an install that falls back to its
\* source reads php.ini again, and finds it as another one has truncated it.
UserTextKept ==
  cmd = "none" =>
    /\ Len(UserText) <= Len(text)
    /\ \A i \in DOMAIN UserText : text[i] = UserText[i]
    /\ \A i \in DOMAIN text, k \in DOMAIN UserText :
         i > Len(UserText) => text[i] # UserText[k]

\* As long as installs have run one at a time, repeated installs, failed ones
\* included, do not stack blocks of one extension (ini.go:161-163) ...
NoStackedBlocksAlone == ~overlapped => NoStackedBlocks

\* ... and what was reported as enabled stays loaded, whatever is installed or
\* uninstalled later.
ReportedStaysLoadedAlone == ~overlapped => ReportedStaysLoaded
=============================================================================
