-------------------------- MODULE PatchProperties --------------------------
(* What applyPatch promises of an accepted and of an honest patch.          *)
EXTENDS Patch

\* The search and the observer count in hunks and lines (deriveHunkLandings).
TypeOK ==
  /\ original \in Seq(Texts)
  /\ hunks \in Seq({h \in Hunks : InNote(h, original)}) /\ hunks # <<>>
  /\ jsdiff \in [hunk : 1..(Len(hunks) + 1), toPos : Int, line : Nat, tried : SUBSET Int,
                 minLine : Nat, offset : Int, landed : Seq(Int),
                 result : Seq(Texts \cup {NewText, "undefined"})]
  /\ watch \in [hunkIdx : 1..(Len(hunks) + 1), runCount : Nat, runStart : Int,
                landings : [DOMAIN hunks -> Int]]
  /\ outcome \in {"guard", "search", "landing", "applied", "SYNTAX_BREAK", "PATCH_TOO_LARGE"}

\* The hunk's context and removed lines are the note's, at the header's line.
Verbatim(h) ==
  /\ h.oldStart + OldLines(h) - 1 <= Len(original)
  /\ \A k \in 1..OldLines(h) : original[h.oldStart + k - 1] = Matchable(h)[k]

\* The hunks come in the note's order and none reaches into the next.
InOrder ==
  \A i, j \in DOMAIN hunks : i < j =>
    /\ hunks[i].oldStart <= hunks[j].oldStart
    /\ \A k \in 1..OldLines(hunks[i]) : hunks[i].oldStart + k - 1 < hunks[j].oldStart

\* The declared edit: from the last hunk to the first, the lines of its header
\* replaced by its new ones.
Spliced(note, h) ==
  SubSeq(note, 1, h.oldStart - 1) \o NewLines(h) \o SubSeq(note, h.oldStart + OldLines(h), Len(note))
Edited(note, patch) ==
  LET edited[i \in 0..Len(patch)] ==
        IF i = 0 THEN note ELSE Spliced(edited[i - 1], patch[Len(patch) + 1 - i])
  IN edited
Declared == Edited(original, hunks)[Len(hunks)]

\* What the observer makes of the comparisons is where jsdiff really was,
\* relocated hunks and hunks that compare nothing included: the check of the
\* landings rests on it (patch.ts:81-99).
LandingsAreTrue == outcome = "landing" => watch.landings = jsdiff.landed

\* A patch that is accepted did exactly what its headers say and nothing
\* elsewhere: no hunk was relocated to another place where its lines occur
\* (VL-SEC-S2-01, patch.ts:186-194).  And a patch whose hunks are in order, in
\* place and small enough is never taken for a relocated one, however often
\* its lines recur in the note.
AppliedAsDeclared ==
  /\ LandingsAreTrue
  /\ outcome = "applied" => (\A i \in DOMAIN hunks : Verbatim(hunks[i])) /\ jsdiff.result = Declared
  /\ outcome = "SYNTAX_BREAK" => ~(InOrder /\ \A i \in DOMAIN hunks : Verbatim(hunks[i]))
=============================================================================
