------------------------------- MODULE Patch -------------------------------
(* applyPatch: a unified diff applied to a note.  jsdiff searches the whole *)
(* note for a place where a hunk's lines match, so the code watches every   *)
(* comparison jsdiff makes, works out from them where each hunk landed, and *)
(* refuses a hunk that is not where its header says.  jsdiff is external:   *)
(* its search is modelled comparison by comparison because the code sees    *)
(* nothing else of it.                                                      *)
EXTENDS Integers, Sequences, SequencesExt, FiniteSets, FiniteSetsExt

CONSTANTS
  Texts,        \* what a line of the note may say
  NewText,      \* what an added line says
  MaxLines,     \* bound: lines of the note
  MaxHunks,     \* bound: hunks of the patch
  MaxHunkLines, \* bound: lines of a hunk
  LineBytes,    \* bytes of a line
  Threshold,    \* patchThreshold, in hundredths
  LandingFuzz   \* how far from its header a hunk may land

PATCH_RATIO_FLOOR_BYTES == 512
Unreached == -1

\* No line is the one that is not there.  Assumed where the module is
\* instantiated (Gates).
PatchAssumption ==
  /\ {NewText, "undefined"} \cap Texts = {}
  /\ {MaxLines, MaxHunks, MaxHunkLines, LineBytes, Threshold, LandingFuzz} \subseteq Nat

VARIABLES
  original, hunks,   \* the inputs
  jsdiff,            \* its search: [hunk, toPos, line, tried, minLine, offset, landed, result]
  watch,             \* deriveHunkLandings: [hunkIdx, runCount, runStart, landings]
  outcome            \* "guard", "search", "landing", then the verdict

vars == <<original, hunks, jsdiff, watch, outcome>>

HunkLine == ({"-", " "} \X Texts) \cup ({"+"} \X {NewText})
Op(l) == l[1]
Content(l) == l[2]

\* What the hunk's lines with one of the markers say, in order.
Said(h, markers) ==
  LET said[i \in 0..Len(h.lines)] ==
        IF i = 0 THEN <<>>
        ELSE IF Op(h.lines[i]) \in markers THEN Append(said[i - 1], Content(h.lines[i]))
        ELSE said[i - 1]
  IN said[Len(h.lines)]
Matchable(h) == Said(h, {"-", " "})
OldLines(h) == Len(Matchable(h))
NewLines(h) == Said(h, {"+", " "})

Notes == BoundedSeq(Texts, MaxLines)
Hunks == [oldStart : 1..MaxLines, lines : BoundedSeq(HunkLine, MaxHunkLines) \ {<<>>}]

\* A header may name a line the note does not have only for lines it compares.
InNote(h, note) == OldLines(h) = 0 => h.oldStart <= Len(note) + 1

Init ==
  /\ original \in Notes
  /\ hunks \in BoundedSeq({h \in Hunks : InNote(h, original)}, MaxHunks) \ {<<>>}
  /\ jsdiff = [hunk |-> 1, toPos |-> 0, line |-> 1, tried |-> {}, minLine |-> 0, offset |-> 0,
               landed |-> <<>>, result |-> <<>>]
  /\ watch = [hunkIdx |-> 1, runCount |-> 0, runStart |-> 0,
              landings |-> [i \in DOMAIN hunks |-> Unreached]]
  /\ outcome = "guard"

-----------------------------------------------------------------------------
(* the guards before the search                                             *)

Ordered ==
  \A i \in 1..(Len(hunks) - 1) : hunks[i].oldStart + OldLines(hunks[i]) <= hunks[i + 1].oldStart

Changed == FoldSeq(LAMBDA h, n : n + Len(SelectSeq(h.lines, LAMBDA l : Op(l) # " ")), 0, hunks)

OriginalBytes == Max({Len(original) * LineBytes, 1})

\* More than the threshold of the lines or of the bytes, in a note above the
\* floor (a hunk line's bytes do not count its newline).
TooLarge ==
  /\ OriginalBytes > PATCH_RATIO_FLOOR_BYTES
  /\ \/ Changed * 100 > Threshold * Max({Len(original), 1})
     \/ Changed * (LineBytes - 1) * 100 > Threshold * OriginalBytes

-----------------------------------------------------------------------------
(* deriveHunkLandings                                                       *)

\* Hunks that compare nothing land where the offset of the hunk before puts
\* them, one after the other with the same offset: the landings and the index
\* after skipping those from idx on.
SkipEmptyHunks(idx, landings) ==
  LET offset == IF idx = 1 \/ landings[idx - 1] = Unreached THEN 0
                ELSE landings[idx - 1] + 1 - hunks[idx - 1].oldStart
      stop == Min({i \in idx..(Len(hunks) + 1) : i > Len(hunks) \/ OldLines(hunks[i]) > 0})
  IN [hunkIdx |-> stop, runCount |-> 0, runStart |-> 0,
      landings |-> [i \in DOMAIN landings |->
                      IF i \in idx..(stop - 1) THEN hunks[i].oldStart + offset - 1 ELSE landings[i]]]

\* compareLine as jsdiff calls it with a 1-indexed line number: a run of as
\* many matches as the hunk compares is the hunk landing at the run's start.
CompareLine(lineNumber, isMatch) ==
  LET start == IF watch.runCount = 0 THEN lineNumber ELSE watch.runStart
      w == watch
  IN CASE w.hunkIdx > Len(hunks) -> w
       [] ~isMatch -> [w EXCEPT !.runCount = 0, !.runStart = 0]
       [] isMatch /\ w.runCount + 1 = OldLines(hunks[w.hunkIdx]) ->
            SkipEmptyHunks(w.hunkIdx + 1, [w.landings EXCEPT ![w.hunkIdx] = start - 1])
       [] OTHER -> [w EXCEPT !.runCount = @ + 1, !.runStart = start]

Guard ==
  /\ outcome = "guard"
  /\ IF Ordered /\ ~TooLarge
     THEN /\ outcome' = "search"
          /\ jsdiff' = [jsdiff EXCEPT !.toPos = hunks[1].oldStart - 1, !.tried = {hunks[1].oldStart - 1}]
          /\ watch' = SkipEmptyHunks(1, watch.landings)
     ELSE /\ outcome' = IF ~Ordered THEN "SYNTAX_BREAK" ELSE "PATCH_TOO_LARGE"
          /\ UNCHANGED <<jsdiff, watch>>
  /\ UNCHANGED <<original, hunks>>

-----------------------------------------------------------------------------
(* jsdiff's search                                                          *)

Current == hunks[jsdiff.hunk]
LineAt(i) == IF i \in 0..(Len(original) - 1) THEN original[i + 1] ELSE "undefined"

\* The lines from the last hunk up to this one, 0-indexed, the end not included.
Copied(from, to) == [k \in 1..(to - from) |-> LineAt(from + k - 1)]

\* The hunk line being tried, once the added ones before it are passed over.
Tried == Matchable(Current)[jsdiff.line]

\* The next place to try, outwards from the first, forwards before backwards.
Candidates ==
  LET first == Current.oldStart + jsdiff.offset - 1
      left  == (jsdiff.minLine..(Len(original) - OldLines(Current))) \ jsdiff.tried
      dist(p) == IF p >= first THEN 2 * (p - first) - 1 ELSE 2 * (first - p)
  IN {p \in left : \A q \in left : dist(p) <= dist(q)}

Searching == outcome = "search" /\ jsdiff.hunk <= Len(hunks)

Compare ==
  /\ Searching
  /\ jsdiff.line <= OldLines(Current)
  /\ LET at      == jsdiff.toPos + jsdiff.line - 1
         isMatch == LineAt(at) = Tried
     IN /\ watch' = CompareLine(at + 1, isMatch)
        /\ IF isMatch
           THEN jsdiff' = [jsdiff EXCEPT !.line = @ + 1] /\ UNCHANGED outcome
           ELSE IF Candidates = {}
                THEN outcome' = "SYNTAX_BREAK" /\ UNCHANGED jsdiff
                ELSE /\ \E p \in Candidates :
                          jsdiff' = [jsdiff EXCEPT !.toPos = p, !.line = 1, !.tried = @ \cup {p}]
                     /\ UNCHANGED outcome
  /\ UNCHANGED <<original, hunks>>

\* Every line of the hunk matched: it is written there.
HunkApplies ==
  /\ Searching
  /\ jsdiff.line > OldLines(Current)
  /\ LET offset == jsdiff.toPos + 1 - Current.oldStart
         first  == IF jsdiff.hunk < Len(hunks) THEN hunks[jsdiff.hunk + 1].oldStart + offset - 1 ELSE 0
     IN jsdiff' = [hunk |-> jsdiff.hunk + 1, toPos |-> first, line |-> 1, tried |-> {first},
                   minLine |-> jsdiff.toPos + OldLines(Current), offset |-> offset,
                   landed |-> Append(jsdiff.landed, jsdiff.toPos),
                   result |-> jsdiff.result \o Copied(jsdiff.minLine, jsdiff.toPos) \o NewLines(Current)]
  /\ UNCHANGED <<original, hunks, watch, outcome>>

\* The search is over: what was not touched after the last hunk is kept.
SearchEnds ==
  /\ outcome = "search" /\ jsdiff.hunk > Len(hunks)
  /\ jsdiff' = [jsdiff EXCEPT !.result = @ \o Copied(jsdiff.minLine, Len(original))]
  /\ outcome' = "landing"
  /\ UNCHANGED <<original, hunks, watch>>

\* Mutant: whatever jsdiff found is taken.
CheckNoLandings ==
  /\ outcome = "landing"
  /\ outcome' = "applied"
  /\ UNCHANGED <<original, hunks, jsdiff, watch>>

\* Every hunk where its header says, or nothing.
CheckLandings ==
  /\ outcome = "landing"
  /\ outcome' =
       IF \A i \in DOMAIN hunks :
            /\ watch.landings[i] # Unreached
            /\ LET d == watch.landings[i] - (hunks[i].oldStart - 1) IN d \in -LandingFuzz..LandingFuzz
       THEN "applied" ELSE "SYNTAX_BREAK"
  /\ UNCHANGED <<original, hunks, jsdiff, watch>>

Next == Guard \/ Compare \/ HunkApplies \/ SearchEnds \/ CheckLandings

Spec == Init /\ [][Next]_vars
=============================================================================
