------------------------- MODULE GovernedProperties -------------------------
(* What the guards on an unapproved revise promise of the note it leaves.   *)
EXTENDS Governed

Verdicts == {"none", "comparing", "SYNTAX_BREAK", "LEDGER_GUARD", "revised"}

\* The machine's variables hold notes of the instance, one of its verdicts and
\* calls for two nodes, as many as are under way.
\* (lint.ts, broker.ts: doRevise.)
TypeOK ==
  /\ world \in DOMAIN Worlds
  /\ before \in Worlds[world].notes
  /\ after \in Worlds[world].notes
  /\ verdict \in Verdicts
  /\ calls \in Seq([pair : (DOMAIN before.nodes) \X (DOMAIN after.nodes), left : SUBSET Nat])
  /\ calls # <<>> <=> verdict = "comparing"
  /\ equal \subseteq (DOMAIN before.nodes) \X (DOMAIN after.nodes)
  /\ cached \subseteq {n \in Worlds[world].notes : n.frontmatter = "corrupt"}
  /\ revises \in 0 .. Worlds[world].revises

-----------------------------------------------------------------------------
\* Equality of two values read as trees, unbounded where a node is its own
\* descendant: some relation between the nodes pairs the two and is closed
\* under going down into both.  With `dates` a date is only itself, without it
\* any date is as good as another, or as an empty map.
SameLeaf(v, w, R) == IF IsObject(v) /\ IsObject(w) THEN <<v, w>> \in R ELSE v = w

Agree(x, y, R) ==
  /\ x.kind = "list" <=> y.kind = "list"
  /\ DOMAIN x.at = DOMAIN y.at
  /\ \A k \in DOMAIN x.at : SameLeaf(x.at[k], y.at[k], R)

SameTree(A, v, B, w, dates) ==
  IF IsObject(v) /\ IsObject(w)
  THEN \E R \in SUBSET ((DOMAIN A) \X (DOMAIN B)) :
         /\ <<v, w>> \in R
         /\ \A p \in R : /\ Agree(A[p[1]], B[p[2]], R)
                         /\ dates => A[p[1]].kind = B[p[2]].kind
  ELSE v = w

Ledger(note) == IF IsObject(note.ledger) THEN note.ledger ELSE "null"
Entity(note) == IF note.entity \in Strings THEN note.entity ELSE "null"

SameProvenance(x, y, dates) ==
  Entity(x) = Entity(y) /\ SameTree(x.nodes, Ledger(x), y.nodes, Ledger(y), dates)

\* A note that holds the one value which is not equal to itself.
HasNaN(note) ==
  \E n \in DOMAIN note.nodes : \E k \in DOMAIN note.nodes[n].at : note.nodes[n].at[k] = NotANumber

\* The guard lets a revise through only when the ledger block and the entity
\* mean the same as before but for the instants of their dates, whatever the
\* sharing and the cycles in the YAML that spells them (canonicalEqualInner's
\* memo of pairs); and between notes that parse, of which the one there was
\* holds no NaN, it refuses only a change: other anchors, or the keys in
\* another order, are none, so no fact edit waits for a person.
GuardIsExact ==
  /\ verdict = "revised" => SameProvenance(before, after, FALSE)
  /\ /\ verdict = "LEDGER_GUARD"
     /\ "corrupt" \notin {before.frontmatter, after.frontmatter} /\ ~HasNaN(before)
     => ~SameProvenance(before, after, FALSE)

-----------------------------------------------------------------------------
(* Not kept.                                                               *)

\* lint.ts:256-259: "does the note's governed provenance ... differ between
\* `before` and `after`, canonically (a mere key reorder is NOT a change)?"
\* It does not see that a date in the ledger block has become another one, or
\* an empty map.
GuardSeesDates == verdict = "revised" => SameProvenance(before, after, TRUE)

\* The same lines, of a ledger that holds a NaN and is as it was: lint.ts:142-145
\* owns that it "reads as 'changed'".
UnchangedPasses ==
  verdict = "LEDGER_GUARD" /\ "corrupt" \notin {before.frontmatter, after.frontmatter} =>
    ~SameProvenance(before, after, TRUE)

\* lint.ts:13-15: "`after` must still parse via gray-matter without throwing
\* and must still have a closed frontmatter block".
CorruptStaysOut ==
  verdict = "revised" /\ before.frontmatter = "closed" => after.frontmatter = "closed"
=============================================================================
