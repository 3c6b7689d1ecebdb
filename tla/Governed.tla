------------------------------ MODULE Governed ------------------------------
(* The two guards on an unapproved revise: the note's structure must be     *)
(* preserved, and its governed provenance (the ledger block and the entity) *)
(* must be equal before and after.  YAML anchors make the parsed frontmatter *)
(* a graph, with sharing and with cycles, so the comparison walks pairs of  *)
(* nodes and remembers the ones it has decided.                             *)
EXTENDS Naturals, Sequences, FiniteSets, SequencesExt

CONSTANTS
  Worlds,           \* by name: the notes, and how often one is revised
  Nodes,            \* the objects of a parsed frontmatter: its lists, maps and dates
  Dates,            \* the instants of its dates
  Scalars, Strings  \* what else it may hold, and what of that is a string

NoObject == "null"
NotANumber == "NaN"

\* A note: [frontmatter, nodes, ledger, entity, links].  frontmatter is "none",
\* "closed" (a block that parses) or "corrupt" (a closed block that does not).
\* A value is a node or a scalar; nodes[n] is [kind, at], where at gives the
\* value at each place of a list, or at each key of a map by the key's place
\* among all keys in sorted order.  The YAML engine makes an unquoted timestamp
\* a Date: an object that keeps its instant under no key.
WellFormed(note) ==
  /\ note.frontmatter \in {"none", "closed", "corrupt"} /\ note.links \in Nat
  /\ DOMAIN note.nodes \subseteq Nodes
  /\ {note.ledger, note.entity} \subseteq DOMAIN note.nodes \cup Scalars
  /\ \A n \in DOMAIN note.nodes :
       /\ note.nodes[n].kind \in {"map", "list"} \cup Dates
       /\ note.nodes[n].kind \in Dates => DOMAIN note.nodes[n].at = {}
       /\ DOMAIN note.nodes[n].at \subseteq Nat
       /\ \A k \in DOMAIN note.nodes[n].at : note.nodes[n].at[k] \in DOMAIN note.nodes \cup Scalars

\* Assumed where the module is instantiated (Gates).
WorldsAssumption ==
  /\ Nodes \cap Scalars = {} /\ NoObject \in Scalars
  /\ Strings \subseteq Scalars \ {NoObject, NotANumber} /\ Dates \cap {"map", "list"} = {}
  /\ \A w \in DOMAIN Worlds : /\ Worlds[w].revises \in Nat
                              /\ \A note \in Worlds[w].notes : WellFormed(note)

VARIABLES
  world,
  before, after,    \* the note as the last revise found it, and as it would leave it
  verdict,          \* that revise's outcome, or "comparing"
  calls,            \* the calls of canonicalEqualInner under way: [pair, left]
  equal,            \* its trueCache
  cached,           \* the corrupt texts gray-matter has seen in this process
  revises
vars == <<world, before, after, verdict, calls, equal, cached, revises>>

IsObject(v) == v \in Nodes

Init ==
  /\ world \in DOMAIN Worlds
  /\ before \in Worlds[world].notes
  /\ after = before
  /\ verdict = "none"
  /\ calls = <<>>
  /\ equal = {}
  /\ cached = {}
  /\ revises = 0

-----------------------------------------------------------------------------
(* canonicalEqual.  Every call that finds a difference makes its caller     *)
(* return one too, up to the first, so the falseCache is never read and     *)
(* is left out.                                                             *)

\* Arrays by length and place, everything else by its own keys, of which a
\* Date has none: it has the shape of any other Date, and of the empty map.
SameShape(x, y) == (x.kind = "list" <=> y.kind = "list") /\ DOMAIN x.at = DOMAIN y.at

\* ===, between values of which one is no object.
Identical(v, w) == v = w /\ v # NotANumber

\* Different without going into either.
Unlike(x, v, y, w) ==
  IF IsObject(v) /\ IsObject(w) THEN ~SameShape(x.nodes[v], y.nodes[w]) ELSE ~Identical(v, w)

\* A call for two nodes of the same shape: left are the keys still to compare.
Call(x, v, w) == [pair |-> <<v, w>>, left |-> DOMAIN x.nodes[v].at]

\* Mutant: the memo remembers the node, not the pair.
KnownByNode(v, w) ==
  \/ \E p \in equal : p[1] = v
  \/ \E i \in DOMAIN calls : calls[i].pair[1] = v

\* Found equal before, or being compared: a cycle is consistent so far.
KnownEqual(v, w) == <<v, w>> \in equal \/ \E i \in DOMAIN calls : calls[i].pair = <<v, w>>

Top == calls[Len(calls)]
Under == SubSeq(calls, 1, Len(calls) - 1)

\* The next key in order of the innermost call.
CompareChild ==
  /\ verdict = "comparing"
  /\ \E k \in Top.left :
       /\ \A l \in Top.left : k <= l
       /\ LET v == before.nodes[Top.pair[1]].at[k]
              w == after.nodes[Top.pair[2]].at[k]
              rest == Append(Under, [Top EXCEPT !.left = @ \ {k}])
              objects == IsObject(v) /\ IsObject(w)
          IN \/ /\ objects => ~KnownEqual(v, w)
                /\ Unlike(before, v, after, w)
                /\ verdict' = "LEDGER_GUARD" /\ calls' = <<>>
             \/ /\ IF objects THEN KnownEqual(v, w) ELSE Identical(v, w)
                /\ calls' = rest /\ UNCHANGED verdict
             \/ /\ objects /\ ~KnownEqual(v, w) /\ ~Unlike(before, v, after, w)
                /\ calls' = Append(rest, Call(before, v, w)) /\ UNCHANGED verdict
  /\ UNCHANGED <<world, before, after, equal, cached, revises>>

\* Every key was equal: so are the two nodes.
Return ==
  /\ verdict = "comparing" /\ Top.left = {}
  /\ equal' = equal \cup {Top.pair}
  /\ calls' = Under
  /\ verdict' = IF Under = <<>> THEN "revised" ELSE verdict
  /\ UNCHANGED <<world, before, after, cached, revises>>

-----------------------------------------------------------------------------
(* the guards                                                               *)

\* Anything but an object under `ledger:` is no ledger at all.
NormalizeLedger(note) == IF IsObject(note.ledger) THEN note.ledger ELSE NoObject

\* Anything but a string under `entity:` is no entity.
GovernedEntity(note) == IF note.entity \in Strings THEN note.entity ELSE NoObject

\* matter() caches a file before it parses it, and a cached file is returned as
\* it is: a corrupt block throws once in a process, then reads as no data.
Throws(note, seen) == note.frontmatter = "corrupt" /\ note \notin seen

\* A note with a closed block keeps one, and matter() must not throw; wikilinks,
\* block references and callouts (links counts them) may not become fewer.
StructurePreserved(x, y, seen) ==
  /\ x.frontmatter # "none" => y.frontmatter # "none" /\ ~Throws(y, seen)
  /\ y.links >= x.links

\* The corrupt texts a revise gives to matter(), which caches them.
Parsed(x, y, seen) ==
  {n \in {x, y} : n.frontmatter = "corrupt" /\
     (StructurePreserved(x, y, seen) \/ (n = y /\ x.frontmatter # "none"))}

Current == IF verdict = "revised" THEN after ELSE before

\* governedProvenanceChanged, as far as it is known before the first call of
\* canonicalEqualInner that has children to compare.
ChangedAtOnce(x, y, seen) ==
  \/ Throws(x, seen) \/ Throws(y, seen)
  \/ GovernedEntity(x) # GovernedEntity(y)
  \/ Unlike(x, NormalizeLedger(x), y, NormalizeLedger(y))

\* A revise that no internal caller asks for: both guards, in the code's order.
\* The text is another one, though it may parse to the same note: from the very
\* same text matter() returns the very same objects, and nothing is compared.
Revise ==
  /\ verdict # "comparing"
  /\ revises < Worlds[world].revises /\ revises' = revises + 1
  /\ before' = Current
  /\ after' \in Worlds[world].notes
  /\ LET v == NormalizeLedger(before')
         w == NormalizeLedger(after')
     IN \/ /\ ~StructurePreserved(before', after', cached)
           /\ verdict' = "SYNTAX_BREAK" /\ calls' = <<>>
        \/ /\ StructurePreserved(before', after', cached)
           /\ ChangedAtOnce(before', after', cached)
           /\ verdict' = "LEDGER_GUARD" /\ calls' = <<>>
        \/ /\ StructurePreserved(before', after', cached)
           /\ ~ChangedAtOnce(before', after', cached)
           /\ IF IsObject(v)
              THEN verdict' = "comparing" /\ calls' = <<Call(before', v, w)>>
              ELSE verdict' = "revised" /\ calls' = <<>>
  /\ equal' = {}
  /\ cached' = cached \cup Parsed(before', after', cached)
  /\ UNCHANGED world

Next == Revise \/ CompareChild \/ Return

Spec == Init /\ [][Next]_vars
=============================================================================
