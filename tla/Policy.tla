------------------------------- MODULE Policy -------------------------------
(* Which zone a note is in: the manifest that setup proposes from a scan of *)
(* the vault, the person's edits of it, the folders that come later, and    *)
(* doctor's zone-integrity check.  Names are already folded to one case, as *)
(* picomatch's nocase and the Private pattern's /i compare them.            *)
EXTENDS Naturals, Sequences, FiniteSets, SequencesExt

CONSTANTS
  Segments,         \* the names a path is made of, and the patterns of a glob
  SkippedDirs,      \* DEFAULT_EXCLUDE_DIRS
  Worlds            \* what a behaviour is made of, and its bounds

ZoneNames == {"trusted", "agent", "scratch", "excluded"}
ManifestEdits ==
  [op : {"add", "remove", "override"}, zone : ZoneNames, glob : Seq(Segments)]

\* The name of a file that is not there.
PROBE == "__vaultledger_probe__.md"

\* A world: the names of folders, what a person may do to permissions.yaml, how
\* deep a folder may be, and how many folders and edits there may be.
\* Assumed where the module is instantiated (Gates).
WorldsAssumption ==
  /\ {".ledger", ".git", ".obsidian"} \subseteq SkippedDirs
  /\ SkippedDirs \cup {"*", "**", "private", "agent", "scratch", "note.md", PROBE} \subseteq Segments
  /\ \A w \in Worlds : /\ w.names \subseteq Segments /\ w.rules \subseteq ManifestEdits
                       /\ {w.depth, w.folders, w.edits} \subseteq Nat

VARIABLES
  world,
  folders,          \* the vault's folders, each the sequence of names to it
  manifest,         \* permissions.yaml, or NoManifest
  report,           \* doctor's last zone-integrity check
  refused,          \* scanVault threw INVARIANT_VIOLATION
  edits
vars == <<world, folders, manifest, report, refused, edits>>

NoManifest == [zones |-> [z \in ZoneNames |-> <<>>], overrides |-> <<>>]
NoReport == "none"

-----------------------------------------------------------------------------
(* zones.ts.  A glob is the sequence of its segments.                       *)

\* picomatch: the first i segments of the glob take up the path to its to[i].
Matches(glob, path) ==
  \E to \in [DOMAIN glob -> 0 .. Len(path)] :
    /\ IF glob = <<>> THEN path = <<>> ELSE to[Len(glob)] = Len(path)
    /\ \A i \in DOMAIN glob :
         LET from == IF i = 1 THEN 0 ELSE to[i - 1] IN
         IF glob[i] = "**" THEN from <= to[i]
         ELSE to[i] = from + 1 /\ glob[i] \in {"*", path[to[i]]}

ALWAYS_EXCLUDED_GLOBS == {<<".ledger", "**">>, <<".git", "**">>, <<".obsidian", "**">>}

\* The segments that are neither * nor **.
Specificity(glob) == Cardinality({i \in DOMAIN glob : glob[i] \notin {"*", "**"}})

Unmatched == [zone |-> "none", score |-> 0]

Scored(rule) == [zone |-> rule.zone, score |-> Specificity(rule.glob)]

\* Mutant: the later of two equals wins.
BestLast(rules, path) ==
  LET best[i \in 0 .. Len(rules)] ==
        IF i = 0 THEN Unmatched
        ELSE LET b == best[i - 1] IN
             IF Matches(rules[i].glob, path)
                /\ (b = Unmatched \/ Specificity(rules[i].glob) >= b.score)
             THEN Scored(rules[i]) ELSE b
  IN best[Len(rules)]
\* The most specific rule that matches; the first of equals.
Best(rules, path) ==
  LET best[i \in 0 .. Len(rules)] ==
        IF i = 0 THEN Unmatched
        ELSE LET b == best[i - 1] IN
             IF Matches(rules[i].glob, path)
                /\ (b = Unmatched \/ Specificity(rules[i].glob) > b.score)
             THEN Scored(rules[i]) ELSE b
  IN best[Len(rules)]

\* The manifest's base rules in the order the code tries them.
RulesOf(zone, m) == [i \in DOMAIN m.zones[zone] |-> [zone |-> zone, glob |-> m.zones[zone][i]]]
BaseRules(m) == RulesOf("scratch", m) \o RulesOf("agent", m) \o RulesOf("trusted", m)

ResolveZone(path, m) ==
  CASE \E g \in ALWAYS_EXCLUDED_GLOBS \cup ToSet(m.zones["excluded"]) : Matches(g, path) -> "excluded"
    [] OTHER -> LET override == Best(m.overrides, path)
                    base == Best(BaseRules(m), path)
                IN IF override # Unmatched THEN override.zone
                   ELSE IF base # Unmatched THEN base.zone ELSE "trusted"

-----------------------------------------------------------------------------
(* scanner.ts                                                               *)

\* Mutant: only the vault's own folders are looked at.
WalkedTop == {f \in folders : Len(f) = 1 /\ f[1] \notin SkippedDirs}
\* The folders the walk enters.
Walked == {f \in folders : ToSet(f) \cap SkippedDirs = {}}

IsPrivate(f) == Last(f) = "private"

HasPrivate == \E f \in Walked : IsPrivate(f)

\* findPrivateFolders; the walk of scanVault collects the same ones.
FindPrivateFolders == {f \in Walked : IsPrivate(f)}

\* Mutant: one glob for each folder found.
ExcludedEach ==
  <<<<".obsidian", "**">>>> \o SetToSeq({f \o <<"**">> : f \in FindPrivateFolders})

Excluded ==
  <<<<".obsidian", "**">>>> \o IF HasPrivate THEN <<<<"**", "private", "**">>>> ELSE <<>>

ProposedManifest ==
  [zones |-> [trusted  |-> <<<<"**">>>>,
              agent    |-> <<<<"agent", "**">>>>,
              scratch  |-> <<<<"agent", "scratch", "**">>>>,
              excluded |-> Excluded],
   overrides |-> <<>>]

ProbeOf(f) == Append(f, PROBE)

\* The self-check on the manifest about to be proposed.
SafeToPropose ==
  \A f \in FindPrivateFolders : ResolveZone(ProbeOf(f), ProposedManifest) = "excluded"

\* setup, on a vault that has no permissions.yaml.
Setup ==
  /\ manifest = NoManifest
  /\ IF SafeToPropose
     THEN manifest' = ProposedManifest /\ refused' = FALSE
     ELSE refused' = TRUE /\ UNCHANGED manifest
  /\ UNCHANGED <<world, folders, report, edits>>

-----------------------------------------------------------------------------
(* doctor, and what people do                                               *)

\* checkZoneIntegrity: one probe in each Private folder, and one in .ledger.
NotExcluded ==
  {f \in FindPrivateFolders \cup {<<".ledger">>} : ResolveZone(ProbeOf(f), manifest) # "excluded"}

Doctor ==
  /\ manifest # NoManifest
  /\ report' = IF NotExcluded # {} THEN "fail"
               ELSE IF FindPrivateFolders # {} THEN "all excluded" ELSE "none present"
  /\ UNCHANGED <<world, folders, manifest, refused, edits>>

MakeFolder ==
  \E parent \in folders \cup {<<>>}, name \in world.names :
    /\ Len(parent) < world.depth
    /\ Cardinality(folders) < world.folders
    /\ Append(parent, name) \notin folders
    /\ folders' = folders \cup {Append(parent, name)}
    /\ UNCHANGED <<world, manifest, report, refused, edits>>

\* A person edits permissions.yaml; whatever doctor said was of the old one.
EditManifest ==
  \E e \in world.rules :
    /\ manifest # NoManifest /\ edits < world.edits
    /\ \/ e.op = "add" /\ manifest' = [manifest EXCEPT !.zones[e.zone] = Append(@, e.glob)]
       \/ e.op = "remove" /\ \E i \in DOMAIN manifest.zones[e.zone] :
            /\ manifest.zones[e.zone][i] = e.glob
            /\ manifest' = [manifest EXCEPT !.zones[e.zone] = RemoveAt(@, i)]
       \/ e.op = "override"
          /\ manifest' = [manifest EXCEPT !.overrides = Append(@, [zone |-> e.zone, glob |-> e.glob])]
    /\ report' = NoReport
    /\ edits' = edits + 1
    /\ UNCHANGED <<world, folders, refused>>

Init ==
  /\ world \in Worlds
  /\ folders = {}
  /\ manifest = NoManifest
  /\ report = NoReport
  /\ refused = FALSE
  /\ edits = 0

Next == Setup \/ Doctor \/ MakeFolder \/ EditManifest

Spec == Init /\ [][Next]_vars
=============================================================================
