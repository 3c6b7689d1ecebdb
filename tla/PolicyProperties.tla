-------------------------- MODULE PolicyProperties --------------------------
(* What setup, the zone rules and doctor promise about Private folders.     *)
EXTENDS Policy

Paths == UNION {[1 .. n -> world.names] : n \in 1 .. world.depth}
Globs == Seq(Segments)

\* The folders are a tree of the bounded names, the manifest's rules are rules.
\* (scanner.ts: walk; schemas/manifest.ts.)
TypeOK ==
  /\ world \in Worlds
  /\ folders \subseteq Paths
  /\ \A f \in folders, n \in 1 .. world.depth : n <= Len(f) => SubSeq(f, 1, n) \in folders
  /\ manifest \in [zones : [ZoneNames -> Seq(Globs)], overrides : Seq([zone : ZoneNames, glob : Globs])]
  /\ report \in {NoReport, "fail", "all excluded", "none present"}
  /\ refused \in BOOLEAN
  /\ edits \in 0 .. world.edits

-----------------------------------------------------------------------------
\* The folders in a Private folder that no tool's folder holds, that one included.
Kept ==
  {f \in folders : \E n \in DOMAIN f :
     f[n] = "private" /\ \A k \in 1 .. n : f[k] \notin SkippedDirs}

\* Every note in them is out of the agent's reach.
Shielded(m) == \A f \in Kept : ResolveZone(Append(f, "note.md"), m) = "excluded"

\* Whatever the manifest that setup writes, no note in a Private folder of the
\* scanned vault is readable, however deep the folder is and however deep in it
\* the note (scanVault's glob and its self-check).
ProposedIsSafe ==
  [][manifest = NoManifest /\ manifest' # NoManifest => Shielded(manifest)']_vars

\* A manifest whose rules take folders whole: what it excludes, with all there
\* is below, and no probe by its name; and an override to another zone names its
\* way to a folder that is in no Private one, or is the first one.  (With
\* `private/*` excluded, or an override for a folder in a Private one, the probe
\* says nothing of the rest.)
Below(glob) == glob # <<>> /\ Last(glob) = "**" /\ PROBE \notin ToSet(glob)
Named(glob) ==
  \A i \in 1 .. Len(glob) - 1 : /\ glob[i] \notin {"*", "**"}
                                /\ glob[i] = "private" => i = Len(glob) - 1
WholeFolders(m) ==
  /\ \A i \in DOMAIN m.zones["excluded"] : Below(m.zones["excluded"][i])
  /\ \A i \in DOMAIN m.overrides :
       /\ Below(m.overrides[i].glob)
       /\ m.overrides[i].zone # "excluded" => Named(m.overrides[i].glob)

\* Doctor passes only vaults whose Private folders are excluded, at every depth
\* although it probes one path in each (doctor.ts:286: "assert every filesystem
\* folder the human means to keep Private actually resolves to the `excluded`
\* zone under the CURRENT manifest"); and when it has and nobody has edited the
\* manifest setup wrote, so are those made since.
CleanBillLasts ==
  [][/\ report' # report /\ report' \in {"all excluded", "none present"}
        /\ WholeFolders(manifest') => Shielded(manifest)'
     /\ report' = "all excluded" /\ edits' = 0 => Shielded(manifest)']_vars

-----------------------------------------------------------------------------
\* The rules of a list that match a note and are not beaten by another.
Winners(rules, path) ==
  {i \in DOMAIN rules :
     /\ Matches(rules[i].glob, path)
     /\ \A j \in DOMAIN rules :
          Matches(rules[j].glob, path) => Specificity(rules[i].glob) >= Specificity(rules[j].glob)}

\* A base zone no glob of which is beaten by one of any base zone.
BaseZones == {"scratch", "agent", "trusted"}
Wins(zone, path, m) ==
  \E i \in DOMAIN m.zones[zone] :
    /\ Matches(m.zones[zone][i], path)
    /\ \A z \in BaseZones : \A j \in DOMAIN m.zones[z] :
         Matches(m.zones[z][j], path) => Specificity(m.zones[zone][i]) >= Specificity(m.zones[z][j])

\* The zone of a note, as the comments of zones.ts state it: an excluded glob
\* wins; then the overrides, the first of the most specific; then the base
\* zones, where a tie goes to scratch, then agent, then trusted, in whatever
\* order the manifest lists them; and trusted if nothing matches.
ZoneByTheBook(path, m) ==
  LET first == CHOOSE i \in Winners(m.overrides, path) : \A j \in Winners(m.overrides, path) : i <= j
  IN CASE path[1] \in {".ledger", ".git", ".obsidian"} -> "excluded"
       [] path[1] \notin {".ledger", ".git", ".obsidian"}
          /\ \E i \in DOMAIN m.zones["excluded"] : Matches(m.zones["excluded"][i], path) -> "excluded"
       [] OTHER -> IF Winners(m.overrides, path) # {} THEN m.overrides[first].zone
                   ELSE IF Wins("scratch", path, m) THEN "scratch"
                   ELSE IF Wins("agent", path, m) THEN "agent" ELSE "trusted"

\* Every note's zone is the one the rules give it, with overlapping globs, ties
\* and overrides (resolveZone's two passes).
ZoneIsByTheBook ==
  \A f \in folders \cup {<<>>, <<".ledger">>} :
    ResolveZone(Append(f, "note.md"), manifest) = ZoneByTheBook(Append(f, "note.md"), manifest)
=============================================================================
