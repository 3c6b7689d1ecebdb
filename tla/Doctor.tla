------------------------------- MODULE Doctor -------------------------------
(* `ledger doctor`: the checks in their order against a vault and its        *)
(* machine, the writers at work meanwhile, and the person who then follows   *)
(* the remediation each bad check names and runs doctor again.               *)
EXTENDS Naturals, Sequences

CONSTANT
  Worlds            \* what a behaviour starts with, and its bound

\* What there is to look at: the vault, the install, what a host left behind.
Conditions ==
  [config : {"valid", "missing", "corrupt"}, permissions : {"valid", "missing", "corrupt"},
   exposed : BOOLEAN, native : BOOLEAN, mcp : BOOLEAN, cli : Nat, server : Nat, node : Nat,
   gitWorks : BOOLEAN, repo : BOOLEAN, dups : BOOLEAN,
   journal : {"absent", "empty", "whole", "corrupt"}, lock : {"free", "fresh", "stale"},
   bridge : {"none", "live", "dead", "malformed"}, plugin : {"none", "current", "outdated"}]

\* A world: the vault and install doctor is run on, whether it is run with
\* --strict, whether the person does what the report says (the command it
\* names first, or the edit it gives as the other way), and how many steps other
\* processes make meanwhile.
Followers == {"nobody", "commands", "edits"}

ASSUME WorldsAssumption ==
  \A w \in Worlds :
    w.world \in Conditions /\ w.strict \in BOOLEAN /\ w.follows \in Followers /\ w.writes \in Nat

VARIABLES
  world,            \* what there is to look at
  pc,               \* the check being made, or "idle", "done"
  results,          \* the status of each check so far
  lockLive,         \* LockCheck.live
  copy,             \* the probe's copy of the journal: "none", "clean", "torn"
  followed,         \* the check whose remediation was followed last
  left              \* how doctor is used, whether alone, and the writes that remain
vars == <<world, pc, results, lockLive, copy, followed, left>>

\* The order in which runDoctor makes the checks; the journal's is two steps,
\* the copying of journal.db and the copying of its sidecars.
Order == <<"config", "permissions", "native-deps", "git", "mcp", "versions", "sync-artifacts",
           "zone-integrity", "lock", "copy", "journal", "bridge", "plugin">>
Steps == {Order[i] : i \in DOMAIN Order}
Checks == Steps \ {"copy"}

Place(c) == CHOOSE i \in DOMAIN Order : Order[i] = c
After(c) == IF Place(c) = Len(Order) THEN "done" ELSE Order[Place(c) + 1]

VaultDependent == {"permissions", "zone-integrity", "lock", "copy", "journal", "bridge", "plugin"}

NotRun == [c \in Checks |-> "none"]

-----------------------------------------------------------------------------
(* the checks                                                               *)

\* engines.node, clause by clause.
Engines == <<[op |-> ">=", bound |-> 20]>>

NodeInEnginesRange(major) ==
  \A n \in DOMAIN Engines :
    CASE Engines[n].op = ">"  -> major > Engines[n].bound
      [] Engines[n].op = "<=" -> major <= Engines[n].bound
      [] Engines[n].op = "<"  -> major < Engines[n].bound
      [] OTHER                -> major >= Engines[n].bound

\* checkVersions: the server's version is read through its entry point.
CompareVersions ==
  CASE ~world.mcp \/ world.cli # world.server -> "warn"
    [] world.mcp /\ world.cli = world.server -> IF NodeInEnginesRange(world.node) THEN "info" ELSE "warn"

MapGitProbe == IF world.gitWorks /\ world.repo THEN "ok" ELSE "fail"

\* The copy is opened with the native dependency: without it, it cannot be read.
MapJournalProbe ==
  CASE world.journal = "absent" -> "warn"
    [] world.journal = "whole" /\ world.native /\ copy # "torn" -> "ok"
    [] OTHER -> IF lockLive THEN "info" ELSE "warn"

\* Mutant: a discovery file that does not parse is read as none.
CheckBridgeLeniently == IF world.bridge = "dead" THEN "warn" ELSE IF world.bridge = "live" THEN "ok" ELSE "info"
CheckBridge ==
  CASE world.bridge = "none" -> "info"
    [] world.bridge = "live" -> "ok"
    [] world.bridge \in {"dead", "malformed"} -> "warn"

MapPluginFreshness ==
  CASE world.plugin = "none" -> "info"
    [] world.plugin = "current" -> "ok"
    [] world.plugin = "outdated" -> "warn"

\* The cascade: no vault id, or no manifest to probe the zones with.
Skipped(c) ==
  \/ c \in VaultDependent /\ results["config"] = "fail"
  \/ c = "zone-integrity" /\ results["permissions"] = "fail"

\* What a check finds in the world as it is.
Found(c) ==
  CASE c = "config" -> IF world.config = "valid" THEN "ok" ELSE "fail"
    [] c = "permissions" -> IF world.permissions = "valid" THEN "ok" ELSE "fail"
    [] c = "native-deps" -> IF world.native THEN "ok" ELSE "fail"
    [] c = "git" -> MapGitProbe
    [] c = "mcp" -> IF world.mcp THEN "ok" ELSE "fail"
    [] c = "versions" -> CompareVersions
    [] c = "sync-artifacts" -> IF world.dups THEN "warn" ELSE "ok"
    [] c = "zone-integrity" -> IF world.exposed THEN "fail" ELSE "ok"
    [] c = "lock" -> IF world.lock = "stale" THEN "warn" ELSE "ok"
    [] c = "journal" -> MapJournalProbe
    [] c = "bridge" -> CheckBridge
    [] c = "plugin" -> MapPluginFreshness

\* runDoctor makes its next check.
Check ==
  /\ pc \in Checks
  /\ results' = [results EXCEPT ![pc] = IF Skipped(pc) THEN "skipped" ELSE Found(pc)]
  /\ lockLive' = IF pc = "lock" THEN ~Skipped(pc) /\ world.lock = "fresh" ELSE lockLive
  /\ pc' = After(pc)
  /\ UNCHANGED <<world, copy, followed, left>>

\* probeJournal copies journal.db; the sidecars follow in the journal check.
CopyJournal ==
  /\ pc = "copy"
  /\ copy' = IF world.journal = "absent" \/ Skipped(pc) THEN "none" ELSE "clean"
  /\ pc' = "journal"
  /\ UNCHANGED <<world, results, lockLive, followed, left>>

Begin ==
  /\ pc = "idle"
  /\ pc' = "config" /\ results' = NotRun /\ copy' = "none" /\ lockLive' = FALSE
  /\ followed' = "none"
  /\ UNCHANGED <<world, left>>

DeriveExitCode ==
  IF \E c \in Checks : results[c] = "fail" \/ (left.strict /\ results[c] = "warn") THEN 1 ELSE 0

-----------------------------------------------------------------------------
(* the other processes                                                      *)

\* A write under a probe's copying may leave the copy torn.
Touch ==
  /\ world.journal # "absent"
  /\ copy' \in IF pc = "journal" /\ copy = "clean" THEN {"clean", "torn"} ELSE {copy}

Writing == left.writes > 0 /\ left' = [left EXCEPT !.writes = @ - 1]

\* A broker takes the vault lock (a stale one is stolen), writes, lets it go;
\* a crash leaves it, and it grows old.
TakeLock == /\ Writing /\ world.lock # "fresh"
            /\ world' = [world EXCEPT !.lock = "fresh"]
            /\ UNCHANGED <<pc, results, lockLive, copy, followed>>
WriteLocked == Writing /\ world.lock = "fresh" /\ Touch
               /\ UNCHANGED <<world, pc, results, lockLive, followed>>
DropLock == /\ Writing /\ world.lock = "fresh"
            /\ world' \in {[world EXCEPT !.lock = "free"], [world EXCEPT !.lock = "stale"]}
            /\ UNCHANGED <<pc, results, lockLive, copy, followed>>
\* openVault's migrations, ensureJournal and reindex write without the lock.
WriteUnlocked == Writing /\ Touch /\ UNCHANGED <<world, pc, results, lockLive, followed>>

-----------------------------------------------------------------------------
(* the remediations                                                         *)

\* openVault gets through its guards and opens the journal; it leaves a schema
\* in a file that had none, but a file that is no database throws.
Opens(w) == w.config = "valid" /\ w.permissions = "valid" /\ w.native /\ w.journal # "corrupt"
Opened(w) == IF Opens(w) THEN [w EXCEPT !.journal = "whole"] ELSE w

\* Mutant: no git init.
SetupWithoutGit(w, installPlugin) ==
  IF w.config = "missing"
  THEN [w EXCEPT !.permissions = "valid", !.exposed = FALSE, !.config = "valid",
                 !.journal = "absent", !.lock = "free", !.bridge = "none"]
  ELSE IF w.mcp /\ installPlugin THEN [Opened(w) EXCEPT !.plugin = "current"]
  ELSE IF w.mcp THEN Opened(w) ELSE w
\* `ledger setup`: only a vault without config.json is initialized, git init
\* first and under a new id; the smoke step then opens what there is.
Setup(w, installPlugin) ==
  CASE w.config = "missing" /\ ~w.gitWorks -> w
    [] OTHER ->
         LET inited == IF w.config = "missing"
                       THEN [w EXCEPT !.repo = TRUE, !.permissions = "valid", !.exposed = FALSE,
                                      !.config = "valid", !.journal = "absent",
                                      !.lock = "free", !.bridge = "none"]
                       ELSE w
             smoked == Opened(inited)
         IN IF ~w.mcp THEN inited
            ELSE IF installPlugin THEN [smoked EXCEPT !.plugin = "current"] ELSE smoked

\* `ledger serve`, where no live bridge holds the discovery file.
Serve(w) == IF Opens(w) THEN [Opened(w) EXCEPT !.bridge = "live"] ELSE w

\* What following the remediation of a bad check does to the world. That of an
\* exposed folder is `ledger setup`, which writes the manifest only of a vault
\* it initializes, or a correction of permissions.yaml by hand.
Remedied(c) ==
  CASE c \in {"config", "permissions"} -> Setup(world, FALSE)
    [] c = "git" -> IF world.gitWorks THEN Setup(world, FALSE) ELSE [world EXCEPT !.gitWorks = TRUE]
    [] c = "native-deps" -> [world EXCEPT !.native = TRUE]
    [] c = "mcp" -> [world EXCEPT !.mcp = TRUE, !.server = world.cli]
    [] c = "versions" -> IF ~world.mcp \/ world.cli # world.server
                         THEN [world EXCEPT !.mcp = TRUE, !.server = world.cli]
                         ELSE [world EXCEPT !.node = CHOOSE v \in 18 .. 24 : NodeInEnginesRange(v)]
    [] c = "sync-artifacts" -> [world EXCEPT !.dups = FALSE]
    [] c = "zone-integrity" -> IF left.follows = "edits" THEN [world EXCEPT !.exposed = FALSE]
                               ELSE Setup(world, FALSE)
    [] c = "lock" -> [world EXCEPT !.lock = "free"]
    [] c = "journal" -> Opened(world)
    [] c = "bridge" -> Serve(world)
    [] c = "plugin" -> Setup(world, TRUE)

Bad == {c \in Checks : results[c] \in {"warn", "fail"}}

\* The person works down the report, once for each bad check.
Follow ==
  /\ left.follows # "nobody" /\ pc = "done" /\ Bad # {}
  /\ LET c == CHOOSE b \in Bad : \A d \in Bad : Place(b) <= Place(d)
     IN /\ world' = Remedied(c)
        /\ followed' = c
        /\ results' = [results EXCEPT ![c] = "none"]
  /\ UNCHANGED <<pc, lockLive, copy, left>>

\* When nothing is left to follow, doctor is run again.
Again ==
  /\ left.follows # "nobody" /\ pc = "done" /\ Bad = {} /\ followed # "none"
  /\ pc' = "idle"
  /\ UNCHANGED <<world, results, lockLive, copy, followed, left>>

Init ==
  /\ \E w \in Worlds : /\ world = w.world
                       /\ left = [strict |-> w.strict, follows |-> w.follows,
                               alone |-> w.writes = 0, writes |-> w.writes]
  /\ pc = "idle"
  /\ results = NotRun
  /\ lockLive = FALSE
  /\ copy = "none"
  /\ followed = "none"

Run == Begin \/ Check \/ CopyJournal
Other == TakeLock \/ WriteLocked \/ DropLock \/ WriteUnlocked
Next == Run \/ Other \/ Follow \/ Again

Spec == Init /\ [][Next]_vars
FairSpec == Spec /\ WF_vars(Run) /\ WF_vars(Follow) /\ WF_vars(Again)
=============================================================================
