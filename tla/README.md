# VaultLedger in TLA+

VaultLedger lets agents keep memories in, and propose edits to, a vault of
Markdown notes. Every change goes through a broker that checks zones and hashes,
commits to git and records a row in a SQLite journal; what touches the notes of a
person waits in a queue for their approval; everything can be undone with
`git revert`. Several processes (CLI commands, the MCP server, the HTTP bridge)
do this on the same vault at once, any of them may die at any point, and people
and sync tools edit the files with no lock at all.

This directory models that program: specifications checked with TLC on small
instances, and theorems proved with TLAPS for all of them. Paths below are
relative to `packages/core/src/` unless they name another package.

| module | what it is | runs |
|---|---|---|
| `Broker`, `BrokerProperties`, `MCBroker` | the write path: approvals, lock, apply, git, journal, undo, reconcile | `broker`, `broker_live` |
| `BrokerProofs` | its inductive invariants and theorems | |
| `Memory`, `MemoryProperties`, `MCMemory` | a memory's note and row: store, held operations, undo, TTL sweep, reindex | `memory`, `find_sweep_promoted` |
| `MemoryLife` | the abstract life of a memory's status, which `Memory` implements | `memory` |
| `MemoryProofs` | theorems of `Memory` in all worlds and in calm ones, the refinement among them | |
| `Conflicts`, `ConflictsProperties`, `MCConflicts` | contradiction checks, stale sources, audit, rescan, the conflicts queue | `conflicts` |
| `ConflictsProofs` | its theorems | |
| `Bridge`, `BridgeProperties`, `MCBridge` | `ledger serve`, its HTTP handlers, the Obsidian plugin | `bridge`, `bridge_live` |
| `BridgeProofs` | its theorems | |
| `Startup`, `StartupProperties`, `MCStartup` | `ledger init`, migrations, rebuild and the four ways a host opens a vault | `startup` |
| `StartupProofs` | its theorems | |
| `VaultLock`, `VaultLockProperties`, `MCVaultLock` | the vault lock second by second | `lock`, `find_stolen_twice` |
| `VaultLockProofs` | its invariants and theorems | |
| `Doctor`, `DoctorProperties`, `MCDoctor` | `ledger doctor` beside writers, and following its advice | `doctor` |
| `DoctorProofs` | its theorems | |
| `Policy`, `Governed`, `Patch`, each with its `...Properties` | the gates that need no other process: zones and Private folders, the governed guard, `applyPatch` | |
| `Gates`, `MCGates` | the three composed | `gates` |
| `GatesProofs` | their theorems | |
| `PROJECT.json` | the index: components, runs, map to the code, mutants, findings, hazards, theorems | |

## Inventory

### Write path

**Broker** (`broker/broker.ts`). Keeps nothing of its own; changes the working
tree, git and the journal. `apply(op)` takes the vault lock and dispatches on the
operation: `create`, `revise` (of an existing note or creating one), `propose_*`
(gates, then a row in the approvals table), `delete`, `move`; `archive` is a
separate entry of the memory store. Each operation reads the note, checks its
zone, format, hash and provenance, awaits git (is the note in HEAD? if not,
baseline commit), writes or unlinks, awaits `git commit`, and inserts a row.
*Hard:* every await is a place where a person's edit, a crash or a failing git
can fall; the checks are made several awaits before the commit they justify.
*Correct if:* zones hold in what is committed; what was verified is what the
commit replaced; the row says so.

**Git ledger** (`broker/git.ts`). The history and the index: `commitFile`,
`commitPaths`, `revertCommit`, `fileAtHead`, `listLedgerCommits`. git may refuse
(nothing to commit, unknown pathspec, conflict) or fail.

**Undo** (`broker/undo.ts`). Under the lock: find the row, refuse if reverted,
`git revert`, then in one SQLite transaction mark the row and insert its mirror,
and give the memory the status its note now has.
*Hard:* a crash between the two; a revert after later operations on the same note.
*Correct if:* the mirror row describes the revert commit, and every revert has one.

**Reconcile** (`broker/reconcile.ts`). Every host runs it when it starts, *without
the lock*: rows for `ledger:` commits that have none, then approvals whose operation
has a row are closed. *Hard:* it runs beside brokers that have committed and not
yet recorded. *Correct if:* one row per commit, no false close, and everything owed
is repaired.

**Vault lock** (`concurrency/lock.ts`). `proper-lockfile`: stale after 20 s,
refreshed every 2 s, 50 retries. *Hard:* waiters race for a dead host's lock; a busy
holder refreshes late. *Correct if:* one writer at a time, no live holder robbed, no
waiter giving up on account of the dead.

**Journal** (`journal/journal.ts`, `db.ts`, `probe.ts`). SQLite tables `transactions`,
`approvals`, `memories` with tags, `conflicts`, `memory_relations`. Each statement is
atomic; updates of a state are unconditional; the unique keys are `commit_sha` and a
conflict's pair, kind, fact and value.

**Approvals queue** (`approvals/queue.ts`). `approve(id)` reads the row, requires
`pending`, applies the operation (the lock is taken inside), and *after the lock is
released* sets the state: approved, stale (hash mismatch) or left pending (any other
error). `reject(id)` reads and updates. *Hard:* read before, write after.
*Correct if:* approved means applied, and applied once.

### Memories and conflicts

**Memory store** (`memory/store.ts`). `remember`, `distill`, `revise`, `promote`,
`forget`, `retire`, `setStatus`: each a broker operation followed by journal updates
of the memory's row outside the lock; `forget` is two commits and an update.
*Correct if:* the row's status, the note's frontmatter and the note's place agree,
and a canonical memory changes only with a person's consent.

**TTL sweep** (`memory/ttl.ts`): `forget` of expired scratch memories, one by one,
continuing after failures. **Reindex** (`memory/reindex.ts`): rebuilds memories from
the notes and transactions from git when the journal is lost. **Entity backfill**
(`memory/backfillEntity.ts`): a one-off series of revises. **Memory audit**
(`memory/auditMemories.ts`): looks for edges whose source is dead.

**Conflicts queue** (`conflicts/queue.ts`): `open -> resolved | dismissed`, read then
written by two statements. **Contradiction detection** (`contradiction/*.ts`):
candidates by entity minus lineage, comparison of extracted values, conflict rows
with a unique key; flags on distillations whose sources die or change. All of it runs
after the commit, outside the lock, best effort.
*Correct if:* beliefs that contradict are flagged whichever is written last, and what a
person closed stays closed.

### Hosts

**Host startup** (`host/openVault.ts`, and the loaders of the CLI and the MCP server):
config, permissions, journal with its migrations, rebuild of an empty journal,
reconcile, sweep. **Setup** (`cli`): `init` writes git, permissions, config, in that
order. *Hard:* two hosts migrate or rebuild one file at once, either fails or dies
half-way; a sweep at the start waits for a lock that other hosts hold.
*Correct if:* a host that is up works on a whole, migrated journal.

**HTTP bridge** (`cli/src/commands/serve.ts`, `server`): a discovery file with a port,
a pid and a token; routes to the queue, undo and conflicts. **Obsidian plugin**: finds
the bridge through that file, gives up after five seconds, tries once more.
*Hard:* bridges that die, start twice, rotate tokens; an answer that comes after its
client has given up. *Correct if:* a bridge that serves can be found, and a click lands
at most once.

**Doctor** (`cli/src/commands/doctor.ts`, `journal/probe.ts`): twelve checks, a cascade
of skips, an exit code, and a remediation named for each. *Correct if:* the exit code
is true, and following the advice ends (some of it does not: see the table below).

**CLI**, **MCP server**: map commands and tool calls to the operations above.

### Pure parts

**Zones** (`zones.ts`), **Vault scan** (`scan/scanner.ts`), **Patch, replace and lint**
(`broker/patch.ts`, `replace.ts`, `lint.ts`), **Containment**, **Hash**, **Recall**,
**Read, list and search**, **Schemas, config and errors**: deterministic functions of
their arguments.

### How they interact

    agent -> MCP server -.                     .-> working tree <- people, sync
    person -> CLI --------+-> queue -> broker -+-> git          <- undo
    plugin -> bridge ----'      ^        ^     '-> journal      <- reconcile (no lock)
                            journal   vault lock
    store = broker operation, then statements on the journal, then hooks (conflicts)

A module takes its neighbours in the coarsest form that its own questions allow:
`Memory` makes a locked apply of `Broker` one step, `Conflicts` makes a write of
`Memory` one step, `Broker` makes the lock of `VaultLock` a flag that a death frees,
`Bridge` makes an approval a thing that lands or does not.

## Conventions

- A step is what the code does between two awaits, or between two durable effects that
  a crash can separate. One action is one such step, with everything the code does in it.
- Bounds are counters in the variable `left`; a *world* is a record that says who takes
  part and how much of everything there may be. The constant `Worlds` is the set of
  worlds of a run; `Init` picks one, and the run explores all of them. A world that is
  `calm` is one where a property may expect that nobody dies (each module says exactly
  what). The `MC` modules define the worlds.
- A definition whose comment begins with "Mutant:" stands before the definition it
  is a plausible bug of; `PROJECT.json` says which property it breaks.
- What the repository promises and its code does not keep is a property too, at the
  end of the `...Properties` module, with the promise quoted; the table below names the
  world that refutes each.
- `TypeOK` of each module holds in the worlds of its run; the runs list the properties
  that could be wrong for a reason.

## The modules

### Broker

| variable | in the code |
|---|---|
| `file` | the working tree: a content or `Absent` for every path |
| `log` | the git history: kind, operation and tree of each commit; its last tree is HEAD |
| `txns`, `approvals` | the tables; a commit's sha is its position in `log` |
| `lock` | the vault lock |
| `pc`, `job`, `outcome` | where each host is, and the locals of the request it serves |
| `seen` | what `reconcile` has listed: commits without a row, then pending approvals |
| `left` | the world and what remains of its bounds |

With `approve(id)` of an edit the steps are:

| action | code |
|---|---|
| `Approve` | `queue.ts` `loadPending`: the row is read before any lock |
| `LockVault`, `LockTimeout` | `withVaultLock` |
| `ApplyChange` | `applyRevise` up to its first git await: zone, existence, hash, patch, provenance, in that order |
| `CommitBaseline` | the custody commit of a note git has never seen; the note is read again by git |
| `WriteNote` | `writeContainedFile` |
| `CommitOp` | `git add` and `git commit -- <paths>`: of the bytes *then* in the working tree |
| `RecordTransaction` | the plain INSERT, which throws on a duplicate commit |
| `ReleaseLock` | `finally` |
| `ResolveApproval` | `setApprovalState`, an unconditional UPDATE |

Creations write in the step that checks (nothing is awaited between). A move goes
through `write` and `unlink`; an archive reads, writes and then unlinks. Undo is
`UndoCheck`, `RevertCommit`, `CompensateJournal`. A starting host is `ListCommits`,
`RepairJournal`, `CloseStaleApprovals`. `GitFails` makes any git command fail;
`Crash` can take a host at every step; `HumanEdit` can fall between any two.
`RevertTrees` models what `git revert` does with whole notes: a three-way merge of
the commit (base), its parent (theirs) and HEAD (ours) that follows exact renames,
including a rename of the reverted note made later; it was written after observing
git on each case.

*Abstractions.* A note's bytes are an element of a set; the hash of a note is the note.
A patch is the content it yields from the bytes it expects, or `Unappliable`. The
governed part of a frontmatter is a function of the content. `resolveZone` is the
constant `Zone`. git's index is identified with HEAD; similarity renames and merges
within a note are left out, exact renames and whole-note merges are not. After a
successful commit, `rev-parse` and the INSERT do not fail by themselves (a crash at the
same place is modelled). `newfile` is the branch of `applyRevise` that creates a note;
the ledger operation of an archive is `forget`; `StatusFlips` are the internal revisions
of the memory store. A dead host's lock is free at
once, since waiters outlast it (`VaultLock`). Proposals of a wrong shape and brokers
opened with `UNSAFE_NO_LOCK` are left out.

### Memory and MemoryLife

A memory is a note (`note`: place, status, body), its history (`commits`), its row
(`rows`) and the approvals about it (`held`). Each store operation is a request
(`Promote`, `Forget`, `Retire`, `Revise`: the row is read and the patch made before the
lock), the locked applies (`ApplyPatch`, `ArchiveNote`, `CreateNote`), and then, one
statement a step, `LinkTransaction`, `InsertRow`, `MirrorRow`. `forget` is thus two
commits and an update with other hosts and a death between any of them. An operation on
a canonical memory goes to `held`; `Approve` starts it again from the row as it is then,
and `ResolveApproval` maps its error as `runDispatch` does. `SweepList` and `SweepNext`
are the TTL sweep, `UndoStart`, `UndoRevert`, `CompensateJournal` the undo of a
transaction or a session under one lock, `StartReindex`, `ParseNote`, `UpsertMemory`,
`ReplayCommits` the reindex, which an empty journal starts by itself.

`MemoryLife` says what all that is for: a memory is created as scratch, becomes working,
canonical with consent, is retired or forgotten, and undo only goes back to a status it
has had. Under the mapping in `MemoryProperties` (`Life`: the status each note declares,
those it had, the forgotten ones brought back) every step of a calm world of `Memory` is
a step of `MemoryLife` or a stutter: `ImplementsLife`.

*Abstractions.* The working tree is HEAD: people's edits are `Broker`'s subject. Every
operation is of one session. Which memory is old enough to be swept is a choice.
Duplicate ids in both directories are left out.

### Conflicts

A memory has a status, a text (a fact of some type and a claim or its negation) and the
sources it cites. All are of one entity. A write is one step; the hook that follows
(`Check`, `FlagCitingDistillations`, `CheckSourceStaleness`) is another. `Detect` is
`HeuristicDetector`, `Lineage(m)` the least set with `m` that is closed under `Supersedes`
both ways (the code's walk over `supersedes` until nothing is new), `Inserted` the insert that
a unique key turns into nothing. A person's `resolve` and `dismiss` are `TransitionRead`
and `TransitionWrite`. `AuditStart` reads the edges and `AuditEdge` takes one a step;
`RescanMemory` is `ledger conflicts --rescan`. `Rebuild` is the loss of the journal and
its reindex. Extraction of values from text is abstract.

### Bridge

`disc` is the discovery file, `srv` each serve process, `item` the journal's row of each
thing a person can decide, `view`, `task` and `reqs` the plugin. `ServeStart`, `Listen`,
`Publish` are `ledger serve`; `Stop`, `ReadOwnFile`, `Unlink` its close. A request
is turned down by `Guard` or `Admitted` (the token; the host checks are left out, the
plugin being local), then served in the steps between the awaits of its handler:
`LoadPending`, `ApplyHeld`, `MarkApproved` for an approval. The client's steps are
discovery, the request, `TimedOut` or `Disconnected`, one retry with a new discovery,
`Render` and `Notify`. A pid may be taken by an unrelated process (`PidTaken`).

### Startup

`vault` is what `init` leaves (git, permissions, config), `journal` the tables, columns,
indexes and rows that the migrations are about, `host` the stage of each opening host. A
stage is one autocommitted statement, or the look and the ALTER of a migration; the
tuples `OpenVault`, `LoadServerContext` and `LoadContext` are the stages of the four
loaders in the order of the code. Journals of earlier builds (`Legacy`) are where the
migrations start. The reindex takes each note in two statements, `LookForMemory` and then
`InsertMemory` or `UpdateMemory`: of two hosts that rebuild one journal, the INSERT that comes
second throws and its host's open fails (`Refuse`). `Sweep` lists the expired scratch;
for each note of the list the host takes the vault lock (`LockVault`), which hosts that are
up use too (`Work`, `Release`) and may keep for ever, or its retries run out
(`LockTimesOut`) and the sweep goes on to the next; a lock whose holder died is `Dead` and can
be taken. Which notes are expired, and what forgetting does, is `Memory`.

### VaultLock

A directory with an owner and an age, and hosts that create it, find it, find it stale,
remove it and create their own (`Try`, `RemoveStale`, `TryAgain`: two calls, with others
between), refresh it, release it or die. One `Tick` is a second; it waits for a refresh
that is due, which may be late by `Block` (a synchronous SQLite or file call that
keeps timers from firing; `busy_timeout` is 5 s). proper-lockfile 4.1.2 is external and
modelled from how `lock.ts` uses it. A machine that sleeps is not modelled.

### Doctor

`world` is what there is to look at, `results` the report. `Check` makes the next of
twelve checks or skips it (`Skipped` is the cascade); the journal's is two steps, its
file and its sidecars, so that a writer can tear the copy. Others take the lock, write,
die, or write without it. `Follow` does what the first bad check says (`Remedied`, which
runs `Setup`, `Serve` or what the text tells a person to do), `Again` runs doctor again.
The remediation for an exposed folder names two things, `ledger setup <vault>` or an edit of
permissions.yaml. `left.follows` says which a person takes: `commands` runs `Setup`, which
leaves the manifest of an initialised vault alone, `edits` changes the file.

### Policy, Governed, Patch

*Policy*: `ResolveZone` with globs as sequences of segments, names folded to one case;
`Setup` proposes the manifest from the walk of the folders and checks it; `Doctor`
probes; people make folders and edit the manifest.

*Governed*: frontmatter as a graph (YAML anchors share and close cycles), and the
comparison of two of them call by call: `calls` is the stack of `canonicalEqualInner`,
each with the keys it has not yet compared, `equal` its `trueCache`. `Revise` runs the
guards up to the first call that has children, `CompareChild` takes the next key,
`Return` remembers the pair. A difference makes every caller return, so that the
`falseCache` is never read and is left out. `cached` are the texts that gray-matter
has seen and did not parse. A node is a list, a map or a date: js-yaml makes an unquoted
timestamp a `Date`, an object that keeps its instant under no key, so that the code goes
into two of them, finds no key that differs and calls them equal (`SameShape`). Of
scalars, `NaN` is not even equal to itself (`Identical`). Left out are a revise to the very
same text, which is compared with itself, and `!!binary` values.

*Patch*: jsdiff's search comparison by comparison, because `deriveHunkLandings` sees
nothing else of it; `CompareLine` is the observer, `CheckLandings` the verdict. Hunks
whose header names a line beyond the note while they compare nothing are left out
(`InNote`): jsdiff pads there.

`Gates` composes the three: a behaviour is one of one of them. What it assumes is that the
names the code knows (the tools' folders, the wildcards, `private`, the probe's file)
are segments, that frontmatters are graphs over the given nodes and scalars, and that
an added line says what no line of the note says. Loops of the code are recursive
*functions* (`Best`, `Said`, `Edited`), never RECURSIVE operators, so that `GatesProofs`
can speak of them.

## Checked with TLC

Each run explores every world of its `MC` module (sizes are distinct states).

| run | asks | states |
|---|---|---|
| `broker` | `GovernedKept`, `RowsTellTheTruth`, `AppliedOnce`, `OneRowPerCommit`, `NoFalseClose`, `NothingUnrecorded`, `ZonesRespected`, `UndoMirrors` | 715 k, up to symmetry |
| `broker_live` | `ApprovalsClose` | 46 k |
| `memory` | `ApprovedMeansLanded`, `RowMirrorsNote`, `NobodyStuck`, `CanonicalGate`, `ImplementsLife`, `ReindexHeals` | 772 k |
| `conflicts` | `ContradictionFlagged`, `RelationsTellCitations`, `ClosedStaysClosed`, `DeathFlagged`, `SweepsFind` | 1.5 M |
| `bridge` | `ServingIsPublished`, `AtMostOnce`, `RevokedRefused`, `TokenKept` | 1.2 M |
| `bridge_live` | `GestureEnds` | 133 k |
| `startup` | `UpIsMigrated`, `QuietIsWhole`, `ConfigComesLast`, `OpenEnds` | 195 k |
| `lock` | `ExclusiveWithoutDeath`, `OutlastsTheDead`, `NeverDeclaredDead`, `CallsEnd` | 81 k |
| `doctor` | `VerdictIsTrue`, `Converges` | 95 k |
| `gates` | `ZoneIsByTheBook`, `GuardIsExact`, `AppliedAsDeclared`, `ProposedIsSafe`, `CleanBillLasts` | 2.3 M |
| `find_sweep_promoted` | violates `SweepOnlyScratch` | |
| `find_stolen_twice` | violates `MutualExclusion` | |

### Worlds and bounds

**broker.** Two hosts; a person's note that git has never seen, an agent's tracked note, a
scratch place that is empty, an excluded note; two approvals. *race*: two requests of
any kind and an undo, so that two decisions, or a decision and an undo, overlap anywhere.
*waiting*: three requests, so that a note is created, changed or restored while the
approval to delete or move it waits, or both hosts approve it. *dying*: both hosts die,
or one dies again while it repairs; a git command fails. *people*: an edit or a deletion
by a person between any two steps. *undone*: two undos, undo of an undo, of edits,
creations and deletions.

**memory.** *Race*: two hosts, four requests, one held, an undo, a sweep and a death on one
memory. *Calm*: one host, six requests, two held, two undos, two bodies: the longest
stories of one memory. *Rebuild*: two memories, a death, a lost journal, a reindex.

**conflicts.** *Race*: two hosts write next to two live memories whose texts contradict,
agree or are not understood, while a person closes rows. *Calm*: one host distills from
two memories, undoes, rebuilds. *Scanned*: hooks lost to a death, a promotion or a
rebuild, then an audit or a rescan. *Gone*: a source whose creation was undone, and its
row lost.

**bridge.** *Serve*: three processes, two deaths, one pid reused, two ports. *Clicks*: two
gestures at a time on a held edit, three in all, two timeouts, the note moves.
*Restart*: a bridge dies and another takes over while a creation, a transaction or a
conflict is acted on.

**startup.** *Upgrade*: two hosts and a death on a journal of either earlier build. *Alone*:
one host, three deaths. *Calm*: nobody dies, the journal is lost, two hosts rebuild it
and sweep beside each other. *Fresh*: three inits, two
deaths, a damaged file.

**lock.** Three hosts (two waiters race), `Stale` 3, `Update` 1, `Block` 1, `Patience` 5, one
death. The values keep the order of the real ones (20, 2, at most 5, 44 tries of a second:
`RetriesAssumption` computes the sum of the pauses); the theorems are for all of them.

**doctor.** Every combination of the faults of a vault, and of an install; one strict run on
each; those that a remediation repairs, by the commands it names or with permissions.yaml
edited too, with doctor run until it is clean; and four steps of writers beside a plain run.

**gates.** Vaults of three names, folders three deep, two edits of the manifest, among them
overlapping globs of equal specificity; every graph of two nodes with two keys, before
and after a revise, and two revises in one process, also of ledgers that are or hold one of
two dates, an empty map or list, or a NaN; every patch of two hunks of two
lines on every note of up to four lines of two texts.

**Why these are enough.** A race needs two actors and one operation between two steps of
another; every world gives at least that, and a third actor or request where a retry, an
undo or a repair has to fall into it. Histories are as long as the longest chain that the
code tells apart (forget, bring back, forget again; conflict, close, undo, find again).

### Conditions in the properties

Some properties are asked only where the code can keep them; the condition is in their
definition, and what lies beyond it is in the table below.

- `RowsTellTheTruth` where nothing but the ledger leaves uncommitted bytes (no person, no
  death, no failing git): the commit takes what is in the file.
- `AppliedOnce` excepts what another operation or an undo restored to the very bytes that
  were approved.
- `UndoMirrors` where no bytes take another name: git follows them.
- `RowMirrorsNote`, `CanonicalGate`, `ImplementsLife`: whole in calm worlds (one host, no
  death, the journal kept); elsewhere a row is never ahead of its note. Forgotten memories
  brought back are excepted.
- `ContradictionFlagged` where there are only writes; `DeathFlagged` and
  `RelationsTellCitations` in calm worlds; what the rest lets slip, `SweepsFind`.
- `ServingIsPublished` and `TokenKept` in worlds where serves are started one at a time
  (`left.serial`); the run has one where two overlap.
- `QuietIsWhole` in calm worlds, of the hosts that are up: a host may have failed.
- `GuardIsExact` compares up to dates: one date is as good as another or as an empty map, for
  the code and for the property; and its second half speaks of notes that parse where the
  one there was holds no NaN.
- `Converges` in worlds whose faults a remediation repairs (`Repairable` in `MCDoctor`): of an
  initialised vault with an exposed folder, only where permissions.yaml is edited.
- `ReindexHeals` of a reindex that no death interrupts, `SweepsFind` of a sweep that runs to
  its end, both where there is no other host.
- The first half of `CleanBillLasts` where the manifest takes folders whole
  (`WholeFolders`): every excluded glob ends in `**` and does not name the probe, and an
  override to another zone names its way to a folder that is in no Private one. Doctor
  asks for one path in each Private folder; with `private/*` excluded, or a folder inside
  a Private one overridden, that path says nothing of the rest. The second half, of the
  manifest that setup wrote, has no condition.
- `VerdictIsTrue` with `--strict` says exit 0 exactly if nothing is wrong, where nobody
  writes meanwhile and no lock is fresh; without it, that writers make no run fail.

### Fairness

- `broker_live`: per host, weak fairness of `Serve \/ Reconcile`: a process that runs keeps
  running its straight-line code, and one that went down is started again some day.
- `bridge_live`: weak fairness of each handler and of each client's next step: a handler
  that has the request answers, and the client sees the answer or the connection gone.
  The client's timer need not fire, and nothing is asked of people or of serve.
- `startup`: weak fairness of each opening host and of an `init` under way, the running out
  of its lock retries being one of its steps; nobody has to start or close one, and a host
  that is up need never release the lock.
- `lock`: the clock ticks again and again (`[]<><<Tick>>_vars`) and a host with something to
  do gets its turn within its second; nothing is asked of `fn` or of the release.
- `doctor`: a run goes on, and in the worlds where the person follows the advice, they do
  so until the report is clean.

### What the repository says and the code does not keep

Two of these are runs, with the line they contradict quoted in `PROJECT.json`:
a memory promoted after the sweep has listed it is forgotten as expired
(`find_sweep_promoted`); two waiters take over one dead lock, and both write the vault
(`find_stolen_twice`).

The others are properties with the promise quoted above them. To see one fail, run the
component's module with its `.cfg`, the world given here as `Worlds` and that property
alone.

| property | world | what happens |
|---|---|---|
| `PreImageInCustody` | `Edited` | a tracked note with uncommitted edits gets no baseline commit; undo restores older bytes |
| `FreshCommit` | `OneDeath` | a starting host records another's commit first; the INSERT throws, an operation that landed is reported as failed |
| `DecisionsStand` | `TwoDeciders` | two hosts decide one approval, the second overwrites the first |
| `EveryMutationAttributable` | `OneDeath` | death, or a failing commit, after the write: a change without commit or row |
| `RevertsJournaled` | `UndoDies` | death between `git revert` and the compensation: the revert never gets a row |
| `EveryUndoMirrors` | `Moved` | undo of an edit whose note was moved rewrites it under its new name; the row names the old one |
| `PromotionNeverRevives` | `Held` | a held promotion makes a retired memory canonical |
| `GateAgainstRaces` | `Held` | a retirement asked for while the row says working lands on a note that is canonical |
| `RestoredIsRecalled` | `Undone` | a forgotten note brought back by undo keeps a row that says reverted |
| `ReapproveResolves` | `Reapproved` | a death after forget's second commit: approving again finds no note, and stays pending |
| `RebuiltKnowsReverts` | `Undone` | a rebuilt journal has the reverted commits as applied |
| `RebuiltUndoneNewestFirst` | `Undone` | a rebuilt session is undone in another order |
| `GoneIsNotRecalled` | `Ghost` | a death in a creation or in its undo leaves a memory in recall whose note is gone |
| `PromotedIsChecked` | `Promoted` | a promotion to canonical is not checked for contradictions |
| `TerminalStaysTerminal` | `Closed` | resolve and dismiss at once: the second overwrites the first |
| `CitationsGoWithTheNote` | `Distilled` | undo of a distillation between its commit and its edges: they dangle |
| `CitesWhatExists` | `Distilled` | a source is forgotten between the check and the distillation |
| `RevisedSourceIsShown` | `AllWorlds` | the flag of a revised source is a row that the list filters out |
| `OneBridge` | `AtOnce` | two serves started together both serve |
| `RefusedMeansServing` | `Reused` | a pid that an unrelated process took keeps serve from starting |
| `TokenReused` | `Stopped` | an orderly stop removes the file, the next start mints a token |
| `TokenRediscovered` | `Stopped` | a click refused for its token is not tried again with the new one |
| `StaleDidNotLand` | `AllWorlds` | a retried approval finds its own landing, and is marked stale |
| `UnavailableIsShown` | `AllWorlds` | a view without a bridge stays at "loading" |
| `ListedOnce` | `AllWorlds` | two refreshes append to one list |
| `OpenNeverFails` | `TwoOpen` | of two hosts migrating one journal the second fails on the column or the key |
| `DoubleRunIsHarmless` | `TwoRebuild` | of two hosts rebuilding one journal the second INSERT of a note throws, and that host does not open (reindex.ts:336-339 says a double run is harmless) |
| `InitRepairs` | `Damaged` | permissions that are there but do not parse are not repaired |
| `OneCommandFixes` | `NoRepo`, `NoPermissions`, `CorruptConfig`, `CorruptJournal`, `ExposedFolder` | the command that is named does not repair these; setup never rewrites the manifest of an initialised vault, so a folder it exposes stays exposed (doctor.ts:311) |
| `BusyNotCorrupt` | `Migrating` | a writer without the lock makes the copy look corrupt |
| `GuardSeesDates` | as in `Gates.cfg` | a date in the ledger block becomes another one, or an empty map, and the guard sees no change |
| `UnchangedPasses` | as in `Gates.cfg` | a ledger block with a NaN is refused although nothing changed (lint.ts:142-145 says so) |
| `CorruptStaysOut` | as in `Gates.cfg` | gray-matter caches a text before parsing it: a revise refused as corrupt passes when sent again |

## Proved with TLAPS

The theorems hold for *every* set of hosts, notes, memories, facts, ports and requests, and
for every set of worlds, from the assumptions on the constants that each module names.
Every safety invariant and action property of the runs is among them but those listed at
the end of this section. The conditions of the properties (above) are in the properties
themselves, so that a theorem has no hypothesis of its own.

None of the properties is inductive: each speaks of the end of an operation whose
grounds were laid many steps earlier, by a host that others have interrupted since. The
invariants below say what a host may rely on at each step in between; TLC checked
each of them on the worlds of its run before it was proved.

### Write path

`BrokerProofs`, from the assumptions of `Broker`: zones are zones, the special values are
not contents, proposals have the shape the schemas give them, status flips are of agent
notes.

| theorem | says |
|---|---|
| `Types` | `TypeOK`; a rejected patch never reaches a file or a commit |
| `OneRow` | `OneRowPerCommit` |
| `NoFalseCloses` | `NoFalseClose` |
| `NothingLost` | `NothingUnrecorded` |
| `Zones` | `ZonesRespected`, with people editing and hosts dying at will |
| `ApprovalsKeepProvenance` | `GovernedKept` |
| `RowsAreTrue` | `RowsTellTheTruth` |
| `OncePerApproval` | `AppliedOnce` |
| `UndosAreMirrors` | `UndoMirrors` |

The first five follow together from `IInv`:

- `LockInv`: only the holder of the lock is past it. Needed because `record` and
  `compensate` speak of *the last* commit.
- `JobInv`: what a request is; an undo has a target with a row and no approval; delete
  and move always carry an approval (no agent can submit them directly); internal
  flips touch agent notes only.
- `ClearedInv`: past the gates, both paths of an operation are not excluded, trusted
  only with an approval, and the patch applies. It carries the gate's verdict to
  the commit.
- `HistoryInv`: rows name commits of the history; what a starting host has listed are
  ledger commits; a host about to record or compensate knows what the last commit is.
- `ApprovalInv`: a row with an approval id, and a host that was told "ok", have their
  commit in the history; the operation of an approval was proposed.
- `ExcludedUntouched` and `TrustedApproved`: the zones in terms of the first tree, so
  that a revert (whose three trees then agree on an excluded note) preserves them:
  lemma `RevertLeaves`.

The last four are about bytes, and follow from `HInv` beside it. `AlwaysInv` carries the
verdict on provenance from the gate to the commit and the row. `CleanInv` is for worlds
that leave nothing uncommitted: HEAD then differs from the working tree only in notes git
has never seen and, for the length of one step, in the note of the one host that is about
to commit (`TreeInv`), so what that host verified under the lock is what HEAD holds
(`ReadyInv`), and a commit made for an approval replaced what was approved against
(`AppliedInv`). Two commits for one approval thus need the old bytes back in between: that
is `AppliedOnce`. `MirrorInv` adds, where git has no rename to follow, that a commit changes
one note, the one of its row; a revert that succeeds then gives that note what the row
has as its before, whatever was committed in between.

The step lemmas (`TypeStep`, `LockStep`, `JobStep`, `ClearedStep`, `HistoryStep`, ...) each
take one part through all actions; the lemmas between them say where a commit
(`NewCommit`, `LogGrows`), a row (`NewRows`, `Compensation`, `RowsKept`) or a closed
approval (`ApprovalSteps`, `ApprovedWhy`) can come from.

### Vault lock

`VaultLockProofs`, for any hosts, deaths and values of `LOCK_OPTS` with
`Update + Block <= Stale` (`LockOptsAssumption`):

| theorem | says |
|---|---|
| `TypeCorrect` | `TypeOK`: in particular an age never passes what is told apart |
| `Exclusive` | `ExclusiveWithoutDeath` |
| `OnlyTheDeadGoStale` | `NeverDeclaredDead` |
| `DeathsAreBounded` | `DeathCostsStale`: a death costs a waiter at most `Stale + 1` tries |
| `PatienceOutlasts` | `OutlastsTheDead`, if `(Stale + 1) * MaxDeaths < Patience` |

`OwnerInv` says that a lock owned by a host is held by it and exactly as old as its timer,
and that before the first death nobody is about to remove one; `NeverDeclaredDead` is
then arithmetic on `Update + Block`. `DebtInv` is what makes the bound inductive: while
a dead lock stands, the tries it has cost and those it will still cost, until its age
passes `Stale`, stay within one allowance per death. With the real numbers the premise of
`PatienceOutlasts` is 21 per death against 44: two deaths within one call.

### Memories

`MemoryProofs` holds in any world: hosts race, die and lose the journal.

| theorem | says |
|---|---|
| `Types` | `TypeOK` |
| `RowsFollow` | `RowNeverAhead`: a row never says what no commit of its note ever had |
| `ApprovalsLanded` | `ApprovedMeansLanded` |
| `Heals` | `ReindexHeals` |

`IInv` ties what a host has in hand to the history (`JobInv`: at `mirror` the status it is
about to write was committed, at `resolve` the operation it reports landed, a served
approval is the one that was dispatched), and the history to itself (`HistoryInv`: a note,
and every pre-image a commit recorded, is what some commit made of it, so that undo can
only bring back what there has been; what lies in the archive was forgotten).
`Heals` needs `WalkInv`: of the notes a reindex has been through, in the order in which it lists
them, every one has its true row. That such an order exists is the least-number lemma
at the head of the module, from well-founded induction on numbers.

The second half of the module is about calm worlds: one host, no death, the journal kept,
any number of memories and requests.

| theorem | says |
|---|---|
| `RowsMirror` | `RowMirrorsNote` |
| `GateKept` | `CanonicalGate` |
| `Implements` | `ImplementsLife`, the step simulation: every step of `Memory` is one of `MemoryLife` or a stutter |

There is one host to speak of, with its step and its locals, and `CalmAll` says for
each step by how much rows may be behind notes (`Behind`: before `archive` and `mirror`, while
a flip is being linked, before a compensation), what the host read and may still
rely on (`CalmAt`), that notes are born as scratch and what is archived was forgotten
or brought back (`Lasting`). The refinement mapping is `Life`; the simulation has
one step per kind of change (`ChangeByCreate`, `ChangeByFlip`, `ChangeByArchive`,
`ChangeByUndo`), all others stutter.

### Conflicts

`ConflictsProofs`:

| theorem | says |
|---|---|
| `Types` | `TypeOK` |
| `ClosedForGood` | `ClosedStaysClosed`, in any world |
| `NothingUnsaid` | `ContradictionFlagged`, for any number of hosts that write |
| `EdgesAreCitations` | `RelationsTellCitations` |
| `DeathsAreFlagged` | `DeathFlagged` |
| `SweepsAreComplete` | `SweepsFind` |

`SaidInv` says that a contradiction without its row is one a host is about to check, *from
either side*. It is inductive because the check is symmetric: whichever of the two
memories is checked, the other is in its comparison set and the same key results. For
lineage that takes the lemma `LineageIsMutual`: the complement of a closed set is closed,
so `p` is in the lineage of `m` exactly if `m` is in that of `p`. `CalmInv` says that an edge
missing from the journal is one the only host is about to add; `SweepInv`, what a sweep has
left behind it: every edge, or every pair of memories, that it has been through is settled.

### Bridge, startup, doctor

| module | theorem | says |
|---|---|---|
| `BridgeProofs` | `Types` | `TypeOK`: also, no bridge has a token that was not minted |
| | `ClicksLandOnce` | `AtMostOnce` |
| | `RevokedPowerless` | `RevokedRefused` |
| | `StaysDiscoverable` | `ServingIsPublished` |
| | `HeirKeepsToken` | `TokenKept` |
| `StartupProofs` | `Types` | `TypeOK` |
| | `MigratedBeforeUse` | `UpIsMigrated` |
| | `WholeWhenQuiet` | `QuietIsWhole` |
| | `ConfigWrittenOnce` | `ConfigComesLast` |
| `DoctorProofs` | `Types` | `TypeOK`, through every remediation |
| | `ExitCodeIsTrue` | `VerdictIsTrue` |

*Bridge.* `LandInv` says what an item's row tells of what the vault took, `ReqInv` what a
request past the guard carries, for good; `PublishInv` that, where serves do not overlap,
whoever has published is whom the file names, and who is on the way to publishing is alone
and has the token of the file that is there. Tokens are numbers, bounded by the number of
processes that have started (`MintInv`).

*Startup.* `MigratedInv` gives each statement of `openJournal` a number and says that what the
statements behind a host leave (tables, columns, indexes, no twins) is there: other hosts
only add to it. `SetupInv` is the order of `init`; `IndexInv`, of worlds without deaths, that an
index somebody has looked at, or that is not empty, is `Whole`: it has every note, or some
host that rebuilds it is not doomed; and that a rebuilder has put in what it has not still
to do. A host is `Doomed` when it is about to insert a row that is there already. Whenever
an insertion dooms others, the host that made it goes on: that is why the failures of
hosts that race never leave a part of an index behind.

*Doctor.* `PassedInv` says that the checks with a status are those before the one being
made; `RightInv`, that where nobody writes each status is still what the check would
find, and that what a skipped check depends on stays as it was; `UnfailingInv`, that what
writers touch makes no check fail. A clean bill then needs that every check that is skipped
is skipped for another one that fails.

### Gates

`GatesProofs`, for any names, folders, manifests and edits of them, any graphs of
frontmatter, any notes and patches of any length:

| theorem | says |
|---|---|
| `GuardIsExactHolds` | `GuardIsExact` |
| `ZoneIsByTheBookHolds` | `ZoneIsByTheBook` |
| `ProposedIsSafeHolds` | `ProposedIsSafe` |
| `CleanBillLastsHolds` | `CleanBillLasts` |
| `AppliedAsDeclaredHolds` | `AppliedAsDeclared` |

*The governed guard.* Two values are the same if some relation between nodes holds of
them and is closed: the nodes of each pair are both lists or neither, have the same keys,
and what they hold is the same or related again (two dates always are). `Comparing` says two things of the stack and the memo. Every pair
in them agrees, but for pairs that are in them too and the keys that a call has
left: so when the last call returns, the memo *is* such a relation, and what passed was
equal, cycles or not. And every such relation contains every pair on the stack: so if a
comparison fails there is none. The first half is what taking "being compared" for
"equal so far" needs, the second what makes refusing exact; there, that the value refused is
no NaN is the hypothesis of `UnlikeBelow`.

*Zones.* `BestIs` is the loop invariant of `Best`: the first of the most specific
rules among the first `n`. `BestWins` proves it for every `n` by taking the least for
which it fails (`LeastNumber`, from well-founded induction on numbers); that the loop, a
recursive function on `0 .. Len(rules)`, satisfies its equation is `PrimitiveRecursion`,
proved the same way. `ResolvedByTheBook` then compares the order in which the
code tries things with the order that its comments give.

*Private folders.* `PolicyInv`: as long as nobody has edited the manifest it is one of the
two that setup proposes, and a report of "all excluded" means the one with
`**/private/**`. `PrivateMatches` says that this glob takes every path with a `private` in it
before the end. For edited manifests, `ProbesSuffice`: a glob that ends in `**` and does not
name the probe and takes the probe takes every note below that folder (`BelowMatches`), and
an override that takes a note in a Private folder takes that folder's probe too
(`NamedMatches`), so that one probe in each decides.

*Patch.* `PatchInv` is `TypeOK` with what holds at each stage (`Staged`). During the search:
every hunk found has its lines where it was found (`Placed`); the observer is at the
hunk that jsdiff is at, or beyond it over hunks that compare nothing, with the run that
jsdiff has matched (`Watching`); an honest patch has been found at its headers so far
(`Trusted`); and if every hunk so far was found at its header, the result with the rest
of the note, later hunks put in, is the declared edit (`Assembled`). After it: the
landings of the observer are those of jsdiff (`Found`). TLC checked `PatchInv` on the run's
instance before it was proved. The declared edit goes from the last hunk to the first, the
code from the first to the last; `StageSpliced` and `EditedIs` say what the stages of
the one have in common with the other.

No theorem is by induction over data: each recursive function is given by its equation,
and what holds of all its stages is proved by its least counterexample.

### Only model-checked

`ApprovalsClose`, `GestureEnds`, `OpenEnds`, `CallsEnd`, `Converges`: liveness under fairness;
and `NobodyStuck`, which speaks of ENABLED. Neither is in the prover's reach.

## Not modelled

- **Containment**: resolution of paths against symbolic links, a check of the file system
  before each access that keeps no state. The models' paths are notes inside the vault.
- **Hash**: two notes have one hash exactly if they are equal.
- **Recall, read, list and search**: they change nothing; what they may show is
  decided by `resolveZone`.
- **Entity backfill**: a series of revises, each of which is modelled; which entity it
  writes is text analysis. So is the extraction of values from text.
- **`replace.ts`**: a substitution in a string whose result is a proposed patch.
- **The mapping of tool arguments, commands and routes** to operations (`tools.ts`, the CLI's
  parsing), listings, wording and JSON output; the edits of other clients'
  configuration files by setup; the read-only routes of the bridge.
- **Unreadable directories** in the scan, and in `gates` a person who excludes the Private
  folder at one level only.
- **A machine that sleeps** longer than a lock's staleness while it holds it.

## What is left

An abstract vault that `Broker` implements; a form of `NobodyStuck` without ENABLED; modules for the
mapping of tool arguments (`tools.ts`) and for containment.
