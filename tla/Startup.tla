------------------------------ MODULE Startup ------------------------------
(* How a vault is initialised and how a host process opens it: the writes   *)
(* of `ledger init` in their order, the configuration and permissions read  *)
(* before anything else, the journal's schema brought up to date one        *)
(* autocommitted statement at a time, the index rebuilt when the journal is *)
(* empty, the ledger's commits reconciled, and expired scratch forgotten    *)
(* under the vault lock.  Hosts are processes: they interleave between any  *)
(* two statements and may die between any two.                              *)
EXTENDS Naturals, Sequences, FiniteSets, SequencesExt

CONSTANTS
  Hosts,        \* the processes that may open the vault
  Notes,        \* the memory notes on disk
  Commits,      \* the ledger's commits in git
  Ids,          \* the vault ids mintVaultId may return
  Worlds        \* what a behaviour starts with, and its bounds

None == "none"
Dead == "dead"

ASSUME StartupAssumption == None \notin Ids /\ {None, Dead} \cap Hosts = {}

VARIABLES
  vault,      \* what .ledger/ and .git/ hold: [git, permissions, config]
  journal,    \* the database file: columns and indexes added since v0.2, its rows
  host,       \* host[h]: [stage, loader, saw, todo, note, error]
  setup,      \* the `ledger init` in progress: [stage, id]
  minted,     \* the vault ids already given out
  lock,       \* the vault lock: None, the host that holds it, or one that is Dead
  left        \* the world, and what remains of each of its bounds

vars == <<vault, journal, host, setup, minted, lock, left>>

\* The tables, each with those of its columns that came after v0.2.
Schema == [
  transactions    |-> {"approvalId"},
  memories        |-> {},
  memoryTags      |-> {},
  approvals       |-> {"staleReason"},
  conflicts       |-> {"conflictColumns", "valueHash"},
  memoryRelations |-> {}]

Tables == DOMAIN Schema
Columns == UNION {Schema[t] : t \in Tables}
Indexes == {"commitSha", "pairKindFact", "pairKindFactValue", "transactionsApproval"}

EmptyJournal == [tables |-> {}, columns |-> {}, indexes |-> {}, twins |-> FALSE,
                 dismissed |-> None, reopened |-> FALSE, memories |-> {}, commits |-> {}]

\* Journals earlier builds left behind: twins is a commit recorded by two
\* rows, dismissed is the value_hash of a conflict a person dismissed.
Legacy == [
  absent |-> EmptyJournal,
  v02    |-> [EmptyJournal EXCEPT !.tables = Tables \ {"memoryRelations"}, !.twins = TRUE,
                                  !.memories = Notes, !.commits = Commits],
  v03a   |-> [EmptyJournal EXCEPT !.tables = Tables \ {"memoryRelations"}, !.columns = {"conflictColumns"},
                                  !.indexes = {"commitSha", "pairKindFact"}, !.dismissed = "blank",
                                  !.memories = Notes, !.commits = Commits]]

\* A world: the hosts of a behaviour, the builds that may have written its
\* journal, whether it is calm (no host dies), and how many starts, inits,
\* deaths, damages and wipes there may be.
ASSUME WorldsAssumption ==
  /\ Worlds \subseteq [hosts : SUBSET Hosts, shapes : SUBSET DOMAIN Legacy, calm : BOOLEAN,
                      starts : Nat, inits : Nat, crash : Nat, damage : Nat, wipe : Nat]
  /\ \A w \in Worlds : w.calm => w.crash = 0

\* The stages of openJournal, each one statement; look/alter pairs are the
\* `pragma table_info` read and the ALTER TABLE it decides on.
OpenJournal == <<
  "schema", "dedupeCommits", "indexCommits",
  "lookConflicts", "alterConflicts",
  "lookValueHash", "alterValueHash", "backfillValueHash", "indexValueHash",
  "lookTransactions", "alterTransactions", "indexApprovals", "relations",
  "lookApprovals", "alterApprovals">>

\* What each loader runs: the CLI's reindex skips the empty-journal check, and
\* only a server context and an embedder that asks for it sweep.
OpenVault         == <<"config", "permissions">> \o OpenJournal \o <<"ensure", "reconcile", "sweep", "up">>
LoadServerContext == <<"config", "permissions">> \o OpenJournal \o <<"ensure", "reconcile", "sweep", "up">>
LoadContext(skipEnsure) ==
  <<"config", "permissions">> \o OpenJournal
    \o (IF skipEnsure THEN <<"reconcile", "up">> ELSE <<"ensure", "reconcile", "up">>)

Loaders == {"serve", "mcp", "cli", "reindex"}

\* `ledger reindex` walks the vault itself once its context is loaded.
Stages(loader) ==
  CASE loader = "serve"   -> OpenVault
    [] loader = "mcp"     -> LoadServerContext
    [] loader = "cli"     -> LoadContext(FALSE)
    [] loader = "reindex" -> LoadContext(TRUE)

Idle == [stage |-> "idle", loader |-> None, saw |-> {}, todo |-> {}, note |-> None, error |-> None]

Init ==
  /\ left \in Worlds
  /\ vault \in [git : {FALSE}, permissions : {"missing"}, config : {None}]
             \cup [git : {TRUE}, permissions : {"ok"}, config : Ids]
  /\ journal \in {Legacy[s] : s \in left.shapes}
  /\ journal.tables # {} => vault.config # None
  /\ host = [h \in Hosts |-> Idle]
  /\ setup = [stage |-> "idle", id |-> None]
  /\ minted = {vault.config} \ {None}
  /\ lock = None

Spend(budget) ==
  /\ left[budget] > 0
  /\ left' = [left EXCEPT ![budget] = @ - 1]

-----------------------------------------------------------------------------
(* ledger init                                                              *)

\* Mutant: an init that mints without looking for a config.
InitCommandMints ==
  /\ setup.stage = "idle"
  /\ Spend("inits")
  /\ \E id \in Ids \ minted : setup' = [stage |-> "permissions", id |-> id] /\ minted' = minted \cup {id}
  /\ vault' = [vault EXCEPT !.git = TRUE]
  /\ UNCHANGED <<journal, host, lock>>

\* An existing config ends the command, after a missing permissions.yaml has
\* been rewritten; a fresh vault gets its repository first.
InitCommand ==
  /\ setup.stage = "idle"
  /\ Spend("inits")
  /\ \/ /\ vault.config # None
        /\ setup' = [stage |-> IF vault.permissions = "missing" THEN "repair" ELSE "already", id |-> None]
        /\ UNCHANGED <<vault, minted>>
     \/ /\ vault.config = None
        /\ \E id \in Ids \ minted :
             /\ setup' = [stage |-> "permissions", id |-> id]
             /\ minted' = minted \cup {id}
        /\ vault' = [vault EXCEPT !.git = TRUE]
  /\ UNCHANGED <<journal, host, lock>>

\* writeFileSync truncates the file, then fills it.
TruncatePermissions ==
  /\ setup.stage \in {"permissions", "repair"}
  /\ vault' = [vault EXCEPT !.permissions = "corrupt"]
  /\ setup' = [setup EXCEPT !.stage = IF @ = "repair" THEN "fillRepair" ELSE "fill"]
  /\ UNCHANGED <<journal, host, minted, lock, left>>

FillPermissions ==
  /\ setup.stage \in {"fill", "fillRepair"}
  /\ vault' = [vault EXCEPT !.permissions = "ok"]
  /\ setup' = [setup EXCEPT !.stage = IF @ = "fill" THEN "config" ELSE "already"]
  /\ UNCHANGED <<journal, host, minted, lock, left>>

\* A temporary file renamed over config.json: one step.
WriteConfig ==
  /\ setup.stage = "config"
  /\ vault' = [vault EXCEPT !.config = setup.id]
  /\ setup' = [setup EXCEPT !.stage = "already"]
  /\ UNCHANGED <<journal, host, minted, lock, left>>

InitReturns ==
  /\ setup.stage = "already"
  /\ setup' = [stage |-> "idle", id |-> None]
  /\ UNCHANGED <<vault, journal, host, minted, lock, left>>

InitCrashes ==
  /\ setup.stage # "idle"
  /\ Spend("crash")
  /\ setup' = [stage |-> "idle", id |-> None]
  /\ UNCHANGED <<vault, journal, host, minted, lock>>

-----------------------------------------------------------------------------
(* a host opening the vault                                                 *)

\* The stage that follows s in the loader's sequence; a rebuild in progress
\* stays where it is.
Next1(h) ==
  LET ss == Stages(host[h].loader)
      i  == CHOOSE k \in 1..Len(ss) : ss[k] = host[h].stage
  IN ss[i + 1]

At(h, stage) == host[h].stage = stage

Advance(h) == host' = [host EXCEPT ![h].stage = Next1(h), ![h].saw = {}]

Refuse(h, error) == host' = [host EXCEPT ![h] = [Idle EXCEPT !.stage = "failed", !.error = error]]

Start(h) ==
  /\ At(h, "idle")
  /\ Spend("starts")
  /\ \E l \in Loaders : host' = [host EXCEPT ![h] = [Idle EXCEPT !.stage = "config", !.loader = l]]
  /\ UNCHANGED <<vault, journal, setup, minted, lock>>

ReadConfig(h) ==
  /\ At(h, "config")
  /\ IF vault.config = None THEN Refuse(h, "notInitialized") ELSE Advance(h)
  /\ UNCHANGED <<vault, journal, setup, minted, lock, left>>

ReadPermissions(h) ==
  /\ At(h, "permissions")
  /\ IF vault.permissions = "ok" THEN Advance(h) ELSE Refuse(h, "permissionsBroken")
  /\ UNCHANGED <<vault, journal, setup, minted, lock, left>>

\* CREATE TABLE IF NOT EXISTS: a table that is missing comes with every
\* column, one that is there keeps the columns it has.
CreateSchema(h) ==
  /\ At(h, "schema")
  /\ journal' = [journal EXCEPT
       !.tables = Tables,
       !.columns = @ \cup UNION {Schema[t] : t \in Tables \ journal.tables}]
  /\ Advance(h)
  /\ UNCHANGED <<vault, setup, minted, lock, left>>

DedupeCommits(h) ==
  /\ At(h, "dedupeCommits")
  /\ journal' = [journal EXCEPT !.twins = FALSE]
  /\ Advance(h)
  /\ UNCHANGED <<vault, setup, minted, lock, left>>

\* A UNIQUE index cannot be built over two rows of one commit.
IndexCommits(h) ==
  /\ At(h, "indexCommits")
  /\ IF journal.twins
     THEN Refuse(h, "uniqueFailed") /\ UNCHANGED journal
     ELSE Advance(h) /\ journal' = [journal EXCEPT !.indexes = @ \cup {"commitSha"}]
  /\ UNCHANGED <<vault, setup, minted, lock, left>>

\* pragma table_info: the columns this host will believe in.
LookAtTable(h, stage) ==
  /\ At(h, stage)
  /\ host' = [host EXCEPT ![h].stage = Next1(h), ![h].saw = journal.columns]
  /\ UNCHANGED <<vault, journal, setup, minted, lock, left>>

\* ALTER TABLE ADD COLUMN when the column was not seen; SQLite refuses a
\* column that another process added since.
AlterTable(h, stage, column) ==
  /\ At(h, stage)
  /\ CASE column \in host[h].saw -> Advance(h) /\ UNCHANGED journal
       [] column \notin host[h].saw /\ column \in journal.columns ->
            Refuse(h, "duplicateColumn") /\ UNCHANGED journal
       [] OTHER -> Advance(h) /\ journal' = [journal EXCEPT !.columns = @ \cup {column}]
  /\ UNCHANGED <<vault, setup, minted, lock, left>>

MigrateConflictsTable(h) ==
  \/ LookAtTable(h, "lookConflicts")
  \/ AlterTable(h, "alterConflicts", "conflictColumns")

MigrateTransactionsTable(h) ==
  \/ LookAtTable(h, "lookTransactions")
  \/ AlterTable(h, "alterTransactions", "approvalId")

MigrateApprovalsTable(h) ==
  \/ LookAtTable(h, "lookApprovals")
  \/ AlterTable(h, "alterApprovals", "staleReason")

\* The rows still blank are hashed whether or not this open added the column.
BackfillValueHash(h) ==
  /\ At(h, "backfillValueHash")
  /\ journal' = [journal EXCEPT !.dismissed = IF @ = "blank" THEN "hashed" ELSE @]
  /\ Advance(h)
  /\ UNCHANGED <<vault, setup, minted, lock, left>>

IndexValueHash(h) ==
  /\ At(h, "indexValueHash")
  /\ journal' = [journal EXCEPT !.indexes = (@ \ {"pairKindFact"}) \cup {"pairKindFactValue"}]
  /\ Advance(h)
  /\ UNCHANGED <<vault, setup, minted, lock, left>>

\* Mutant: a column that is already there ends the whole migration.
MigrateValueHashOnce(h) ==
  \/ /\ At(h, "lookValueHash") /\ "valueHash" \in journal.columns
     /\ host' = [host EXCEPT ![h].stage = "lookTransactions"]
     /\ UNCHANGED <<vault, journal, setup, minted, lock, left>>
  \/ "valueHash" \notin journal.columns /\ LookAtTable(h, "lookValueHash")
  \/ AlterTable(h, "alterValueHash", "valueHash")
  \/ BackfillValueHash(h)
  \/ IndexValueHash(h)

MigrateConflictsValueHash(h) ==
  \/ LookAtTable(h, "lookValueHash")
  \/ AlterTable(h, "alterValueHash", "valueHash")
  \/ BackfillValueHash(h)
  \/ IndexValueHash(h)

CreateApprovalIndex(h) ==
  /\ At(h, "indexApprovals")
  /\ journal' = [journal EXCEPT !.indexes = @ \cup {"transactionsApproval"}]
  /\ Advance(h)
  /\ UNCHANGED <<vault, setup, minted, lock, left>>

\* The schema has created the table already: nothing is left to do.
MigrateMemoryRelations(h) ==
  /\ At(h, "relations")
  /\ journal' = [journal EXCEPT !.tables = @ \cup {"memoryRelations"}]
  /\ Advance(h)
  /\ UNCHANGED <<vault, setup, minted, lock, left>>

-----------------------------------------------------------------------------
(* the index                                                                *)

\* Mutant: a journal file that exists is taken to be filled.
EnsureFile(h) ==
  /\ At(h, "ensure")
  /\ IF journal.tables # {}
     THEN Advance(h)
     ELSE host' = [host EXCEPT ![h].stage = "rebuild", ![h].todo = Notes]
  /\ UNCHANGED <<vault, journal, setup, minted, lock, left>>

\* Two reads and no lock: a journal with any row at all is left as it is.
EnsureJournal(h) ==
  /\ At(h, "ensure")
  /\ IF journal.memories # {} \/ journal.commits # {}
     THEN Advance(h)
     ELSE host' = [host EXCEPT ![h].stage = "rebuild", ![h].todo = Notes]
  /\ UNCHANGED <<vault, journal, setup, minted, lock, left>>

\* upsertMemory of one note, whichever readdir gives next: a SELECT that
\* decides between INSERT and UPDATE, each a statement of its own, outside
\* any transaction and any lock.
LookForMemory(h) ==
  /\ At(h, "rebuild")
  /\ \E n \in host[h].todo :
       host' = [host EXCEPT ![h].stage = IF n \in journal.memories THEN "update" ELSE "insert",
                            ![h].note = n]
  /\ UNCHANGED <<vault, journal, setup, minted, lock, left>>

\* The host goes on to the next note.
NoteDone(h) ==
  host' = [host EXCEPT ![h].stage = "rebuild", ![h].todo = @ \ {host[h].note}, ![h].note = None]

\* The row's contents, its tags and its edges are left out.
UpdateMemory(h) ==
  /\ At(h, "update")
  /\ NoteDone(h)
  /\ UNCHANGED <<vault, journal, setup, minted, lock, left>>

\* The id is the primary key: a row another host has inserted since the
\* SELECT makes this INSERT throw, and the open fails with it.
InsertMemory(h) ==
  /\ At(h, "insert")
  /\ IF host[h].note \in journal.memories
     THEN Refuse(h, "memoryExists") /\ UNCHANGED journal
     ELSE NoteDone(h) /\ journal' = [journal EXCEPT !.memories = @ \cup {host[h].note}]
  /\ UNCHANGED <<vault, setup, minted, lock, left>>

\* After the notes, git's log: each commit's row, unless it is there already.
RebuildCommits(h) ==
  /\ At(h, "rebuild") /\ host[h].todo = {}
  /\ journal' = [journal EXCEPT !.commits = Commits]
  /\ host' = [host EXCEPT ![h].stage = IF host[h].loader = "reindex" THEN "up" ELSE "reconcile"]
  /\ UNCHANGED <<vault, setup, minted, lock, left>>

\* `ledger reindex` walks the vault once its own context is open.
Reconcile(h) ==
  /\ At(h, "reconcile")
  /\ journal' = [journal EXCEPT !.commits = Commits]
  /\ IF host[h].loader = "reindex"
     THEN host' = [host EXCEPT ![h].stage = "rebuild", ![h].todo = Notes]
     ELSE Advance(h)
  /\ UNCHANGED <<vault, setup, minted, lock, left>>

\* The expired scratch is listed once; which notes are is Memory's matter, and
\* so is what forgetting one does.
Sweep(h) ==
  /\ At(h, "sweep")
  /\ \E expired \in SUBSET journal.memories :
       host' = [host EXCEPT ![h].stage = "forgetting", ![h].todo = expired]
  /\ UNCHANGED <<vault, journal, setup, minted, lock, left>>

\* A dead holder's lock can be taken over (when, is VaultLock's matter).
LockVault(h) ==
  /\ At(h, "forgetting") /\ host[h].todo # {}
  /\ lock \in {None, Dead}
  /\ lock' = h
  /\ UNCHANGED <<vault, journal, host, setup, minted, left>>

\* Mutant: a lock that is waited for without an end.
LockWaits(h) ==
  /\ At(h, "forgetting") /\ host[h].todo # {}
  /\ lock \notin {None, h}
  /\ UNCHANGED vars

\* The retries of a lock in other hands run out: this forget has failed, and
\* the sweep takes the next.
LockTimesOut(h) ==
  /\ At(h, "forgetting")
  /\ lock \notin {None, h}
  /\ \E n \in host[h].todo : host' = [host EXCEPT ![h].todo = @ \ {n}]
  /\ UNCHANGED <<vault, journal, setup, minted, lock, left>>

\* store.forget returns or throws, its lock released either way.
Forget(h) ==
  /\ At(h, "forgetting") /\ lock = h
  /\ \E n \in host[h].todo : host' = [host EXCEPT ![h].todo = @ \ {n}]
  /\ lock' = None
  /\ UNCHANGED <<vault, journal, setup, minted, left>>

SweepEnds(h) ==
  /\ At(h, "forgetting") /\ host[h].todo = {}
  /\ host' = [host EXCEPT ![h].stage = "up"]
  /\ UNCHANGED <<vault, journal, setup, minted, lock, left>>

-----------------------------------------------------------------------------
(* a running host, and what happens around it                               *)

\* A check finds the dismissed contradiction again: INSERT ... ON CONFLICT
\* DO NOTHING against the five-column index.
Redetect(h) ==
  /\ At(h, "up")
  /\ journal.dismissed # None
  /\ journal' = [journal EXCEPT !.reopened = @ \/ journal.dismissed # "hashed"]
  /\ UNCHANGED <<vault, host, setup, minted, lock, left>>

\* An operation under the vault lock, which may hold it for as long as it likes.
Work(h) ==
  /\ At(h, "up")
  /\ lock \in {None, Dead}
  /\ lock' = h
  /\ UNCHANGED <<vault, journal, host, setup, minted, left>>

Release(h) ==
  /\ At(h, "up") /\ lock = h
  /\ lock' = None
  /\ UNCHANGED <<vault, journal, host, setup, minted, left>>

\* The handle is closed on the way out, of a failed start and of a host.
Close(h) ==
  /\ host[h].stage \in {"up", "failed"}
  /\ lock # h
  /\ host' = [host EXCEPT ![h] = Idle]
  /\ UNCHANGED <<vault, journal, setup, minted, lock, left>>

Crash(h) ==
  /\ host[h].stage \notin {"idle", "failed"}
  /\ Spend("crash")
  /\ host' = [host EXCEPT ![h] = Idle]
  /\ lock' = IF lock = h THEN Dead ELSE lock
  /\ UNCHANGED <<vault, journal, setup, minted>>

\* permissions.yaml deleted or truncated by a person or a sync client.
Damage ==
  /\ setup.stage = "idle" /\ vault.config # None
  /\ Spend("damage")
  /\ vault' \in {[vault EXCEPT !.permissions = p] : p \in {"missing", "corrupt"}}
  /\ UNCHANGED <<journal, host, setup, minted, lock>>

\* journal.db deleted while no host has it open.
Wipe ==
  /\ \A h \in Hosts : host[h].stage \in {"idle", "failed"}
  /\ Spend("wipe")
  /\ journal' = EmptyJournal
  /\ UNCHANGED <<vault, host, setup, minted, lock>>

-----------------------------------------------------------------------------
Open(h) ==
  \/ ReadConfig(h) \/ ReadPermissions(h)
  \/ CreateSchema(h) \/ DedupeCommits(h) \/ IndexCommits(h)
  \/ MigrateConflictsTable(h) \/ MigrateConflictsValueHash(h)
  \/ MigrateTransactionsTable(h) \/ CreateApprovalIndex(h) \/ MigrateMemoryRelations(h) \/ MigrateApprovalsTable(h)
  \/ EnsureJournal(h) \/ LookForMemory(h) \/ InsertMemory(h) \/ UpdateMemory(h) \/ RebuildCommits(h)
  \/ Reconcile(h)
  \/ Sweep(h) \/ LockVault(h) \/ LockTimesOut(h) \/ Forget(h) \/ SweepEnds(h)

InitStep == TruncatePermissions \/ FillPermissions \/ WriteConfig \/ InitReturns

Next ==
  \/ InitCommand \/ InitStep \/ InitCrashes
  \/ \E h \in left.hosts :
       Start(h) \/ Open(h) \/ Redetect(h) \/ Work(h) \/ Release(h) \/ Close(h) \/ Crash(h)
  \/ Damage
  \/ Wipe

Spec == Init /\ [][Next]_vars

\* A process that was started runs on, and its lock retries run out; nobody
\* has to start or close one, and nobody has to release the lock.
FairSpec == Spec /\ WF_vars(InitStep) /\ \A h \in Hosts : WF_vars(Open(h))
=============================================================================
