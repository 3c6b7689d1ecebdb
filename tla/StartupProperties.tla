------------------------- MODULE StartupProperties -------------------------
(* What initialising and opening a vault promise, and the promises of the   *)
(* repository's comments and messages that its code does not keep.          *)
EXTENDS Startup

Opening(h) == host[h].stage \notin {"idle", "failed", "up"}
Rebuilding(h) == host[h].stage \in {"rebuild", "insert", "update"}

OpenStages == {"config", "permissions", "schema", "dedupeCommits", "indexCommits",
  "lookConflicts", "alterConflicts", "lookValueHash", "alterValueHash", "backfillValueHash",
  "indexValueHash", "lookTransactions", "alterTransactions", "indexApprovals", "relations",
  "lookApprovals", "alterApprovals", "ensure", "rebuild", "insert", "update", "reconcile",
  "sweep", "forgetting"}
Errors == {None, "notInitialized", "permissionsBroken", "uniqueFailed", "duplicateColumn",
           "memoryExists"}

VaultType == [git : BOOLEAN, permissions : {"missing", "corrupt", "ok"}, config : Ids \cup {None}]
JournalType ==
  [tables : SUBSET Tables, columns : SUBSET Columns, indexes : SUBSET Indexes, twins : BOOLEAN,
   dismissed : {None, "blank", "hashed"}, reopened : BOOLEAN, memories : SUBSET Notes,
   commits : SUBSET Commits]
HostType ==
  [stage : OpenStages \cup {"idle", "failed", "up"}, loader : Loaders \cup {None},
   saw : SUBSET Columns, todo : SUBSET Notes, note : Notes \cup {None}, error : Errors]
SetupType ==
  [stage : {"idle", "permissions", "fill", "repair", "fillRepair", "config", "already"},
   id : Ids \cup {None}]

\* The shape of the state; who is opening the vault has a loader, and an init
\* that writes has an id.
TypeOK ==
  /\ vault \in VaultType
  /\ journal \in JournalType
  /\ host \in [Hosts -> HostType]
  /\ setup \in SetupType
  /\ minted \subseteq Ids
  /\ lock \in Hosts \cup {None, Dead}
  /\ \A h \in Hosts : Opening(h) => host[h].loader \in Loaders
  /\ setup.stage \in {"permissions", "fill", "config"} => setup.id \in Ids

\* A host that is up works on a journal whose migrations are all done,
\* whichever build wrote it, whatever died half-way through an earlier open
\* and whoever else is opening it: every column and index is there, the old
\* four-column key is gone, no dismissed conflict is left unhashed, and none
\* that a person dismissed was opened again on the way (db.ts:248-255).
UpIsMigrated ==
  (\E h \in Hosts : host[h].stage = "up") =>
    /\ journal.tables = Tables /\ journal.columns = Columns
    /\ Indexes \ {"pairKindFact"} = journal.indexes
    /\ ~journal.twins
    /\ journal.dismissed # "blank" /\ ~journal.reopened

\* The sentinel every init short-circuits on appears only when the repository
\* and a whole permissions.yaml are there (init.ts:70-73), and no later init,
\* repair or crash gives the vault another id: the journal and the lock are
\* found under it (init.ts:67-68).
ConfigComesLast ==
  [][vault'.config # vault.config =>
       vault.config = None /\ vault.git /\ vault.permissions = "ok"]_vars

\* Unless a host dies: when no rebuild is under way, a host that is up has
\* every memory of the vault in its index: an empty journal is rebuilt from
\* the vault, and of several hosts that rebuild it at the same time, whoever
\* fails on a row another one inserted, one goes on to the end (db.ts:96-98).
QuietIsWhole ==
  left.calm /\ (\E h \in Hosts : host[h].stage = "up") /\ (\A h \in Hosts : ~Rebuilding(h))
    => journal.memories = Notes

\* A host that started opening the vault is up, has said why it is not, or
\* has died: the migrations and the rebuild wait for nobody, and the sweep
\* waits for the lock no longer than its retries, should the holder never
\* give it back (openVault.ts:143, ttl.ts:101-108).
OpenEnds == \A h \in Hosts : Opening(h) ~> ~Opening(h)

-----------------------------------------------------------------------------
\* What the repository says and the code does not keep.

\* An init that has nothing more to do leaves permissions that hosts can read:
\* their message says to run `ledger init` to repair (openVault.ts:71-72).
InitRepairs == setup.stage = "already" => vault.permissions = "ok"

\* "opening a journal repeatedly is idempotent" (db.ts:80-81): not when two
\* hosts open the journal of an earlier build at the same time.
OpenNeverFails ==
  \A h \in Hosts : host[h].error \notin {"uniqueFailed", "duplicateColumn"}

\* "a double run is harmless beyond wasted work" (reindex.ts:336-339): not to
\* the host whose INSERT comes second.
DoubleRunIsHarmless == \A h \in Hosts : host[h].error # "memoryExists"

=============================================================================
