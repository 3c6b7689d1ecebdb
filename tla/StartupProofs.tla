---------------------------- MODULE StartupProofs ----------------------------
(* Proofs about initialising and opening a vault, for any number of hosts,  *)
(* notes, commits and deaths: what init writes last, what a host that is up *)
(* may rely on, and that the index of a vault nobody died in is whole.      *)
EXTENDS StartupProperties, TLAPS

\* How far a host is in openJournal: the statements it has behind it.
Behind == [
  idle |-> 0, failed |-> 0, config |-> 0, permissions |-> 0, schema |-> 0, dedupeCommits |-> 1,
  indexCommits |-> 2, lookConflicts |-> 3, alterConflicts |-> 4, lookValueHash |-> 5,
  alterValueHash |-> 6, backfillValueHash |-> 7, indexValueHash |-> 8, lookTransactions |-> 9,
  alterTransactions |-> 10, indexApprovals |-> 11, relations |-> 12, lookApprovals |-> 13,
  alterApprovals |-> 14, ensure |-> 15, rebuild |-> 15, insert |-> 15, update |-> 15, reconcile |-> 15,
  sweep |-> 15, forgetting |-> 15, up |-> 15]

LeftInv ==
  /\ left \in [hosts : SUBSET Hosts, shapes : SUBSET DOMAIN Legacy, calm : BOOLEAN,
               starts : Nat, inits : Nat, crash : Nat, damage : Nat, wipe : Nat]
  /\ left.calm => left.crash = 0

\* What each statement of openJournal leaves behind is there from then on.
Prepared(h) ==
  LET behind == Behind[host[h].stage] IN
  /\ host[h].saw \subseteq journal.columns
  /\ behind > 0 => journal.tables = Tables
  /\ behind > 1 => ~journal.twins
  /\ behind > 2 => "commitSha" \in journal.indexes
  /\ behind > 4 => "conflictColumns" \in journal.columns
  /\ behind > 6 => "valueHash" \in journal.columns
  /\ behind > 7 => journal.dismissed # "blank"
  /\ behind > 8 => "pairKindFactValue" \in journal.indexes /\ "pairKindFact" \notin journal.indexes
  /\ behind > 10 => "approvalId" \in journal.columns
  /\ behind > 11 => "transactionsApproval" \in journal.indexes
  /\ behind > 14 => "staleReason" \in journal.columns

MigratedInv == ~journal.reopened /\ \A h \in Hosts : Prepared(h)

\* Who looks at the journal, or sweeps, has a loader that does; who is to write
\* a row knows which; who has no handle open believes in no column.
LoaderInv ==
  \A h \in Hosts : /\ host[h].stage = "ensure" => host[h].loader # "reindex"
                   /\ host[h].stage = "sweep" => host[h].loader \in {"serve", "mcp"}
                   /\ host[h].stage \in {"insert", "update"} => host[h].note \in Notes
                   /\ host[h].stage \in {"idle", "failed"} => host[h].saw = {}

\* A fresh init works in a vault without config.json, repository first.
SetupInv ==
  /\ setup.stage \in {"permissions", "fill", "config"} => vault.config = None /\ vault.git
  /\ setup.stage = "config" => vault.permissions = "ok"

\* A host whose INSERT will throw: the row it did not see is there by now.
Doomed(h) == host[h].stage = "insert" /\ host[h].note \in journal.memories

Going(h) == Rebuilding(h) /\ ~Doomed(h)

\* While nobody dies: who rebuilds has put into the index what it has not
\* still to do, and an index that is not empty, or that a host has looked at,
\* is whole or being rebuilt by a host that will not fail: the one whose row
\* made others fail has not.
Whole == journal.memories = Notes \/ \E h \in Hosts : Going(h)

IndexInv ==
  left.calm =>
    /\ \A h \in Hosts : Rebuilding(h) => Notes \subseteq journal.memories \cup host[h].todo
    /\ \A h \in Hosts : host[h].stage = "update" => host[h].note \in journal.memories
    /\ journal.memories # {} \/ journal.commits # {} => Whole
    /\ \A h \in Hosts :
         \/ host[h].stage \in {"sweep", "forgetting", "up"}
         \/ host[h].stage = "reconcile" /\ host[h].loader # "reindex"
         => Whole

Inv == TypeOK /\ LeftInv /\ LoaderInv /\ MigratedInv /\ SetupInv /\ IndexInv

-----------------------------------------------------------------------------
LEMMA ColumnNames ==
  /\ Tables = {"transactions", "memories", "memoryTags", "approvals", "conflicts", "memoryRelations"}
  /\ Columns = {"approvalId", "staleReason", "conflictColumns", "valueHash"}
<1>1. Tables = {"transactions", "memories", "memoryTags", "approvals", "conflicts", "memoryRelations"}
  BY DEF Tables, Schema
<1>2. \A c : c \in Columns <=> \E t \in Tables : c \in Schema[t]
  BY DEF Columns
<1>3. Columns = {"approvalId", "staleReason", "conflictColumns", "valueHash"}
  BY <1>1, <1>2 DEF Schema
<1> QED
  BY <1>1, <1>3

\* The sequences of stages, element by element.

LEMMA Concatenated ==
  /\ Len(OpenVault) = 21 /\ Len(LoadServerContext) = 21
  /\ Len(LoadContext(FALSE)) = 20 /\ Len(LoadContext(TRUE)) = 19
BY DEF OpenVault, LoadServerContext, LoadContext, OpenJournal

LEMMA Lengths ==
  /\ Len(Stages("serve")) = 21 /\ Len(Stages("mcp")) = 21
  /\ Len(Stages("cli")) = 20 /\ Len(Stages("reindex")) = 19
<1>1. Stages("serve") = OpenVault /\ Stages("mcp") = LoadServerContext
  BY DEF Stages
<1>2. Stages("cli") = LoadContext(FALSE) /\ Stages("reindex") = LoadContext(TRUE)
  BY DEF Stages
<1> QED
  BY <1>1, <1>2, Concatenated

\* All the loaders go through openJournal in the same order.
Common(ss) ==
  /\ ss[1] = "config" /\ ss[2] = "permissions" /\ ss[3] = "schema" /\ ss[4] = "dedupeCommits"
  /\ ss[5] = "indexCommits" /\ ss[6] = "lookConflicts" /\ ss[7] = "alterConflicts"
  /\ ss[8] = "lookValueHash" /\ ss[9] = "alterValueHash" /\ ss[10] = "backfillValueHash"
  /\ ss[11] = "indexValueHash" /\ ss[12] = "lookTransactions" /\ ss[13] = "alterTransactions"
  /\ ss[14] = "indexApprovals" /\ ss[15] = "relations" /\ ss[16] = "lookApprovals"
  /\ ss[17] = "alterApprovals"

LEMMA CommonStages == \A l \in Loaders : Common(Stages(l))
<1>1. Common(OpenVault)
  BY DEF Common, OpenVault, OpenJournal
<1>2. Common(LoadServerContext)
  BY DEF Common, LoadServerContext, OpenJournal
<1>3. Common(LoadContext(FALSE))
  BY DEF Common, LoadContext, OpenJournal
<1>4. Common(LoadContext(TRUE))
  BY DEF Common, LoadContext, OpenJournal
<1> QED
  BY <1>1, <1>2, <1>3, <1>4 DEF Loaders, Stages

LEMMA LastStages ==
  /\ Stages("serve")[18] = "ensure" /\ Stages("serve")[19] = "reconcile"
  /\ Stages("serve")[20] = "sweep" /\ Stages("serve")[21] = "up"
  /\ Stages("mcp")[18] = "ensure" /\ Stages("mcp")[19] = "reconcile"
  /\ Stages("mcp")[20] = "sweep" /\ Stages("mcp")[21] = "up"
  /\ Stages("cli")[18] = "ensure" /\ Stages("cli")[19] = "reconcile" /\ Stages("cli")[20] = "up"
  /\ Stages("reindex")[18] = "reconcile" /\ Stages("reindex")[19] = "up"
<1>1. /\ OpenVault[18] = "ensure" /\ OpenVault[19] = "reconcile"
      /\ OpenVault[20] = "sweep" /\ OpenVault[21] = "up"
  BY DEF OpenVault, OpenJournal
<1>2. /\ LoadServerContext[18] = "ensure" /\ LoadServerContext[19] = "reconcile"
      /\ LoadServerContext[20] = "sweep" /\ LoadServerContext[21] = "up"
  BY DEF LoadServerContext, OpenJournal
<1>3. /\ LoadContext(FALSE)[18] = "ensure" /\ LoadContext(FALSE)[19] = "reconcile"
      /\ LoadContext(FALSE)[20] = "up"
  BY DEF LoadContext, OpenJournal
<1>4. LoadContext(TRUE)[18] = "reconcile" /\ LoadContext(TRUE)[19] = "up"
  BY DEF LoadContext, OpenJournal
<1> QED
  BY <1>1, <1>2, <1>3, <1>4 DEF Stages

\* The place of a stage in a loader's sequence, which is not its place in
\* another's: no stage comes twice.
Place(l) == [
    config |-> 1, permissions |-> 2, schema |-> 3, dedupeCommits |-> 4, indexCommits |-> 5,
    lookConflicts |-> 6, alterConflicts |-> 7, lookValueHash |-> 8, alterValueHash |-> 9,
    backfillValueHash |-> 10, indexValueHash |-> 11, lookTransactions |-> 12,
    alterTransactions |-> 13, indexApprovals |-> 14, relations |-> 15, lookApprovals |-> 16,
    alterApprovals |-> 17, ensure |-> 18, reconcile |-> IF l = "reindex" THEN 18 ELSE 19,
    sweep |-> 20, up |-> IF l = "reindex" THEN 19 ELSE IF l = "cli" THEN 20 ELSE 21]

LEMMA Places == \A l \in Loaders : \A k \in 1..Len(Stages(l)) : Place(l)[Stages(l)[k]] = k
<1>. SUFFICES ASSUME NEW l \in Loaders, NEW k \in 1..Len(Stages(l))
              PROVE  Place(l)[Stages(l)[k]] = k
  OBVIOUS
<1>. DEFINE ss == Stages(l)
            at == Place(l)
<1>1. /\ at[ss[1]] = 1 /\ at[ss[2]] = 2 /\ at[ss[3]] = 3 /\ at[ss[4]] = 4
      /\ at[ss[5]] = 5 /\ at[ss[6]] = 6 /\ at[ss[7]] = 7 /\ at[ss[8]] = 8
      /\ at[ss[9]] = 9 /\ at[ss[10]] = 10 /\ at[ss[11]] = 11 /\ at[ss[12]] = 12
      /\ at[ss[13]] = 13 /\ at[ss[14]] = 14 /\ at[ss[15]] = 15 /\ at[ss[16]] = 16
      /\ at[ss[17]] = 17
  <2>1. Common(ss)
    BY CommonStages
  <2> QED
    BY <2>1 DEF Common, Place
<1>2. k \in 1..17 \/ k \in 18..Len(ss)
  BY Lengths DEF Loaders
<1>3. CASE k \in 1..17
  <2>1. k = 1 \/ k = 2 \/ k = 3 \/ k = 4 \/ k = 5 \/ k = 6 \/ k = 7 \/ k = 8 \/ k = 9 \/ k = 10 \/
        k = 11 \/ k = 12 \/ k = 13 \/ k = 14 \/ k = 15 \/ k = 16 \/ k = 17
    BY <1>3
  <2>. HIDE DEF ss, at
  <2>2. at[ss[k]] = k
    BY <1>1, <2>1
  <2> QED
    BY <2>2 DEF ss, at
<1>4. ASSUME k \in 18..Len(ss) PROVE at[ss[k]] = k
  <2>1. CASE l = "serve"
    <3>1. /\ Place("serve")[Stages("serve")[18]] = 18
          /\ Place("serve")[Stages("serve")[19]] = 19
          /\ Place("serve")[Stages("serve")[20]] = 20
          /\ Place("serve")[Stages("serve")[21]] = 21
      BY LastStages, SMTT(30) DEF Place
    <3>2. Place(l) = Place("serve") /\ Stages(l) = Stages("serve")
      BY <2>1
    <3>3. Len(Stages(l)) = 21
      BY <2>1, Lengths
    <3>4. k = 18 \/ k = 19 \/ k = 20 \/ k = 21
      BY <1>4, <3>3
    <3> QED
      BY <3>1, <3>2, <3>4
  <2>2. CASE l = "mcp"
    <3>1. /\ Place("mcp")[Stages("mcp")[18]] = 18
          /\ Place("mcp")[Stages("mcp")[19]] = 19
          /\ Place("mcp")[Stages("mcp")[20]] = 20
          /\ Place("mcp")[Stages("mcp")[21]] = 21
      BY LastStages, SMTT(30) DEF Place
    <3>2. Place(l) = Place("mcp") /\ Stages(l) = Stages("mcp")
      BY <2>2
    <3>3. Len(Stages(l)) = 21
      BY <2>2, Lengths
    <3>4. k = 18 \/ k = 19 \/ k = 20 \/ k = 21
      BY <1>4, <3>3
    <3> QED
      BY <3>1, <3>2, <3>4
  <2>3. CASE l = "cli"
    <3>1. /\ Place("cli")[Stages("cli")[18]] = 18
          /\ Place("cli")[Stages("cli")[19]] = 19
          /\ Place("cli")[Stages("cli")[20]] = 20
      BY LastStages, SMTT(30) DEF Place
    <3>2. Place(l) = Place("cli") /\ Stages(l) = Stages("cli")
      BY <2>3
    <3>3. Len(Stages(l)) = 20
      BY <2>3, Lengths
    <3>4. k = 18 \/ k = 19 \/ k = 20
      BY <1>4, <3>3
    <3> QED
      BY <3>1, <3>2, <3>4
  <2>4. CASE l = "reindex"
    <3>1. /\ Place("reindex")[Stages("reindex")[18]] = 18
          /\ Place("reindex")[Stages("reindex")[19]] = 19
      BY LastStages, SMTT(30) DEF Place
    <3>2. Place(l) = Place("reindex") /\ Stages(l) = Stages("reindex")
      BY <2>4
    <3>3. Len(Stages(l)) = 19
      BY <2>4, Lengths
    <3>4. k = 18 \/ k = 19
      BY <1>4, <3>3
    <3> QED
      BY <3>1, <3>2, <3>4
  <2> QED
    BY <2>1, <2>2, <2>3, <2>4 DEF Loaders
<1> QED
  BY <1>2, <1>3, <1>4

\* So the stage after the one at place i is the one at place i + 1.
LEMMA StageAfter ==
  ASSUME NEW h \in Hosts, host[h].loader \in Loaders,
         NEW i \in 1..Len(Stages(host[h].loader)), host[h].stage = Stages(host[h].loader)[i]
  PROVE  Next1(h) = Stages(host[h].loader)[i + 1]
<1>. DEFINE ss == Stages(host[h].loader)
            P(k) == ss[k] = host[h].stage
<1>1. \A k \in 1..Len(ss) : P(k) => k = i
  BY Places
<1>2. P(i)
  OBVIOUS
<1>3. (CHOOSE k \in 1..Len(ss) : P(k)) = i
  <2>. HIDE DEF P
  <2> QED
    BY <1>1, <1>2
<1> QED
  BY <1>3 DEF Next1

\* What follows each stage, for each loader.
LEMMA NextStage ==
  ASSUME NEW h \in Hosts, host[h].loader \in Loaders
  PROVE  LET s == host[h].stage IN
    /\ s = "config" => Next1(h) = "permissions"
    /\ s = "permissions" => Next1(h) = "schema"
    /\ s = "schema" => Next1(h) = "dedupeCommits"
    /\ s = "dedupeCommits" => Next1(h) = "indexCommits"
    /\ s = "indexCommits" => Next1(h) = "lookConflicts"
    /\ s = "lookConflicts" => Next1(h) = "alterConflicts"
    /\ s = "alterConflicts" => Next1(h) = "lookValueHash"
    /\ s = "lookValueHash" => Next1(h) = "alterValueHash"
    /\ s = "alterValueHash" => Next1(h) = "backfillValueHash"
    /\ s = "backfillValueHash" => Next1(h) = "indexValueHash"
    /\ s = "indexValueHash" => Next1(h) = "lookTransactions"
    /\ s = "lookTransactions" => Next1(h) = "alterTransactions"
    /\ s = "alterTransactions" => Next1(h) = "indexApprovals"
    /\ s = "indexApprovals" => Next1(h) = "relations"
    /\ s = "relations" => Next1(h) = "lookApprovals"
    /\ s = "lookApprovals" => Next1(h) = "alterApprovals"
    /\ s = "alterApprovals" => Next1(h) \in {"ensure", "reconcile"}
    /\ s = "alterApprovals" => (Next1(h) = "ensure" <=> host[h].loader # "reindex")
    /\ s = "ensure" /\ host[h].loader # "reindex" => Next1(h) = "reconcile"
    /\ s = "reconcile" /\ host[h].loader # "reindex" => Next1(h) \in {"sweep", "up"}
    /\ s = "reconcile" /\ host[h].loader # "reindex" /\ Next1(h) = "sweep"
       => host[h].loader \in {"serve", "mcp"}
    /\ s = "sweep" /\ host[h].loader \in {"serve", "mcp"} => Next1(h) = "up"
<1>. DEFINE l == host[h].loader
            ss == Stages(l)
<1>1. Common(ss)
  BY CommonStages
<1>2. Len(ss) \in 19..21
  BY Lengths DEF Loaders
<1>3. \A i \in 1..18 : host[h].stage = ss[i] => Next1(h) = ss[i + 1]
  BY <1>2, StageAfter, SMTT(30)
<1>4. l \in {"serve", "mcp"} =>
        /\ ss[18] = "ensure" /\ ss[19] = "reconcile" /\ ss[20] = "sweep" /\ ss[21] = "up"
        /\ \A i \in 1..20 : host[h].stage = ss[i] => Next1(h) = ss[i + 1]
  BY LastStages, Lengths, StageAfter
<1>5. l = "cli" =>
        /\ ss[18] = "ensure" /\ ss[19] = "reconcile" /\ ss[20] = "up"
        /\ host[h].stage = ss[19] => Next1(h) = ss[20]
  <2>. SUFFICES ASSUME l = "cli"
                PROVE  /\ ss[18] = "ensure" /\ ss[19] = "reconcile" /\ ss[20] = "up"
                       /\ host[h].stage = ss[19] => Next1(h) = ss[20]
    OBVIOUS
  <2>1. ss[18] = "ensure" /\ ss[19] = "reconcile" /\ ss[20] = "up"
    BY LastStages
  <2>2. Len(ss) = 20
    BY Lengths
  <2>3. 19 \in 1..Len(ss)
    <3>. HIDE DEF ss
    <3> QED
      BY <2>2
  <2> QED
    BY <2>1, <2>3, StageAfter
<1>6. l = "reindex" => ss[18] = "reconcile" /\ ss[19] = "up"
  BY LastStages
<1>7. l \in Loaders
  OBVIOUS
<1>. DEFINE now == host[h].stage
            then == Next1(h)
<1>8. /\ now = ss[1] => then = ss[2]
      /\ now = ss[2] => then = ss[3]
      /\ now = ss[3] => then = ss[4]
      /\ now = ss[4] => then = ss[5]
      /\ now = ss[5] => then = ss[6]
      /\ now = ss[6] => then = ss[7]
      /\ now = ss[7] => then = ss[8]
      /\ now = ss[8] => then = ss[9]
      /\ now = ss[9] => then = ss[10]
      /\ now = ss[10] => then = ss[11]
      /\ now = ss[11] => then = ss[12]
      /\ now = ss[12] => then = ss[13]
      /\ now = ss[13] => then = ss[14]
      /\ now = ss[14] => then = ss[15]
      /\ now = ss[15] => then = ss[16]
      /\ now = ss[16] => then = ss[17]
      /\ now = ss[17] => then = ss[18]
      /\ now = ss[18] => then = ss[19]
  <2>. HIDE DEF ss, now, then
  <2>1. \A i \in 1..18 : now = ss[i] => then = ss[i + 1]
    BY <1>3 DEF ss, now, then
  <2> QED
    BY <2>1
<1>9. /\ l # "reindex" => ss[18] = "ensure" /\ ss[19] = "reconcile" /\ ss[20] \in {"sweep", "up"}
      /\ l = "reindex" => ss[18] = "reconcile"
      /\ l # "reindex" /\ now = ss[19] => then = ss[20]
      /\ ss[20] = "sweep" /\ l # "reindex" => l \in {"serve", "mcp"}
      /\ l \in {"serve", "mcp"} => ss[20] = "sweep" /\ (now = ss[20] => then = "up")
  BY <1>4, <1>5, <1>6, <1>7 DEF Loaders
<1>. HIDE DEF l, ss, now, then
<1>10. /\ now = "config" => then = "permissions"
       /\ now = "permissions" => then = "schema"
       /\ now = "schema" => then = "dedupeCommits"
       /\ now = "dedupeCommits" => then = "indexCommits"
       /\ now = "indexCommits" => then = "lookConflicts"
       /\ now = "lookConflicts" => then = "alterConflicts"
       /\ now = "alterConflicts" => then = "lookValueHash"
       /\ now = "lookValueHash" => then = "alterValueHash"
       /\ now = "alterValueHash" => then = "backfillValueHash"
       /\ now = "backfillValueHash" => then = "indexValueHash"
       /\ now = "indexValueHash" => then = "lookTransactions"
       /\ now = "lookTransactions" => then = "alterTransactions"
       /\ now = "alterTransactions" => then = "indexApprovals"
       /\ now = "indexApprovals" => then = "relations"
       /\ now = "relations" => then = "lookApprovals"
       /\ now = "lookApprovals" => then = "alterApprovals"
  BY <1>1, <1>8 DEF Common
<1>11. /\ now = "alterApprovals" => then = ss[18]
       /\ l = "reindex" => ss[18] = "reconcile"
       /\ l # "reindex" => ss[18] = "ensure"
       /\ l # "reindex" /\ now = "ensure" => then = "reconcile"
  BY <1>1, <1>8, <1>9 DEF Common
<1>12. l # "reindex" /\ now = "reconcile" => then = ss[20]
  BY <1>9
<1>13. /\ now = "alterApprovals" => then \in {"ensure", "reconcile"}
       /\ now = "alterApprovals" => (then = "ensure" <=> l # "reindex")
       /\ now = "reconcile" /\ l # "reindex" => then \in {"sweep", "up"}
       /\ now = "reconcile" /\ l # "reindex" /\ then = "sweep" => l \in {"serve", "mcp"}
       /\ now = "sweep" /\ l \in {"serve", "mcp"} => then = "up"
  BY <1>9, <1>11, <1>12
<1> QED
  BY <1>10, <1>11, <1>13 DEF l, now, then

-----------------------------------------------------------------------------
\* What a step of one host changes in the hosts.

HostStages == OpenStages \cup {"idle", "failed", "up"}

Others(h) == \A g \in Hosts \ {h} : host'[g] = host[g]

Turned(h, stage, saw, todo) ==
  /\ host' \in [Hosts -> HostType] /\ Others(h)
  /\ host'[h].stage = stage /\ host'[h].saw = saw /\ host'[h].todo = todo
  /\ host'[h].loader = host[h].loader

Reset(h, stage, loader) ==
  /\ host' \in [Hosts -> HostType] /\ Others(h)
  /\ host'[h].stage = stage /\ host'[h].saw = {} /\ host'[h].todo = {}
  /\ host'[h].loader = loader

LEMMA HostFields ==
  \A r \in HostType :
    /\ r.stage \in HostStages /\ r.loader \in Loaders \cup {None} /\ r.saw \subseteq Columns
    /\ r.todo \subseteq Notes /\ r.note \in Notes \cup {None} /\ r.error \in Errors
BY DEF HostType, HostStages

\* A record of a host with one field changed.
LEMMA HostExcept ==
  \A r \in HostType :
    /\ \A s \in HostStages : [r EXCEPT !.stage = s] \in HostType
    /\ \A l \in Loaders : [r EXCEPT !.loader = l] \in HostType
    /\ \A c \in SUBSET Columns : [r EXCEPT !.saw = c] \in HostType
    /\ \A t \in SUBSET Notes : [r EXCEPT !.todo = t] \in HostType
    /\ \A n \in Notes \cup {None} : [r EXCEPT !.note = n] \in HostType
    /\ \A e \in Errors : [r EXCEPT !.error = e] \in HostType
<1>. SUFFICES ASSUME NEW r \in HostType
              PROVE  /\ \A s \in HostStages : [r EXCEPT !.stage = s] \in HostType
                     /\ \A l \in Loaders : [r EXCEPT !.loader = l] \in HostType
                     /\ \A c \in SUBSET Columns : [r EXCEPT !.saw = c] \in HostType
                     /\ \A t \in SUBSET Notes : [r EXCEPT !.todo = t] \in HostType
                     /\ \A n \in Notes \cup {None} : [r EXCEPT !.note = n] \in HostType
                     /\ \A e \in Errors : [r EXCEPT !.error = e] \in HostType
  OBVIOUS
<1>1. \A s \in HostStages : [r EXCEPT !.stage = s] \in HostType
  BY DEF HostType, HostStages
<1>2. \A l \in Loaders : [r EXCEPT !.loader = l] \in HostType
  BY DEF HostType
<1>3. \A c \in SUBSET Columns : [r EXCEPT !.saw = c] \in HostType
  BY DEF HostType
<1>4. \A t \in SUBSET Notes : [r EXCEPT !.todo = t] \in HostType
  BY DEF HostType
<1>5. \A e \in Errors : [r EXCEPT !.error = e] \in HostType
  BY DEF HostType
<1>6. \A n \in Notes \cup {None} : [r EXCEPT !.note = n] \in HostType
  BY DEF HostType
<1> QED
  BY <1>1, <1>2, <1>3, <1>4, <1>5, <1>6

LEMMA AdvanceTurns ==
  ASSUME host \in [Hosts -> HostType], NEW h \in Hosts, Next1(h) \in HostStages, Advance(h)
  PROVE  Turned(h, Next1(h), {}, host[h].todo)
<1>. DEFINE r == host[h]
            q == [r EXCEPT !.stage = Next1(h)]
            p == [q EXCEPT !.saw = {}]
<1>1. r \in HostType
  OBVIOUS
<1>2. q \in HostType
  BY <1>1, HostExcept
<1>3. p \in HostType
  BY <1>2, HostExcept
<1>4. p.stage = Next1(h) /\ p.saw = {} /\ p.todo = r.todo /\ p.loader = r.loader
  BY <1>1 DEF HostType
<1>5. host' = [host EXCEPT ![h] = p]
  BY <1>1 DEF Advance
<1>. HIDE DEF p, q
<1> QED
  BY <1>3, <1>4, <1>5 DEF Turned, Others

LEMMA LookTurns ==
  ASSUME host \in [Hosts -> HostType], NEW h \in Hosts, Next1(h) \in HostStages,
         journal.columns \subseteq Columns,
         host' = [host EXCEPT ![h].stage = Next1(h), ![h].saw = journal.columns]
  PROVE  Turned(h, Next1(h), journal.columns, host[h].todo)
<1>. DEFINE r == host[h]
            q == [r EXCEPT !.stage = Next1(h)]
            p == [q EXCEPT !.saw = journal.columns]
<1>1. r \in HostType
  OBVIOUS
<1>2. q \in HostType
  BY <1>1, HostExcept
<1>3. p \in HostType
  BY <1>2, HostExcept
<1>4. p.stage = Next1(h) /\ p.saw = journal.columns /\ p.todo = r.todo /\ p.loader = r.loader
  BY <1>1 DEF HostType
<1>5. host' = [host EXCEPT ![h] = p]
  BY <1>1
<1>. HIDE DEF p, q
<1> QED
  BY <1>3, <1>4, <1>5 DEF Turned, Others

\* What ensureJournal and the reindex command turn to: a rebuild.
LEMMA RebuildTurns ==
  ASSUME host \in [Hosts -> HostType], NEW h \in Hosts,
         host' = [host EXCEPT ![h].stage = "rebuild", ![h].todo = Notes]
  PROVE  Turned(h, "rebuild", host[h].saw, Notes)
<1>. DEFINE r == host[h]
            q == [r EXCEPT !.stage = "rebuild"]
            p == [q EXCEPT !.todo = Notes]
<1>1. r \in HostType
  OBVIOUS
<1>2. q \in HostType
  BY <1>1, HostExcept DEF HostStages, OpenStages
<1>3. p \in HostType
  <2>1. Notes \in SUBSET Notes
    OBVIOUS
  <2>. HIDE DEF q
  <2> QED
    BY <1>2, <2>1, HostExcept
<1>4. p.stage = "rebuild" /\ p.saw = r.saw /\ p.todo = Notes /\ p.loader = r.loader
  BY <1>1 DEF HostType
<1>5. host' = [host EXCEPT ![h] = p]
  BY <1>1
<1>. HIDE DEF p, q
<1> QED
  BY <1>3, <1>4, <1>5 DEF Turned, Others

\* A rebuild between its looks and its writes.
LEMMA LookedTurns ==
  ASSUME host \in [Hosts -> HostType], NEW h \in Hosts, NEW s \in HostStages, NEW n \in Notes,
         host' = [host EXCEPT ![h].stage = s, ![h].note = n]
  PROVE  Turned(h, s, host[h].saw, host[h].todo) /\ host'[h].note = n
<1>. DEFINE r == host[h]
            q == [r EXCEPT !.stage = s]
            p == [q EXCEPT !.note = n]
<1>1. r \in HostType
  OBVIOUS
<1>2. q \in HostType
  BY <1>1, HostExcept
<1>3. p \in HostType
  BY <1>2, HostExcept
<1>4. p.stage = s /\ p.saw = r.saw /\ p.todo = r.todo /\ p.loader = r.loader /\ p.note = n
  BY <1>1 DEF HostType
<1>5. host' = [host EXCEPT ![h] = p]
  BY <1>1
<1>. HIDE DEF p, q
<1> QED
  BY <1>3, <1>4, <1>5 DEF Turned, Others

LEMMA NoteTurns ==
  ASSUME host \in [Hosts -> HostType], NEW h \in Hosts, NoteDone(h)
  PROVE  Turned(h, "rebuild", host[h].saw, host[h].todo \ {host[h].note})
<1>. DEFINE r == host[h]
            t == r.todo \ {r.note}
            q == [r EXCEPT !.stage = "rebuild"]
            o == [q EXCEPT !.todo = t]
            p == [o EXCEPT !.note = None]
<1>1. r \in HostType
  OBVIOUS
<1>2. t \in SUBSET Notes
  BY <1>1, HostFields
<1>3. q \in HostType
  BY <1>1, HostExcept DEF HostStages, OpenStages
<1>4. o \in HostType
  <2>. HIDE DEF q, t
  <2> QED
    BY <1>2, <1>3, HostExcept
<1>5. p \in HostType
  <2>. HIDE DEF o
  <2> QED
    BY <1>4, HostExcept
<1>6. p.stage = "rebuild" /\ p.saw = r.saw /\ p.todo = t /\ p.loader = r.loader
  BY <1>1 DEF HostType
<1>7. host' = [host EXCEPT ![h] = p]
  BY <1>1 DEF NoteDone
<1>. HIDE DEF p, o, q
<1> QED
  BY <1>5, <1>6, <1>7 DEF Turned, Others

\* A sweep has its list, or one note less on it.
LEMMA TodoTurns ==
  ASSUME host \in [Hosts -> HostType], NEW h \in Hosts, NEW s \in HostStages, NEW t \in SUBSET Notes,
         \/ host' = [host EXCEPT ![h].stage = s, ![h].todo = t]
         \/ s = host[h].stage /\ host' = [host EXCEPT ![h].todo = t]
  PROVE  Turned(h, s, host[h].saw, t)
<1>. DEFINE r == host[h]
            q == [r EXCEPT !.stage = s]
            p == [q EXCEPT !.todo = t]
<1>1. r \in HostType
  OBVIOUS
<1>2. q \in HostType
  BY <1>1, HostExcept
<1>3. p \in HostType
  BY <1>2, HostExcept
<1>4. p.stage = s /\ p.saw = r.saw /\ p.todo = t /\ p.loader = r.loader
  BY <1>1 DEF HostType
<1>5. host' = [host EXCEPT ![h] = p]
  <2>1. CASE host' = [host EXCEPT ![h].stage = s, ![h].todo = t]
    BY <1>1, <2>1
  <2>2. CASE s = r.stage /\ host' = [host EXCEPT ![h].todo = t]
    <3>1. q = r
      BY <1>1, <2>2 DEF HostType
    <3>. HIDE DEF q
    <3> QED
      BY <1>1, <2>2, <3>1
  <2> QED
    BY <2>1, <2>2
<1>. HIDE DEF p, q
<1> QED
  BY <1>3, <1>4, <1>5 DEF Turned, Others

LEMMA StageTurns ==
  ASSUME host \in [Hosts -> HostType], NEW h \in Hosts, NEW s \in HostStages,
         host' = [host EXCEPT ![h].stage = s]
  PROVE  Turned(h, s, host[h].saw, host[h].todo)
<1>. DEFINE r == host[h]
            p == [r EXCEPT !.stage = s]
<1>1. r \in HostType
  OBVIOUS
<1>2. p \in HostType
  BY <1>1, HostExcept
<1>3. p.stage = s /\ p.saw = r.saw /\ p.todo = r.todo /\ p.loader = r.loader
  BY <1>1 DEF HostType
<1>4. host' = [host EXCEPT ![h] = p]
  BY <1>1
<1>. HIDE DEF p
<1> QED
  BY <1>2, <1>3, <1>4 DEF Turned, Others

LEMMA ResetTurns ==
  ASSUME host \in [Hosts -> HostType], NEW h \in Hosts, NEW r \in HostType,
         r.saw = {}, r.todo = {}, host' = [host EXCEPT ![h] = r]
  PROVE  Reset(h, r.stage, r.loader)
BY DEF Reset, Others

LEMMA IdleHost ==
  /\ Idle \in HostType /\ Idle.stage = "idle" /\ Idle.loader = None
  /\ Idle.saw = {} /\ Idle.todo = {}
BY DEF Idle, HostType, Errors

LEMMA RefuseTurns ==
  ASSUME host \in [Hosts -> HostType], NEW h \in Hosts, NEW e \in Errors, Refuse(h, e)
  PROVE  Reset(h, "failed", None)
<1>. DEFINE q == [Idle EXCEPT !.stage = "failed"]
            r == [q EXCEPT !.error = e]
<1>1. q \in HostType
  BY IdleHost, HostExcept DEF HostStages
<1>2. r \in HostType
  <2>. HIDE DEF q
  <2> QED
    BY <1>1, HostExcept
<1>3. r.stage = "failed" /\ r.loader = None /\ r.saw = {} /\ r.todo = {}
  BY DEF Idle
<1>4. host' = [host EXCEPT ![h] = r]
  BY DEF Refuse
<1>. HIDE DEF r
<1> QED
  BY <1>2, <1>3, <1>4, ResetTurns

LEMMA StartTurns ==
  ASSUME host \in [Hosts -> HostType], NEW h \in Hosts, NEW l \in Loaders,
         host' = [host EXCEPT ![h] = [Idle EXCEPT !.stage = "config", !.loader = l]]
  PROVE  Reset(h, "config", l)
<1>. DEFINE q == [Idle EXCEPT !.stage = "config"]
            r == [q EXCEPT !.loader = l]
<1>1. q \in HostType
  BY IdleHost, HostExcept DEF HostStages, OpenStages
<1>2. r \in HostType
  <2>. HIDE DEF q
  <2> QED
    BY <1>1, HostExcept
<1>3. r.stage = "config" /\ r.loader = l /\ r.saw = {} /\ r.todo = {}
  BY DEF Idle
<1>4. host' = [host EXCEPT ![h] = r]
  OBVIOUS
<1>. HIDE DEF r
<1> QED
  BY <1>2, <1>3, <1>4, ResetTurns, ZenonT(30)

LEMMA IdleTurns ==
  ASSUME host \in [Hosts -> HostType], NEW h \in Hosts, host' = [host EXCEPT ![h] = Idle]
  PROVE  Reset(h, "idle", None)
BY IdleHost, ResetTurns

-----------------------------------------------------------------------------
\* What every statement of openJournal does to the journal: it adds, and what
\* it takes away is what the migrations are there to take away.

Grown ==
  /\ journal.tables \subseteq journal'.tables /\ journal.columns \subseteq journal'.columns
  /\ journal'.twins => journal.twins
  /\ journal.indexes \ {"pairKindFact"} \subseteq journal'.indexes
  /\ "pairKindFact" \in journal'.indexes => "pairKindFact" \in journal.indexes
  /\ journal'.dismissed = "blank" => journal.dismissed = "blank"

Rows == journal'.memories = journal.memories /\ journal'.commits = journal.commits

LEMMA JournalFields ==
  \A j \in JournalType :
    /\ j.tables \subseteq Tables /\ j.columns \subseteq Columns /\ j.indexes \subseteq Indexes
    /\ j.twins \in BOOLEAN /\ j.dismissed \in {None, "blank", "hashed"} /\ j.reopened \in BOOLEAN
    /\ j.memories \subseteq Notes /\ j.commits \subseteq Commits
BY DEF JournalType

\* A journal with one field changed.
LEMMA JournalExcept ==
  \A j \in JournalType :
    /\ \A x \in SUBSET Tables : [j EXCEPT !.tables = x] \in JournalType
    /\ \A x \in SUBSET Columns : [j EXCEPT !.columns = x] \in JournalType
    /\ \A x \in SUBSET Indexes : [j EXCEPT !.indexes = x] \in JournalType
    /\ \A x \in BOOLEAN : [j EXCEPT !.twins = x] \in JournalType
    /\ \A x \in {None, "blank", "hashed"} : [j EXCEPT !.dismissed = x] \in JournalType
    /\ \A x \in BOOLEAN : [j EXCEPT !.reopened = x] \in JournalType
    /\ \A x \in SUBSET Notes : [j EXCEPT !.memories = x] \in JournalType
    /\ \A x \in SUBSET Commits : [j EXCEPT !.commits = x] \in JournalType
<1>. SUFFICES ASSUME NEW j \in JournalType
              PROVE  /\ \A x \in SUBSET Tables : [j EXCEPT !.tables = x] \in JournalType
                     /\ \A x \in SUBSET Columns : [j EXCEPT !.columns = x] \in JournalType
                     /\ \A x \in SUBSET Indexes : [j EXCEPT !.indexes = x] \in JournalType
                     /\ \A x \in BOOLEAN : [j EXCEPT !.twins = x] \in JournalType
                     /\ \A x \in {None, "blank", "hashed"} : [j EXCEPT !.dismissed = x] \in JournalType
                     /\ \A x \in BOOLEAN : [j EXCEPT !.reopened = x] \in JournalType
                     /\ \A x \in SUBSET Notes : [j EXCEPT !.memories = x] \in JournalType
                     /\ \A x \in SUBSET Commits : [j EXCEPT !.commits = x] \in JournalType
  OBVIOUS
<1>1. \A x \in SUBSET Tables : [j EXCEPT !.tables = x] \in JournalType
  BY DEF JournalType
<1>2. \A x \in SUBSET Columns : [j EXCEPT !.columns = x] \in JournalType
  BY DEF JournalType
<1>3. \A x \in SUBSET Indexes : [j EXCEPT !.indexes = x] \in JournalType
  BY DEF JournalType
<1>4. \A x \in BOOLEAN : [j EXCEPT !.twins = x] \in JournalType
  BY DEF JournalType
<1>5. \A x \in {None, "blank", "hashed"} : [j EXCEPT !.dismissed = x] \in JournalType
  BY DEF JournalType
<1>6. \A x \in BOOLEAN : [j EXCEPT !.reopened = x] \in JournalType
  BY DEF JournalType
<1>7. \A x \in SUBSET Notes : [j EXCEPT !.memories = x] \in JournalType
  BY DEF JournalType
<1>8. \A x \in SUBSET Commits : [j EXCEPT !.commits = x] \in JournalType
  BY DEF JournalType
<1> QED
  BY <1>1, <1>2, <1>3, <1>4, <1>5, <1>6, <1>7, <1>8

\* A host that does not move keeps what its statements left behind.
LEMMA Kept ==
  ASSUME NEW g \in Hosts, Prepared(g), Grown, host'[g] = host[g],
         journal' \in JournalType
  PROVE  Prepared(g)'
<1>1. journal'.tables \subseteq Tables
  BY JournalFields
<1> QED
  BY <1>1 DEF Prepared, Grown

\* A step of one host: what its own record and the journal must satisfy for
\* everything that is not about the index.
LEMMA HostStep ==
  ASSUME Inv, NEW h \in Hosts, host' \in [Hosts -> HostType], Others(h),
         journal' \in JournalType, Grown, ~journal'.reopened, LeftInv',
         Prepared(h)', Opening(h)' => host'[h].loader \in Loaders,
         host'[h].stage = "ensure" => host'[h].loader # "reindex",
         host'[h].stage = "sweep" => host'[h].loader \in {"serve", "mcp"},
         host'[h].stage \in {"insert", "update"} => host'[h].note \in Notes,
         host'[h].stage \in {"idle", "failed"} => host'[h].saw = {},
         UNCHANGED <<vault, setup, minted>>, lock' \in Hosts \cup {None, Dead}, IndexInv'
  PROVE  Inv'
<1>1. TypeOK'
  <2>1. \A g \in Hosts : Opening(g)' => host'[g].loader \in Loaders
    BY DEF Inv, TypeOK, Opening, Others
  <2> QED
    BY <2>1 DEF Inv, TypeOK
<1>2. LoaderInv'
  BY DEF Inv, LoaderInv, Others
<1>3. MigratedInv'
  <2>1. \A g \in Hosts \ {h} : Prepared(g)'
    BY Kept DEF Inv, MigratedInv, Others
  <2> QED
    BY <2>1 DEF MigratedInv
<1>4. SetupInv'
  BY DEF Inv, SetupInv
<1> QED
  BY <1>1, <1>2, <1>3, <1>4 DEF Inv

LEMMA LockType == Inv => lock \in Hosts \cup {None, Dead}
BY DEF Inv, TypeOK

\* The index, when a host that is not to fill it moves on without touching a
\* row, to a stage that may rely on what it knew already.
LEMMA IndexKept ==
  ASSUME Inv, NEW h \in Hosts, Others(h), left'.calm = left.calm,
         ~Going(h), ~Rebuilding(h)', journal'.memories = journal.memories,
         journal'.commits = journal.commits \/ (left.calm => Whole),
         \/ host'[h].stage \notin {"sweep", "forgetting", "up", "reconcile"}
         \/ host'[h].stage = "reconcile" /\ host'[h].loader = "reindex"
         \/ left.calm => Whole
  PROVE  IndexInv'
<1>. SUFFICES ASSUME left.calm PROVE IndexInv'
  BY DEF IndexInv
<1>0. ~Going(h)' /\ \A g \in Hosts \ {h} : Rebuilding(g)' <=> Rebuilding(g)
  BY DEF Going, Rebuilding, Others
<1>1. \A g \in Hosts : Going(g)' <=> Going(g)
  BY <1>0 DEF Going, Doomed, Others
<1>2. Whole' <=> Whole
  BY <1>1 DEF Whole
<1>3. \A g \in Hosts : Rebuilding(g)' => Notes \subseteq journal'.memories \cup host'[g].todo
  BY <1>0 DEF Inv, IndexInv, Others
<1>4. \A g \in Hosts : host'[g].stage = "update" => host'[g].note \in journal'.memories
  <2>1. host'[h].stage # "update"
    BY DEF Rebuilding
  <2> QED
    BY <2>1 DEF Inv, IndexInv, Others
<1>5. journal'.memories # {} \/ journal'.commits # {} => Whole'
  BY <1>2 DEF Inv, IndexInv
<1>6. \A g \in Hosts : \/ host'[g].stage \in {"sweep", "forgetting", "up"}
                       \/ host'[g].stage = "reconcile" /\ host'[g].loader # "reindex"
                       => Whole'
  BY <1>2 DEF Inv, IndexInv, Others
<1> QED
  BY <1>3, <1>4, <1>5, <1>6 DEF IndexInv

\* A statement of openJournal: the host moves on to the next stage.
LEMMA Statement ==
  ASSUME Inv, NEW h \in Hosts, Opening(h), ~Rebuilding(h),
         host[h].stage \notin {"ensure", "reconcile", "sweep", "forgetting"},
         NEW saw, saw \subseteq journal'.columns, Turned(h, Next1(h), saw, host[h].todo),
         journal' \in JournalType, Grown, Rows, ~journal'.reopened, Prepared(h)',
         UNCHANGED <<vault, setup, minted, lock, left>>
  PROVE  Inv'
<1>1. host[h].loader \in Loaders
  BY DEF Inv, TypeOK
<1>2. /\ Next1(h) \notin {"idle", "failed", "up", "sweep", "forgetting", "rebuild", "insert", "update"}
      /\ Next1(h) = "reconcile" => host[h].loader = "reindex"
      /\ Next1(h) = "ensure" => host[h].loader # "reindex"
  <2>1. host[h].stage \in OpenStages \ {"ensure", "rebuild", "insert", "update", "reconcile", "sweep",
                                        "forgetting"}
    BY HostFields DEF Opening, Rebuilding, Inv, TypeOK, HostStages
  <2>2. host[h].stage \in {
          "config", "permissions", "schema", "dedupeCommits", "indexCommits", "lookConflicts",
          "alterConflicts", "lookValueHash", "alterValueHash", "backfillValueHash", "indexValueHash",
          "lookTransactions", "alterTransactions", "indexApprovals", "relations", "lookApprovals",
          "alterApprovals"}
    BY <2>1 DEF OpenStages
  <2> QED
    BY <1>1, <2>2, NextStage
<1>3. IndexInv'
  BY <1>2, IndexKept DEF Turned, Rows, Rebuilding, Going
<1>4. LeftInv'
  BY DEF Inv, LeftInv
<1> QED
  BY <1>1, <1>2, <1>3, <1>4, HostStep, LockType DEF Turned

\* A host that lets go of the journal, or takes hold of it.
LEMMA ResetStep ==
  ASSUME Inv, NEW h \in Hosts, NEW s \in {"idle", "failed", "config"}, NEW l \in Loaders \cup {None},
         s = "config" => l \in Loaders, Reset(h, s, l),
         left.calm => ~Going(h), LeftInv', left'.calm = left.calm,
         UNCHANGED <<vault, journal, setup, minted>>, lock' \in Hosts \cup {None, Dead}
  PROVE  Inv'
<1>1. IndexInv'
  <2>1. CASE ~left.calm
    BY <2>1 DEF IndexInv
  <2>2. CASE ~Going(h)
    BY <2>2, IndexKept DEF Reset, Rebuilding
  <2> QED
    BY <2>1, <2>2
<1>2. journal' \in JournalType /\ Grown /\ ~journal'.reopened
  BY DEF Inv, TypeOK, MigratedInv, Grown
<1>3. Prepared(h)'
  BY DEF Prepared, Reset, Behind
<1>4. Opening(h)' => host'[h].loader \in Loaders
  BY DEF Opening, Reset
<1> QED
  BY <1>1, <1>2, <1>3, <1>4, HostStep DEF Reset

LEMMA Refused ==
  ASSUME Inv, NEW h \in Hosts, ~Going(h), NEW e \in Errors, Refuse(h, e),
         UNCHANGED <<vault, journal, setup, minted, lock, left>>
  PROVE  Inv'
<1>1. Reset(h, "failed", None)
  BY RefuseTurns DEF Inv, TypeOK
<1>2. LeftInv'
  BY DEF Inv, LeftInv
<1> QED
  BY <1>1, <1>2, ResetStep, LockType

\* A statement that reads, or that finds its work done.
LEMMA Passing ==
  ASSUME Inv, NEW h \in Hosts, Advance(h), UNCHANGED <<vault, journal, setup, minted, lock, left>>,
         \/ host[h].stage \in {"config", "permissions"}
         \/ host[h].stage = "alterConflicts" /\ "conflictColumns" \in journal.columns
         \/ host[h].stage = "alterValueHash" /\ "valueHash" \in journal.columns
         \/ host[h].stage = "alterTransactions" /\ "approvalId" \in journal.columns
         \/ host[h].stage = "alterApprovals" /\ "staleReason" \in journal.columns
  PROVE  Inv'
<1>1. Opening(h) /\ ~Rebuilding(h) /\ host[h].loader \in Loaders
  BY DEF Opening, Rebuilding, Inv, TypeOK
<1>2. /\ host[h].stage = "config" => Next1(h) = "permissions"
      /\ host[h].stage = "permissions" => Next1(h) = "schema"
      /\ host[h].stage = "alterConflicts" => Next1(h) = "lookValueHash"
      /\ host[h].stage = "alterValueHash" => Next1(h) = "backfillValueHash"
      /\ host[h].stage = "alterTransactions" => Next1(h) = "indexApprovals"
      /\ host[h].stage = "alterApprovals" => Next1(h) \in {"ensure", "reconcile"}
  BY <1>1, NextStage
<1>3. Next1(h) \in HostStages
  BY <1>2 DEF HostStages, OpenStages
<1>4. Turned(h, Next1(h), {}, host[h].todo)
  BY <1>3, AdvanceTurns DEF Inv, TypeOK
<1>5. journal' \in JournalType /\ Grown /\ Rows /\ ~journal'.reopened
  BY DEF Inv, TypeOK, MigratedInv, Grown, Rows
<1>6. Prepared(h)'
  BY <1>2, <1>4 DEF Inv, MigratedInv, Prepared, Turned, Behind
<1> QED
  BY <1>1, <1>4, <1>5, <1>6, Statement

LEMMA Looking ==
  ASSUME Inv, NEW h \in Hosts,
         NEW s \in {"lookConflicts", "lookValueHash", "lookTransactions", "lookApprovals"},
         LookAtTable(h, s)
  PROVE  Inv'
<1>0. At(h, s) /\ UNCHANGED <<vault, journal, setup, minted, lock, left>>
  BY DEF LookAtTable
<1>1. Opening(h) /\ ~Rebuilding(h) /\ host[h].loader \in Loaders
  BY <1>0 DEF At, Opening, Rebuilding, Inv, TypeOK
<1>2. /\ s = "lookConflicts" => Next1(h) = "alterConflicts"
      /\ s = "lookValueHash" => Next1(h) = "alterValueHash"
      /\ s = "lookTransactions" => Next1(h) = "alterTransactions"
      /\ s = "lookApprovals" => Next1(h) = "alterApprovals"
  BY <1>0, <1>1, NextStage DEF At
<1>3. Next1(h) \in HostStages
  BY <1>2 DEF HostStages, OpenStages
<1>4. Turned(h, Next1(h), journal.columns, host[h].todo)
  BY <1>3, LookTurns, JournalFields DEF Inv, TypeOK, LookAtTable
<1>5. journal' \in JournalType /\ Grown /\ Rows /\ ~journal'.reopened
  BY <1>0 DEF Inv, TypeOK, MigratedInv, Grown, Rows
<1>6. Prepared(h)'
  BY <1>0, <1>2, <1>4 DEF At, Inv, MigratedInv, Prepared, Turned, Behind
<1> QED
  BY <1>0, <1>1, <1>4, <1>5, <1>6, Statement DEF At

\* An ALTER TABLE adds its column, finds it done, or is refused.
LEMMA Altering ==
  ASSUME Inv, NEW h \in Hosts, NEW s, NEW c,
         \/ s = "alterConflicts" /\ c = "conflictColumns"
         \/ s = "alterValueHash" /\ c = "valueHash"
         \/ s = "alterTransactions" /\ c = "approvalId"
         \/ s = "alterApprovals" /\ c = "staleReason",
         AlterTable(h, s, c)
  PROVE  Inv'
<1>0. At(h, s) /\ UNCHANGED <<vault, setup, minted, lock, left>>
  BY DEF AlterTable
<1>1. Opening(h) /\ ~Rebuilding(h) /\ host[h].loader \in Loaders
  BY <1>0 DEF At, Opening, Rebuilding, Inv, TypeOK
<1>2. CASE c \in host[h].saw
  <2>1. c \in journal.columns
    BY <1>2 DEF Inv, MigratedInv, Prepared
  <2>2. Advance(h) /\ UNCHANGED journal
    BY <1>2 DEF AlterTable
  <2> QED
    BY <1>0, <2>1, <2>2, Passing DEF At
<1>3. CASE c \notin host[h].saw /\ c \in journal.columns
  <2>1. Refuse(h, "duplicateColumn") /\ UNCHANGED journal
    BY <1>3 DEF AlterTable
  <2>2. "duplicateColumn" \in Errors
    BY DEF Errors
  <2> QED
    BY <1>0, <1>1, <2>1, <2>2, Refused DEF Going
<1>4. CASE c \notin host[h].saw /\ c \notin journal.columns
  <2>1. Advance(h) /\ journal' = [journal EXCEPT !.columns = @ \cup {c}]
    BY <1>4 DEF AlterTable
  <2>2. /\ s = "alterConflicts" => Next1(h) = "lookValueHash"
        /\ s = "alterValueHash" => Next1(h) = "backfillValueHash"
        /\ s = "alterTransactions" => Next1(h) = "indexApprovals"
        /\ s = "alterApprovals" => Next1(h) \in {"ensure", "reconcile"}
    BY <1>0, <1>1, NextStage DEF At
  <2>3. Next1(h) \in HostStages
    BY <2>2 DEF HostStages, OpenStages
  <2>4. Turned(h, Next1(h), {}, host[h].todo)
    BY <2>1, <2>3, AdvanceTurns DEF Inv, TypeOK
  <2>5. c \in Columns
    BY ColumnNames
  <2>6. journal \in JournalType /\ journal.columns \cup {c} \in SUBSET Columns
    BY <2>5, JournalFields DEF Inv, TypeOK
  <2>7. journal' \in JournalType
    BY <2>1, <2>6, JournalExcept
  <2>8. /\ journal'.columns = journal.columns \cup {c} /\ journal'.tables = journal.tables
        /\ journal'.twins = journal.twins /\ journal'.indexes = journal.indexes
        /\ journal'.dismissed = journal.dismissed /\ journal'.reopened = journal.reopened
        /\ journal'.memories = journal.memories /\ journal'.commits = journal.commits
    BY <2>1, <2>6 DEF JournalType
  <2>9. Grown /\ Rows /\ ~journal'.reopened
    BY <2>8 DEF Inv, MigratedInv, Grown, Rows
  <2>10. Prepared(h)'
    BY <1>0, <2>2, <2>4, <2>8 DEF At, Inv, MigratedInv, Prepared, Turned, Behind
  <2> QED
    BY <1>0, <1>1, <2>4, <2>7, <2>9, <2>10, Statement DEF At
<1> QED
  BY <1>2, <1>3, <1>4

\* A statement that changes the schema, and what it leaves behind.
LEMMA Working ==
  ASSUME Inv, NEW h \in Hosts, Advance(h), UNCHANGED <<vault, setup, minted, lock, left>>,
         journal' \in JournalType, Grown, Rows, journal'.reopened = journal.reopened,
         \/ At(h, "schema") /\ journal'.tables = Tables
         \/ At(h, "dedupeCommits") /\ ~journal'.twins
         \/ At(h, "indexCommits") /\ "commitSha" \in journal'.indexes
         \/ At(h, "backfillValueHash") /\ journal'.dismissed # "blank"
         \/ /\ At(h, "indexValueHash")
            /\ "pairKindFactValue" \in journal'.indexes /\ "pairKindFact" \notin journal'.indexes
         \/ At(h, "indexApprovals") /\ "transactionsApproval" \in journal'.indexes
         \/ At(h, "relations")
  PROVE  Inv'
<1>. DEFINE s == host[h].stage
<1>1. Opening(h) /\ ~Rebuilding(h) /\ host[h].loader \in Loaders
  BY DEF At, Opening, Rebuilding, Inv, TypeOK
<1>2. /\ s = "schema" => Next1(h) = "dedupeCommits"
      /\ s = "dedupeCommits" => Next1(h) = "indexCommits"
      /\ s = "indexCommits" => Next1(h) = "lookConflicts"
      /\ s = "backfillValueHash" => Next1(h) = "indexValueHash"
      /\ s = "indexValueHash" => Next1(h) = "lookTransactions"
      /\ s = "indexApprovals" => Next1(h) = "relations"
      /\ s = "relations" => Next1(h) = "lookApprovals"
  BY <1>1, NextStage
<1>3. s \in {"schema", "dedupeCommits", "indexCommits", "backfillValueHash", "indexValueHash",
             "indexApprovals", "relations"}
  BY DEF At
<1>4. Next1(h) \in HostStages
  BY <1>2, <1>3 DEF HostStages, OpenStages
<1>5. Turned(h, Next1(h), {}, host[h].todo)
  BY <1>4, AdvanceTurns DEF Inv, TypeOK
<1>6. Prepared(h) /\ journal'.tables \subseteq Tables /\ ~journal'.reopened
  BY JournalFields DEF Inv, MigratedInv
<1>9. /\ host[h].stage # "schema" => journal'.tables = Tables
      /\ journal.columns \subseteq journal'.columns /\ (journal'.twins => journal.twins)
      /\ \A i \in Indexes \ {"pairKindFact"} : i \in journal.indexes => i \in journal'.indexes
      /\ "pairKindFact" \in journal'.indexes => "pairKindFact" \in journal.indexes
      /\ journal'.dismissed = "blank" => journal.dismissed = "blank"
  <2>1. host[h].stage # "schema" => Behind[host[h].stage] > 0
    BY <1>3 DEF Behind
  <2> QED
    BY <1>6, <2>1 DEF Prepared, Grown
<1>7. Prepared(h)'
  <2>1. CASE s = "schema"
    <3>1. Behind[s] = 0 /\ Behind[host'[h].stage] = 1
      BY <1>2, <1>5, <2>1 DEF Turned, Behind
    <3>2. journal'.tables = Tables
      BY <2>1 DEF At
    <3> QED
      BY <1>5, <1>6, <1>9, <2>1, <3>1, <3>2 DEF Prepared, Turned, Indexes
  <2>2. CASE s = "dedupeCommits"
    <3>1. Behind[s] = 1 /\ Behind[host'[h].stage] = 2
      BY <1>2, <1>5, <2>2 DEF Turned, Behind
    <3>2. ~journal'.twins
      BY <2>2 DEF At
    <3> QED
      BY <1>5, <1>6, <1>9, <2>2, <3>1, <3>2 DEF Prepared, Turned, Indexes
  <2>3. CASE s = "indexCommits"
    <3>1. Behind[s] = 2 /\ Behind[host'[h].stage] = 3
      BY <1>2, <1>5, <2>3 DEF Turned, Behind
    <3>2. "commitSha" \in journal'.indexes
      BY <2>3 DEF At
    <3> QED
      BY <1>5, <1>6, <1>9, <2>3, <3>1, <3>2 DEF Prepared, Turned, Indexes
  <2>4. CASE s = "backfillValueHash"
    <3>1. Behind[s] = 7 /\ Behind[host'[h].stage] = 8
      BY <1>2, <1>5, <2>4 DEF Turned, Behind
    <3>2. journal'.dismissed # "blank"
      BY <2>4 DEF At
    <3> QED
      BY <1>5, <1>6, <1>9, <2>4, <3>1, <3>2 DEF Prepared, Turned, Indexes
  <2>5. CASE s = "indexValueHash"
    <3>1. Behind[s] = 8 /\ Behind[host'[h].stage] = 9
      BY <1>2, <1>5, <2>5 DEF Turned, Behind
    <3>2. "pairKindFactValue" \in journal'.indexes /\ "pairKindFact" \notin journal'.indexes
      BY <2>5 DEF At
    <3> QED
      BY <1>5, <1>6, <1>9, <2>5, <3>1, <3>2 DEF Prepared, Turned, Indexes
  <2>6. CASE s = "indexApprovals"
    <3>1. Behind[s] = 11 /\ Behind[host'[h].stage] = 12
      BY <1>2, <1>5, <2>6 DEF Turned, Behind
    <3>2. "transactionsApproval" \in journal'.indexes
      BY <2>6 DEF At
    <3> QED
      BY <1>5, <1>6, <1>9, <2>6, <3>1, <3>2 DEF Prepared, Turned, Indexes
  <2>7. CASE s = "relations"
    <3>1. Behind[s] = 12 /\ Behind[host'[h].stage] = 13
      BY <1>2, <1>5, <2>7 DEF Turned, Behind
    <3> QED
      BY <1>5, <1>6, <1>9, <2>7, <3>1 DEF Prepared, Turned, Indexes
  <2> QED
    BY <1>3, <2>1, <2>2, <2>3, <2>4, <2>5, <2>6, <2>7
<1>8. s \notin {"ensure", "reconcile", "sweep", "forgetting"}
  BY <1>3
<1> QED
  BY <1>1, <1>5, <1>6, <1>7, <1>8, Statement

\* The journal after each of them: only the field it writes is another.
LEMMA SchemaSteps ==
  ASSUME Inv, NEW h \in Hosts,
         \/ CreateSchema(h) \/ DedupeCommits(h) \/ IndexCommits(h)
         \/ BackfillValueHash(h) \/ IndexValueHash(h) \/ CreateApprovalIndex(h)
         \/ MigrateMemoryRelations(h)
  PROVE  Inv'
<1>. DEFINE j == journal
<1>1. /\ j \in JournalType /\ j.tables \subseteq Tables /\ j.columns \subseteq Columns
      /\ j.indexes \subseteq Indexes /\ j.dismissed \in {None, "blank", "hashed"}
  BY JournalFields DEF Inv, TypeOK
<1>2. CASE CreateSchema(h)
  <2>. DEFINE new == j.columns \cup UNION {Schema[t] : t \in Tables \ j.tables}
              q   == [j EXCEPT !.tables = Tables]
  <2>0. new \in SUBSET Columns /\ Tables \in SUBSET Tables
    BY <1>1 DEF Columns
  <2>. HIDE DEF new
  <2>1. journal' = [q EXCEPT !.columns = new]
    BY <1>1, <1>2 DEF CreateSchema, new, JournalType
  <2>2. q \in JournalType
    BY <1>1, <2>0, JournalExcept
  <2>3. /\ q.tables = Tables /\ q.twins = j.twins /\ q.indexes = j.indexes
        /\ q.dismissed = j.dismissed /\ q.reopened = j.reopened
        /\ q.memories = j.memories /\ q.commits = j.commits
    BY <1>1 DEF JournalType
  <2>. HIDE DEF q
  <2>4. journal' \in JournalType
    BY <2>0, <2>1, <2>2, JournalExcept
  <2>5. /\ journal'.tables = Tables /\ journal'.columns = new
        /\ journal'.twins = j.twins /\ journal'.indexes = j.indexes
        /\ journal'.dismissed = j.dismissed /\ journal'.reopened = j.reopened
        /\ journal'.memories = j.memories /\ journal'.commits = j.commits
    BY <2>1, <2>2, <2>3 DEF JournalType
  <2>6. j.columns \subseteq new
    BY DEF new
  <2> QED
    BY <1>1, <1>2, <2>4, <2>5, <2>6, Working DEF CreateSchema, Grown, Rows
<1>3. CASE DedupeCommits(h)
  <2>1. journal' = [j EXCEPT !.twins = FALSE]
    BY <1>3 DEF DedupeCommits
  <2>2. journal' \in JournalType
    BY <1>1, <2>1, JournalExcept
  <2>3. /\ journal'.tables = j.tables /\ journal'.columns = j.columns
        /\ journal'.twins = FALSE /\ journal'.indexes = j.indexes
        /\ journal'.dismissed = j.dismissed /\ journal'.reopened = j.reopened
        /\ journal'.memories = j.memories /\ journal'.commits = j.commits
    BY <1>1, <2>1 DEF JournalType
  <2> QED
    BY <1>3, <2>2, <2>3, Working DEF DedupeCommits, Grown, Rows
<1>4. CASE IndexCommits(h)
  <2>0. At(h, "indexCommits") /\ UNCHANGED <<vault, setup, minted, lock, left>>
    BY <1>4 DEF IndexCommits
  <2>1. CASE j.twins
    <3>1. "uniqueFailed" \in Errors
      BY DEF Errors
    <3> QED
      BY <1>4, <2>0, <2>1, <3>1, Refused DEF IndexCommits, At, Rebuilding, Going
  <2>2. CASE ~j.twins
    <3>1. journal' = [j EXCEPT !.indexes = j.indexes \cup {"commitSha"}]
      BY <1>4, <2>2 DEF IndexCommits
    <3>2. j.indexes \cup {"commitSha"} \in SUBSET Indexes
      BY <1>1 DEF Indexes
    <3>3. journal' \in JournalType
      BY <1>1, <3>1, <3>2, JournalExcept
    <3>4. /\ journal'.tables = j.tables /\ journal'.columns = j.columns
          /\ journal'.twins = j.twins /\ journal'.indexes = j.indexes \cup {"commitSha"}
          /\ journal'.dismissed = j.dismissed /\ journal'.reopened = j.reopened
          /\ journal'.memories = j.memories /\ journal'.commits = j.commits
      BY <1>1, <3>1 DEF JournalType
    <3>5. Advance(h)
      BY <1>4, <2>2 DEF IndexCommits
    <3> QED
      BY <2>0, <3>3, <3>4, <3>5, Working DEF Grown, Rows
  <2> QED
    BY <2>1, <2>2
<1>5. CASE BackfillValueHash(h)
  <2>. DEFINE d == IF j.dismissed = "blank" THEN "hashed" ELSE j.dismissed
  <2>0. d \in {None, "blank", "hashed"} /\ d # "blank"
    BY <1>1
  <2>1. journal' = [j EXCEPT !.dismissed = d]
    BY <1>5 DEF BackfillValueHash
  <2>. HIDE DEF d
  <2>2. journal' \in JournalType
    BY <1>1, <2>0, <2>1, JournalExcept
  <2>3. /\ journal'.tables = j.tables /\ journal'.columns = j.columns
        /\ journal'.twins = j.twins /\ journal'.indexes = j.indexes
        /\ journal'.dismissed = d /\ journal'.reopened = j.reopened
        /\ journal'.memories = j.memories /\ journal'.commits = j.commits
    BY <1>1, <2>1 DEF JournalType
  <2> QED
    BY <1>5, <2>0, <2>2, <2>3, Working DEF BackfillValueHash, Grown, Rows
<1>6. CASE IndexValueHash(h)
  <2>. DEFINE x == (j.indexes \ {"pairKindFact"}) \cup {"pairKindFactValue"}
  <2>0. x \in SUBSET Indexes
    BY <1>1 DEF Indexes
  <2>1. journal' = [j EXCEPT !.indexes = x]
    BY <1>6 DEF IndexValueHash
  <2>2. /\ "pairKindFactValue" \in x /\ "pairKindFact" \notin x
        /\ j.indexes \ {"pairKindFact"} \subseteq x
    OBVIOUS
  <2>. HIDE DEF x
  <2>3. journal' \in JournalType
    BY <1>1, <2>0, <2>1, JournalExcept
  <2>4. /\ journal'.tables = j.tables /\ journal'.columns = j.columns
        /\ journal'.twins = j.twins /\ journal'.indexes = x
        /\ journal'.dismissed = j.dismissed /\ journal'.reopened = j.reopened
        /\ journal'.memories = j.memories /\ journal'.commits = j.commits
    BY <1>1, <2>1 DEF JournalType
  <2> QED
    BY <1>6, <2>2, <2>3, <2>4, Working DEF IndexValueHash, Grown, Rows
<1>7. CASE CreateApprovalIndex(h)
  <2>1. journal' = [j EXCEPT !.indexes = j.indexes \cup {"transactionsApproval"}]
    BY <1>7 DEF CreateApprovalIndex
  <2>2. j.indexes \cup {"transactionsApproval"} \in SUBSET Indexes
    BY <1>1 DEF Indexes
  <2>3. journal' \in JournalType
    BY <1>1, <2>1, <2>2, JournalExcept
  <2>4. /\ journal'.tables = j.tables /\ journal'.columns = j.columns
        /\ journal'.twins = j.twins /\ journal'.indexes = j.indexes \cup {"transactionsApproval"}
        /\ journal'.dismissed = j.dismissed /\ journal'.reopened = j.reopened
        /\ journal'.memories = j.memories /\ journal'.commits = j.commits
    BY <1>1, <2>1 DEF JournalType
  <2> QED
    BY <1>7, <2>3, <2>4, Working DEF CreateApprovalIndex, Grown, Rows
<1>8. CASE MigrateMemoryRelations(h)
  <2>1. journal' = [j EXCEPT !.tables = j.tables \cup {"memoryRelations"}]
    BY <1>8 DEF MigrateMemoryRelations
  <2>2. j.tables \cup {"memoryRelations"} \in SUBSET Tables
    BY <1>1, ColumnNames
  <2>3. journal' \in JournalType
    BY <1>1, <2>1, <2>2, JournalExcept
  <2>4. /\ journal'.tables = j.tables \cup {"memoryRelations"} /\ journal'.columns = j.columns
        /\ journal'.twins = j.twins /\ journal'.indexes = j.indexes
        /\ journal'.dismissed = j.dismissed /\ journal'.reopened = j.reopened
        /\ journal'.memories = j.memories /\ journal'.commits = j.commits
    BY <1>1, <2>1 DEF JournalType
  <2> QED
    BY <1>8, <2>3, <2>4, Working DEF MigrateMemoryRelations, Grown, Rows
<1> QED
  BY <1>2, <1>3, <1>4, <1>5, <1>6, <1>7, <1>8

-----------------------------------------------------------------------------
(* The index                                                                *)

\* What a host past openJournal relies on goes on being there.
LEMMA StillPrepared ==
  ASSUME Inv, NEW h \in Hosts, Grown, journal' \in JournalType, host'[h].saw \subseteq journal'.columns,
         Behind[host[h].stage] = 15, Behind[host'[h].stage] = 15
  PROVE  Prepared(h)'
<1>1. Prepared(h) /\ journal'.tables \subseteq Tables
  BY JournalFields DEF Inv, MigratedInv
<1> QED
  BY <1>1 DEF Prepared, Grown

\* A host that begins a rebuild has every note to do, and will not fail yet.
LEMMA IndexBegun ==
  ASSUME Inv, NEW h \in Hosts, NEW saw, Turned(h, "rebuild", saw, Notes),
         journal'.memories = journal.memories, left' = left
  PROVE  IndexInv'
<1>. SUFFICES ASSUME left.calm PROVE IndexInv'
  BY DEF IndexInv
<1>1. Rebuilding(h)' /\ Notes \subseteq host'[h].todo /\ host'[h].stage # "update"
  BY DEF Rebuilding, Turned
<1>2. Going(h)'
  BY DEF Going, Doomed, Rebuilding, Turned
<1>3. Whole'
  BY <1>2 DEF Whole
<1>4. \A g \in Hosts : Rebuilding(g)' => Notes \subseteq journal'.memories \cup host'[g].todo
  BY <1>1 DEF Turned, Others, Rebuilding, Inv, IndexInv
<1>5. \A g \in Hosts : host'[g].stage = "update" => host'[g].note \in journal'.memories
  BY <1>1 DEF Turned, Others, Inv, IndexInv
<1> QED
  BY <1>3, <1>4, <1>5 DEF IndexInv

LEMMA EnsureStep ==
  ASSUME Inv, NEW h \in Hosts, EnsureJournal(h)
  PROVE  Inv'
<1>0. host[h].stage = "ensure" /\ UNCHANGED <<vault, journal, setup, minted, lock, left>>
  BY DEF EnsureJournal, At
<1>1. Opening(h) /\ ~Rebuilding(h) /\ host[h].loader \in Loaders /\ host[h].loader # "reindex"
  BY <1>0 DEF Opening, Rebuilding, Inv, TypeOK, LoaderInv
<1>2. Next1(h) = "reconcile"
  BY <1>0, <1>1, NextStage
<1>3. journal' \in JournalType /\ Grown /\ Rows /\ ~journal'.reopened /\ LeftInv'
  BY <1>0 DEF Inv, TypeOK, MigratedInv, LeftInv, Grown, Rows
<1>4. Behind["ensure"] = 15 /\ Behind["reconcile"] = 15 /\ Behind["rebuild"] = 15
  BY DEF Behind
<1>5. CASE journal.memories # {} \/ journal.commits # {}
  <2>1. Turned(h, "reconcile", {}, host[h].todo)
    BY <1>0, <1>2, <1>5, AdvanceTurns DEF EnsureJournal, Inv, TypeOK, HostStages, OpenStages
  <2>2. left.calm => Whole
    BY <1>5 DEF Inv, IndexInv
  <2>3. IndexInv'
    BY <1>0, <1>1, <1>3, <2>1, <2>2, IndexKept DEF Turned, Rebuilding, Going
  <2>4. Prepared(h)'
    BY <1>0, <1>3, <1>4, <2>1, StillPrepared DEF Turned
  <2> QED
    BY <1>0, <1>1, <1>3, <2>1, <2>3, <2>4, HostStep, LockType DEF Turned
<1>6. CASE ~(journal.memories # {} \/ journal.commits # {})
  <2>1. Turned(h, "rebuild", host[h].saw, Notes)
    BY <1>0, <1>6, RebuildTurns DEF EnsureJournal, Inv, TypeOK
  <2>2. IndexInv'
    BY <1>0, <2>1, IndexBegun
  <2>3. host[h].saw \subseteq journal'.columns
    BY <1>0 DEF Inv, MigratedInv, Prepared
  <2>4. Prepared(h)'
    BY <1>0, <1>3, <1>4, <2>1, <2>3, StillPrepared DEF Turned
  <2> QED
    BY <1>0, <1>1, <1>3, <2>1, <2>2, <2>4, HostStep, LockType DEF Turned
<1> QED
  BY <1>5, <1>6

\* The SELECT of upsertMemory, and the statement it decides on.
LEMMA LookStep ==
  ASSUME Inv, NEW h \in Hosts, LookForMemory(h)
  PROVE  Inv'
<1>0. host[h].stage = "rebuild" /\ UNCHANGED <<vault, journal, setup, minted, lock, left>>
  BY DEF LookForMemory, At
<1>1. PICK n \in host[h].todo :
        host' = [host EXCEPT ![h].stage = IF n \in journal.memories THEN "update" ELSE "insert",
                             ![h].note = n]
  BY DEF LookForMemory
<1>. DEFINE s == IF n \in journal.memories THEN "update" ELSE "insert"
<1>2. /\ s \in {"update", "insert"} /\ s \in HostStages
      /\ s = "update" => n \in journal.memories
      /\ s = "insert" => n \notin journal.memories
  BY DEF HostStages, OpenStages
<1>3. host' = [host EXCEPT ![h].stage = s, ![h].note = n]
  BY <1>1
<1>. HIDE DEF s
<1>4. n \in Notes /\ host[h].loader \in Loaders
  BY <1>0, HostFields DEF Inv, TypeOK, Opening
<1>5. Turned(h, s, host[h].saw, host[h].todo) /\ host'[h].note = n
  BY <1>2, <1>3, <1>4, LookedTurns DEF Inv, TypeOK
<1>6. journal' \in JournalType /\ Grown /\ ~journal'.reopened /\ LeftInv'
  BY <1>0 DEF Inv, TypeOK, MigratedInv, LeftInv, Grown
<1>7. Prepared(h)'
  <2>1. Behind["rebuild"] = 15 /\ Behind["insert"] = 15 /\ Behind["update"] = 15
    BY DEF Behind
  <2>2. host[h].saw \subseteq journal'.columns
    BY <1>0 DEF Inv, MigratedInv, Prepared
  <2> QED
    BY <1>0, <1>2, <1>5, <1>6, <2>1, <2>2, StillPrepared DEF Turned
<1>8. IndexInv'
  <2>. SUFFICES ASSUME left.calm PROVE IndexInv'
    BY <1>0 DEF IndexInv
  <2>1. \A g \in Hosts : Rebuilding(g)' <=> Rebuilding(g)
    BY <1>0, <1>2, <1>5 DEF Rebuilding, Turned, Others
  <2>2. Going(h)'
    BY <1>0, <1>2, <1>5 DEF Going, Doomed, Rebuilding, Turned
  <2>3. Whole'
    BY <2>2 DEF Whole
  <2>4. \A g \in Hosts : Rebuilding(g)' => Notes \subseteq journal'.memories \cup host'[g].todo
    BY <1>0, <1>5, <2>1 DEF Turned, Others, Inv, IndexInv
  <2>5. \A g \in Hosts : host'[g].stage = "update" => host'[g].note \in journal'.memories
    BY <1>0, <1>2, <1>5 DEF Turned, Others, Inv, IndexInv
  <2> QED
    BY <2>3, <2>4, <2>5 DEF IndexInv
<1>9. /\ host'[h].stage \notin {"ensure", "sweep", "idle", "failed"}
      /\ host'[h].loader \in Loaders /\ host'[h].note \in Notes
      /\ host' \in [Hosts -> HostType] /\ Others(h)
  BY <1>2, <1>4, <1>5 DEF Turned
<1> QED
  BY <1>0, <1>6, <1>7, <1>8, <1>9, HostStep, LockType

\* The row of the note is there, and the host goes on to the next.
LEMMA NoteWritten ==
  ASSUME Inv, NEW h \in Hosts, host[h].stage \in {"insert", "update"}, NoteDone(h),
         journal' \in JournalType, Grown, ~journal'.reopened, journal'.columns = journal.columns,
         journal.memories \subseteq journal'.memories,
         left.calm => host[h].note \in journal'.memories,
         UNCHANGED <<vault, setup, minted, lock, left>>
  PROVE  Inv'
<1>. DEFINE n == host[h].note
<1>1. host[h].loader \in Loaders
  BY DEF Inv, TypeOK, Opening
<1>2. Turned(h, "rebuild", host[h].saw, host[h].todo \ {n})
  BY NoteTurns DEF Inv, TypeOK
<1>3. LeftInv'
  BY DEF Inv, LeftInv
<1>4. Prepared(h)'
  <2>1. Behind["rebuild"] = 15 /\ Behind["insert"] = 15 /\ Behind["update"] = 15
    BY DEF Behind
  <2>2. host[h].saw \subseteq journal'.columns
    BY DEF Inv, MigratedInv, Prepared
  <2> QED
    BY <1>2, <2>1, <2>2, StillPrepared DEF Turned
<1>5. IndexInv'
  <2>. SUFFICES ASSUME left.calm PROVE IndexInv'
    BY DEF IndexInv
  <2>1. \A g \in Hosts : Rebuilding(g)' <=> Rebuilding(g)
    BY <1>2 DEF Rebuilding, Turned, Others
  <2>2. Going(h)'
    BY <1>2 DEF Going, Doomed, Rebuilding, Turned
  <2>3. Whole'
    BY <2>2 DEF Whole
  <2>4. Notes \subseteq journal.memories \cup host[h].todo
    BY DEF Inv, IndexInv, Rebuilding
  <2>5. \A g \in Hosts : Rebuilding(g)' => Notes \subseteq journal'.memories \cup host'[g].todo
    BY <1>2, <2>1, <2>4 DEF Turned, Others, Inv, IndexInv
  <2>6. \A g \in Hosts : host'[g].stage = "update" => host'[g].note \in journal'.memories
    BY <1>2 DEF Turned, Others, Inv, IndexInv
  <2> QED
    BY <2>3, <2>5, <2>6 DEF IndexInv
<1> QED
  BY <1>1, <1>2, <1>3, <1>4, <1>5, HostStep, LockType DEF Turned

LEMMA NoteStep ==
  ASSUME Inv, NEW h \in Hosts, InsertMemory(h) \/ UpdateMemory(h)
  PROVE  Inv'
<1>. DEFINE n == host[h].note
            rows == journal.memories \cup {n}
<1>1. CASE UpdateMemory(h)
  <2>1. /\ host[h].stage = "update" /\ NoteDone(h)
        /\ UNCHANGED <<vault, journal, setup, minted, lock, left>>
    BY <1>1 DEF UpdateMemory, At
  <2>2. journal' \in JournalType /\ Grown /\ ~journal'.reopened
    BY <2>1 DEF Inv, TypeOK, MigratedInv, Grown
  <2>3. left.calm => n \in journal'.memories
    BY <2>1 DEF Inv, IndexInv
  <2> QED
    BY <2>1, <2>2, <2>3, NoteWritten
<1>2. CASE InsertMemory(h) /\ n \in journal.memories
  <2>1. /\ host[h].stage = "insert" /\ Refuse(h, "memoryExists")
        /\ UNCHANGED <<vault, journal, setup, minted, lock, left>>
    BY <1>2 DEF InsertMemory, At
  <2>2. ~Going(h) /\ "memoryExists" \in Errors
    BY <1>2, <2>1 DEF Going, Doomed, Errors
  <2> QED
    BY <2>1, <2>2, Refused
<1>3. CASE InsertMemory(h) /\ n \notin journal.memories
  <2>1. /\ host[h].stage = "insert" /\ NoteDone(h) /\ UNCHANGED <<vault, setup, minted, lock, left>>
        /\ journal' = [journal EXCEPT !.memories = rows]
    BY <1>3 DEF InsertMemory, At
  <2>2. journal \in JournalType /\ rows \in SUBSET Notes
    BY <2>1, JournalFields DEF Inv, TypeOK, LoaderInv
  <2>. HIDE DEF rows
  <2>3. journal' \in JournalType
    BY <2>1, <2>2, JournalExcept
  <2>4. /\ journal'.tables = journal.tables /\ journal'.columns = journal.columns
        /\ journal'.twins = journal.twins /\ journal'.indexes = journal.indexes
        /\ journal'.dismissed = journal.dismissed /\ journal'.reopened = journal.reopened
        /\ journal'.memories = rows
    BY <2>1, <2>2 DEF JournalType
  <2>5. Grown /\ ~journal'.reopened
    BY <2>4 DEF Grown, Inv, MigratedInv
  <2>6. journal.memories \subseteq journal'.memories /\ n \in journal'.memories
    BY <2>4 DEF rows
  <2> QED
    BY <2>1, <2>3, <2>4, <2>5, <2>6, NoteWritten
<1> QED
  BY <1>1, <1>2, <1>3

\* The commits of the log are in the journal: after a rebuild, and after
\* every reconcile.
LEMMA CommitsWritten ==
  ASSUME Inv, UNCHANGED left, journal' = [journal EXCEPT !.commits = Commits]
  PROVE  /\ journal' \in JournalType /\ Grown /\ ~journal'.reopened /\ LeftInv'
         /\ journal'.memories = journal.memories /\ journal'.columns = journal.columns
         /\ journal.memories \subseteq Notes
<1>1. journal \in JournalType
  BY DEF Inv, TypeOK
<1>2. journal' \in JournalType /\ journal.memories \subseteq Notes
  BY <1>1, JournalExcept, JournalFields
<1>3. /\ journal'.tables = journal.tables /\ journal'.columns = journal.columns
      /\ journal'.twins = journal.twins /\ journal'.indexes = journal.indexes
      /\ journal'.dismissed = journal.dismissed /\ journal'.reopened = journal.reopened
      /\ journal'.memories = journal.memories
  BY <1>1 DEF JournalType
<1> QED
  BY <1>2, <1>3 DEF Grown, Inv, MigratedInv, LeftInv

LEMMA CommitsStep ==
  ASSUME Inv, NEW h \in Hosts, RebuildCommits(h)
  PROVE  Inv'
<1>. DEFINE s == IF host[h].loader = "reindex" THEN "up" ELSE "reconcile"
<1>0. /\ host[h].stage = "rebuild" /\ host[h].todo = {} /\ UNCHANGED <<vault, setup, minted, lock, left>>
      /\ journal' = [journal EXCEPT !.commits = Commits] /\ host' = [host EXCEPT ![h].stage = s]
  BY DEF RebuildCommits, At
<1>1. /\ journal' \in JournalType /\ Grown /\ ~journal'.reopened /\ LeftInv'
      /\ journal'.memories = journal.memories /\ journal'.columns = journal.columns
      /\ journal.memories \subseteq Notes
  BY <1>0, CommitsWritten
<1>2. host[h].loader \in Loaders
  BY <1>0 DEF Inv, TypeOK, Opening
<1>3. s \in HostStages /\ (s = "up" \/ s = "reconcile")
  BY DEF HostStages, OpenStages
<1>. HIDE DEF s
<1>4. Turned(h, s, host[h].saw, {})
  BY <1>0, <1>3, StageTurns DEF Inv, TypeOK
<1>5. Prepared(h)'
  <2>1. Behind["rebuild"] = 15 /\ Behind["up"] = 15 /\ Behind["reconcile"] = 15
    BY DEF Behind
  <2>2. host[h].saw \subseteq journal'.columns
    BY <1>1 DEF Inv, MigratedInv, Prepared
  <2> QED
    BY <1>0, <1>1, <1>3, <1>4, <2>1, <2>2, StillPrepared DEF Turned
<1>6. IndexInv'
  <2>. SUFFICES ASSUME left.calm PROVE IndexInv'
    BY <1>0 DEF IndexInv
  <2>1. journal'.memories = Notes
    BY <1>0, <1>1 DEF Inv, IndexInv, Rebuilding
  <2>2. \A g \in Hosts : host'[g].stage = "update" => host'[g].note \in journal'.memories
    BY <1>1, <1>3, <1>4 DEF Turned, Others, Inv, IndexInv
  <2> QED
    BY <2>1, <2>2 DEF IndexInv, Whole
<1>7. host'[h].stage \notin {"ensure", "sweep", "insert", "update", "idle", "failed"}
  BY <1>3, <1>4 DEF Turned
<1> QED
  BY <1>0, <1>1, <1>2, <1>4, <1>5, <1>6, <1>7, HostStep, LockType DEF Turned

LEMMA ReconcileStep ==
  ASSUME Inv, NEW h \in Hosts, Reconcile(h)
  PROVE  Inv'
<1>0. /\ host[h].stage = "reconcile" /\ UNCHANGED <<vault, setup, minted, lock, left>>
      /\ journal' = [journal EXCEPT !.commits = Commits]
  BY DEF Reconcile, At
<1>1. /\ journal' \in JournalType /\ Grown /\ ~journal'.reopened /\ LeftInv'
      /\ journal'.memories = journal.memories /\ journal'.columns = journal.columns
  BY <1>0, CommitsWritten
<1>2. host[h].loader \in Loaders
  BY <1>0 DEF Inv, TypeOK, Opening
<1>3. /\ Behind["rebuild"] = 15 /\ Behind["up"] = 15 /\ Behind["reconcile"] = 15
      /\ Behind["sweep"] = 15
  BY DEF Behind
<1>4. CASE host[h].loader = "reindex"
  <2>1. Turned(h, "rebuild", host[h].saw, Notes)
    BY <1>4, RebuildTurns DEF Reconcile, Inv, TypeOK
  <2>2. IndexInv'
    BY <1>0, <1>1, <2>1, IndexBegun
  <2>3. host[h].saw \subseteq journal'.columns
    BY <1>1 DEF Inv, MigratedInv, Prepared
  <2>4. Prepared(h)'
    BY <1>0, <1>1, <1>3, <2>1, <2>3, StillPrepared DEF Turned
  <2> QED
    BY <1>0, <1>1, <1>2, <2>1, <2>2, <2>4, HostStep, LockType DEF Turned
<1>5. CASE host[h].loader # "reindex"
  <2>1. /\ Next1(h) \in {"sweep", "up"}
        /\ Next1(h) = "sweep" => host[h].loader \in {"serve", "mcp"}
    BY <1>0, <1>2, <1>5, NextStage
  <2>2. Next1(h) \in HostStages
    BY <2>1 DEF HostStages, OpenStages
  <2>3. Turned(h, Next1(h), {}, host[h].todo)
    BY <1>5, <2>2, AdvanceTurns DEF Reconcile, Inv, TypeOK
  <2>4. IndexInv'
    <3>1. left.calm => Whole
      BY <1>0, <1>5 DEF Inv, IndexInv
    <3>2. ~Going(h) /\ ~Rebuilding(h)'
      BY <1>0, <2>1, <2>3 DEF Going, Rebuilding, Turned
    <3> QED
      BY <1>0, <1>1, <2>3, <3>1, <3>2, IndexKept DEF Turned
  <2>5. Prepared(h)'
    BY <1>0, <1>1, <1>3, <2>1, <2>3, StillPrepared DEF Turned
  <2> QED
    BY <1>0, <1>1, <1>2, <2>1, <2>3, <2>4, <2>5, HostStep, LockType DEF Turned
<1> QED
  BY <1>4, <1>5

\* The list, the forgets that return or are given up, and the end.
LEMMA SweepStep ==
  ASSUME Inv, NEW h \in Hosts, Sweep(h) \/ LockTimesOut(h) \/ Forget(h) \/ SweepEnds(h)
  PROVE  Inv'
<1>0. /\ host[h].stage \in {"sweep", "forgetting"} /\ UNCHANGED <<vault, journal, setup, minted, left>>
      /\ lock' \in Hosts \cup {None, Dead}
  BY LockType DEF Sweep, LockTimesOut, Forget, SweepEnds, At
<1>1. /\ host \in [Hosts -> HostType] /\ host[h].todo \subseteq Notes
      /\ journal.memories \subseteq Notes /\ host[h].loader \in Loaders
  BY <1>0, HostFields, JournalFields DEF Inv, TypeOK, Opening
<1>2. PICK s \in {"forgetting", "up"}, t \in SUBSET Notes : Turned(h, s, host[h].saw, t)
  <2>0. "forgetting" \in HostStages /\ "up" \in HostStages
    BY DEF HostStages, OpenStages
  <2>1. CASE Sweep(h)
    BY <1>1, <2>0, <2>1, TodoTurns DEF Sweep
  <2>2. CASE LockTimesOut(h) \/ Forget(h)
    <3>1. PICK n \in host[h].todo : host' = [host EXCEPT ![h].todo = @ \ {n}]
      BY <2>2 DEF LockTimesOut, Forget
    <3>2. host[h].stage = "forgetting"
      BY <2>2 DEF LockTimesOut, Forget, At
    <3>. DEFINE t == host[h].todo \ {n}
    <3>3. t \in SUBSET Notes /\ host' = [host EXCEPT ![h].todo = t]
      BY <1>1, <3>1
    <3>. HIDE DEF t
    <3>4. Turned(h, "forgetting", host[h].saw, t)
      BY <1>1, <2>0, <3>2, <3>3, TodoTurns
    <3> QED
      BY <3>3, <3>4
  <2>3. CASE SweepEnds(h)
    BY <1>1, <2>0, <2>3, StageTurns DEF SweepEnds
  <2> QED
    BY <2>1, <2>2, <2>3
<1>3. journal' \in JournalType /\ Grown /\ Rows /\ ~journal'.reopened /\ LeftInv'
  BY <1>0 DEF Inv, TypeOK, MigratedInv, LeftInv, Grown, Rows
<1>4. Prepared(h)'
  <2>1. Behind["up"] = 15 /\ Behind["sweep"] = 15 /\ Behind["forgetting"] = 15
    BY DEF Behind
  <2>2. host[h].saw \subseteq journal'.columns
    BY <1>0 DEF Inv, MigratedInv, Prepared
  <2> QED
    BY <1>0, <1>2, <1>3, <2>1, <2>2, StillPrepared DEF Turned
<1>5. left.calm => Whole
  BY <1>0 DEF Inv, IndexInv
<1>6. ~Going(h) /\ ~Rebuilding(h)'
  BY <1>0, <1>2 DEF Going, Rebuilding, Turned
<1>7. IndexInv'
  BY <1>0, <1>2, <1>3, <1>5, <1>6, IndexKept DEF Turned, Rows
<1>8. /\ host'[h].stage \notin {"ensure", "sweep", "insert", "update", "idle", "failed"}
      /\ host'[h].loader \in Loaders /\ host' \in [Hosts -> HostType] /\ Others(h)
  BY <1>1, <1>2 DEF Turned
<1> QED
  BY <1>0, <1>3, <1>4, <1>7, <1>8, HostStep

\* A step that only takes the lock, or gives it back.
LEMMA LockStep ==
  ASSUME Inv, NEW h \in Hosts, LockVault(h) \/ Work(h) \/ Release(h)
  PROVE  Inv'
<1>1. UNCHANGED <<vault, journal, host, setup, minted, left>> /\ lock' \in Hosts \cup {None, Dead}
  BY DEF LockVault, Work, Release
<1> QED
  BY <1>1 DEF Inv, TypeOK, LeftInv, LoaderInv, MigratedInv, SetupInv, IndexInv, Opening, Prepared,
              Whole, Going, Doomed, Rebuilding

\* Every step of opening the vault.
LEMMA OpenStep ==
  ASSUME Inv, NEW h \in Hosts, Open(h)
  PROVE  Inv'
<1>1. CASE ReadConfig(h)
  <2>0. At(h, "config") /\ UNCHANGED <<vault, journal, setup, minted, lock, left>>
    BY <1>1 DEF ReadConfig
  <2>1. "notInitialized" \in Errors
    BY DEF Errors
  <2>2. CASE Refuse(h, "notInitialized")
    BY <2>0, <2>1, <2>2, Refused DEF At, Rebuilding, Going
  <2>3. CASE Advance(h)
    BY <2>0, <2>3, Passing DEF At
  <2> QED
    BY <1>1, <2>2, <2>3 DEF ReadConfig
<1>2. CASE ReadPermissions(h)
  <2>0. At(h, "permissions") /\ UNCHANGED <<vault, journal, setup, minted, lock, left>>
    BY <1>2 DEF ReadPermissions
  <2>1. "permissionsBroken" \in Errors
    BY DEF Errors
  <2>2. CASE Refuse(h, "permissionsBroken")
    BY <2>0, <2>1, <2>2, Refused DEF At, Rebuilding, Going
  <2>3. CASE Advance(h)
    BY <2>0, <2>3, Passing DEF At
  <2> QED
    BY <1>2, <2>2, <2>3 DEF ReadPermissions
<1>3. CASE MigrateConflictsTable(h)
  BY <1>3, Looking, Altering DEF MigrateConflictsTable
<1>4. CASE MigrateConflictsValueHash(h)
  BY <1>4, Looking, Altering, SchemaSteps DEF MigrateConflictsValueHash
<1>5. CASE MigrateTransactionsTable(h)
  BY <1>5, Looking, Altering DEF MigrateTransactionsTable
<1>6. CASE MigrateApprovalsTable(h)
  BY <1>6, Looking, Altering DEF MigrateApprovalsTable
<1>7. CASE \/ CreateSchema(h) \/ DedupeCommits(h) \/ IndexCommits(h)
           \/ CreateApprovalIndex(h) \/ MigrateMemoryRelations(h)
  BY <1>7, SchemaSteps
<1>8. CASE \/ EnsureJournal(h) \/ LookForMemory(h) \/ InsertMemory(h) \/ UpdateMemory(h)
           \/ RebuildCommits(h) \/ Reconcile(h)
  BY <1>8, EnsureStep, LookStep, NoteStep, CommitsStep, ReconcileStep
<1>9. CASE Sweep(h) \/ LockVault(h) \/ LockTimesOut(h) \/ Forget(h) \/ SweepEnds(h)
  BY <1>9, SweepStep, LockStep
<1> QED
  BY <1>1, <1>2, <1>3, <1>4, <1>5, <1>6, <1>7, <1>8, <1>9 DEF Open

-----------------------------------------------------------------------------
(* What happens around the hosts that open the vault                        *)

\* What is spent leaves the world as it was.
LEMMA Spent ==
  ASSUME LeftInv, NEW b \in {"starts", "inits", "crash", "damage", "wipe"}, Spend(b)
  PROVE  LeftInv' /\ left'.calm = left.calm /\ (b = "crash" => ~left.calm)
<1>. DEFINE L == [hosts : SUBSET Hosts, shapes : SUBSET DOMAIN Legacy, calm : BOOLEAN,
                  starts : Nat, inits : Nat, crash : Nat, damage : Nat, wipe : Nat]
<1>1. left \in L /\ left[b] > 0 /\ left' = [left EXCEPT ![b] = @ - 1]
  BY DEF LeftInv, Spend
<1>2. left[b] \in Nat /\ left[b] - 1 \in Nat
  BY <1>1
<1>3. left' \in L
  BY <1>1, <1>2
<1>4. left'.calm = left.calm /\ left'.crash <= left.crash
  BY <1>1
<1>5. b = "crash" => ~left.calm
  BY <1>1 DEF LeftInv
<1>6. left.calm => left'.crash = 0
  BY <1>3, <1>4 DEF LeftInv
<1> QED
  BY <1>3, <1>4, <1>5, <1>6 DEF LeftInv

LEMMA HostLife ==
  ASSUME Inv, NEW h \in Hosts, Start(h) \/ Close(h) \/ Crash(h)
  PROVE  Inv'
<1>0. LeftInv /\ host \in [Hosts -> HostType]
  BY DEF Inv, TypeOK
<1>1. CASE Start(h)
  <2>1. LeftInv' /\ left'.calm = left.calm
    BY <1>0, <1>1, Spent DEF Start
  <2>2. PICK l \in Loaders : host' = [host EXCEPT ![h] = [Idle EXCEPT !.stage = "config", !.loader = l]]
    BY <1>1 DEF Start
  <2>3. Reset(h, "config", l)
    BY <1>0, <2>2, StartTurns
  <2> QED
    BY <1>1, <2>1, <2>3, ResetStep, LockType DEF Start, At, Rebuilding, Going
<1>2. CASE Close(h)
  <2>1. Reset(h, "idle", None)
    BY <1>0, <1>2, IdleTurns DEF Close
  <2>2. LeftInv'
    BY <1>0, <1>2 DEF Close, LeftInv
  <2>3. ~Going(h) /\ UNCHANGED <<vault, journal, setup, minted, lock, left>>
    BY <1>2 DEF Close, Rebuilding, Going
  <2> QED
    BY <2>1, <2>2, <2>3, ResetStep, LockType
<1>3. CASE Crash(h)
  <2>1. Reset(h, "idle", None)
    BY <1>0, <1>3, IdleTurns DEF Crash
  <2>2. LeftInv' /\ left'.calm = left.calm /\ ~left.calm
    BY <1>0, <1>3, Spent DEF Crash
  <2> QED
    BY <1>3, <2>1, <2>2, ResetStep, LockType DEF Crash
<1> QED
  BY <1>1, <1>2, <1>3

LEMMA Untouched ==
  ASSUME Inv, UNCHANGED vars
  PROVE  Inv'
<1>1. /\ vault' = vault /\ journal' = journal /\ host' = host /\ setup' = setup
      /\ minted' = minted /\ left' = left /\ lock' = lock
  BY DEF vars
<1> QED
  BY <1>1 DEF Inv, TypeOK, LeftInv, LoaderInv, MigratedInv, SetupInv, IndexInv, Opening, Prepared,
              Whole, Going, Doomed, Rebuilding

\* A dismissed contradiction found again: the row with its hash is there.
LEMMA RedetectStep ==
  ASSUME Inv, NEW h \in Hosts, Redetect(h)
  PROVE  Inv'
<1>0. host[h].stage = "up" /\ journal.dismissed # None /\ UNCHANGED <<vault, host, setup, minted, lock, left>>
  BY DEF Redetect, At
<1>1. journal \in JournalType /\ ~journal.reopened /\ Prepared(h)
      /\ journal.dismissed \in {None, "blank", "hashed"}
  BY JournalFields DEF Inv, TypeOK, MigratedInv
<1>2. journal.dismissed = "hashed"
  <2>1. Behind["up"] = 15
    BY DEF Behind
  <2> QED
    BY <1>0, <1>1, <2>1 DEF Prepared
<1>3. journal' = [journal EXCEPT !.reopened = FALSE]
  BY <1>1, <1>2 DEF Redetect
<1>4. journal' = journal
  BY <1>1, <1>3 DEF JournalType
<1> QED
  BY <1>0, <1>4, Untouched DEF vars

\* Damage to permissions.yaml, the steps of an init: what they must leave.
LEMMA Beside ==
  ASSUME Inv, UNCHANGED <<journal, host, lock>>, vault' \in VaultType, setup' \in SetupType,
         minted' \subseteq Ids, setup'.stage \in {"permissions", "fill", "config"} => setup'.id \in Ids,
         SetupInv', LeftInv', left'.calm = left.calm
  PROVE  Inv'
<1>1. TypeOK'
  BY DEF Inv, TypeOK, Opening
<1>2. LoaderInv' /\ MigratedInv'
  BY DEF Inv, LoaderInv, MigratedInv, Prepared
<1>3. IndexInv'
  BY DEF Inv, IndexInv, Whole, Going, Doomed, Rebuilding
<1> QED
  BY <1>1, <1>2, <1>3 DEF Inv

LEMMA VaultExcept ==
  \A v \in VaultType :
    /\ v.git \in BOOLEAN /\ v.permissions \in {"missing", "corrupt", "ok"} /\ v.config \in Ids \cup {None}
    /\ \A x \in BOOLEAN : [v EXCEPT !.git = x] \in VaultType
    /\ \A x \in {"missing", "corrupt", "ok"} : [v EXCEPT !.permissions = x] \in VaultType
    /\ \A x \in Ids \cup {None} : [v EXCEPT !.config = x] \in VaultType
BY DEF VaultType

LEMMA SetupExcept ==
  \A s \in SetupType :
    /\ s.id \in Ids \cup {None}
    /\ \A x \in {"idle", "permissions", "fill", "repair", "fillRepair", "config", "already"} :
         [s EXCEPT !.stage = x] \in SetupType
BY DEF SetupType

LEMMA InitCommandStep ==
  ASSUME Inv, InitCommand
  PROVE  Inv'
<1>0. /\ LeftInv' /\ left'.calm = left.calm /\ UNCHANGED <<journal, host, lock>>
      /\ vault \in VaultType /\ minted \subseteq Ids /\ setup.stage = "idle"
  BY Spent DEF Inv, TypeOK, InitCommand
<1>1. CASE vault.config # None
  <2>1. PICK s \in {"repair", "already"} : setup' = [stage |-> s, id |-> None]
    BY <1>1 DEF InitCommand
  <2>2. UNCHANGED <<vault, minted>>
    BY <1>1 DEF InitCommand
  <2>3. setup' \in SetupType /\ setup'.stage \notin {"permissions", "fill", "config"}
    BY <2>1 DEF SetupType
  <2> QED
    BY <1>0, <2>2, <2>3, Beside DEF SetupInv
<1>2. CASE vault.config = None
  <2>1. PICK id \in Ids : /\ setup' = [stage |-> "permissions", id |-> id]
                          /\ minted' = minted \cup {id}
    BY <1>2 DEF InitCommand
  <2>2. vault' = [vault EXCEPT !.git = TRUE]
    BY <1>2 DEF InitCommand
  <2>3. vault' \in VaultType /\ vault'.git /\ vault'.config = None
    <3>1. TRUE \in BOOLEAN
      OBVIOUS
    <3>2. vault' \in VaultType
      BY <1>0, <2>2, <3>1, VaultExcept
    <3> QED
      BY <1>0, <1>2, <2>2, <3>2 DEF VaultType
  <2>4. setup' \in SetupType /\ setup'.stage = "permissions" /\ setup'.id \in Ids
    BY <2>1 DEF SetupType
  <2>5. minted' \subseteq Ids
    BY <1>0, <2>1
  <2>6. SetupInv'
    BY <2>3, <2>4 DEF SetupInv
  <2> QED
    BY <1>0, <2>3, <2>4, <2>5, <2>6, Beside
<1> QED
  BY <1>1, <1>2

LEMMA InitSteps ==
  ASSUME Inv, InitStep
  PROVE  Inv'
<1>0. /\ vault \in VaultType /\ setup \in SetupType /\ minted \subseteq Ids
      /\ setup.stage \in {"permissions", "fill", "config"} => setup.id \in Ids
      /\ LeftInv /\ SetupInv
  BY DEF Inv, TypeOK
<1>1. CASE TruncatePermissions
  <2>0. UNCHANGED <<journal, host, minted, lock, left>> /\ LeftInv'
    BY <1>0, <1>1 DEF TruncatePermissions, LeftInv
  <2>1. /\ vault' = [vault EXCEPT !.permissions = "corrupt"] /\ setup.stage \in {"permissions", "repair"}
        /\ setup' = [setup EXCEPT !.stage = IF @ = "repair" THEN "fillRepair" ELSE "fill"]
    BY <1>1 DEF TruncatePermissions
  <2>2. vault' \in VaultType /\ vault'.git = vault.git /\ vault'.config = vault.config
    BY <1>0, <2>1, VaultExcept DEF VaultType
  <2>3. PICK s \in {"fillRepair", "fill"} : /\ setup' = [setup EXCEPT !.stage = s]
                                            /\ s = "fill" => setup.stage = "permissions"
    BY <2>1
  <2>4. setup' \in SetupType /\ setup'.stage = s /\ setup'.id = setup.id
    BY <1>0, <2>3, SetupExcept DEF SetupType
  <2>5. SetupInv'
    BY <1>0, <2>2, <2>3, <2>4 DEF SetupInv
  <2> QED
    BY <1>0, <2>0, <2>2, <2>3, <2>4, <2>5, Beside
<1>2. CASE FillPermissions
  <2>0. UNCHANGED <<journal, host, minted, lock, left>> /\ LeftInv'
    BY <1>0, <1>2 DEF FillPermissions, LeftInv
  <2>1. /\ vault' = [vault EXCEPT !.permissions = "ok"] /\ setup.stage \in {"fill", "fillRepair"}
        /\ setup' = [setup EXCEPT !.stage = IF @ = "fill" THEN "config" ELSE "already"]
    BY <1>2 DEF FillPermissions
  <2>2. /\ vault' \in VaultType /\ vault'.git = vault.git /\ vault'.config = vault.config
        /\ vault'.permissions = "ok"
    BY <1>0, <2>1, VaultExcept DEF VaultType
  <2>3. PICK s \in {"config", "already"} : /\ setup' = [setup EXCEPT !.stage = s]
                                           /\ s = "config" => setup.stage = "fill"
    BY <2>1
  <2>4. setup' \in SetupType /\ setup'.stage = s /\ setup'.id = setup.id
    BY <1>0, <2>3, SetupExcept DEF SetupType
  <2>5. SetupInv'
    BY <1>0, <2>2, <2>3, <2>4 DEF SetupInv
  <2> QED
    BY <1>0, <2>0, <2>2, <2>3, <2>4, <2>5, Beside
<1>3. CASE WriteConfig
  <2>0. UNCHANGED <<journal, host, minted, lock, left>> /\ LeftInv'
    BY <1>0, <1>3 DEF WriteConfig, LeftInv
  <2>1. /\ vault' = [vault EXCEPT !.config = setup.id]
        /\ setup' = [setup EXCEPT !.stage = "already"]
    BY <1>3 DEF WriteConfig
  <2>2. vault' \in VaultType
    BY <1>0, <2>1, VaultExcept, SetupExcept
  <2>3. setup' \in SetupType /\ setup'.stage = "already"
    <3>1. setup' \in SetupType
      BY <1>0, <2>1, SetupExcept
    <3> QED
      BY <1>0, <2>1, <3>1 DEF SetupType
  <2>4. SetupInv'
    BY <2>3 DEF SetupInv
  <2> QED
    BY <1>0, <2>0, <2>2, <2>3, <2>4, Beside
<1>4. CASE InitReturns
  <2>0. UNCHANGED <<vault, journal, host, minted, lock, left>> /\ LeftInv'
    BY <1>0, <1>4 DEF InitReturns, LeftInv
  <2>1. setup' \in SetupType /\ setup'.stage = "idle"
    BY <1>4 DEF InitReturns, SetupType
  <2>2. SetupInv'
    BY <2>1 DEF SetupInv
  <2> QED
    BY <1>0, <2>0, <2>1, <2>2, Beside
<1> QED
  BY <1>1, <1>2, <1>3, <1>4 DEF InitStep

LEMMA InitCrashStep ==
  ASSUME Inv, InitCrashes
  PROVE  Inv'
<1>1. LeftInv' /\ left'.calm = left.calm /\ UNCHANGED <<vault, journal, host, minted, lock>>
  BY Spent DEF Inv, InitCrashes
<1>2. setup' \in SetupType /\ setup'.stage = "idle"
  BY DEF InitCrashes, SetupType
<1>3. SetupInv'
  BY <1>2 DEF SetupInv
<1> QED
  BY <1>1, <1>2, <1>3, Beside DEF Inv, TypeOK

LEMMA DamageStep ==
  ASSUME Inv, Damage
  PROVE  Inv'
<1>1. LeftInv' /\ left'.calm = left.calm /\ UNCHANGED <<setup, journal, host, minted, lock>>
  BY Spent DEF Inv, Damage
<1>2. vault' \in VaultType
  BY VaultExcept DEF Damage, Inv, TypeOK
<1>3. SetupInv'
  BY <1>1 DEF SetupInv, Damage
<1> QED
  BY <1>1, <1>2, <1>3, Beside DEF Inv, TypeOK

\* journal.db deleted: nobody has a statement of openJournal behind them.
LEMMA WipeStep ==
  ASSUME Inv, Wipe
  PROVE  Inv'
<1>0. /\ \A h \in Hosts : host[h].stage \in {"idle", "failed"}
      /\ LeftInv' /\ left'.calm = left.calm /\ journal' = EmptyJournal
      /\ UNCHANGED <<vault, host, setup, minted, lock>>
  BY Spent DEF Inv, Wipe
<1>1. /\ EmptyJournal \in JournalType /\ ~EmptyJournal.reopened /\ EmptyJournal.memories = {}
      /\ EmptyJournal.commits = {}
  BY DEF EmptyJournal, JournalType
<1>2. TypeOK'
  BY <1>0, <1>1 DEF Inv, TypeOK, Opening
<1>3. LoaderInv' /\ SetupInv'
  BY <1>0 DEF Inv, LoaderInv, SetupInv
<1>4. MigratedInv'
  <2>. SUFFICES ASSUME NEW h \in Hosts PROVE Prepared(h)'
    BY <1>0, <1>1 DEF MigratedInv
  <2>1. host[h].saw = {} /\ Behind[host[h].stage] = 0
    BY <1>0 DEF Inv, LoaderInv, Behind
  <2> QED
    BY <1>0, <2>1 DEF Prepared
<1>5. IndexInv'
  BY <1>0, <1>1 DEF IndexInv, Rebuilding
<1> QED
  BY <1>0, <1>2, <1>3, <1>4, <1>5 DEF Inv

-----------------------------------------------------------------------------
LEMMA Initially == Init => Inv
<1>. SUFFICES ASSUME Init PROVE Inv
  OBVIOUS
<1>1. LeftInv
  BY WorldsAssumption DEF Init, LeftInv
<1>2. \A h \in Hosts : host[h] = Idle
  BY DEF Init
<1>3. PICK s \in {"absent", "v02", "v03a"} : journal = Legacy[s]
  BY <1>1 DEF Init, LeftInv, Legacy
<1>4. /\ journal \in JournalType /\ ~journal.reopened
      /\ journal.memories = Notes \/ (journal.memories = {} /\ journal.commits = {})
  <2>1. CASE s = "absent"
    BY <1>3, <2>1 DEF Legacy, EmptyJournal, JournalType
  <2>. DEFINE old == Tables \ {"memoryRelations"}
  <2>2. old \in SUBSET Tables /\ {"conflictColumns"} \in SUBSET Columns
    BY ColumnNames
  <2>. HIDE DEF old
  <2>3. CASE s = "v02"
    <3>1. journal = [tables |-> old, columns |-> {}, indexes |-> {}, twins |-> TRUE,
                     dismissed |-> None, reopened |-> FALSE, memories |-> Notes, commits |-> Commits]
      BY <1>3, <2>3 DEF Legacy, EmptyJournal, old
    <3> QED
      BY <2>2, <3>1 DEF JournalType
  <2>4. CASE s = "v03a"
    <3>1. journal = [tables |-> old, columns |-> {"conflictColumns"},
                     indexes |-> {"commitSha", "pairKindFact"}, twins |-> FALSE,
                     dismissed |-> "blank", reopened |-> FALSE, memories |-> Notes, commits |-> Commits]
      BY <1>3, <2>4 DEF Legacy, EmptyJournal, old
    <3> QED
      BY <2>2, <3>1 DEF JournalType, Indexes
  <2> QED
    BY <2>1, <2>3, <2>4
<1>5. TypeOK
  <2>1. vault \in VaultType /\ minted \subseteq Ids
    BY DEF Init, VaultType
  <2>2. host \in [Hosts -> HostType]
    BY IdleHost DEF Init
  <2>3. setup \in SetupType /\ setup.stage = "idle"
    BY DEF Init, SetupType
  <2>4. lock = None
    BY DEF Init
  <2> QED
    BY <1>2, <1>4, <2>1, <2>2, <2>3, <2>4, IdleHost DEF TypeOK, Opening
<1>6. LoaderInv
  BY <1>2, IdleHost DEF LoaderInv
<1>7. MigratedInv
  <2>1. Behind["idle"] = 0
    BY DEF Behind
  <2> QED
    BY <1>2, <1>4, <2>1, IdleHost DEF MigratedInv, Prepared
<1>8. SetupInv
  BY DEF Init, SetupInv
<1>9. IndexInv
  BY <1>2, <1>4, IdleHost DEF IndexInv, Rebuilding, Whole
<1> QED
  BY <1>1, <1>5, <1>6, <1>7, <1>8, <1>9 DEF Inv

LEMMA Always == Inv /\ [Next]_vars => Inv'
<1>. SUFFICES ASSUME Inv, [Next]_vars PROVE Inv'
  OBVIOUS
<1>1. CASE InitCommand \/ InitStep \/ InitCrashes
  BY <1>1, InitCommandStep, InitSteps, InitCrashStep
<1>2. ASSUME NEW h \in left.hosts,
             \/ Start(h) \/ Open(h) \/ Redetect(h) \/ Work(h) \/ Release(h) \/ Close(h) \/ Crash(h)
      PROVE  Inv'
  <2>1. h \in Hosts
    BY DEF Inv, LeftInv
  <2> QED
    BY <1>2, <2>1, HostLife, OpenStep, RedetectStep, LockStep
<1>3. CASE Damage \/ Wipe
  BY <1>3, DamageStep, WipeStep
<1>4. CASE UNCHANGED vars
  BY <1>4, Untouched
<1> QED
  BY <1>1, <1>2, <1>3, <1>4 DEF Next

\* The invariant of the proofs holds in every reachable state.
LEMMA Invariance == Spec => []Inv
  BY Initially, Always, PTL DEF Spec

-----------------------------------------------------------------------------
\* Every reachable state has the shape TypeOK states, for any number of
\* hosts, ids, notes and commits.
THEOREM Types == Spec => []TypeOK
<1>1. Inv => TypeOK
  BY DEF Inv
<1> QED
  BY <1>1, Invariance, PTL

\* openJournal (db.ts:80-133): however many hosts open the vault at once,
\* whichever build wrote its journal and however often a host dies between
\* two statements, a host that is up works on a journal that every migration
\* has gone through.
THEOREM MigratedBeforeUse == Spec => []UpIsMigrated
<1>1. Inv => UpIsMigrated
  <2>. SUFFICES ASSUME Inv, NEW h \in Hosts, host[h].stage = "up"
                PROVE  /\ journal.tables = Tables /\ journal.columns = Columns
                       /\ Indexes \ {"pairKindFact"} = journal.indexes
                       /\ ~journal.twins
                       /\ journal.dismissed # "blank" /\ ~journal.reopened
    BY DEF UpIsMigrated
  <2>1. Behind[host[h].stage] = 15
    BY DEF Behind
  <2>2. Prepared(h) /\ ~journal.reopened
    BY DEF Inv, MigratedInv
  <2>3. /\ journal.columns \subseteq Columns /\ journal.indexes \subseteq Indexes
    BY JournalFields DEF Inv, TypeOK
  <2>4. journal.columns = Columns
    BY <2>1, <2>2, <2>3, ColumnNames DEF Prepared
  <2>5. Indexes \ {"pairKindFact"} = journal.indexes
    BY <2>1, <2>2, <2>3 DEF Prepared, Indexes
  <2> QED
    BY <2>1, <2>2, <2>4, <2>5 DEF Prepared
<1> QED
  BY <1>1, Invariance, PTL

\* ensureJournal (db.ts:96-108): while no host dies, an index that nobody is
\* rebuilding has every note of the vault, whoever found the journal empty,
\* however many rebuilt it at the same time and whichever of them failed on a
\* row another one had inserted since they looked for it.
THEOREM WholeWhenQuiet == Spec => []QuietIsWhole
<1>1. Inv => QuietIsWhole
  BY DEF Inv, IndexInv, QuietIsWhole, Whole, Going
<1> QED
  BY <1>1, Invariance, PTL

\* init (init.ts:66-98): config.json, which every later init stops at, is
\* written once, over a repository and a whole permissions.yaml.
THEOREM ConfigWrittenOnce == Spec => ConfigComesLast
<1>1. Inv /\ [Next]_vars => [vault'.config # vault.config =>
                               vault.config = None /\ vault.git /\ vault.permissions = "ok"]_vars
  <2>. SUFFICES ASSUME Inv, Next, vault'.config # vault.config
                PROVE  vault.config = None /\ vault.git /\ vault.permissions = "ok"
    OBVIOUS
  <2>0. vault \in VaultType
    BY DEF Inv, TypeOK
  <2>1. WriteConfig
    <3>1. CASE InitCommand
      BY <2>0, <3>1 DEF InitCommand, VaultType
    <3>2. CASE InitStep
      BY <2>0, <3>2 DEF InitStep, TruncatePermissions, FillPermissions, InitReturns, VaultType
    <3>3. CASE InitCrashes \/ Wipe
      BY <3>3 DEF InitCrashes, Wipe
    <3>4. CASE Damage
      BY <2>0, <3>4 DEF Damage, VaultType
    <3>5. ASSUME NEW h \in left.hosts,
                 \/ Start(h) \/ Open(h) \/ Redetect(h) \/ Work(h) \/ Release(h) \/ Close(h) \/ Crash(h)
          PROVE  vault' = vault
      BY <3>5 DEF Start, Open, Redetect, Close, Crash, ReadConfig, ReadPermissions, CreateSchema,
                  DedupeCommits, IndexCommits, MigrateConflictsTable, MigrateConflictsValueHash,
                  MigrateTransactionsTable, CreateApprovalIndex, MigrateMemoryRelations,
                  MigrateApprovalsTable, LookAtTable, AlterTable, BackfillValueHash, IndexValueHash,
                  EnsureJournal, LookForMemory, InsertMemory, UpdateMemory, RebuildCommits,
                  Reconcile, Sweep, LockVault, LockTimesOut, Forget, SweepEnds, Work, Release
    <3> QED
      BY <3>1, <3>2, <3>3, <3>4, <3>5 DEF Next
  <2> QED
    BY <2>1 DEF WriteConfig, Inv, SetupInv
<1> QED
  BY <1>1, Invariance, PTL DEF Spec, ConfigComesLast
=============================================================================
