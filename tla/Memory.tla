------------------------------- MODULE Memory -------------------------------
(***************************************************************************)
(* The life of a memory: the store's remember, promote, revise, forget and *)
(* retire, the approvals that hold some of them, undo of one transaction   *)
(* or of a session, the TTL sweep, and the reindex that rebuilds the       *)
(* journal from the vault.                                                 *)
(*                                                                         *)
(* A memory is a note (the truth) and a row of the journal (what recall    *)
(* reads).  Every change of a note is one locked apply of the broker, here *)
(* one step that commits and records (module Broker takes it apart); the   *)
(* statements that bring the row up to date follow outside the lock, one   *)
(* step each.  Between any two steps another host may run, and the host    *)
(* may die.                                                                *)
(*                                                                         *)
(* The working tree is HEAD: nobody edits by hand here.  Every operation   *)
(* carries the same session.                                               *)
(***************************************************************************)
EXTENDS Naturals, Sequences, FiniteSets

CONSTANTS
  Hosts,      \* processes
  Memories,   \* memory ids
  Bodies,     \* what a note may say
  NoNote,     \* no file
  NoRow,      \* no row in the journal
  NoMem,      \* memory_id NULL
  NoHost,     \* the vault lock is free
  Worlds      \* what a behaviour starts with, and its bounds

ASSUME SentinelAssumption ==
  /\ NoMem \notin Memories
  /\ NoHost \notin Hosts
  /\ Bodies # {}

Places == {"Memory", "Archive"}
Statuses == {"scratch", "working", "canonical", "retired", "forgotten"}
Notes == [place : Places, status : Statuses, body : Bodies]
MemoryRows == [place : Places, status : Statuses \cup {"reverted"}]

(* A world: the hosts, memories and bodies of a behaviour, whether it is    *)
(* calm (one host, which never dies, and no loss of the journal), and how   *)
(* many requests, held operations, undos, sweeps, deaths of a host, losses  *)
(* of the journal and manual reindexes there may be.                        *)
ASSUME WorldsAssumption ==
  /\ Worlds \subseteq [hosts : SUBSET Hosts, memories : SUBSET Memories, bodies : SUBSET Bodies,
                      calm : BOOLEAN, requests : Nat, held : Nat, undo : Nat, sweep : Nat,
                      crash : Nat, loss : Nat, reindex : Nat]
  /\ \A w \in Worlds :
       w.calm => (\E h \in Hosts : w.hosts = {h}) /\ w.crash = 0 /\ w.loss = 0

ASSUME NoNoteAssumption == NoNote \notin Notes /\ NoRow \notin MemoryRows

VARIABLES
  note,     \* the file of each memory, or NoNote
  commits,  \* the git history: which note it changed, from what to what
  rows,     \* the memories table
  txns,     \* the transactions table, in order of insertion
  held,     \* the approvals table, in order of insertion
  lock,     \* the vault lock, where it is held over several steps (undo)
  pc, job,  \* what each host does next, and its locals
  left      \* the world, and what remains of each of its bounds

vars == <<note, commits, rows, txns, held, lock, pc, job, left>>

Idle == [kind |-> "none", mem |-> NoMem, apr |-> 0, expected |-> NoNote,
         after |-> NoNote, commit |-> 0, how |-> "ok", rest |-> {}, seen |-> {}, queue |-> <<>>]

Init ==
  /\ note = [m \in Memories |-> NoNote]
  /\ commits = <<>>
  /\ rows = [m \in Memories |-> NoRow]
  /\ txns = <<>>
  /\ held = <<>>
  /\ lock = NoHost
  /\ pc = [h \in Hosts |-> "idle"]
  /\ job = [h \in Hosts |-> Idle]
  /\ left \in Worlds

AllIdle == \A h \in Hosts : pc[h] = "idle"

Spend(h, budget) ==
  /\ pc[h] = "idle"
  /\ left[budget] > 0
  /\ left' = [left EXCEPT ![budget] = @ - 1]

Begin(h, step, j) ==
  /\ pc' = [pc EXCEPT ![h] = step]
  /\ job' = [job EXCEPT ![h] = j]

Goto(h, step) == Begin(h, step, job[h])

IsAt(m, place) == note[m] # NoNote /\ note[m].place = place

(* The note a row leads to: none if the file is not where the row says.    *)
NoteOf(m) ==
  IF rows[m] # NoRow /\ IsAt(m, rows[m].place) THEN note[m] ELSE NoNote

(* A request ends: its approval is resolved, the sweep goes on, or nothing *)
(* is left to do.                                                          *)
Ended(h, j, how) ==
  IF j.apr # 0 THEN Begin(h, "resolve", [j EXCEPT !.how = how])
  ELSE IF j.kind = "sweep" THEN Begin(h, "sweep", [Idle EXCEPT !.kind = "sweep", !.rest = j.rest])
  ELSE Begin(h, "idle", Idle)

(* One locked apply: a commit and its row.                                 *)
Applied(h, op, m, after) ==
  /\ commits' = Append(commits, [op |-> op, mem |-> m, before |-> note[m], after |-> after])
  /\ txns' = Append(txns, [commit |-> Len(commits) + 1, op |-> op, mem |-> NoMem,
                           status |-> "applied"])
  /\ note' = [note EXCEPT ![m] = after]

-----------------------------------------------------------------------------
(* remember: the note is created and committed, then the row is inserted,  *)
(* then the transaction is linked to the memory.                           *)

Remember(h, m, b) ==
  /\ Spend(h, "requests")
  /\ \A i \in DOMAIN commits : commits[i].mem # m
  /\ \A g \in Hosts : job[g].mem # m
  /\ Begin(h, "create",
           [Idle EXCEPT !.kind = "remember", !.mem = m,
                        !.after = [place |-> "Memory", status |-> "scratch", body |-> b]])
  /\ UNCHANGED <<note, commits, rows, txns, held, lock>>

CreateNote(h) ==
  /\ pc[h] = "create"
  /\ lock = NoHost
  /\ Applied(h, "create", job[h].mem, job[h].after)
  /\ Begin(h, "insert", [job[h] EXCEPT !.commit = Len(commits) + 1])
  /\ UNCHANGED <<rows, held, lock, left>>

InsertRow(h) ==
  /\ pc[h] = "insert"
  /\ rows' = [rows EXCEPT ![job[h].mem] = [place |-> "Memory", status |-> "scratch"]]
  /\ Goto(h, "link")
  /\ UNCHANGED <<note, commits, txns, held, lock, left>>

(* setTransactionMemoryId, after whichever apply the host has made.        *)
AfterLink(h) ==
  CASE job[h].kind = "promote" \/ job[h].kind = "retire" -> Goto(h, "mirror")
    [] job[h].kind \in {"forget", "sweep"} /\ job[h].how = "flipped" -> Goto(h, "archive")
    [] OTHER -> Ended(h, job[h], "ok")

LinkTransaction(h) ==
  /\ pc[h] = "link"
  /\ txns' = [i \in DOMAIN txns |->
                IF txns[i].commit = job[h].commit THEN [txns[i] EXCEPT !.mem = job[h].mem]
                ELSE txns[i]]
  /\ AfterLink(h)
  /\ UNCHANGED <<note, commits, rows, held, lock, left>>

-----------------------------------------------------------------------------
(* A change of status.  The row and the note are read, and the patch made, *)
(* before the lock: the broker compares the hash when it has it.  A note   *)
(* that already has the status is not committed again.                     *)

StartFlip(h, j, status) ==
  LET n == NoteOf(j.mem) IN
  \/ /\ n = NoNote
     /\ Ended(h, j, "error")
  \/ /\ n # NoNote
     /\ n.status = status
     /\ Begin(h, IF j.kind \in {"forget", "sweep"} THEN "archive" ELSE "mirror",
              [j EXCEPT !.after = n])
  \/ /\ n # NoNote
     /\ n.status # status
     /\ Begin(h, "flip", [j EXCEPT !.expected = n, !.after = [n EXCEPT !.status = status]])

Room == Len(held) < left.held

(* An operation on a canonical memory is held for a person.                *)
Hold(op, m, expected, after) ==
  held' = Append(held, [op |-> op, mem |-> m, expected |-> expected, after |-> after,
                           state |-> "pending"])

(* Mutant: the transition table is not consulted. *)
MutPromote(h, m) ==
  /\ rows[m] # NoRow
  /\ Spend(h, "requests")
  /\ StartFlip(h, [Idle EXCEPT !.kind = "promote", !.mem = m], "working")
  /\ UNCHANGED <<note, commits, rows, txns, held, lock>>

(* Only scratch -> working lands at once; working -> canonical is held.    *)
Promote(h, m) ==
  /\ rows[m] # NoRow
  /\ Spend(h, "requests")
  /\ \/ /\ rows[m].status = "scratch"
        /\ StartFlip(h, [Idle EXCEPT !.kind = "promote", !.mem = m], "working")
        /\ UNCHANGED held
     \/ /\ rows[m].status = "working"
        /\ Room /\ Hold("promote", m, NoNote, NoNote)
        /\ UNCHANGED <<pc, job>>
  /\ UNCHANGED <<note, commits, rows, txns, lock>>

(* Mutant: forgetting does not ask whether the memory is canonical. *)
MutForget(h, m) ==
  /\ rows[m] # NoRow
  /\ rows[m].status # "forgotten"
  /\ Spend(h, "requests")
  /\ StartFlip(h, [Idle EXCEPT !.kind = "forget", !.mem = m], "forgotten")
  /\ UNCHANGED <<note, commits, rows, txns, held, lock>>

Forget(h, m) ==
  /\ rows[m] # NoRow
  /\ rows[m].status # "forgotten"
  /\ Spend(h, "requests")
  /\ \/ /\ rows[m].status = "canonical"
        /\ Room /\ Hold("forget", m, NoNote, NoNote)
        /\ UNCHANGED <<pc, job>>
     \/ /\ rows[m].status # "canonical"
        /\ StartFlip(h, [Idle EXCEPT !.kind = "forget", !.mem = m], "forgotten")
        /\ UNCHANGED held
  /\ UNCHANGED <<note, commits, rows, txns, lock>>

Retire(h, m) ==
  /\ rows[m] # NoRow
  /\ Spend(h, "requests")
  /\ \/ /\ rows[m].status = "canonical"
        /\ Room /\ Hold("retire", m, NoNote, NoNote)
        /\ UNCHANGED <<pc, job>>
     \/ /\ rows[m].status = "working"
        /\ StartFlip(h, [Idle EXCEPT !.kind = "retire", !.mem = m], "retired")
        /\ UNCHANGED held
  /\ UNCHANGED <<note, commits, rows, txns, lock>>

(* A revise carries the hash of the note when it was asked for.            *)
Revise(h, m, b) ==
  LET n == NoteOf(m)
      revised == [n EXCEPT !.body = b] IN
  /\ n # NoNote
  /\ n.body # b
  /\ Spend(h, "requests")
  /\ \/ /\ rows[m].status = "canonical"
        /\ Room /\ Hold("revise", m, n, revised)
        /\ UNCHANGED <<pc, job>>
     \/ /\ rows[m].status # "canonical"
        /\ Begin(h, "flip", [Idle EXCEPT !.kind = "revise", !.mem = m, !.expected = n,
                                         !.after = revised])
        /\ UNCHANGED held
  /\ UNCHANGED <<note, commits, rows, txns, lock>>

(* Mutant: a refused patch is taken for an applied one. *)
MutApplyPatch(h) ==
  LET m == job[h].mem IN
  /\ pc[h] = "flip"
  /\ lock = NoHost
  /\ \/ /\ note[m] = job[h].expected
        /\ Applied(h, "revise", m, job[h].after)
        /\ Begin(h, "link", [job[h] EXCEPT !.commit = Len(commits) + 1, !.how = "flipped"])
     \/ /\ note[m] # job[h].expected
        /\ Begin(h, "link", [job[h] EXCEPT !.how = "flipped"])
        /\ UNCHANGED <<note, commits, txns>>
  /\ UNCHANGED <<rows, held, lock, left>>

(* broker.apply of the patch, under the lock: the note must be where the   *)
(* row said (NOT_FOUND) and what it was (STALE_HASH).                      *)
ApplyPatch(h) ==
  LET m == job[h].mem
      inPlace == IsAt(m, job[h].expected.place) IN
  /\ pc[h] = "flip"
  /\ lock = NoHost
  /\ \/ /\ inPlace /\ note[m] = job[h].expected
        /\ Applied(h, "revise", m, job[h].after)
        /\ IF job[h].kind = "revise" /\ job[h].apr # 0
           THEN Ended(h, job[h], "ok")
           ELSE Begin(h, "link", [job[h] EXCEPT !.commit = Len(commits) + 1, !.how = "flipped"])
     \/ /\ ~(inPlace /\ note[m] = job[h].expected)
        /\ Ended(h, job[h], IF inPlace THEN "stale" ELSE "error")
        /\ UNCHANGED <<note, commits, txns>>
  /\ UNCHANGED <<rows, held, lock, left>>

(* The second commit of a forget moves the bytes it finds, from where the  *)
(* row said to the archive.                                                *)
ArchiveNote(h) ==
  LET m == job[h].mem
      found == job[h].after.place = "Memory" /\ IsAt(m, "Memory") IN
  /\ pc[h] = "archive"
  /\ lock = NoHost
  /\ \/ /\ found
        /\ Applied(h, "forget", m, [note[m] EXCEPT !.place = "Archive"])
        /\ Begin(h, "mirror", [job[h] EXCEPT !.commit = Len(commits) + 1, !.how = "archived"])
     \/ /\ ~found
        /\ Ended(h, job[h], "error")
        /\ UNCHANGED <<note, commits, txns>>
  /\ UNCHANGED <<rows, held, lock, left>>

(* The row takes the new status, whatever it is by now.                    *)
MirrorRow(h) ==
  LET m == job[h].mem IN
  /\ pc[h] = "mirror"
  /\ rows' = CASE rows[m] = NoRow -> rows
               [] rows[m] # NoRow /\ job[h].how = "archived" ->
                    [rows EXCEPT ![m] = [place |-> "Archive", status |-> "forgotten"]]
               [] OTHER -> [rows EXCEPT ![m].status = job[h].after.status]
  /\ IF job[h].how = "archived" THEN Goto(h, "link") ELSE Ended(h, job[h], "ok")
  /\ UNCHANGED <<note, commits, txns, held, lock, left>>

-----------------------------------------------------------------------------
(* approve() of a held operation; the arms that go through the store start *)
(* from the row as it is now.                                              *)

Approve(h, a) ==
  LET op == held[a]
      m == op.mem
      j == [Idle EXCEPT !.kind = op.op, !.mem = m, !.apr = a] IN
  /\ held[a].state = "pending"
  /\ Spend(h, "requests")
  /\ \/ /\ op.op = "revise"
        /\ Begin(h, "flip", [j EXCEPT !.expected = op.expected, !.after = op.after])
     \/ /\ op.op # "revise" /\ rows[m] = NoRow
        /\ Ended(h, j, "error")
     \/ /\ op.op = "promote" /\ rows[m] # NoRow
        /\ StartFlip(h, j, "canonical")
     \/ /\ op.op = "forget" /\ rows[m] # NoRow
        /\ IF rows[m].status = "forgotten" THEN Ended(h, j, "ok")
           ELSE StartFlip(h, j, "forgotten")
     \/ /\ op.op = "retire" /\ rows[m] # NoRow
        /\ CASE rows[m].status = "retired" -> Ended(h, j, "ok")
             [] rows[m].status \in {"scratch", "forgotten", "reverted"} -> Ended(h, j, "stale")
             [] OTHER -> StartFlip(h, j, "retired")
  /\ UNCHANGED <<note, commits, rows, txns, held, lock>>

Outcomes == [ok |-> "approved", stale |-> "stale", error |-> "pending"]

(* runDispatch: approved, or stale; any other error leaves it pending.     *)
ResolveApproval(h) ==
  /\ pc[h] = "resolve"
  /\ held' = IF job[h].how = "error" THEN held
             ELSE [held EXCEPT ![job[h].apr].state = Outcomes[job[h].how]]
  /\ Begin(h, "idle", Idle)
  /\ UNCHANGED <<note, commits, rows, txns, lock, left>>

Reject(h, a) ==
  /\ held[a].state = "pending"
  /\ Spend(h, "requests")
  /\ held' = [held EXCEPT ![a].state = "rejected"]
  /\ UNCHANGED <<note, commits, rows, txns, lock, pc, job>>

-----------------------------------------------------------------------------
(* The TTL sweep: the scratch rows are listed once, then each expired one  *)
(* is forgotten; a failure does not stop it.                               *)

SweepList(h) ==
  LET listed == {m \in Memories : rows[m] # NoRow /\ rows[m].status = "scratch"} IN
  /\ Spend(h, "sweep")
  /\ \E expired \in SUBSET listed \ {{}} :
       Begin(h, "sweep", [Idle EXCEPT !.kind = "sweep", !.rest = expired])
  /\ UNCHANGED <<note, commits, rows, txns, held, lock>>

SweepNext(h) ==
  /\ pc[h] = "sweep"
  /\ \/ /\ job[h].rest = {}
        /\ Begin(h, "idle", Idle)
        /\ UNCHANGED held
     \/ \E m \in job[h].rest :
          LET j == [Idle EXCEPT !.kind = "sweep", !.mem = m, !.rest = job[h].rest \ {m}] IN
          IF rows[m] = NoRow \/ rows[m].status = "forgotten"
          THEN Ended(h, j, "ok") /\ UNCHANGED held
          ELSE IF rows[m].status = "canonical"
          THEN Hold("forget", m, NoNote, NoNote) /\ Ended(h, j, "ok")
          ELSE StartFlip(h, j, "forgotten") /\ UNCHANGED held
  /\ UNCHANGED <<note, commits, rows, txns, lock, left>>

-----------------------------------------------------------------------------
(* git revert, field by field: git merges the status line, the body and a  *)
(* rename apart, and refuses what would conflict or change nothing.        *)

RevertResults(c, ours) ==
  LET base == commits[c].after
      theirs == commits[c].before
      Merged(b, t, o) == IF o = b THEN t ELSE o
      Conflicting(b, t, o) == b # t /\ o # b /\ o # t
  IN IF NoNote \in {base, theirs}
     THEN IF ours = base THEN {theirs} ELSE {}
     ELSE IF ours = NoNote \/ (\E f \in DOMAIN base : Conflicting(base[f], theirs[f], ours[f]))
     THEN {}
     ELSE {[f \in DOMAIN base |-> Merged(base[f], theirs[f], ours[f])]} \ {ours}

(* The members of S, a finite set of numbers, in descending order. *)
NewestFirst(S) ==
  [i \in 1..Cardinality(S) |-> CHOOSE n \in S : Cardinality({k \in S : k >= n}) = i]

(* The queue of an undo: one transaction, or those of the session, newest  *)
(* row first.                                                              *)
SessionQueue ==
  NewestFirst({i \in DOMAIN txns : txns[i].status = "applied" /\ txns[i].op # "revert"})

UndoStart(h, queue) ==
  /\ lock = NoHost
  /\ queue # <<>>
  /\ Spend(h, "undo")
  /\ lock' = h
  /\ Begin(h, "undo", [Idle EXCEPT !.kind = "undo", !.queue = queue])
  /\ UNCHANGED <<note, commits, rows, txns, held>>

(* Mutant: a conflict leaves the lock taken. *)
MutUndoRevert(h) ==
  LET t == txns[Head(job[h].queue)]
      m == commits[t.commit].mem
      results == IF job[h].queue = <<>> \/ t.status = "reverted" THEN {}
                 ELSE RevertResults(t.commit, note[m]) IN
  /\ pc[h] = "undo"
  /\ \/ \E after \in results :
          /\ commits' = Append(commits, [op |-> "revert", mem |-> m, before |-> note[m],
                                         after |-> after])
          /\ note' = [note EXCEPT ![m] = after]
          /\ Begin(h, "compensate", [job[h] EXCEPT !.commit = Len(commits) + 1])
     \/ /\ results = {}
        /\ Begin(h, "idle", Idle)
        /\ UNCHANGED <<note, commits>>
  /\ UNCHANGED <<rows, txns, held, lock, left>>

(* The next transaction is reverted; a reverted one, a conflict or the end *)
(* of the queue ends the undo and releases the lock.                       *)
UndoRevert(h) ==
  LET queue == job[h].queue
      t == txns[Head(queue)]
      m == commits[t.commit].mem
      results == IF queue = <<>> \/ t.status = "reverted" THEN {}
                 ELSE RevertResults(t.commit, note[m]) IN
  /\ pc[h] = "undo"
  /\ \/ \E after \in results :
          /\ commits' = Append(commits, [op |-> "revert", mem |-> m, before |-> note[m],
                                         after |-> after])
          /\ note' = [note EXCEPT ![m] = after]
          /\ Begin(h, "compensate", [job[h] EXCEPT !.commit = Len(commits) + 1])
          /\ UNCHANGED lock
     \/ /\ results = {}
        /\ lock' = NoHost
        /\ Begin(h, "idle", Idle)
        /\ UNCHANGED <<note, commits>>
  /\ UNCHANGED <<rows, txns, held, left>>

(* Mutant: the memory of an undone transaction is marked reverted, whatever *)
(* the revert left in the vault.                                            *)
MutDerivedStatus(m) == "reverted"

(* The memory's status is read back from the file at the row's path.       *)
DerivedStatus(m) ==
  IF NoteOf(m) = NoNote THEN "reverted" ELSE note[m].status

CompensateJournal(h) ==
  LET i == Head(job[h].queue)
      m == txns[i].mem IN
  /\ pc[h] = "compensate"
  /\ txns' = Append([txns EXCEPT ![i].status = "reverted"],
                    [commit |-> job[h].commit, op |-> "revert", mem |-> m, status |-> "applied"])
  /\ rows' = IF m = NoMem THEN rows
             ELSE IF rows[m] = NoRow THEN rows
             ELSE [rows EXCEPT ![m].status = DerivedStatus(m)]
  /\ Begin(h, "undo", [job[h] EXCEPT !.queue = Tail(@)])
  /\ UNCHANGED <<note, commits, held, lock, left>>

-----------------------------------------------------------------------------
(* The journal may be lost (it lives outside the vault); a host that finds *)
(* it empty, or a person, rebuilds it.  No lock is taken: the notes of one *)
(* directory are listed, then each is read and its row written, then the   *)
(* ledger commits without a row are recorded as git lists them.            *)

LoseJournal ==
  /\ left.loss > 0
  /\ AllIdle
  /\ left' = [left EXCEPT !.loss = @ - 1]
  /\ rows' = [m \in Memories |-> NoRow]
  /\ txns' = <<>>
  /\ held' = <<>>
  /\ UNCHANGED <<note, commits, lock, pc, job>>

JournalEmpty == txns = <<>> /\ \A m \in Memories : rows[m] = NoRow

InPlace(place) == {m \in Memories : IsAt(m, place)}

StartReindex(h) ==
  /\ pc[h] = "idle"
  /\ commits # <<>>
  /\ \/ JournalEmpty /\ UNCHANGED left
     \/ Spend(h, "reindex")
  /\ Begin(h, "walk", [Idle EXCEPT !.kind = "Memory", !.rest = InPlace("Memory")])
  /\ UNCHANGED <<note, commits, rows, txns, held, lock>>

(* A note moved since it was listed is skipped; an id seen in the first    *)
(* directory is a conflict in the second, and is skipped too.              *)
ParseNote(h) ==
  /\ pc[h] = "walk"
  /\ \/ \E m \in job[h].rest :
          LET j == [job[h] EXCEPT !.rest = @ \ {m}] IN
          IF IsAt(m, job[h].kind) /\ m \notin job[h].seen
          THEN Begin(h, "upsert", [j EXCEPT !.mem = m, !.expected = note[m]])
          ELSE Begin(h, "walk", j)
     \/ /\ job[h].rest = {} /\ job[h].kind = "Memory"
        /\ Begin(h, "walk", [job[h] EXCEPT !.kind = "Archive", !.rest = InPlace("Archive")])
     \/ /\ job[h].rest = {} /\ job[h].kind = "Archive"
        /\ Begin(h, "replay", Idle)
  /\ UNCHANGED <<note, commits, rows, txns, held, lock, left>>

(* Mutant: a row that exists is left alone. *)
MutUpsertMemory(h) ==
  LET m == job[h].mem
      n == job[h].expected IN
  /\ pc[h] = "upsert"
  /\ rows' = IF rows[m] # NoRow THEN rows
             ELSE [rows EXCEPT ![m] = [place |-> n.place, status |-> n.status]]
  /\ Begin(h, "walk", [job[h] EXCEPT !.mem = NoMem, !.expected = NoNote, !.seen = @ \cup {m}])
  /\ UNCHANGED <<note, commits, txns, held, lock, left>>

UpsertMemory(h) ==
  LET m == job[h].mem
      n == job[h].expected IN
  /\ pc[h] = "upsert"
  /\ rows' = [rows EXCEPT ![m] = [place |-> n.place, status |-> n.status]]
  /\ Begin(h, "walk", [job[h] EXCEPT !.mem = NoMem, !.expected = NoNote, !.seen = @ \cup {m}])
  /\ UNCHANGED <<note, commits, txns, held, lock, left>>

ReplayCommits(h) ==
  LET recorded == {txns[i].commit : i \in DOMAIN txns}
      missing == NewestFirst({c \in DOMAIN commits \ recorded : commits[c].op # "revert"}) IN
  /\ pc[h] = "replay"
  /\ txns' = txns \o [i \in DOMAIN missing |->
                        [commit |-> missing[i], op |-> commits[missing[i]].op,
                         mem |-> NoMem, status |-> "applied"]]
  /\ Begin(h, "idle", Idle)
  /\ UNCHANGED <<note, commits, rows, held, lock, left>>

(* A host dies; its lock goes stale and is free.                           *)
Crash(h) ==
  /\ pc[h] # "idle"
  /\ left.crash > 0
  /\ left' = [left EXCEPT !.crash = @ - 1]
  /\ lock' = IF lock = h THEN NoHost ELSE lock
  /\ Begin(h, "idle", Idle)
  /\ UNCHANGED <<note, commits, rows, txns, held>>

-----------------------------------------------------------------------------
Step(h) ==
  \/ CreateNote(h) \/ InsertRow(h) \/ LinkTransaction(h) \/ ApplyPatch(h)
  \/ ArchiveNote(h) \/ MirrorRow(h) \/ ResolveApproval(h) \/ SweepNext(h)
  \/ UndoRevert(h) \/ CompensateJournal(h)
  \/ ParseNote(h) \/ UpsertMemory(h) \/ ReplayCommits(h)

Request(h) ==
  \/ \E m \in left.memories, b \in left.bodies : Remember(h, m, b) \/ Revise(h, m, b)
  \/ \E m \in left.memories : Promote(h, m) \/ Forget(h, m) \/ Retire(h, m)
  \/ \E a \in DOMAIN held : Approve(h, a) \/ Reject(h, a)
  \/ SweepList(h)
  \/ \E i \in DOMAIN txns : UndoStart(h, <<i>>)
  \/ UndoStart(h, SessionQueue)
  \/ StartReindex(h)

Next ==
  \/ \E h \in left.hosts : Request(h) \/ Step(h) \/ Crash(h)
  \/ LoseJournal

Spec == Init /\ [][Next]_vars
=============================================================================
