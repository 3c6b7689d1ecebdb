------------------------------- MODULE Broker -------------------------------
(***************************************************************************)
(* The write path of VaultLedger: the approvals queue, the broker that     *)
(* applies an operation to a note, the git ledger it commits to, the       *)
(* journal it records in, undo, and the reconciliation every host runs     *)
(* when it starts.                                                         *)
(*                                                                         *)
(* A host (CLI command, MCP server, bridge) is a worker: it runs one       *)
(* request at a time and may die between any two steps.  A step is what    *)
(* the code does between two awaits, or between two durable effects (a     *)
(* file, a commit, a journal statement) a crash can separate.  Hosts share *)
(* the working tree `file`, the git history `log`, the SQLite journal      *)
(* (`txns`, `approvals`) and the vault lock.  People edit `file` with no   *)
(* lock at all.                                                            *)
(*                                                                         *)
(* A note's bytes are an element of Contents; the hash of a note is the    *)
(* note.  A patch is the content it yields from the bytes it expects, or   *)
(* Unappliable.  Git's index is identified with HEAD.                      *)
(***************************************************************************)
EXTENDS Naturals, Sequences, FiniteSets

CONSTANTS
  Workers,        \* the hosts
  Paths,          \* vault-relative note paths
  Contents,       \* what a note may contain
  Provenance,     \* Contents -> the note's governed provenance, or Plain
  Plain,          \* no ledger: block and no entity
  Zone,           \* Paths -> {"agent", "scratch", "trusted", "excluded"}
  Ids,            \* approval ids
  NoId,           \* approval_id NULL
  NoOp,           \* no operation
  Absent,         \* no file; hash NULL
  Basename,       \* the path column of a row recovered from a commit message
  Unappliable,    \* the result of a patch the applier rejects
  NoHost,         \* the vault lock is free
  Tracked,        \* Paths -> Contents or Absent: HEAD when the vault is opened
  OnDisk,         \* Paths -> Contents or Absent: the working tree then
  Proposals,      \* operations agents may propose
  Direct,         \* operations agents may apply without approval
  StatusFlips,    \* internal revisions by the memory store (approved, no id)
  HumanContents,  \* what people may leave in a note (may hold Absent)
  Worlds          \* by name: which of those a behaviour has, and its bounds

ASSUME ZoneAssumption ==
  Zone \in [Paths -> {"agent", "scratch", "trusted", "excluded"}]

ASSUME ValueAssumption ==
  /\ Provenance \in [Contents -> {Provenance[c] : c \in Contents}]
  /\ Absent \notin Contents
  /\ Unappliable \notin Contents \cup {Absent}
  /\ NoId \notin Ids
  /\ NoHost \notin Workers
  /\ Tracked \in [Paths -> Contents \cup {Absent}]
  /\ OnDisk \in [Paths -> Contents \cup {Absent}]
  /\ HumanContents \subseteq Contents \cup {Absent}

Bytes == Contents \cup {Absent}
Tree == [Paths -> Bytes]

(* An operation as the broker sees it: `expected` is the content whose     *)
(* hash it carries, `content` what its patch makes of that, `dest` where   *)
(* a move or an archive puts the bytes (the path itself otherwise).        *)
Kinds == {"create", "newfile", "revise", "delete", "move", "archive"}
Ops == [kind : Kinds, path : Paths, dest : Paths,
        expected : Bytes, content : Bytes \cup {Unappliable}]

ASSUME OpsAssumption ==
  /\ NoOp \notin Ops
  /\ Proposals \subseteq Ops /\ Direct \subseteq Ops /\ StatusFlips \subseteq Ops
  /\ \A op \in Proposals : op.kind \in {"newfile", "revise", "delete", "move"}
  /\ \A op \in Direct : op.kind \in {"create", "newfile", "revise", "archive"}
  /\ \A op \in StatusFlips : op.kind = "revise" /\ Zone[op.path] \in {"agent", "scratch"}
  /\ \A op \in Proposals \cup Direct \cup StatusFlips :
       /\ op.kind \in {"create", "newfile", "revise"} => op.dest = op.path /\ op.content # Absent
       /\ op.kind = "delete" => op.dest = op.path
       /\ op.kind \in {"delete", "archive"} => op.content = Absent
       /\ op.kind = "create" => op.content # Unappliable
       /\ op.kind \in {"create", "newfile"} => op.expected = Absent

(* A world: the operations that may be proposed, applied and asked of the  *)
(* broker by the memory store, what people may leave in a note, and how    *)
(* many applies and rejections, undos, edits by people, deaths of a host   *)
(* and failures of git there may be.                                       *)
ASSUME WorldsAssumption ==
  \A n \in DOMAIN Worlds :
    Worlds[n] \in [proposals : SUBSET Proposals, direct : SUBSET Direct,
                  flips : SUBSET StatusFlips, people : SUBSET HumanContents,
                  requests : Nat, undo : Nat, human : Nat, crash : Nat, gitfail : Nat]

VARIABLES
  file,       \* the working tree
  log,        \* the git history, oldest first; its last tree is HEAD
  txns,       \* the rows of the transactions table
  approvals,  \* the rows of the approvals table
  lock,       \* the holder of the vault lock, or NoHost
  pc,         \* what each host does next
  job,        \* the request each host is serving
  outcome,    \* how its apply ended: "ok", "stale" or "error"
  seen,       \* what a starting host has listed and not yet handled
  left        \* the world, and what remains of each of its bounds

vars == <<file, log, txns, approvals, lock, pc, job, outcome, seen, left>>

HEAD == log[Len(log)].tree
ProvenanceOf(c) == IF c \in Contents THEN Provenance[c] ELSE Plain
Agentic(p) == Zone[p] \in {"agent", "scratch"}

World == Worlds[left.world]

Idle == [op |-> NoOp, apr |-> NoId, internal |-> FALSE, target |-> 0]
Approved(j) == j.internal \/ j.apr # NoId

Init ==
  /\ file = OnDisk
  /\ log = <<[kind |-> "initial", op |-> "none", apr |-> NoId, tree |-> Tracked]>>
  /\ txns = {}
  /\ approvals = [a \in Ids |-> [state |-> "unused", op |-> NoOp]]
  /\ lock = NoHost
  /\ pc = [w \in Workers |-> "down"]
  /\ job = [w \in Workers |-> Idle]
  /\ outcome = [w \in Workers |-> "ok"]
  /\ seen = [w \in Workers |-> {}]
  /\ \E n \in DOMAIN Worlds :
       left = [world |-> n, requests |-> Worlds[n].requests, undo |-> Worlds[n].undo,
               human |-> Worlds[n].human, crash |-> Worlds[n].crash,
               gitfail |-> Worlds[n].gitfail]

-----------------------------------------------------------------------------
(* Proposals.  The propose gate holds the lock but never awaits, so it is  *)
(* one step taken while the lock is free.  An edit's hash is not compared, *)
(* a delete's or a move's is.                                              *)

(* An excluded source looks missing. *)
SourceFound(op) == Zone[op.path] # "excluded" /\ file[op.path] # Absent

ProposeEditGate(op) ==
  /\ op.kind \in {"newfile", "revise"}
  /\ Zone[op.path] # "excluded"
  /\ op.kind = "revise" => file[op.path] # Absent
  /\ op.kind = "newfile" =>
       /\ file[op.path] = Absent
       /\ op.content # Unappliable
       /\ ProvenanceOf(op.content) = Plain

ProposeDeleteGate(op) ==
  /\ op.kind = "delete"
  /\ SourceFound(op) /\ file[op.path] = op.expected
  /\ ProvenanceOf(op.expected) = Plain

ProposeMoveGate(op) ==
  /\ op.kind = "move"
  /\ SourceFound(op) /\ file[op.path] = op.expected
  /\ ProvenanceOf(op.expected) = Plain
  /\ Zone[op.dest] # "excluded" /\ file[op.dest] = Absent

Propose(a, op) ==
  /\ op \in World.proposals
  /\ lock = NoHost
  /\ approvals[a].state = "unused"
  /\ ProposeEditGate(op) \/ ProposeDeleteGate(op) \/ ProposeMoveGate(op)
  /\ approvals' = [approvals EXCEPT ![a] = [state |-> "pending", op |-> op]]
  /\ UNCHANGED <<file, log, txns, lock, pc, job, outcome, seen, left>>

-----------------------------------------------------------------------------
(* Requests.  approve() reads the approval before it takes any lock.       *)

Start(w, j, step, budget) ==
  /\ pc[w] = "idle"
  /\ left[budget] > 0
  /\ left' = [left EXCEPT ![budget] = @ - 1]
  /\ job' = [job EXCEPT ![w] = j]
  /\ pc' = [pc EXCEPT ![w] = step]
  /\ UNCHANGED <<file, log, txns, approvals, lock, outcome, seen>>

Approve(w, a) ==
  /\ approvals[a].state = "pending"
  /\ Start(w, [Idle EXCEPT !.op = approvals[a].op, !.apr = a], "lock", "requests")

Reject(w, a) ==
  /\ approvals[a].state = "pending"
  /\ Start(w, [Idle EXCEPT !.apr = a], "reject", "requests")

Submit(w, op) ==
  /\ op \in World.direct
  /\ Start(w, [Idle EXCEPT !.op = op], "lock", "requests")

(* The hash a status flip carries is that of the note when it is asked.    *)
FlipStatus(w, op) ==
  /\ op \in World.flips
  /\ file[op.path] = op.expected
  /\ Start(w, [Idle EXCEPT !.op = op, !.internal = TRUE], "lock", "requests")

Undo(w, row) == Start(w, [Idle EXCEPT !.target = row.commit], "lock", "undo")

Undoing(w) == job[w].target # 0

(* setApprovalState is an unconditional UPDATE. *)
SetRejected(w) ==
  /\ pc[w] = "reject"
  /\ approvals' = [approvals EXCEPT ![job[w].apr].state = "rejected"]
  /\ pc' = [pc EXCEPT ![w] = "idle"]
  /\ job' = [job EXCEPT ![w] = Idle]
  /\ UNCHANGED <<file, log, txns, lock, outcome, seen, left>>

-----------------------------------------------------------------------------
(* The vault lock.  A host that gives up waiting gets an error that is not *)
(* a BrokerError, so its approval stays pending.                           *)

LockVault(w) ==
  /\ pc[w] = "lock"
  /\ lock = NoHost
  /\ lock' = w
  /\ pc' = [pc EXCEPT ![w] = IF Undoing(w) THEN "undo" ELSE "check"]
  /\ UNCHANGED <<file, log, txns, approvals, job, outcome, seen, left>>

LockTimeout(w) ==
  /\ pc[w] = "lock"
  /\ lock # NoHost
  /\ pc' = [pc EXCEPT ![w] = "idle"]
  /\ job' = [job EXCEPT ![w] = Idle]
  /\ UNCHANGED <<file, log, txns, approvals, lock, outcome, seen, left>>

Goto(w, step) ==
  /\ pc' = [pc EXCEPT ![w] = step]
  /\ UNCHANGED outcome

Finish(w, how) ==
  /\ pc' = [pc EXCEPT ![w] = "release"]
  /\ outcome' = [outcome EXCEPT ![w] = how]

-----------------------------------------------------------------------------
(* Apply.  The verdict of each operation's gates, in the order the code    *)
(* tries them: "stale" is STALE_HASH, "error" every code that leaves an    *)
(* approval pending.                                                       *)

ReviseZone(op, approved) ==
  Zone[op.path] # "excluded" /\ (Zone[op.path] = "trusted" => approved)

CreateVerdict(op) ==
  IF Agentic(op.path) /\ file[op.path] = Absent THEN "ok" ELSE "error"

(* Mutant: the creation branch of a revise skips the trusted-zone gate. *)
MutNewFileVerdict(op, j) ==
  IF /\ Zone[op.path] # "excluded"
     /\ file[op.path] = Absent
     /\ op.content # Unappliable
     /\ ProvenanceOf(op.content) = Plain
  THEN "ok" ELSE "error"

NewFileVerdict(op, j) ==
  IF /\ ReviseZone(op, Approved(j))
     /\ file[op.path] = Absent
     /\ op.content # Unappliable
     /\ ProvenanceOf(op.content) = Plain
  THEN "ok" ELSE "error"

(* Only the memory store's own flips may change governed provenance. *)
ReviseVerdict(op, j) ==
  LET before == file[op.path]
      changesProvenance == ProvenanceOf(op.content) # ProvenanceOf(before)
  IN IF ~ReviseZone(op, Approved(j)) \/ before = Absent THEN "error"
     ELSE IF before # op.expected THEN "stale"
     ELSE IF op.content = Unappliable \/ (changesProvenance /\ ~j.internal) THEN "error"
     ELSE "ok"

(* Mutant: the hash check made when a delete was proposed is trusted. *)
MutDeleteVerdict(op) == IF SourceFound(op) THEN "ok" ELSE "error"

DeleteVerdict(op) ==
  IF ~SourceFound(op) THEN "error"
  ELSE IF file[op.path] # op.expected THEN "stale" ELSE "ok"

MoveVerdict(op) ==
  IF DeleteVerdict(op) # "ok" THEN DeleteVerdict(op)
  ELSE IF Zone[op.dest] = "excluded" \/ file[op.dest] # Absent THEN "error" ELSE "ok"

ArchiveVerdict(op) ==
  IF /\ Agentic(op.path) /\ Agentic(op.dest)
     /\ file[op.path] # Absent /\ file[op.dest] = Absent
  THEN "ok" ELSE "error"

(* A creation writes in the step that checks: nothing is awaited between.  *)
ApplyCreate(w) ==
  /\ pc[w] = "check"
  /\ job[w].op.kind \in {"create", "newfile"}
  /\ LET op == job[w].op
         verdict == IF op.kind = "create" THEN CreateVerdict(op)
                    ELSE NewFileVerdict(op, job[w]) IN
     IF verdict = "ok"
     THEN file' = [file EXCEPT ![op.path] = op.content] /\ Goto(w, "commit")
     ELSE Finish(w, verdict) /\ UNCHANGED file
  /\ UNCHANGED <<log, txns, approvals, lock, job, seen, left>>

(* The others first await git's answer whether HEAD has the note. *)
ApplyChange(w) ==
  /\ pc[w] = "check"
  /\ job[w].op.kind \in {"revise", "delete", "move"}
  /\ LET op == job[w].op
         verdict == CASE op.kind = "revise" -> ReviseVerdict(op, job[w])
                      [] op.kind = "delete" -> DeleteVerdict(op)
                      [] op.kind = "move" -> MoveVerdict(op) IN
     IF verdict = "ok" THEN Goto(w, "baseline") ELSE Finish(w, verdict)
  /\ UNCHANGED <<file, log, txns, approvals, lock, job, seen, left>>

(* An archive moves whatever bytes it reads. *)
DoArchive(w) ==
  /\ pc[w] = "check"
  /\ job[w].op.kind = "archive"
  /\ LET op == job[w].op
         verdict == ArchiveVerdict(op) IN
     IF verdict = "ok"
     THEN /\ file' = [file EXCEPT ![op.dest] = file[op.path]]
          /\ job' = [job EXCEPT ![w].op.expected = file[op.path]]
          /\ Goto(w, "unlink")
     ELSE Finish(w, verdict) /\ UNCHANGED <<file, job>>
  /\ UNCHANGED <<log, txns, approvals, lock, seen, left>>

(* A commit: its tree, what its message tells (a ledger commit names its   *)
(* operation), and, which git does not keep, the approval it was made for. *)
Committed(kind, op, apr, tree) ==
  log' = Append(log, [kind |-> kind, op |-> op, apr |-> apr, tree |-> tree])

(* Mutant: no baseline of a note git has never seen. *)
MutCommitBaseline(w) ==
  /\ pc[w] = "baseline"
  /\ Goto(w, IF job[w].op.kind = "delete" THEN "unlink" ELSE "write")
  /\ UNCHANGED <<file, log, txns, approvals, lock, job, seen, left>>

(* An untracked note is first committed as it stands, so that undo has a   *)
(* pre-image to restore.                                                   *)
CommitBaseline(w) ==
  /\ pc[w] = "baseline"
  /\ LET p == job[w].op.path
         next == IF job[w].op.kind = "delete" THEN "unlink" ELSE "write" IN
     \/ /\ HEAD[p] # Absent
        /\ Goto(w, next)
        /\ UNCHANGED log
     \/ /\ HEAD[p] = Absent
        /\ file[p] # Absent
        /\ Committed("baseline", "none", NoId, [HEAD EXCEPT ![p] = file[p]])
        /\ Goto(w, next)
     \/ /\ HEAD[p] = Absent
        /\ file[p] = Absent
        /\ Finish(w, "error")
        /\ UNCHANGED log
  /\ UNCHANGED <<file, txns, approvals, lock, job, seen, left>>

WriteNote(w) ==
  /\ pc[w] = "write"
  /\ LET op == job[w].op IN
     \/ /\ op.kind = "revise"
        /\ file' = [file EXCEPT ![op.path] = op.content]
        /\ Goto(w, "commit")
     \/ /\ op.kind = "move"
        /\ file' = [file EXCEPT ![op.dest] = op.expected]
        /\ Goto(w, "unlink")
  /\ UNCHANGED <<log, txns, approvals, lock, job, seen, left>>

(* unlinkSync throws ENOENT if the source has gone since it was read. *)
UnlinkSource(w) ==
  /\ pc[w] = "unlink"
  /\ LET p == job[w].op.path IN
     \/ /\ file[p] # Absent
        /\ file' = [file EXCEPT ![p] = Absent]
        /\ Goto(w, "commit")
     \/ /\ file[p] = Absent
        /\ Finish(w, "error")
        /\ UNCHANGED file
  /\ UNCHANGED <<log, txns, approvals, lock, job, seen, left>>

(* git add && git commit -- <paths>: what the working tree holds at those  *)
(* paths.  git refuses a path it has never seen and an empty commit.       *)
CommitOp(w) ==
  /\ pc[w] = "commit"
  /\ LET op == job[w].op
         paths == {op.path, op.dest}
         tree == [p \in Paths |-> IF p \in paths THEN file[p] ELSE HEAD[p]]
         accepted == tree # HEAD /\ \A p \in paths : {file[p], HEAD[p]} # {Absent} IN
     \/ /\ accepted
        /\ Committed("ledger", op.kind, job[w].apr, tree)
        /\ Goto(w, "record")
     \/ /\ ~accepted
        /\ Finish(w, "error")
        /\ UNCHANGED log
  /\ UNCHANGED <<file, txns, approvals, lock, job, seen, left>>

(* Any git command can fail: a full disk, a foreign index.lock. *)
GitFails(w) ==
  /\ pc[w] \in {"baseline", "commit", "revert"}
  /\ left.gitfail > 0
  /\ left' = [left EXCEPT !.gitfail = @ - 1]
  /\ Finish(w, "error")
  /\ UNCHANGED <<file, log, txns, approvals, lock, job, seen>>

Rows(c) == {r \in txns : r.commit = c}

(* Mutant: no unique index on commit_sha. *)
MutRecordTransaction(w) ==
  /\ pc[w] = "record"
  /\ LET op == job[w].op IN
     txns' = txns \cup
       {[commit |-> Len(log), by |-> "broker", op |-> op.kind, path |-> op.path,
         before |-> op.expected, after |-> IF op.kind = "move" THEN op.expected
                                            ELSE op.content,
         apr |-> job[w].apr, status |-> "applied"]}
  /\ Finish(w, "ok")
  /\ UNCHANGED <<file, log, approvals, lock, job, seen, left>>

(* A plain INSERT: it throws if the commit already has a row. *)
RecordTransaction(w) ==
  /\ pc[w] = "record"
  /\ LET op == job[w].op IN
     \/ /\ Rows(Len(log)) = {}
        /\ txns' = txns \cup
             {[commit |-> Len(log), by |-> "broker", op |-> op.kind, path |-> op.path,
               before |-> op.expected, after |-> IF op.kind = "move" THEN op.expected
                                                  ELSE op.content,
               apr |-> job[w].apr, status |-> "applied"]}
        /\ Finish(w, "ok")
     \/ /\ Rows(Len(log)) # {}
        /\ Finish(w, "error")
        /\ UNCHANGED txns
  /\ UNCHANGED <<file, log, approvals, lock, job, seen, left>>

(* The finally block: the lock is released whatever happened. *)
ReleaseLock(w) ==
  /\ pc[w] = "release"
  /\ lock' = NoHost
  /\ IF job[w].apr # NoId
     THEN pc' = [pc EXCEPT ![w] = "resolve"] /\ UNCHANGED <<job, outcome>>
     ELSE /\ pc' = [pc EXCEPT ![w] = "idle"]
          /\ job' = [job EXCEPT ![w] = Idle]
          /\ outcome' = [outcome EXCEPT ![w] = "ok"]
  /\ UNCHANGED <<file, log, txns, approvals, seen, left>>

(* What approve() does with the outcome, the lock already released: an     *)
(* unconditional UPDATE, or nothing when the error is not stale-eligible.  *)
Resolution == [ok |-> "approved", stale |-> "stale"]

ResolveApproval(w) ==
  /\ pc[w] = "resolve"
  /\ approvals' = IF outcome[w] = "error" THEN approvals
                  ELSE [approvals EXCEPT ![job[w].apr].state = Resolution[outcome[w]]]
  /\ pc' = [pc EXCEPT ![w] = "idle"]
  /\ job' = [job EXCEPT ![w] = Idle]
  /\ outcome' = [outcome EXCEPT ![w] = "ok"]
  /\ UNCHANGED <<file, log, txns, lock, seen, left>>

-----------------------------------------------------------------------------
(* git revert of commit c on top of HEAD: the trees it can produce, none   *)
(* when it conflicts.  A three-way merge of whole notes (base: the commit, *)
(* theirs: its parent, ours: HEAD) that follows exact renames as git does. *)

Renamed(p, q, old, new) ==
  /\ old[p] # Absent /\ new[p] = Absent
  /\ old[q] = Absent /\ new[q] = old[p]

RevertTrees(c) ==
  LET base == log[c].tree
      theirs == log[c - 1].tree
      ours == HEAD
      changed == {p \in Paths : base[p] # theirs[p]}
      moves == {m \in Paths \X Paths : Renamed(m[1], m[2], base, theirs)}
      strays == {m \in changed \X Paths : Renamed(m[1], m[2], base, ours)}
  IN IF moves # {}
     THEN {[ours EXCEPT ![m[2]] = ours[m[1]], ![m[1]] = Absent] :
             m \in {n \in moves : /\ ours[n[1]] # Absent
                                  /\ \/ ours[n[2]] = Absent
                                     \/ ours[n[1]] = base[n[1]] /\ ours[n[2]] = base[n[1]]}}
     ELSE IF strays # {}
     THEN {[ours EXCEPT ![m[2]] = theirs[m[1]]] :
             m \in {n \in strays : theirs[n[1]] # Absent}}
     ELSE IF \A p \in changed : ours[p] \in {base[p], theirs[p]}
     THEN {[p \in Paths |-> IF p \in changed THEN theirs[p] ELSE ours[p]]}
     ELSE {}

(* git also refuses an empty revert, and one that would overwrite what the *)
(* working tree holds uncommitted.                                         *)
Revertible(tree) ==
  /\ tree # HEAD
  /\ \A p \in Paths : tree[p] # HEAD[p] => file[p] \in {HEAD[p], Absent}

UndoCheck(w) ==
  /\ pc[w] = "undo"
  /\ \/ /\ \E r \in Rows(job[w].target) : r.status = "applied"
        /\ Goto(w, "revert")
     \/ /\ \A r \in Rows(job[w].target) : r.status = "reverted"
        /\ Finish(w, "error")
  /\ UNCHANGED <<file, log, txns, approvals, lock, job, seen, left>>

RevertCommit(w) ==
  /\ pc[w] = "revert"
  /\ LET trees == {t \in RevertTrees(job[w].target) : Revertible(t)} IN
     \/ \E t \in trees :
          /\ Committed("revert", "none", NoId, t)
          /\ file' = [p \in Paths |-> IF t[p] # HEAD[p] THEN t[p] ELSE file[p]]
          /\ Goto(w, "compensate")
     \/ /\ trees = {}
        /\ Finish(w, "error")
        /\ UNCHANGED <<file, log>>
  /\ UNCHANGED <<txns, approvals, lock, job, seen, left>>

(* Mutant: the mirrored row does not swap its hashes. *)
MutCompensateJournal(w) ==
  /\ pc[w] = "compensate"
  /\ LET r == CHOOSE x \in Rows(job[w].target) : TRUE IN
     txns' = (txns \ {r}) \cup
       {[r EXCEPT !.status = "reverted"],
        [r EXCEPT !.commit = Len(log), !.by = "undo", !.op = "revert", !.apr = NoId]}
  /\ Finish(w, "ok")
  /\ UNCHANGED <<file, log, approvals, lock, job, seen, left>>

(* One SQLite transaction: the row is marked reverted and its hash mirror  *)
(* is recorded.                                                            *)
CompensateJournal(w) ==
  /\ pc[w] = "compensate"
  /\ LET r == CHOOSE x \in Rows(job[w].target) : TRUE IN
     txns' = (txns \ {r}) \cup
       {[r EXCEPT !.status = "reverted"],
        [r EXCEPT !.commit = Len(log), !.by = "undo", !.op = "revert", !.apr = NoId,
                  !.before = r.after, !.after = r.before]}
  /\ Finish(w, "ok")
  /\ UNCHANGED <<file, log, approvals, lock, job, seen, left>>

-----------------------------------------------------------------------------
(* A starting host reconciles, without the lock: it lists the ledger       *)
(* commits, records those that have no row (INSERT OR NOTHING), then lists *)
(* the pending approvals and closes those an applied row names.            *)

LedgerCommits == {c \in 1..Len(log) : log[c].kind = "ledger"}

(* Mutant: only the commits newer than the last one recorded are listed. *)
MutListCommits(w) ==
  /\ pc[w] = "down"
  /\ seen' = [seen EXCEPT ![w] = {c \in LedgerCommits : \A r \in txns : r.commit < c}]
  /\ pc' = [pc EXCEPT ![w] = "repair"]
  /\ UNCHANGED <<file, log, txns, approvals, lock, job, outcome, left>>

ListCommits(w) ==
  /\ pc[w] = "down"
  /\ seen' = [seen EXCEPT ![w] = {c \in LedgerCommits : Rows(c) = {}}]
  /\ pc' = [pc EXCEPT ![w] = "repair"]
  /\ UNCHANGED <<file, log, txns, approvals, lock, job, outcome, left>>

ReconciledRow(c) ==
  [commit |-> c, by |-> "reconcile", op |-> log[c].op, path |-> Basename,
   before |-> Absent, after |-> Absent, apr |-> NoId, status |-> "applied"]

RepairJournal(w) ==
  /\ pc[w] = "repair"
  /\ txns' = txns \cup {ReconciledRow(c) : c \in {d \in seen[w] : Rows(d) = {}}}
  /\ seen' = [seen EXCEPT ![w] = {a \in Ids : approvals[a].state = "pending"}]
  /\ pc' = [pc EXCEPT ![w] = "close"]
  /\ UNCHANGED <<file, log, approvals, lock, job, outcome, left>>

(* Mutants: an approval is closed by any row on its path; none is closed. *)
MutCloseByPath(w) ==
  /\ pc[w] = "close"
  /\ LET applied == {a \in seen[w] : \E r \in txns :
                       r.path = approvals[a].op.path /\ r.status = "applied"} IN
     approvals' = [a \in Ids |-> IF a \in applied
                                 THEN [approvals[a] EXCEPT !.state = "approved"]
                                 ELSE approvals[a]]
  /\ seen' = [seen EXCEPT ![w] = {}]
  /\ pc' = [pc EXCEPT ![w] = "idle"]
  /\ UNCHANGED <<file, log, txns, lock, job, outcome, left>>

MutCloseNone(w) ==
  /\ pc[w] = "close"
  /\ seen' = [seen EXCEPT ![w] = {}]
  /\ pc' = [pc EXCEPT ![w] = "idle"]
  /\ UNCHANGED <<file, log, txns, approvals, lock, job, outcome, left>>

CloseStaleApprovals(w) ==
  /\ pc[w] = "close"
  /\ LET applied == {a \in seen[w] : \E r \in txns : r.apr = a /\ r.status = "applied"} IN
     approvals' = [a \in Ids |-> IF a \in applied
                                 THEN [approvals[a] EXCEPT !.state = "approved"]
                                 ELSE approvals[a]]
  /\ seen' = [seen EXCEPT ![w] = {}]
  /\ pc' = [pc EXCEPT ![w] = "idle"]
  /\ UNCHANGED <<file, log, txns, lock, job, outcome, left>>

Down(w) ==
  /\ pc' = [pc EXCEPT ![w] = "down"]
  /\ job' = [job EXCEPT ![w] = Idle]
  /\ outcome' = [outcome EXCEPT ![w] = "ok"]
  /\ seen' = [seen EXCEPT ![w] = {}]

(* A host whose work is done exits; the next one starts by reconciling. *)
Exit(w) ==
  /\ pc[w] = "idle"
  /\ Down(w)
  /\ UNCHANGED <<file, log, txns, approvals, lock, left>>

(* A host dies.  Its lock goes stale and the waiting hosts, which retry    *)
(* for longer than that takes, steal it.                                   *)
Crash(w) ==
  /\ pc[w] \notin {"idle", "down"}
  /\ left.crash > 0
  /\ left' = [left EXCEPT !.crash = @ - 1]
  /\ lock' = IF lock = w THEN NoHost ELSE lock
  /\ Down(w)
  /\ UNCHANGED <<file, log, txns, approvals>>

(* A person, or a sync client, edits a note. *)
HumanEdit(p, c) ==
  /\ c \in World.people
  /\ left.human > 0
  /\ left' = [left EXCEPT !.human = @ - 1]
  /\ file[p] # c
  /\ file' = [file EXCEPT ![p] = c]
  /\ UNCHANGED <<log, txns, approvals, lock, pc, job, outcome, seen>>

-----------------------------------------------------------------------------
Serve(w) ==
  \/ LockVault(w) \/ LockTimeout(w)
  \/ ApplyCreate(w) \/ ApplyChange(w) \/ DoArchive(w) \/ CommitBaseline(w)
  \/ WriteNote(w) \/ UnlinkSource(w) \/ CommitOp(w) \/ RecordTransaction(w)
  \/ ReleaseLock(w) \/ ResolveApproval(w) \/ SetRejected(w)
  \/ UndoCheck(w) \/ RevertCommit(w) \/ CompensateJournal(w)

Reconcile(w) == ListCommits(w) \/ RepairJournal(w) \/ CloseStaleApprovals(w)

Request(w) ==
  \/ \E a \in Ids : Approve(w, a) \/ Reject(w, a)
  \/ \E op \in Direct : Submit(w, op)
  \/ \E op \in StatusFlips : FlipStatus(w, op)
  \/ \E r \in txns : Undo(w, r)

Next ==
  \/ \E a \in Ids, op \in Proposals : Propose(a, op)
  \/ \E w \in Workers : Request(w) \/ Serve(w) \/ Reconcile(w)
  \/ \E w \in Workers : GitFails(w) \/ Crash(w) \/ Exit(w)
  \/ \E p \in Paths, c \in HumanContents : HumanEdit(p, c)

Spec == Init /\ [][Next]_vars

(* A host that started a request or a reconciliation keeps taking its      *)
(* steps, and a host that went down is started again.                      *)
Fairness == \A w \in Workers : WF_vars(Serve(w) \/ Reconcile(w))
LiveSpec == Spec /\ Fairness
=============================================================================
