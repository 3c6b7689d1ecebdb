----------------------------- MODULE BrokerProofs -----------------------------
(***************************************************************************)
(* The safety of the write path for every set of hosts, notes, operations  *)
(* and approvals.  First the types, one row per commit, no false close,    *)
(* nothing unrecorded, and the zones: all five follow from one invariant,  *)
(* IInv, whose parts say what a host may rely on at each of its steps.     *)
(* Then, from HInv beside it, what the rows and the history say of bytes.  *)
(***************************************************************************)
EXTENDS BrokerProperties, Integers, TLAPS

(* The steps a host takes holding the vault lock. *)
ApplySteps == {"check", "baseline", "write", "unlink", "commit", "record"}
UndoSteps == {"undo", "revert", "compensate"}
Locked == ApplySteps \cup UndoSteps \cup {"release"}

(* One host at a time is past the lock. *)
LockInv == \A w \in Workers : pc[w] \in Locked => lock = w

(* What a request is, whichever way it came: operations that need an       *)
(* approval carry its id, internal ones touch agent notes only.            *)
ApplyJob(j) ==
  /\ j.op \in Ops
  /\ j.op.kind # "archive" /\ j.op.kind # "move" => j.op.dest = j.op.path
  /\ j.op.kind = "create" => j.op.content # Unappliable
  /\ j.op.kind \in {"delete", "move"} => j.apr # NoId
  /\ j.internal => j.op.kind = "revise" /\ Agentic(j.op.path)
JobInv == \A w \in Workers :
  /\ pc[w] \in {"reject", "resolve"} => job[w].apr \in Ids
  /\ pc[w] \in ApplySteps => job[w].target = 0
  /\ pc[w] \in ApplySteps \cup {"lock"} /\ job[w].target = 0 => ApplyJob(job[w])
  /\ pc[w] \in UndoSteps => job[w].target # 0
  /\ job[w].target # 0 => job[w].apr = NoId /\ \E r \in txns : r.commit = job[w].target

(* What the gates have established about an operation under way. *)
Cleared(j) ==
  /\ \A p \in {j.op.path, j.op.dest} :
       Zone[p] # "excluded" /\ (Zone[p] = "trusted" => j.apr # NoId)
  /\ j.op.kind = "revise" => j.op.content # Unappliable
ClearedInv == \A w \in Workers :
  pc[w] \in ApplySteps \ {"check"} => Cleared(job[w])

(* Rows name commits of the history, each at most once, and a host about   *)
(* to record a commit knows what the last one is.                          *)
HistoryInv ==
  /\ log # <<>> /\ log[1].kind = "initial"
  /\ \A r \in txns : r.commit \in 2..Len(log)
  /\ \A w \in Workers : pc[w] = "repair" => seen[w] \subseteq LedgerCommits
  /\ \A w \in Workers : pc[w] = "compensate" =>
       log[Len(log)].kind = "revert" /\ \A r \in txns : r.commit # Len(log)
  /\ \A w \in Workers : pc[w] = "record" =>
       log[Len(log)].kind = "ledger" /\ log[Len(log)].apr = job[w].apr

(* Whatever makes an approval approved has seen its commit. *)
Asked(a) == approvals[a].state # "unused"
ApprovalInv ==
  /\ \A a \in Ids : Asked(a) => approvals[a].op \in Proposals
  /\ \A w \in Workers : job[w].apr # NoId => Asked(job[w].apr)
  /\ \A r \in txns : r.apr # NoId => Asked(r.apr) /\ AppliedCommit(r.apr)
  /\ \A w \in Workers : /\ pc[w] \in {"release", "resolve"}
                        /\ outcome[w] = "ok" /\ job[w].apr # NoId
                        => AppliedCommit(job[w].apr)

(* No commit has ever touched an excluded note. *)
ExcludedUntouched ==
  \A c \in 1..Len(log), p \in Paths :
    Zone[p] = "excluded" => log[c].tree[p] = log[1].tree[p]
TrustedApproved ==
  \A c \in 2..Len(log), p \in Paths :
    log[c].kind = "ledger" /\ Zone[p] = "trusted" /\ log[c].tree[p] # log[c - 1].tree[p]
      => log[c].apr # NoId

IInv ==
  /\ TypeOK /\ LockInv /\ JobInv /\ ClearedInv
  /\ HistoryInv /\ OneRowPerCommit
  /\ ApprovalInv /\ NoFalseClose /\ NothingUnrecorded
  /\ ExcludedUntouched /\ TrustedApproved

-----------------------------------------------------------------------------
(* A commit appends to a typed history and leaves what it holds.           *)
LEMMA CommitAppends ==
  ASSUME log \in Seq(CommitType), log # <<>>,
         NEW kind \in CommitKinds, NEW op \in Kinds \cup {"none"},
         NEW apr \in Ids \cup {NoId}, NEW tree \in Tree,
         Committed(kind, op, apr, tree)
  PROVE  /\ log' \in Seq(CommitType) /\ log' # <<>>
         /\ Len(log) \in Nat \ {0} /\ Len(log') = Len(log) + 1
         /\ \A c \in 1..Len(log) : log'[c] = log[c]
         /\ log'[Len(log) + 1] = [kind |-> kind, op |-> op, apr |-> apr, tree |-> tree]
<1>1. [kind |-> kind, op |-> op, apr |-> apr, tree |-> tree] \in CommitType
  BY DEF CommitType
<1>2. QED
  BY <1>1 DEF Committed

(* HEAD is a tree of the history.                                          *)
LEMMA HEADTyped ==
  ASSUME log \in Seq(CommitType), log # <<>>
  PROVE  /\ Len(log) \in Nat \ {0} /\ HEAD \in Tree
         /\ \A c \in 1..Len(log) : log[c] \in CommitType /\ log[c].tree \in Tree
<1>1. Len(log) \in Nat \ {0}
  OBVIOUS
<1>2. \A c \in 1..Len(log) : log[c] \in CommitType
  OBVIOUS
<1>3. \A e \in CommitType : e.tree \in Tree
  BY DEF CommitType
<1>4. QED
  BY <1>1, <1>2, <1>3 DEF HEAD

(* What git revert may leave as HEAD is a tree.                            *)
LEMMA RevertTreesTyped ==
  ASSUME log \in Seq(CommitType), log # <<>>, NEW c \in 2..Len(log),
         NEW t \in RevertTrees(c)
  PROVE  t \in Tree
<1>1. HEAD \in Tree /\ log[c].tree \in Tree /\ log[c - 1].tree \in Tree
  <2>1. c \in 1..Len(log) /\ c - 1 \in 1..Len(log)
    BY HEADTyped
  <2>2. QED
    BY <2>1, HEADTyped
<1>2. QED
  BY <1>1 DEF RevertTrees, Tree, Bytes

-----------------------------------------------------------------------------
(* Every step keeps the types.  The cases that need more than TypeOK are   *)
(* those that put a job's operation in a file, a commit or a row.          *)
LEMMA TypeStep ==
  ASSUME TypeOK, JobInv, ClearedInv, HistoryInv, Next
  PROVE  TypeOK'
<1>0. /\ log \in Seq(CommitType) /\ log # <<>> /\ file \in Tree /\ HEAD \in Tree
      /\ Len(log) \in Nat \ {0}
  BY HEADTyped DEF TypeOK, HistoryInv
<1>1. ASSUME NEW a \in Ids, NEW op \in Proposals, Propose(a, op)
      PROVE  TypeOK'
  BY <1>1, OpsAssumption DEF TypeOK, Propose, ApprovalType
<1>2. ASSUME NEW w \in Workers, NEW j \in JobType, NEW step \in Steps,
             NEW budget \in {"requests", "undo"}, Start(w, j, step, budget)
      PROVE  TypeOK'
  BY <1>2 DEF TypeOK, Start
<1>3. ASSUME NEW w \in Workers, Request(w)
      PROVE  TypeOK'
  <2>1. Idle \in JobType
    BY DEF Idle, JobType
  <2>2. ASSUME NEW a \in Ids, Approve(w, a) PROVE TypeOK'
    <3>1. [Idle EXCEPT !.op = approvals[a].op, !.apr = a] \in JobType
      BY <2>1 DEF JobType, TypeOK, ApprovalType
    <3>2. QED
      BY <1>2, <2>2, <3>1 DEF Approve, Steps
  <2>3. ASSUME NEW a \in Ids, Reject(w, a) PROVE TypeOK'
    <3>1. [Idle EXCEPT !.apr = a] \in JobType
      BY <2>1 DEF JobType
    <3>2. QED
      BY <1>2, <2>3, <3>1 DEF Reject, Steps
  <2>4. ASSUME NEW op \in Ops, Submit(w, op) \/ FlipStatus(w, op) PROVE TypeOK'
    <3>1. /\ [Idle EXCEPT !.op = op] \in JobType
          /\ [Idle EXCEPT !.op = op, !.internal = TRUE] \in JobType
      BY <2>1 DEF JobType
    <3>2. QED
      BY <1>2, <2>4, <3>1 DEF Submit, FlipStatus, Steps
  <2>5. ASSUME NEW r \in txns, Undo(w, r) PROVE TypeOK'
    <3>1. r.commit \in Nat
      BY DEF TypeOK, RowType
    <3>2. [Idle EXCEPT !.target = r.commit] \in JobType
      BY <2>1, <3>1 DEF JobType
    <3>3. QED
      BY <1>2, <2>5, <3>2 DEF Undo, Steps
  <2>6. QED
    BY <1>3, <2>2, <2>3, <2>4, <2>5, OpsAssumption DEF Request
<1>4. ASSUME NEW w \in Workers, LockVault(w) \/ LockTimeout(w) PROVE TypeOK'
  <2>1. Idle \in JobType
    BY DEF Idle, JobType
  <2>2. QED
    BY <1>4, <2>1 DEF TypeOK, LockVault, LockTimeout, Steps
<1>5. ASSUME NEW w \in Workers, ApplyCreate(w) PROVE TypeOK'
  <2>1. job[w].op \in Ops /\ ApplyJob(job[w]) /\ job[w].op.path \in Paths
    BY <1>5 DEF JobInv, ApplyCreate, ApplySteps, ApplyJob, Ops
  <2>2. CASE file' = file
    BY <1>5, <2>2 DEF TypeOK, ApplyCreate, Goto, Finish, CreateVerdict, NewFileVerdict, Steps
  <2>3. CASE file' # file
    <3>1. job[w].op.content \in Bytes
      BY <1>5, <2>1, <2>3 DEF ApplyCreate, NewFileVerdict, ApplyJob, Ops
    <3>2. file' \in Tree
      BY <1>0, <1>5, <2>1, <2>3, <3>1 DEF ApplyCreate, Tree
    <3>3. QED
      BY <1>5, <2>3, <3>2 DEF TypeOK, ApplyCreate, Goto, Steps
  <2>4. QED
    BY <2>2, <2>3
<1>6. ASSUME NEW w \in Workers, ApplyChange(w) PROVE TypeOK'
  BY <1>6 DEF TypeOK, ApplyChange, Goto, Finish, ReviseVerdict, DeleteVerdict, MoveVerdict, Steps
<1>7. ASSUME NEW w \in Workers, DoArchive(w) PROVE TypeOK'
  <2>1. job[w].op \in Ops /\ job[w].op.path \in Paths /\ job[w].op.dest \in Paths
    BY <1>7 DEF JobInv, DoArchive, ApplySteps, ApplyJob, Ops
  <2>2. file[job[w].op.path] \in Bytes
    BY <1>0, <2>1 DEF Tree
  <2>3. [file EXCEPT ![job[w].op.dest] = file[job[w].op.path]] \in Tree
    BY <1>0, <2>1, <2>2 DEF Tree
  <2>4. [job[w].op EXCEPT !.expected = file[job[w].op.path]] \in Ops
    BY <2>1, <2>2 DEF Ops
  <2>5. [job EXCEPT ![w].op.expected = file[job[w].op.path]] \in [Workers -> JobType]
    <3> DEFINE j == [job[w] EXCEPT !.op = [job[w].op EXCEPT !.expected = file[job[w].op.path]]]
    <3>1. job[w] \in JobType /\ job \in [Workers -> JobType]
      BY DEF TypeOK
    <3>2. j \in JobType
      BY <2>4, <3>1 DEF JobType
    <3>3. [job EXCEPT ![w].op.expected = file[job[w].op.path]] = [job EXCEPT ![w] = j]
      OBVIOUS
    <3>4. QED
      BY <3>1, <3>2, <3>3
  <2>6. QED
    BY <1>7, <2>3, <2>5 DEF TypeOK, DoArchive, Goto, Finish, ArchiveVerdict, Steps
<1>8. ASSUME NEW w \in Workers, CommitBaseline(w) PROVE TypeOK'
  <2>1. job[w].op.path \in Paths
    BY <1>8 DEF JobInv, CommitBaseline, ApplySteps, ApplyJob, Ops
  <2>2. [HEAD EXCEPT ![job[w].op.path] = file[job[w].op.path]] \in Tree
    BY <1>0, <2>1 DEF Tree
  <2>3. log' \in Seq(CommitType)
    <3>1. CASE log' = log
      BY <1>0, <3>1
    <3>2. CASE Committed("baseline", "none", NoId,
                         [HEAD EXCEPT ![job[w].op.path] = file[job[w].op.path]])
      BY <1>0, <2>2, <3>2, CommitAppends DEF CommitKinds
    <3>3. QED
      BY <1>8, <3>1, <3>2 DEF CommitBaseline
  <2>4. QED
    BY <1>8, <2>3 DEF TypeOK, CommitBaseline, Goto, Finish, Steps
<1>9. ASSUME NEW w \in Workers, WriteNote(w) PROVE TypeOK'
  <2>1. job[w].op \in Ops /\ job[w].op.path \in Paths /\ job[w].op.dest \in Paths
    BY <1>9 DEF JobInv, WriteNote, ApplySteps, ApplyJob, Ops
  <2>2. job[w].op.kind = "revise" => job[w].op.content \in Bytes
    BY <1>9, <2>1 DEF ClearedInv, Cleared, WriteNote, ApplySteps, Ops
  <2>3. job[w].op.expected \in Bytes
    BY <2>1 DEF Ops
  <2>4. file' \in Tree
    BY <1>0, <1>9, <2>1, <2>2, <2>3 DEF WriteNote, Tree
  <2>5. QED
    BY <1>9, <2>4 DEF TypeOK, WriteNote, Goto, Steps
<1>10. ASSUME NEW w \in Workers, UnlinkSource(w) PROVE TypeOK'
  <2>1. file' \in Tree
    BY <1>0, <1>10 DEF UnlinkSource, Tree, Bytes
  <2>2. QED
    BY <1>10, <2>1 DEF TypeOK, UnlinkSource, Goto, Finish, Steps
<1>11. ASSUME NEW w \in Workers, CommitOp(w) PROVE TypeOK'
  <2>1. job[w].op \in Ops /\ job[w].op.kind \in Kinds
    BY <1>11 DEF JobInv, CommitOp, ApplySteps, ApplyJob, Ops
  <2>2. job[w].apr \in Ids \cup {NoId}
    BY DEF TypeOK, JobType
  <2>3. ASSUME NEW paths, NEW tree, tree = [p \in Paths |-> IF p \in paths THEN file[p] ELSE HEAD[p]],
               Committed("ledger", job[w].op.kind, job[w].apr, tree)
        PROVE  log' \in Seq(CommitType)
    <3>1. tree \in Tree
      BY <1>0, <2>3 DEF Tree
    <3>2. QED
      BY <1>0, <2>1, <2>2, <2>3, <3>1, CommitAppends DEF CommitKinds
  <2>4. log' \in Seq(CommitType)
    BY <1>0, <1>11, <2>3 DEF CommitOp
  <2>5. QED
    BY <1>11, <2>4 DEF TypeOK, CommitOp, Goto, Finish, Steps
<1>12. ASSUME NEW w \in Workers, RecordTransaction(w) PROVE TypeOK'
  <2>1. job[w].op \in Ops /\ job[w].apr \in Ids \cup {NoId}
    BY <1>12 DEF JobInv, RecordTransaction, ApplySteps, ApplyJob, TypeOK, JobType
  <2>2. ASSUME NEW after \in Bytes \cup {Unappliable}
        PROVE  [commit |-> Len(log), by |-> "broker", op |-> job[w].op.kind,
                path |-> job[w].op.path, before |-> job[w].op.expected, after |-> after,
                apr |-> job[w].apr, status |-> "applied"] \in RowType
    BY <1>0, <2>1 DEF RowType, Ops
  <2>3. job[w].op.content \in Bytes \cup {Unappliable} /\ job[w].op.expected \in Bytes
    BY <2>1 DEF Ops
  <2>4. txns' \subseteq RowType
    BY <1>12, <2>2, <2>3 DEF RecordTransaction, TypeOK
  <2>5. QED
    BY <1>12, <2>4 DEF TypeOK, RecordTransaction, Finish, Steps
<1>13. ASSUME NEW w \in Workers, ReleaseLock(w) \/ ResolveApproval(w) \/ SetRejected(w)
       PROVE  TypeOK'
  <2>1. Idle \in JobType
    BY DEF Idle, JobType
  <2>2. CASE ReleaseLock(w)
    BY <2>1, <2>2 DEF TypeOK, ReleaseLock, Steps
  <2>3. CASE ResolveApproval(w)
    <3>1. outcome[w] # "error" => Resolution[outcome[w]] \in {"approved", "stale"}
      BY DEF TypeOK, Resolution
    <3>2. approvals' \in [Ids -> ApprovalType]
      BY <2>3, <3>1, ZenonT(30) DEF TypeOK, ResolveApproval, ApprovalType
    <3>3. QED
      BY <2>1, <2>3, <3>2 DEF TypeOK, ResolveApproval, Steps
  <2>4. CASE SetRejected(w)
    BY <2>1, <2>4 DEF TypeOK, SetRejected, Steps, ApprovalType
  <2>5. QED
    BY <1>13, <2>2, <2>3, <2>4
<1>14. ASSUME NEW w \in Workers, UndoCheck(w) PROVE TypeOK'
  BY <1>14 DEF TypeOK, UndoCheck, Goto, Finish, Steps
<1>15. ASSUME NEW w \in Workers, RevertCommit(w) PROVE TypeOK'
  <2>1. job[w].target \in 2..Len(log)
    BY <1>15 DEF JobInv, HistoryInv, RevertCommit, UndoSteps
  <2>2. ASSUME NEW t \in RevertTrees(job[w].target), Committed("revert", "none", NoId, t),
               file' = [p \in Paths |-> IF t[p] # HEAD[p] THEN t[p] ELSE file[p]]
        PROVE  file' \in Tree /\ log' \in Seq(CommitType)
    <3>1. t \in Tree
      BY <1>0, <2>1, RevertTreesTyped
    <3>2. file' \in Tree
      BY <1>0, <2>2, <3>1 DEF Tree
    <3>3. QED
      BY <1>0, <2>2, <3>1, <3>2, CommitAppends DEF CommitKinds
  <2>3. file' \in Tree /\ log' \in Seq(CommitType)
    BY <1>0, <1>15, <2>2 DEF RevertCommit
  <2>4. QED
    BY <1>15, <2>3 DEF TypeOK, RevertCommit, Goto, Finish, Steps
<1>16. ASSUME NEW w \in Workers, CompensateJournal(w) PROVE TypeOK'
  <2>1. PICK r \in txns : r.commit = job[w].target
    BY <1>16 DEF JobInv, CompensateJournal, UndoSteps
  <2>2. DEFINE x == CHOOSE y \in Rows(job[w].target) : TRUE
  <2>3. x \in RowType
    BY <2>1 DEF Rows, TypeOK
  <2>4. [x EXCEPT !.status = "reverted"] \in RowType
    BY <2>3 DEF RowType
  <2>5. [x EXCEPT !.commit = Len(log), !.by = "undo", !.op = "revert", !.apr = NoId,
                  !.before = x.after, !.after = x.before] \in RowType
    BY <1>0, <2>3 DEF RowType
  <2>6. txns' \subseteq RowType
    BY <1>16, <2>4, <2>5 DEF CompensateJournal, TypeOK
  <2>7. QED
    BY <1>16, <2>6 DEF TypeOK, CompensateJournal, Finish, Steps
<1>17. ASSUME NEW w \in Workers, ListCommits(w) PROVE TypeOK'
  BY <1>0, <1>17 DEF TypeOK, ListCommits, LedgerCommits, Steps
<1>18. ASSUME NEW w \in Workers, RepairJournal(w) PROVE TypeOK'
  <2>1. ASSUME NEW c \in seen[w] PROVE ReconciledRow(c) \in RowType
    <3>1. c \in 1..Len(log)
      BY <1>18 DEF HistoryInv, LedgerCommits, RepairJournal
    <3>2. log[c].op \in Kinds \cup {"none"}
      BY <1>0, <3>1, HEADTyped DEF CommitType
    <3>3. QED
      BY <1>0, <3>1, <3>2 DEF ReconciledRow, RowType, Bytes
  <2>2. QED
    BY <1>18, <2>1 DEF TypeOK, RepairJournal, Steps
<1>19. ASSUME NEW w \in Workers, CloseStaleApprovals(w) PROVE TypeOK'
  BY <1>19 DEF TypeOK, CloseStaleApprovals, Steps, ApprovalType
<1>20. ASSUME NEW w \in Workers, GitFails(w) PROVE TypeOK'
  BY <1>20 DEF TypeOK, GitFails, Finish, Steps
<1>21. ASSUME NEW w \in Workers, Crash(w) \/ Exit(w) PROVE TypeOK'
  <2>1. Idle \in JobType
    BY DEF Idle, JobType
  <2>2. left' \in [world : DOMAIN Worlds, requests : Nat, undo : Nat, human : Nat,
                   crash : Nat, gitfail : Nat]
    BY <1>21 DEF TypeOK, Crash, Exit
  <2>3. /\ file' = file /\ log' = log /\ txns' = txns /\ approvals' = approvals
        /\ lock' \in Workers \cup {NoHost}
    BY <1>21 DEF TypeOK, Crash, Exit
  <2>4. Down(w)
    BY <1>21 DEF Crash, Exit
  <2>5. /\ pc' \in [Workers -> Steps] /\ job' \in [Workers -> JobType]
        /\ outcome' \in [Workers -> {"ok", "stale", "error"}]
        /\ seen' \in [Workers -> SUBSET (Nat \cup Ids)]
    BY <2>1, <2>4 DEF TypeOK, Down, Steps
  <2>6. QED
    BY <2>2, <2>3, <2>5 DEF TypeOK
<1>22. ASSUME NEW p \in Paths, NEW c \in HumanContents, HumanEdit(p, c) PROVE TypeOK'
  <2>1. file' \in Tree
    BY <1>0, <1>22, ValueAssumption DEF HumanEdit, Tree, Bytes
  <2>2. QED
    BY <1>22, <2>1, SMTT(30) DEF TypeOK, HumanEdit
<1>23. QED
  BY <1>1, <1>3, <1>4, <1>5, <1>6, <1>7, <1>8, <1>9, <1>10, <1>11, <1>12, <1>13, <1>14,
     <1>15, <1>16, <1>17, <1>18, <1>19, <1>20, <1>21, <1>22
     DEF Next, Serve, Reconcile

(* The lock is taken free, kept until it is released, and freed only by    *)
(* its holder or by the holder's death.                                    *)
LEMMA LockStep ==
  ASSUME TypeOK, LockInv, Next
  PROVE  LockInv'
<1>0. pc \in [Workers -> Steps] /\ lock \in Workers \cup {NoHost} /\ NoHost \notin Workers
  BY ValueAssumption DEF TypeOK
<1> USE DEF Locked, ApplySteps, UndoSteps
<1>1. ASSUME NEW a \in Ids, NEW op \in Proposals, Propose(a, op) PROVE LockInv'
  BY <1>1 DEF LockInv, Propose
<1>2. ASSUME NEW p \in Paths, NEW c \in HumanContents, HumanEdit(p, c) PROVE LockInv'
  BY <1>2 DEF LockInv, HumanEdit
<1>3. ASSUME NEW w \in Workers, Request(w) PROVE LockInv'
  BY <1>0, <1>3 DEF LockInv, Request, Approve, Reject, Submit, FlipStatus, Undo, Start
<1>4. ASSUME NEW w \in Workers, Reconcile(w) \/ Exit(w) PROVE LockInv'
  BY <1>0, <1>4 DEF LockInv, Reconcile, ListCommits, RepairJournal, CloseStaleApprovals, Exit, Down
<1>5. ASSUME NEW w \in Workers, Crash(w) PROVE LockInv'
  BY <1>0, <1>5 DEF LockInv, Crash, Down
<1>6. ASSUME NEW w \in Workers, LockVault(w) \/ LockTimeout(w) \/ ReleaseLock(w) PROVE LockInv'
  BY <1>0, <1>6 DEF LockInv, LockVault, LockTimeout, ReleaseLock
<1>7. ASSUME NEW w \in Workers, ResolveApproval(w) \/ SetRejected(w) PROVE LockInv'
  BY <1>0, <1>7 DEF LockInv, ResolveApproval, SetRejected
<1>8. ASSUME NEW w \in Workers, pc[w] \in Locked, lock' = lock,
             \E step \in Steps : pc' = [pc EXCEPT ![w] = step]
      PROVE  LockInv'
  BY <1>0, <1>8 DEF LockInv
<1>9. ASSUME NEW w \in Workers,
             \/ ApplyCreate(w) \/ ApplyChange(w) \/ DoArchive(w) \/ CommitBaseline(w)
             \/ WriteNote(w) \/ UnlinkSource(w) \/ CommitOp(w) \/ RecordTransaction(w)
      PROVE  LockInv'
  BY <1>8, <1>9, Zenon DEF ApplyCreate, ApplyChange, DoArchive, CommitBaseline, WriteNote,
                    UnlinkSource, CommitOp, RecordTransaction, Goto, Finish, Steps
<1>10. ASSUME NEW w \in Workers,
              UndoCheck(w) \/ RevertCommit(w) \/ CompensateJournal(w) \/ GitFails(w)
       PROVE  LockInv'
  BY <1>8, <1>10 DEF UndoCheck, RevertCommit, CompensateJournal, GitFails, Goto, Finish, Steps
<1>11. QED
  BY <1>1, <1>2, <1>3, <1>4, <1>5, <1>6, <1>7, <1>9, <1>10 DEF Next, Serve

(* An undo replaces the row it reverts by one for the same commit and adds *)
(* its own, for the last commit.                                           *)
LEMMA Compensation ==
  ASSUME TypeOK, JobInv, NEW w \in Workers, CompensateJournal(w)
  PROVE  \E x \in txns : \E y, mirror :
           /\ txns' = (txns \ {x}) \cup {y, mirror}
           /\ y.commit = x.commit /\ y.apr = x.apr
           /\ mirror.commit = Len(log) /\ mirror.apr = NoId
<1>1. PICK q \in txns : q.commit = job[w].target
  BY DEF JobInv, CompensateJournal, UndoSteps
<1> DEFINE x == CHOOSE z \in Rows(job[w].target) : TRUE
           y == [x EXCEPT !.status = "reverted"]
           mirror == [x EXCEPT !.commit = Len(log), !.by = "undo", !.op = "revert",
                               !.apr = NoId, !.before = x.after, !.after = x.before]
<1>2. x \in txns
  BY <1>1 DEF Rows
<1>3. /\ y.commit = x.commit /\ y.apr = x.apr
      /\ mirror.commit = Len(log) /\ mirror.apr = NoId
  BY <1>2 DEF TypeOK, RowType
<1>4. txns' = (txns \ {x}) \cup {y, mirror}
  BY Zenon DEF CompensateJournal
<1> HIDE DEF x, y, mirror
<1>5. QED
  BY <1>2, <1>3, <1>4

(* A commit that has a row keeps one.                                      *)
LEMMA RowsKept ==
  ASSUME TypeOK, JobInv, Next
  PROVE  \A r \in txns : \E s \in txns' : s.commit = r.commit
<1>1. ASSUME NEW w \in Workers, CompensateJournal(w)
      PROVE  \A r \in txns : \E s \in txns' : s.commit = r.commit
  BY <1>1, Compensation
<1>2. CASE txns \subseteq txns'
  BY <1>2
<1>3. ASSUME NEW w \in Workers, Request(w) PROVE txns' = txns
  BY <1>3 DEF Request, Approve, Reject, Submit, FlipStatus, Undo, Start
<1>4. ASSUME NEW w \in Workers, Serve(w), ~CompensateJournal(w) PROVE txns \subseteq txns'
  BY <1>4, Zenon DEF Serve, LockVault, LockTimeout, ApplyCreate, ApplyChange, DoArchive,
     CommitBaseline, WriteNote, UnlinkSource, CommitOp, RecordTransaction, ReleaseLock,
     ResolveApproval, SetRejected, UndoCheck, RevertCommit
<1>5. ASSUME NEW w \in Workers, Reconcile(w) \/ GitFails(w) \/ Crash(w) \/ Exit(w)
      PROVE  txns \subseteq txns'
  BY <1>5 DEF Reconcile, ListCommits, RepairJournal, CloseStaleApprovals, GitFails, Crash, Exit
<1>6. QED
  BY <1>1, <1>2, <1>3, <1>4, <1>5 DEF Next, Propose, HumanEdit

(* What a job is when it starts it remains, and the steps of an operation  *)
(* are those of an operation, the steps of an undo those of an undo.       *)
LEMMA JobStep ==
  ASSUME TypeOK, JobInv, HistoryInv, ApprovalInv, Next
  PROVE  JobInv'
<1>0. /\ pc \in [Workers -> Steps] /\ job \in [Workers -> JobType]
      /\ \A r \in txns : \E s \in txns' : s.commit = r.commit
  BY RowsKept DEF TypeOK
<1> DEFINE Good(step, j, rows) ==
      /\ step \in {"reject", "resolve"} => j.apr \in Ids
      /\ step \in ApplySteps => j.target = 0
      /\ step \in ApplySteps \cup {"lock"} /\ j.target = 0 => ApplyJob(j)
      /\ step \in UndoSteps => j.target # 0
      /\ j.target # 0 => j.apr = NoId /\ \E r \in rows : r.commit = j.target
<1>1. \A w \in Workers : Good(pc[w], job[w], txns)
  BY DEF JobInv
<1>2. \A w \in Workers : Good(pc[w], job[w], txns')
  BY <1>0, <1>1
<1>3. SUFFICES \A w \in Workers : Good(pc'[w], job'[w], txns')
  BY DEF JobInv, ApplyJob
<1>4. CASE pc' = pc /\ job' = job
  BY <1>2, <1>4
<1>5. ASSUME NEW w \in Workers, NEW step, pc' = [pc EXCEPT ![w] = step],
             NEW j, job' = [job EXCEPT ![w] = j], Good(step, j, txns')
      PROVE  \A v \in Workers : Good(pc'[v], job'[v], txns')
  BY <1>0, <1>2, <1>5
<1>6. ASSUME NEW w \in Workers, NEW step, pc' = [pc EXCEPT ![w] = step],
             job' = job, Good(step, job[w], txns')
      PROVE  \A v \in Workers : Good(pc'[v], job'[v], txns')
  BY <1>0, <1>2, <1>6
<1> HIDE DEF Good
<1>7. \A step \in Steps \ ({"reject", "resolve", "lock"} \cup ApplySteps \cup UndoSteps) :
        Good(step, Idle, txns')
  BY DEF Good, Idle
<1>8. ASSUME NEW w \in Workers, Request(w)
      PROVE  \A v \in Workers : Good(pc'[v], job'[v], txns')
  <2>1. ASSUME NEW a \in Ids, Approve(w, a)
        PROVE  Good("lock", [Idle EXCEPT !.op = approvals[a].op, !.apr = a], txns')
    <3>1. approvals[a].op \in Proposals
      BY <2>1 DEF Approve, ApprovalInv, Asked
    <3>2. a # NoId
      BY ValueAssumption
    <3>3. QED
      BY <3>1, <3>2, OpsAssumption DEF Good, Idle, ApplyJob, ApplySteps, UndoSteps, Ops, Kinds
  <2>2. ASSUME NEW a \in Ids
        PROVE  Good("reject", [Idle EXCEPT !.apr = a], txns')
    BY DEF Good, Idle, ApplySteps, UndoSteps
  <2>3. ASSUME NEW op \in Direct
        PROVE  Good("lock", [Idle EXCEPT !.op = op], txns')
    BY OpsAssumption DEF Good, Idle, ApplyJob, ApplySteps, UndoSteps, Ops, Kinds
  <2>4. ASSUME NEW op \in StatusFlips
        PROVE  Good("lock", [Idle EXCEPT !.op = op, !.internal = TRUE], txns')
    BY OpsAssumption DEF Good, Idle, ApplyJob, ApplySteps, UndoSteps, Ops, Kinds, Agentic
  <2>5. ASSUME NEW r \in txns
        PROVE  Good("lock", [Idle EXCEPT !.target = r.commit], txns')
    <3>1. r.commit # 0
      BY DEF HistoryInv
    <3>2. QED
      BY <1>0, <3>1 DEF Good, Idle, ApplySteps, UndoSteps
  <2>6. QED
    BY <1>5, <1>8, <2>1, <2>2, <2>3, <2>4, <2>5, Zenon
    DEF Request, Approve, Reject, Submit, FlipStatus, Undo, Start
<1>9. ASSUME NEW w \in Workers, LockVault(w)
      PROVE  \A v \in Workers : Good(pc'[v], job'[v], txns')
  BY <1>2, <1>6, <1>9 DEF Good, LockVault, Undoing, ApplySteps, UndoSteps
<1>10. ASSUME NEW w \in Workers, LockTimeout(w) \/ ResolveApproval(w) \/ SetRejected(w)
       PROVE  \A v \in Workers : Good(pc'[v], job'[v], txns')
  BY <1>5, <1>7, <1>10 DEF LockTimeout, ResolveApproval, SetRejected, Steps, ApplySteps, UndoSteps
<1>11. ASSUME NEW w \in Workers, ReleaseLock(w)
       PROVE  \A v \in Workers : Good(pc'[v], job'[v], txns')
  <2>1. CASE job[w].apr # NoId
    <3>1. Good("resolve", job[w], txns')
      BY <1>0, <1>2, <2>1 DEF Good, ApplySteps, UndoSteps, JobType
    <3>2. QED
      BY <1>6, <1>11, <2>1, <3>1 DEF ReleaseLock
  <2>2. CASE job[w].apr = NoId
    BY <1>5, <1>7, <1>11, <2>2 DEF ReleaseLock, Steps, ApplySteps, UndoSteps
  <2>3. QED
    BY <2>1, <2>2
<1>12. ASSUME NEW w \in Workers, pc[w] \in ApplySteps, NEW step \in ApplySteps \cup {"release"}
       PROVE  Good(step, job[w], txns')
  BY <1>2, <1>12 DEF Good, ApplySteps, UndoSteps
<1>13. ASSUME NEW w \in Workers, 
              \/ ApplyCreate(w) \/ ApplyChange(w) \/ CommitBaseline(w)
              \/ WriteNote(w) \/ UnlinkSource(w) \/ CommitOp(w) \/ RecordTransaction(w)
       PROVE  \A v \in Workers : Good(pc'[v], job'[v], txns')
  <2>1. /\ pc[w] \in ApplySteps /\ job' = job
        /\ \E step \in ApplySteps \cup {"release"} : pc' = [pc EXCEPT ![w] = step]
    BY <1>13, Zenon DEF ApplyCreate, ApplyChange, CommitBaseline, WriteNote, UnlinkSource, CommitOp,
       RecordTransaction, Goto, Finish, ApplySteps
  <2>2. QED
    BY <1>6, <1>12, <2>1
<1>14. ASSUME NEW w \in Workers, DoArchive(w)
       PROVE  \A v \in Workers : Good(pc'[v], job'[v], txns')
  <2>1. pc[w] \in ApplySteps
    BY <1>14 DEF DoArchive, ApplySteps
  <2>2. CASE job' = job
    <3>1. \E step \in ApplySteps \cup {"release"} : pc' = [pc EXCEPT ![w] = step]
      BY <1>14 DEF DoArchive, Goto, Finish, ApplySteps
    <3>2. QED
      BY <1>6, <1>12, <2>1, <2>2, <3>1
  <2>3. CASE job' # job
    <3> DEFINE j == [job[w] EXCEPT !.op = [job[w].op EXCEPT !.expected = file[job[w].op.path]]]
    <3>1. pc' = [pc EXCEPT ![w] = "unlink"] /\ job' = [job EXCEPT ![w] = j]
      BY <1>14, <2>3 DEF DoArchive, Goto
    <3>2. ApplyJob(job[w]) /\ job[w].op.kind = "archive" /\ job[w].target = 0
      BY <1>2, <1>14, <2>1 DEF Good, DoArchive
    <3>3. job[w] \in JobType
      BY <1>0
    <3>4. file[job[w].op.path] \in Bytes
      BY <3>2 DEF ApplyJob, Ops, TypeOK, Tree
    <3>5. ApplyJob(j) /\ j.target = 0
      BY <3>2, <3>3, <3>4 DEF ApplyJob, JobType, Ops
    <3>6. Good("unlink", j, txns')
      BY <3>5 DEF Good, UndoSteps
    <3>7. QED
      BY <1>5, <3>1, <3>6
  <2>4. QED
    BY <2>2, <2>3
<1>15. ASSUME NEW w \in Workers,
              UndoCheck(w) \/ RevertCommit(w) \/ CompensateJournal(w) \/ GitFails(w)
       PROVE  \A v \in Workers : Good(pc'[v], job'[v], txns')
  <2>1. /\ pc[w] \in ApplySteps \cup UndoSteps /\ job' = job
        /\ \E step \in UndoSteps \cup {"release"} : pc' = [pc EXCEPT ![w] = step]
        /\ pc[w] \in ApplySteps => pc' = [pc EXCEPT ![w] = "release"]
    BY <1>15 DEF UndoCheck, RevertCommit, CompensateJournal, GitFails, Goto, Finish,
                 ApplySteps, UndoSteps
  <2>2. \A step \in UndoSteps \cup {"release"} :
          pc[w] \in UndoSteps \/ step = "release" => Good(step, job[w], txns')
    BY <1>2 DEF Good, ApplySteps, UndoSteps
  <2>3. QED
    BY <1>6, <2>1, <2>2
<1>16. ASSUME NEW w \in Workers, Reconcile(w)
       PROVE  \A v \in Workers : Good(pc'[v], job'[v], txns')
  <2>1. \A step \in {"repair", "close", "idle"} : Good(step, job[w], txns')
    BY <1>2 DEF Good, ApplySteps, UndoSteps
  <2>2. QED
    BY <1>6, <1>16, <2>1 DEF Reconcile, ListCommits, RepairJournal, CloseStaleApprovals
<1>17. ASSUME NEW w \in Workers, Crash(w) \/ Exit(w)
       PROVE  \A v \in Workers : Good(pc'[v], job'[v], txns')
  BY <1>5, <1>7, <1>17 DEF Crash, Exit, Down, Steps, ApplySteps, UndoSteps
<1>18. QED
  BY <1>4, <1>8, <1>9, <1>10, <1>11, <1>13, <1>14, <1>15, <1>16, <1>17
  DEF Next, Serve, Propose, HumanEdit

(* Every operation past its gates was cleared by them, and its job does    *)
(* not change afterwards but for the hash an archive reads.                *)
LEMMA ClearedStep ==
  ASSUME TypeOK, JobInv, ClearedInv, Next
  PROVE  ClearedInv'
<1>0. pc \in [Workers -> Steps] /\ job \in [Workers -> JobType]
  BY DEF TypeOK
<1> DEFINE Good(step, j) == step \in ApplySteps \ {"check"} => Cleared(j)
<1>1. \A w \in Workers : Good(pc[w], job[w])
  BY DEF ClearedInv
<1>2. SUFFICES \A w \in Workers : Good(pc'[w], job'[w])
  BY DEF ClearedInv, Cleared
<1>3. CASE pc' = pc /\ job' = job
  BY <1>1, <1>3
<1>4. ASSUME NEW w \in Workers, NEW step, pc' = [pc EXCEPT ![w] = step],
             \/ job' = job /\ Good(step, job[w])
             \/ \E j : job' = [job EXCEPT ![w] = j] /\ Good(step, j)
      PROVE  \A v \in Workers : Good(pc'[v], job'[v])
  BY <1>0, <1>1, <1>4
<1> HIDE DEF Good
<1>5. ASSUME NEW w \in Workers, NEW step \in (Steps \ ApplySteps) \cup {"check"},
             pc' = [pc EXCEPT ![w] = step],
             job' = job \/ \E j : job' = [job EXCEPT ![w] = j]
      PROVE  \A v \in Workers : Good(pc'[v], job'[v])
  <2>1. \A j : Good(step, j)
    BY DEF Good
  <2>2. QED
    BY <1>4, <1>5, <2>1
<1>6. ASSUME NEW w \in Workers, Request(w)
      PROVE  \A v \in Workers : Good(pc'[v], job'[v])
  <2>1. /\ \E step \in {"lock", "reject"} : pc' = [pc EXCEPT ![w] = step]
        /\ \E j : job' = [job EXCEPT ![w] = j]
    BY <1>6 DEF Request, Approve, Reject, Submit, FlipStatus, Undo, Start
  <2>2. QED
    BY <1>5, <2>1 DEF Steps, ApplySteps
<1>7. ASSUME NEW w \in Workers,
             \/ LockVault(w) \/ LockTimeout(w) \/ ReleaseLock(w) \/ ResolveApproval(w)
             \/ SetRejected(w) \/ UndoCheck(w) \/ RevertCommit(w) \/ CompensateJournal(w)
             \/ GitFails(w) \/ Crash(w) \/ Exit(w) \/ Reconcile(w)
      PROVE  \A v \in Workers : Good(pc'[v], job'[v])
  <2>1. /\ \E step \in (Steps \ ApplySteps) \cup {"check"} : pc' = [pc EXCEPT ![w] = step]
        /\ job' = job \/ job' = [job EXCEPT ![w] = Idle]
    BY <1>7, Zenon DEF LockVault, LockTimeout, ReleaseLock, ResolveApproval, SetRejected, UndoCheck,
       RevertCommit, CompensateJournal, GitFails, Crash, Exit, Down, Reconcile, ListCommits,
       RepairJournal, CloseStaleApprovals, Goto, Finish, Steps, ApplySteps
  <2>2. QED
    BY <1>5, <2>1
<1>8. ASSUME NEW w \in Workers,
             \/ CommitBaseline(w) \/ WriteNote(w) \/ UnlinkSource(w) \/ CommitOp(w)
             \/ RecordTransaction(w)
      PROVE  \A v \in Workers : Good(pc'[v], job'[v])
  <2>1. /\ pc[w] \in ApplySteps \ {"check"} /\ job' = job
        /\ \E step \in Steps : pc' = [pc EXCEPT ![w] = step]
    BY <1>8, Zenon DEF CommitBaseline, WriteNote, UnlinkSource, CommitOp, RecordTransaction,
                Goto, Finish, Steps, ApplySteps
  <2>2. \A step : Good(step, job[w])
    BY <1>1, <2>1 DEF Good
  <2>3. QED
    BY <1>4, <2>1, <2>2
<1>9. ASSUME NEW w \in Workers, pc[w] = "check"
      PROVE  /\ ApplyJob(job[w]) /\ job[w].op \in Ops
             /\ job[w].op.path \in Paths /\ job[w].op.dest \in Paths
             /\ ReviseZone(job[w].op, Approved(job[w])) =>
                  /\ Zone[job[w].op.path] # "excluded"
                  /\ Zone[job[w].op.path] = "trusted" => job[w].apr # NoId
  BY <1>9 DEF JobInv, ApplyJob, ApplySteps, Ops, ReviseZone, Approved, Agentic
<1>10. ASSUME NEW w \in Workers, ApplyCreate(w)
       PROVE  \A v \in Workers : Good(pc'[v], job'[v])
  <2>1. CASE pc' = [pc EXCEPT ![w] = "commit"]
    <3>1. \/ job[w].op.kind = "create" /\ CreateVerdict(job[w].op) = "ok"
          \/ job[w].op.kind = "newfile" /\ NewFileVerdict(job[w].op, job[w]) = "ok"
      BY <1>0, <1>10, <2>1 DEF ApplyCreate, Goto, Finish, CreateVerdict, NewFileVerdict
    <3>2. pc[w] = "check"
      BY <1>10 DEF ApplyCreate
    <3>3. Cleared(job[w])
      BY <1>9, <3>1, <3>2 DEF Cleared, ApplyJob, CreateVerdict, NewFileVerdict, Agentic
    <3>4. QED
      BY <1>4, <1>10, <2>1, <3>3 DEF ApplyCreate, Good
  <2>2. CASE pc' = [pc EXCEPT ![w] = "release"]
    BY <1>5, <1>10, <2>2 DEF ApplyCreate, Steps, ApplySteps
  <2>3. QED
    BY <1>10, <2>1, <2>2 DEF ApplyCreate, Goto, Finish
<1>11. ASSUME NEW w \in Workers, ApplyChange(w)
       PROVE  \A v \in Workers : Good(pc'[v], job'[v])
  <2> DEFINE op == job[w].op
  <2>1. CASE pc' = [pc EXCEPT ![w] = "baseline"]
    <3>1. \/ op.kind = "revise" /\ ReviseVerdict(op, job[w]) = "ok"
          \/ op.kind = "delete" /\ DeleteVerdict(op) = "ok"
          \/ op.kind = "move" /\ MoveVerdict(op) = "ok"
      BY <1>0, <1>11, <2>1 DEF ApplyChange, Goto, Finish
    <3>2. pc[w] = "check"
      BY <1>11 DEF ApplyChange
    <3>3. Cleared(job[w])
      BY <1>9, <3>1, <3>2
      DEF Cleared, ApplyJob, ReviseVerdict, DeleteVerdict, MoveVerdict, SourceFound
    <3>4. QED
      BY <1>4, <1>11, <2>1, <3>3 DEF ApplyChange, Good
  <2>2. CASE pc' = [pc EXCEPT ![w] = "release"]
    BY <1>5, <1>11, <2>2 DEF ApplyChange, Steps, ApplySteps
  <2>3. QED
    BY <1>11, <2>1, <2>2 DEF ApplyChange, Goto, Finish
<1>12. ASSUME NEW w \in Workers, DoArchive(w)
       PROVE  \A v \in Workers : Good(pc'[v], job'[v])
  <2>1. CASE pc' = [pc EXCEPT ![w] = "unlink"]
    <3> DEFINE j == [job[w] EXCEPT !.op = [job[w].op EXCEPT !.expected = file[job[w].op.path]]]
    <3>1. ArchiveVerdict(job[w].op) = "ok" /\ job' = [job EXCEPT ![w] = j]
      BY <1>0, <1>12, <2>1 DEF DoArchive, Finish, Goto
    <3>2. pc[w] = "check" /\ job[w].op.kind = "archive" /\ job[w] \in JobType
      BY <1>0, <1>12 DEF DoArchive
    <3>3. Cleared(j)
      BY <1>9, <3>1, <3>2 DEF Cleared, ArchiveVerdict, Agentic, JobType, Ops
    <3>4. QED
      BY <1>4, <2>1, <3>1, <3>3 DEF Good
  <2>2. CASE pc' = [pc EXCEPT ![w] = "release"] /\ job' = job
    BY <1>5, <2>2 DEF Steps, ApplySteps
  <2>3. QED
    BY <1>12, <2>1, <2>2 DEF DoArchive, Goto, Finish
<1>13. QED
  BY <1>3, <1>6, <1>7, <1>8, <1>10, <1>11, <1>12 DEF Next, Serve, Propose, HumanEdit

(* The history only grows, by one commit at a time, made by a host that    *)
(* holds the lock.                                                         *)
LEMMA LogGrows ==
  ASSUME TypeOK, HistoryInv, Next
  PROVE  \/ log' = log
         \/ \E w \in Workers : \E e :
              /\ pc[w] \in {"baseline", "commit", "revert"}
              /\ log' = Append(log, e)
              /\ pc'[w] # pc[w]
<1>0. pc \in [Workers -> Steps]
  BY DEF TypeOK
<1>1. ASSUME NEW w \in Workers, CommitBaseline(w) \/ CommitOp(w) \/ RevertCommit(w)
      PROVE  log' = log \/ (/\ pc[w] \in {"baseline", "commit", "revert"}
                            /\ \E e : log' = Append(log, e)
                            /\ pc'[w] # pc[w])
  <2>1. pc[w] \in {"baseline", "commit", "revert"}
    BY <1>1 DEF CommitBaseline, CommitOp, RevertCommit
  <2>2. \E step \in {"unlink", "write", "record", "compensate", "release"} :
          pc' = [pc EXCEPT ![w] = step]
    BY <1>1 DEF CommitBaseline, CommitOp, RevertCommit, Goto, Finish
  <2>3. log' = log \/ \E e : log' = Append(log, e)
    <3>1. CASE CommitBaseline(w)
      BY <3>1 DEF CommitBaseline, Committed
    <3>2. CASE CommitOp(w)
      BY <3>2 DEF CommitOp, Committed
    <3>3. CASE RevertCommit(w)
      BY <3>3 DEF RevertCommit, Committed
    <3>4. QED
      BY <1>1, <3>1, <3>2, <3>3
  <2>4. QED
    BY <1>0, <2>1, <2>2, <2>3
<1>2. ASSUME NEW w \in Workers, Request(w) PROVE log' = log
  BY <1>2 DEF Request, Approve, Reject, Submit, FlipStatus, Undo, Start
<1>3. ASSUME NEW w \in Workers,
             \/ LockVault(w) \/ LockTimeout(w) \/ ApplyCreate(w) \/ ApplyChange(w)
             \/ DoArchive(w) \/ WriteNote(w) \/ UnlinkSource(w) \/ RecordTransaction(w)
             \/ ReleaseLock(w) \/ ResolveApproval(w) \/ SetRejected(w) \/ UndoCheck(w)
             \/ CompensateJournal(w) \/ GitFails(w) \/ Crash(w) \/ Exit(w) \/ Reconcile(w)
      PROVE  log' = log
  BY <1>3, Zenon DEF LockVault, LockTimeout, ApplyCreate, ApplyChange, DoArchive, WriteNote,
     UnlinkSource, RecordTransaction, ReleaseLock, ResolveApproval, SetRejected, UndoCheck,
     CompensateJournal, GitFails, Crash, Exit, Reconcile, ListCommits, RepairJournal,
     CloseStaleApprovals
<1>4. QED
  BY <1>1, <1>2, <1>3 DEF Next, Serve, Propose, HumanEdit

(* What the history holds it keeps.                                        *)
LEMMA HistoryKept ==
  ASSUME TypeOK, TypeOK', HistoryInv, Next
  PROVE  /\ log' # <<>> /\ Len(log) \in Nat \ {0} /\ Len(log') \in Nat \ {0}
         /\ Len(log') = Len(log) \/ Len(log') = Len(log) + 1
         /\ \A c \in 1..Len(log) : log'[c] = log[c]
         /\ LedgerCommits \subseteq LedgerCommits'
         /\ \A a \in Ids : AppliedCommit(a) => AppliedCommit(a)'
<1>1. /\ log \in Seq(CommitType) /\ log' \in Seq(CommitType) /\ log # <<>>
      /\ Len(log) \in Nat \ {0} /\ Len(log') \in Nat
  BY HEADTyped DEF TypeOK, HistoryInv
<1>2. /\ log' # <<>> /\ Len(log') \in Nat \ {0}
      /\ Len(log') = Len(log) \/ Len(log') = Len(log) + 1
      /\ \A c \in 1..Len(log) : log'[c] = log[c]
  <2>1. CASE log' = log
    BY <1>1, <2>1
  <2>2. ASSUME NEW e, log' = Append(log, e)
        PROVE  /\ log' # <<>> /\ Len(log') = Len(log) + 1
               /\ \A c \in 1..Len(log) : log'[c] = log[c]
    BY <1>1, <2>2
  <2>3. QED
    BY <1>1, <2>1, <2>2, LogGrows
<1>3. LedgerCommits \subseteq LedgerCommits'
  BY <1>1, <1>2 DEF LedgerCommits
<1>4. \A a \in Ids : AppliedCommit(a) => AppliedCommit(a)'
  <2>1. DOMAIN log = 1..Len(log) /\ DOMAIN log' = 1..Len(log')
    BY <1>1
  <2>2. ASSUME NEW a \in Ids, AppliedCommit(a) PROVE AppliedCommit(a)'
    <3>1. PICK c \in 1..Len(log) : log[c].kind = "ledger" /\ log[c].apr = a
      BY <2>1, <2>2 DEF AppliedCommit
    <3>2. log'[c] = log[c] /\ c \in 1..Len(log')
      BY <1>1, <1>2
    <3>3. QED
      BY <2>1, <3>1, <3>2 DEF AppliedCommit
  <2>3. QED
    BY <2>2
<1>5. QED
  BY <1>1, <1>2, <1>3, <1>4

(* While a host has a commit to record or an undo to journal, the last     *)
(* commit stays the last, and the only rows others add are those that      *)
(* starting hosts repair.                                                  *)
LEMMA HolderKeeps ==
  ASSUME TypeOK, LockInv, JobInv, HistoryInv, Next,
         NEW w \in Workers, pc[w] \in {"record", "compensate"}, pc'[w] = pc[w]
  PROVE  /\ log' = log /\ job'[w] = job[w]
         /\ \A s \in txns' : s \in txns \/ s.commit \in LedgerCommits
<1>0. pc \in [Workers -> Steps] /\ job \in [Workers -> JobType]
  BY DEF TypeOK
<1>1. ASSUME NEW v \in Workers, pc[v] \in Locked PROVE v = w
  BY <1>1 DEF LockInv, Locked, ApplySteps, UndoSteps
<1>2. log' = log
  BY <1>1, LogGrows DEF Locked, ApplySteps, UndoSteps
<1>3. ASSUME NEW v \in Workers, NEW step, pc[v] # step, pc' = [pc EXCEPT ![v] = step]
      PROVE  v # w
  BY <1>0, <1>3
<1>4. ASSUME NEW v \in Workers, Request(v)
      PROVE  job'[w] = job[w] /\ txns' = txns
  <2>1. /\ pc[v] = "idle" /\ \E step \in {"lock", "reject"} : pc' = [pc EXCEPT ![v] = step]
        /\ \E j : job' = [job EXCEPT ![v] = j]
        /\ txns' = txns
    BY <1>4 DEF Request, Approve, Reject, Submit, FlipStatus, Undo, Start
  <2>2. v # w
    BY <2>1
  <2>3. QED
    BY <1>0, <2>1, <2>2
<1>5. ASSUME NEW v \in Workers,
             \/ LockVault(v) \/ LockTimeout(v) \/ ReleaseLock(v) \/ ResolveApproval(v)
             \/ SetRejected(v) \/ Crash(v) \/ Exit(v) \/ ListCommits(v)
             \/ CloseStaleApprovals(v)
      PROVE  job'[w] = job[w] /\ txns' = txns
  <2>1. /\ \E step : pc[v] # step /\ pc' = [pc EXCEPT ![v] = step]
        /\ job' = job \/ \E j : job' = [job EXCEPT ![v] = j]
        /\ txns' = txns
    BY <1>5 DEF LockVault, LockTimeout, ReleaseLock, ResolveApproval, SetRejected, Crash, Exit,
       Down, ListCommits, CloseStaleApprovals
  <2>2. v # w
    BY <1>3, <2>1
  <2>3. QED
    BY <1>0, <2>1, <2>2
<1>6. ASSUME NEW v \in Workers,
             \/ ApplyCreate(v) \/ ApplyChange(v) \/ DoArchive(v) \/ CommitBaseline(v)
             \/ WriteNote(v) \/ UnlinkSource(v) \/ CommitOp(v) \/ RecordTransaction(v)
             \/ UndoCheck(v) \/ RevertCommit(v) \/ CompensateJournal(v) \/ GitFails(v)
      PROVE  FALSE
  <2>1. /\ pc[v] \in Locked
        /\ \E step : pc[v] # step /\ pc' = [pc EXCEPT ![v] = step]
    BY <1>6, Zenon DEF ApplyCreate, ApplyChange, DoArchive, CommitBaseline, WriteNote, UnlinkSource,
       CommitOp, RecordTransaction, UndoCheck, RevertCommit, CompensateJournal, GitFails,
       Goto, Finish, Locked, ApplySteps, UndoSteps
  <2>2. QED
    BY <1>1, <1>3, <2>1
<1>7. ASSUME NEW v \in Workers, RepairJournal(v)
      PROVE  /\ job' = job
             /\ \A s \in txns' : s \in txns \/ s.commit \in LedgerCommits
  BY <1>7 DEF RepairJournal, ReconciledRow, HistoryInv
<1>8. QED
  BY <1>2, <1>4, <1>5, <1>6, <1>7 DEF Next, Serve, Reconcile, Propose, HumanEdit

(* Where a row comes from: it was there, or it is that of the last commit, *)
(* written by the host that made it, or a starting host repairs it.        *)
LEMMA NewRows ==
  ASSUME TypeOK, JobInv, HistoryInv, Next, NEW s \in txns'
  PROVE  \/ \E r \in txns : r.commit = s.commit /\ r.apr = s.apr
         \/ \E w \in Workers : pc[w] = "record" /\ s.commit = Len(log) /\ s.apr = job[w].apr
         \/ \E w \in Workers : pc[w] = "compensate" /\ s.commit = Len(log) /\ s.apr = NoId
         \/ \E w \in Workers : pc[w] = "repair" /\ s.commit \in seen[w] /\ s.apr = NoId
<1>1. CASE txns' = txns
  BY <1>1
<1>2. ASSUME NEW w \in Workers, Request(w) PROVE txns' = txns
  BY <1>2 DEF Request, Approve, Reject, Submit, FlipStatus, Undo, Start
<1>3. ASSUME NEW w \in Workers,
             \/ LockVault(w) \/ LockTimeout(w) \/ ApplyCreate(w) \/ ApplyChange(w)
             \/ DoArchive(w) \/ CommitBaseline(w) \/ WriteNote(w) \/ UnlinkSource(w)
             \/ CommitOp(w) \/ ReleaseLock(w) \/ ResolveApproval(w) \/ SetRejected(w)
             \/ UndoCheck(w) \/ RevertCommit(w) \/ GitFails(w) \/ Crash(w) \/ Exit(w)
             \/ ListCommits(w) \/ CloseStaleApprovals(w)
      PROVE  txns' = txns
  BY <1>3, Zenon DEF LockVault, LockTimeout, ApplyCreate, ApplyChange, DoArchive, CommitBaseline,
     WriteNote, UnlinkSource, CommitOp, ReleaseLock, ResolveApproval, SetRejected, UndoCheck,
     RevertCommit, GitFails, Crash, Exit, ListCommits, CloseStaleApprovals
<1>4. ASSUME NEW w \in Workers, RecordTransaction(w)
      PROVE  \/ s \in txns
             \/ pc[w] = "record" /\ s.commit = Len(log) /\ s.apr = job[w].apr
  BY <1>4 DEF RecordTransaction
<1>5. ASSUME NEW w \in Workers, CompensateJournal(w)
      PROVE  \/ \E r \in txns : r.commit = s.commit /\ r.apr = s.apr
             \/ pc[w] = "compensate" /\ s.commit = Len(log) /\ s.apr = NoId
  <2>1. pc[w] = "compensate"
    BY <1>5 DEF CompensateJournal
  <2>2. QED
    BY <1>5, <2>1, Compensation
<1>6. ASSUME NEW w \in Workers, RepairJournal(w)
      PROVE  \/ s \in txns
             \/ pc[w] = "repair" /\ s.commit \in seen[w] /\ s.apr = NoId
  BY <1>6 DEF RepairJournal, ReconciledRow
<1>7. QED
  BY <1>1, <1>2, <1>3, <1>4, <1>5, <1>6 DEF Next, Serve, Reconcile, Propose, HumanEdit

(* Rows, the commits a starting host has listed and the last commit of a   *)
(* host that has just made one are what HistoryInv says.                   *)
LEMMA HistoryStep ==
  ASSUME TypeOK, TypeOK', LockInv, JobInv, HistoryInv, Next
  PROVE  HistoryInv'
<1>0. /\ pc \in [Workers -> Steps] /\ job \in [Workers -> JobType]
      /\ log \in Seq(CommitType) /\ log' \in Seq(CommitType)
  BY DEF TypeOK
<1>1. /\ log' # <<>> /\ Len(log) \in Nat \ {0} /\ Len(log') \in Nat \ {0}
      /\ Len(log') = Len(log) \/ Len(log') = Len(log) + 1
      /\ \A c \in 1..Len(log) : log'[c] = log[c]
      /\ LedgerCommits \subseteq LedgerCommits'
  BY HistoryKept
<1>2. log'[1].kind = "initial"
  BY <1>1 DEF HistoryInv
<1>3. LedgerCommits \subseteq 2..Len(log)
  BY <1>1 DEF LedgerCommits, HistoryInv
<1>4. \A s \in txns' : s.commit \in 2..Len(log')
  <2>1. SUFFICES ASSUME NEW s \in txns' PROVE s.commit \in 2..Len(log)
    BY <1>1
  <2>2. ASSUME NEW w \in Workers, pc[w] \in {"record", "compensate"}
        PROVE  Len(log) \in 2..Len(log)
    BY <1>1, <2>2 DEF HistoryInv
  <2>3. ASSUME NEW w \in Workers, pc[w] = "repair" PROVE seen[w] \subseteq 2..Len(log)
    BY <1>3, <2>3 DEF HistoryInv
  <2>4. QED
    BY <2>2, <2>3, NewRows DEF HistoryInv
<1>5. ASSUME NEW w \in Workers, pc'[w] = "repair" PROVE seen'[w] \subseteq LedgerCommits'
  <2>1. CASE \E v \in Workers : ListCommits(v)
    BY <1>0, <1>1, <1>5, <2>1 DEF ListCommits, HistoryInv, LedgerCommits, TypeOK
  <2>2. CASE pc[w] = "repair" /\ seen'[w] = seen[w]
    BY <1>1, <2>2 DEF HistoryInv
  <2>3. ASSUME NEW v \in Workers, RepairJournal(v) \/ CloseStaleApprovals(v) \/ Crash(v) \/ Exit(v)
        PROVE  pc[w] = "repair" /\ seen'[w] = seen[w]
    <3>1. /\ \E step \in {"close", "idle", "down"} : pc' = [pc EXCEPT ![v] = step]
          /\ \E listed : seen' = [seen EXCEPT ![v] = listed]
      BY <2>3 DEF RepairJournal, CloseStaleApprovals, Crash, Exit, Down
    <3>2. v # w
      BY <1>0, <1>5, <3>1
    <3>3. QED
      BY <1>0, <1>5, <3>1, <3>2 DEF TypeOK
  <2>4. ASSUME NEW v \in Workers,
               \/ ApplyCreate(v) \/ ApplyChange(v) \/ DoArchive(v) \/ CommitBaseline(v)
               \/ WriteNote(v) \/ UnlinkSource(v) \/ CommitOp(v) \/ RecordTransaction(v)
               \/ UndoCheck(v) \/ RevertCommit(v) \/ CompensateJournal(v) \/ GitFails(v)
               \/ LockVault(v) \/ LockTimeout(v) \/ ReleaseLock(v) \/ ResolveApproval(v)
               \/ SetRejected(v)
        PROVE  pc[w] = "repair" /\ seen'[w] = seen[w]
    <3>1. /\ \E step \in Steps \ {"repair"} : pc' = [pc EXCEPT ![v] = step]
          /\ seen' = seen
      BY <2>4, Zenon DEF ApplyCreate, ApplyChange, DoArchive, CommitBaseline, WriteNote, UnlinkSource,
         CommitOp, RecordTransaction, UndoCheck, RevertCommit, CompensateJournal, GitFails,
         LockVault, LockTimeout, ReleaseLock, ResolveApproval, SetRejected, Goto, Finish, Steps
    <3>2. QED
      BY <1>0, <1>5, <3>1
  <2>5. ASSUME NEW v \in Workers, Request(v) PROVE pc[w] = "repair" /\ seen'[w] = seen[w]
    <3>1. /\ \E step \in {"lock", "reject"} : pc' = [pc EXCEPT ![v] = step]
          /\ seen' = seen
      BY <2>5 DEF Request, Approve, Reject, Submit, FlipStatus, Undo, Start
    <3>2. QED
      BY <1>0, <1>5, <3>1
  <2>6. QED
    BY <1>5, <2>1, <2>2, <2>3, <2>4, <2>5 DEF Next, Serve, Reconcile, Propose, HumanEdit
<1>6. ASSUME NEW w \in Workers, pc'[w] \in {"record", "compensate"}, pc'[w] # pc[w]
      PROVE  \/ CommitOp(w) /\ pc'[w] = "record"
             \/ RevertCommit(w) /\ pc'[w] = "compensate"
  <2>1. ASSUME NEW v \in Workers, CommitOp(v) \/ RevertCommit(v)
        PROVE  v = w
    <3>1. \E step : pc' = [pc EXCEPT ![v] = step]
      BY <2>1 DEF CommitOp, RevertCommit, Goto, Finish
    <3>2. QED
      BY <1>0, <1>6, <3>1
  <2>2. ASSUME CommitOp(w) PROVE pc'[w] = "record"
    BY <1>0, <1>6, <2>2 DEF CommitOp, Goto, Finish
  <2>3. ASSUME RevertCommit(w) PROVE pc'[w] = "compensate"
    BY <1>0, <1>6, <2>3 DEF RevertCommit, Goto, Finish
  <2>4. ASSUME NEW v \in Workers,
               \/ ApplyCreate(v) \/ ApplyChange(v) \/ DoArchive(v) \/ CommitBaseline(v)
               \/ WriteNote(v) \/ UnlinkSource(v) \/ RecordTransaction(v)
               \/ UndoCheck(v) \/ CompensateJournal(v) \/ GitFails(v)
               \/ LockVault(v) \/ LockTimeout(v) \/ ReleaseLock(v) \/ ResolveApproval(v)
               \/ SetRejected(v) \/ Reconcile(v) \/ Crash(v) \/ Exit(v) \/ Request(v)
        PROVE  FALSE
    <3>1. \E step \in Steps \ {"record", "compensate"} : pc' = [pc EXCEPT ![v] = step]
      <4>1. CASE Request(v)
        BY <4>1 DEF Request, Approve, Reject, Submit, FlipStatus, Undo, Start, Steps
      <4>2. CASE Reconcile(v) \/ Crash(v) \/ Exit(v)
        BY <4>2 DEF Reconcile, ListCommits, RepairJournal, CloseStaleApprovals, Crash, Exit,
           Down, Steps
      <4>3. QED
        BY <2>4, <4>1, <4>2, Zenon DEF ApplyCreate, ApplyChange, DoArchive, CommitBaseline, WriteNote,
           UnlinkSource, RecordTransaction, UndoCheck, CompensateJournal, GitFails, LockVault,
           LockTimeout, ReleaseLock, ResolveApproval, SetRejected, Goto, Finish, Steps
    <3>2. QED
      BY <1>0, <1>6, <3>1
  <2>5. pc' # pc
    BY <1>6
  <2>6. \E v \in Workers : CommitOp(v) \/ RevertCommit(v)
    BY <2>4, <2>5 DEF Next, Serve, Propose, HumanEdit
  <2>7. CommitOp(w) \/ RevertCommit(w)
    <3>1. PICK v \in Workers : CommitOp(v) \/ RevertCommit(v)
      BY <2>6
    <3>2. v = w
      BY <2>1, <3>1
    <3>3. QED
      BY <3>1, <3>2
  <2>8. QED
    BY <2>2, <2>3, <2>7
<1>7. ASSUME NEW w \in Workers, pc'[w] = "compensate"
      PROVE  log'[Len(log')].kind = "revert" /\ \A r \in txns' : r.commit # Len(log')
  <2>1. CASE pc[w] = "compensate"
    <3>1. log' = log /\ \A s \in txns' : s \in txns \/ s.commit \in LedgerCommits
      BY <1>7, <2>1, HolderKeeps
    <3>2. log[Len(log)].kind = "revert" /\ \A r \in txns : r.commit # Len(log)
      BY <2>1 DEF HistoryInv
    <3>3. Len(log) \notin LedgerCommits
      BY <3>2 DEF LedgerCommits
    <3>4. QED
      BY <3>1, <3>2, <3>3
  <2>2. CASE pc[w] # "compensate"
    <3>1. RevertCommit(w)
      BY <1>6, <1>7, <2>2
    <3>2. PICK tree : Committed("revert", "none", NoId, tree) /\ txns' = txns
      BY <1>0, <1>7, <3>1 DEF RevertCommit, Goto, Finish
    <3>3. Len(log') = Len(log) + 1 /\ log'[Len(log')].kind = "revert"
      BY <1>0, <1>1, <3>2 DEF Committed
    <3>4. QED
      BY <1>1, <3>2, <3>3 DEF HistoryInv
  <2>3. QED
    BY <2>1, <2>2
<1>8. ASSUME NEW w \in Workers, pc'[w] = "record"
      PROVE  log'[Len(log')].kind = "ledger" /\ log'[Len(log')].apr = job'[w].apr
  <2>1. CASE pc[w] = "record"
    BY <1>8, <2>1, HolderKeeps DEF HistoryInv
  <2>2. CASE pc[w] # "record"
    <3>1. CommitOp(w)
      BY <1>6, <1>8, <2>2
    <3>2. PICK tree : Committed("ledger", job[w].op.kind, job[w].apr, tree) /\ job' = job
      BY <1>0, <1>8, <3>1 DEF CommitOp, Goto, Finish
    <3>3. QED
      BY <1>0, <1>1, <3>2 DEF Committed
  <2>3. QED
    BY <2>1, <2>2
<1>9. QED
  BY <1>1, <1>2, <1>4, <1>5, <1>7, <1>8 DEF HistoryInv

(* The rows of a step never clash: the broker inserts where there is none, *)
(* an undo's commit is its own, and a repair skips what it finds.          *)
LEMMA OneRowStep ==
  ASSUME TypeOK, JobInv, HistoryInv, OneRowPerCommit, Next
  PROVE  OneRowPerCommit'
<1>1. CASE txns' \subseteq txns
  BY <1>1 DEF OneRowPerCommit
<1>2. ASSUME NEW w \in Workers, Request(w) PROVE txns' \subseteq txns
  BY <1>2 DEF Request, Approve, Reject, Submit, FlipStatus, Undo, Start
<1>3. ASSUME NEW w \in Workers,
             \/ LockVault(w) \/ LockTimeout(w) \/ ApplyCreate(w) \/ ApplyChange(w)
             \/ DoArchive(w) \/ CommitBaseline(w) \/ WriteNote(w) \/ UnlinkSource(w)
             \/ CommitOp(w) \/ ReleaseLock(w) \/ ResolveApproval(w) \/ SetRejected(w)
             \/ UndoCheck(w) \/ RevertCommit(w) \/ GitFails(w) \/ Crash(w) \/ Exit(w)
             \/ ListCommits(w) \/ CloseStaleApprovals(w)
      PROVE  txns' \subseteq txns
  BY <1>3, Zenon DEF LockVault, LockTimeout, ApplyCreate, ApplyChange, DoArchive, CommitBaseline,
     WriteNote, UnlinkSource, CommitOp, ReleaseLock, ResolveApproval, SetRejected, UndoCheck,
     RevertCommit, GitFails, Crash, Exit, ListCommits, CloseStaleApprovals
<1>4. ASSUME NEW w \in Workers, RecordTransaction(w) PROVE OneRowPerCommit'
  <2>1. CASE Rows(Len(log)) = {}
    <3> DEFINE op == job[w].op
               row == [commit |-> Len(log), by |-> "broker", op |-> op.kind, path |-> op.path,
                       before |-> op.expected,
                       after |-> IF op.kind = "move" THEN op.expected ELSE op.content,
                       apr |-> job[w].apr, status |-> "applied"]
    <3>1. txns' = txns \cup {row}
      BY <1>4, <2>1, Zenon DEF RecordTransaction
    <3>2. row.commit = Len(log)
      OBVIOUS
    <3>3. \A r \in txns : r.commit # Len(log)
      BY <2>1 DEF Rows
    <3> HIDE DEF row
    <3>4. QED
      BY <3>1, <3>2, <3>3 DEF OneRowPerCommit
  <2>2. CASE Rows(Len(log)) # {}
    BY <1>1, <1>4, <2>2 DEF RecordTransaction
  <2>3. QED
    BY <2>1, <2>2
<1>5. ASSUME NEW w \in Workers, CompensateJournal(w) PROVE OneRowPerCommit'
  <2>1. PICK x \in txns : \E y, mirror :
          /\ txns' = (txns \ {x}) \cup {y, mirror}
          /\ y.commit = x.commit /\ mirror.commit = Len(log)
    BY <1>5, Compensation
  <2>2. \A r \in txns : r.commit # Len(log)
    BY <1>5 DEF HistoryInv, CompensateJournal
  <2>3. QED
    BY <2>1, <2>2 DEF OneRowPerCommit
<1>6. ASSUME NEW w \in Workers, RepairJournal(w) PROVE OneRowPerCommit'
  <2>1. \A c : ReconciledRow(c).commit = c
    BY DEF ReconciledRow
  <2>2. txns' = txns \cup {ReconciledRow(c) : c \in {d \in seen[w] : Rows(d) = {}}}
    BY <1>6 DEF RepairJournal
  <2>3. \A s \in txns' \ txns : s = ReconciledRow(s.commit) /\ Rows(s.commit) = {}
    BY <2>1, <2>2
  <2>4. \A s \in txns' \ txns, r \in txns : r.commit # s.commit
    BY <2>3 DEF Rows
  <2>5. ASSUME NEW r \in txns', NEW s \in txns', r.commit = s.commit PROVE r = s
    <3>1. CASE r \in txns /\ s \in txns
      BY <2>5, <3>1 DEF OneRowPerCommit
    <3>2. CASE r \notin txns /\ s \notin txns
      BY <2>3, <2>5, <3>2
    <3>3. QED
      BY <2>4, <2>5, <3>1, <3>2
  <2>6. QED
    BY <2>5 DEF OneRowPerCommit
<1>7. QED
  BY <1>1, <1>2, <1>3, <1>4, <1>5, <1>6 DEF Next, Serve, Reconcile, Propose, HumanEdit

(* What a step may do to an approval: a proposal asks for one that was not *)
(* in use, a host resolves its own, a starting host closes one whose row   *)
(* it found.                                                               *)
LEMMA ApprovalSteps ==
  ASSUME TypeOK, Next
  PROVE  \/ approvals' = approvals
         \/ \E a \in Ids, op \in Proposals :
              /\ ~Asked(a)
              /\ approvals' = [approvals EXCEPT ![a] = [state |-> "pending", op |-> op]]
         \/ \E w \in Workers, state \in {"approved", "stale", "rejected"} :
              /\ pc[w] \in {"reject", "resolve"}
              /\ state = "approved" => pc[w] = "resolve" /\ outcome[w] = "ok"
              /\ approvals' = [approvals EXCEPT ![job[w].apr].state = state]
         \/ \E closed \in SUBSET {r.apr : r \in txns} :
              approvals' = [a \in Ids |-> IF a \in closed
                                          THEN [approvals[a] EXCEPT !.state = "approved"]
                                          ELSE approvals[a]]
<1>1. ASSUME NEW a \in Ids, NEW op \in Proposals, Propose(a, op)
      PROVE  /\ ~Asked(a)
             /\ approvals' = [approvals EXCEPT ![a] = [state |-> "pending", op |-> op]]
  BY <1>1 DEF Propose, Asked
<1>2. ASSUME NEW w \in Workers, SetRejected(w)
      PROVE  /\ pc[w] = "reject"
             /\ approvals' = [approvals EXCEPT ![job[w].apr].state = "rejected"]
  BY <1>2 DEF SetRejected
<1>3. ASSUME NEW w \in Workers, ResolveApproval(w)
      PROVE  \/ approvals' = approvals
             \/ /\ pc[w] = "resolve"
                /\ \E state \in {"approved", "stale"} :
                     /\ state = "approved" => outcome[w] = "ok"
                     /\ approvals' = [approvals EXCEPT ![job[w].apr].state = state]
  <2>1. outcome[w] \in {"ok", "stale", "error"}
    BY DEF TypeOK
  <2>2. CASE outcome[w] = "error"
    BY <1>3, <2>2 DEF ResolveApproval
  <2>3. CASE outcome[w] # "error"
    <3>1. /\ Resolution[outcome[w]] \in {"approved", "stale"}
          /\ Resolution[outcome[w]] = "approved" => outcome[w] = "ok"
      BY <2>1, <2>3 DEF Resolution
    <3>2. /\ pc[w] = "resolve"
          /\ approvals' = [approvals EXCEPT ![job[w].apr].state = Resolution[outcome[w]]]
      BY <1>3, <2>3, Zenon DEF ResolveApproval
    <3>3. QED
      BY <3>1, <3>2, Zenon
  <2>4. QED
    BY <2>2, <2>3
<1>4. ASSUME NEW w \in Workers, CloseStaleApprovals(w)
      PROVE  \E closed \in SUBSET {r.apr : r \in txns} :
              approvals' = [a \in Ids |-> IF a \in closed
                                          THEN [approvals[a] EXCEPT !.state = "approved"]
                                          ELSE approvals[a]]
  <2> DEFINE closed == {a \in seen[w] : \E r \in txns : r.apr = a /\ r.status = "applied"}
  <2>1. closed \in SUBSET {r.apr : r \in txns}
    OBVIOUS
  <2>2. approvals' = [a \in Ids |-> IF a \in closed
                                    THEN [approvals[a] EXCEPT !.state = "approved"]
                                    ELSE approvals[a]]
    BY <1>4, Zenon DEF CloseStaleApprovals
  <2> HIDE DEF closed
  <2>3. QED
    BY <2>1, <2>2, Zenon
<1>5. ASSUME NEW w \in Workers, Request(w) PROVE approvals' = approvals
  BY <1>5 DEF Request, Approve, Reject, Submit, FlipStatus, Undo, Start
<1>6. ASSUME NEW w \in Workers,
             \/ LockVault(w) \/ LockTimeout(w) \/ ApplyCreate(w) \/ ApplyChange(w)
             \/ DoArchive(w) \/ CommitBaseline(w) \/ WriteNote(w) \/ UnlinkSource(w)
             \/ CommitOp(w) \/ RecordTransaction(w) \/ ReleaseLock(w) \/ UndoCheck(w)
             \/ RevertCommit(w) \/ CompensateJournal(w) \/ GitFails(w) \/ Crash(w)
             \/ Exit(w) \/ ListCommits(w) \/ RepairJournal(w)
      PROVE  approvals' = approvals
  BY <1>6, Zenon DEF LockVault, LockTimeout, ApplyCreate, ApplyChange, DoArchive, CommitBaseline,
     WriteNote, UnlinkSource, CommitOp, RecordTransaction, ReleaseLock, UndoCheck,
     RevertCommit, CompensateJournal, GitFails, Crash, Exit, ListCommits, RepairJournal
<1>7. QED
  <2>1. ASSUME NEW w \in Workers, SetRejected(w) \/ ResolveApproval(w)
        PROVE  \/ approvals' = approvals
               \/ \E state \in {"approved", "stale", "rejected"} :
                    /\ pc[w] \in {"reject", "resolve"}
                    /\ state = "approved" => pc[w] = "resolve" /\ outcome[w] = "ok"
                    /\ approvals' = [approvals EXCEPT ![job[w].apr].state = state]
    BY <1>2, <1>3, <2>1
  <2>2. QED
    BY <1>1, <1>4, <1>5, <1>6, <2>1, Zenon DEF Next, Serve, Reconcile, HumanEdit

(* An approval asked for keeps its operation and is never forgotten.       *)
LEMMA ApprovalsOnward ==
  ASSUME TypeOK, Next, NEW a \in Ids, Asked(a)
  PROVE  Asked(a)' /\ approvals'[a].op = approvals[a].op
<1>0. approvals \in [Ids -> ApprovalType]
  BY DEF TypeOK
<1>1. CASE approvals' = approvals
  BY <1>1 DEF Asked
<1>2. ASSUME NEW b \in Ids, NEW x, ~Asked(b), approvals' = [approvals EXCEPT ![b] = x]
      PROVE  Asked(a)' /\ approvals'[a].op = approvals[a].op
  BY <1>0, <1>2 DEF Asked
<1>3. ASSUME NEW b, NEW state \in {"approved", "stale", "rejected"},
             approvals' = [approvals EXCEPT ![b].state = state]
      PROVE  Asked(a)' /\ approvals'[a].op = approvals[a].op
  BY <1>0, <1>3 DEF Asked, ApprovalType
<1>4. ASSUME NEW closed,
             approvals' = [b \in Ids |-> IF b \in closed
                                         THEN [approvals[b] EXCEPT !.state = "approved"]
                                         ELSE approvals[b]]
      PROVE  Asked(a)' /\ approvals'[a].op = approvals[a].op
  BY <1>0, <1>4 DEF Asked, ApprovalType
<1>5. QED
  BY <1>1, <1>2, <1>3, <1>4, ApprovalSteps

(* The operation of an approval that comes into use was proposed.          *)
LEMMA ApprovalsAsked ==
  ASSUME TypeOK, ApprovalInv, JobInv, Next, NEW a \in Ids, ~Asked(a), Asked(a)'
  PROVE  approvals'[a].op \in Proposals
<1>0. approvals \in [Ids -> ApprovalType] /\ job \in [Workers -> JobType]
  BY DEF TypeOK
<1>1. CASE approvals' = approvals
  BY <1>1 DEF Asked
<1>2. ASSUME NEW b \in Ids, NEW op \in Proposals,
             approvals' = [approvals EXCEPT ![b] = [state |-> "pending", op |-> op]]
      PROVE  approvals'[a].op \in Proposals
  BY <1>0, <1>2 DEF Asked
<1>3. ASSUME NEW w \in Workers, NEW state \in {"approved", "stale", "rejected"},
             pc[w] \in {"reject", "resolve"},
             approvals' = [approvals EXCEPT ![job[w].apr].state = state]
      PROVE  approvals'[a].op \in Proposals
  <2>1. job[w].apr \in Ids /\ Asked(job[w].apr)
    BY <1>3, ValueAssumption DEF JobInv, ApprovalInv
  <2>2. approvals'[a] = approvals[a]
    BY <1>0, <1>3, <2>1
  <2>3. QED
    BY <2>2 DEF Asked
<1>4. ASSUME NEW closed \in SUBSET {r.apr : r \in txns},
             approvals' = [b \in Ids |-> IF b \in closed
                                         THEN [approvals[b] EXCEPT !.state = "approved"]
                                         ELSE approvals[b]]
      PROVE  approvals'[a].op \in Proposals
  <2>1. a \notin closed
    BY ValueAssumption DEF ApprovalInv
  <2>2. QED
    BY <1>0, <1>4, <2>1 DEF Asked
<1>5. QED
  BY <1>1, <1>2, <1>3, <1>4, ApprovalSteps

(* An approval becomes approved because its host was told its operation    *)
(* was applied, or because a row names it.                                 *)
LEMMA ApprovedWhy ==
  ASSUME TypeOK, JobInv, Next,
         NEW a \in Ids, approvals'[a].state = "approved", approvals[a].state # "approved"
  PROVE  \/ \E w \in Workers : pc[w] = "resolve" /\ outcome[w] = "ok" /\ job[w].apr = a
                              /\ job[w].apr # NoId
         \/ \E r \in txns : r.apr = a /\ r.apr # NoId
<1>0. approvals \in [Ids -> ApprovalType] /\ a # NoId
  BY ValueAssumption DEF TypeOK
<1>1. CASE approvals' = approvals
  BY <1>1
<1>2. ASSUME NEW b \in Ids, NEW op \in Proposals,
             approvals' = [approvals EXCEPT ![b] = [state |-> "pending", op |-> op]]
      PROVE  FALSE
  BY <1>0, <1>2
<1>3. ASSUME NEW w \in Workers, NEW state \in {"approved", "stale", "rejected"},
             state = "approved" => pc[w] = "resolve" /\ outcome[w] = "ok",
             approvals' = [approvals EXCEPT ![job[w].apr].state = state]
      PROVE  pc[w] = "resolve" /\ outcome[w] = "ok" /\ job[w].apr = a
  <2>1. CASE job[w].apr = a
    BY <1>0, <1>3, <2>1 DEF ApprovalType
  <2>2. CASE job[w].apr # a
    BY <1>0, <1>3, <2>2
  <2>3. QED
    BY <2>1, <2>2
<1>4. ASSUME NEW closed \in SUBSET {r.apr : r \in txns},
             approvals' = [b \in Ids |-> IF b \in closed
                                         THEN [approvals[b] EXCEPT !.state = "approved"]
                                         ELSE approvals[b]]
      PROVE  \E r \in txns : r.apr = a
  BY <1>0, <1>4
<1>5. QED
  BY <1>0, <1>1, <1>2, <1>3, <1>4, ApprovalSteps

(* A job is about the approval it was about, or about a pending one.       *)
LEMMA JobApprovals ==
  ASSUME TypeOK, Next, NEW w \in Workers
  PROVE  \/ job'[w].apr = job[w].apr
         \/ job'[w].apr = NoId
         \/ job'[w].apr \in Ids /\ approvals[job'[w].apr].state = "pending"
<1>0. job \in [Workers -> JobType]
  BY DEF TypeOK
<1> DEFINE Allowed(j, apr) ==
      \/ j.apr = apr
      \/ j.apr = NoId
      \/ j.apr \in Ids /\ approvals[j.apr].state = "pending"
<1>1. CASE job' = job
  BY <1>1
<1>2. ASSUME NEW v \in Workers, NEW j, job' = [job EXCEPT ![v] = j], Allowed(j, job[v].apr)
      PROVE  Allowed(job'[w], job[w].apr)
  BY <1>0, <1>2
<1>3. Allowed(Idle, NoId) /\ \A apr : Allowed(Idle, apr)
  BY DEF Idle
<1>4. ASSUME NEW v \in Workers, Request(v) PROVE Allowed(job'[w], job[w].apr)
  <2>1. ASSUME NEW a \in Ids, Approve(v, a) PROVE Allowed(job'[w], job[w].apr)
    <3> DEFINE j == [Idle EXCEPT !.op = approvals[a].op, !.apr = a]
    <3>1. job' = [job EXCEPT ![v] = j] /\ approvals[a].state = "pending"
      BY <2>1 DEF Approve, Start
    <3>2. j.apr = a
      BY DEF Idle
    <3>3. QED
      BY <1>2, <3>1, <3>2
  <2>2. ASSUME NEW a \in Ids, Reject(v, a) PROVE Allowed(job'[w], job[w].apr)
    <3> DEFINE j == [Idle EXCEPT !.apr = a]
    <3>1. job' = [job EXCEPT ![v] = j] /\ approvals[a].state = "pending"
      BY <2>2 DEF Reject, Start
    <3>2. j.apr = a
      BY DEF Idle
    <3>3. QED
      BY <1>2, <3>1, <3>2
  <2>3. ASSUME NEW op, Submit(v, op) PROVE Allowed(job'[w], job[w].apr)
    <3> DEFINE j == [Idle EXCEPT !.op = op]
    <3>1. job' = [job EXCEPT ![v] = j] /\ j.apr = NoId
      BY <2>3 DEF Submit, Start, Idle
    <3>2. QED
      BY <1>2, <3>1
  <2>4. ASSUME NEW op, FlipStatus(v, op) PROVE Allowed(job'[w], job[w].apr)
    <3> DEFINE j == [Idle EXCEPT !.op = op, !.internal = TRUE]
    <3>1. job' = [job EXCEPT ![v] = j] /\ j.apr = NoId
      BY <2>4 DEF FlipStatus, Start, Idle
    <3>2. QED
      BY <1>2, <3>1
  <2>5. ASSUME NEW r \in txns, Undo(v, r) PROVE Allowed(job'[w], job[w].apr)
    <3> DEFINE j == [Idle EXCEPT !.target = r.commit]
    <3>1. job' = [job EXCEPT ![v] = j] /\ j.apr = NoId
      BY <2>5 DEF Undo, Start, Idle
    <3>2. QED
      BY <1>2, <3>1
  <2>6. QED
    BY <1>4, <2>1, <2>2, <2>3, <2>4, <2>5 DEF Request
<1>5. ASSUME NEW v \in Workers,
             \/ LockVault(v) \/ LockTimeout(v) \/ ApplyCreate(v) \/ ApplyChange(v)
             \/ CommitBaseline(v) \/ WriteNote(v) \/ UnlinkSource(v) \/ CommitOp(v)
             \/ RecordTransaction(v) \/ ReleaseLock(v) \/ ResolveApproval(v)
             \/ SetRejected(v) \/ UndoCheck(v) \/ RevertCommit(v) \/ CompensateJournal(v)
             \/ GitFails(v) \/ Crash(v) \/ Exit(v) \/ Reconcile(v)
      PROVE  job' = job \/ job' = [job EXCEPT ![v] = Idle]
  BY <1>5, Zenon DEF LockVault, LockTimeout, ApplyCreate, ApplyChange, CommitBaseline, WriteNote,
     UnlinkSource, CommitOp, RecordTransaction, ReleaseLock, ResolveApproval, SetRejected,
     UndoCheck, RevertCommit, CompensateJournal, GitFails, Crash, Exit, Down, Reconcile,
     ListCommits, RepairJournal, CloseStaleApprovals
<1>6. ASSUME NEW v \in Workers, DoArchive(v) PROVE Allowed(job'[w], job[w].apr)
  BY <1>0, <1>6 DEF DoArchive, JobType
<1>7. QED
  BY <1>1, <1>2, <1>3, <1>4, <1>5, <1>6 DEF Next, Serve, Propose, HumanEdit

(* A host says an approval is applied only when its commit is in the       *)
(* history, and whoever writes `approved` has that from the host or from   *)
(* a row that names the approval.                                          *)
LEMMA ApprovalStep ==
  ASSUME TypeOK, TypeOK', JobInv, HistoryInv, ApprovalInv, NoFalseClose, Next
  PROVE  ApprovalInv' /\ NoFalseClose'
<1>0. /\ pc \in [Workers -> Steps] /\ job \in [Workers -> JobType]
      /\ outcome \in [Workers -> {"ok", "stale", "error"}]
      /\ approvals \in [Ids -> ApprovalType]
  BY DEF TypeOK
<1> DEFINE Landed(a) == \E c \in DOMAIN log' : log'[c].kind = "ledger" /\ log'[c].apr = a
<1>1. \A a \in Ids : AppliedCommit(a) => Landed(a)
  BY HistoryKept DEF AppliedCommit
<1> HIDE DEF Landed
<1>2. ASSUME NEW w \in Workers, pc[w] = "record", job[w].apr # NoId
      PROVE  AppliedCommit(job[w].apr)
  <2>1. Len(log) \in DOMAIN log
    BY HEADTyped DEF TypeOK, HistoryInv
  <2>2. QED
    BY <1>2, <2>1 DEF HistoryInv, AppliedCommit
<1>3. ASSUME NEW a \in Ids, Asked(a)
      PROVE  Asked(a)' /\ approvals'[a].op = approvals[a].op
  BY <1>3, ApprovalsOnward
<1>rows. \A s \in txns' : s.apr # NoId => Asked(s.apr)' /\ Landed(s.apr)
  <2>1. ASSUME NEW s \in txns', s.apr # NoId
        PROVE  s.apr \in Ids /\ Asked(s.apr) /\ AppliedCommit(s.apr)
    <3>1. s.apr \in Ids
      BY <2>1 DEF TypeOK, RowType
    <3>2. CASE \E r \in txns : r.commit = s.commit /\ r.apr = s.apr
      BY <2>1, <3>1, <3>2 DEF ApprovalInv
    <3>3. CASE \E w \in Workers : pc[w] = "record" /\ s.apr = job[w].apr
      BY <1>2, <2>1, <3>1, <3>3 DEF ApprovalInv
    <3>4. QED
      BY <2>1, <3>2, <3>3, NewRows
  <2>2. QED
    BY <1>1, <1>3, <2>1
<1> DEFINE Told(step, how, j) ==
      step \in {"release", "resolve"} /\ how = "ok" /\ j.apr # NoId => Landed(j.apr)
<1>4. \A w \in Workers : Told(pc[w], outcome[w], job[w])
  <2>1. \A w \in Workers : job[w].apr # NoId => job[w].apr \in Ids
    BY <1>0 DEF JobType
  <2>2. QED
    BY <1>1, <2>1 DEF ApprovalInv
<1>5. ASSUME pc' = pc, outcome' = outcome, job' = job
      PROVE  \A v \in Workers : Told(pc'[v], outcome'[v], job'[v])
  BY <1>4, <1>5
<1>6. ASSUME NEW w \in Workers, NEW step, pc' = [pc EXCEPT ![w] = step],
             outcome' = outcome \/ \E how : outcome' = [outcome EXCEPT ![w] = how],
             job' = job \/ \E j : job' = [job EXCEPT ![w] = j],
             Told(step, outcome'[w], job'[w])
      PROVE  \A v \in Workers : Told(pc'[v], outcome'[v], job'[v])
  <2>1. ASSUME NEW v \in Workers, v # w
        PROVE  pc'[v] = pc[v] /\ outcome'[v] = outcome[v] /\ job'[v] = job[v]
    BY <1>0, <1>6, <2>1
  <2>2. pc'[w] = step
    BY <1>0, <1>6
  <2>3. QED
    BY <1>4, <1>6, <2>1, <2>2
<1> HIDE DEF Told
<1>7. ASSUME NEW w \in Workers, NEW step \in Steps \ {"release", "resolve"},
             pc' = [pc EXCEPT ![w] = step],
             outcome' = outcome \/ \E how : outcome' = [outcome EXCEPT ![w] = how],
             job' = job \/ \E j : job' = [job EXCEPT ![w] = j]
      PROVE  \A v \in Workers : Told(pc'[v], outcome'[v], job'[v])
  <2>1. Told(step, outcome'[w], job'[w])
    BY DEF Told
  <2>2. QED
    BY <1>6, <1>7, <2>1
<1>8. ASSUME NEW w \in Workers, NEW how, pc' = [pc EXCEPT ![w] = "release"],
             outcome' = [outcome EXCEPT ![w] = how], job' = job, how # "ok"
      PROVE  \A v \in Workers : Told(pc'[v], outcome'[v], job'[v])
  <2>1. Told("release", outcome'[w], job'[w])
    BY <1>0, <1>8 DEF Told
  <2>2. QED
    BY <1>6, <1>8, <2>1
<1>9. \A w \in Workers : Told(pc'[w], outcome'[w], job'[w])
  <2>1. ASSUME NEW w \in Workers, Request(w)
        PROVE  \A v \in Workers : Told(pc'[v], outcome'[v], job'[v])
    <3>1. /\ \E step \in {"lock", "reject"} : pc' = [pc EXCEPT ![w] = step]
          /\ outcome' = outcome /\ \E j : job' = [job EXCEPT ![w] = j]
      BY <2>1 DEF Request, Approve, Reject, Submit, FlipStatus, Undo, Start
    <3>2. QED
      BY <1>7, <3>1 DEF Steps
  <2>2. ASSUME NEW w \in Workers,
               \/ LockVault(w) \/ LockTimeout(w) \/ WriteNote(w) \/ ResolveApproval(w)
               \/ SetRejected(w) \/ Crash(w) \/ Exit(w) \/ Reconcile(w)
        PROVE  \A v \in Workers : Told(pc'[v], outcome'[v], job'[v])
    <3>1. /\ \E step \in Steps \ {"release", "resolve"} : pc' = [pc EXCEPT ![w] = step]
          /\ outcome' = outcome \/ \E how : outcome' = [outcome EXCEPT ![w] = how]
          /\ job' = job \/ \E j : job' = [job EXCEPT ![w] = j]
      BY <2>2 DEF LockVault, LockTimeout, WriteNote, ResolveApproval, SetRejected, Crash, Exit,
         Down, Reconcile, ListCommits, RepairJournal, CloseStaleApprovals, Goto, Steps
    <3>2. QED
      BY <1>7, <3>1
  <2>3. ASSUME NEW w \in Workers,
               \/ ApplyCreate(w) \/ ApplyChange(w) \/ DoArchive(w) \/ CommitBaseline(w)
               \/ UnlinkSource(w) \/ CommitOp(w) \/ UndoCheck(w) \/ RevertCommit(w)
               \/ GitFails(w)
        PROVE  \A v \in Workers : Told(pc'[v], outcome'[v], job'[v])
    <3>1. \/ /\ \E step \in Steps \ {"release", "resolve"} : pc' = [pc EXCEPT ![w] = step]
             /\ outcome' = outcome
             /\ job' = job \/ \E j : job' = [job EXCEPT ![w] = j]
          \/ \E how : /\ pc' = [pc EXCEPT ![w] = "release"]
                      /\ outcome' = [outcome EXCEPT ![w] = how]
                      /\ how # "ok" /\ job' = job
      <4>1. CASE ApplyCreate(w)
        BY <4>1 DEF ApplyCreate, Goto, Finish, Steps
      <4>2. CASE ApplyChange(w)
        BY <4>2 DEF ApplyChange, Goto, Finish, Steps
      <4>3. CASE DoArchive(w)
        <5>1. CASE ArchiveVerdict(job[w].op) = "ok"
          BY <4>3, <5>1 DEF DoArchive, Goto, Steps
        <5>2. CASE ArchiveVerdict(job[w].op) # "ok"
          BY <4>3, <5>2 DEF DoArchive, Finish
        <5>3. QED
          BY <5>1, <5>2
      <4>4. CASE CommitBaseline(w) \/ UnlinkSource(w) \/ CommitOp(w)
        BY <4>4 DEF CommitBaseline, UnlinkSource, CommitOp, Goto, Finish, Steps
      <4>5. CASE UndoCheck(w) \/ RevertCommit(w) \/ GitFails(w)
        BY <4>5 DEF UndoCheck, RevertCommit, GitFails, Goto, Finish, Steps
      <4>6. QED
        BY <2>3, <4>1, <4>2, <4>3, <4>4, <4>5
    <3>2. QED
      BY <1>7, <1>8, <3>1
  <2>4. ASSUME NEW w \in Workers, RecordTransaction(w)
        PROVE  \A v \in Workers : Told(pc'[v], outcome'[v], job'[v])
    <3>1. /\ pc[w] = "record" /\ pc' = [pc EXCEPT ![w] = "release"] /\ job' = job
          /\ \E how : outcome' = [outcome EXCEPT ![w] = how]
      BY <2>4 DEF RecordTransaction, Finish
    <3>2. job[w].apr # NoId => Landed(job[w].apr)
      BY <1>0, <1>1, <1>2, <3>1 DEF JobType
    <3>3. Told("release", outcome'[w], job'[w])
      BY <3>1, <3>2 DEF Told
    <3>4. QED
      BY <1>6, <3>1, <3>3
  <2>5. ASSUME NEW w \in Workers, CompensateJournal(w)
        PROVE  \A v \in Workers : Told(pc'[v], outcome'[v], job'[v])
    <3>1. /\ pc[w] = "compensate" /\ pc' = [pc EXCEPT ![w] = "release"] /\ job' = job
          /\ \E how : outcome' = [outcome EXCEPT ![w] = how]
      BY <2>5 DEF CompensateJournal, Finish
    <3>2. job[w].apr = NoId
      BY <3>1 DEF JobInv, UndoSteps
    <3>3. Told("release", outcome'[w], job'[w])
      BY <3>1, <3>2 DEF Told
    <3>4. QED
      BY <1>6, <3>1, <3>3
  <2>6. ASSUME NEW w \in Workers, ReleaseLock(w)
        PROVE  \A v \in Workers : Told(pc'[v], outcome'[v], job'[v])
    <3>1. CASE job[w].apr # NoId
      <4>1. /\ pc[w] = "release" /\ pc' = [pc EXCEPT ![w] = "resolve"]
            /\ job' = job /\ outcome' = outcome
        BY <2>6, <3>1 DEF ReleaseLock
      <4>2. Told("resolve", outcome'[w], job'[w])
        BY <1>4, <4>1 DEF Told
      <4>3. QED
        BY <1>6, <4>1, <4>2
    <3>2. CASE job[w].apr = NoId
      BY <1>7, <2>6, <3>2 DEF ReleaseLock, Steps
    <3>3. QED
      BY <3>1, <3>2
  <2>7. QED
    BY <1>5, <2>1, <2>2, <2>3, <2>4, <2>5, <2>6, <1>4
    DEF Next, Serve, Propose, HumanEdit
<1>10. \A a \in Ids : Asked(a)' => approvals'[a].op \in Proposals
  <2>1. SUFFICES ASSUME NEW a \in Ids, Asked(a)', ~Asked(a)
                 PROVE  approvals'[a].op \in Proposals
    BY <1>3 DEF ApprovalInv
  <2>2. QED
    BY <2>1, ApprovalsAsked
<1>11. \A w \in Workers : job'[w].apr # NoId => Asked(job[w].apr)'
  <2>1. ASSUME NEW w \in Workers, job'[w].apr # NoId
        PROVE  job'[w].apr \in Ids /\ Asked(job'[w].apr)
    <3>1. job'[w].apr \in Ids
      BY <2>1 DEF TypeOK, JobType
    <3>2. QED
      BY <2>1, <3>1, JobApprovals DEF ApprovalInv, Asked
  <2>2. QED
    BY <1>3, <2>1 DEF Asked
<1>12. NoFalseClose'
  <2>1. SUFFICES ASSUME NEW a \in Ids, approvals'[a].state = "approved", approvals[a].state # "approved"
                 PROVE  AppliedCommit(a)
    BY <1>1 DEF NoFalseClose, AppliedCommit, Landed
  <2>2. QED
    BY <2>1, ApprovedWhy DEF ApprovalInv
<1>13. QED
  <2>1. \A w \in Workers :
          pc'[w] \in {"release", "resolve"} /\ outcome'[w] = "ok" /\ job'[w].apr # NoId
            => AppliedCommit(job[w].apr)'
    BY <1>9 DEF Told, Landed, AppliedCommit
  <2>2. \A s \in txns' : s.apr # NoId => Asked(s.apr)' /\ AppliedCommit(s.apr)'
    BY <1>rows DEF Landed, AppliedCommit
  <2>3. QED
    BY <1>10, <1>11, <1>12, <2>1, <2>2 DEF ApprovalInv

(* Which commit a step adds, and what is in it.                            *)
LEMMA NewCommit ==
  ASSUME TypeOK, Next
  PROVE  \/ log' = log
         \/ \E w \in Workers :
              /\ pc[w] = "baseline"
              /\ Committed("baseline", "none", NoId,
                           [HEAD EXCEPT ![job[w].op.path] = file[job[w].op.path]])
         \/ \E w \in Workers :
              /\ pc[w] = "commit" /\ pc'[w] = "record"
              /\ Committed("ledger", job[w].op.kind, job[w].apr,
                   [p \in Paths |-> IF p \in {job[w].op.path, job[w].op.dest}
                                    THEN file[p] ELSE HEAD[p]])
         \/ \E w \in Workers :
              /\ pc[w] = "revert"
              /\ \E t \in RevertTrees(job[w].target) : Committed("revert", "none", NoId, t)
<1>0. pc \in [Workers -> Steps]
  BY DEF TypeOK
<1>1. ASSUME NEW w \in Workers, CommitBaseline(w)
      PROVE  \/ log' = log
             \/ /\ pc[w] = "baseline"
                /\ Committed("baseline", "none", NoId,
                             [HEAD EXCEPT ![job[w].op.path] = file[job[w].op.path]])
  BY <1>1, Zenon DEF CommitBaseline
<1>2. ASSUME NEW w \in Workers, CommitOp(w)
      PROVE  \/ log' = log
             \/ /\ pc[w] = "commit" /\ pc'[w] = "record"
                /\ Committed("ledger", job[w].op.kind, job[w].apr,
                     [p \in Paths |-> IF p \in {job[w].op.path, job[w].op.dest}
                                      THEN file[p] ELSE HEAD[p]])
  BY <1>0, <1>2, Zenon DEF CommitOp, Goto
<1>3. ASSUME NEW w \in Workers, RevertCommit(w)
      PROVE  \/ log' = log
             \/ /\ pc[w] = "revert"
                /\ \E t \in RevertTrees(job[w].target) : Committed("revert", "none", NoId, t)
  BY <1>3, Zenon DEF RevertCommit
<1>4. ASSUME NEW w \in Workers, Request(w) PROVE log' = log
  BY <1>4 DEF Request, Approve, Reject, Submit, FlipStatus, Undo, Start
<1>5. ASSUME NEW w \in Workers,
             \/ LockVault(w) \/ LockTimeout(w) \/ ApplyCreate(w) \/ ApplyChange(w)
             \/ DoArchive(w) \/ WriteNote(w) \/ UnlinkSource(w) \/ RecordTransaction(w)
             \/ ReleaseLock(w) \/ ResolveApproval(w) \/ SetRejected(w) \/ UndoCheck(w)
             \/ CompensateJournal(w) \/ GitFails(w) \/ Crash(w) \/ Exit(w) \/ Reconcile(w)
      PROVE  log' = log
  BY <1>5, Zenon DEF LockVault, LockTimeout, ApplyCreate, ApplyChange, DoArchive, WriteNote,
     UnlinkSource, RecordTransaction, ReleaseLock, ResolveApproval, SetRejected, UndoCheck,
     CompensateJournal, GitFails, Crash, Exit, Reconcile, ListCommits, RepairJournal,
     CloseStaleApprovals
<1>6. QED
  BY <1>1, <1>2, <1>3, <1>4, <1>5, Zenon DEF Next, Serve, Propose, HumanEdit

(* A host that is down, lists or records goes on only by a step of its own. *)
LEMMA OwersMove ==
  ASSUME TypeOK, Next, NEW w \in Workers, pc[w] \in {"down", "repair", "record"}
  PROVE  \/ pc'[w] = pc[w] /\ seen'[w] = seen[w]
         \/ ListCommits(w) \/ RepairJournal(w) \/ RecordTransaction(w) \/ Crash(w)
<1>0. pc \in [Workers -> Steps] /\ seen \in [Workers -> SUBSET (Nat \cup Ids)]
  BY DEF TypeOK
<1>1. ASSUME NEW v \in Workers, v # w, NEW step, pc' = [pc EXCEPT ![v] = step],
             seen' = seen \/ \E listed : seen' = [seen EXCEPT ![v] = listed]
      PROVE  pc'[w] = pc[w] /\ seen'[w] = seen[w]
  BY <1>0, <1>1
<1>2. ASSUME NEW v \in Workers, Request(v)
      PROVE  pc'[w] = pc[w] /\ seen'[w] = seen[w]
  <2>1. /\ pc[v] = "idle" /\ seen' = seen
        /\ \E step \in {"lock", "reject"} : pc' = [pc EXCEPT ![v] = step]
    BY <1>2 DEF Request, Approve, Reject, Submit, FlipStatus, Undo, Start
  <2>2. QED
    BY <1>1, <2>1
<1>3. ASSUME NEW v \in Workers,
             \/ LockVault(v) \/ LockTimeout(v) \/ ReleaseLock(v) \/ ResolveApproval(v)
             \/ SetRejected(v) \/ CloseStaleApprovals(v) \/ Exit(v)
      PROVE  pc'[w] = pc[w] /\ seen'[w] = seen[w]
  <2>1. /\ pc[v] \in {"lock", "release", "resolve", "reject", "close", "idle"}
        /\ \E step : pc' = [pc EXCEPT ![v] = step]
        /\ seen' = seen \/ \E listed : seen' = [seen EXCEPT ![v] = listed]
    BY <1>3 DEF LockVault, LockTimeout, ReleaseLock, ResolveApproval, SetRejected,
       CloseStaleApprovals, Exit, Down
  <2>2. QED
    BY <1>1, <2>1
<1>4. ASSUME NEW v \in Workers,
             \/ ApplyCreate(v) \/ ApplyChange(v) \/ DoArchive(v) \/ CommitBaseline(v)
             \/ WriteNote(v) \/ UnlinkSource(v) \/ CommitOp(v) \/ UndoCheck(v)
             \/ RevertCommit(v) \/ CompensateJournal(v) \/ GitFails(v)
      PROVE  pc'[w] = pc[w] /\ seen'[w] = seen[w]
  <2>1. /\ pc[v] \in (ApplySteps \cup UndoSteps) \ {"record"}
        /\ \E step : pc' = [pc EXCEPT ![v] = step]
        /\ seen' = seen
    BY <1>4, Zenon DEF ApplyCreate, ApplyChange, DoArchive, CommitBaseline, WriteNote, UnlinkSource,
       CommitOp, UndoCheck, RevertCommit, CompensateJournal, GitFails, Goto, Finish,
       ApplySteps, UndoSteps
  <2>2. QED
    BY <1>1, <2>1 DEF ApplySteps, UndoSteps
<1>5. ASSUME NEW v \in Workers,
             ListCommits(v) \/ RepairJournal(v) \/ RecordTransaction(v) \/ Crash(v)
      PROVE  v = w \/ (pc'[w] = pc[w] /\ seen'[w] = seen[w])
  <2>1. /\ \E step : pc' = [pc EXCEPT ![v] = step]
        /\ seen' = seen \/ \E listed : seen' = [seen EXCEPT ![v] = listed]
    BY <1>5 DEF ListCommits, RepairJournal, RecordTransaction, Crash, Down, Finish
  <2>2. QED
    BY <1>1, <2>1
<1>6. QED
  BY <1>2, <1>3, <1>4, <1>5 DEF Next, Serve, Reconcile, Propose, HumanEdit

(* A commit without a row stays owed: by the host that made it until that  *)
(* host records it or dies, by a host that is down until it lists it, by a *)
(* host that listed it until it writes the row.                            *)
LEMMA NothingUnrecordedStep ==
  ASSUME TypeOK, TypeOK', LockInv, JobInv, HistoryInv, NothingUnrecorded, Next
  PROVE  NothingUnrecorded'
<1>0. /\ pc \in [Workers -> Steps]
      /\ Len(log) \in Nat \ {0} /\ log' # <<>> /\ Len(log') \in Nat \ {0}
      /\ log \in Seq(CommitType) /\ log' \in Seq(CommitType)
      /\ \A c \in 1..Len(log) : log'[c] = log[c]
  BY HistoryKept DEF TypeOK
<1> DEFINE Journaled(c) == \E r \in txns' : r.commit = c
           OwedBy(w, c) == \/ pc'[w] = "record" /\ c = Len(log')
                           \/ pc'[w] = "down"
                           \/ pc'[w] = "repair" /\ c \in seen'[w]
<1>1. SUFFICES ASSUME NEW c \in LedgerCommits'
               PROVE  Journaled(c) \/ \E w \in Workers : OwedBy(w, c)
  BY DEF NothingUnrecorded, Owed, Rows
<1>2. CASE c \notin LedgerCommits
  <2>1. log' # log
    BY <1>1, <1>2 DEF LedgerCommits
  <2>2. c \notin 1..Len(log) /\ log'[c].kind = "ledger" /\ c \in 1..Len(log')
    BY <1>0, <1>1, <1>2 DEF LedgerCommits
  <2>3. ASSUME NEW kind \in CommitKinds, NEW op, NEW apr, NEW tree, Committed(kind, op, apr, tree)
        PROVE  c = Len(log') /\ kind = "ledger"
    <3>1. Len(log') = Len(log) + 1 /\ log'[Len(log) + 1].kind = kind
      BY <1>0, <2>3 DEF Committed
    <3>2. QED
      BY <1>0, <2>2, <3>1
  <2>4. \E w \in Workers : pc'[w] = "record" /\ c = Len(log')
    BY <2>1, <2>3, NewCommit DEF CommitKinds
  <2>5. QED
    BY <2>4
<1>3. CASE \E r \in txns : r.commit = c
  BY <1>3, RowsKept
<1>4. ASSUME c \in LedgerCommits, ~\E r \in txns : r.commit = c
      PROVE  Journaled(c) \/ \E w \in Workers : OwedBy(w, c)
  <2>1. PICK w \in Workers : \/ pc[w] = "record" /\ c = Len(log)
                             \/ pc[w] = "down"
                             \/ pc[w] = "repair" /\ c \in seen[w]
    BY <1>4 DEF NothingUnrecorded, Owed, Rows
  <2>2. CASE pc'[w] = pc[w] /\ seen'[w] = seen[w]
    <3>1. pc[w] = "record" => log' = log
      BY <2>2, HolderKeeps
    <3>2. OwedBy(w, c)
      BY <2>1, <2>2, <3>1
    <3>3. QED
      BY <3>2
  <2>3. CASE Crash(w)
    BY <1>0, <2>3 DEF Crash, Down
  <2>4. CASE ListCommits(w)
    <3>1. pc'[w] = "repair" /\ c \in seen'[w]
      BY <1>0, <1>4, <2>4 DEF ListCommits, Rows, TypeOK
    <3>2. QED
      BY <3>1
  <2>5. CASE RepairJournal(w)
    <3>1. c \in seen[w] /\ Rows(c) = {}
      BY <1>4, <2>1, <2>5 DEF RepairJournal, Rows
    <3>2. ReconciledRow(c) \in txns'
      BY <2>5, <3>1 DEF RepairJournal
    <3>3. ReconciledRow(c).commit = c
      BY DEF ReconciledRow
    <3>4. QED
      BY <3>2, <3>3
  <2>6. CASE RecordTransaction(w)
    <3>1. c = Len(log) /\ Rows(Len(log)) = {}
      BY <1>4, <2>1, <2>6 DEF RecordTransaction, Rows
    <3> DEFINE op == job[w].op
               row == [commit |-> Len(log), by |-> "broker", op |-> op.kind, path |-> op.path,
                       before |-> op.expected,
                       after |-> IF op.kind = "move" THEN op.expected ELSE op.content,
                       apr |-> job[w].apr, status |-> "applied"]
    <3>2. txns' = txns \cup {row}
      BY <2>6, <3>1, Zenon DEF RecordTransaction
    <3>3. row.commit = Len(log)
      OBVIOUS
    <3> HIDE DEF row
    <3>4. QED
      BY <3>1, <3>2, <3>3
  <2>7. QED
    BY <2>1, <2>2, <2>3, <2>4, <2>5, <2>6, OwersMove
<1>5. QED
  BY <1>2, <1>3, <1>4

(* git revert leaves alone a note that the commit did not change and that  *)
(* nobody has changed since.                                               *)
LEMMA RevertLeaves ==
  ASSUME log \in Seq(CommitType), log # <<>>, NEW c \in 2..Len(log), NEW t \in RevertTrees(c),
         NEW p \in Paths, log[c].tree[p] = HEAD[p], log[c - 1].tree[p] = HEAD[p]
  PROVE  t[p] = HEAD[p]
<1> DEFINE base == log[c].tree
           theirs == log[c - 1].tree
           changed == {q \in Paths : base[q] # theirs[q]}
           moves == {m \in Paths \X Paths : Renamed(m[1], m[2], base, theirs)}
           strays == {m \in changed \X Paths : Renamed(m[1], m[2], base, HEAD)}
<1>1. HEAD \in Tree
  BY HEADTyped
<1>2. \/ \E m \in moves : t = [HEAD EXCEPT ![m[2]] = HEAD[m[1]], ![m[1]] = Absent]
      \/ \E m \in strays : t = [HEAD EXCEPT ![m[2]] = theirs[m[1]]]
      \/ t = [q \in Paths |-> IF q \in changed THEN theirs[q] ELSE HEAD[q]]
  BY DEF RevertTrees
<1>3. \A m \in moves : m[1] # p /\ m[2] # p
  BY DEF Renamed
<1>4. \A m \in strays : m[2] # p
  BY DEF Renamed
<1>5. p \notin changed
  OBVIOUS
<1> HIDE DEF moves, strays, changed
<1>6. ASSUME NEW m \in moves, t = [HEAD EXCEPT ![m[2]] = HEAD[m[1]], ![m[1]] = Absent]
      PROVE  t[p] = HEAD[p]
  BY <1>1, <1>3, <1>6 DEF Tree
<1>7. ASSUME NEW m \in strays, t = [HEAD EXCEPT ![m[2]] = theirs[m[1]]]
      PROVE  t[p] = HEAD[p]
  BY <1>1, <1>4, <1>7 DEF Tree
<1>8. QED
  BY <1>2, <1>5, <1>6, <1>7

(* The commit a step adds changes no excluded note, and a trusted one only *)
(* under the approval of the request that made it.                         *)
LEMMA ZonesStep ==
  ASSUME TypeOK, TypeOK', JobInv, ClearedInv, HistoryInv,
         ExcludedUntouched, TrustedApproved, Next
  PROVE  ExcludedUntouched' /\ TrustedApproved'
<1>0. /\ log \in Seq(CommitType) /\ log # <<>> /\ log' \in Seq(CommitType)
      /\ Len(log) \in Nat \ {0} /\ HEAD \in Tree /\ HEAD = log[Len(log)].tree
  BY HEADTyped DEF TypeOK, HistoryInv, HEAD
<1>1. CASE log' = log
  BY <1>1 DEF ExcludedUntouched, TrustedApproved
<1>2. ASSUME NEW kind \in CommitKinds, NEW op, NEW apr, NEW tree,
             Committed(kind, op, apr, tree),
             \A p \in Paths : tree[p] # HEAD[p] =>
               /\ Zone[p] # "excluded"
               /\ kind = "ledger" /\ Zone[p] = "trusted" => apr # NoId
      PROVE  ExcludedUntouched' /\ TrustedApproved'
  <2>1. /\ Len(log') = Len(log) + 1
        /\ \A c \in 1..Len(log) : log'[c] = log[c]
        /\ log'[Len(log) + 1] = [kind |-> kind, op |-> op, apr |-> apr, tree |-> tree]
    BY <1>0, <1>2 DEF Committed
  <2>2. ASSUME NEW c \in 1..Len(log'), NEW p \in Paths, Zone[p] = "excluded"
        PROVE  log'[c].tree[p] = log'[1].tree[p]
    <3>1. CASE c \in 1..Len(log)
      BY <1>0, <2>1, <2>2, <3>1 DEF ExcludedUntouched
    <3>2. CASE c = Len(log) + 1
      <4>1. log'[c].tree[p] = HEAD[p]
        BY <1>2, <2>1, <2>2, <3>2
      <4>2. HEAD[p] = log[1].tree[p]
        BY <1>0, <2>2 DEF ExcludedUntouched
      <4>3. QED
        BY <1>0, <2>1, <4>1, <4>2
    <3>3. QED
      BY <1>0, <2>1, <3>1, <3>2
  <2>3. ASSUME NEW c \in 2..Len(log'), NEW p \in Paths, log'[c].kind = "ledger",
               Zone[p] = "trusted", log'[c].tree[p] # log'[c - 1].tree[p]
        PROVE  log'[c].apr # NoId
    <3>1. CASE c \in 2..Len(log)
      <4>1. log'[c] = log[c] /\ log'[c - 1] = log[c - 1]
        BY <1>0, <2>1, <3>1
      <4>2. QED
        BY <2>3, <3>1, <4>1 DEF TrustedApproved
    <3>2. CASE c = Len(log) + 1
      <4>1. log'[c - 1].tree = HEAD
        BY <1>0, <2>1, <3>2
      <4>2. QED
        BY <1>2, <2>1, <2>3, <3>2, <4>1
    <3>3. QED
      BY <1>0, <2>1, <3>1, <3>2
  <2>4. QED
    BY <2>2, <2>3 DEF ExcludedUntouched, TrustedApproved
<1>3. ASSUME NEW w \in Workers, pc[w] \in {"baseline", "commit"},
             NEW p \in {job[w].op.path, job[w].op.dest}
      PROVE  Zone[p] # "excluded" /\ (Zone[p] = "trusted" => job[w].apr # NoId)
  BY <1>3 DEF ClearedInv, Cleared, ApplySteps
<1>4. ASSUME NEW w \in Workers, pc[w] = "baseline",
             Committed("baseline", "none", NoId,
                       [HEAD EXCEPT ![job[w].op.path] = file[job[w].op.path]])
      PROVE  ExcludedUntouched' /\ TrustedApproved'
  <2> DEFINE tree == [HEAD EXCEPT ![job[w].op.path] = file[job[w].op.path]]
  <2>1. \A p \in Paths : tree[p] # HEAD[p] => p = job[w].op.path
    BY <1>0 DEF Tree
  <2>2. \A p \in Paths : tree[p] # HEAD[p] => Zone[p] # "excluded"
    BY <1>3, <1>4, <2>1
  <2> HIDE DEF tree
  <2>3. Committed("baseline", "none", NoId, tree)
    BY <1>4 DEF tree
  <2>4. QED
    BY <1>2, <2>2, <2>3 DEF CommitKinds
<1>5. ASSUME NEW w \in Workers, pc[w] = "commit",
             Committed("ledger", job[w].op.kind, job[w].apr,
               [p \in Paths |-> IF p \in {job[w].op.path, job[w].op.dest}
                                THEN file[p] ELSE HEAD[p]])
      PROVE  ExcludedUntouched' /\ TrustedApproved'
  <2> DEFINE tree == [p \in Paths |-> IF p \in {job[w].op.path, job[w].op.dest}
                                      THEN file[p] ELSE HEAD[p]]
  <2>1. \A p \in Paths : tree[p] # HEAD[p] => p \in {job[w].op.path, job[w].op.dest}
    OBVIOUS
  <2>2. \A p \in Paths : tree[p] # HEAD[p] =>
          Zone[p] # "excluded" /\ (Zone[p] = "trusted" => job[w].apr # NoId)
    BY <1>3, <1>5, <2>1
  <2> HIDE DEF tree
  <2>3. Committed("ledger", job[w].op.kind, job[w].apr, tree)
    BY <1>5 DEF tree
  <2>4. QED
    BY <1>2, <2>2, <2>3 DEF CommitKinds
<1>6. ASSUME NEW w \in Workers, pc[w] = "revert", NEW t \in RevertTrees(job[w].target),
             Committed("revert", "none", NoId, t)
      PROVE  ExcludedUntouched' /\ TrustedApproved'
  <2>1. job[w].target \in 2..Len(log)
    BY <1>6 DEF JobInv, HistoryInv, UndoSteps
  <2>2. ASSUME NEW p \in Paths, Zone[p] = "excluded" PROVE t[p] = HEAD[p]
    <3>1. /\ log[job[w].target].tree[p] = log[1].tree[p]
          /\ log[job[w].target - 1].tree[p] = log[1].tree[p]
          /\ HEAD[p] = log[1].tree[p]
      BY <1>0, <2>1, <2>2 DEF ExcludedUntouched
    <3>2. QED
      BY <1>0, <2>1, <3>1, RevertLeaves, SMTT(30)
  <2>3. QED
    BY <1>2, <1>6, <2>2 DEF CommitKinds
<1>7. QED
  BY <1>1, <1>4, <1>5, <1>6, NewCommit

-----------------------------------------------------------------------------
(* The invariant holds when the vault is opened.                           *)
LEMMA InitIInv == Init => IInv
<1> SUFFICES ASSUME Init PROVE IInv
  OBVIOUS
<1> DEFINE first == [kind |-> "initial", op |-> "none", apr |-> NoId, tree |-> Tracked]
<1>1. first \in CommitType
  BY ValueAssumption DEF CommitType, CommitKinds, Tree, Bytes
<1>2. /\ log = <<first>> /\ Len(log) = 1 /\ log[1] = first
      /\ log \in Seq(CommitType) /\ DOMAIN log = {1} /\ LedgerCommits = {}
  BY <1>1 DEF Init, LedgerCommits
<1>3. TypeOK
  <2>1. left \in [world : DOMAIN Worlds, requests : Nat, undo : Nat, human : Nat,
                  crash : Nat, gitfail : Nat]
    <3>1. PICK n \in DOMAIN Worlds :
            left = [world |-> n, requests |-> Worlds[n].requests, undo |-> Worlds[n].undo,
                    human |-> Worlds[n].human, crash |-> Worlds[n].crash,
                    gitfail |-> Worlds[n].gitfail]
      BY DEF Init
    <3>2. QED
      BY <3>1, WorldsAssumption
  <2>2. QED
    BY <1>2, <2>1, ValueAssumption
    DEF Init, TypeOK, Tree, Bytes, ApprovalType, JobType, Idle, Steps
<1>4. LockInv /\ JobInv /\ ClearedInv
  BY DEF Init, LockInv, JobInv, ClearedInv, Locked, ApplySteps, UndoSteps, Idle
<1>5. HistoryInv /\ OneRowPerCommit /\ NothingUnrecorded
  BY <1>2 DEF Init, HistoryInv, OneRowPerCommit, NothingUnrecorded
<1>6. ApprovalInv /\ NoFalseClose
  BY DEF Init, ApprovalInv, NoFalseClose, Asked, Idle
<1>7. ExcludedUntouched /\ TrustedApproved
  BY <1>2 DEF ExcludedUntouched, TrustedApproved
<1>8. QED
  BY <1>3, <1>4, <1>5, <1>6, <1>7 DEF IInv

(* Every step of every host, and of the people around it, keeps it.        *)
LEMMA IInvStep == IInv /\ [Next]_vars => IInv'
<1>1. ASSUME IInv, Next PROVE IInv'
  <2>1. TypeOK'
    BY <1>1, TypeStep DEF IInv
  <2>2. LockInv' /\ JobInv' /\ ClearedInv'
    BY <1>1, LockStep, JobStep, ClearedStep DEF IInv
  <2>3. HistoryInv' /\ OneRowPerCommit' /\ NothingUnrecorded'
    BY <1>1, <2>1, HistoryStep, OneRowStep, NothingUnrecordedStep DEF IInv
  <2>4. ApprovalInv' /\ NoFalseClose'
    BY <1>1, <2>1, ApprovalStep DEF IInv
  <2>5. ExcludedUntouched' /\ TrustedApproved'
    BY <1>1, <2>1, ZonesStep DEF IInv
  <2>6. QED
    BY <2>1, <2>2, <2>3, <2>4, <2>5 DEF IInv
<1>2. ASSUME IInv, UNCHANGED vars PROVE IInv'
  <2>1. /\ TypeOK' /\ LockInv' /\ JobInv' /\ ClearedInv'
    BY <1>2 DEF IInv, vars, TypeOK, LockInv, JobInv, ApplyJob, ClearedInv, Cleared
  <2>2. HistoryInv' /\ OneRowPerCommit' /\ NothingUnrecorded'
    BY <1>2 DEF IInv, vars, HistoryInv, LedgerCommits, OneRowPerCommit, NothingUnrecorded, Rows, Owed
  <2>3. ApprovalInv' /\ NoFalseClose'
    BY <1>2 DEF IInv, vars, ApprovalInv, Asked, AppliedCommit, NoFalseClose
  <2>4. ExcludedUntouched' /\ TrustedApproved'
    BY <1>2 DEF IInv, vars, ExcludedUntouched, TrustedApproved
  <2>5. QED
    BY <2>1, <2>2, <2>3, <2>4 DEF IInv
<1>3. QED
  BY <1>1, <1>2

(* What hosts rely on at each of their steps holds in every behaviour.     *)
THEOREM Inductive == Spec => []IInv
<1>1. QED
  BY InitIInv, IInvStep, PTL DEF Spec

(* The tables, the working tree, the history and every host's locals keep  *)
(* their types; in particular no operation ever writes to a note the       *)
(* result of a patch the applier rejected (broker.ts, applyRevise).        *)
THEOREM Types == Spec => []TypeOK
<1>1. IInv => TypeOK
  BY DEF IInv
<1>2. QED
  BY <1>1, Inductive, PTL

(* However many hosts record, undo and repair at once, a commit has at     *)
(* most one row (journal.ts, recordTransaction and recordTransactionIfNew; *)
(* reconcile.ts runs without the lock).                                    *)
THEOREM OneRow == Spec => []OneRowPerCommit
<1>1. IInv => OneRowPerCommit
  BY DEF IInv
<1>2. QED
  BY <1>1, Inductive, PTL

(* No approval is closed as approved unless a commit made for it is in the *)
(* history, whichever hosts race to close it and whoever dies on the way   *)
(* (queue.ts, approve; reconcile.ts, closeStaleApprovals).                 *)
THEOREM NoFalseCloses == Spec => []NoFalseClose
<1>1. IInv => NoFalseClose
  BY DEF IInv
<1>2. QED
  BY <1>1, Inductive, PTL

(* A crash between a commit and its row loses nothing: some host still     *)
(* owes the row and serves nobody before it has written it (reconcile.ts). *)
THEOREM NothingLost == Spec => []NothingUnrecorded
<1>1. IInv => NothingUnrecorded
  BY DEF IInv
<1>2. QED
  BY <1>1, Inductive, PTL

(* From the gates to the commit, the zones hold: no commit, not even a     *)
(* revert that follows renames, changes an excluded note, and a ledger     *)
(* commit changes a trusted one only under an approval (broker.ts).        *)
THEOREM Zones == Spec => []ZonesRespected
<1>1. IInv => ZonesRespected
  <2>1. ASSUME IInv, NEW c \in 2..Len(log), NEW p \in Changed(c)
        PROVE  /\ Zone[p] # "excluded"
               /\ log[c].kind = "ledger" /\ Zone[p] = "trusted" => log[c].apr # NoId
    <3>1. Len(log) \in Nat \ {0}
      BY <2>1, HEADTyped DEF IInv, TypeOK, HistoryInv
    <3>2. c \in 1..Len(log) /\ c - 1 \in 1..Len(log)
      BY <3>1
    <3>3. p \in Paths /\ log[c].tree[p] # log[c - 1].tree[p]
      BY DEF Changed
    <3>4. Zone[p] # "excluded"
      BY <2>1, <3>2, <3>3 DEF IInv, ExcludedUntouched
    <3>5. log[c].kind = "ledger" /\ Zone[p] = "trusted" => log[c].apr # NoId
      BY <2>1, <3>3 DEF IInv, TrustedApproved
    <3>6. QED
      BY <3>4, <3>5
  <2>2. QED
    BY <2>1 DEF ZonesRespected
<1>2. QED
  BY <1>1, Inductive, PTL

-----------------------------------------------------------------------------
(***************************************************************************)
(* What the history and the journal say about a note: what is applied is   *)
(* what was approved and verified, its row tells the truth, one approval   *)
(* is applied once, an undo is the mirror of what it undoes.               *)
(*                                                                         *)
(* The argument is about bytes.  Where nothing is left uncommitted, HEAD   *)
(* differs from the working tree only in notes git has never seen and, for *)
(* the length of one step, in the note of the host about to commit; so the *)
(* hash that host verified under the lock is what HEAD holds there.        *)
(***************************************************************************)

(* What an operation leaves at its path. *)
After(op) == IF op.kind \in {"create", "newfile", "revise"} THEN op.content ELSE Absent

(* What an operation is, and which one an approval's request is about.     *)
Shape(op) ==
  /\ op.kind \in {"create", "newfile"} => op.expected = Absent
  /\ op.kind \in {"create", "newfile", "revise"} => op.content # Absent
  /\ op.kind \in {"delete", "archive"} => op.content = Absent
OpInv == \A w \in Workers :
  pc[w] \in ApplySteps \cup {"lock"} /\ job[w].target = 0 =>
    /\ Shape(job[w].op)
    /\ job[w].apr # NoId => /\ job[w].op = approvals[job[w].apr].op
                            /\ ~job[w].internal /\ job[w].op.kind # "archive"

(* The gates' verdict on provenance: of a delete or a move when it is      *)
(* proposed, of an edit when it is applied.                                *)
ProposedPlain == \A a \in Ids :
  Asked(a) /\ approvals[a].op.kind \in {"delete", "move"}
    => ProvenanceOf(approvals[a].op.expected) = Plain
VerdictInv == \A w \in Workers :
  pc[w] \in ApplySteps \ {"check"} /\ job[w].apr # NoId
    => ApprovalKeeps(job[w].op.expected, After(job[w].op), job[w].op.kind)
RowsKeep == \A r \in txns :
  /\ r.by = "broker" /\ r.apr # NoId => ApprovalKeeps(r.before, r.after, r.op)
  /\ r.by = "reconcile" => r.before = r.after

(* No behaviour has more of anything than its world allows.                *)
BoundInv ==
  left.human \leq World.human /\ left.crash \leq World.crash /\ left.gitfail \leq World.gitfail

(* Committing(p): the one host whose change of p is on its way to HEAD.    *)
Committing(p) == \E w \in Workers : pc[w] = "commit" /\ job[w].op.path = p
TreeInv == \A p \in Paths : HEAD[p] \in {Absent, file[p]} \/ Committing(p)

(* The bytes a step of an operation finds in the working tree and in HEAD. *)
TargetFree(op) ==
  op.kind \in {"move", "archive"} => op.dest # op.path /\ file[op.dest] = Absent
TargetWritten(op) ==
  op.kind \in {"move", "archive"} =>
    op.dest # op.path /\ file[op.dest] = op.expected /\ HEAD[op.dest] = Absent
Source(op) == file[op.path] = op.expected /\ op.expected # Absent
InHEAD(op) ==
  HEAD[op.path] = op.expected \/ (op.kind = "archive" /\ HEAD[op.path] = Absent)
AtBaseline(op) ==
  op.kind \in {"revise", "delete", "move"} /\ Source(op) /\ TargetFree(op)
AtWrite(op) ==
  op.kind \in {"revise", "move"} /\ Source(op) /\ TargetFree(op) /\ InHEAD(op)
AtUnlink(op) ==
  op.kind \in {"delete", "move", "archive"} /\ Source(op) /\ TargetWritten(op) /\ InHEAD(op)
AtCommit(op) ==
  /\ file[op.path] = After(op) /\ TargetWritten(op) /\ InHEAD(op)
  /\ op.kind \notin {"create", "newfile"} => op.expected # Absent
AtRecord(op) ==
  /\ log[Len(log) - 1].tree[op.path] = op.expected
  /\ log[Len(log)].tree[op.path] = After(op)
ReadyInv == \A w \in Workers :
  /\ pc[w] = "baseline" => AtBaseline(job[w].op)
  /\ pc[w] = "write" => AtWrite(job[w].op)
  /\ pc[w] = "unlink" => AtUnlink(job[w].op)
  /\ pc[w] = "commit" => AtCommit(job[w].op)
  /\ pc[w] = "record" => AtRecord(job[w].op)

(* A commit made for an approval replaced what was approved, at the path   *)
(* it was approved for, and touched no governed note.                      *)
AppliedInv == \A c \in LedgerCommits : log[c].apr # NoId =>
  /\ log[c].apr \in Ids /\ Asked(log[c].apr)
  /\ LET op == approvals[log[c].apr].op IN
       log[c - 1].tree[op.path] = op.expected /\ log[c].tree[op.path] # op.expected
  /\ \A p \in Paths : ProvenanceOf(log[c].tree[p]) = ProvenanceOf(log[c - 1].tree[p])

(* As long as git has no rename to follow, a commit changes one note, and  *)
(* it is that of its row.                                                  *)
OneNote == \A c \in 2..Len(log) : \A p, q \in Changed(c) : p = q
Claiming(r) == r.by \in {"broker", "undo"} /\ r.before # r.after
RowsClaim == \A r \in txns : Claiming(r) => r.path \in Paths /\ Claims(r)
MirrorReady == \A w \in Workers : pc[w] = "compensate" =>
  \A r \in Rows(job[w].target) : Claiming(r) =>
    /\ r.path \in Paths
    /\ log[Len(log) - 1].tree[r.path] = r.after
    /\ log[Len(log)].tree[r.path] = r.before

AlwaysInv == OpInv /\ ProposedPlain /\ VerdictInv /\ RowsKeep /\ BoundInv
CleanInv == NothingUncommitted => TreeInv /\ ReadyInv /\ AppliedInv /\ RowsTellTheTruth
MirrorInv == NothingUncommitted /\ NothingRenamed => OneNote /\ RowsClaim /\ MirrorReady
HInv == AlwaysInv /\ CleanInv /\ MirrorInv

-----------------------------------------------------------------------------
(* The world a behaviour has it keeps, and its bounds only shrink.         *)
LEMMA WorldKept ==
  ASSUME TypeOK, BoundInv, Next
  PROVE  World' = World /\ BoundInv' /\ NothingUncommitted' = NothingUncommitted
<1> DEFINE L == [world : DOMAIN Worlds, requests : Nat, undo : Nat, human : Nat, crash : Nat, gitfail : Nat]
<1>0. left \in L
  BY DEF TypeOK
<1>1. \/ left' = left
      \/ left' = [left EXCEPT !.requests = @ - 1]
      \/ left' = [left EXCEPT !.undo = @ - 1]
      \/ left' = [left EXCEPT !.human = @ - 1]
      \/ left' = [left EXCEPT !.crash = @ - 1]
      \/ left' = [left EXCEPT !.gitfail = @ - 1]
  <2>1. ASSUME NEW w \in Workers, Request(w)
        PROVE  \/ left' = [left EXCEPT !.requests = @ - 1]
               \/ left' = [left EXCEPT !.undo = @ - 1]
    BY <2>1 DEF Request, Approve, Reject, Submit, FlipStatus, Undo, Start
  <2>2. ASSUME NEW w \in Workers, Serve(w) \/ Reconcile(w) \/ Exit(w) PROVE left' = left
    <3>1. CASE LockVault(w) \/ LockTimeout(w) \/ ApplyCreate(w) \/ ApplyChange(w) \/ DoArchive(w)
               \/ CommitBaseline(w) \/ WriteNote(w) \/ UnlinkSource(w)
      BY <3>1 DEF LockVault, LockTimeout, ApplyCreate, ApplyChange, DoArchive, CommitBaseline,
         WriteNote, UnlinkSource
    <3>2. CASE CommitOp(w) \/ RecordTransaction(w) \/ ReleaseLock(w) \/ ResolveApproval(w)
               \/ SetRejected(w) \/ UndoCheck(w) \/ RevertCommit(w) \/ CompensateJournal(w)
      BY <3>2, Zenon DEF CommitOp, RecordTransaction, ReleaseLock, ResolveApproval, SetRejected,
         UndoCheck, RevertCommit, CompensateJournal
    <3>3. CASE Reconcile(w) \/ Exit(w)
      BY <3>3 DEF Reconcile, ListCommits, RepairJournal, CloseStaleApprovals, Exit
    <3>4. QED
      BY <2>2, <3>1, <3>2, <3>3 DEF Serve
  <2>3. ASSUME NEW w \in Workers, GitFails(w) \/ Crash(w)
        PROVE  \/ left' = [left EXCEPT !.crash = @ - 1]
               \/ left' = [left EXCEPT !.gitfail = @ - 1]
    BY <2>3 DEF GitFails, Crash
  <2>4. ASSUME NEW p \in Paths, NEW c \in HumanContents, HumanEdit(p, c)
        PROVE  left' = [left EXCEPT !.human = @ - 1]
    BY <2>4 DEF HumanEdit
  <2>5. ASSUME NEW a \in Ids, NEW op \in Proposals, Propose(a, op) PROVE left' = left
    BY <2>5 DEF Propose
  <2>6. QED
    BY <2>1, <2>2, <2>3, <2>4, <2>5 DEF Next
<1>2. /\ left'.world = left.world
      /\ left'.human \leq left.human /\ left'.crash \leq left.crash
      /\ left'.gitfail \leq left.gitfail
      /\ left'.human \in Int /\ left'.crash \in Int /\ left'.gitfail \in Int
  BY <1>0, <1>1
<1>3. World \in [proposals : SUBSET Proposals, direct : SUBSET Direct,
                  flips : SUBSET StatusFlips, people : SUBSET HumanContents,
                  requests : Nat, undo : Nat, human : Nat, crash : Nat, gitfail : Nat]
  BY <1>0, WorldsAssumption DEF World
<1>4. World' = World
  BY <1>2 DEF World
<1>5. World.human \in Nat /\ World.crash \in Nat /\ World.gitfail \in Nat
  BY <1>3
<1>6. left.human \in Nat /\ left.crash \in Nat /\ left.gitfail \in Nat
  BY <1>0
<1>7. BoundInv'
  BY <1>2, <1>4, <1>5, <1>6 DEF BoundInv
<1>8. QED
  BY <1>4, <1>7 DEF NothingUncommitted

(* Where nothing is left uncommitted there is no failure left to come.     *)
LEMMA NothingLeft ==
  ASSUME TypeOK, BoundInv, NothingUncommitted
  PROVE  left.human = 0 /\ left.crash = 0 /\ left.gitfail = 0
BY DEF TypeOK, BoundInv, NothingUncommitted

(* A step is one host's, or it moves none.                                 *)
Act(w) == Request(w) \/ Serve(w) \/ Reconcile(w) \/ GitFails(w) \/ Crash(w) \/ Exit(w)
LEMMA OneActs ==
  ASSUME TypeOK, Next
  PROVE  \/ /\ pc' = pc /\ job' = job /\ log' = log /\ txns' = txns
            /\ file' = file \/ left.human > 0
         \/ \E v \in Workers :
              /\ Act(v) /\ pc'[v] # pc[v]
              /\ \A u \in Workers \ {v} : pc'[u] = pc[u] /\ job'[u] = job[u]
<1>0. pc \in [Workers -> Steps] /\ job \in [Workers -> JobType]
  BY DEF TypeOK
<1>1. ASSUME NEW v \in Workers, NEW step, NEW j, step # pc[v],
             pc' = [pc EXCEPT ![v] = step],
             job' = job \/ job' = [job EXCEPT ![v] = j]
      PROVE  /\ pc'[v] # pc[v]
             /\ \A u \in Workers \ {v} : pc'[u] = pc[u] /\ job'[u] = job[u]
  BY <1>0, <1>1
<1>2. ASSUME NEW v \in Workers, Act(v)
      PROVE  \E step, j : /\ step # pc[v] /\ pc' = [pc EXCEPT ![v] = step]
                          /\ job' = job \/ job' = [job EXCEPT ![v] = j]
  <2>1. CASE Request(v)
    BY <2>1, ZenonT(30) DEF Request, Approve, Reject, Submit, FlipStatus, Undo, Start
  <2>2. CASE LockVault(v) \/ LockTimeout(v) \/ ReleaseLock(v) \/ ResolveApproval(v) \/ SetRejected(v)
    BY <2>2 DEF LockVault, LockTimeout, ReleaseLock, ResolveApproval, SetRejected
  <2>3. CASE ApplyCreate(v) \/ ApplyChange(v) \/ CommitBaseline(v) \/ WriteNote(v)
             \/ UnlinkSource(v) \/ CommitOp(v) \/ RecordTransaction(v)
    BY <2>3, Zenon DEF ApplyCreate, ApplyChange, CommitBaseline, WriteNote, UnlinkSource, CommitOp,
       RecordTransaction, Goto, Finish
  <2>4. CASE DoArchive(v)
    <3>1. \/ pc' = [pc EXCEPT ![v] = "release"] /\ job' = job
          \/ /\ pc' = [pc EXCEPT ![v] = "unlink"]
             /\ job' = [job EXCEPT ![v].op.expected = file[job[v].op.path]]
      BY <2>4 DEF DoArchive, Goto, Finish
    <3>2. pc[v] = "check"
      BY <2>4 DEF DoArchive
    <3>3. CASE pc' = [pc EXCEPT ![v] = "release"] /\ job' = job
      BY <3>2, <3>3
    <3>4. CASE /\ pc' = [pc EXCEPT ![v] = "unlink"]
               /\ job' = [job EXCEPT ![v].op.expected = file[job[v].op.path]]
      <4> DEFINE j == [job[v] EXCEPT !.op.expected = file[job[v].op.path]]
      <4>1. job' = [job EXCEPT ![v] = j]
        BY <3>4
      <4>2. QED
        BY <3>2, <3>4, <4>1
    <3>5. QED
      BY <3>1, <3>3, <3>4
  <2>5. CASE UndoCheck(v) \/ RevertCommit(v) \/ CompensateJournal(v) \/ GitFails(v)
    BY <2>5, Zenon DEF UndoCheck, RevertCommit, CompensateJournal, GitFails, Goto, Finish
  <2>6. CASE Reconcile(v) \/ Crash(v) \/ Exit(v)
    BY <2>6 DEF Reconcile, ListCommits, RepairJournal, CloseStaleApprovals, Crash, Exit, Down
  <2>7. QED
    BY <1>2, <2>1, <2>2, <2>3, <2>4, <2>5, <2>6 DEF Act, Serve
<1>3. ASSUME NEW v \in Workers, Act(v)
      PROVE  /\ pc'[v] # pc[v]
             /\ \A u \in Workers \ {v} : pc'[u] = pc[u] /\ job'[u] = job[u]
  <2>1. PICK step, j : /\ step # pc[v] /\ pc' = [pc EXCEPT ![v] = step]
                       /\ job' = job \/ job' = [job EXCEPT ![v] = j]
    BY <1>2, <1>3
  <2>2. QED
    BY <1>1, <2>1
<1>4. QED
  BY <1>3, Zenon DEF Next, Act, Propose, HumanEdit

(* While a host has the lock and does not move, nobody touches its request *)
(* or the history, and only people touch the working tree.                 *)
LEMMA OthersKeep ==
  ASSUME TypeOK, LockInv, Next, NEW w \in Workers, pc'[w] = pc[w]
  PROVE  /\ job'[w] = job[w]
         /\ pc[w] \in Locked => log' = log /\ (file' = file \/ left.human > 0)
<1>1. CASE /\ pc' = pc /\ job' = job /\ log' = log
           /\ file' = file \/ left.human > 0
  BY <1>1
<1>2. ASSUME NEW v \in Workers, Act(v), pc'[v] # pc[v],
             \A u \in Workers \ {v} : pc'[u] = pc[u] /\ job'[u] = job[u]
      PROVE  /\ job'[w] = job[w]
             /\ pc[w] \in Locked => log' = log /\ file' = file
  <2>1. v # w
    BY <1>2
  <2>2. ASSUME pc[w] \in Locked PROVE log' = log /\ file' = file
    <3>1. pc[v] \notin Locked
      BY <2>1, <2>2 DEF LockInv
    <3>2. CASE Request(v)
      BY <3>2 DEF Request, Approve, Reject, Submit, FlipStatus, Undo, Start
    <3>3. CASE Serve(v)
      <4>1. \/ LockVault(v) \/ LockTimeout(v) \/ ResolveApproval(v) \/ SetRejected(v)
        BY <3>1, <3>3, Zenon DEF Serve, ApplyCreate, ApplyChange, DoArchive, CommitBaseline, WriteNote,
           UnlinkSource, CommitOp, RecordTransaction, ReleaseLock, UndoCheck, RevertCommit,
           CompensateJournal, Locked, ApplySteps, UndoSteps
      <4>2. QED
        BY <4>1 DEF LockVault, LockTimeout, ResolveApproval, SetRejected
    <3>4. CASE Reconcile(v) \/ Crash(v) \/ Exit(v)
      BY <3>4 DEF Reconcile, ListCommits, RepairJournal, CloseStaleApprovals, Crash, Exit
    <3>5. CASE GitFails(v)
      BY <3>5 DEF GitFails
    <3>6. QED
      BY <1>2, <3>2, <3>3, <3>4, <3>5 DEF Act
  <2>3. QED
    BY <1>2, <2>1, <2>2
<1>3. QED
  BY <1>1, <1>2, OneActs, Zenon

(* How a host comes to each of its steps, and how it leaves a commit.      *)
LEMMA Arrives ==
  ASSUME TypeOK, Next, NEW w \in Workers, pc'[w] # pc[w]
  PROVE  /\ pc'[w] = "lock" => Request(w)
         /\ pc'[w] = "check" => LockVault(w)
         /\ pc'[w] = "baseline" => ApplyChange(w)
         /\ pc'[w] = "write" => CommitBaseline(w)
         /\ pc'[w] = "unlink" => CommitBaseline(w) \/ DoArchive(w) \/ WriteNote(w)
         /\ pc'[w] = "commit" => ApplyCreate(w) \/ WriteNote(w) \/ UnlinkSource(w)
         /\ pc'[w] = "record" => CommitOp(w)
         /\ pc'[w] = "compensate" => RevertCommit(w)
         /\ pc[w] = "commit" => CommitOp(w) \/ left.crash > 0 \/ left.gitfail > 0
<1>0. pc \in [Workers -> Steps]
  BY DEF TypeOK
<1>1. Act(w)
  <2>1. PICK v \in Workers : Act(v) /\ \A u \in Workers \ {v} : pc'[u] = pc[u]
    BY OneActs
  <2>2. QED
    BY <2>1
<1>2. ASSUME NEW step, pc' = [pc EXCEPT ![w] = step] PROVE pc'[w] = step
  BY <1>0, <1>2
<1>3. CASE Request(w)
  <2>1. pc'[w] \in {"lock", "reject"} /\ pc[w] = "idle"
    BY <1>2, <1>3 DEF Request, Approve, Reject, Submit, FlipStatus, Undo, Start
  <2>2. QED
    BY <1>3, <2>1
<1>4. CASE LockVault(w) \/ LockTimeout(w) \/ ReleaseLock(w) \/ ResolveApproval(w) \/ SetRejected(w)
  <2>1. /\ pc'[w] \in {"check", "undo", "idle", "resolve"} /\ pc[w] # "commit"
        /\ pc'[w] = "check" => LockVault(w)
    BY <1>2, <1>4 DEF LockVault, LockTimeout, ReleaseLock, ResolveApproval, SetRejected
  <2>2. QED
    BY <2>1
<1>5. CASE ApplyCreate(w)
  <2>1. pc'[w] \in {"commit", "release"} /\ pc[w] = "check"
    BY <1>2, <1>5 DEF ApplyCreate, Goto, Finish
  <2>2. QED
    BY <1>5, <2>1
<1>6. CASE ApplyChange(w)
  <2>1. pc'[w] \in {"baseline", "release"} /\ pc[w] = "check"
    BY <1>2, <1>6 DEF ApplyChange, Goto, Finish
  <2>2. QED
    BY <1>6, <2>1
<1>7. CASE DoArchive(w)
  <2>1. pc'[w] \in {"unlink", "release"} /\ pc[w] = "check"
    BY <1>2, <1>7 DEF DoArchive, Goto, Finish
  <2>2. QED
    BY <1>7, <2>1
<1>8. CASE CommitBaseline(w)
  <2>1. pc'[w] \in {"unlink", "write", "release"} /\ pc[w] = "baseline"
    BY <1>2, <1>8 DEF CommitBaseline, Goto, Finish
  <2>2. QED
    BY <1>8, <2>1
<1>9. CASE WriteNote(w)
  <2>1. pc'[w] \in {"unlink", "commit"} /\ pc[w] = "write"
    BY <1>2, <1>9 DEF WriteNote, Goto, Finish
  <2>2. QED
    BY <1>9, <2>1
<1>10. CASE UnlinkSource(w)
  <2>1. pc'[w] \in {"release", "commit"} /\ pc[w] = "unlink"
    BY <1>2, <1>10 DEF UnlinkSource, Goto, Finish
  <2>2. QED
    BY <1>10, <2>1
<1>11. CASE CommitOp(w)
  <2>1. pc'[w] \in {"release", "record"} /\ pc[w] = "commit"
    BY <1>2, <1>11 DEF CommitOp, Goto, Finish
  <2>2. QED
    BY <1>11, <2>1
<1>12. CASE RecordTransaction(w) \/ UndoCheck(w) \/ RevertCommit(w) \/ CompensateJournal(w)
  <2>1. /\ pc'[w] \in {"release", "revert", "compensate"} /\ pc[w] # "commit"
        /\ pc'[w] = "compensate" => RevertCommit(w)
    BY <1>2, <1>12 DEF RecordTransaction, UndoCheck, RevertCommit, CompensateJournal, Goto, Finish
  <2>2. QED
    BY <2>1
<1>13. CASE Reconcile(w) \/ Exit(w)
  <2>1. pc'[w] \in {"repair", "close", "idle", "down"} /\ pc[w] # "commit"
    BY <1>2, <1>13 DEF Reconcile, ListCommits, RepairJournal, CloseStaleApprovals, Exit, Down
  <2>2. QED
    BY <2>1
<1>14. CASE GitFails(w) \/ Crash(w)
  <2>1. pc'[w] \in {"release", "down"} /\ (left.crash > 0 \/ left.gitfail > 0)
    BY <1>2, <1>14 DEF GitFails, Crash, Down, Finish
  <2>2. QED
    BY <2>1
<1>15. QED
  BY <1>1, <1>3, <1>4, <1>5, <1>6, <1>7, <1>8, <1>9, <1>10, <1>11, <1>12, <1>13, <1>14
  DEF Act, Serve

-----------------------------------------------------------------------------
(* What may be asked of the broker has the shape of an operation.          *)
LEMMA ShapesOffered ==
  ASSUME NEW op \in Proposals \cup Direct \cup StatusFlips
  PROVE  Shape(op) /\ (op \in Proposals => op.kind \notin {"archive", "create"})
BY OpsAssumption DEF Shape, Ops, Kinds

(* An operation keeps its shape while it is applied, and one made for an   *)
(* approval is the one that was approved.                                  *)
LEMMA OpStep ==
  ASSUME TypeOK, JobInv, HistoryInv, ApprovalInv, OpInv, Next
  PROVE  OpInv'
<1>0. pc \in [Workers -> Steps] /\ job \in [Workers -> JobType]
  BY DEF TypeOK
<1> SUFFICES ASSUME NEW w \in Workers, pc'[w] \in ApplySteps \cup {"lock"}, job'[w].target = 0
             PROVE  /\ Shape(job'[w].op)
                    /\ job'[w].apr # NoId => /\ job'[w].op = approvals'[job'[w].apr].op
                                             /\ ~job'[w].internal
                                             /\ job'[w].op.kind # "archive"
  BY DEF OpInv, Shape
<1>1. ASSUME job'[w] = job[w], pc[w] \in ApplySteps \cup {"lock"}
      PROVE  /\ Shape(job'[w].op)
             /\ job'[w].apr # NoId => /\ job'[w].op = approvals'[job'[w].apr].op
                                      /\ ~job'[w].internal
                                      /\ job'[w].op.kind # "archive"
  <2>1. /\ Shape(job[w].op)
        /\ job[w].apr # NoId => /\ job[w].op = approvals[job[w].apr].op
                                /\ ~job[w].internal /\ job[w].op.kind # "archive"
    BY <1>1 DEF OpInv
  <2>2. job[w].apr # NoId => job[w].apr \in Ids /\ Asked(job[w].apr)
    BY <1>0 DEF ApprovalInv, JobType
  <2>3. job[w].apr # NoId => approvals'[job[w].apr].op = approvals[job[w].apr].op
    BY <2>2, ApprovalsOnward
  <2>4. QED
    BY <1>1, <2>1, <2>3
<1>2. CASE pc'[w] = pc[w]
  <2>1. job'[w] = job[w]
    BY <1>2, OneActs, Zenon
  <2>2. QED
    BY <1>1, <1>2, <2>1
<1>3. CASE pc'[w] # pc[w] /\ pc'[w] = "lock"
  <2>1. Request(w)
    BY <1>3, Arrives
  <2>2. ASSUME NEW a \in Ids, Approve(w, a)
        PROVE  /\ job'[w].op = approvals[a].op /\ job'[w].apr = a /\ ~job'[w].internal
               /\ approvals' = approvals /\ approvals[a].op \in Proposals
    <3>1. Asked(a)
      BY <2>2 DEF Approve, Asked
    <3>2. QED
      BY <1>0, <2>2, <3>1 DEF Approve, Start, ApprovalInv, Idle
  <2>3. ASSUME NEW op \in Direct \cup StatusFlips, Submit(w, op) \/ FlipStatus(w, op)
        PROVE  job'[w].op = op /\ job'[w].apr = NoId
    <3>1. \/ job' = [job EXCEPT ![w] = [Idle EXCEPT !.op = op]]
          \/ job' = [job EXCEPT ![w] = [Idle EXCEPT !.op = op, !.internal = TRUE]]
      BY <2>3 DEF Submit, FlipStatus, Start
    <3>2. \/ job'[w] = [Idle EXCEPT !.op = op]
          \/ job'[w] = [Idle EXCEPT !.op = op, !.internal = TRUE]
      BY <1>0, <3>1
    <3>3. /\ [Idle EXCEPT !.op = op].op = op /\ [Idle EXCEPT !.op = op].apr = NoId
          /\ [Idle EXCEPT !.op = op, !.internal = TRUE].op = op
          /\ [Idle EXCEPT !.op = op, !.internal = TRUE].apr = NoId
      BY DEF Idle
    <3>4. QED
      BY <3>2, <3>3
  <2>4. ASSUME NEW a \in Ids, Reject(w, a) PROVE FALSE
    BY <1>0, <1>3, <2>4 DEF Reject, Start
  <2>5. ASSUME NEW r \in txns, Undo(w, r) PROVE FALSE
    <3>1. job'[w].target = r.commit
      BY <1>0, <2>5 DEF Undo, Start, Idle
    <3>2. QED
      BY <3>1 DEF HistoryInv
  <2>6. QED
    BY <2>1, <2>2, <2>3, <2>4, <2>5, ShapesOffered DEF Request
<1>4. CASE pc'[w] # pc[w] /\ pc'[w] # "lock"
  <2>1. pc'[w] \in ApplySteps
    BY <1>4
  <2>2. CASE DoArchive(w) /\ job' # job
    <3>1. /\ pc[w] = "check" /\ job[w].op.kind = "archive"
          /\ job' = [job EXCEPT ![w].op.expected = file[job[w].op.path]]
      BY <2>2, Zenon DEF DoArchive
    <3>2. ApplyJob(job[w]) /\ job[w].target = 0 /\ Shape(job[w].op) /\ job[w].apr = NoId
      BY <3>1 DEF JobInv, OpInv, ApplySteps
    <3>3. job[w] \in JobType /\ job[w].op \in Ops
      BY <1>0, <3>2 DEF ApplyJob
    <3>4. /\ job'[w].apr = job[w].apr
          /\ job'[w].op.kind = job[w].op.kind /\ job'[w].op.content = job[w].op.content
      BY <1>0, <3>1, <3>3 DEF JobType, Ops
    <3>5. QED
      BY <3>1, <3>2, <3>4 DEF Shape
  <2>3. CASE ~(DoArchive(w) /\ job' # job)
    <3>1. \/ LockVault(w) \/ ApplyChange(w) \/ CommitBaseline(w) \/ DoArchive(w) \/ WriteNote(w)
          \/ ApplyCreate(w) \/ UnlinkSource(w) \/ CommitOp(w)
      BY <1>4, <2>1, Arrives DEF ApplySteps
    <3>2. job' = job /\ pc[w] \in ApplySteps \cup {"lock"}
      BY <2>3, <3>1, Zenon DEF LockVault, ApplyChange, CommitBaseline, DoArchive, WriteNote, ApplyCreate,
         UnlinkSource, CommitOp, ApplySteps
    <3>3. QED
      BY <1>1, <3>2
  <2>4. QED
    BY <2>2, <2>3
<1>5. QED
  BY <1>2, <1>3, <1>4

(* The provenance a delete or a move was proposed against stays plain: an  *)
(* approval's operation never changes.                                     *)
LEMMA ProposedStep ==
  ASSUME TypeOK, ApprovalInv, JobInv, ProposedPlain, Next
  PROVE  ProposedPlain'
<1>0. approvals \in [Ids -> ApprovalType]
  BY DEF TypeOK
<1> SUFFICES ASSUME NEW a \in Ids, Asked(a)', approvals'[a].op.kind \in {"delete", "move"}
             PROVE  ProvenanceOf(approvals'[a].op.expected) = Plain
  BY DEF ProposedPlain, Asked, ProvenanceOf
<1>1. CASE Asked(a)
  BY <1>1, ApprovalsOnward DEF ProposedPlain
<1>2. CASE ~Asked(a)
  <2>1. ASSUME NEW b \in Ids, NEW op \in Proposals, Propose(b, op)
        PROVE  ProvenanceOf(approvals'[a].op.expected) = Plain
    <3>1. a = b /\ approvals'[a].op = op
      BY <1>0, <1>2, <2>1 DEF Propose, Asked
    <3>2. QED
      BY <2>1, <3>1 DEF Propose, ProposeEditGate, ProposeDeleteGate, ProposeMoveGate
  <2>2. CASE \A b \in Ids, op \in Proposals : ~Propose(b, op)
    <3>1. approvals'[a] = approvals[a]
      <4>1. ASSUME NEW w \in Workers, SetRejected(w) \/ ResolveApproval(w)
            PROVE  approvals'[a] = approvals[a]
        <5>1. job[w].apr \in Ids /\ Asked(job[w].apr)
          BY <4>1, ValueAssumption DEF JobInv, ApprovalInv, SetRejected, ResolveApproval
        <5>2. approvals' = approvals \/ \E s : approvals' = [approvals EXCEPT ![job[w].apr].state = s]
          BY <4>1, Zenon DEF SetRejected, ResolveApproval
        <5>3. QED
          BY <1>0, <1>2, <5>1, <5>2
      <4>2. ASSUME NEW w \in Workers, CloseStaleApprovals(w) PROVE approvals'[a] = approvals[a]
        <5>1. \A r \in txns : r.apr # a
          BY <1>2, ValueAssumption DEF ApprovalInv
        <5>2. QED
          BY <4>2, <5>1 DEF CloseStaleApprovals
      <4>3. ASSUME NEW w \in Workers, Request(w) PROVE approvals' = approvals
        BY <4>3 DEF Request, Approve, Reject, Submit, FlipStatus, Undo, Start
      <4>4. ASSUME NEW w \in Workers,
                   \/ LockVault(w) \/ LockTimeout(w) \/ ApplyCreate(w) \/ ApplyChange(w)
                   \/ DoArchive(w) \/ CommitBaseline(w) \/ WriteNote(w) \/ UnlinkSource(w)
                   \/ CommitOp(w) \/ RecordTransaction(w) \/ ReleaseLock(w) \/ UndoCheck(w)
                   \/ RevertCommit(w) \/ CompensateJournal(w) \/ GitFails(w) \/ Crash(w)
                   \/ Exit(w) \/ ListCommits(w) \/ RepairJournal(w)
            PROVE  approvals' = approvals
        BY <4>4, Zenon DEF LockVault, LockTimeout, ApplyCreate, ApplyChange, DoArchive, CommitBaseline,
           WriteNote, UnlinkSource, CommitOp, RecordTransaction, ReleaseLock, UndoCheck,
           RevertCommit, CompensateJournal, GitFails, Crash, Exit, ListCommits, RepairJournal
      <4>5. QED
        BY <2>2, <4>1, <4>2, <4>3, <4>4 DEF Next, Serve, Reconcile, HumanEdit
    <3>2. QED
      BY <1>2, <3>1 DEF Asked
  <2>3. QED
    BY <2>1, <2>2
<1>3. QED
  BY <1>1, <1>2

(* Past its gates, an approved operation keeps what its note declares: an  *)
(* edit because its gate compared, a delete or a move because its hash     *)
(* still is the one that was found plain when it was proposed.             *)
LEMMA VerdictStep ==
  ASSUME TypeOK, JobInv, ApprovalInv, OpInv, ProposedPlain, VerdictInv, Next
  PROVE  VerdictInv'
<1>0. /\ pc \in [Workers -> Steps] /\ job \in [Workers -> JobType]
      /\ ProvenanceOf(Absent) = Plain
  BY ValueAssumption DEF TypeOK, ProvenanceOf
<1> SUFFICES ASSUME NEW w \in Workers, pc'[w] \in ApplySteps \ {"check"}, job'[w].apr # NoId
             PROVE  ApprovalKeeps(job'[w].op.expected, After(job'[w].op), job'[w].op.kind)
  BY DEF VerdictInv, ApprovalKeeps, After, ProvenanceOf
<1>1. ASSUME job'[w] = job[w], pc[w] \in ApplySteps \ {"check"}
      PROVE  ApprovalKeeps(job'[w].op.expected, After(job'[w].op), job'[w].op.kind)
  BY <1>1 DEF VerdictInv
<1>2. ASSUME job'[w] = job[w], pc[w] = "check"
      PROVE  /\ job[w].op \in Proposals /\ Shape(job[w].op) /\ ~job[w].internal
             /\ job[w].op.kind \in {"delete", "move"} => ProvenanceOf(job[w].op.expected) = Plain
             /\ job[w].op.kind # "archive" /\ job[w].op.kind # "create"
  <2>1. /\ Shape(job[w].op) /\ ~job[w].internal /\ job[w].op.kind # "archive"
        /\ job[w].op = approvals[job[w].apr].op
    BY <1>2 DEF OpInv, JobInv, ApplySteps
  <2>2. job[w].apr \in Ids /\ Asked(job[w].apr)
    BY <1>0, <1>2 DEF ApprovalInv, JobType
  <2>3. job[w].op \in Proposals
    BY <2>1, <2>2 DEF ApprovalInv
  <2>4. QED
    BY <2>1, <2>2, <2>3, ShapesOffered DEF ProposedPlain
<1>3. CASE pc'[w] = pc[w]
  <2>1. job'[w] = job[w]
    BY <1>3, OneActs, Zenon
  <2>2. QED
    BY <1>1, <1>3, <2>1
<1>4. CASE pc'[w] # pc[w]
  <2>1. \/ ApplyChange(w) /\ pc'[w] = "baseline"
        \/ ApplyCreate(w) /\ pc'[w] = "commit"
        \/ DoArchive(w)
        \/ CommitBaseline(w) \/ WriteNote(w) \/ UnlinkSource(w) \/ CommitOp(w)
    BY <1>4, Arrives DEF ApplySteps
  <2>2. CASE CommitBaseline(w) \/ WriteNote(w) \/ UnlinkSource(w) \/ CommitOp(w)
    <3>1. job' = job /\ pc[w] \in ApplySteps \ {"check"}
      BY <2>2, Zenon DEF CommitBaseline, WriteNote, UnlinkSource, CommitOp, ApplySteps
    <3>2. QED
      BY <1>1, <3>1
  <2>3. CASE DoArchive(w)
    <3>1. pc[w] = "check" /\ job[w].op.kind = "archive"
      BY <2>3 DEF DoArchive
    <3>2. job[w].apr = NoId
      BY <3>1 DEF OpInv, JobInv, ApplySteps
    <3>3. job' = job \/ job' = [job EXCEPT ![w].op.expected = file[job[w].op.path]]
      BY <2>3, Zenon DEF DoArchive
    <3>4. job'[w].apr = job[w].apr
      BY <1>0, <3>3 DEF JobType
    <3>5. QED
      BY <3>2, <3>4
  <2>4. CASE ApplyCreate(w) /\ pc'[w] = "commit"
    <3>1. job' = job /\ pc[w] = "check" /\ job[w].op.kind \in {"create", "newfile"}
      BY <2>4 DEF ApplyCreate
    <3>2. job[w].op.kind = "newfile" /\ Shape(job[w].op)
      BY <1>2, <3>1
    <3>3. ~(pc' = [pc EXCEPT ![w] = "release"])
      BY <1>0, <2>4
    <3>4. NewFileVerdict(job[w].op, job[w]) = "ok"
      BY <2>4, <3>2, <3>3 DEF ApplyCreate, Finish
    <3>5. ProvenanceOf(job[w].op.content) = Plain
      BY <3>4 DEF NewFileVerdict
    <3>6. QED
      BY <1>0, <3>1, <3>2, <3>5 DEF ApprovalKeeps, After, Shape
  <2>5. CASE ApplyChange(w) /\ pc'[w] = "baseline"
    <3>1. job' = job /\ pc[w] = "check" /\ job[w].op.kind \in {"revise", "delete", "move"}
      BY <2>5 DEF ApplyChange
    <3>2. CASE job[w].op.kind \in {"delete", "move"}
      <4>1. ProvenanceOf(job[w].op.expected) = Plain
        BY <1>2, <3>1, <3>2
      <4>2. QED
        BY <1>0, <3>1, <3>2, <4>1 DEF ApprovalKeeps, After
    <3>3. CASE job[w].op.kind = "revise"
      <4>1. ~(pc' = [pc EXCEPT ![w] = "release"])
        BY <1>0, <2>5
      <4>2. ReviseVerdict(job[w].op, job[w]) = "ok"
        BY <2>5, <3>3, <4>1 DEF ApplyChange, Finish
      <4>3. ~job[w].internal
        BY <1>2, <3>1
      <4>4. ProvenanceOf(job[w].op.content) = ProvenanceOf(job[w].op.expected)
        BY <4>2, <4>3 DEF ReviseVerdict
      <4>5. QED
        BY <3>1, <3>3, <4>4 DEF ApprovalKeeps, After
    <3>4. QED
      BY <3>1, <3>2, <3>3
  <2>6. QED
    BY <2>1, <2>2, <2>3, <2>4, <2>5
<1>5. QED
  BY <1>3, <1>4

-----------------------------------------------------------------------------
(* The rows of a step: those there were, whatever their status, the row of *)
(* a host that records its operation, the mirror an undo adds, and what    *)
(* starting hosts repair.                                                  *)
SameRow(s, r) ==
  /\ s.commit = r.commit /\ s.by = r.by /\ s.op = r.op /\ s.path = r.path
  /\ s.before = r.before /\ s.after = r.after /\ s.apr = r.apr
RecordedRow(s, j) ==
  /\ s.commit = Len(log) /\ s.by = "broker" /\ s.op = j.op.kind /\ s.path = j.op.path
  /\ s.before = j.op.expected /\ s.apr = j.apr
  /\ s.after = IF j.op.kind = "move" THEN j.op.expected ELSE j.op.content
MirrorRow(s, r) ==
  /\ s.commit = Len(log) /\ s.by = "undo" /\ s.path = r.path
  /\ s.before = r.after /\ s.after = r.before /\ s.apr = NoId
LEMMA RowsAfter ==
  ASSUME TypeOK, JobInv, Next, NEW s \in txns'
  PROVE  \/ \E r \in txns : SameRow(s, r)
         \/ \E w \in Workers : pc[w] = "record" /\ RecordedRow(s, job[w])
         \/ \E w \in Workers : pc[w] = "compensate" /\ \E r \in Rows(job[w].target) : MirrorRow(s, r)
         \/ s.by = "reconcile" /\ s.before = s.after
<1>1. CASE txns' = txns
  BY <1>1 DEF SameRow
<1>2. ASSUME NEW w \in Workers, Request(w) PROVE txns' = txns
  BY <1>2 DEF Request, Approve, Reject, Submit, FlipStatus, Undo, Start
<1>3. ASSUME NEW w \in Workers,
             \/ LockVault(w) \/ LockTimeout(w) \/ ApplyCreate(w) \/ ApplyChange(w)
             \/ DoArchive(w) \/ CommitBaseline(w) \/ WriteNote(w) \/ UnlinkSource(w)
             \/ CommitOp(w) \/ ReleaseLock(w) \/ ResolveApproval(w) \/ SetRejected(w)
             \/ UndoCheck(w) \/ RevertCommit(w) \/ GitFails(w) \/ Crash(w) \/ Exit(w)
             \/ ListCommits(w) \/ CloseStaleApprovals(w)
      PROVE  txns' = txns
  BY <1>3, Zenon DEF LockVault, LockTimeout, ApplyCreate, ApplyChange, DoArchive, CommitBaseline,
     WriteNote, UnlinkSource, CommitOp, ReleaseLock, ResolveApproval, SetRejected, UndoCheck,
     RevertCommit, GitFails, Crash, Exit, ListCommits, CloseStaleApprovals
<1>4. ASSUME NEW w \in Workers, RecordTransaction(w)
      PROVE  s \in txns \/ (pc[w] = "record" /\ RecordedRow(s, job[w]))
  BY <1>4 DEF RecordTransaction, RecordedRow
<1>5. ASSUME NEW w \in Workers, CompensateJournal(w)
      PROVE  \/ \E r \in txns : SameRow(s, r)
             \/ pc[w] = "compensate" /\ \E r \in Rows(job[w].target) : MirrorRow(s, r)
  <2> DEFINE x == CHOOSE z \in Rows(job[w].target) : TRUE
             y == [x EXCEPT !.status = "reverted"]
             mirror == [x EXCEPT !.commit = Len(log), !.by = "undo", !.op = "revert",
                                 !.apr = NoId, !.before = x.after, !.after = x.before]
  <2>1. PICK q \in txns : q.commit = job[w].target
    BY <1>5 DEF JobInv, CompensateJournal, UndoSteps
  <2>2. x \in txns /\ x \in Rows(job[w].target) /\ x \in RowType
    BY <2>1 DEF Rows, TypeOK
  <2>3. SameRow(y, x)
    BY <2>2 DEF SameRow, RowType
  <2>4. MirrorRow(mirror, x)
    BY <2>2 DEF MirrorRow, RowType
  <2>5. txns' = (txns \ {x}) \cup {y, mirror} /\ pc[w] = "compensate"
    BY <1>5, Zenon DEF CompensateJournal
  <2> HIDE DEF x, y, mirror
  <2>6. s \in txns => SameRow(s, s)
    BY DEF SameRow
  <2>7. QED
    BY <2>2, <2>3, <2>4, <2>5, <2>6
<1>6. ASSUME NEW w \in Workers, RepairJournal(w)
      PROVE  s \in txns \/ (s.by = "reconcile" /\ s.before = s.after)
  BY <1>6 DEF RepairJournal, ReconciledRow
<1>7. s \in txns => SameRow(s, s)
  BY DEF SameRow
<1>8. QED
  BY <1>1, <1>2, <1>3, <1>4, <1>5, <1>6, <1>7 DEF Next, Serve, Reconcile, Propose, HumanEdit

(* The row of an approved operation says that its note kept what it        *)
(* declares.                                                               *)
LEMMA RowsKeepStep ==
  ASSUME TypeOK, JobInv, OpInv, VerdictInv, RowsKeep, Next
  PROVE  RowsKeep'
<1> DEFINE Kept(r) == /\ r.by = "broker" /\ r.apr # NoId => ApprovalKeeps(r.before, r.after, r.op)
                      /\ r.by = "reconcile" => r.before = r.after
<1> SUFFICES ASSUME NEW s \in txns' PROVE Kept(s)
  BY DEF RowsKeep, ApprovalKeeps, ProvenanceOf
<1>1. ASSUME NEW r \in txns, SameRow(s, r) PROVE Kept(s)
  BY <1>1 DEF RowsKeep, SameRow
<1>2. ASSUME NEW w \in Workers, pc[w] = "record", RecordedRow(s, job[w]), s.apr # NoId
      PROVE  ApprovalKeeps(s.before, s.after, s.op)
  <2>1. /\ ApprovalKeeps(job[w].op.expected, After(job[w].op), job[w].op.kind)
        /\ Shape(job[w].op) /\ job[w].op \in Ops
    BY <1>2 DEF VerdictInv, OpInv, JobInv, ApplyJob, ApplySteps, RecordedRow
  <2>2. CASE job[w].op.kind = "move"
    BY <1>2, <2>1, <2>2 DEF ApprovalKeeps, RecordedRow
  <2>3. CASE job[w].op.kind # "move"
    <3>1. job[w].op.content = After(job[w].op)
      BY <2>1, <2>3 DEF After, Shape, Ops, Kinds
    <3>2. QED
      BY <1>2, <2>1, <2>3, <3>1 DEF RecordedRow
  <2>4. QED
    BY <2>2, <2>3
<1>3. ASSUME NEW w \in Workers, pc[w] = "record", RecordedRow(s, job[w]) PROVE Kept(s)
  BY <1>2, <1>3 DEF RecordedRow
<1>4. ASSUME NEW r, MirrorRow(s, r) PROVE Kept(s)
  BY <1>4 DEF MirrorRow
<1>5. QED
  BY <1>1, <1>3, <1>4, RowsAfter

(* What holds whatever people, deaths and failures do.                     *)
LEMMA AlwaysStep ==
  ASSUME IInv, AlwaysInv, Next
  PROVE  AlwaysInv'
BY OpStep, ProposedStep, VerdictStep, RowsKeepStep, WorldKept DEF IInv, AlwaysInv

-----------------------------------------------------------------------------
(* Committed over a tree, the bytes of a note are HEAD's.                  *)
LEMMA HeadAfter ==
  ASSUME log \in Seq(CommitType), log # <<>>, NEW kind, NEW op, NEW apr, NEW tree,
         Committed(kind, op, apr, tree)
  PROVE  /\ Len(log') = Len(log) + 1 /\ HEAD' = tree
         /\ log'[Len(log)].tree = HEAD /\ log'[Len(log')].tree = tree
         /\ log'[Len(log')].kind = kind /\ log'[Len(log')].apr = apr
         /\ \A c \in 1..Len(log) : log'[c] = log[c]
BY HEADTyped DEF Committed, HEAD

(* The tree a ledger commit makes, and why it was accepted or refused.     *)
OpTree(op) == [p \in Paths |-> IF p \in {op.path, op.dest} THEN file[p] ELSE HEAD[p]]
LEMMA CommitOpCases ==
  ASSUME NEW w \in Workers, CommitOp(w)
  PROVE  /\ file' = file /\ job' = job /\ txns' = txns /\ approvals' = approvals
         /\ pc[w] = "commit"
         /\ \/ /\ Committed("ledger", job[w].op.kind, job[w].apr, OpTree(job[w].op))
               /\ OpTree(job[w].op) # HEAD
               /\ \A p \in {job[w].op.path, job[w].op.dest} : {file[p], HEAD[p]} # {Absent}
               /\ pc' = [pc EXCEPT ![w] = "record"]
            \/ /\ log' = log /\ pc' = [pc EXCEPT ![w] = "release"]
               /\ \/ OpTree(job[w].op) = HEAD
                  \/ \E p \in {job[w].op.path, job[w].op.dest} : {file[p], HEAD[p]} = {Absent}
<1> DEFINE paths == {job[w].op.path, job[w].op.dest}
           tree == [p \in Paths |-> IF p \in paths THEN file[p] ELSE HEAD[p]]
           accepted == tree # HEAD /\ \A p \in paths : {file[p], HEAD[p]} # {Absent}
<1>1. /\ pc[w] = "commit"
      /\ \/ /\ accepted
            /\ Committed("ledger", job[w].op.kind, job[w].apr, tree)
            /\ Goto(w, "record")
         \/ ~accepted /\ Finish(w, "error") /\ log' = log
      /\ UNCHANGED <<file, txns, approvals, lock, job, seen, left>>
  BY Zenon DEF CommitOp
<1>2. tree = OpTree(job[w].op)
  BY DEF OpTree
<1>3. QED
  BY <1>1, <1>2 DEF Goto, Finish

(* The host that holds the lock, unless it is about to commit, finds HEAD  *)
(* as the working tree but for notes git has never seen.                   *)
LEMMA Settled ==
  ASSUME LockInv, TreeInv, NEW w \in Workers, pc[w] \in Locked, pc[w] # "commit"
  PROVE  \A p \in Paths : HEAD[p] \in {Absent, file[p]}
BY DEF LockInv, TreeInv, Committing, Locked, ApplySteps

(* The operation of a host past the lock, and its notes.                   *)
LEMMA AppliedOp ==
  ASSUME JobInv, OpInv, NEW w \in Workers, pc[w] \in ApplySteps
  PROVE  /\ job[w].op \in Ops /\ job[w].op.kind \in Kinds
         /\ job[w].op.path \in Paths /\ job[w].op.dest \in Paths
         /\ Shape(job[w].op) /\ ApplyJob(job[w])
         /\ job[w].op.kind \in {"create", "newfile", "revise", "delete"}
              => job[w].op.dest = job[w].op.path
  <1>1. ApplyJob(job[w]) /\ Shape(job[w].op)
    BY DEF JobInv, OpInv
  <1>2. QED
    BY <1>1 DEF ApplyJob, Ops, Kinds

(* At each of its steps an operation finds the bytes it verified.          *)
LEMMA ReadyStep ==
  ASSUME IInv, IInv', OpInv, TreeInv, ReadyInv, Next,
         left.human = 0, left.crash = 0, left.gitfail = 0
  PROVE  ReadyInv'
<1>0. /\ TypeOK /\ LockInv /\ JobInv /\ HistoryInv /\ TypeOK'
      /\ pc \in [Workers -> Steps] /\ job \in [Workers -> JobType]
      /\ log \in Seq(CommitType) /\ log # <<>> /\ file \in Tree /\ HEAD \in Tree
      /\ Len(log) \in Nat \ {0}
  BY HEADTyped DEF IInv, TypeOK, HistoryInv
<1> SUFFICES ASSUME NEW w \in Workers
             PROVE  /\ pc'[w] = "baseline" => AtBaseline(job[w].op)'
                    /\ pc'[w] = "write" => AtWrite(job[w].op)'
                    /\ pc'[w] = "unlink" => AtUnlink(job[w].op)'
                    /\ pc'[w] = "commit" => AtCommit(job[w].op)'
                    /\ pc'[w] = "record" => AtRecord(job[w].op)'
  BY DEF ReadyInv
<1> DEFINE op == job[w].op
<1>1. CASE pc'[w] = pc[w]
  <2>1. CASE pc[w] \in ApplySteps
    <3>1. file' = file /\ log' = log /\ job'[w] = job[w]
      BY <1>0, <1>1, <2>1, OthersKeep DEF Locked
    <3>2. HEAD' = HEAD
      BY <3>1 DEF HEAD
    <3>3. QED
      BY <1>1, <3>1, <3>2 DEF ReadyInv, AtBaseline, AtWrite, AtUnlink, AtCommit, AtRecord,
         Source, InHEAD, TargetFree, TargetWritten, After
  <2>2. CASE pc[w] \notin ApplySteps
    BY <1>1, <2>2 DEF ApplySteps
  <2>3. QED
    BY <2>1, <2>2
<1>2. ASSUME pc'[w] # pc[w], pc'[w] = "baseline" PROVE AtBaseline(job[w].op)'
  <2>1. ApplyChange(w)
    BY <1>0, <1>2, Arrives
  <2>2. /\ pc[w] = "check" /\ op.kind \in {"revise", "delete", "move"}
        /\ job' = job /\ file' = file /\ log' = log
    BY <2>1 DEF ApplyChange
  <2>3. ~(pc' = [pc EXCEPT ![w] = "release"])
    BY <1>0, <1>2
  <2>4. Source(op) /\ TargetFree(op)
    <3>1. CASE op.kind = "revise"
      BY <2>1, <2>3, <3>1 DEF ApplyChange, Finish, ReviseVerdict, Source, TargetFree
    <3>2. CASE op.kind = "delete"
      BY <2>1, <2>3, <3>2 DEF ApplyChange, Finish, DeleteVerdict, SourceFound, Source, TargetFree
    <3>3. CASE op.kind = "move"
      BY <2>1, <2>3, <3>3 DEF ApplyChange, Finish, MoveVerdict, DeleteVerdict, SourceFound, Source,
         TargetFree
    <3>4. QED
      BY <2>2, <3>1, <3>2, <3>3
  <2>5. QED
    BY <2>2, <2>4 DEF AtBaseline, Source, TargetFree
<1>3. ASSUME CommitBaseline(w), pc'[w] # "release"
      PROVE  /\ job' = job /\ file' = file /\ AtBaseline(op)
             /\ pc'[w] = IF op.kind = "delete" THEN "unlink" ELSE "write"
             /\ HEAD'[op.path] = op.expected
             /\ \A p \in Paths \ {op.path} : HEAD'[p] = HEAD[p]
  <2>1. /\ job' = job /\ file' = file /\ pc[w] = "baseline"
        /\ pc' = [pc EXCEPT ![w] = IF op.kind = "delete" THEN "unlink" ELSE "write"]
        /\ \/ HEAD[op.path] # Absent /\ log' = log
           \/ Committed("baseline", "none", NoId, [HEAD EXCEPT ![op.path] = file[op.path]])
    <3>1. ~(pc' = [pc EXCEPT ![w] = "release"])
      BY <1>0, <1>3
    <3>2. QED
      BY <1>3, <3>1, Zenon DEF CommitBaseline, Goto, Finish
  <2>2. AtBaseline(op) /\ op.path \in Paths /\ HEAD[op.path] \in {Absent, file[op.path]}
    BY <1>0, <2>1, AppliedOp, Settled DEF ReadyInv, Locked, ApplySteps
  <2>3. file[op.path] = op.expected
    BY <2>2 DEF AtBaseline, Source
  <2>4. CASE HEAD[op.path] # Absent /\ log' = log
    BY <1>0, <2>1, <2>2, <2>3, <2>4 DEF HEAD
  <2>5. CASE Committed("baseline", "none", NoId, [HEAD EXCEPT ![op.path] = file[op.path]])
    <3>1. HEAD' = [HEAD EXCEPT ![op.path] = file[op.path]]
      BY <1>0, <2>5, HeadAfter
    <3>2. QED
      BY <1>0, <2>1, <2>2, <2>3, <3>1 DEF Tree
  <2>6. QED
    BY <2>1, <2>4, <2>5
<1>4. ASSUME pc'[w] # pc[w], pc'[w] = "write" PROVE AtWrite(job[w].op)'
  <2>1. CommitBaseline(w)
    BY <1>0, <1>4, Arrives
  <2>2. /\ job' = job /\ file' = file /\ AtBaseline(op) /\ op.kind # "delete"
        /\ HEAD'[op.path] = op.expected
    BY <1>3, <1>4, <2>1
  <2>3. QED
    BY <2>2 DEF AtBaseline, AtWrite, Source, InHEAD, TargetFree
<1>5. ASSUME WriteNote(w)
      PROVE  /\ AtWrite(op) /\ job' = job /\ log' = log /\ HEAD' = HEAD /\ Shape(op)
             /\ op.path \in Paths /\ op.dest \in Paths
             /\ \/ /\ op.kind = "revise" /\ file' = [file EXCEPT ![op.path] = op.content]
                   /\ pc'[w] = "commit"
                \/ /\ op.kind = "move" /\ file' = [file EXCEPT ![op.dest] = op.expected]
                   /\ op.dest # op.path /\ HEAD[op.dest] = Absent /\ pc'[w] = "unlink"
  <2>1. /\ pc[w] = "write" /\ job' = job /\ log' = log
        /\ \/ /\ op.kind = "revise" /\ file' = [file EXCEPT ![op.path] = op.content]
              /\ pc' = [pc EXCEPT ![w] = "commit"]
           \/ /\ op.kind = "move" /\ file' = [file EXCEPT ![op.dest] = op.expected]
              /\ pc' = [pc EXCEPT ![w] = "unlink"]
    BY <1>5 DEF WriteNote, Goto
  <2>2. /\ AtWrite(op) /\ op.path \in Paths /\ op.dest \in Paths /\ Shape(op)
        /\ HEAD[op.dest] \in {Absent, file[op.dest]}
    BY <1>0, <2>1, AppliedOp, Settled DEF ReadyInv, Locked, ApplySteps
  <2>3. op.kind = "move" => op.dest # op.path /\ HEAD[op.dest] = Absent
    BY <2>2 DEF AtWrite, TargetFree
  <2>4. HEAD' = HEAD
    BY <2>1 DEF HEAD
  <2>5. QED
    BY <1>0, <2>1, <2>2, <2>3, <2>4
<1>6. ASSUME DoArchive(w), pc'[w] = "unlink" PROVE AtUnlink(job[w].op)'
  <2>1. ~(pc' = [pc EXCEPT ![w] = "release"])
    BY <1>0, <1>6
  <2>2. /\ pc[w] = "check" /\ op.kind = "archive" /\ log' = log
        /\ ArchiveVerdict(op) = "ok"
        /\ file' = [file EXCEPT ![op.dest] = file[op.path]]
        /\ job' = [job EXCEPT ![w].op.expected = file[op.path]]
    BY <1>6, <2>1, Zenon DEF DoArchive, Finish
  <2>3. /\ op \in Ops /\ op.path \in Paths /\ op.dest \in Paths /\ job[w] \in JobType
        /\ \A p \in Paths : HEAD[p] \in {Absent, file[p]}
    BY <1>0, <2>2, AppliedOp, Settled DEF Locked, ApplySteps
  <2>4. file[op.path] # Absent /\ file[op.dest] = Absent
    BY <2>2 DEF ArchiveVerdict
  <2>5. op.dest # op.path /\ HEAD[op.dest] = Absent
    BY <2>3, <2>4
  <2>6. /\ job'[w].op.kind = "archive" /\ job'[w].op.expected = file[op.path]
        /\ job'[w].op.path = op.path /\ job'[w].op.dest = op.dest
    BY <1>0, <2>2, <2>3 DEF JobType, Ops
  <2>7. file'[op.path] = file[op.path] /\ file'[op.dest] = file[op.path] /\ HEAD' = HEAD
    BY <1>0, <2>2, <2>3, <2>5 DEF Tree, HEAD
  <2>8. QED
    BY <2>3, <2>4, <2>5, <2>6, <2>7 DEF AtUnlink, Source, InHEAD, TargetWritten
<1>7. ASSUME pc'[w] # pc[w], pc'[w] = "unlink" PROVE AtUnlink(job[w].op)'
  <2>1. CommitBaseline(w) \/ DoArchive(w) \/ WriteNote(w)
    BY <1>0, <1>7, Arrives
  <2>2. CASE CommitBaseline(w)
    <3>1. /\ job' = job /\ file' = file /\ AtBaseline(op) /\ op.kind = "delete"
          /\ HEAD'[op.path] = op.expected
      BY <1>3, <1>7, <2>2
    <3>2. QED
      BY <3>1 DEF AtBaseline, AtUnlink, Source, InHEAD, TargetWritten
  <2>3. CASE WriteNote(w)
    <3>1. /\ AtWrite(op) /\ job' = job /\ HEAD' = HEAD /\ op.kind = "move"
          /\ op.path \in Paths /\ op.dest \in Paths /\ op.dest # op.path /\ HEAD[op.dest] = Absent
          /\ file' = [file EXCEPT ![op.dest] = op.expected]
      BY <1>5, <1>7, <2>3
    <3>2. file'[op.path] = file[op.path] /\ file'[op.dest] = op.expected
      BY <1>0, <3>1 DEF Tree
    <3>3. QED
      BY <3>1, <3>2 DEF AtWrite, AtUnlink, Source, InHEAD, TargetWritten
  <2>4. QED
    BY <1>6, <1>7, <2>1, <2>2, <2>3
<1>8. ASSUME ApplyCreate(w), pc'[w] = "commit" PROVE AtCommit(job[w].op)'
  <2>1. ~(pc' = [pc EXCEPT ![w] = "release"])
    BY <1>0, <1>8
  <2>2. /\ pc[w] = "check" /\ op.kind \in {"create", "newfile"} /\ log' = log /\ job' = job
        /\ file' = [file EXCEPT ![op.path] = op.content] /\ file[op.path] = Absent
    BY <1>8, <2>1 DEF ApplyCreate, Finish, CreateVerdict, NewFileVerdict
  <2>3. /\ op.path \in Paths /\ Shape(op) /\ HEAD[op.path] \in {Absent, file[op.path]}
    BY <1>0, <2>2, AppliedOp, Settled DEF Locked, ApplySteps
  <2>4. HEAD' = HEAD /\ HEAD[op.path] = op.expected /\ file'[op.path] = op.content
    BY <1>0, <2>2, <2>3 DEF Tree, HEAD, Shape
  <2>5. QED
    BY <2>2, <2>4 DEF AtCommit, InHEAD, TargetWritten, After
<1>9. ASSUME UnlinkSource(w), pc'[w] = "commit" PROVE AtCommit(job[w].op)'
  <2>1. ~(pc' = [pc EXCEPT ![w] = "release"])
    BY <1>0, <1>9
  <2>2. /\ pc[w] = "unlink" /\ log' = log /\ job' = job /\ file' = [file EXCEPT ![op.path] = Absent]
    BY <1>9, <2>1 DEF UnlinkSource, Finish
  <2>3. AtUnlink(op) /\ op.path \in Paths /\ op.dest \in Paths /\ HEAD' = HEAD
    BY <1>0, <2>2, AppliedOp DEF ReadyInv, ApplySteps, HEAD
  <2>4. file'[op.path] = Absent /\ (op.dest # op.path => file'[op.dest] = file[op.dest])
    BY <1>0, <2>2, <2>3 DEF Tree
  <2>5. QED
    BY <2>2, <2>3, <2>4 DEF AtUnlink, AtCommit, Source, InHEAD, TargetWritten, After
<1>10. ASSUME pc'[w] # pc[w], pc'[w] = "commit" PROVE AtCommit(job[w].op)'
  <2>1. ApplyCreate(w) \/ WriteNote(w) \/ UnlinkSource(w)
    BY <1>0, <1>10, Arrives
  <2>2. CASE WriteNote(w)
    <3>1. /\ AtWrite(op) /\ job' = job /\ HEAD' = HEAD /\ op.kind = "revise" /\ op.path \in Paths
          /\ file' = [file EXCEPT ![op.path] = op.content]
      BY <1>5, <1>10, <2>2
    <3>2. file'[op.path] = op.content
      BY <1>0, <3>1 DEF Tree
    <3>3. QED
      BY <3>1, <3>2 DEF AtWrite, AtCommit, Source, InHEAD, TargetWritten, After
  <2>3. QED
    BY <1>8, <1>9, <1>10, <2>1, <2>2
<1>11. ASSUME pc'[w] # pc[w], pc'[w] = "record" PROVE AtRecord(job[w].op)'
  <2>1. CommitOp(w)
    BY <1>0, <1>11, Arrives
  <2>2. ~(pc' = [pc EXCEPT ![w] = "release"])
    BY <1>0, <1>11
  <2>3. /\ pc[w] = "commit" /\ job' = job
        /\ Committed("ledger", op.kind, job[w].apr, OpTree(op))
        /\ \A p \in {op.path, op.dest} : {file[p], HEAD[p]} # {Absent}
    BY <2>1, <2>2, CommitOpCases
  <2>4. /\ Len(log') = Len(log) + 1 /\ log'[Len(log)].tree = HEAD
        /\ log'[Len(log')].tree = OpTree(op)
    BY <1>0, <2>3, HeadAfter
  <2>5. AtCommit(op) /\ op.path \in Paths
    BY <1>0, <2>3, AppliedOp DEF ReadyInv, ApplySteps
  <2>6. HEAD[op.path] = op.expected
    BY <2>3, <2>5 DEF AtCommit, InHEAD, After
  <2>7. log'[Len(log') - 1].tree = HEAD
    BY <1>0, <2>4
  <2>8. OpTree(op)[op.path] = After(op)
    BY <2>5 DEF OpTree, AtCommit
  <2>9. QED
    BY <2>3, <2>4, <2>6, <2>7, <2>8 DEF AtRecord, After
<1>12. QED
  BY <1>1, <1>2, <1>4, <1>7, <1>10, <1>11

(* Which steps change the working tree or the history.                     *)
LEMMA Writers ==
  ASSUME Next, TypeOK, left.human = 0
  PROVE  \/ file' = file /\ log' = log
         \/ \E w \in Workers : \/ ApplyCreate(w) \/ DoArchive(w) \/ CommitBaseline(w) \/ WriteNote(w)
                               \/ UnlinkSource(w) \/ CommitOp(w) \/ RevertCommit(w)
<1>1. ASSUME NEW w \in Workers,
             \/ LockVault(w) \/ LockTimeout(w) \/ ApplyChange(w) \/ RecordTransaction(w)
             \/ ReleaseLock(w) \/ ResolveApproval(w) \/ SetRejected(w) \/ UndoCheck(w)
             \/ CompensateJournal(w) \/ GitFails(w) \/ Crash(w) \/ Exit(w) \/ Reconcile(w)
      PROVE  file' = file /\ log' = log
  BY <1>1, Zenon DEF LockVault, LockTimeout, ApplyChange, RecordTransaction, ReleaseLock,
     ResolveApproval, SetRejected, UndoCheck, CompensateJournal, GitFails, Crash, Exit,
     Reconcile, ListCommits, RepairJournal, CloseStaleApprovals
<1>2. ASSUME NEW w \in Workers, Request(w) PROVE file' = file /\ log' = log
  BY <1>2 DEF Request, Approve, Reject, Submit, FlipStatus, Undo, Start
<1>3. ASSUME NEW p \in Paths, NEW c \in HumanContents, HumanEdit(p, c) PROVE FALSE
  BY <1>3 DEF HumanEdit
<1>4. ASSUME NEW a \in Ids, NEW op \in Proposals, Propose(a, op)
      PROVE  file' = file /\ log' = log
  BY <1>4 DEF Propose
<1>5. QED
  BY <1>1, <1>2, <1>3, <1>4, Zenon DEF Next, Serve

(* HEAD stays what the working tree holds, but for notes git has never     *)
(* seen and the note of the host about to commit.                          *)
LEMMA TreeStep ==
  ASSUME IInv, IInv', OpInv, TreeInv, ReadyInv, Next,
         left.human = 0, left.crash = 0, left.gitfail = 0
  PROVE  TreeInv'
<1>0. /\ TypeOK /\ LockInv /\ JobInv /\ HistoryInv
      /\ pc \in [Workers -> Steps] /\ job \in [Workers -> JobType]
      /\ log \in Seq(CommitType) /\ log # <<>> /\ file \in Tree /\ HEAD \in Tree
      /\ Len(log) \in Nat \ {0}
  BY HEADTyped DEF IInv, TypeOK, HistoryInv
<1> SUFFICES ASSUME NEW p \in Paths PROVE HEAD'[p] \in {Absent, file'[p]} \/ Committing(p)'
  BY DEF TreeInv
<1>1. ASSUME NEW w \in Workers, pc[w] = "commit", job[w].op.path = p, log' = log, file' = file
      PROVE  HEAD'[p] \in {Absent, file'[p]} \/ Committing(p)'
  <2>0. HEAD' = HEAD
    BY <1>1 DEF HEAD
  <2>1. CASE pc'[w] = pc[w]
    <3>1. job'[w] = job[w]
      BY <1>0, <2>1, OthersKeep
    <3>2. QED
      BY <1>1, <2>1, <3>1 DEF Committing
  <2>2. CASE pc'[w] # pc[w]
    <3>1. CommitOp(w)
      BY <1>0, <1>1, <2>2, Arrives
    <3>2. ~Committed("ledger", job[w].op.kind, job[w].apr, OpTree(job[w].op))
      BY <1>0, <1>1, HeadAfter
    <3>3. \/ OpTree(job[w].op) = HEAD
          \/ \E q \in {job[w].op.path, job[w].op.dest} : {file[q], HEAD[q]} = {Absent}
      BY <3>1, <3>2, CommitOpCases
    <3>4. AtCommit(job[w].op)
      BY <1>1 DEF ReadyInv
    <3>5. CASE OpTree(job[w].op) = HEAD
      BY <1>1, <2>0, <3>5 DEF OpTree
    <3>6. CASE {file[p], HEAD[p]} = {Absent}
      BY <2>0, <3>6
    <3>7. CASE job[w].op.dest # p /\ {file[job[w].op.dest], HEAD[job[w].op.dest]} = {Absent}
      <4>1. job[w].op.kind \in {"move", "archive"}
        BY <1>0, <1>1, <3>7, AppliedOp DEF ApplySteps, Kinds
      <4>2. file[job[w].op.dest] # Absent
        BY <3>4, <4>1 DEF AtCommit, TargetWritten
      <4>3. QED
        BY <3>7, <4>2
    <3>8. QED
      BY <1>1, <3>3, <3>5, <3>6, <3>7
  <2>3. QED
    BY <2>1, <2>2
<1>2. CASE file' = file /\ log' = log
  <2>1. CASE Committing(p)
    BY <1>1, <1>2, <2>1 DEF Committing
  <2>2. CASE HEAD[p] \in {Absent, file[p]}
    BY <1>2, <2>2 DEF HEAD
  <2>3. QED
    BY <2>1, <2>2 DEF TreeInv
<1>3. ASSUME NEW w \in Workers, pc[w] \in ApplySteps \ {"commit"}
      PROVE  /\ job[w].op \in Ops /\ job[w].op.path \in Paths /\ job[w].op.dest \in Paths
             /\ \A q \in Paths : HEAD[q] \in {Absent, file[q]}
  BY <1>0, <1>3, AppliedOp, Settled DEF Locked
<1>4. ASSUME NEW w \in Workers, pc[w] \in ApplySteps \ {"commit"}, job' = job,
             pc' = [pc EXCEPT ![w] = "commit"], log' = log,
             NEW c, file' = [file EXCEPT ![job[w].op.path] = c]
      PROVE  HEAD'[p] \in {Absent, file'[p]} \/ Committing(p)'
  <2>1. CASE job[w].op.path = p
    BY <1>0, <1>4, <2>1 DEF Committing
  <2>2. CASE job[w].op.path # p
    BY <1>0, <1>3, <1>4, <2>2 DEF HEAD, Tree
  <2>3. QED
    BY <2>1, <2>2
<1>5. ASSUME NEW w \in Workers, pc[w] \in ApplySteps \ {"commit"}, log' = log,
             NEW c, file' = [file EXCEPT ![job[w].op.dest] = c], file[job[w].op.dest] = Absent
      PROVE  HEAD'[p] \in {Absent, file'[p]}
  BY <1>0, <1>3, <1>5 DEF HEAD, Tree
<1>6. ASSUME NEW w \in Workers, ApplyCreate(w), ~(file' = file /\ log' = log)
      PROVE  HEAD'[p] \in {Absent, file'[p]} \/ Committing(p)'
  BY <1>4, <1>6 DEF ApplyCreate, Goto, ApplySteps
<1>7. ASSUME NEW w \in Workers, DoArchive(w), ~(file' = file /\ log' = log)
      PROVE  HEAD'[p] \in {Absent, file'[p]}
  BY <1>5, <1>7, Zenon DEF DoArchive, ArchiveVerdict, ApplySteps
<1>8. ASSUME NEW w \in Workers, CommitBaseline(w), ~(file' = file /\ log' = log)
      PROVE  HEAD'[p] \in {Absent, file'[p]}
  <2>1. /\ pc[w] = "baseline" /\ file' = file
        /\ Committed("baseline", "none", NoId, [HEAD EXCEPT ![job[w].op.path] = file[job[w].op.path]])
    BY <1>8, Zenon DEF CommitBaseline
  <2>2. HEAD' = [HEAD EXCEPT ![job[w].op.path] = file[job[w].op.path]]
    BY <1>0, <2>1, HeadAfter
  <2>3. QED
    BY <1>0, <1>3, <2>1, <2>2 DEF Tree, ApplySteps
<1>9. ASSUME NEW w \in Workers, WriteNote(w)
      PROVE  HEAD'[p] \in {Absent, file'[p]} \/ Committing(p)'
  <2>1. AtWrite(job[w].op) /\ pc[w] \in ApplySteps \ {"commit"}
    BY <1>9 DEF WriteNote, ReadyInv, ApplySteps
  <2>2. CASE job[w].op.kind = "revise"
    BY <1>4, <1>9, <2>1, <2>2 DEF WriteNote, Goto
  <2>3. CASE job[w].op.kind = "move"
    <3>1. file[job[w].op.dest] = Absent
      BY <2>1, <2>3 DEF AtWrite, TargetFree
    <3>2. QED
      BY <1>5, <1>9, <2>1, <2>3, <3>1 DEF WriteNote
  <2>4. QED
    BY <2>1, <2>2, <2>3 DEF AtWrite
<1>10. ASSUME NEW w \in Workers, UnlinkSource(w), ~(file' = file /\ log' = log)
       PROVE  HEAD'[p] \in {Absent, file'[p]} \/ Committing(p)'
  BY <1>4, <1>10 DEF UnlinkSource, Goto, ApplySteps
<1>11. ASSUME NEW w \in Workers, CommitOp(w), ~(file' = file /\ log' = log)
       PROVE  HEAD'[p] \in {Absent, file'[p]}
  <2>1. /\ pc[w] = "commit" /\ file' = file
        /\ Committed("ledger", job[w].op.kind, job[w].apr, OpTree(job[w].op))
    BY <1>11, CommitOpCases
  <2>2. HEAD' = OpTree(job[w].op)
    BY <1>0, <2>1, HeadAfter
  <2>3. p # job[w].op.path => HEAD[p] \in {Absent, file[p]}
    BY <1>0, <2>1 DEF TreeInv, Committing, LockInv, Locked, ApplySteps
  <2>4. QED
    BY <2>1, <2>2, <2>3 DEF OpTree
<1>12. ASSUME NEW w \in Workers, RevertCommit(w), ~(file' = file /\ log' = log)
       PROVE  HEAD'[p] \in {Absent, file'[p]}
  <2>1. pc[w] = "revert" /\ job[w].target \in 2..Len(log)
    BY <1>0, <1>12 DEF RevertCommit, JobInv, HistoryInv, UndoSteps
  <2>2. PICK t \in RevertTrees(job[w].target) :
          /\ Committed("revert", "none", NoId, t)
          /\ file' = [q \in Paths |-> IF t[q] # HEAD[q] THEN t[q] ELSE file[q]]
    BY <1>12, Zenon DEF RevertCommit
  <2>3. HEAD' = t
    BY <1>0, <2>2, HeadAfter
  <2>4. HEAD[p] \in {Absent, file[p]}
    BY <1>0, <2>1, Settled DEF Locked, UndoSteps
  <2>5. QED
    BY <2>2, <2>3, <2>4
<1>13. QED
  BY <1>0, <1>2, <1>6, <1>7, <1>8, <1>9, <1>10, <1>11, <1>12, Writers

(* A commit made for an approval replaces what was approved, in the note   *)
(* it was approved for, and moves no governed note.                        *)
LEMMA AppliedStep ==
  ASSUME IInv, IInv', AlwaysInv, TreeInv, ReadyInv, AppliedInv, Next
  PROVE  AppliedInv'
<1>0. /\ TypeOK /\ TypeOK' /\ LockInv /\ JobInv /\ HistoryInv /\ ApprovalInv
      /\ pc \in [Workers -> Steps] /\ job \in [Workers -> JobType]
      /\ log \in Seq(CommitType) /\ log # <<>> /\ file \in Tree /\ HEAD \in Tree
      /\ Len(log) \in Nat \ {0} /\ OpInv /\ VerdictInv /\ ProposedPlain
  BY HEADTyped DEF IInv, TypeOK, HistoryInv, AlwaysInv
<1>1. /\ Len(log') \in Nat
      /\ Len(log') = Len(log) \/ Len(log') = Len(log) + 1
      /\ \A c \in 1..Len(log) : log'[c] = log[c]
      /\ log[1].kind = "initial"
  BY <1>0, HistoryKept DEF HistoryInv
<1> SUFFICES ASSUME NEW c \in 1..Len(log'), log'[c].kind = "ledger", log'[c].apr # NoId
             PROVE  /\ log'[c].apr \in Ids /\ approvals'[log'[c].apr].state # "unused"
                    /\ log'[c - 1].tree[approvals'[log'[c].apr].op.path]
                         = approvals'[log'[c].apr].op.expected
                    /\ log'[c].tree[approvals'[log'[c].apr].op.path]
                         # approvals'[log'[c].apr].op.expected
                    /\ \A p \in Paths : ProvenanceOf(log'[c].tree[p]) = ProvenanceOf(log'[c - 1].tree[p])
  BY DEF AppliedInv, LedgerCommits, ProvenanceOf, Asked
<1>2. CASE c \in 1..Len(log)
  <2>1. c \in LedgerCommits /\ log'[c] = log[c] /\ c # 1
    BY <1>1, <1>2 DEF LedgerCommits
  <2>2. c - 1 \in 1..Len(log) /\ log'[c - 1] = log[c - 1]
    BY <1>0, <1>1, <1>2, <2>1
  <2>3. /\ log[c].apr \in Ids /\ Asked(log[c].apr)
        /\ log[c - 1].tree[approvals[log[c].apr].op.path] = approvals[log[c].apr].op.expected
        /\ log[c].tree[approvals[log[c].apr].op.path] # approvals[log[c].apr].op.expected
        /\ \A p \in Paths : ProvenanceOf(log[c].tree[p]) = ProvenanceOf(log[c - 1].tree[p])
    BY <2>1 DEF AppliedInv
  <2>4. Asked(log[c].apr)' /\ approvals'[log[c].apr].op = approvals[log[c].apr].op
    <3>1. \A a \in Ids : Asked(a) => Asked(a)' /\ approvals'[a].op = approvals[a].op
      BY <1>0, ApprovalsOnward
    <3>2. QED
      BY <2>1, <2>3, <3>1 DEF Asked
  <2>5. QED
    BY <2>1, <2>2, <2>3, <2>4 DEF Asked
<1>3. CASE c = Len(log) + 1
  <2>1. PICK w \in Workers : CommitOp(w) /\ log' # log
    <3>1. log' # log
      BY <1>0, <1>1, <1>3
    <3>2. ASSUME NEW kind, NEW tree, Committed(kind, "none", NoId, tree) PROVE FALSE
      <4>1. log'[Len(log')].apr = NoId /\ Len(log') = Len(log) + 1
        BY <1>0, <3>2, HeadAfter
      <4>2. QED
        BY <1>3, <4>1
    <3>3. PICK w \in Workers : pc[w] = "commit" /\ pc'[w] = "record"
      BY <3>1, <3>2, <1>0, NewCommit
    <3>4. CommitOp(w)
      BY <1>0, <3>3, Arrives
    <3>5. QED
      BY <3>1, <3>4
  <2> DEFINE op == job[w].op
             a == job[w].apr
  <2>2. /\ pc[w] = "commit" /\ approvals' = approvals
        /\ Committed("ledger", op.kind, a, OpTree(op)) /\ OpTree(op) # HEAD
        /\ \A p \in {op.path, op.dest} : {file[p], HEAD[p]} # {Absent}
    BY <2>1, CommitOpCases
  <2>3. /\ log'[c].apr = a /\ log'[c].tree = OpTree(op) /\ log'[c - 1].tree = HEAD
    BY <1>0, <1>3, <2>2, HeadAfter
  <2>4. /\ a # NoId /\ a \in Ids /\ Asked(a) /\ op = approvals[a].op
        /\ op.kind # "archive" /\ op.kind # "create"
        /\ op.kind \in {"delete", "move"} => ProvenanceOf(op.expected) = Plain
    <3>1. a # NoId /\ a \in Ids /\ Asked(a)
      BY <1>0, <2>3 DEF ApprovalInv, JobType
    <3>2. op = approvals[a].op /\ op.kind # "archive"
      BY <1>0, <2>2, <3>1 DEF OpInv, JobInv, ApplySteps
    <3>3. op \in Proposals
      BY <1>0, <3>1, <3>2 DEF ApprovalInv
    <3>4. QED
      BY <1>0, <3>1, <3>2, <3>3, ShapesOffered DEF ProposedPlain
  <2>5. /\ AtCommit(op) /\ op.path \in Paths /\ op.dest \in Paths /\ Shape(op)
        /\ op.kind \in Kinds
        /\ op.kind # "move" => op.dest = op.path
        /\ ApprovalKeeps(op.expected, After(op), op.kind)
    BY <1>0, <2>2, <2>4, AppliedOp, Zenon DEF ReadyInv, VerdictInv, ApplySteps, Kinds
  <2>6. HEAD[op.path] = op.expected /\ OpTree(op)[op.path] = After(op)
    BY <2>4, <2>5, Zenon DEF AtCommit, InHEAD, OpTree
  <2>7. After(op) # op.expected
    <3>1. CASE op.kind = "newfile"
      BY <2>5, <3>1 DEF Shape, After
    <3>2. CASE op.kind \in {"delete", "move"}
      BY <2>5, <3>2 DEF AtCommit, After
    <3>3. CASE op.kind = "revise"
      <4>1. op.dest = op.path
        BY <2>5, <3>3
      <4>2. ASSUME After(op) = op.expected PROVE FALSE
        <5>1. \A p \in Paths : OpTree(op)[p] = HEAD[p]
          BY <2>5, <2>6, <4>1, <4>2 DEF OpTree
        <5>2. OpTree(op) = HEAD
          BY <1>0, <5>1 DEF OpTree, Tree
        <5>3. QED
          BY <2>2, <5>2
      <4>3. QED
        BY <4>2
    <3>4. QED
      BY <2>4, <2>5, <3>1, <3>2, <3>3 DEF Kinds
  <2>8. ASSUME NEW p \in Paths PROVE ProvenanceOf(OpTree(op)[p]) = ProvenanceOf(HEAD[p])
    <3>1. CASE p = op.path
      BY <2>5, <2>6, <3>1 DEF ApprovalKeeps
    <3>2. CASE p = op.dest /\ p # op.path
      <4>1. op.kind = "move"
        BY <2>5, <3>2
      <4>2. OpTree(op)[p] = op.expected /\ HEAD[p] = Absent
        BY <2>5, <3>2, <4>1 DEF AtCommit, TargetWritten, OpTree
      <4>3. ProvenanceOf(Absent) = Plain
        BY ValueAssumption DEF ProvenanceOf
      <4>4. QED
        BY <2>4, <4>1, <4>2, <4>3
    <3>3. CASE p \notin {op.path, op.dest}
      BY <3>3 DEF OpTree
    <3>4. QED
      BY <3>1, <3>2, <3>3
  <2>9. QED
    BY <2>2, <2>3, <2>4, <2>6, <2>7, <2>8, Zenon DEF Asked
<1>4. c \in 1..Len(log) \/ c = Len(log) + 1
  BY <1>0, <1>1
<1>5. QED
  BY <1>2, <1>3, <1>4

(* A broker's row tells what its commit did.                               *)
LEMMA RowsTellStep ==
  ASSUME IInv, IInv', AlwaysInv, ReadyInv, NothingUncommitted, RowsTellTheTruth, Next
  PROVE  RowsTellTheTruth'
<1>0. /\ TypeOK /\ TypeOK' /\ JobInv /\ HistoryInv /\ OpInv
      /\ log \in Seq(CommitType) /\ log # <<>> /\ Len(log) \in Nat \ {0}
  BY HEADTyped DEF IInv, TypeOK, HistoryInv, AlwaysInv
<1>1. \A c \in 1..Len(log) : log'[c] = log[c]
  BY <1>0, HistoryKept
<1> DEFINE Told(r) ==
      IF r.op = "move"
      THEN log'[r.commit - 1].tree[r.path] = r.before /\ log'[r.commit].tree[r.path] = Absent
      ELSE log'[r.commit - 1].tree[r.path] = r.before /\ log'[r.commit].tree[r.path] = r.after
<1> SUFFICES ASSUME NEW s \in txns', s.by = "broker" PROVE Told(s)
  BY DEF RowsTellTheTruth, Claims
<1>2. ASSUME NEW r \in txns, SameRow(s, r) PROVE Told(s)
  <2>1. r.commit \in 1..Len(log) /\ r.commit - 1 \in 1..Len(log)
    BY <1>0 DEF HistoryInv
  <2>2. log'[r.commit] = log[r.commit] /\ log'[r.commit - 1] = log[r.commit - 1]
    BY <1>1, <2>1
  <2>3. IF r.op = "move"
        THEN log[r.commit - 1].tree[r.path] = r.before /\ log[r.commit].tree[r.path] = Absent
        ELSE log[r.commit - 1].tree[r.path] = r.before /\ log[r.commit].tree[r.path] = r.after
    BY <1>2 DEF RowsTellTheTruth, Claims, SameRow
  <2>4. QED
    BY <1>2, <2>2, <2>3 DEF SameRow
<1>3. ASSUME NEW w \in Workers, pc[w] = "record", RecordedRow(s, job[w]) PROVE Told(s)
  <2>1. Len(log) \in 2..Len(log)
    BY <1>0, <1>3 DEF HistoryInv
  <2>2. log'[Len(log)] = log[Len(log)] /\ log'[Len(log) - 1] = log[Len(log) - 1]
    BY <1>0, <1>1, <2>1
  <2>3. AtRecord(job[w].op) /\ Shape(job[w].op) /\ job[w].op.kind \in Kinds
    BY <1>0, <1>3, AppliedOp DEF ReadyInv, ApplySteps
  <2>4. job[w].op.kind # "move" => After(job[w].op) = job[w].op.content
    BY <2>3 DEF After, Shape, Kinds
  <2>5. job[w].op.kind = "move" => After(job[w].op) = Absent
    BY DEF After
  <2>6. QED
    BY <1>3, <2>2, <2>3, <2>4, <2>5 DEF RecordedRow, AtRecord
<1>4. ASSUME NEW r, MirrorRow(s, r) PROVE FALSE
  BY <1>4 DEF MirrorRow
<1>5. QED
  BY <1>0, <1>2, <1>3, <1>4, RowsAfter

(* What holds where nothing is left uncommitted.                           *)
LEMMA CleanStep ==
  ASSUME IInv, IInv', AlwaysInv, CleanInv, Next
  PROVE  CleanInv'
<1> SUFFICES ASSUME NothingUncommitted'
             PROVE  (TreeInv /\ ReadyInv /\ AppliedInv /\ RowsTellTheTruth)'
  BY DEF CleanInv
<1>1. TypeOK /\ BoundInv /\ OpInv
  BY DEF IInv, AlwaysInv
<1>2. NothingUncommitted
  BY <1>1, WorldKept
<1>3. left.human = 0 /\ left.crash = 0 /\ left.gitfail = 0
  BY <1>1, <1>2, NothingLeft
<1>4. TreeInv /\ ReadyInv /\ AppliedInv /\ RowsTellTheTruth
  BY <1>2 DEF CleanInv
<1>5. TreeInv' /\ ReadyInv'
  BY <1>1, <1>3, <1>4, TreeStep, ReadyStep
<1>6. AppliedInv' /\ RowsTellTheTruth'
  BY <1>2, <1>4, AppliedStep, RowsTellStep
<1>7. QED
  BY <1>5, <1>6

-----------------------------------------------------------------------------
(* As long as no bytes turn up under another name, a revert puts back what *)
(* its commit changed, and nothing else.                                   *)
LEMMA RevertExact ==
  ASSUME log \in Seq(CommitType), log # <<>>, NothingRenamed,
         NEW c \in 2..Len(log), NEW t \in RevertTrees(c)
  PROVE  /\ t = [p \in Paths |-> IF p \in Changed(c) THEN log[c - 1].tree[p] ELSE HEAD[p]]
         /\ \A p \in Changed(c) : HEAD[p] \in {log[c].tree[p], log[c - 1].tree[p]}
<1> DEFINE base == log[c].tree
           theirs == log[c - 1].tree
           moves == {m \in Paths \X Paths : Renamed(m[1], m[2], base, theirs)}
           strays == {m \in Changed(c) \X Paths : Renamed(m[1], m[2], base, HEAD)}
<1>1. /\ c - 1 \in 1..Len(log) /\ c \in 1..Len(log) /\ Len(log) \in 1..Len(log)
      /\ DOMAIN log = 1..Len(log) /\ c - 1 < c /\ c \leq Len(log)
  BY HEADTyped
<1>2. \A p, q \in Paths : ~Renamed(q, p, theirs, base)
  BY <1>1 DEF NothingRenamed
<1>3. moves = {}
  <2>1. \A p, q \in Paths : Renamed(p, q, base, theirs) => Renamed(q, p, theirs, base)
    BY DEF Renamed
  <2>2. QED
    BY <1>2, <2>1
<1>4. strays = {}
  <2>1. \A p, q \in Paths : ~Renamed(p, q, base, HEAD)
    <3>1. CASE c < Len(log)
      BY <1>1, <3>1 DEF NothingRenamed, HEAD
    <3>2. CASE c = Len(log)
      BY <3>2 DEF HEAD, Renamed
    <3>n. \A n \in Nat : \A m \in 2..n : m < n \/ m = n
      OBVIOUS
    <3>3. c < Len(log) \/ c = Len(log)
      BY <3>n, HEADTyped
    <3>4. QED
      BY <3>1, <3>2, <3>3
  <2>2. QED
    BY <2>1 DEF Changed
<1>5. Changed(c) = {p \in Paths : base[p] # theirs[p]}
  BY DEF Changed
<1>6. t \in IF moves # {}
            THEN {[HEAD EXCEPT ![m[2]] = HEAD[m[1]], ![m[1]] = Absent] :
                    m \in {n \in moves : /\ HEAD[n[1]] # Absent
                                         /\ \/ HEAD[n[2]] = Absent
                                            \/ HEAD[n[1]] = base[n[1]] /\ HEAD[n[2]] = base[n[1]]}}
            ELSE IF strays # {}
            THEN {[HEAD EXCEPT ![m[2]] = theirs[m[1]]] : m \in {n \in strays : theirs[n[1]] # Absent}}
            ELSE IF \A p \in Changed(c) : HEAD[p] \in {base[p], theirs[p]}
            THEN {[p \in Paths |-> IF p \in Changed(c) THEN theirs[p] ELSE HEAD[p]]}
            ELSE {}
  BY <1>5, Zenon DEF RevertTrees
<1> HIDE DEF moves, strays, base, theirs
<1>7. /\ t = [p \in Paths |-> IF p \in Changed(c) THEN theirs[p] ELSE HEAD[p]]
      /\ \A p \in Changed(c) : HEAD[p] \in {base[p], theirs[p]}
  BY <1>3, <1>4, <1>6
<1>8. QED
  BY <1>7 DEF base, theirs

(* What a history says of its commits it says when it has grown.           *)
LEMMA GrownHistory ==
  ASSUME TypeOK, TypeOK', HistoryInv, Next
  PROVE  /\ \A c \in 2..Len(log) : Changed(c)' = Changed(c)
         /\ NothingRenamed' => NothingRenamed
<1>1. /\ Len(log) \in Nat \ {0} /\ Len(log') \in Nat \ {0} /\ Len(log) \leq Len(log')
      /\ \A c \in 1..Len(log) : log'[c] = log[c]
      /\ DOMAIN log = 1..Len(log) /\ DOMAIN log' = 1..Len(log')
  <2>1. log \in Seq(CommitType) /\ log' \in Seq(CommitType)
    BY DEF TypeOK
  <2>2. QED
    BY <2>1, HistoryKept
<1>2. ASSUME NEW c \in 2..Len(log) PROVE Changed(c)' = Changed(c)
  <2>1. log'[c] = log[c] /\ log'[c - 1] = log[c - 1]
    BY <1>1
  <2>2. QED
    BY <2>1 DEF Changed
<1>3. ASSUME NothingRenamed' PROVE NothingRenamed
  <2>1. SUFFICES ASSUME NEW c \in 1..Len(log), NEW d \in 1..Len(log), c < d,
                        NEW p \in Paths, NEW q \in Paths
                 PROVE  ~Renamed(p, q, log[c].tree, log[d].tree)
    BY <1>1 DEF NothingRenamed
  <2>2. c \in 1..Len(log') /\ d \in 1..Len(log')
    BY <1>1
  <2>3. ~Renamed(p, q, log'[c].tree, log'[d].tree)
    BY <1>1, <1>3, <2>1, <2>2 DEF NothingRenamed, Renamed
  <2>4. QED
    BY <1>1, <2>3
<1>4. QED
  BY <1>2, <1>3

(* A commit changes one note.                                              *)
LEMMA OneNoteStep ==
  ASSUME IInv, IInv', AlwaysInv, TreeInv, ReadyInv, OneNote, NothingRenamed, NothingRenamed', Next
  PROVE  OneNote'
<1>0. /\ TypeOK /\ TypeOK' /\ LockInv /\ JobInv /\ HistoryInv /\ OpInv
      /\ pc \in [Workers -> Steps]
      /\ log \in Seq(CommitType) /\ log # <<>> /\ HEAD \in Tree /\ Len(log) \in Nat \ {0}
  BY HEADTyped DEF IInv, TypeOK, HistoryInv, AlwaysInv
<1>1. /\ Len(log') = Len(log) \/ Len(log') = Len(log) + 1
      /\ \A c \in 1..Len(log) : log'[c] = log[c]
      /\ \A c \in 2..Len(log) : Changed(c)' = Changed(c)
  BY <1>0, HistoryKept, GrownHistory
<1> SUFFICES ASSUME NEW c \in 2..Len(log'), NEW p \in Changed(c)', NEW q \in Changed(c)'
             PROVE  p = q
  BY DEF OneNote
<1>2. CASE c \in 2..Len(log)
  BY <1>1, <1>2 DEF OneNote
<1>3. ASSUME NEW kind, NEW op, NEW apr, NEW tree, Committed(kind, op, apr, tree), c = Len(log) + 1,
             \A r, s \in Paths : tree[r] # HEAD[r] /\ tree[s] # HEAD[s] => r = s
      PROVE  p = q
  <2>1. log'[c].tree = tree /\ log'[c - 1].tree = HEAD
    BY <1>0, <1>3, HeadAfter
  <2>2. Changed(c)' = {r \in Paths : tree[r] # HEAD[r]}
    BY <2>1 DEF Changed
  <2>3. QED
    BY <1>3, <2>2
<1>4. ASSUME NEW w \in Workers, c = Len(log) + 1,
             Committed("baseline", "none", NoId,
                       [HEAD EXCEPT ![job[w].op.path] = file[job[w].op.path]])
      PROVE  p = q
  <2> DEFINE tree == [HEAD EXCEPT ![job[w].op.path] = file[job[w].op.path]]
  <2>1. \A r \in Paths : tree[r] # HEAD[r] => r = job[w].op.path
    BY <1>0 DEF Tree
  <2>2. Committed("baseline", "none", NoId, tree)
    BY <1>4
  <2> HIDE DEF tree
  <2>3. QED
    BY <1>3, <1>4, <2>1, <2>2
<1>5. ASSUME NEW w \in Workers, c = Len(log) + 1, CommitOp(w), log' # log
      PROVE  p = q
  <2> DEFINE op == job[w].op
             tree == OpTree(op)
  <2>1. /\ pc[w] = "commit"
        /\ Committed("ledger", op.kind, job[w].apr, tree)
        /\ \A r \in {op.path, op.dest} : {file[r], HEAD[r]} # {Absent}
    BY <1>5, CommitOpCases
  <2>2. /\ AtCommit(op) /\ op.path \in Paths /\ op.dest \in Paths
        /\ op.dest # op.path => op.kind \in {"move", "archive"}
    BY <1>0, <2>1, AppliedOp DEF ReadyInv, ApplySteps, Kinds
  <2>3. \A r \in Paths : tree[r] # HEAD[r] => r \in {op.path, op.dest}
    BY DEF OpTree
  <2>4. ASSUME op.dest # op.path PROVE FALSE
    <3>1. /\ tree[op.path] = Absent /\ HEAD[op.dest] = Absent
          /\ tree[op.dest] = op.expected /\ op.expected # Absent
      BY <2>2, <2>4 DEF AtCommit, TargetWritten, After, OpTree
    <3>2. HEAD[op.path] = op.expected
      <4>1. file[op.path] = Absent
        BY <2>2, <2>4 DEF AtCommit, After
      <4>2. HEAD[op.path] # Absent
        BY <2>1, <4>1
      <4>3. QED
        BY <2>2, <4>2 DEF AtCommit, InHEAD
    <3>3. Renamed(op.path, op.dest, HEAD, tree)
      BY <3>1, <3>2 DEF Renamed
    <3>4. log'[c].tree = tree /\ log'[Len(log)].tree = HEAD /\ Len(log') = c
      BY <1>0, <1>5, <2>1, HeadAfter
    <3>5. DOMAIN log' = 1..Len(log')
      BY <1>0 DEF TypeOK
    <3>6. c \in DOMAIN log' /\ Len(log) \in DOMAIN log' /\ Len(log) < c
      BY <1>0, <1>5, <3>4, <3>5
    <3>7. ~Renamed(op.path, op.dest, log'[Len(log)].tree, log'[c].tree)
      BY <2>2, <3>6 DEF NothingRenamed, Renamed
    <3>8. QED
      BY <3>3, <3>4, <3>7
  <2>5. \A r, s \in Paths : tree[r] # HEAD[r] /\ tree[s] # HEAD[s] => r = s
    BY <2>3, <2>4
  <2> HIDE DEF tree
  <2>6. QED
    BY <1>3, <1>5, <2>1, <2>5
<1>6. ASSUME NEW w \in Workers, c = Len(log) + 1, pc[w] = "revert",
             NEW t \in RevertTrees(job[w].target), Committed("revert", "none", NoId, t)
      PROVE  p = q
  <2>1. job[w].target \in 2..Len(log)
    BY <1>0, <1>6 DEF JobInv, HistoryInv, UndoSteps
  <2>2. t = [r \in Paths |-> IF r \in Changed(job[w].target)
                             THEN log[job[w].target - 1].tree[r] ELSE HEAD[r]]
    BY <1>0, <2>1, RevertExact
  <2>3. \A r \in Paths : t[r] # HEAD[r] => r \in Changed(job[w].target)
    BY <2>2
  <2>4. \A r, s \in Changed(job[w].target) : r = s
    BY <2>1 DEF OneNote
  <2>5. QED
    BY <1>3, <1>6, <2>3, <2>4
<1>7. CASE c = Len(log) + 1
  <2>1. log' # log
    BY <1>0, <1>1, <1>7
  <2>2. ASSUME NEW w \in Workers, pc[w] = "commit", pc'[w] = "record" PROVE CommitOp(w)
    BY <1>0, <2>2, Arrives
  <2>3. QED
    BY <1>0, <1>4, <1>5, <1>6, <1>7, <2>1, <2>2, NewCommit
<1>8. QED
  BY <1>0, <1>1, <1>2, <1>7

(* The row of an operation or of an undo says what its commit did.         *)
LEMMA RowsClaimStep ==
  ASSUME IInv, IInv', AlwaysInv, ReadyInv, RowsClaim, MirrorReady, Next
  PROVE  RowsClaim'
<1>0. /\ TypeOK /\ TypeOK' /\ JobInv /\ HistoryInv /\ OpInv
      /\ log \in Seq(CommitType) /\ log # <<>> /\ Len(log) \in Nat \ {0}
  BY HEADTyped DEF IInv, TypeOK, HistoryInv, AlwaysInv
<1>1. \A c \in 1..Len(log) : log'[c] = log[c]
  BY <1>0, HistoryKept
<1> DEFINE Told(r) ==
      /\ r.path \in Paths
      /\ log'[r.commit - 1].tree[r.path] = r.before /\ log'[r.commit].tree[r.path] = r.after
<1> SUFFICES ASSUME NEW s \in txns', s.by \in {"broker", "undo"}, s.before # s.after PROVE Told(s)
  BY DEF RowsClaim, Claiming, Claims
<1>2. ASSUME NEW r \in txns, SameRow(s, r) PROVE Told(s)
  <2>1. r.commit \in 1..Len(log) /\ r.commit - 1 \in 1..Len(log)
    BY <1>0 DEF HistoryInv
  <2>2. log'[r.commit] = log[r.commit] /\ log'[r.commit - 1] = log[r.commit - 1]
    BY <1>1, <2>1
  <2>3. /\ r.path \in Paths
        /\ log[r.commit - 1].tree[r.path] = r.before /\ log[r.commit].tree[r.path] = r.after
    BY <1>2 DEF RowsClaim, Claiming, Claims, SameRow
  <2>4. QED
    BY <1>2, <2>2, <2>3 DEF SameRow
<1>3. ASSUME NEW w \in Workers, pc[w] \in {"record", "compensate"}
      PROVE  log'[Len(log)] = log[Len(log)] /\ log'[Len(log) - 1] = log[Len(log) - 1]
  <2>1. Len(log) # 1
    BY <1>3 DEF IInv, HistoryInv
  <2>2. Len(log) \in Nat \ {0}
    BY <1>0
  <2>3. Len(log) \in 1..Len(log) /\ Len(log) - 1 \in 1..Len(log)
    <3>1. \A n \in Nat \ {0} : n # 1 => n \in 1..n /\ n - 1 \in 1..n
      OBVIOUS
    <3>2. QED
      BY <2>1, <2>2, <3>1
  <2>4. QED
    BY <1>1, <2>3
<1>4. ASSUME NEW w \in Workers, pc[w] = "record", RecordedRow(s, job[w]) PROVE Told(s)
  <2>1. /\ AtRecord(job[w].op) /\ Shape(job[w].op) /\ job[w].op.kind \in Kinds
        /\ job[w].op.path \in Paths
    BY <1>0, <1>4, AppliedOp DEF ReadyInv, ApplySteps
  <2>2. job[w].op.kind # "move"
    BY <1>4 DEF RecordedRow
  <2>3. After(job[w].op) = job[w].op.content
    BY <2>1, <2>2 DEF After, Shape, Kinds
  <2>4. QED
    BY <1>3, <1>4, <2>1, <2>2, <2>3 DEF RecordedRow, AtRecord
<1>5. ASSUME NEW w \in Workers, pc[w] = "compensate", NEW r \in Rows(job[w].target),
             MirrorRow(s, r)
      PROVE  Told(s)
  <2>1. r \in txns /\ r.before # r.after
    BY <1>5 DEF Rows, MirrorRow
  <2>2. CASE Claiming(r)
    BY <1>3, <1>5, <2>2 DEF MirrorReady, MirrorRow
  <2>3. CASE r.by \notin {"broker", "undo"}
    <3>1. r.by = "reconcile"
      BY <1>0, <2>1, <2>3 DEF TypeOK, RowType
    <3>2. QED
      BY <2>1, <3>1 DEF AlwaysInv, RowsKeep
  <2>4. QED
    BY <2>1, <2>2, <2>3 DEF Claiming
<1>6. QED
  BY <1>0, <1>2, <1>4, <1>5, RowsAfter

(* A revert puts back what the row it undoes says was there.               *)
LEMMA MirrorReadyStep ==
  ASSUME IInv, IInv', AlwaysInv, OneNote, RowsClaim, MirrorReady, NothingRenamed, Next
  PROVE  MirrorReady'
<1>0. /\ TypeOK /\ TypeOK' /\ LockInv /\ JobInv /\ HistoryInv
      /\ pc \in [Workers -> Steps] /\ job \in [Workers -> JobType]
      /\ log \in Seq(CommitType) /\ log # <<>> /\ HEAD \in Tree /\ Len(log) \in Nat \ {0}
  BY HEADTyped DEF IInv, TypeOK, HistoryInv
<1> SUFFICES ASSUME NEW w \in Workers, pc'[w] = "compensate",
                    NEW s \in txns', s.commit = job'[w].target,
                    s.by \in {"broker", "undo"}, s.before # s.after
             PROVE  /\ s.path \in Paths
                    /\ log'[Len(log') - 1].tree[s.path] = s.after
                    /\ log'[Len(log')].tree[s.path] = s.before
  BY DEF MirrorReady, Rows, Claiming
<1>1. CASE pc[w] = "compensate"
  <2>1. log' = log /\ job'[w] = job[w]
    BY <1>0, <1>1, HolderKeeps
  <2>2. ASSUME NEW r \in txns, SameRow(s, r)
        PROVE  r \in Rows(job[w].target) /\ Claiming(r)
    BY <2>1, <2>2 DEF SameRow, Rows, Claiming
  <2>3. job[w].target # Len(log)
    BY <1>0, <1>1 DEF JobInv, HistoryInv, UndoSteps
  <2>4. ASSUME NEW v \in Workers, pc[v] \in {"record", "compensate"}, s.commit = Len(log)
        PROVE  FALSE
    BY <2>1, <2>3, <2>4
  <2>5. PICK r \in txns : SameRow(s, r)
    <3>1. ASSUME NEW v \in Workers, pc[v] = "record", RecordedRow(s, job[v]) PROVE FALSE
      BY <2>4, <3>1 DEF RecordedRow
    <3>2. ASSUME NEW v \in Workers, pc[v] = "compensate", NEW r, MirrorRow(s, r) PROVE FALSE
      BY <2>4, <3>2 DEF MirrorRow
    <3>3. s.by # "reconcile"
      OBVIOUS
    <3>4. QED
      BY <1>0, <3>1, <3>2, <3>3, RowsAfter
  <2>6. /\ r.path \in Paths
        /\ log[Len(log) - 1].tree[r.path] = r.after /\ log[Len(log)].tree[r.path] = r.before
    BY <1>1, <2>2, <2>5 DEF MirrorReady
  <2>7. QED
    BY <2>1, <2>5, <2>6 DEF SameRow
<1>2. CASE pc[w] # "compensate"
  <2>1. RevertCommit(w)
    BY <1>0, <1>2, Arrives
  <2>2. ~(pc' = [pc EXCEPT ![w] = "release"])
    BY <1>0
  <2>3. pc[w] = "revert" /\ job' = job /\ txns' = txns
    BY <2>1 DEF RevertCommit
  <2>4. PICK t \in RevertTrees(job[w].target) : Committed("revert", "none", NoId, t) /\ t # HEAD
    BY <2>1, <2>2, Zenon DEF RevertCommit, Finish, Revertible
  <2> DEFINE c == job[w].target
  <2>5. c \in 2..Len(log)
    BY <1>0, <2>3 DEF JobInv, HistoryInv, UndoSteps
  <2>6. /\ s.path \in Paths
        /\ log[c - 1].tree[s.path] = s.before /\ log[c].tree[s.path] = s.after
    BY <2>3 DEF RowsClaim, Claiming, Claims
  <2>7. Changed(c) = {s.path}
    <3>1. s.path \in Changed(c)
      BY <2>6 DEF Changed
    <3>2. \A p, q \in Changed(c) : p = q
      BY <2>5 DEF OneNote
    <3>3. QED
      BY <3>1, <3>2
  <2>8. /\ t = [p \in Paths |-> IF p \in Changed(c) THEN log[c - 1].tree[p] ELSE HEAD[p]]
        /\ \A p \in Changed(c) : HEAD[p] \in {log[c].tree[p], log[c - 1].tree[p]}
    BY <1>0, <2>5, RevertExact
  <2>9. t[s.path] = s.before /\ HEAD[s.path] \in {s.before, s.after}
    BY <2>6, <2>7, <2>8
  <2>10. HEAD[s.path] = s.after
    <3>1. ASSUME HEAD[s.path] = s.before PROVE FALSE
      <4>1. \A p \in Paths : t[p] = HEAD[p]
        BY <2>6, <2>7, <2>8, <2>9, <3>1
      <4>2. t = HEAD
        BY <1>0, <2>8, <4>1 DEF Tree
      <4>3. QED
        BY <2>4, <4>2
    <3>2. QED
      BY <2>9, <3>1
  <2>11. /\ Len(log') = Len(log) + 1 /\ log'[Len(log)].tree = HEAD /\ log'[Len(log')].tree = t
    BY <1>0, <2>4, HeadAfter
  <2>12. Len(log') - 1 = Len(log)
    BY <1>0, <2>11
  <2>13. QED
    BY <2>6, <2>9, <2>10, <2>11, <2>12
<1>3. QED
  BY <1>1, <1>2

(* What holds as long as, besides, no bytes turn up under another name.    *)
LEMMA MirrorStep ==
  ASSUME IInv, IInv', AlwaysInv, CleanInv, MirrorInv, Next
  PROVE  MirrorInv'
<1> SUFFICES ASSUME NothingUncommitted', NothingRenamed'
             PROVE  (OneNote /\ RowsClaim /\ MirrorReady)'
  BY DEF MirrorInv
<1>1. TypeOK /\ TypeOK' /\ HistoryInv /\ BoundInv
  BY DEF IInv, AlwaysInv
<1>2. NothingUncommitted /\ NothingRenamed
  BY <1>1, WorldKept, GrownHistory
<1>3. TreeInv /\ ReadyInv
  BY <1>2 DEF CleanInv
<1>4. OneNote /\ RowsClaim /\ MirrorReady
  BY <1>2 DEF MirrorInv
<1>5. OneNote' /\ RowsClaim' /\ MirrorReady'
  BY <1>2, <1>3, <1>4, OneNoteStep, RowsClaimStep, MirrorReadyStep
<1>6. QED
  BY <1>5

-----------------------------------------------------------------------------
(* The invariant holds when the vault is opened.                           *)
LEMMA InitHInv == Init => HInv
<1> SUFFICES ASSUME Init PROVE HInv
  OBVIOUS
<1> DEFINE first == [kind |-> "initial", op |-> "none", apr |-> NoId, tree |-> Tracked]
<1>1. /\ Len(log) = 1 /\ log[1] = first /\ LedgerCommits = {} /\ HEAD = Tracked
  BY DEF Init, LedgerCommits, HEAD
<1>2. /\ OpInv /\ ProposedPlain /\ VerdictInv /\ RowsKeep
  BY DEF Init, OpInv, ProposedPlain, VerdictInv, RowsKeep, Asked, ApplySteps
<1>3. BoundInv
  <2>1. PICK n \in DOMAIN Worlds :
          left = [world |-> n, requests |-> Worlds[n].requests, undo |-> Worlds[n].undo,
                  human |-> Worlds[n].human, crash |-> Worlds[n].crash,
                  gitfail |-> Worlds[n].gitfail]
    BY DEF Init
  <2>2. Worlds[n].human \in Nat /\ Worlds[n].crash \in Nat /\ Worlds[n].gitfail \in Nat
    BY <2>1, WorldsAssumption
  <2>3. QED
    BY <2>1, <2>2 DEF BoundInv, World
<1>4. NothingUncommitted => TreeInv
  BY <1>1 DEF Init, NothingUncommitted, TreeInv
<1>5. ReadyInv /\ AppliedInv /\ RowsTellTheTruth
  BY <1>1 DEF Init, ReadyInv, AppliedInv, RowsTellTheTruth
<1>6. OneNote /\ RowsClaim /\ MirrorReady
  BY <1>1 DEF Init, OneNote, RowsClaim, MirrorReady
<1>7. QED
  BY <1>2, <1>3, <1>4, <1>5, <1>6 DEF HInv, AlwaysInv, CleanInv, MirrorInv

(* Every step keeps it.                                                    *)
LEMMA HInvStep == IInv /\ IInv' /\ HInv /\ [Next]_vars => HInv'
<1>1. ASSUME IInv, IInv', HInv, Next PROVE HInv'
  BY <1>1, AlwaysStep, CleanStep, MirrorStep DEF HInv
<1>2. ASSUME HInv, UNCHANGED vars PROVE HInv'
  <2>1. AlwaysInv'
    BY <1>2 DEF HInv, vars, AlwaysInv, OpInv, Shape, ProposedPlain, Asked, VerdictInv, ApprovalKeeps,
       After, ProvenanceOf, RowsKeep, BoundInv, World
  <2>2. HEAD' = HEAD /\ NothingUncommitted' = NothingUncommitted
    BY <1>2 DEF vars, HEAD, NothingUncommitted, World
  <2>3. TreeInv' = TreeInv /\ ReadyInv' = ReadyInv
    BY <1>2, <2>2 DEF vars, TreeInv, Committing, ReadyInv, AtBaseline, AtWrite, AtUnlink, AtCommit,
       AtRecord, Source, InHEAD, TargetFree, TargetWritten, After
  <2>4. AppliedInv' = AppliedInv /\ RowsTellTheTruth' = RowsTellTheTruth
    BY <1>2, <2>2 DEF vars, AppliedInv, LedgerCommits, Asked, RowsTellTheTruth, Claims, ProvenanceOf
  <2>5. NothingRenamed' = NothingRenamed /\ OneNote' = OneNote
    BY <1>2 DEF vars, NothingRenamed, Renamed, OneNote, Changed
  <2>6. RowsClaim' = RowsClaim /\ MirrorReady' = MirrorReady
    BY <1>2 DEF vars, RowsClaim, Claiming, Claims, MirrorReady, Rows
  <2>7. QED
    BY <1>2, <2>1, <2>2, <2>3, <2>4, <2>5, <2>6 DEF HInv, CleanInv, MirrorInv
<1>3. QED
  BY <1>1, <1>2

(* What the bytes of notes are at each step holds in every behaviour.      *)
THEOREM BytesInductive == Spec => [](IInv /\ HInv)
<1>1. Init => IInv /\ HInv
  BY InitIInv, InitHInv
<1>2. IInv /\ HInv /\ [Next]_vars => (IInv /\ HInv)'
  BY IInvStep, HInvStep
<1>3. QED
  BY <1>1, <1>2, PTL DEF Spec

(* An approval never changes what a note declares in its governed          *)
(* provenance, nor creates, deletes or moves a governed note: the verdict  *)
(* taken at the gate still stands at the commit (queue.ts, proposeDelete   *)
(* and proposeMove; broker.ts, applyRevise).                               *)
THEOREM ApprovalsKeepProvenance == Spec => []GovernedKept
<1>1. IInv /\ HInv => GovernedKept
  <2> SUFFICES ASSUME IInv, HInv PROVE GovernedKept
    OBVIOUS
  <2>1. \A r \in txns : r.by = "broker" /\ r.apr # NoId => ApprovalKeeps(r.before, r.after, r.op)
    BY DEF HInv, AlwaysInv, RowsKeep
  <2>2. ASSUME NothingUncommitted, NEW c \in 2..Len(log), log[c].kind = "ledger", log[c].apr # NoId,
               NEW p \in Paths
        PROVE  ProvenanceOf(log[c].tree[p]) = ProvenanceOf(log[c - 1].tree[p])
    <3>1. c \in 1..Len(log)
      BY HEADTyped DEF IInv, TypeOK, HistoryInv
    <3>2. c \in LedgerCommits
      BY <2>2, <3>1 DEF LedgerCommits
    <3>3. QED
      BY <2>2, <3>2 DEF HInv, CleanInv, AppliedInv
  <2>3. QED
    BY <2>1, <2>2 DEF GovernedKept
<1>2. QED
  BY <1>1, BytesInductive, PTL

(* A row of the broker says what its commit replaced and what it left,     *)
(* however many hosts race (broker.ts, applyRevise to applyArchive;        *)
(* journal.ts, recordTransaction).                                         *)
THEOREM RowsAreTrue == Spec => []RowsTellTheTruth
<1>1. IInv /\ HInv => RowsTellTheTruth
  BY DEF HInv, CleanInv, RowsTellTheTruth
<1>2. QED
  BY <1>1, BytesInductive, PTL

(* One approval is applied once: between two commits made for it the note  *)
(* was again what was approved against (queue.ts, approve, called by any   *)
(* number of hosts on one pending row).                                    *)
THEOREM OncePerApproval == Spec => []AppliedOnce
<1>1. IInv /\ HInv => AppliedOnce
  <2> SUFFICES ASSUME IInv, HInv, NothingUncommitted,
                      NEW c \in LedgerCommits, NEW d \in LedgerCommits,
                      c < d, log[c].apr = log[d].apr, log[c].apr # NoId
               PROVE  \E e \in (c + 1)..(d - 1) :
                        log[e].tree[approvals[log[c].apr].op.path] = approvals[log[c].apr].op.expected
    BY DEF AppliedOnce
  <2>1. c \in Nat /\ d \in Nat
    BY HEADTyped DEF LedgerCommits, IInv, TypeOK, HistoryInv
  <2>2. AppliedInv
    BY DEF HInv, CleanInv
  <2>3. log[d - 1].tree[approvals[log[c].apr].op.path] = approvals[log[c].apr].op.expected
    BY <2>2 DEF AppliedInv
  <2>4. log[c].tree[approvals[log[c].apr].op.path] # approvals[log[c].apr].op.expected
    BY <2>2 DEF AppliedInv
  <2>5. d - 1 # c
    BY <2>3, <2>4
  <2>6. d - 1 \in (c + 1)..(d - 1)
    BY <2>1, <2>5
  <2>7. QED
    BY <2>3, <2>6, Zenon
<1>2. QED
  BY <1>1, BytesInductive, PTL

(* The row of an undo, of an undo of an undo, and so on, is the mirror of  *)
(* the row it reverts, and true, whatever was committed in between, as     *)
(* long as git has no rename to follow (undo.ts, undo; ledger.ts, revert). *)
THEOREM UndosAreMirrors == Spec => []UndoMirrors
<1>1. IInv /\ HInv => UndoMirrors
  BY DEF HInv, MirrorInv, UndoMirrors, EveryUndoMirrors, RowsClaim, Claiming
<1>2. QED
  BY <1>1, BytesInductive, PTL
=============================================================================
