--------------------------- MODULE BrokerProperties ---------------------------
(* What the write path of VaultLedger promises, about module Broker. *)
EXTENDS Broker

CommitKinds == {"initial", "baseline", "ledger", "revert"}
Steps == {"down", "repair", "close", "idle", "reject", "lock", "check", "baseline", "write",
          "unlink", "commit", "record", "undo", "revert", "compensate", "release", "resolve"}

RowType ==
  [commit : Nat, by : {"broker", "undo", "reconcile"},
   op : Kinds \cup {"revert", "none"}, path : Paths \cup {Basename},
   before : Bytes \cup {Unappliable}, after : Bytes \cup {Unappliable},
   apr : Ids \cup {NoId}, status : {"applied", "reverted"}]

CommitType ==
  [kind : CommitKinds, op : Kinds \cup {"none"}, apr : Ids \cup {NoId}, tree : Tree]
ApprovalType ==
  [state : {"unused", "pending", "approved", "rejected", "stale"}, op : Ops \cup {NoOp}]
JobType == [op : Ops \cup {NoOp}, apr : Ids \cup {NoId}, internal : BOOLEAN, target : Nat]

(* Every variable has the type of the table, file or local it stands for. *)
TypeOK ==
  /\ file \in Tree
  /\ log \in Seq(CommitType)
  /\ txns \subseteq RowType
  /\ approvals \in [Ids -> ApprovalType]
  /\ lock \in Workers \cup {NoHost}
  /\ pc \in [Workers -> Steps]
  /\ job \in [Workers -> JobType]
  /\ outcome \in [Workers -> {"ok", "stale", "error"}]
  /\ seen \in [Workers -> SUBSET (Nat \cup Ids)]
  /\ left \in [world : DOMAIN Worlds, requests : Nat, undo : Nat, human : Nat, crash : Nat, gitfail : Nat]

-----------------------------------------------------------------------------
(* Safety *)

(* The journal holds at most one row per commit, whichever of the broker,  *)
(* an undo and any number of starting hosts wrote it (journal/db.ts, the   *)
(* unique index on commit_sha; reconcile runs without the lock).           *)
OneRowPerCommit == \A r, s \in txns : r.commit = s.commit => r = s

(* An approval is `approved` only if the history holds a commit made for   *)
(* that very approval: neither approve() nor the repair at startup closes  *)
(* one whose operation never landed (reconcile.ts: "The id-link makes a    *)
(* false-close impossible").                                               *)
AppliedCommit(a) == \E c \in DOMAIN log : log[c].kind = "ledger" /\ log[c].apr = a
NoFalseClose == \A a \in Ids : approvals[a].state = "approved" => AppliedCommit(a)

(* A ledger commit is in the journal, or some host still owes it its row:  *)
(* the one that made it, or one that will list it before it serves.  So a  *)
(* crash between the commit and the INSERT is repaired before the crashed  *)
(* host is back (reconcile.ts).                                            *)
Owed(c) == \E w \in Workers :
  \/ pc[w] = "record" /\ c = Len(log)
  \/ pc[w] = "down"
  \/ pc[w] = "repair" /\ c \in seen[w]
NothingUnrecorded == \A c \in LedgerCommits : Rows(c) # {} \/ Owed(c)

(* No commit changes an excluded note; a ledger commit changes a trusted   *)
(* note only under an approval (broker.ts, the zone gates of the six       *)
(* operations, checked long before the commit they allow).                 *)
Changed(c) == {p \in Paths : log[c].tree[p] # log[c - 1].tree[p]}
ZonesRespected ==
  \A c \in 2..Len(log) : \A p \in Changed(c) :
    /\ Zone[p] # "excluded"
    /\ log[c].kind = "ledger" /\ Zone[p] = "trusted" => log[c].apr # NoId

(* The three properties of what the history says about a note assume that  *)
(* every byte in the vault is on its way into it: no person edits, no host *)
(* dies and no git command fails between a write and its commit, and the   *)
(* vault was opened with no change uncommitted.  A note git has never seen *)
(* is allowed, and so are any number of hosts, operations and undos.       *)
NothingUncommitted ==
  /\ World.human = 0 /\ World.crash = 0 /\ World.gitfail = 0
  /\ \A p \in Paths : Tracked[p] \in {Absent, OnDisk[p]}

(* Approving an operation never changes what a note declares in its        *)
(* governed provenance, nor creates, deletes or moves a governed note: the *)
(* journal never says so, and where nothing is left uncommitted neither    *)
(* does the history.  The delete and move gates look at provenance only    *)
(* when proposed: the hash checked at apply time has to carry that verdict *)
(* across the wait.                                                        *)
ApprovalKeeps(before, after, kind) ==
  /\ ProvenanceOf(after) = ProvenanceOf(before)
  /\ kind \in {"newfile", "delete", "move"} => ProvenanceOf(before) = Plain
GovernedKept ==
  /\ \A r \in txns : r.by = "broker" /\ r.apr # NoId => ApprovalKeeps(r.before, r.after, r.op)
  /\ NothingUncommitted =>
       \A c \in 2..Len(log) : log[c].kind = "ledger" /\ log[c].apr # NoId =>
         \A p \in Paths : ProvenanceOf(log[c].tree[p]) = ProvenanceOf(log[c - 1].tree[p])

(* The hashes the broker journals are those of the note in the history,    *)
(* before and after its commit: what it verified under the lock is exactly *)
(* what its commit replaced, in every interleaving of two hosts, and the   *)
(* pre-image of a note git had never seen is there to be restored.         *)
Claims(r) ==
  /\ log[r.commit - 1].tree[r.path] = r.before
  /\ log[r.commit].tree[r.path] = r.after
RowsTellTheTruth ==
  NothingUncommitted =>
   \A r \in txns : r.by = "broker" =>
    IF r.op = "move"
    THEN log[r.commit - 1].tree[r.path] = r.before /\ log[r.commit].tree[r.path] = Absent
    ELSE Claims(r)

(* The row of an undo is the hash mirror of the row it reverts, and says   *)
(* what the revert commit did to that note (undo.ts), also when other      *)
(* commits came between and when the undo is undone in turn.  It needs the *)
(* note to be where it was: git follows bytes that turn up under another   *)
(* name, in one commit or across several.                                  *)
NothingRenamed ==
  \A c, d \in DOMAIN log : c < d =>
    \A p, q \in Paths : ~Renamed(p, q, log[c].tree, log[d].tree)
EveryUndoMirrors == \A r \in txns : r.by = "undo" /\ r.before # r.after => Claims(r)
UndoMirrors == NothingUncommitted /\ NothingRenamed => EveryUndoMirrors

(* However many hosts approve one held operation at once, it is applied    *)
(* once, unless an undo or another operation makes the note what it was    *)
(* approved against again: the loser finds its hash stale or its target    *)
(* occupied or gone.                                                       *)
AppliedOnce ==
  NothingUncommitted =>
   \A c, d \in LedgerCommits :
    c < d /\ log[c].apr = log[d].apr /\ log[c].apr # NoId =>
      LET op == approvals[log[c].apr].op
      IN \E e \in (c + 1)..(d - 1) : log[e].tree[op.path] = op.expected

-----------------------------------------------------------------------------
(* Action properties and liveness *)

(* A decision on an approval is never revised (queue.ts, loadPending; the  *)
(* state itself is written by an unconditional UPDATE).                    *)
Decided == {"approved", "rejected", "stale"}
DecisionsStand ==
  [][\A a \in Ids : approvals[a].state \in Decided =>
       approvals'[a].state = approvals[a].state]_vars

(* A host that dies between recording an approved operation and closing    *)
(* its approval does not leave it pending: the next start closes it,       *)
(* unless the operation is undone first.                                   *)
Unclosed(a) ==
  /\ approvals[a].state = "pending"
  /\ \E r \in txns : r.apr = a /\ r.status = "applied"
ApprovalsClose == \A a \in Ids : Unclosed(a) ~> ~Unclosed(a)

-----------------------------------------------------------------------------
(* What the repository says and the code does not keep, as DecisionsStand  *)
(* of two hosts and EveryUndoMirrors of a note moved after its edit: the   *)
(* README names the world of MCBroker that shows it.                       *)

Quiet == \A w \in Workers : pc[w] = "idle"

(* "so undo's `git revert` can restore the pre-delete bytes": the bytes an *)
(* operation replaced are in the commit before its own (broker.ts,         *)
(* applyRevise and applyDelete).                                           *)
PreImageInCustody ==
  \A r \in txns : r.by = "broker" /\ r.op \in {"revise", "delete"} =>
    log[r.commit - 1].tree[r.path] = r.before

(* "its `commit_sha` is always freshly minted by that same call, never a   *)
(* potential duplicate" (journal.ts, recordTransactionIfNew).              *)
FreshCommit == \A w \in Workers : pc[w] = "record" => Rows(Len(log)) = {}

(* "Every mutation is attributable: who, when, why, which session, which   *)
(* commit": when nothing is in flight and no person has edited, a note is  *)
(* as the history has it or as the ledger found it.                        *)
EveryMutationAttributable ==
  Quiet /\ left.human = World.human =>
    \A p \in Paths : file[p] \in {HEAD[p], OnDisk[p]}

(* "Rollback of any transaction [...] with the memory journal kept         *)
(* consistent": when nothing is in flight every revert has its row.        *)
RevertsJournaled ==
  Quiet => \A c \in DOMAIN log : log[c].kind = "revert" => Rows(c) # {}

=============================================================================
