-------------------------- MODULE MemoryProperties --------------------------
(***************************************************************************)
(* What the memory store promises, and the promises it does not keep.      *)
(***************************************************************************)
EXTENDS Memory

Outcome == {"ok", "error", "stale", "flipped", "archived"}

Steps == {"idle", "create", "insert", "link", "flip", "archive", "mirror", "resolve", "sweep",
          "undo", "compensate", "walk", "upsert", "replay"}

Kinds == {"none", "remember", "promote", "forget", "retire", "revise", "sweep", "undo"} \cup Places

JobType ==
  [kind : Kinds, mem : Memories \cup {NoMem}, apr : Nat, expected : Notes \cup {NoNote},
   after : Notes \cup {NoNote}, commit : Nat, how : Outcome, rest : SUBSET Memories,
   seen : SUBSET Memories, queue : Seq(Nat)]

Ops == {"create", "revise", "forget", "revert"}
CommitType == [op : Ops, mem : Memories, before : Notes \cup {NoNote}, after : Notes \cup {NoNote}]
TxnType == [commit : Nat, op : Ops, mem : Memories \cup {NoMem}, status : {"applied", "reverted"}]
HeldType ==
  [op : {"promote", "forget", "retire", "revise"}, mem : Memories,
   expected : Notes \cup {NoNote}, after : Notes \cup {NoNote},
   state : {"pending", "approved", "stale", "rejected"}]

(* Everything has its type; the lock is held by a host that is undoing.    *)
TypeOK ==
  /\ note \in [Memories -> Notes \cup {NoNote}]
  /\ commits \in Seq(CommitType)
  /\ rows \in [Memories -> MemoryRows \cup {NoRow}]
  /\ txns \in Seq(TxnType)
  /\ held \in Seq(HeldType)
  /\ lock \in Hosts \cup {NoHost}
  /\ pc \in [Hosts -> Steps]
  /\ job \in [Hosts -> JobType]
  /\ left \in [hosts : SUBSET Hosts, memories : SUBSET Memories, bodies : SUBSET Bodies,
                calm : BOOLEAN, requests : Nat, held : Nat, undo : Nat, sweep : Nat,
                crash : Nat, loss : Nat, reindex : Nat]
  /\ \A h \in Hosts : (lock = h) <=> (pc[h] \in {"undo", "compensate"})

NotesHad(m) ==
  {commits[i].after : i \in {k \in DOMAIN commits : commits[k].mem = m}} \ {NoNote}

(* The journal follows the file: a row never gives a status that no commit *)
(* of the note ever had, whoever races and dies.  "reverted" is what undo  *)
(* writes of a note it does not find.                                      *)
RowNeverAhead ==
  \A m \in Memories : rows[m] # NoRow =>
    \E n \in NotesHad(m) : rows[m].status \in {n.status, "reverted"}

(* An approved operation landed: the note had the status, or the content,  *)
(* that the person approved.                                               *)
Target == [promote |-> "canonical", forget |-> "forgotten", retire |-> "retired"]

ApprovedMeansLanded ==
  \A a \in DOMAIN held : held[a].state = "approved" =>
    \E n \in NotesHad(held[a].mem) :
      IF held[a].op = "revise" THEN n = held[a].after
      ELSE n.status = Target[held[a].op]

(* A forgotten note of m was brought back: by an undo of either half of    *)
(* the forget, or by a promotion approved too late.                        *)
BroughtBack(m) ==
  \E i \in DOMAIN commits :
    /\ commits[i].mem = m
    /\ NoNote \notin {commits[i].before, commits[i].after}
    /\ commits[i].before.place = "Archive"
    /\ \/ commits[i].after.place = "Memory"
       \/ commits[i].after.status # "forgotten"

RowTellsNote(m) ==
  IF note[m] = NoNote THEN rows[m].status = "reverted"
  ELSE rows[m] = [place |-> note[m].place, status |-> note[m].status]

(* The row follows the note: in no world is it ahead of it, and in a calm  *)
(* one, where one host works, never dies and keeps its journal, it says    *)
(* what the note says whenever nothing is under way, after undos too; a    *)
(* forgotten note brought back is the exception (RestoredIsRecalled).      *)
RowMirrorsNote ==
  /\ RowNeverAhead
  /\ left.calm /\ AllIdle => \A m \in Memories :
    rows[m] # NoRow /\ ~BroughtBack(m) => RowTellsNote(m)

(* There too, a canonical note changes only for an approved operation or   *)
(* an undo: the gates of revise, forget and retire (GateAgainstRaces asks  *)
(* the same of two hosts).                                                 *)
Changes(m) == note'[m] # note[m]

CanonicalStep(m) ==
  /\ Changes(m)
  /\ note[m] # NoNote
  /\ note[m].status = "canonical"

GatedStep ==
  \A m \in Memories : CanonicalStep(m) =>
    \E h \in Hosts : pc'[h] # pc[h] /\ (job[h].apr # 0 \/ job[h].kind = "undo")

CanonicalGate == [][left.calm => GatedStep]_vars

(* A reindex that no other host disturbs leaves a true row for every note, *)
(* whatever a crash or a lost journal made of the rows before.             *)
Healed(m) == note[m] # NoNote => RowTellsNote(m)

ReindexHeals ==
  [][\A h \in Hosts :
       left.hosts = {h} /\ pc[h] = "replay" /\ pc'[h] = "idle" /\ left.crash = left'.crash =>
         \A m \in Memories : Healed(m)']_vars

(* What a host has begun goes on: it waits for no lock but one whose holder *)
(* goes on, so neither for its own (forget takes it twice, undo of a        *)
(* session once for all its reverts) nor for a dead host's.                 *)
NobodyStuck ==
  /\ lock # NoHost => ENABLED Step(lock)
  /\ \A h \in left.hosts : pc[h] # "idle" /\ lock = NoHost => ENABLED Step(h)

(* The store implements the life of a note in a calm world (a note of any   *)
(* other is not looked at).                                                *)
StatusOf(n) == IF n = NoNote \/ ~left.calm THEN "none" ELSE n.status

History(m) == {i \in DOMAIN commits : commits[i].mem = m /\ left.calm}

LifeStatus == [m \in Memories |-> StatusOf(note[m])]
LifeHad == [m \in Memories |->
  {StatusOf(commits[i].after) : i \in History(m)}
  \cup {StatusOf(commits[i].before) : i \in History(m)}]
LifeRestored == {m \in Memories : left.calm /\ BroughtBack(m)}

Life == INSTANCE MemoryLife WITH
  status <- LifeStatus, had <- LifeHad, restored <- LifeRestored

ImplementsLife == Life!Spec

-----------------------------------------------------------------------------
(* Promises the code does not keep; the README names the world of each.    *)

(* "Only for scratch memories" (ttl.ts): the sweep never forgets a memory  *)
(* that was promoted since the list was made.                              *)
SweepOnlyScratch ==
  [][\A m \in Memories, h \in Hosts :
       /\ job[h].kind = "sweep" /\ pc[h] = "flip"
       /\ pc'[h] # pc[h] /\ Changes(m)
       => note[m].status = "scratch"]_vars

(* The gates hold against races: an unapproved operation that was asked    *)
(* for before an approval landed does not change a canonical note.         *)
GateAgainstRaces == [][GatedStep]_vars

(* A held promotion whose memory has moved on is stale, not applied: it    *)
(* never brings a retired or forgotten memory back.                        *)
PromotionNeverRevives ==
  [][\A m \in Memories : Changes(m) /\ NoNote \notin {note[m], note'[m]} =>
       (note[m].status \in {"retired", "forgotten"} /\ note'[m].status = "canonical"
         => commits'[Len(commits')].op = "revert")]_vars

(* A note brought back by undo is brought back to recall: its row is not   *)
(* "reverted" once the undo has ended.                                     *)
RestoredIsRecalled ==
  AllIdle => \A m \in Memories :
    note[m] # NoNote /\ rows[m] # NoRow => rows[m].status # "reverted"

(* Approving again after a crash does not wedge: an approve that runs to   *)
(* its end resolves the approval, the memory being there.                  *)
ReapproveResolves ==
  \A h \in Hosts : pc[h] = "resolve" /\ held[job[h].apr].op = "forget" =>
    (job[h].how = "error" => note[job[h].mem] = NoNote)

(* A rebuilt transactions table says of a reverted commit that it is.      *)
RebuiltKnowsReverts ==
  \A i \in DOMAIN txns : txns[i].op = "create" /\ txns[i].status = "applied" =>
    (AllIdle => note[commits[txns[i].commit].mem] # NoNote)

(* Commit messages carry the memory id, so that a repaired row leads to    *)
(* its memory: undoing the creation of a memory drops it from recall.      *)
GoneIsNotRecalled ==
  AllIdle => \A m \in Memories :
    note[m] = NoNote /\ rows[m] # NoRow => rows[m].status = "reverted"

(* A session is undone newest first whatever made the rows: what is left   *)
(* to undo is older than what is next.                                     *)
RebuiltUndoneNewestFirst ==
  \A h \in Hosts : pc[h] = "undo" =>
    \A i, j \in DOMAIN job[h].queue : i < j =>
      txns[job[h].queue[i]].commit > txns[job[h].queue[j]].commit
=============================================================================
