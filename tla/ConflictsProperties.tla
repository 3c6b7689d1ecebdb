------------------------- MODULE ConflictsProperties -------------------------
(***************************************************************************)
(* What the conflicts table owes the memories, and what it fails to say.   *)
(***************************************************************************)
EXTENDS Conflicts

Kinds == {"value-conflict", "negation-conflict", "stale-source"}
Steps == {"idle", "create", "relate", "patch", "check", "stale", "flag", "resolved", "dismissed",
          "audit", "rescan"}
Edges == {e \in Memories \X Memories : e[1] # e[2]}

IsJob(j) ==
  /\ j = [kind |-> j.kind, mem |-> j.mem, before |-> j.before, after |-> j.after,
          todo |-> j.todo, key |-> j.key]
  /\ j.mem \in Memories \cup {NoMem}
  /\ {j.before, j.after} \subseteq Notes \cup {NoNote}
  /\ j.todo \subseteq IF j.kind = "audit" THEN Edges ELSE Memories

IsKey(k) == k.kind \in Kinds /\ {k.lo, k.hi} \subseteq Memories /\ k.lo < k.hi

(* Everything has its type; a row has two sides, in id order.              *)
TypeOK ==
  /\ fresh \subseteq Memories
  /\ notes \in [Memories -> Notes \cup {NoNote}]
  /\ rows \in [Memories -> MemoryRows \cup {NoRow}]
  /\ relations \subseteq Edges
  /\ \A k \in DOMAIN conflicts : IsKey(k) /\ conflicts[k] \in {"open", "resolved", "dismissed"}
  /\ past \in [Memories -> Seq(Notes \cup {NoNote})]
  /\ pc \in [Hosts -> Steps]
  /\ job = [h \in Hosts |-> job[h]] /\ \A h \in Hosts : IsJob(job[h])

(* Two live beliefs that may not both be true, neither replacing the other. *)
AtOdds(m, p) ==
  /\ m < p
  /\ notes[m] # NoNote /\ notes[p] # NoNote
  /\ {Status(m), Status(p)} \subseteq Live
  /\ p \notin Lineage(m)
  /\ Detect(notes[m].text, notes[p].text) # {}

RowsOf(m, p) ==
  {[kind |-> c.kind, lo |-> m, hi |-> p, detail |-> c.detail] :
     c \in Detect(notes[m].text, notes[p].text)}

(* Whatever two hosts write at the same time, a live belief is never       *)
(* contradicted in silence: whoever commits last sees the other in its     *)
(* check.  A promotion, an undo, a lost journal or a death is the          *)
(* exception, of which PromotedIsChecked is about the first.  Each value is *)
(* given to the memory that says it: who forgets the wrong side would lose *)
(* the right one.                                                          *)
ContradictionFlagged ==
  left.written /\ AllIdle =>
    \A m, p \in Memories : AtOdds(m, p) => RowsOf(m, p) \subseteq DOMAIN conflicts

(* What a person has closed is never opened again by a check, a flag, an   *)
(* audit or a rescan that finds the same again.                            *)
ClosedStaysClosed ==
  [][\A k \in DOMAIN conflicts \cap DOMAIN conflicts' :
       conflicts[k] # "open" => conflicts'[k] # "open"]_vars

DeadNow(s) == Status(s) \in Dead \cup {"missing"}

FlagOf(d, s) == \E k \in DOMAIN conflicts :
  /\ k.kind = "stale-source"
  /\ k.detail[1] = d /\ k.detail[2] = s /\ k.detail[3] = Status(s)

(* A source that dies after it was cited is flagged on every distillation  *)
(* that cites it, where no host dies between the write and the hook.       *)
DeathFlagged ==
  [][left.calm => \A s \in Memories, h \in Hosts :
       pc[h] = "flag" /\ job[h].mem = s /\ pc'[h] = "idle" =>
         \A d \in Memories : notes[d] # NoNote /\ s \in notes[d].cites /\ notes[s] # NoNote =>
           FlagOf(d, s)']_vars

(* The edges are what the notes cite, whenever nothing is under way: after *)
(* a retirement, a revise, an undo or a rebuild, in a calm world           *)
(* (CitationsGoWithTheNote asks it of the others).                         *)
RelationsTellCitations ==
  left.calm /\ AllIdle => \A d \in Memories :
    {e[2] : e \in {r \in relations : r[1] = d}} = (IF notes[d] = NoNote THEN {} ELSE notes[d].cites)

(* An audit leaves no live distillation citing a dead or missing source    *)
(* without a row, and a rescan no contradiction, promoted beliefs included: *)
(* whatever undo, a death or a rebuild let slip is found again, where no   *)
(* other host writes behind the back of the sweep.                         *)
Completes(h, sweep) == pc[h] = sweep /\ pc'[h] = "idle" /\ left'.crash = left.crash

SweepsFind ==
  [][\A h \in Hosts : left.hosts = {h} =>
       /\ Completes(h, "audit") =>
            \A e \in relations : Status(e[1]) \in Live \cup {"scratch"} /\ DeadNow(e[2]) =>
              FlagOf(e[1], e[2])
       /\ Completes(h, "rescan") =>
            \A m, p \in Memories : AtOdds(m, p) => RowsOf(m, p) \subseteq DOMAIN conflicts]_vars

-----------------------------------------------------------------------------
(* Promises the code does not keep; the README names the world of each.    *)

(* "canonical is never silently contradicted" (matcher.ts): not by a       *)
(* belief that was promoted next to it either.                             *)
PromotedIsChecked ==
  AllIdle => \A m, p \in Memories :
    AtOdds(m, p) /\ "canonical" \in {Status(m), Status(p)} =>
      RowsOf(m, p) \subseteq DOMAIN conflicts

(* A terminal state is not overwritten: dismissed does not flip to         *)
(* resolved, nor the other way round.                                      *)
TerminalStaysTerminal ==
  [][\A k \in DOMAIN conflicts \cap DOMAIN conflicts' :
       conflicts[k] # "open" => conflicts'[k] = conflicts[k]]_vars

(* Undo of a distillation takes its edges along: none dangles.             *)
CitationsGoWithTheNote ==
  AllIdle => \A e \in relations : notes[e[1]] # NoNote

(* A distillation is flagged stale when a source it cites is revised, in   *)
(* the queue that a person reads.                                          *)
RevisedSourceIsShown ==
  [][\A h \in Hosts : pc[h] = "stale" /\ pc'[h] = "idle" =>
       \A k \in DOMAIN conflicts' \ DOMAIN conflicts : Showable(k)']_vars

(* "a distillation must never cite a source whose content no longer exists *)
(* in the vault": not when it is created either.                           *)
CitesWhatExists ==
  [][\A d, s \in Memories : notes[d] = NoNote /\ notes'[d] # NoNote /\ s \in notes'[d].cites =>
       Status(s)' \notin {"forgotten", "reverted"}]_vars
=============================================================================
