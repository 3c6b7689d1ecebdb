----------------------------- MODULE MemoryLife -----------------------------
(***************************************************************************)
(* What the memory store promises of the status of a note, however many    *)
(* commits, approvals and journal rows it takes: the transitions of the    *)
(* store, and undo, which only ever goes back to a status the note had.    *)
(***************************************************************************)
EXTENDS Naturals

CONSTANT Memories

VARIABLES
  status,   \* the status each note declares, "none" if there is no note
  had,      \* every status it has had
  restored  \* the forgotten memories brought back, in whole or in part

vars == <<status, had, restored>>

Create(m) ==
  /\ status[m] = "none" /\ had[m] = {}
  /\ status' = [status EXCEPT ![m] = "scratch"]
  /\ had' = [had EXCEPT ![m] = {"none", "scratch"}]
  /\ UNCHANGED restored

(* A promotion to canonical was approved by a person: nothing else is      *)
(* asked of the memory when it lands.  Of a memory brought back from the   *)
(* forgotten nothing is promised: its note and its row may disagree.       *)
Allowed(m, to) ==
  \/ status[m] = "scratch" /\ to = "working"
  \/ status[m] # "none" /\ to = "canonical"
  \/ status[m] \in {"working", "canonical"} /\ to = "retired"
  \/ status[m] \in {"scratch", "working", "canonical", "retired"} /\ to = "forgotten"
  \/ m \in restored

BringBack(m) ==
  \/ UNCHANGED restored
  \/ "forgotten" \in had[m] /\ restored' = restored \cup {m}

Change(m) ==
  \E s \in {"working", "canonical", "retired", "forgotten"} :
    /\ Allowed(m, s)
    /\ status' = [status EXCEPT ![m] = s]
    /\ had' = [had EXCEPT ![m] = @ \cup {s}]
    /\ BringBack(m)

(* Undo only ever goes back to a status the note had. *)
GoBack(m) ==
  \E s \in had[m] :
    /\ status' = [status EXCEPT ![m] = s]
    /\ BringBack(m)
    /\ UNCHANGED had

Init ==
  /\ status = [m \in Memories |-> "none"]
  /\ had = [m \in Memories |-> {}]
  /\ restored = {}

Next == \E m \in Memories : Create(m) \/ Change(m) \/ GoBack(m)

Spec == Init /\ [][Next]_vars
=============================================================================
