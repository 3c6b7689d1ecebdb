------------------------------ MODULE MCBroker ------------------------------
(* Instances of Broker for TLC: two hosts, a trusted note and agent notes. *)
EXTENDS BrokerProperties, TLC

CONSTANTS h1, h2, note, draft, copy, secret, a1, a2, c1, c2, g, Governed

MCProvenance == [c \in {c1, c2, g} |-> IF c = g THEN Governed ELSE Plain]
MCZone == [p \in Paths |->
  CASE p = note -> "trusted" [] p = draft -> "agent" [] p = copy -> "scratch"
    [] p = secret -> "excluded"]

Op(kind, path, dest, expected, content) ==
  [kind |-> kind, path |-> path, dest |-> dest, expected |-> expected, content |-> content]
Edit(p, from, to) == Op("revise", p, p, from, to)
NewFile(p, to) == Op("newfile", p, p, Absent, to)
Delete(p, from) == Op("delete", p, p, from, Absent)
Move(p, q, from) == Op("move", p, q, from, Absent)
Create(p, to) == Op("create", p, p, Absent, to)
Archive(p, q) == Op("archive", p, q, Absent, Absent)

(* The vault when it is opened: a person's note git has never seen, an    *)
(* agent's note in the ledger, a note the ledger must not touch.          *)
MCTracked == [p \in Paths |-> IF p = draft THEN c1 ELSE Absent]
MCOnDisk == [p \in Paths |-> IF p = copy THEN Absent ELSE c1]

Symmetry == Permutations(Workers) \cup Permutations(Ids)

(* Two hosts race: edits, moves and deletions of the same notes. *)
RaceProposals == {Edit(note, c1, c2), Delete(note, c1), Move(note, copy, c1), Delete(draft, c1)}
RaceDirect == {Create(copy, c2), Archive(draft, copy)}
Flips == {Edit(draft, c1, g)}

(* An approval waits while the note it is about changes, or is approved   *)
(* by both hosts.                                                         *)
WaitingProposals == {Delete(note, c1), NewFile(note, c2), Delete(draft, c1), Move(draft, copy, c1)}

(* Hosts die: operations on distinct notes and on the same one. *)
CrashProposals == {Edit(note, c1, c2), Move(draft, copy, c1)}
CrashDirect == {Edit(draft, c1, c2)}

(* People edit what the hosts work on, the excluded note included. *)
ZoneProposals == {NewFile(note, c2), Edit(note, c1, c2), Move(draft, secret, c1),
                  Move(note, copy, c1)}
ZoneDirect == {NewFile(note, c2), Edit(note, c1, c2), Edit(secret, c1, c2),
               Archive(draft, note)}

(* Edits and deletions only: no bytes reappear under another name. *)
UndoProposals == {Edit(note, c1, c2), Edit(note, c2, c1), Delete(note, c2), Edit(note, c1, Unappliable)}
UndoDirect == {Create(copy, g)}

(* A note is edited, then moved. *)
MovedProposals == {Edit(note, c1, c2), Move(note, copy, c2)}

AllProposals == RaceProposals \cup WaitingProposals \cup CrashProposals
                  \cup ZoneProposals \cup UndoProposals \cup MovedProposals
AllDirect == RaceDirect \cup CrashDirect \cup ZoneDirect \cup UndoDirect

NoWorld == [proposals |-> {}, direct |-> {}, flips |-> {}, people |-> {},
            requests |-> 0, undo |-> 0, human |-> 0, crash |-> 0, gitfail |-> 0]

Race == [NoWorld EXCEPT !.proposals = RaceProposals, !.direct = RaceDirect,
                        !.requests = 2, !.undo = 1]
Waiting == [NoWorld EXCEPT !.proposals = WaitingProposals, !.flips = Flips, !.requests = 3]
Dying == [NoWorld EXCEPT !.proposals = CrashProposals, !.direct = CrashDirect,
                         !.requests = 2, !.undo = 1, !.crash = 2, !.gitfail = 1]
People == [NoWorld EXCEPT !.proposals = ZoneProposals, !.direct = ZoneDirect, !.flips = Flips,
                          !.people = {c2, Absent}, !.requests = 2, !.human = 1]
Undone == [NoWorld EXCEPT !.proposals = UndoProposals, !.direct = UndoDirect,
                          !.requests = 2, !.undo = 2]
AllWorlds == "race" :> Race @@ "waiting" :> Waiting @@ "dying" :> Dying @@ "people" :> People
               @@ "undone" :> Undone

(* One approval and one direct write, for the liveness run. *)
LiveProposals == {Edit(note, c1, c2)}
LiveDirect == {Create(copy, c2)}
LiveWorlds == "live" :> [NoWorld EXCEPT !.proposals = LiveProposals, !.direct = LiveDirect,
                                       !.requests = 2, !.undo = 1, !.crash = 2]

(* The worlds where the promises that are not kept are seen broken. *)
OneDeath == "death" :> [NoWorld EXCEPT !.direct = CrashDirect, !.requests = 1, !.crash = 1]
Edited == "edited" :> [NoWorld EXCEPT !.proposals = {Delete(draft, c1)}, !.direct = CrashDirect,
                                      !.people = {c1}, !.requests = 2, !.human = 1]
TwoDeciders == "deciders" :> [NoWorld EXCEPT !.proposals = {Edit(note, c1, c2)}, !.requests = 2]
UndoDies == "undo dies" :> [NoWorld EXCEPT !.direct = CrashDirect, !.requests = 1, !.undo = 1, !.crash = 1]
Moved == "moved" :> [NoWorld EXCEPT !.proposals = MovedProposals, !.requests = 2, !.undo = 1]
=============================================================================
