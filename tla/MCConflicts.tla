----------------------------- MODULE MCConflicts -----------------------------
(***************************************************************************)
(* The worlds of Conflicts that TLC explores: two dates, a value that was  *)
(* not understood, and a claim with its negation.                          *)
(***************************************************************************)
EXTENDS ConflictsProperties

CONSTANTS h1, h2

Date(v, claim) == [fact |-> [type |-> "date", value |-> v], claim |-> claim]
Unclear == [fact |-> [type |-> "unparseable", value |-> "4/5"], claim |-> "is"]
Opposed == {Date("Mon", "is"), Date("Tue", "is not")}
TwoDates == {Date("Mon", "silent"), Date("Tue", "silent")}
AllTexts == Opposed \cup TwoDates \cup {Unclear}

World == [hosts |-> {h1}, memories |-> 1..2, texts |-> TwoDates, established |-> {1},
          calm |-> FALSE, written |-> FALSE, write |-> 0, promote |-> 0, undo |-> 0,
          crash |-> 0, rebuild |-> 0, close |-> 0, scan |-> 0]

(* Two hosts write two live memories while a person closes a row. *)
Race == [World EXCEPT !.hosts = {h1, h2}, !.texts = Opposed \cup {Unclear},
                      !.established = {1, 2}, !.written = TRUE, !.write = 3, !.close = 1]

(* One host distills from two live memories, undoes and rebuilds. *)
Calm == [World EXCEPT !.memories = 1..3, !.texts = Opposed, !.established = {2, 3},
                      !.calm = TRUE, !.write = 3, !.undo = 1, !.rebuild = 1]

(* Hooks lost to a death, a promotion or a rebuild, and a scan then. *)
Scanned == [World EXCEPT !.memories = 1..3, !.write = 2, !.promote = 1,
                         !.crash = 1, !.rebuild = 1, !.scan = 1]

(* A source that is gone, with its row: undone and lost in a rebuild. *)
Gone == [World EXCEPT !.texts = {Unclear}, !.established = {}, !.write = 2, !.undo = 1,
                      !.rebuild = 1, !.scan = 1]

AllWorlds == {Race, Calm, Scanned, Gone}

(* The worlds where the promises that are not kept are seen broken. *)
Promoted == {[World EXCEPT !.write = 2, !.promote = 2]}
Closed == {[World EXCEPT !.hosts = {h1, h2}, !.texts = Opposed, !.established = {1, 2},
                         !.write = 1, !.close = 2]}
Distilled == {[World EXCEPT !.hosts = {h1, h2}, !.write = 2, !.undo = 1]}
=============================================================================
