------------------------------ MODULE MCMemory ------------------------------
(***************************************************************************)
(* The worlds of Memory that TLC explores.                                 *)
(***************************************************************************)
EXTENDS MemoryProperties

CONSTANTS h1, h2, m1, m2, v1, v2

World == [hosts |-> {h1}, memories |-> {m1}, bodies |-> {v1}, calm |-> FALSE, requests |-> 0,
          held |-> 0, undo |-> 0, sweep |-> 0, crash |-> 0, loss |-> 0, reindex |-> 0]

(* Two hosts race for one memory; one of them may die. *)
Race == [World EXCEPT !.hosts = {h1, h2}, !.requests = 4, !.held = 1, !.undo = 1,
                      !.sweep = 1, !.crash = 1]

(* One host in a calm world, which revises too. *)
Calm == [World EXCEPT !.bodies = {v1, v2}, !.calm = TRUE, !.requests = 6, !.held = 2, !.undo = 2]

(* Two memories, a crash, a lost journal and a manual reindex. *)
Rebuild == [World EXCEPT !.memories = {m1, m2}, !.requests = 3, !.held = 1, !.undo = 1,
                         !.crash = 1, !.loss = 1, !.reindex = 1]

AllWorlds == {Race, Calm, Rebuild}

(* The worlds where the promises that are not kept are seen broken. *)
TwoRequests == {[World EXCEPT !.hosts = {h1, h2}, !.requests = 2, !.sweep = 1]}
Held == {[World EXCEPT !.hosts = {h1, h2}, !.requests = 5, !.held = 1]}
Reapproved == {[World EXCEPT !.requests = 7, !.held = 2, !.crash = 1]}
Undone == {[World EXCEPT !.requests = 2, !.undo = 1, !.loss = 1]}
Ghost == {[World EXCEPT !.requests = 1, !.undo = 1, !.crash = 1]}
=============================================================================
