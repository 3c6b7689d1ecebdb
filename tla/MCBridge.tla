------------------------------ MODULE MCBridge ------------------------------
(***************************************************************************)
(* The worlds of Bridge that TLC explores.                                 *)
(***************************************************************************)
EXTENDS BridgeProperties, TLC

CONSTANTS s1, s2, s3, t1, t2, edit, create, txn, conflict

Kind == edit :> "edit" @@ create :> "create" @@ txn :> "txn" @@ conflict :> "conflict"

World == [servers |-> {s1}, ports |-> {1}, tasks |-> {t1}, items |-> {edit}, serial |-> TRUE,
          crash |-> 0, reuse |-> 0, gestures |-> 0, timeouts |-> 0, edits |-> 0]

(* Three serves, two of which die, and a pid that is taken again. *)
Serve == [World EXCEPT !.servers = {s1, s2, s3}, !.ports = {1, 2}, !.crash = 2, !.reuse = 1]

(* Two clicks at a time on a held edit; one times out, the note moves. *)
Clicks == [World EXCEPT !.tasks = {t1, t2}, !.gestures = 3, !.timeouts = 2, !.edits = 1]

(* A bridge dies and another takes over while a row is acted on. *)
Restart(i) == [World EXCEPT !.servers = {s1, s2}, !.items = {i}, !.crash = 1,
                            !.gestures = 2, !.timeouts = 1]

(* Two serves start at the same time. *)
Overlap == [World EXCEPT !.servers = {s1, s2}, !.ports = {1, 2}, !.serial = FALSE]

LiveWorlds == {Restart(create)}
AllWorlds == {Serve, Clicks, Overlap} \cup {Restart(i) : i \in {create, txn, conflict}}

(* The worlds where the promises that are not kept are seen broken. *)
AtOnce == {Overlap}
Reused == {[World EXCEPT !.servers = {s1, s2}, !.crash = 1, !.reuse = 1]}
Stopped == {[World EXCEPT !.servers = {s1, s2}, !.gestures = 2]}
=============================================================================
