----------------------------- MODULE MCStartup -----------------------------
(***************************************************************************)
(* The worlds of Startup that TLC explores.                                *)
(***************************************************************************)
EXTENDS StartupProperties

CONSTANTS h1, h2

World == [hosts |-> {h1}, shapes |-> {"absent"}, calm |-> FALSE,
          starts |-> 0, inits |-> 0, crash |-> 0, damage |-> 0, wipe |-> 0]

(* Two hosts open a journal of an earlier build; one may die and restart. *)
Upgrade == [World EXCEPT !.hosts = {h1, h2}, !.shapes = {"v02", "v03a"}, !.starts = 2, !.crash = 1]

(* One host, which may die half-way, over and over. *)
Alone == [World EXCEPT !.shapes = {"absent", "v02", "v03a"}, !.starts = 4, !.crash = 3]

(* Nobody dies; two hosts find no journal, or one that is lost later. *)
Calm == [World EXCEPT !.hosts = {h1, h2}, !.calm = TRUE, !.starts = 2, !.wipe = 1]

(* A vault is initialised, damaged, repaired and opened. *)
Fresh == [World EXCEPT !.starts = 1, !.inits = 3, !.crash = 2, !.damage = 1]

AllWorlds == {Upgrade, Alone, Calm, Fresh}

(* The worlds where the promises that are not kept are seen broken. *)
TwoOpen == {[World EXCEPT !.hosts = {h1, h2}, !.shapes = {"v02", "v03a"}, !.starts = 2]}
TwoRebuild == {[World EXCEPT !.hosts = {h1, h2}, !.starts = 2]}
Damaged == {[World EXCEPT !.inits = 3, !.damage = 1, !.crash = 1]}
=============================================================================
