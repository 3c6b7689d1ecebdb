------------------------------ MODULE MCDoctor ------------------------------
(* Vaults and installs for TLC.                                             *)
EXTENDS DoctorProperties

Healthy ==
  [config |-> "valid", permissions |-> "valid", exposed |-> FALSE, native |-> TRUE,
   mcp |-> TRUE, cli |-> 1, server |-> 1, node |-> 22, gitWorks |-> TRUE, repo |-> TRUE,
   dups |-> FALSE, journal |-> "whole", lock |-> "free", bridge |-> "none", plugin |-> "none"]

\* An uninitialized vault has no id, so nothing outside it yet.
Possible(w) == w.config # "valid" => w.journal = "absent" /\ w.lock = "free" /\ w.bridge = "none"

VaultWorlds ==
  {w \in [config : {"valid", "missing", "corrupt"}, permissions : {"valid", "missing", "corrupt"},
     exposed : BOOLEAN, native : BOOLEAN, mcp : {TRUE}, cli : {1}, server : {1}, node : {22},
     gitWorks : BOOLEAN, repo : BOOLEAN, dups : BOOLEAN,
     journal : {"absent", "empty", "whole", "corrupt"}, lock : {"free", "fresh", "stale"},
     bridge : {"none", "live", "dead", "malformed"}, plugin : {"none"}] : Possible(w)}
InstallWorlds ==
  {[Healthy EXCEPT !.native = a, !.mcp = b, !.server = v, !.node = n, !.plugin = p,
                   !.config = c, !.journal = IF c = "valid" THEN "whole" ELSE "absent"] :
     a \in BOOLEAN, b \in BOOLEAN, v \in 1 .. 2, n \in {18, 20, 22},
     p \in {"none", "current", "outdated"}, c \in {"valid", "missing"}}
Faulty == VaultWorlds \cup InstallWorlds

\* The faults that a remediation repairs: what setup should do is still to be
\* done, no file is there that cannot be read, and a manifest of an initialized
\* vault that exposes a folder is corrected by hand.
Repairable(w, follows) ==
  /\ w.config # "corrupt" /\ w.journal # "corrupt" /\ w.lock # "fresh"
  /\ w.config = "valid" => w.permissions = "valid" /\ w.repo /\ (follows = "commands" => ~w.exposed)

Busy == {[Healthy EXCEPT !.lock = l, !.bridge = b, !.plugin = p] :
           l \in {"free", "fresh", "stale"}, b \in {"none", "live"}, p \in {"none", "current"}}

Use(worlds, strict, follows, writes) ==
  [world : worlds, strict : {strict}, follows : {follows}, writes : {writes}]

\* One strict run on every fault; doctor, remediations and doctor again; and a
\* plain run while others write.
AllWorlds == Use(Faulty, TRUE, "nobody", 0)
               \cup UNION {Use({w \in Faulty : Repairable(w, f)}, TRUE, f, 0) : f \in {"commands", "edits"}}
               \cup Use(Busy, FALSE, "nobody", 4)

\* The vaults that no remediation repairs, and a writer without the lock.
NoRepo == Use({[Healthy EXCEPT !.repo = FALSE]}, TRUE, "commands", 0)
NoPermissions == Use({[Healthy EXCEPT !.permissions = "missing"]}, TRUE, "commands", 0)
CorruptConfig == Use({[Healthy EXCEPT !.config = "corrupt", !.journal = "absent"]}, TRUE, "commands", 0)
CorruptJournal == Use({[Healthy EXCEPT !.journal = "corrupt"]}, TRUE, "commands", 0)
ExposedFolder == Use({[Healthy EXCEPT !.exposed = TRUE]}, TRUE, "commands", 0)
Migrating == Use({Healthy}, FALSE, "nobody", 2)
=============================================================================
