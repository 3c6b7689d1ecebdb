-------------------------- MODULE DoctorProperties --------------------------
(* What a doctor's report may be relied on for.                             *)
EXTENDS Doctor

Statuses == {"none", "ok", "info", "warn", "fail", "skipped"}

\* The report holds statuses, one for each check that has run; the world keeps
\* to its possible conditions. (doctor.ts: CheckResult.)
TypeOK ==
  /\ world \in Conditions
  /\ pc \in Steps \cup {"idle", "done"}
  /\ results \in [Checks -> Statuses]
  /\ lockLive \in BOOLEAN
  /\ copy \in {"none", "clean", "torn"}
  /\ followed \in Checks \cup {"none"}
  /\ (pc = "done" /\ followed = "none" => \A c \in Checks : results[c] # "none")
  /\ left \in [strict : BOOLEAN, follows : Followers, alone : BOOLEAN, writes : Nat]

\* The install: the tools that have to be there.
Installed(w) == w.native /\ w.gitWorks /\ w.mcp /\ w.cli = w.server /\ w.node >= 20
\* The vault: initialized, tracked, shielded, its journal readable.
WellKept(w) ==
  /\ w.config = "valid" /\ w.permissions = "valid" /\ ~w.exposed /\ w.repo /\ ~w.dups
  /\ w.journal = "whole"
\* The machine: nothing left over.
Tidy(w) == w.lock # "stale" /\ w.bridge \notin {"dead", "malformed"} /\ w.plugin # "outdated"

Reported == pc = "done" /\ followed = "none"

\* Under --strict exit 0 is a clean bill and exit 1 names a fault: where nobody
\* writes meanwhile and no lock is fresh, the verdict is that nothing is wrong with the install,
\* the vault or the machine, also behind the checks that were skipped
\* (runDoctor's cascade, deriveExitCode).
ExitNamesAFault ==
  left.alone /\ world.lock # "fresh" =>
    (DeriveExitCode = 0 <=> Installed(world) /\ WellKept(world) /\ Tidy(world))

\* Writers at work make no run fail: they can cost a warning, never exit 1
\* without --strict (mapJournalProbe, checkLock).
WritersNeverFail == Installed(world) /\ WellKept(world) => DeriveExitCode = 0

\* What a script that runs doctor may conclude from its exit code.
VerdictIsTrue == Reported => IF left.strict THEN ExitNamesAFault ELSE WritersNeverFail

\* Following the reports, by the command each names first or by the correction
\* it allows instead, leads to a clean one that stays, from every vault whose
\* faults are repaired that way: no remediation undoes another (doctor.ts:506).
Converges == left.follows # "nobody" => <>[](Reported /\ DeriveExitCode = 0)

-----------------------------------------------------------------------------
\* What the design document promises of each remediation, "the one command that
\* fixes it": the check would not be bad again.
OneCommandFixes == followed # "none" => LET bad == Found(followed) IN bad \notin {"warn", "fail"}

\* probe.ts:21-24: a torn copy is reported "as 'busy with an active writer'
\* rather than corruption".
BusyNotCorrupt ==
  Reported /\ world.journal = "whole" => results["journal"] # "warn"
=============================================================================
