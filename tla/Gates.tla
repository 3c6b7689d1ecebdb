-------------------------------- MODULE Gates --------------------------------
(***************************************************************************)
(* What stands between a request and the vault, decided without any other  *)
(* process: the zone of a note (Policy), the guards on a revise (Governed) *)
(* and applyPatch (Patch).  A behaviour of this module is one of one of    *)
(* them; the variables of the others keep a value that says nothing.       *)
(***************************************************************************)
EXTENDS Integers, Sequences, FiniteSets

CONSTANTS
  Segments, SkippedDirs, Vaults,                \* Policy
  Frontmatters, Nodes, Dates, Scalars, Strings, \* Governed
  Texts, NewText, MaxLines, MaxHunks, MaxHunkLines, LineBytes, Threshold   \* Patch

VARIABLES
  gate,
  world, folders, manifest, report, refused, edits,   \* Policy
  frontmatters, before, after, verdict, calls, equal, cached, revises,   \* Governed
  original, hunks, jsdiff, watch, outcome   \* Patch

policyVars == <<world, folders, manifest, report, refused, edits>>
governedVars == <<frontmatters, before, after, verdict, calls, equal, cached, revises>>
patchVars == <<original, hunks, jsdiff, watch, outcome>>
vars == <<gate, policyVars, governedVars, patchVars>>

Zone == INSTANCE PolicyProperties WITH Worlds <- Vaults
Guards == INSTANCE GovernedProperties WITH world <- frontmatters, Worlds <- Frontmatters
Diff == INSTANCE PatchProperties WITH LandingFuzz <- 0

ASSUME Parameters ==
  Zone!WorldsAssumption /\ Guards!WorldsAssumption /\ Diff!PatchAssumption

-----------------------------------------------------------------------------
NoZones ==
  /\ world = "none" /\ folders = {} /\ manifest = Zone!NoManifest /\ report = Zone!NoReport
  /\ refused = FALSE /\ edits = 0
NoGuards ==
  /\ frontmatters = "none" /\ before = "none" /\ after = "none" /\ verdict = "none"
  /\ calls = <<>> /\ equal = {} /\ cached = {} /\ revises = 0
NoDiff == original = <<>> /\ hunks = <<>> /\ jsdiff = <<>> /\ watch = <<>> /\ outcome = "none"

Init ==
  \/ gate = "policy" /\ Zone!Init /\ NoGuards /\ NoDiff
  \/ gate = "governed" /\ NoZones /\ Guards!Init /\ NoDiff
  \/ gate = "patch" /\ NoZones /\ NoGuards /\ Diff!Init

Next ==
  \/ gate = "policy" /\ Zone!Next /\ UNCHANGED <<gate, governedVars, patchVars>>
  \/ gate = "governed" /\ Guards!Next /\ UNCHANGED <<gate, policyVars, patchVars>>
  \/ gate = "patch" /\ Diff!Next /\ UNCHANGED <<gate, policyVars, governedVars>>

Spec == Init /\ [][Next]_vars

-----------------------------------------------------------------------------
(* The properties of the three, each where it applies.                     *)

(* Setup proposes no manifest that leaves a note of a Private folder in    *)
(* the agent's reach (Policy's ProposedIsSafe).                            *)
ProposedIsSafe == Zone!ProposedIsSafe

(* What doctor passes is so, and stays so as long as nobody edits the      *)
(* manifest (CleanBillLasts).                                              *)
CleanBillLasts == Zone!CleanBillLasts

(* The zone of every note is the one the rules give it (ZoneIsByTheBook).  *)
ZoneIsByTheBook == gate = "policy" => Zone!ZoneIsByTheBook

(* A revise that is let through kept the provenance but for the instants   *)
(* of dates, and one that is refused for it did not (Governed's            *)
(* GuardIsExact).                                                          *)
GuardIsExact == gate = "governed" => Guards!GuardIsExact

(* An accepted patch did what its headers say, an honest one is accepted   *)
(* (Patch's AppliedAsDeclared).                                            *)
AppliedAsDeclared == gate = "patch" => Diff!AppliedAsDeclared

-----------------------------------------------------------------------------
(* Not kept: a revise that corrupts the frontmatter is refused, and passes *)
(* when it is sent again (Governed's CorruptStaysOut).                     *)
CorruptStaysOut == gate = "governed" => Guards!CorruptStaysOut

(* Not kept: a date in the ledger block may become another one (Governed's *)
(* GuardSeesDates).                                                        *)
GuardSeesDates == gate = "governed" => Guards!GuardSeesDates

(* Not kept: a ledger block that holds a NaN is never found unchanged      *)
(* (Governed's UnchangedPasses).                                           *)
UnchangedPasses == gate = "governed" => Guards!UnchangedPasses
=============================================================================
