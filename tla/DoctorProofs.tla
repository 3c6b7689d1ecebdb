------------------------------ MODULE DoctorProofs ------------------------------
(***************************************************************************)
(* The verdict of `ledger doctor` for every vault and install: what a      *)
(* check found still stands when the report is made, and the cascade hides *)
(* no fault that the report does not already name.                         *)
(***************************************************************************)
EXTENDS DoctorProperties, TLAPS

(* The checks by name, and the place of each.                              *)
LEMMA TheSteps ==
  Steps = {"config", "permissions", "native-deps", "git", "mcp", "versions", "sync-artifacts",
           "zone-integrity", "lock", "copy", "journal", "bridge", "plugin"}
<1>1. DOMAIN Order = 1 .. 13 /\ Len(Order) = 13
  BY DEF Order
<1>2. 1 .. 13 = {1, 2, 3, 4, 5, 6, 7, 8, 9, 10, 11, 12, 13}
  OBVIOUS
<1> QED
  BY <1>1, <1>2 DEF Steps, Order

LEMMA TheChecks ==
  Checks = {"config", "permissions", "native-deps", "git", "mcp", "versions", "sync-artifacts",
            "zone-integrity", "lock", "journal", "bridge", "plugin"}
BY TheSteps DEF Checks

LEMMA Places ==
  /\ Place("config") = 1 /\ Place("permissions") = 2 /\ Place("native-deps") = 3
  /\ Place("git") = 4 /\ Place("mcp") = 5 /\ Place("versions") = 6
  /\ Place("sync-artifacts") = 7 /\ Place("zone-integrity") = 8 /\ Place("lock") = 9
  /\ Place("copy") = 10 /\ Place("journal") = 11 /\ Place("bridge") = 12
  /\ Place("plugin") = 13
<1>1. DOMAIN Order = 1 .. 13
  BY DEF Order
<1>2. ASSUME NEW i \in DOMAIN Order PROVE Place(Order[i]) = i
  <2>1. \A j \in DOMAIN Order : Order[j] = Order[i] => j = i
    BY <1>1 DEF Order
  <2> QED
    BY <2>1 DEF Place
<1> QED
  BY <1>1, <1>2 DEF Order

LEMMA Afters ==
  /\ After("config") = "permissions" /\ After("permissions") = "native-deps"
  /\ After("native-deps") = "git" /\ After("git") = "mcp" /\ After("mcp") = "versions"
  /\ After("versions") = "sync-artifacts" /\ After("sync-artifacts") = "zone-integrity"
  /\ After("zone-integrity") = "lock" /\ After("lock") = "copy"
  /\ After("journal") = "bridge" /\ After("bridge") = "plugin" /\ After("plugin") = "done"
BY Places DEF After, Order

(* engines.node is met by 20 and what follows.                             *)
LEMMA InRange == \A v \in Nat : NodeInEnginesRange(v) <=> v >= 20
<1>1. DOMAIN Engines = {1} /\ Engines[1] = [op |-> ">=", bound |-> 20]
  BY DEF Engines
<1> QED
  BY <1>1 DEF NodeInEnginesRange

-----------------------------------------------------------------------------
(* the types                                                               *)

LEMMA SetupTyped ==
  ASSUME NEW w \in Conditions, NEW b \in BOOLEAN
  PROVE  Setup(w, b) \in Conditions
<1> DEFINE i == [w EXCEPT !.repo = TRUE, !.permissions = "valid", !.exposed = FALSE,
                          !.config = "valid", !.journal = "absent",
                          !.lock = "free", !.bridge = "none"]
           x == IF w.config = "missing" THEN i ELSE w
           s == Opened(x)
<1>1. i \in Conditions
  BY ZenonT(30) DEF Conditions
<1>2. x \in Conditions
  BY <1>1
<1> HIDE DEF x
<1>3. s \in Conditions
  BY <1>2 DEF Opened, Conditions
<1> HIDE DEF s
<1>4. [s EXCEPT !.plugin = "current"] \in Conditions
  BY <1>3 DEF Conditions
<1> USE DEF x, s
<1> QED
  BY <1>2, <1>3, <1>4 DEF Setup

LEMMA RemediesTyped ==
  ASSUME world \in Conditions, NEW c \in Checks
  PROVE  Remedied(c) \in Conditions
<1> DEFINE v == CHOOSE n \in 18 .. 24 : NodeInEnginesRange(n)
<1>1. v \in Nat
  <2>1. 20 \in 18 .. 24 /\ NodeInEnginesRange(20)
    BY InRange
  <2>2. v \in 18 .. 24
    BY <2>1
  <2>3. 18 .. 24 \subseteq Nat
    OBVIOUS
  <2> QED
    BY <2>2, <2>3, Zenon
<1> HIDE DEF v
<1>2. Opened(world) \in Conditions
  BY DEF Opened, Conditions
<1>3. Serve(world) \in Conditions
  BY <1>2 DEF Serve, Conditions
<1>4. [world EXCEPT !.gitWorks = TRUE] \in Conditions /\ [world EXCEPT !.native = TRUE] \in Conditions
  BY DEF Conditions
<1>5. [world EXCEPT !.mcp = TRUE, !.server = world.cli] \in Conditions
  BY DEF Conditions
<1>6. [world EXCEPT !.node = v] \in Conditions
  BY <1>1 DEF Conditions
<1>7. /\ [world EXCEPT !.dups = FALSE] \in Conditions
      /\ [world EXCEPT !.exposed = FALSE] \in Conditions
      /\ [world EXCEPT !.lock = "free"] \in Conditions
  BY DEF Conditions
<1> USE DEF v
<1> QED
  BY <1>2, <1>3, <1>4, <1>5, <1>6, <1>7, SetupTyped, TheChecks DEF Remedied

(* What a check finds is a status.                                         *)
LEMMA FoundTyped ==
  ASSUME TypeOK, NEW c \in Checks
  PROVE  Found(c) \in Statuses \ {"none", "skipped"}
<1>1. CompareVersions \in {"info", "warn"}
  BY DEF CompareVersions, TypeOK, Conditions
<1>2. MapJournalProbe \in {"ok", "info", "warn"} /\ MapGitProbe \in {"ok", "fail"}
  BY DEF MapJournalProbe, MapGitProbe
<1>3. CheckBridge \in {"ok", "info", "warn"} /\ MapPluginFreshness \in {"ok", "info", "warn"}
  BY DEF CheckBridge, MapPluginFreshness, TypeOK, Conditions
<1> QED
  BY <1>1, <1>2, <1>3, TheChecks DEF Found, Statuses

(* The checks that have a status are those before the one being made.      *)
At == IF pc = "done" THEN 14 ELSE Place(pc)
PassedInv ==
  /\ pc \in Steps => followed = "none"
  /\ pc # "idle" /\ followed = "none" => \A c \in Checks : results[c] # "none" <=> Place(c) < At

LEMMA PassedMeans ==
  ASSUME TypeOK, PassedInv, Reported, NEW c \in Checks
  PROVE  results[c] # "none"
BY Places, TheChecks DEF PassedInv, At, Reported

LEMMA Afterwards ==
  ASSUME NEW c \in Checks
  PROVE  /\ After(c) \in Steps \cup {"done"}
         /\ Place(c) \in Nat
         /\ (IF After(c) = "done" THEN 14 ELSE Place(After(c))) = Place(c) + 1
BY Afters, Places, TheSteps, TheChecks

LEMMA PlacesDiffer == \A c, d \in Steps : Place(c) = Place(d) => c = d
BY Places, TheSteps

(* Of the bad checks one comes first in the report.                        *)
LEMMA FirstOfBad ==
  ASSUME Bad # {}
  PROVE  \E b \in Bad : \A d \in Bad : Place(b) <= Place(d)
<1> DEFINE Before(n) == \E b \in Bad : Place(b) <= n
<1>1. \A b \in Bad : Place(b) \in 1 .. 13
  BY Places, TheChecks DEF Bad
<1>2. Before(13)
  BY <1>1
<1>3. ~Before(0)
  BY <1>1
<1>4. PICK n \in 0 .. 12 : ~Before(n) /\ Before(n + 1)
  <2> HIDE DEF Before
  <2>1. SUFFICES ASSUME \A n \in 0 .. 12 : Before(n) \/ ~Before(n + 1) PROVE FALSE
    OBVIOUS
  <2>2. /\ ~Before(1) /\ ~Before(2) /\ ~Before(3) /\ ~Before(4) /\ ~Before(5) /\ ~Before(6)
        /\ ~Before(7) /\ ~Before(8) /\ ~Before(9) /\ ~Before(10) /\ ~Before(11) /\ ~Before(12)
    BY <2>1, <1>3
  <2> QED
    BY <2>1, <2>2, <1>2
<1>5. PICK b \in Bad : Place(b) <= n + 1
  BY <1>4
<1>6. \A d \in Bad : ~(Place(d) <= n)
  BY <1>4
<1> QED
  BY <1>1, <1>5, <1>6

LEMMA TypeStep ==
  ASSUME TypeOK, PassedInv, Next
  PROVE  TypeOK' /\ PassedInv'
<1> USE DEF TypeOK
<1>1. CASE Begin
  <2>1. NotRun \in [Checks -> Statuses] /\ \A c \in Checks : NotRun[c] = "none"
    BY DEF NotRun, Statuses
  <2>2. pc' = "config" /\ results' = NotRun /\ followed' = "none" /\ At' = 1
    BY <1>1, Places DEF Begin, At
  <2>3. \A c \in Checks : ~(Place(c) < 1)
    BY Places, TheChecks
  <2>4. PassedInv'
    BY <2>1, <2>2, <2>3 DEF PassedInv
  <2> QED
    BY <1>1, <2>1, <2>4, TheSteps DEF Begin
<1>2. CASE Check
  <2> DEFINE found == IF Skipped(pc) THEN "skipped" ELSE Found(pc)
  <2>1. found \in Statuses \ {"none"}
    BY <1>2, FoundTyped DEF Check, Statuses
  <2> HIDE DEF found
  <2>2. results' = [results EXCEPT ![pc] = found] /\ pc \in Checks
    BY <1>2 DEF Check, found
  <2>3. results' \in [Checks -> Statuses]
    BY <2>1, <2>2
  <2>4. followed = "none" /\ followed' = "none" /\ pc' = After(pc)
    BY <1>2 DEF Check, PassedInv, Checks
  <2>5. At = Place(pc) /\ At' = At + 1 /\ At \in Nat
    BY <2>2, <2>4, Afterwards, TheChecks DEF At
  <2>6. \A c \in Checks : results'[c] # "none" <=> Place(c) < At'
    <3> TAKE c \in Checks
    <3>1. CASE c = pc
      BY <2>1, <2>2, <2>5, <3>1
    <3>2. CASE c # pc
      <4>1. Place(c) # Place(pc) /\ Place(c) \in Nat
        BY <2>2, <3>2, PlacesDiffer, Afterwards DEF Checks
      <4>2. results[c] # "none" <=> Place(c) < At
        BY <2>2, <2>4, TheChecks DEF PassedInv
      <4> QED
        BY <2>2, <2>5, <3>2, <4>1, <4>2
    <3> QED
      BY <3>1, <3>2
  <2>7. PassedInv'
    BY <2>4, <2>6 DEF PassedInv
  <2>8. lockLive' \in BOOLEAN
    BY <1>2 DEF Check
  <2>9. pc' = "done" => \A c \in Checks : results'[c] # "none"
    BY <2>6, Places, TheChecks DEF At
  <2> QED
    BY <1>2, <2>3, <2>4, <2>7, <2>8, <2>9, Afterwards DEF Check
<1>3. CASE CopyJournal
  BY <1>3, Places, TheSteps, TheChecks DEF CopyJournal, PassedInv, At
<1>4. CASE Other
  BY <1>4 DEF Other, TakeLock, WriteLocked, DropLock, WriteUnlocked, Writing, Touch, Conditions,
              PassedInv, At
<1>5. CASE Follow
  <2>1. PICK c \in Bad : world' = Remedied(c) /\ followed' = c /\ results' = [results EXCEPT ![c] = "none"]
    <3> DEFINE c == CHOOSE b \in Bad : \A d \in Bad : Place(b) <= Place(d)
    <3>1. c \in Bad
      BY <1>5, FirstOfBad DEF Follow
    <3> QED
      BY <1>5, <3>1 DEF Follow
  <2>2. c \in Checks /\ world' \in Conditions
    BY <2>1, RemediesTyped DEF Bad
  <2>3. results' \in [Checks -> Statuses]
    BY <2>1, <2>2 DEF Statuses
  <2>4. c # "none" /\ pc' = "done" /\ pc' \notin Steps
    BY <1>5, <2>2, TheChecks, TheSteps DEF Follow
  <2>5. PassedInv'
    BY <2>1, <2>4 DEF PassedInv
  <2> QED
    BY <1>5, <2>1, <2>2, <2>3, <2>4, <2>5 DEF Follow
<1>6. CASE Again
  BY <1>6, TheSteps, TheChecks DEF Again, PassedInv, At
<1> QED
  BY <1>1, <1>2, <1>3, <1>4, <1>5, <1>6 DEF Next, Run

-----------------------------------------------------------------------------
(* the verdict                                                             *)

Running == followed = "none" /\ pc # "idle"

(* What a check said is still so: where nobody writes, the world stands    *)
(* still while doctor looks at it.                                         *)
Right(c) == results[c] = IF Skipped(c) THEN "skipped" ELSE Found(c)
RightInv ==
  left.alone =>
    /\ left.writes = 0 /\ copy # "torn"
    /\ Running => /\ \A c \in Checks : results[c] # "none" => Right(c)
                  /\ lockLive => world.lock = "fresh"

(* Where writers are at work, what they touch makes no check fail.         *)
UnfailingInv ==
  Running /\ Installed(world) /\ WellKept(world) => \A c \in Checks : results[c] # "fail"

(* A check that a later one does not feed finds what it found.             *)
LEMMA FoundStands ==
  ASSUME TypeOK, NEW c \in Checks, world' = world, c = "journal" => copy' = copy /\ lockLive' = lockLive
  PROVE  Found(c)' = Found(c)
BY TheChecks DEF Found, MapGitProbe, CompareVersions, MapJournalProbe, CheckBridge,
   MapPluginFreshness

LEMMA SkippedStands ==
  ASSUME TypeOK, PassedInv, Check, NEW c \in Checks, results'[c] # "none"
  PROVE  Skipped(c)' = Skipped(c)
<1>1. pc \in Checks /\ followed = "none" /\ pc # "idle"
  BY TheChecks DEF Check, PassedInv, Checks
<1>2. results'[c] # "none" => c = pc \/ results[c] # "none"
  BY <1>1 DEF Check, TypeOK
<1>3. Place(c) <= Place(pc)
  <2>1. \A d \in Checks : results[d] # "none" <=> Place(d) < Place(pc)
    BY <1>1, TheChecks DEF PassedInv, At
  <2> QED
    BY <1>1, <1>2, <2>1, Afterwards
<1>4. /\ c \in VaultDependent => pc # "config"
      /\ c = "zone-integrity" => pc # "permissions"
  BY <1>1, <1>3, Places, TheChecks DEF VaultDependent
<1>5. /\ pc # "config" => results'["config"] = results["config"]
      /\ pc # "permissions" => results'["permissions"] = results["permissions"]
  BY <1>1, TheChecks DEF Check, TypeOK
<1> QED
  BY <1>4, <1>5 DEF Skipped

LEMMA RightStep ==
  ASSUME TypeOK, PassedInv, RightInv, Next
  PROVE  RightInv'
<1> SUFFICES ASSUME left'.alone PROVE RightInv'
  BY DEF RightInv
<1>1. left.alone /\ left.writes = 0 /\ copy # "torn" /\ ~Other /\ left' = left
  <2>1. ~Other \/ left.writes > 0
    BY DEF Other, TakeLock, WriteLocked, DropLock, WriteUnlocked, Writing
  <2>2. CASE Other
    <3>1. left' = [left EXCEPT !.writes = @ - 1]
      BY <2>2 DEF Other, TakeLock, WriteLocked, DropLock, WriteUnlocked, Writing
    <3>2. left.alone
      BY <3>1 DEF TypeOK
    <3> QED
      BY <2>1, <2>2, <3>2 DEF RightInv, TypeOK
  <2>3. CASE ~Other
    BY <2>3 DEF Next, Run, Begin, Check, CopyJournal, Follow, Again, RightInv
  <2> QED
    BY <2>2, <2>3
<1>2. CASE Begin
  BY <1>1, <1>2 DEF Begin, NotRun, RightInv
<1>3. CASE Check
  <2>1. pc \in Checks /\ Running
    BY <1>3, TheChecks DEF Check, PassedInv, Checks, Running
  <2>2. lockLive' => world'.lock = "fresh"
    BY <1>1, <1>3, <2>1 DEF Check, RightInv
  <2>3. ASSUME NEW c \in Checks, results'[c] # "none"
        PROVE  Right(c)'
    <3>1. Skipped(c)' = Skipped(c)
      BY <1>3, <2>3, SkippedStands
    <3>2. c = "journal" => pc # "lock" /\ copy' = copy /\ lockLive' = lockLive
      <4>1. c = "journal" => Place(c) <= Place(pc)
        BY <1>3, <2>1, <2>3, Places, TheChecks DEF Check, PassedInv, At, TypeOK, Running
      <4> QED
        BY <1>3, <4>1, Places DEF Check
    <3>3. Found(c)' = Found(c)
      BY <1>3, <3>2, FoundStands DEF Check
    <3>4. results'[c] = IF Skipped(c) THEN "skipped" ELSE Found(c)
      BY <1>1, <1>3, <2>1, <2>3 DEF Check, RightInv, Right, TypeOK
    <3> QED
      BY <3>1, <3>3, <3>4 DEF Right
  <2> QED
    BY <1>1, <1>3, <2>2, <2>3 DEF RightInv, Check
<1>4. CASE CopyJournal
  <2>1. Running /\ results["journal"] = "none"
    BY <1>4, Places, TheSteps, TheChecks DEF CopyJournal, PassedInv, At, Running
  <2>2. ASSUME NEW c \in Checks, results[c] # "none"
        PROVE  Right(c)'
    <3>1. Found(c)' = Found(c)
      BY <1>4, <2>1, <2>2, FoundStands DEF CopyJournal
    <3>2. Skipped(c)' = Skipped(c)
      BY <1>4 DEF CopyJournal, Skipped
    <3> QED
      BY <1>1, <1>4, <2>1, <2>2, <3>1, <3>2 DEF CopyJournal, RightInv, Right
  <2> QED
    BY <1>1, <1>4, <2>1, <2>2 DEF CopyJournal, RightInv
<1>5. CASE Follow
  <2>1. followed' # "none"
    <3>1. followed' \in Checks
      BY <1>5, FirstOfBad DEF Follow, Bad
    <3> QED
      BY <3>1, TheChecks
  <2> QED
    BY <1>1, <1>5, <2>1 DEF Follow, RightInv, Running
<1>6. CASE Again
  BY <1>1, <1>6 DEF Again, RightInv, Running
<1> QED
  BY <1>1, <1>2, <1>3, <1>4, <1>5, <1>6 DEF Next, Run

(* A well-kept vault of a whole install has nothing that fails.            *)
LEMMA FaultlessFound ==
  ASSUME TypeOK, Installed(world), WellKept(world), NEW c \in Checks
  PROVE  Found(c) # "fail"
<1>1. CompareVersions # "fail" /\ MapJournalProbe # "fail" /\ CheckBridge # "fail"
      /\ MapPluginFreshness # "fail" /\ MapGitProbe # "fail"
  BY DEF TypeOK, Conditions, CompareVersions, MapJournalProbe, CheckBridge, MapPluginFreshness,
         MapGitProbe, Installed, WellKept
<1> QED
  BY <1>1, TheChecks DEF Found, Installed, WellKept

LEMMA UnfailingStep ==
  ASSUME TypeOK, PassedInv, UnfailingInv, Next
  PROVE  UnfailingInv'
<1>1. CASE Begin
  BY <1>1 DEF Begin, NotRun, UnfailingInv
<1>2. CASE Check
  <2>1. pc \in Checks /\ Running /\ world' = world
    BY <1>2, TheChecks DEF Check, PassedInv, Checks, Running
  <2> SUFFICES ASSUME Installed(world), WellKept(world), NEW c \in Checks PROVE results'[c] # "fail"
    BY <2>1 DEF UnfailingInv
  <2> QED
    BY <1>2, <2>1, FaultlessFound DEF Check, UnfailingInv, TypeOK
<1>3. CASE CopyJournal
  BY <1>3 DEF CopyJournal, UnfailingInv, Running
<1>4. CASE Other
  <2>1. UNCHANGED <<pc, results, followed>>
    BY <1>4 DEF Other, TakeLock, WriteLocked, DropLock, WriteUnlocked
  <2>2. \E l \in {"free", "fresh", "stale"} : world' = [world EXCEPT !.lock = l]
    BY <1>4 DEF Other, TakeLock, WriteLocked, DropLock, WriteUnlocked, TypeOK, Conditions
  <2>3. Installed(world') = Installed(world) /\ WellKept(world') = WellKept(world)
    BY <2>2 DEF Installed, WellKept, TypeOK, Conditions
  <2> QED
    BY <2>1, <2>3 DEF UnfailingInv, Running
<1>5. CASE Follow
  <2>1. followed' # "none"
    <3>1. followed' \in Checks
      BY <1>5, FirstOfBad DEF Follow, Bad
    <3> QED
      BY <3>1, TheChecks
  <2> QED
    BY <2>1 DEF UnfailingInv, Running
<1>6. CASE Again
  BY <1>6 DEF Again, UnfailingInv, Running
<1> QED
  BY <1>1, <1>2, <1>3, <1>4, <1>5, <1>6 DEF Next, Run

(* At the end of a run that nobody disturbed, the checks say what there is. *)
LEMMA CleanBill ==
  ASSUME TypeOK, PassedInv, RightInv, Reported, left.strict, left.alone, world.lock # "fresh"
  PROVE  DeriveExitCode = 0 <=> Installed(world) /\ WellKept(world) /\ Tidy(world)
<1>1. \A c \in Checks : Right(c)
  BY PassedMeans DEF RightInv, Running, Reported
<1>2. ~lockLive /\ copy # "torn"
  BY DEF RightInv, Running, Reported, TypeOK
<1>3. DeriveExitCode = 0 <=> \A c \in Checks : results[c] \notin {"warn", "fail"}
  BY DEF DeriveExitCode
<1>4. ASSUME \A c \in Checks : results[c] \notin {"warn", "fail"}
      PROVE  Installed(world) /\ WellKept(world) /\ Tidy(world)
  <2>1. Found("config") # "fail" /\ results["config"] # "fail"
    BY <1>1, <1>4, TheChecks DEF Right, Skipped, VaultDependent
  <2>2. Found("permissions") # "fail" /\ results["permissions"] # "fail"
    BY <1>1, <1>4, <2>1, TheChecks DEF Right, Skipped
  <2>3. \A c \in Checks : Found(c) \notin {"warn", "fail"}
    BY <1>1, <1>4, <2>1, <2>2 DEF Right, Skipped
  <2>4. world.config = "valid" /\ world.permissions = "valid"
    BY <2>1, <2>2 DEF Found
  <2>5. world.native /\ world.mcp /\ ~world.dups /\ ~world.exposed
    BY <2>3, TheChecks DEF Found
  <2>6. world.lock # "stale" /\ world.gitWorks /\ world.repo
    BY <2>3, TheChecks DEF Found, MapGitProbe
  <2>7. world.cli = world.server /\ world.node >= 20
    <3>1. CompareVersions \notin {"warn", "fail"}
      BY <2>3, TheChecks DEF Found
    <3>2. world.node \in Nat
      BY DEF TypeOK, Conditions
    <3> QED
      BY <2>5, <3>1, <3>2, InRange DEF CompareVersions
  <2>8. world.journal = "whole"
    <3>1. MapJournalProbe \notin {"warn", "fail"}
      BY <2>3, TheChecks DEF Found
    <3> QED
      BY <1>2, <3>1 DEF MapJournalProbe, TypeOK, Conditions
  <2>9. world.bridge \notin {"dead", "malformed"} /\ world.plugin # "outdated"
    <3>1. CheckBridge \notin {"warn", "fail"} /\ MapPluginFreshness \notin {"warn", "fail"}
      BY <2>3, TheChecks DEF Found
    <3> QED
      BY <3>1 DEF CheckBridge, MapPluginFreshness
  <2> QED
    BY <2>4, <2>5, <2>6, <2>7, <2>8, <2>9 DEF Installed, WellKept, Tidy
<1>5. ASSUME Installed(world), WellKept(world), Tidy(world), NEW c \in Checks
      PROVE  results[c] \notin {"warn", "fail"}
  <2>1. world.node \in Nat /\ world.bridge \in {"none", "live"} /\ world.plugin \in {"none", "current"}
    BY <1>5 DEF TypeOK, Conditions, Tidy
  <2>2. CompareVersions = "info"
    BY <1>5, <2>1, InRange DEF CompareVersions, Installed
  <2>3. MapJournalProbe = "ok" /\ MapGitProbe = "ok"
    BY <1>2, <1>5 DEF MapJournalProbe, MapGitProbe, Installed, WellKept
  <2>4. CheckBridge \in {"info", "ok"} /\ MapPluginFreshness \in {"info", "ok"}
    BY <2>1 DEF CheckBridge, MapPluginFreshness
  <2>5. Found(c) \notin {"warn", "fail"}
    BY <1>5, <2>2, <2>3, <2>4, TheChecks DEF Found, Installed, WellKept, Tidy
  <2> QED
    BY <1>1, <2>5 DEF Right
<1> QED
  BY <1>3, <1>4, <1>5

LEMMA Initially ==
  ASSUME Init
  PROVE  TypeOK /\ PassedInv /\ RightInv /\ UnfailingInv
<1>1. PICK w \in Worlds :
        /\ world = w.world
        /\ left = [strict |-> w.strict, follows |-> w.follows, alone |-> w.writes = 0, writes |-> w.writes]
  BY DEF Init
<1>2. world \in Conditions /\ left \in [strict : BOOLEAN, follows : Followers, alone : BOOLEAN, writes : Nat]
  BY <1>1, WorldsAssumption
<1>3. left.alone => left.writes = 0
  BY <1>1
<1>4. results \in [Checks -> Statuses] /\ lockLive \in BOOLEAN
  BY DEF Init, NotRun, Statuses
<1>5. pc = "idle" /\ pc \notin Steps /\ copy = "none" /\ followed = "none"
  BY TheSteps DEF Init
<1> QED
  BY <1>2, <1>3, <1>4, <1>5 DEF TypeOK, PassedInv, RightInv, UnfailingInv, Running

LEMMA Stuttering ==
  ASSUME TypeOK, PassedInv, RightInv, UnfailingInv, UNCHANGED vars
  PROVE  (TypeOK /\ PassedInv /\ RightInv /\ UnfailingInv)'
<1>1. TypeOK' /\ PassedInv' /\ UnfailingInv'
  BY DEF vars, TypeOK, PassedInv, At, UnfailingInv, Running
<1>2. ASSUME NEW c \in Checks, Right(c) PROVE Right(c)'
  <2>1. Found(c)' = Found(c)
    BY FoundStands DEF vars
  <2> QED
    BY <1>2, <2>1 DEF vars, Right, Skipped
<1>3. RightInv'
  BY <1>2 DEF vars, RightInv, Running
<1> QED
  BY <1>1, <1>3

LEMMA Inductive == Spec => [](TypeOK /\ PassedInv /\ RightInv /\ UnfailingInv)
BY Initially, TypeStep, RightStep, UnfailingStep, Stuttering, PTL DEF Spec

(* The report, the world and the uses of doctor have their types, through  *)
(* every remediation; a report that is made has a status for each check.   *)
THEOREM Types == Spec => []TypeOK
BY Inductive, PTL

(* For every vault and install, whatever a person repaired in between: a   *)
(* strict run that nobody disturbed exits 0 exactly if nothing is wrong,   *)
(* although checks are skipped in a cascade; and no number of writers      *)
(* makes a run fail on a well-kept vault.                                  *)
THEOREM ExitCodeIsTrue == Spec => []VerdictIsTrue
<1>1. TypeOK /\ PassedInv /\ RightInv /\ UnfailingInv => VerdictIsTrue
  <2> SUFFICES ASSUME TypeOK, PassedInv, RightInv, UnfailingInv, Reported
               PROVE  IF left.strict THEN ExitNamesAFault ELSE WritersNeverFail
    BY DEF VerdictIsTrue
  <2>1. CASE left.strict
    BY <2>1, CleanBill DEF ExitNamesAFault
  <2>2. CASE ~left.strict
    BY <2>2 DEF WritersNeverFail, DeriveExitCode, UnfailingInv, Running, Reported
  <2> QED
    BY <2>1, <2>2
<1> QED
  BY <1>1, Inductive, PTL
=============================================================================
