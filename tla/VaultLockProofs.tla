--------------------------- MODULE VaultLockProofs ---------------------------
(***************************************************************************)
(* Proofs about the vault lock, for any number of hosts and deaths and any *)
(* staleness, refresh period and patience, as long as a host's timers fire *)
(* before its lock is stale.                                               *)
(***************************************************************************)
EXTENDS VaultLockProperties, TLAPS

(* The lock is owned by a holder that knows its age; while nobody has died *)
(* nobody else holds it or has found it stale.                             *)
OwnerInv ==
  /\ owner \in Hosts => phase[owner] = "holding" /\ age = beat[owner]
  /\ deaths = 0 => /\ owner # Dead
                   /\ \A h \in Hosts : /\ phase[h] \notin {"found_stale", "removed"}
                                       /\ phase[h] = "holding" => owner = h

(* Who may still be refused has tries left.                                *)
TriesInv == \A h \in Hosts : phase[h] # "failed" => tries[h] < Patience

TypeInv == TypeOK /\ TriesInv

(* The tries that deaths may still cost.                                   *)
Allowance(d) == (Stale + 1) * d

(* The tries a dead host's lock has cost each host, and those it will cost *)
(* until it is stale, stay within what the deaths account for.             *)
DebtInv ==
  /\ owner = Dead => deaths >= 1
  /\ \A h \in Hosts :
       /\ phase[h] = "removed" => owner = NoHost \/ age = 0
       /\ dark[h] <= Allowance(deaths)
       /\ owner = Dead =>
            dark[h] + Stale + (IF phase[h] \in {"sleeping", "failed"} THEN 0 ELSE 1)
              <= Allowance(deaths) + age

Inv == TypeInv /\ OwnerInv

-----------------------------------------------------------------------------
LEMMA TypeInvInit == Init => TypeInv
BY LockOptsAssumption DEF Init, TypeInv, TypeOK, TriesInv, Phases

(* One step of one host keeps the types.                                   *)
LEMMA TypeInvStep ==
  ASSUME TypeInv, NEW h \in Hosts, Ask(h) \/ Step(h) \/ Crash(h)
  PROVE  TypeInv'
<1> USE LockOptsAssumption DEF TypeInv, TypeOK, TriesInv, Phases, Become
<1>1. CASE Ask(h)
  BY <1>1 DEF Ask
<1>2. ASSUME Create(h)
      PROVE  TypeInv'
  BY <1>2 DEF Create, Afresh
<1>3. ASSUME Refused(h), phase[h] \in {"trying", "removed"}
      PROVE  TypeInv'
  <2>1. tries[h] + 1 \in 0..Patience /\ tries' \in [Hosts -> 0..Patience]
    BY <1>3 DEF Refused
  <2>2. dark' \in [Hosts -> Nat]
    BY <1>3 DEF Refused
  <2>3. phase' \in [Hosts -> Phases]
    BY <1>3 DEF Refused
  <2>4. TriesInv'
    BY <1>3, <2>1 DEF Refused
  <2> QED
    BY <1>3, <2>1, <2>2, <2>3, <2>4 DEF Refused
<1>4. CASE Try(h)
  BY <1>2, <1>3, <1>4 DEF Try
<1>5. CASE RemoveStale(h)
  BY <1>5 DEF RemoveStale
<1>6. CASE TryAgain(h)
  BY <1>2, <1>3, <1>6 DEF TryAgain
<1>7. CASE Refresh(h)
  BY <1>7 DEF Refresh
<1>8. CASE Release(h)
  BY <1>8 DEF Release, Afresh
<1>9. CASE GiveUp(h)
  BY <1>9 DEF GiveUp, Afresh
<1>10. CASE Crash(h)
  BY <1>10 DEF Crash, Afresh
<1> QED
  BY <1>1, <1>4, <1>5, <1>6, <1>7, <1>8, <1>9, <1>10 DEF Step

LEMMA TypeInvTick == TypeInv /\ Tick => TypeInv'
<1> SUFFICES ASSUME TypeInv, Tick PROVE TypeInv'
  OBVIOUS
<1> USE LockOptsAssumption DEF TypeInv, TypeOK, TriesInv, Phases, Tick, Wakes
<1>1. phase' \in [Hosts -> Phases]
  OBVIOUS
<1>2. age' \in 0..(Stale + 1)
  BY DEF Older, IsStale
<1>3. beat' \in [Hosts -> 0..(Update + Block)]
  BY DEF NothingDue
<1>4. TriesInv'
  OBVIOUS
<1> QED
  BY <1>1, <1>2, <1>3, <1>4

LEMMA TypeInvStutter == TypeInv /\ UNCHANGED vars => TypeInv'
BY DEF vars, TypeInv, TypeOK, TriesInv

(* The types of module VaultLock are kept by every run.                    *)
THEOREM TypeCorrect == Spec => []TypeOK
<1>1. TypeInv /\ [Next]_vars => TypeInv'
  BY TypeInvStep, TypeInvTick, TypeInvStutter DEF Next
<1>2. Spec => []TypeInv
  BY TypeInvInit, <1>1, PTL DEF Spec
<1> QED
  BY <1>2, PTL DEF TypeInv

-----------------------------------------------------------------------------
LEMMA OwnerInvInit == Init => OwnerInv
BY LockOptsAssumption DEF Init, OwnerInv

(* A lock that a live host owns is not stale.                              *)
LEMMA OwnerIsFresh == TypeInv /\ OwnerInv /\ owner \in Hosts => ~IsStale
BY LockOptsAssumption DEF TypeInv, TypeOK, OwnerInv, IsStale

LEMMA OwnerInvStep ==
  ASSUME TypeInv, OwnerInv, NEW h \in Hosts, Ask(h) \/ Step(h) \/ Crash(h)
  PROVE  OwnerInv'
<1> USE LockOptsAssumption DEF OwnerInv, TypeInv, TypeOK, Phases, Become
<1>1. CASE Ask(h)
  BY <1>1 DEF Ask
<1>2. ASSUME Create(h), owner = NoHost
      PROVE  OwnerInv'
  BY <1>2 DEF Create, Afresh
<1>3. ASSUME Refused(h), phase[h] \in {"trying", "removed"}
      PROVE  OwnerInv'
  BY <1>3 DEF Refused
<1>4. ASSUME phase[h] = "trying", owner # NoHost, IsStale, Become(h, "found_stale"),
             UNCHANGED <<owner, age, beat, tries, dark, deaths>>
      PROVE  OwnerInv'
  <2>1. owner = Dead /\ deaths # 0
    BY <1>4, OwnerIsFresh
  <2> QED
    BY <1>4, <2>1
<1>5. CASE Try(h)
  BY <1>2, <1>3, <1>4, <1>5 DEF Try
<1>6. CASE RemoveStale(h)
  BY <1>6 DEF RemoveStale
<1>7. CASE TryAgain(h)
  BY <1>2, <1>3, <1>7 DEF TryAgain
<1>8. CASE Refresh(h)
  BY <1>8 DEF Refresh
<1>9. CASE Release(h)
  BY <1>9 DEF Release, Afresh
<1>10. CASE GiveUp(h)
  BY <1>10 DEF GiveUp, Afresh
<1>11. CASE Crash(h)
  BY <1>11 DEF Crash, Afresh
<1> QED
  BY <1>1, <1>5, <1>6, <1>7, <1>8, <1>9, <1>10, <1>11 DEF Step

LEMMA OwnerInvTick == TypeInv /\ OwnerInv /\ Tick => OwnerInv'
<1> SUFFICES ASSUME TypeInv, OwnerInv, Tick PROVE OwnerInv'
  OBVIOUS
<1> USE LockOptsAssumption DEF OwnerInv, TypeInv, TypeOK, Phases, Tick, Wakes
<1>1. ASSUME owner \in Hosts
      PROVE  phase'[owner] = "holding" /\ age' = beat'[owner]
  BY <1>1, OwnerIsFresh DEF Older
<1>2. ASSUME deaths = 0, NEW h \in Hosts
      PROVE  /\ phase'[h] \notin {"found_stale", "removed"}
             /\ phase'[h] = "holding" => owner = h
  BY <1>2
<1> QED
  BY <1>1, <1>2

LEMMA OwnerInvStutter == OwnerInv /\ UNCHANGED vars => OwnerInv'
BY DEF vars, OwnerInv

LEMMA InvHolds == Spec => []Inv
<1>1. Init => Inv
  BY TypeInvInit, OwnerInvInit DEF Inv
<1>2. Inv /\ [Next]_vars => Inv'
  BY TypeInvStep, TypeInvTick, TypeInvStutter, OwnerInvStep, OwnerInvTick, OwnerInvStutter
     DEF Next, Inv
<1> QED
  BY <1>1, <1>2, PTL DEF Spec

(* While nobody has died, whoever writes the vault owns its lock: no two   *)
(* hosts run fn at the same time.                                          *)
THEOREM Exclusive == Spec => []ExclusiveWithoutDeath
<1>1. Inv => ExclusiveWithoutDeath
  BY DEF Inv, OwnerInv, ExclusiveWithoutDeath
<1> QED
  BY InvHolds, <1>1, PTL

(* Only the lock of a dead host is ever found stale, however slow a live   *)
(* one is within Block.                                                    *)
THEOREM OnlyTheDeadGoStale == Spec => NeverDeclaredDead
<1>1. ASSUME Inv, NEW h \in Hosts, Try(h), phase'[h] = "found_stale"
      PROVE  owner = Dead
  <2>1. owner # NoHost /\ IsStale
    BY <1>1, LockOptsAssumption
       DEF Try, Create, Refused, Become, Inv, TypeInv, TypeOK, Phases
  <2> QED
    BY <1>1, <2>1, OwnerIsFresh DEF Inv, TypeInv, TypeOK
<1>2. ASSUME Inv, [Next]_vars, NEW h \in Hosts, phase[h] = "trying", phase'[h] = "found_stale"
      PROVE  owner = Dead
  <2>1. ASSUME NEW g \in Hosts, Ask(g) \/ Step(g) \/ Crash(g)
        PROVE  Try(h)
    BY <1>2, <2>1
       DEF Ask, Step, Crash, Try, RemoveStale, TryAgain, Refresh, Release, GiveUp,
           Create, Refused, Become, Inv, TypeInv, TypeOK, Phases
  <2>2. ~Tick /\ ~UNCHANGED vars
    BY <1>2 DEF Tick, NothingDue, vars
  <2> QED
    BY <1>1, <1>2, <2>1, <2>2 DEF Next
<1>3. Inv /\ [Next]_vars =>
        [\A h \in Hosts : phase[h] = "trying" /\ phase'[h] = "found_stale" => owner = Dead]_vars
  BY <1>2
<1> QED
  BY InvHolds, <1>3, PTL DEF Spec, NeverDeclaredDead

-----------------------------------------------------------------------------
LEMMA AllowanceGrows ==
  ASSUME NEW d \in Nat
  PROVE  /\ Allowance(d) \in Nat
         /\ Allowance(d + 1) = Allowance(d) + Stale + 1
         /\ d >= 1 => Allowance(d) >= Stale + 1
<1>1. Stale + 1 \in Nat
  BY LockOptsAssumption
<1>2. Allowance(d) \in Nat /\ Allowance(d + 1) = Allowance(d) + Stale + 1
  <2>1. (Stale + 1) * d \in Nat
    BY <1>1, SMT
  <2>2. (Stale + 1) * (d + 1) = (Stale + 1) * d + (Stale + 1)
    BY <1>1, SMT
  <2> QED
    BY <1>1, <2>1, <2>2, LockOptsAssumption DEF Allowance
<1>3. ASSUME d >= 1
      PROVE  Allowance(d) >= Stale + 1
  <2>1. d - 1 \in Nat /\ (Stale + 1) * (d - 1) \in Nat
    BY <1>1, <1>3, SMT
  <2>2. Allowance(d) = (Stale + 1) * (d - 1) + (Stale + 1)
    BY <1>1, <1>3, SMT DEF Allowance
  <2> QED
    BY <1>1, <2>1, <2>2
<1> QED
  BY <1>2, <1>3

LEMMA DebtInvInit == Init => DebtInv
BY LockOptsAssumption, AllowanceGrows DEF Init, DebtInv

LEMMA DebtInvStep ==
  ASSUME TypeInv, DebtInv, NEW h \in Hosts, Ask(h) \/ Step(h) \/ Crash(h)
  PROVE  DebtInv'
<1> USE LockOptsAssumption DEF DebtInv, TypeInv, TypeOK, Phases, Become
<1>0. /\ Allowance(deaths) \in Nat
      /\ Allowance(deaths + 1) = Allowance(deaths) + Stale + 1
      /\ deaths >= 1 => Allowance(deaths) >= Stale + 1
  BY AllowanceGrows
<1>1. CASE Ask(h)
  BY <1>0, <1>1 DEF Ask
<1>2. ASSUME Create(h), owner = NoHost
      PROVE  DebtInv'
  BY <1>0, <1>2 DEF Create, Afresh
<1>3. ASSUME Refused(h), phase[h] \in {"trying", "removed"}, owner # NoHost,
             phase[h] = "trying" => ~IsStale
      PROVE  DebtInv'
  <2>1. age <= Stale
    BY <1>3 DEF IsStale
  <2> QED
    BY <1>0, <1>3, <2>1 DEF Refused
<1>4. CASE Try(h)
  BY <1>0, <1>2, <1>3, <1>4 DEF Try
<1>5. CASE RemoveStale(h)
  BY <1>0, <1>5 DEF RemoveStale
<1>6. CASE TryAgain(h)
  BY <1>2, <1>3, <1>6 DEF TryAgain
<1>7. CASE Refresh(h)
  BY <1>0, <1>7 DEF Refresh
<1>8. CASE Release(h)
  BY <1>0, <1>8 DEF Release, Afresh
<1>9. CASE GiveUp(h)
  BY <1>0, <1>9 DEF GiveUp, Afresh
<1>10. CASE Crash(h)
  BY <1>0, <1>10 DEF Crash, Afresh
<1> QED
  BY <1>1, <1>4, <1>5, <1>6, <1>7, <1>8, <1>9, <1>10 DEF Step

LEMMA DebtInvTick == TypeInv /\ DebtInv /\ Tick => DebtInv'
<1> SUFFICES ASSUME TypeInv, DebtInv, Tick PROVE DebtInv'
  OBVIOUS
<1> USE LockOptsAssumption DEF DebtInv, TypeInv, TypeOK, Phases, Tick, Wakes
<1>1. Allowance(deaths) \in Nat
  BY AllowanceGrows
<1>2. ASSUME NEW h \in Hosts
      PROVE  phase'[h] # "removed"
  BY <1>2 DEF NothingDue
<1>3. ASSUME owner = Dead, NEW h \in Hosts
      PROVE  dark[h] + Stale + (IF phase'[h] \in {"sleeping", "failed"} THEN 0 ELSE 1)
               <= Allowance(deaths) + age'
  BY <1>1, <1>3 DEF Older, IsStale
<1> QED
  BY <1>1, <1>2, <1>3

LEMMA DebtInvStutter == DebtInv /\ UNCHANGED vars => DebtInv'
BY DEF vars, DebtInv

(* Each death costs a waiter at most Stale + 1 of its tries, however the   *)
(* survivors race for the lock it left.                                    *)
THEOREM DeathsAreBounded == Spec => []DeathCostsStale
<1>1. Init => TypeInv /\ DebtInv
  BY TypeInvInit, DebtInvInit
<1>2. TypeInv /\ DebtInv /\ [Next]_vars => (TypeInv /\ DebtInv)'
  BY TypeInvStep, TypeInvTick, TypeInvStutter, DebtInvStep, DebtInvTick, DebtInvStutter
     DEF Next
<1>3. DebtInv => DeathCostsStale
  BY DEF DebtInv, DeathCostsStale, Allowance
<1> QED
  BY <1>1, <1>2, <1>3, PTL DEF Spec

(* With a patience beyond what MaxDeaths deaths can cost, a call that      *)
(* gives up was refused by a living host at least once.                    *)
THEOREM PatienceOutlasts ==
  ASSUME (Stale + 1) * MaxDeaths < Patience
  PROVE  Spec => []OutlastsTheDead
<1>1. TypeOK /\ DeathCostsStale => OutlastsTheDead
  <2> SUFFICES ASSUME TypeOK, DeathCostsStale, NEW h \in Hosts
               PROVE  dark[h] < Patience
    BY DEF OutlastsTheDead
  <2>1. /\ Stale + 1 \in Nat /\ deaths \in Nat /\ MaxDeaths \in Nat /\ deaths <= MaxDeaths
        /\ dark[h] \in Nat /\ Patience \in Nat /\ dark[h] <= (Stale + 1) * deaths
    BY LockOptsAssumption DEF TypeOK, DeathCostsStale
  <2>2. (Stale + 1) * deaths <= (Stale + 1) * MaxDeaths
    <3>1. PICK k \in Nat : MaxDeaths = deaths + k
      BY <2>1
    <3>2. (Stale + 1) * MaxDeaths = (Stale + 1) * deaths + (Stale + 1) * k
      BY <2>1, <3>1, SMT
    <3>3. (Stale + 1) * k \in Nat /\ (Stale + 1) * deaths \in Nat
      BY <2>1, SMT
    <3> QED
      BY <3>2, <3>3
  <2>3. (Stale + 1) * deaths \in Nat /\ (Stale + 1) * MaxDeaths \in Nat
    BY <2>1, SMT
  <2> QED
    BY <2>1, <2>2, <2>3
<1> QED
  BY TypeCorrect, DeathsAreBounded, <1>1, PTL
=============================================================================
