------------------------- MODULE VaultLockProperties -------------------------
(* What the vault lock promises, and what it does not.                      *)
EXTENDS VaultLock

TypeOK ==
  /\ phase \in [Hosts -> Phases]
  /\ owner \in Hosts \cup {NoHost, Dead}
  /\ age \in 0..(Stale + 1)
  /\ beat \in [Hosts -> 0..(Update + Block)]
  /\ tries \in [Hosts -> 0..Patience]
  /\ dark \in [Hosts -> Nat]
  /\ deaths \in 0..MaxDeaths

(* lock.ts:10-14: a slow but live holder is not declared abandoned.  Whose  *)
(* timers fire within Block of their time keeps its directory too young; a  *)
(* waiter that finds a lock stale finds the lock of a host that died.       *)
NeverDeclaredDead ==
  [][\A h \in Hosts : phase[h] = "trying" /\ phase'[h] = "found_stale" => owner = Dead]_vars

(* lock.ts:6-8, as far as it holds: while nobody has died, two hosts never  *)
(* write the vault at the same time, and who writes it owns the lock.       *)
ExclusiveWithoutDeath ==
  deaths = 0 => \A h \in Hosts : phase[h] = "holding" => owner = h

(* A death costs a waiter at most Stale + 1 of its tries, however the       *)
(* survivors race for the lock it left.                                     *)
DeathCostsStale == \A h \in Hosts : dark[h] <= (Stale + 1) * deaths

(* lock.ts:16-20: the retries outlast the staleness.  A call that gives up  *)
(* was refused by a living host at least once.                              *)
OutlastsTheDead == \A h \in Hosts : phase[h] = "failed" => dark[h] < Patience

(* Every call of lock() comes to an end, with the lock or without, even if  *)
(* the holder never lets go.                                                *)
CallsEnd ==
  \A h \in Hosts : phase[h] = "trying" ~> phase[h] \in {"holding", "failed", "idle"}

(* lock.ts:6-8 without the condition.                                       *)
MutualExclusion ==
  \A g, h \in Hosts : phase[g] = "holding" /\ phase[h] = "holding" => g = h
=============================================================================
