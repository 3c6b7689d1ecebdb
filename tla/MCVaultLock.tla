----------------------------- MODULE MCVaultLock -----------------------------
(* The real retries of the vault lock, beside the instances for TLC.        *)
EXTENDS VaultLockProperties, FiniteSetsExt

(* LOCK_OPTS.retries in milliseconds: 50, then half as much again each time,*)
(* never more than 1000, fifty times: forty-four seconds.                   *)
Pause(k) == IF k >= 8 THEN 1000 ELSE (50 * 3^k) \div 2^k
RetriesLast == FoldSet(LAMBDA k, sum : sum + Pause(k), 0, 0..49)

ASSUME RetriesAssumption == RetriesLast \in 44000..44999
=============================================================================
