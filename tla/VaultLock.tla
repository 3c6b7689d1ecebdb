----------------------------- MODULE VaultLock -----------------------------
(***************************************************************************)
(* withVaultLock (concurrency/lock.ts) in time: the lock that keeps the    *)
(* hosts of one vault from writing it at once.                             *)
(*                                                                         *)
(* The lock is a directory that proper-lockfile (4.1.2) creates.  Who has  *)
(* it refreshes the directory's mtime every `update`; who finds it there   *)
(* tries again, about once a second, until its retries are used up; who    *)
(* finds it unrefreshed for longer than `stale` takes it for a dead        *)
(* host's, removes it and creates its own, in two calls.                   *)
(*                                                                         *)
(* One Tick is one second.  A call of the library takes no time, but calls *)
(* of several hosts interleave.  Every other module takes the lock for a   *)
(* flag that a death frees; here is what that rests on.                    *)
(***************************************************************************)
EXTENDS Naturals

CONSTANTS
  Hosts,      \* the operations that want the lock, whatever their process
  NoHost,     \* there is no directory
  Dead,       \* the directory of a host that died holding it
  Stale,      \* seconds without a refresh after which a lock is stale
  Update,     \* seconds between two refreshes
  Block,      \* seconds a host may keep its timers from firing
  Patience,   \* tries, one a second, before the retries are used up
  MaxDeaths   \* bound: deaths of a host

ASSUME LockOptsAssumption ==
  /\ {Stale, Update, Block, Patience, MaxDeaths} \subseteq Nat
  /\ Patience > 0
  /\ Update + Block <= Stale
  /\ NoHost \notin Hosts
  /\ Dead \notin Hosts
  /\ NoHost # Dead

VARIABLES
  phase,    \* what each host is at
  owner,    \* whose directory it is: a host, NoHost or Dead
  age,      \* seconds since its mtime was set; Stale + 1 is the oldest told apart
  beat,     \* seconds since each holder set its timer
  tries,    \* failed tries of each waiter
  dark,     \* history: how many of them a dead host's lock refused
  deaths    \* how many hosts have died

vars == <<phase, owner, age, beat, tries, dark, deaths>>

Phases == {"idle", "trying", "sleeping", "found_stale", "removed", "holding", "failed"}

Init ==
  /\ phase = [h \in Hosts |-> "idle"]
  /\ owner = NoHost
  /\ age = 0
  /\ beat = [h \in Hosts |-> 0]
  /\ tries = [h \in Hosts |-> 0]
  /\ dark = [h \in Hosts |-> 0]
  /\ deaths = 0

Become(h, p) == phase' = [phase EXCEPT ![h] = p]

IsStale == age > Stale

(* What a call of lock() counts starts at zero for every call.             *)
Afresh(h) ==
  /\ beat' = [beat EXCEPT ![h] = 0]
  /\ tries' = [tries EXCEPT ![h] = 0]
  /\ dark' = [dark EXCEPT ![h] = 0]

(* lockfile.lock is called.                                                *)
Ask(h) ==
  /\ phase[h] = "idle"
  /\ Become(h, "trying")
  /\ UNCHANGED <<owner, age, beat, tries, dark, deaths>>

(* mkdir succeeds.                                                         *)
Create(h) ==
  /\ Become(h, "holding")
  /\ owner' = h
  /\ age' = 0
  /\ Afresh(h)
  /\ UNCHANGED deaths

(* Mutant: the retries are not counted. *)
RefusedAnew(h) ==
  /\ dark' = IF owner = Dead THEN [dark EXCEPT ![h] = @ + 1] ELSE dark
  /\ Become(h, "sleeping")
  /\ UNCHANGED <<owner, age, beat, tries, deaths>>

(* ELOCKED: the next try in a second, or none.                             *)
Refused(h) ==
  /\ tries' = [tries EXCEPT ![h] = @ + 1]
  /\ dark' = IF owner = Dead THEN [dark EXCEPT ![h] = @ + 1] ELSE dark
  /\ Become(h, IF tries[h] + 1 < Patience THEN "sleeping" ELSE "failed")
  /\ UNCHANGED <<owner, age, beat, deaths>>

(* Mutant: a lock that is as old as a holder's may get counts as stale. *)
TryImpatiently(h) ==
  /\ phase[h] = "trying"
  /\ \/ owner = NoHost /\ Create(h)
     \/ /\ owner # NoHost /\ age >= Update
        /\ Become(h, "found_stale")
        /\ UNCHANGED <<owner, age, beat, tries, dark, deaths>>
     \/ owner # NoHost /\ age < Update /\ Refused(h)

(* Mutant: nothing is ever stale. *)
TryForever(h) ==
  /\ phase[h] = "trying"
  /\ \/ owner = NoHost /\ Create(h)
     \/ owner # NoHost /\ Refused(h)

Try(h) ==
  /\ phase[h] = "trying"
  /\ \/ owner = NoHost /\ Create(h)
     \/ /\ owner # NoHost /\ IsStale
        /\ Become(h, "found_stale")
        /\ UNCHANGED <<owner, age, beat, tries, dark, deaths>>
     \/ owner # NoHost /\ ~IsStale /\ Refused(h)

(* The directory that was found stale is removed, whoever's it is by now.  *)
RemoveStale(h) ==
  /\ phase[h] = "found_stale"
  /\ owner' = NoHost
  /\ age' = 0
  /\ Become(h, "removed")
  /\ UNCHANGED <<beat, tries, dark, deaths>>

(* The one try after that does not look at the age again.                  *)
TryAgain(h) ==
  /\ phase[h] = "removed"
  /\ \/ owner = NoHost /\ Create(h)
     \/ owner # NoHost /\ Refused(h)

(* The timer of a holder.  If the directory is not the one it made, the    *)
(* library calls onCompromised; withVaultLock gives none, and the default  *)
(* throws in a timer, where nobody catches it: the process dies.           *)
Refresh(h) ==
  /\ phase[h] = "holding"
  /\ beat[h] >= Update
  /\ \/ /\ owner = h
        /\ age' = 0
        /\ UNCHANGED phase
     \/ /\ owner # h
        /\ Become(h, "idle")
        /\ UNCHANGED age
  /\ beat' = [beat EXCEPT ![h] = 0]
  /\ UNCHANGED <<owner, tries, dark, deaths>>

(* fn is done, or has thrown.  The directory is removed, whoever's it is.  *)
Release(h) ==
  /\ phase[h] = "holding"
  /\ owner' = NoHost
  /\ age' = 0
  /\ Become(h, "idle")
  /\ Afresh(h)
  /\ UNCHANGED deaths

(* A call whose retries were used up has thrown ELOCKED.                   *)
GiveUp(h) ==
  /\ phase[h] = "failed"
  /\ Become(h, "idle")
  /\ Afresh(h)
  /\ UNCHANGED <<owner, age, deaths>>

Crash(h) ==
  /\ phase[h] \notin {"idle", "failed"}
  /\ deaths < MaxDeaths
  /\ deaths' = deaths + 1
  /\ owner' = IF owner = h THEN Dead ELSE owner
  /\ Become(h, "idle")
  /\ Afresh(h)
  /\ UNCHANGED age

(* Nobody is in the middle of a call, and no timer is overdue.             *)
NothingDue ==
  \A h \in Hosts :
    /\ phase[h] \notin {"trying", "found_stale", "removed"}
    /\ phase[h] = "holding" => beat[h] < Update + Block

Older == IF IsStale THEN age ELSE age + 1

Wakes == phase' = [h \in Hosts |-> IF phase[h] = "sleeping" THEN "trying" ELSE phase[h]]

Tick ==
  /\ NothingDue
  /\ Wakes
  /\ age' = IF owner = NoHost THEN age ELSE Older
  /\ beat' = [h \in Hosts |-> IF phase[h] = "holding" THEN beat[h] + 1 ELSE beat[h]]
  /\ UNCHANGED <<owner, tries, dark, deaths>>

Step(h) == Try(h) \/ RemoveStale(h) \/ TryAgain(h) \/ Refresh(h) \/ Release(h) \/ GiveUp(h)

Next ==
  \/ \E h \in Hosts : Ask(h) \/ Step(h) \/ Crash(h)
  \/ Tick

Spec == Init /\ [][Next]_vars

(* Every host that runs gets its turn, and the clock keeps ticking,         *)
(* however many take and release the lock within a second.  Nothing is     *)
(* asked of Release: fn may take as long as it likes.                      *)
Run(h) == Try(h) \/ RemoveStale(h) \/ TryAgain(h) \/ Refresh(h)
LiveSpec == Spec /\ []<><<Tick>>_vars /\ \A h \in Hosts : WF_vars(Run(h))
=============================================================================
