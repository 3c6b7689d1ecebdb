---------------------------- MODULE MemoryProofs ----------------------------
(***************************************************************************)
(* Proofs about the memory store, for any number of hosts and memories,    *)
(* whoever races, dies or loses the journal: types, what a row may say of  *)
(* its note, what an approval that was resolved did; where one host works, *)
(* that a reindex heals whatever deaths and losses left; and, in calm      *)
(* worlds, the rest, the refinement of MemoryLife among it.                *)
(***************************************************************************)
EXTENDS MemoryProperties, SequenceTheorems, FiniteSetTheorems, WellFoundedInduction, TLAPS

Had(m, status) == \E n \in NotesHad(m) : n.status = status

(* Who is idle has no request, and a host of no behaviour is always idle.  *)
IdleInv == \A h \in Hosts :
  /\ pc[h] = "idle" => job[h] = Idle
  /\ h \notin left.hosts => pc[h] = "idle"

(* What the journal says of the history. *)
TxnInv == \A i \in DOMAIN txns :
  /\ txns[i].commit \in DOMAIN commits
  /\ txns[i].mem \in {NoMem, commits[txns[i].commit].mem}

(* A note is what some commit made of it, before each commit too, and only *)
(* what has been forgotten is in the archive.                              *)
NoteInv == \A m \in Memories : note[m] \in NotesHad(m) \cup {NoNote}
BeforeInv == \A i \in DOMAIN commits :
  commits[i].before \in NotesHad(commits[i].mem) \cup {NoNote}
ArchiveInv == \A m \in Memories : \A n \in NotesHad(m) :
  n.place = "Archive" => Had(m, "forgotten")

Edit(before, after) ==
  /\ before \in Notes /\ after \in Notes
  /\ after.place = before.place /\ after.status = before.status

HeldInv == \A a \in DOMAIN held :
  held[a].op = "revise" => Edit(held[a].expected, held[a].after)

Landed(a) ==
  \E n \in NotesHad(held[a].mem) :
    IF held[a].op = "revise" THEN n = held[a].after ELSE n.status = Target[held[a].op]

(* The status a request gives its note. *)
Goal(j) ==
  CASE j.kind = "promote" -> IF j.apr = 0 THEN "working" ELSE "canonical"
    [] j.kind = "retire" -> "retired"
    [] OTHER -> "forgotten"

Newborn(n) == n \in Notes /\ n.place = "Memory" /\ n.status = "scratch"

(* A host's locals at each of its steps. *)
Committed(j) == j.commit \in DOMAIN commits /\ commits[j.commit].mem = j.mem
Done(j) == j.after \in NotesHad(j.mem) /\ (j.kind # "revise" => j.after.status = Goal(j))
Changing(j) == j.mem \in Memories /\ j.kind \in {"promote", "forget", "retire", "revise", "sweep"}

AtCreate(j) == j.mem \in Memories /\ j.kind = "remember" /\ Newborn(j.after) /\ j.how = "ok"
AtInsert(j) == AtCreate(j) /\ j.after \in NotesHad(j.mem) /\ Committed(j)
AtFlip(j) ==
  /\ Changing(j)
  /\ j.expected \in Notes /\ j.after \in Notes /\ j.how = "ok"
  /\ j.after.place = j.expected.place
  /\ IF j.kind = "revise" THEN Edit(j.expected, j.after) ELSE j.after.status = Goal(j)
AtLink(j) ==
  /\ j.mem \in Memories /\ Committed(j)
  /\ \/ j.kind = "remember" /\ j.how = "ok"
     \/ Changing(j) /\ j.how = "flipped" /\ Done(j)
     \/ j.kind \in {"forget", "sweep"} /\ j.how = "archived" /\ Had(j.mem, "forgotten")
AtArchive(j) ==
  /\ j.mem \in Memories /\ j.kind \in {"forget", "sweep"}
  /\ j.how \in {"ok", "flipped"} /\ Done(j)
AtMirror(j) ==
  /\ j.mem \in Memories
  /\ \/ j.how \in {"ok", "flipped"} /\ j.kind \in {"promote", "retire"} /\ Done(j)
     \/ j.kind \in {"forget", "sweep"} /\ j.how = "archived" /\ Had(j.mem, "forgotten")
        /\ Committed(j)
AtResolve(j) == j.apr # 0 /\ j.how \in {"ok", "stale", "error"} /\ (j.how = "ok" => Landed(j.apr))
AtUndo(j) == \A k \in DOMAIN j.queue : j.queue[k] \in DOMAIN txns
AtCompensate(j) ==
  /\ AtUndo(j) /\ j.queue # <<>> /\ j.commit \in DOMAIN commits
  /\ commits[j.commit].mem = commits[txns[Head(j.queue)].commit].mem
AtUpsert(j) ==
  j.mem \in Memories /\ j.expected \in NotesHad(j.mem) /\ j.kind \in Places

(* A host that serves an approval does what the approval says.             *)
Dispatched(j) ==
  j.apr # 0 =>
    /\ j.apr \in DOMAIN held
    /\ j.kind = held[j.apr].op /\ j.mem = held[j.apr].mem
    /\ j.kind = "revise" => j.after = held[j.apr].after

JobAt(step, j) ==
  /\ Dispatched(j)
  /\ j.apr # 0 => step \in {"flip", "link", "archive", "mirror", "resolve"}
  /\ step = "create" => AtCreate(j)
  /\ step = "insert" => AtInsert(j)
  /\ step = "flip" => AtFlip(j)
  /\ step = "link" => AtLink(j)
  /\ step = "archive" => AtArchive(j)
  /\ step = "mirror" => AtMirror(j)
  /\ step = "resolve" => AtResolve(j)
  /\ step = "undo" => AtUndo(j)
  /\ step = "compensate" => AtCompensate(j)
  /\ step = "walk" => j.kind \in Places
  /\ step = "upsert" => AtUpsert(j)

JobInv == \A h \in Hosts : JobAt(pc[h], job[h])

HistoryInv == NoteInv /\ BeforeInv /\ ArchiveInv
IInv ==
  TypeOK /\ IdleInv /\ TxnInv /\ HistoryInv /\ HeldInv /\ JobInv /\ RowNeverAhead
  /\ ApprovedMeansLanded

-----------------------------------------------------------------------------
(* Numbers: a set of them has a least member, and the members of a finite  *)
(* one can be listed newest first.                                         *)

LEMMA LeastNumber ==
  ASSUME NEW T \in SUBSET Nat, T # {}
  PROVE  \E n \in T : \A k \in T : n <= k
<1>1. PICK n \in T : \A k \in T : <<k, n>> \notin OpToRel(<, Nat)
  BY WFMin, NatLessThanWellFounded, Zenon
<1>2. \A k \in T : ~(k < n)
  BY <1>1, Zenon DEF OpToRel
<1> QED
  BY <1>2, SMT

(* How many members of S are n or more: one more at a member than above it. *)
AtLeast(S, n) == Cardinality({k \in S : k >= n})

LEMMA AtLeastSteps ==
  ASSUME NEW N \in Nat, NEW S \in SUBSET (1..N), NEW n \in 1..N
  PROVE  /\ AtLeast(S, n) \in Nat /\ AtLeast(S, n + 1) \in Nat
         /\ AtLeast(S, n) = AtLeast(S, n + 1) + (IF n \in S THEN 1 ELSE 0)
<1> DEFINE A == {k \in S : k >= n}
           B == {k \in S : k >= n + 1}
<1>0. \A k \in S : k \in Nat /\ (k >= n <=> k >= n + 1 \/ k = n)
  OBVIOUS
<1>1. IsFiniteSet(1..N)
  BY FS_Interval
<1>2. IsFiniteSet(S)
  BY <1>1, FS_Subset
<1>3. IsFiniteSet(A) /\ IsFiniteSet(B)
  BY <1>2, FS_Subset
<1>4. Cardinality(A) \in Nat /\ Cardinality(B) \in Nat
  BY <1>3, FS_CardinalityType
<1>5. CASE n \in S
  <2>1. n \in A /\ n \notin B
    BY <1>5
  <2>2. A = B \cup {n}
    BY <1>0, <2>1
  <2>3. Cardinality(A) = Cardinality(B) + 1
    BY <2>1, <2>2, <1>3, FS_AddElement
  <2> QED
    BY <1>4, <1>5, <2>3 DEF AtLeast
<1>6. CASE n \notin S
  <2>1. A = B
    BY <1>0, <1>6
  <2> QED
    BY <1>4, <1>6, <2>1 DEF AtLeast
<1> QED
  BY <1>5, <1>6

LEMMA NewestFirstLists ==
  ASSUME NEW N \in Nat, NEW S \in SUBSET (1..N)
  PROVE  /\ NewestFirst(S) \in Seq(S)
         /\ S = {} => NewestFirst(S) = <<>>
<1> DEFINE C == Cardinality(S)
<1>0. \A k \in S : k \in Nat /\ ~(k >= N + 1) /\ k >= 1
  OBVIOUS
<1>1. IsFiniteSet(S) /\ C \in Nat
  <2>1. IsFiniteSet(1..N)
    BY FS_Interval
  <2>2. IsFiniteSet(S)
    BY <2>1, FS_Subset
  <2> QED
    BY <2>2, FS_CardinalityType
<1>2. ASSUME NEW i \in 1..C
      PROVE  \E n \in S : AtLeast(S, n) = i
  <2> DEFINE T == {k \in Nat : k <= N /\ AtLeast(S, N + 1 - k) >= i}
  <2>1. AtLeast(S, N + 1) = 0
    <3>1. {k \in S : k >= N + 1} = {}
      BY <1>0
    <3> QED
      BY <3>1, FS_EmptySet DEF AtLeast
  <2>2. AtLeast(S, 1) = C
    <3>1. {k \in S : k >= 1} = S
      BY <1>0
    <3> QED
      BY <3>1 DEF AtLeast
  <2>3. N \in T
    BY <1>1, <2>2
  <2>4. PICK k \in T : \A l \in T : k <= l
    BY <2>3, LeastNumber
  <2>5. k # 0 /\ k \in Nat /\ k <= N
    BY <2>1, <2>4
  <2>6. DEFINE n == N + 1 - k
  <2>7. n \in 1..N /\ n + 1 = N + 1 - (k - 1)
    BY <2>5
  <2>8. k - 1 \notin T
    BY <2>4, <2>5
  <2>9. AtLeast(S, n) >= i /\ ~(AtLeast(S, n + 1) >= i)
    BY <2>4, <2>5, <2>7, <2>8
  <2> QED
    BY <2>7, <2>9, AtLeastSteps
<1>3. \A i \in 1..C : (CHOOSE n \in S : AtLeast(S, n) = i) \in S
  BY <1>2
<1>4. NewestFirst(S) = [i \in 1..C |-> CHOOSE n \in S : AtLeast(S, n) = i]
  BY DEF NewestFirst, AtLeast
<1>5. NewestFirst(S) \in [1..C -> S]
  BY <1>3, <1>4
<1>6. NewestFirst(S) \in Seq(S)
  BY <1>1, <1>5, SeqDef
<1>7. S = {} => C = 0
  BY FS_EmptySet
<1> QED
  BY <1>5, <1>6, <1>7
-----------------------------------------------------------------------------
(* A host's locals. *)

LEMMA IdleType ==
  /\ Idle \in JobType
  /\ Idle.kind = "none" /\ Idle.mem = NoMem /\ Idle.apr = 0 /\ Idle.how = "ok"
  /\ Idle.queue = <<>> /\ Idle.commit = 0
BY DEF Idle, JobType, Kinds, Outcome

LEMMA IdleJob == JobAt("idle", Idle) /\ \A s \in {"sweep", "replay"} : JobAt(s, Idle)
BY IdleType DEF JobAt, Dispatched

LEMMA HowSet ==
  ASSUME NEW j \in JobType, NEW how \in Outcome
  PROVE  LET k == [j EXCEPT !.how = how] IN
         /\ k \in JobType /\ k.how = how
         /\ k.kind = j.kind /\ k.mem = j.mem /\ k.apr = j.apr /\ k.expected = j.expected
         /\ k.after = j.after /\ k.commit = j.commit
BY DEF JobType

LEMMA CommitSet ==
  ASSUME NEW j \in JobType, NEW c \in Nat
  PROVE  LET k == [j EXCEPT !.commit = c] IN
         /\ k \in JobType /\ k.commit = c
         /\ k.kind = j.kind /\ k.mem = j.mem /\ k.apr = j.apr /\ k.how = j.how
         /\ k.after = j.after /\ k.queue = j.queue
BY DEF JobType

LEMMA CommitHowSet ==
  ASSUME NEW j \in JobType, NEW c \in Nat, NEW how \in Outcome
  PROVE  LET k == [j EXCEPT !.commit = c, !.how = how] IN
         /\ k \in JobType /\ k.commit = c /\ k.how = how
         /\ k.kind = j.kind /\ k.mem = j.mem /\ k.apr = j.apr /\ k.after = j.after
BY DEF JobType

LEMMA AfterSet ==
  ASSUME NEW j \in JobType, NEW n \in Notes
  PROVE  LET k == [j EXCEPT !.after = n] IN
         /\ k \in JobType /\ k.after = n
         /\ k.kind = j.kind /\ k.mem = j.mem /\ k.apr = j.apr /\ k.how = j.how
BY DEF JobType

(* The locals a request starts with. *)
LEMMA RequestJob ==
  ASSUME NEW kind \in Kinds, NEW m \in Memories
  PROVE  LET k == [Idle EXCEPT !.kind = kind, !.mem = m] IN
         /\ k \in JobType /\ k.kind = kind /\ k.mem = m /\ k.apr = 0 /\ k.how = "ok"
<1>1. \A j \in JobType : LET k == [j EXCEPT !.kind = kind, !.mem = m] IN
        k \in JobType /\ k.kind = kind /\ k.mem = m /\ k.apr = j.apr /\ k.how = j.how
  BY DEF JobType
<1> QED
  BY <1>1, IdleType

LEMMA SweepJob ==
  ASSUME NEW R \in SUBSET Memories
  PROVE  /\ LET k == [Idle EXCEPT !.kind = "sweep", !.rest = R] IN
            k \in JobType /\ k.kind = "sweep" /\ k.apr = 0
         /\ \A m \in Memories : LET k == [Idle EXCEPT !.kind = "sweep", !.mem = m, !.rest = R] IN
            k \in JobType /\ k.kind = "sweep" /\ k.mem = m /\ k.apr = 0 /\ k.how = "ok"
<1>1. \A j \in JobType : LET k == [j EXCEPT !.kind = "sweep", !.rest = R] IN
        k \in JobType /\ k.kind = "sweep" /\ k.apr = j.apr
  BY DEF JobType, Kinds
<1>2. \A j \in JobType, m \in Memories :
        LET k == [j EXCEPT !.kind = "sweep", !.mem = m, !.rest = R] IN
        k \in JobType /\ k.kind = "sweep" /\ k.mem = m /\ k.apr = j.apr /\ k.how = j.how
  BY DEF JobType, Kinds
<1> QED
  BY <1>1, <1>2, IdleType

LEMMA UndoJob ==
  ASSUME NEW q \in Seq(Nat)
  PROVE  LET k == [Idle EXCEPT !.kind = "undo", !.queue = q] IN
         k \in JobType /\ k.kind = "undo" /\ k.apr = 0 /\ k.queue = q
<1>1. \A j \in JobType : LET k == [j EXCEPT !.kind = "undo", !.queue = q] IN
        k \in JobType /\ k.kind = "undo" /\ k.apr = j.apr /\ k.queue = q
  BY DEF JobType, Kinds
<1> QED
  BY <1>1, IdleType

LEMMA WalkJob ==
  ASSUME NEW place \in Places, NEW R \in SUBSET Memories
  PROVE  LET k == [Idle EXCEPT !.kind = place, !.rest = R] IN
         k \in JobType /\ k.kind = place /\ k.apr = 0
<1>1. \A j \in JobType : LET k == [j EXCEPT !.kind = place, !.rest = R] IN
        k \in JobType /\ k.kind = place /\ k.apr = j.apr
  BY DEF JobType, Kinds
<1> QED
  BY <1>1, IdleType

LEMMA QueueSet ==
  ASSUME NEW j \in JobType, NEW q \in Seq(Nat)
  PROVE  LET k == [j EXCEPT !.queue = q] IN
         k \in JobType /\ k.queue = q /\ k.apr = j.apr /\ k.kind = j.kind
BY DEF JobType

LEMMA WalkSets ==
  ASSUME NEW j \in JobType, NEW R \in SUBSET Memories, NEW place \in Places
  PROVE  /\ LET k == [j EXCEPT !.rest = R] IN
            k \in JobType /\ k.kind = j.kind /\ k.apr = j.apr
         /\ LET k == [j EXCEPT !.kind = place, !.rest = R] IN
            k \in JobType /\ k.kind = place /\ k.apr = j.apr
BY DEF JobType, Kinds

LEMMA ReadSet ==
  ASSUME NEW j \in JobType, NEW m \in Memories, NEW n \in Notes
  PROVE  LET k == [j EXCEPT !.mem = m, !.expected = n] IN
         k \in JobType /\ k.mem = m /\ k.expected = n /\ k.kind = j.kind /\ k.apr = j.apr
BY DEF JobType

LEMMA WrittenSet ==
  ASSUME NEW j \in JobType, NEW S \in SUBSET Memories
  PROVE  LET k == [j EXCEPT !.mem = NoMem, !.expected = NoNote, !.seen = S] IN
         k \in JobType /\ k.kind = j.kind /\ k.apr = j.apr
BY DEF JobType
-----------------------------------------------------------------------------
(* The history, the journal and the approvals only grow under a host that  *)
(* is at work (the journal is lost only when nobody is), so what its locals *)
(* say of them stays true.                                                 *)
Grows ==
  /\ \A i \in DOMAIN commits : i \in DOMAIN commits' /\ commits'[i] = commits[i]
  /\ \A i \in DOMAIN txns : i \in DOMAIN txns' /\ txns'[i].commit = txns[i].commit
  /\ \A a \in DOMAIN held :
       /\ a \in DOMAIN held'
       /\ held'[a].op = held[a].op /\ held'[a].mem = held[a].mem /\ held'[a].after = held[a].after

LEMMA NotesKept ==
  ASSUME Grows
  PROVE  /\ \A m : NotesHad(m) \subseteq NotesHad(m)'
         /\ \A m, s : Had(m, s) => Had(m, s)'
<1>1. ASSUME NEW m PROVE NotesHad(m) \subseteq NotesHad(m)'
  <2>1. SUFFICES ASSUME NEW n \in NotesHad(m) PROVE n \in NotesHad(m)'
    OBVIOUS
  <2>2. PICK i \in DOMAIN commits : commits[i].mem = m /\ commits[i].after = n
    BY DEF NotesHad
  <2>3. i \in DOMAIN commits' /\ commits'[i].mem = m /\ commits'[i].after = n
    BY <2>2 DEF Grows
  <2> QED
    BY <2>1, <2>3 DEF NotesHad
<1> QED
  BY <1>1 DEF Had

LEMMA JobKept ==
  ASSUME Grows, TxnInv, NEW s, NEW j \in JobType, JobAt(s, j)
  PROVE  JobAt(s, j)'
<1> USE DEF JobAt
<1>1. Dispatched(j)'
  BY DEF Dispatched, Grows
<1>2. ASSUME Committed(j) PROVE Committed(j)'
  BY <1>2 DEF Committed, Grows
<1>3. ASSUME Done(j) PROVE Done(j)'
  BY <1>3, NotesKept DEF Done, Goal
<1>4. s = "create" => AtCreate(j)'
  BY DEF AtCreate, Newborn
<1>5. s = "insert" => AtInsert(j)'
  BY <1>2, NotesKept DEF AtInsert, AtCreate, Newborn
<1>6. s = "flip" => AtFlip(j)'
  BY DEF AtFlip, Changing, Edit, Goal
<1>7. s = "link" => AtLink(j)'
  BY <1>2, <1>3, NotesKept DEF AtLink, Changing
<1>8. s = "archive" => AtArchive(j)'
  BY <1>3 DEF AtArchive
<1>9. s = "mirror" => AtMirror(j)'
  BY <1>2, <1>3, NotesKept DEF AtMirror
<1>10. s = "resolve" => AtResolve(j)'
  <2>1. ASSUME j.apr \in DOMAIN held, Landed(j.apr) PROVE Landed(j.apr)'
    BY <2>1, NotesKept DEF Landed, Grows
  <2> QED
    BY <2>1 DEF AtResolve, Dispatched
<1>11. AtUndo(j) => AtUndo(j)'
  BY DEF AtUndo, Grows
<1>12. s = "compensate" => AtCompensate(j)'
  <2>1. ASSUME AtCompensate(j) PROVE Head(j.queue) \in DOMAIN txns
    <3>1. j.queue \in Seq(Nat) /\ j.queue # <<>>
      BY <2>1 DEF AtCompensate, JobType
    <3>2. 1 \in DOMAIN j.queue /\ Head(j.queue) = j.queue[1]
      BY <3>1
    <3> QED
      BY <2>1, <3>2 DEF AtCompensate, AtUndo
  <2> QED
    BY <1>11, <2>1 DEF AtCompensate, Grows, TxnInv
<1>13. s = "upsert" => AtUpsert(j)'
  BY NotesKept DEF AtUpsert
<1> QED
  BY <1>1, <1>4, <1>5, <1>6, <1>7, <1>8, <1>9, <1>10, <1>11, <1>12, <1>13

(* What a step of h makes of its place and its locals. *)
Arrives(h) == \E s \in Steps, j \in JobType :
  /\ Begin(h, s, j)
  /\ JobAt(s, j)'
  /\ s = "idle" => j = Idle
  /\ (lock' = h) <=> (s \in {"undo", "compensate"})

OthersLock(h) == \A g \in Hosts \ {h} : (lock' = g) <=> (lock = g)

LEMMA JobsStep ==
  ASSUME TypeOK, IdleInv, TxnInv, JobInv, NEW h \in left.hosts,
         Grows, Arrives(h), OthersLock(h), left'.hosts = left.hosts
  PROVE  /\ pc' \in [Hosts -> Steps] /\ job' \in [Hosts -> JobType]
         /\ \A g \in Hosts : (lock' = g) <=> (pc'[g] \in {"undo", "compensate"})
         /\ IdleInv' /\ JobInv'
<1>1. h \in Hosts
  BY DEF TypeOK
<1>2. PICK s \in Steps, j \in JobType :
        /\ Begin(h, s, j)
        /\ JobAt(s, j)'
        /\ s = "idle" => j = Idle
        /\ (lock' = h) <=> (s \in {"undo", "compensate"})
  BY DEF Arrives
<1>3. pc' = [pc EXCEPT ![h] = s] /\ job' = [job EXCEPT ![h] = j]
  BY <1>2 DEF Begin
<1>4. pc' \in [Hosts -> Steps] /\ job' \in [Hosts -> JobType]
  BY <1>3 DEF TypeOK
<1>5. pc'[h] = s /\ job'[h] = j
  BY <1>1, <1>3 DEF TypeOK
<1>6. \A g \in Hosts \ {h} : pc'[g] = pc[g] /\ job'[g] = job[g]
  BY <1>3 DEF TypeOK
<1>7. \A g \in Hosts : (lock' = g) <=> (pc'[g] \in {"undo", "compensate"})
  BY <1>2, <1>5, <1>6 DEF OthersLock, TypeOK
<1>8. IdleInv'
  BY <1>2, <1>5, <1>6 DEF IdleInv
<1>9. ASSUME NEW g \in Hosts \ {h} PROVE JobAt(pc[g], job[g])'
  <2>1. JobAt(pc[g], job[g]) /\ job[g] \in JobType
    BY DEF JobInv, TypeOK
  <2> DEFINE p == pc[g]
             k == job[g]
  <2>2. PICK q, l : q = pc[g] /\ l = job[g]
    OBVIOUS
  <2>3. JobAt(q, l)'
    BY <2>1, <2>2, JobKept
  <2> QED
    BY <1>6, <2>2, <2>3
<1>10. JobInv'
  BY <1>2, <1>5, <1>6, <1>9 DEF JobInv
<1> QED
  BY <1>4, <1>7, <1>8, <1>10
-----------------------------------------------------------------------------
(* How a request ends, and how a change of status starts. *)
LEMMA Arrive ==
  ASSUME NEW h, NEW s \in Steps, NEW j \in JobType, Begin(h, s, j), JobAt(s, j)',
         s # "idle", (lock' = h) <=> (s \in {"undo", "compensate"})
  PROVE  Arrives(h)
BY DEF Arrives

LEMMA ArriveIdle ==
  ASSUME NEW h, Begin(h, "idle", Idle), lock' # h
  PROVE  Arrives(h)
<1>1. JobAt("idle", Idle)'
  BY IdleType DEF JobAt, Dispatched
<1> QED
  BY <1>1, IdleType DEF Arrives, Steps

LEMMA EndedArrives ==
  ASSUME NEW h, NEW j \in JobType, NEW how \in {"ok", "stale", "error"}, Ended(h, j, how),
         lock' # h, Dispatched(j)', j.apr # 0 /\ how = "ok" => Landed(j.apr)'
  PROVE  Arrives(h)
<1>1. CASE j.apr # 0
  <2> DEFINE k == [j EXCEPT !.how = how]
  <2>1. Begin(h, "resolve", k)
    BY <1>1 DEF Ended
  <2>2. k \in JobType /\ k.how = how /\ k.apr = j.apr /\ k.kind = j.kind /\ k.mem = j.mem
        /\ k.after = j.after
    <3>1. how \in Outcome
      BY DEF Outcome
    <3> QED
      BY <3>1, HowSet
  <2> HIDE DEF k
  <2>3. JobAt("resolve", k)'
    BY <1>1, <2>2 DEF JobAt, AtResolve, Dispatched, Landed
  <2> QED
    BY <2>1, <2>2, <2>3, Arrive DEF Steps
<1>2. CASE j.apr = 0 /\ j.kind = "sweep"
  <2> DEFINE k == [Idle EXCEPT !.kind = "sweep", !.rest = j.rest]
  <2>1. Begin(h, "sweep", k)
    BY <1>2 DEF Ended
  <2>2. k \in JobType /\ k.apr = 0
    BY SweepJob DEF JobType
  <2> HIDE DEF k
  <2>3. JobAt("sweep", k)'
    BY <2>2 DEF JobAt, Dispatched
  <2> QED
    BY <2>1, <2>2, <2>3, Arrive DEF Steps
<1>3. CASE j.apr = 0 /\ j.kind # "sweep"
  BY <1>3, ArriveIdle DEF Ended
<1> QED
  BY <1>1, <1>2, <1>3

LEMMA NoteOfHad ==
  ASSUME TypeOK, NoteInv, NEW m \in Memories, NoteOf(m) # NoNote
  PROVE  /\ NoteOf(m) = note[m] /\ note[m] \in Notes /\ note[m] \in NotesHad(m)
         /\ rows[m] # NoRow /\ rows[m].place = note[m].place
BY DEF NoteOf, IsAt, TypeOK, NoteInv

LEMMA StartFlipArrives ==
  ASSUME TypeOK, NoteInv, NEW h, NEW j \in JobType, NEW status \in Statuses,
         StartFlip(h, j, status), lock' # h, commits' = commits, Dispatched(j)',
         Changing(j), j.kind # "revise", status = Goal(j), j.how = "ok"
  PROVE  Arrives(h)
<1> PICK n : n = NoteOf(j.mem)
  OBVIOUS
<1>0. j.mem \in Memories /\ NotesHad(j.mem)' = NotesHad(j.mem)
  BY DEF Changing, NotesHad
<1>1. CASE n = NoNote
  <2>1. Ended(h, j, "error")
    BY <1>1 DEF StartFlip
  <2> QED
    BY <2>1, EndedArrives
<1>2. CASE n # NoNote /\ n.status = status
  <2> DEFINE k == [j EXCEPT !.after = n]
             s == IF j.kind \in {"forget", "sweep"} THEN "archive" ELSE "mirror"
  <2>1. Begin(h, s, k)
    BY <1>2 DEF StartFlip
  <2>2. n \in Notes /\ n \in NotesHad(j.mem)
    BY <1>0, <1>2, NoteOfHad
  <2>3. k \in JobType /\ k.after = n /\ k.kind = j.kind /\ k.mem = j.mem /\ k.apr = j.apr
        /\ k.how = j.how
    BY <2>2, AfterSet
  <2> HIDE DEF k
  <2>4. Done(k)' /\ Goal(k) = Goal(j)
    BY <1>0, <1>2, <2>2, <2>3 DEF Done, Goal
  <2>5. Dispatched(k)'
    BY <2>3 DEF Dispatched
  <2>6. s \in {"archive", "mirror"}
    OBVIOUS
  <2>7. JobAt(s, k)'
    BY <1>0, <2>3, <2>4, <2>5 DEF JobAt, AtArchive, AtMirror, Changing
  <2> HIDE DEF s
  <2> QED
    BY <2>1, <2>3, <2>6, <2>7, Arrive DEF Steps
<1>3. CASE n # NoNote /\ n.status # status
  <2> DEFINE a == [n EXCEPT !.status = status]
             k == [j EXCEPT !.expected = n, !.after = a]
  <2>1. Begin(h, "flip", k)
    BY <1>3 DEF StartFlip
  <2>2. n \in Notes
    BY <1>0, <1>3, NoteOfHad
  <2>3. a \in Notes /\ a.place = n.place /\ a.status = status
    BY <2>2 DEF Notes
  <2> HIDE DEF a
  <2>4. /\ k \in JobType /\ k.expected = n /\ k.after = a
        /\ k.kind = j.kind /\ k.mem = j.mem /\ k.apr = j.apr /\ k.how = j.how
    BY <2>2, <2>3, j \in JobType DEF JobType
  <2> HIDE DEF k
  <2>5. Goal(k) = Goal(j) /\ Dispatched(k)'
    BY <2>4 DEF Goal, Dispatched
  <2>6. AtFlip(k)
    BY <2>2, <2>3, <2>4, <2>5 DEF AtFlip, Changing
  <2>7. JobAt("flip", k)'
    BY <2>5, <2>6 DEF JobAt, AtFlip, Changing, Edit, Goal
  <2> QED
    BY <2>1, <2>4, <2>7, Arrive DEF Steps
<1> QED
  BY <1>1, <1>2, <1>3
-----------------------------------------------------------------------------
(* The note, the history, the journal and the approvals. *)
Data ==
  /\ note \in [Memories -> Notes \cup {NoNote}]
  /\ commits \in Seq(CommitType)
  /\ rows \in [Memories -> MemoryRows \cup {NoRow}]
  /\ txns \in Seq(TxnType)
  /\ held \in Seq(HeldType)
  /\ TxnInv /\ HistoryInv /\ HeldInv /\ RowNeverAhead /\ ApprovedMeansLanded

LEMMA QuietData ==
  ASSUME Data, UNCHANGED <<note, commits, rows, txns, held>>
  PROVE  Grows /\ Data'
<1>1. Grows
  BY DEF Grows
<1>2. \A m : NotesHad(m)' = NotesHad(m)
  BY DEF NotesHad
<1>3. HistoryInv'
  BY <1>2 DEF Data, HistoryInv, NoteInv, BeforeInv, ArchiveInv, Had
<1>4. RowNeverAhead' /\ ApprovedMeansLanded'
  BY <1>2 DEF Data, RowNeverAhead, ApprovedMeansLanded
<1>5. TxnInv' /\ HeldInv'
  BY DEF Data, TxnInv, HeldInv
<1> QED
  BY <1>1, <1>3, <1>4, <1>5 DEF Data

LEMMA HeldData ==
  ASSUME Data, UNCHANGED <<note, commits, rows, txns>>,
         held' \in Seq(HeldType),
         \A a \in DOMAIN held :
           /\ a \in DOMAIN held'
           /\ held'[a].op = held[a].op /\ held'[a].mem = held[a].mem
           /\ held'[a].expected = held[a].expected /\ held'[a].after = held[a].after
           /\ held'[a].state = "approved" => held[a].state = "approved" \/ Landed(a),
         \A a \in DOMAIN held' \ DOMAIN held :
           /\ held'[a].op # "revise" \/ Edit(held'[a].expected, held'[a].after)
           /\ held'[a].state = "pending"
  PROVE  Grows /\ Data'
<1>1. Grows
  BY DEF Grows
<1>2. \A m : NotesHad(m)' = NotesHad(m)
  BY DEF NotesHad
<1>3. HistoryInv'
  BY <1>2 DEF Data, HistoryInv, NoteInv, BeforeInv, ArchiveInv, Had
<1>4. RowNeverAhead'
  BY <1>2 DEF Data, RowNeverAhead
<1>5. ApprovedMeansLanded'
  <2> SUFFICES ASSUME NEW a \in DOMAIN held', held'[a].state = "approved"
               PROVE  Landed(a)'
    BY DEF ApprovedMeansLanded, Landed
  <2>1. a \in DOMAIN held
    OBVIOUS
  <2>2. Landed(a)
    BY <2>1 DEF Data, ApprovedMeansLanded, Landed
  <2>3. held'[a].mem = held[a].mem /\ held'[a].op = held[a].op /\ held'[a].after = held[a].after
    BY <2>1
  <2> QED
    BY <1>2, <2>2, <2>3 DEF Landed
<1>6. HeldInv'
  BY DEF Data, HeldInv, Edit
<1>7. TxnInv'
  BY DEF Data, TxnInv
<1> QED
  BY <1>1, <1>3, <1>4, <1>5, <1>6, <1>7 DEF Data

LEMMA RowData ==
  ASSUME Data, UNCHANGED <<note, commits, held>>,
         rows' \in [Memories -> MemoryRows \cup {NoRow}],
         \A m \in Memories :
           \/ rows'[m] \in {NoRow, rows[m]}
           \/ \E n \in NotesHad(m) : rows'[m].status \in {n.status, "reverted"},
         txns' \in Seq(TxnType),
         \A i \in DOMAIN txns : i \in DOMAIN txns' /\ txns'[i].commit = txns[i].commit,
         \A i \in DOMAIN txns' :
           /\ txns'[i].commit \in DOMAIN commits
           /\ txns'[i].mem \in {NoMem, commits[txns'[i].commit].mem}
  PROVE  Grows /\ Data'
<1>1. Grows
  BY DEF Grows
<1>2. \A m : NotesHad(m)' = NotesHad(m)
  BY DEF NotesHad
<1>3. HistoryInv'
  BY <1>2 DEF Data, HistoryInv, NoteInv, BeforeInv, ArchiveInv, Had
<1>4. RowNeverAhead'
  <2> SUFFICES ASSUME NEW m \in Memories, rows'[m] # NoRow
               PROVE  \E n \in NotesHad(m)' : rows'[m].status \in {n.status, "reverted"}
    BY DEF RowNeverAhead
  <2>1. rows[m] # NoRow => \E n \in NotesHad(m) : rows[m].status \in {n.status, "reverted"}
    BY DEF Data, RowNeverAhead
  <2> QED
    BY <1>2, <2>1
<1>5. ApprovedMeansLanded'
  BY <1>2 DEF Data, ApprovedMeansLanded
<1>6. TxnInv' /\ HeldInv'
  BY DEF Data, TxnInv, HeldInv
<1> QED
  BY <1>1, <1>3, <1>4, <1>5, <1>6 DEF Data

LEMMA Appended ==
  ASSUME NEW S, NEW s \in Seq(S), NEW e \in S
  PROVE  /\ Append(s, e) \in Seq(S)
         /\ DOMAIN Append(s, e) = DOMAIN s \cup {Len(s) + 1}
         /\ Len(s) + 1 \notin DOMAIN s
         /\ \A i \in DOMAIN s : i \in DOMAIN Append(s, e) /\ Append(s, e)[i] = s[i]
         /\ Append(s, e)[Len(s) + 1] = e
OBVIOUS

LEMMA NotesAppended ==
  ASSUME commits \in Seq(CommitType), NEW r \in CommitType, commits' = Append(commits, r), NEW m
  PROVE  /\ m # r.mem => NotesHad(m)' = NotesHad(m)
         /\ m = r.mem => NotesHad(m)' = NotesHad(m) \cup ({r.after} \ {NoNote})
<1> DEFINE L == Len(commits) + 1
<1>1. /\ DOMAIN commits' = DOMAIN commits \cup {L} /\ L \notin DOMAIN commits
      /\ \A i \in DOMAIN commits : commits'[i] = commits[i]
      /\ commits'[L] = r
  BY Appended
<1> HIDE DEF L
<1>2. \A n : n \in NotesHad(m)' <=> n # NoNote /\ \E i \in DOMAIN commits' :
                                      commits'[i].mem = m /\ n = commits'[i].after
  BY DEF NotesHad
<1>3. \A n : n \in NotesHad(m) <=> n # NoNote /\ \E i \in DOMAIN commits :
                                      commits[i].mem = m /\ n = commits[i].after
  BY DEF NotesHad
<1>4. \A n : n \in NotesHad(m)' <=>
        n \in NotesHad(m) \/ (m = r.mem /\ n = r.after /\ n # NoNote)
  BY <1>1, <1>2, <1>3
<1> QED
  BY <1>4

LEMMA CommitData ==
  ASSUME Data, NEW r \in CommitType, commits' = Append(commits, r),
         r.before = note[r.mem], note' = [note EXCEPT ![r.mem] = r.after],
         r.after # NoNote /\ r.after.place = "Archive"
           => r.after.status = "forgotten" \/ Had(r.mem, "forgotten"),
         rows' = rows, held' = held,
         NEW t \in TxnType, t.commit = Len(commits) + 1, t.mem \in {NoMem, r.mem},
         txns' \in {txns, Append(txns, t)}
  PROVE  /\ Grows /\ Data'
         /\ r.after # NoNote => r.after \in NotesHad(r.mem)'
         /\ Len(commits) + 1 \in DOMAIN commits' /\ commits'[Len(commits) + 1] = r
<1> DEFINE L == Len(commits) + 1
<1>1. /\ commits' \in Seq(CommitType)
      /\ DOMAIN commits' = DOMAIN commits \cup {L} /\ L \notin DOMAIN commits
      /\ \A i \in DOMAIN commits : commits'[i] = commits[i]
      /\ commits'[L] = r
  <2>1. commits \in Seq(CommitType)
    BY DEF Data
  <2> HIDE DEF Data
  <2> QED
    BY <2>1, Appended
<1>2. /\ txns' \in Seq(TxnType)
      /\ \A i \in DOMAIN txns : i \in DOMAIN txns' /\ txns'[i] = txns[i]
      /\ \A i \in DOMAIN txns' : i \in DOMAIN txns \/ txns'[i] = t
  <2>1. txns \in Seq(TxnType)
    BY DEF Data
  <2>2. CASE txns' = txns
    BY <2>1, <2>2
  <2>3. CASE txns' = Append(txns, t)
    <3>1. /\ Append(txns, t) \in Seq(TxnType)
          /\ DOMAIN Append(txns, t) = DOMAIN txns \cup {Len(txns) + 1}
          /\ \A i \in DOMAIN txns : i \in DOMAIN Append(txns, t) /\ Append(txns, t)[i] = txns[i]
          /\ Append(txns, t)[Len(txns) + 1] = t
      BY <2>1, Appended
    <3> QED
      BY <2>3, <3>1, Zenon
  <2> QED
    BY <2>2, <2>3
<1> HIDE DEF L
<1>3. Grows
  BY <1>1, <1>2 DEF Grows
<1>4. r.mem \in Memories /\ r.after \in Notes \cup {NoNote} /\ L = t.commit
  BY DEF CommitType, L
<1>5. \A m : /\ m # r.mem => NotesHad(m)' = NotesHad(m)
             /\ m = r.mem => NotesHad(m)' = NotesHad(m) \cup ({r.after} \ {NoNote})
  BY NotesAppended DEF Data
<1>6. note' \in [Memories -> Notes \cup {NoNote}]
  BY <1>4 DEF Data
<1>7. NoteInv'
  BY <1>4, <1>5 DEF Data, HistoryInv, NoteInv
<1>8. BeforeInv'
  <2> SUFFICES ASSUME NEW i \in DOMAIN commits'
               PROVE  (commits[i].before \in NotesHad(commits[i].mem) \cup {NoNote})'
    BY DEF BeforeInv
  <2>1. CASE i \in DOMAIN commits
    BY <1>1, <1>5, <2>1, ZenonT(30) DEF Data, HistoryInv, BeforeInv
  <2>2. CASE i = L
    BY <1>1, <1>4, <1>5, <2>2 DEF Data, HistoryInv, NoteInv
  <2> QED
    BY <1>1, <2>1, <2>2
<1>9. ArchiveInv'
  <2> SUFFICES ASSUME NEW m \in Memories, NEW n \in NotesHad(m)', n.place = "Archive"
               PROVE  \E k \in NotesHad(m)' : k.status = "forgotten"
    BY DEF ArchiveInv, Had
  <2>1. NotesHad(m) \subseteq NotesHad(m)'
    BY <1>5
  <2>2. CASE n \in NotesHad(m)
    BY <2>1, <2>2 DEF Data, HistoryInv, ArchiveInv, Had
  <2>3. CASE n \notin NotesHad(m)
    <3>1. m = r.mem /\ n = r.after /\ n # NoNote
      BY <1>5, <2>3
    <3> QED
      BY <2>1, <3>1 DEF Had
  <2> QED
    BY <2>2, <2>3
<1>10. RowNeverAhead'
  <2>1. \A m \in Memories : NotesHad(m) \subseteq NotesHad(m)'
    BY <1>5
  <2> QED
    BY <2>1 DEF Data, RowNeverAhead
<1>11. ApprovedMeansLanded'
  <2>1. \A m : NotesHad(m) \subseteq NotesHad(m)'
    BY <1>5
  <2> QED
    BY <2>1 DEF Data, ApprovedMeansLanded
<1>12. TxnInv'
  BY <1>1, <1>2, <1>4 DEF Data, TxnInv
<1>13. HeldInv'
  BY DEF Data, HeldInv
<1> QED
  BY <1>1, <1>2, <1>3, <1>5, <1>6, <1>7, <1>8, <1>9, <1>10, <1>11, <1>12, <1>13
     DEF Data, HistoryInv, L
-----------------------------------------------------------------------------
(* What every step of a host does. *)
LeftType ==
  [hosts : SUBSET Hosts, memories : SUBSET Memories, bodies : SUBSET Bodies, calm : BOOLEAN,
   requests : Nat, held : Nat, undo : Nat, sweep : Nat, crash : Nat, loss : Nat, reindex : Nat]

SameWorld ==
  /\ left' \in LeftType
  /\ left'.hosts = left.hosts /\ left'.calm = left.calm
  /\ left'.crash <= left.crash /\ left'.loss <= left.loss

Stepped(h) ==
  /\ Grows /\ Data' /\ SameWorld
  /\ Arrives(h) /\ OthersLock(h) /\ lock' \in Hosts \cup {NoHost}

Before(h) == IInv /\ h \in Hosts /\ h \in left.hosts

LEMMA Given ==
  ASSUME IInv
  PROVE  /\ Data /\ left \in LeftType /\ lock \in Hosts \cup {NoHost}
         /\ TypeOK /\ IdleInv /\ TxnInv /\ NoteInv /\ JobInv
BY DEF IInv, Data, TypeOK, LeftType, HistoryInv

LEMMA AtStep ==
  ASSUME NEW h, Before(h)
  PROVE  /\ job[h] \in JobType /\ JobAt(pc[h], job[h])
         /\ pc[h] = "idle" => job[h] = Idle
         /\ pc[h] \notin {"undo", "compensate"} => lock # h
BY DEF Before, IInv, TypeOK, JobInv, IdleInv

LEMMA Unspent ==
  ASSUME left \in LeftType, left' = left
  PROVE  SameWorld
BY DEF SameWorld, LeftType

LEMMA Spent ==
  ASSUME left \in LeftType, NEW h, NEW b \in {"requests", "undo", "sweep", "reindex"}, Spend(h, b)
  PROVE  SameWorld /\ pc[h] = "idle"
BY DEF Spend, SameWorld, LeftType

LEMMA LockKept ==
  ASSUME NEW h, Before(h), lock' = lock
  PROVE  OthersLock(h) /\ lock' \in Hosts \cup {NoHost}
BY Given DEF Before, OthersLock

LEMMA StepQuiet ==
  ASSUME NEW h, Before(h), UNCHANGED <<note, commits, rows, txns, held, lock>>, SameWorld, Arrives(h)
  PROVE  Stepped(h)
BY Given, QuietData, LockKept DEF Stepped, Before

(* Where the request is only held, the host stays idle. *)
LEMMA StaysIdle ==
  ASSUME NEW h, Before(h), pc[h] = "idle", UNCHANGED <<pc, job, lock>>
  PROVE  Arrives(h)
<1>1. Begin(h, "idle", Idle)
  BY AtStep DEF Begin, Before, IInv, TypeOK
<1> QED
  BY <1>1, AtStep, ArriveIdle

LEMMA HoldData ==
  ASSUME Data, UNCHANGED <<note, commits, rows, txns>>,
         NEW op \in {"promote", "forget", "retire", "revise"}, NEW m \in Memories,
         NEW n \in Notes \cup {NoNote}, NEW a \in Notes \cup {NoNote},
         op # "revise" \/ Edit(n, a), Hold(op, m, n, a)
  PROVE  Grows /\ Data'
<1> DEFINE r == [op |-> op, mem |-> m, expected |-> n, after |-> a, state |-> "pending"]
<1>1. r \in HeldType /\ held \in Seq(HeldType)
  BY DEF HeldType, Data
<1>2. held' = Append(held, r)
  BY DEF Hold
<1>3. r.op = op /\ r.expected = n /\ r.after = a /\ r.state = "pending"
  OBVIOUS
<1> HIDE DEF r
<1>4. /\ Append(held, r) \in Seq(HeldType)
      /\ DOMAIN Append(held, r) = DOMAIN held \cup {Len(held) + 1}
      /\ \A i \in DOMAIN held : i \in DOMAIN Append(held, r) /\ Append(held, r)[i] = held[i]
      /\ Append(held, r)[Len(held) + 1] = r
  BY <1>1, Appended
<1>5. \A i \in DOMAIN held' \ DOMAIN held : held'[i] = r
  BY <1>2, <1>4
<1>6. \A i \in DOMAIN held : i \in DOMAIN held' /\ held'[i] = held[i]
  BY <1>2, <1>4
<1>7. held' \in Seq(HeldType)
  BY <1>2, <1>4
<1> QED
  BY <1>3, <1>5, <1>6, <1>7, HeldData

LEMMA StepHeld ==
  ASSUME NEW h, Before(h), UNCHANGED <<note, commits, rows, txns, pc, job, lock>>, SameWorld,
         pc[h] = "idle",
         NEW op \in {"promote", "forget", "retire", "revise"}, NEW m \in Memories,
         NEW n \in Notes \cup {NoNote}, NEW a \in Notes \cup {NoNote},
         op # "revise" \/ Edit(n, a), Hold(op, m, n, a)
  PROVE  Stepped(h)
BY Given, HoldData, StaysIdle, LockKept DEF Stepped, Before
-----------------------------------------------------------------------------
(* Requests. *)
LEMMA RememberStep ==
  ASSUME NEW h, Before(h), NEW m \in left.memories, NEW b \in left.bodies, Remember(h, m, b)
  PROVE  Stepped(h)
<1> DEFINE n == [place |-> "Memory", status |-> "scratch", body |-> b]
           k == [Idle EXCEPT !.kind = "remember", !.mem = m, !.after = n]
<1>1. left \in LeftType /\ pc[h] = "idle" /\ SameWorld
  BY Given, Spent DEF Remember, Before
<1>2. m \in Memories /\ b \in Bodies
  BY <1>1 DEF LeftType
<1>3. Newborn(n) /\ n \in Notes
  BY <1>2 DEF Newborn, Notes, Places, Statuses
<1>4. Begin(h, "create", k)
  BY DEF Remember
<1> HIDE DEF n
<1>5. /\ k \in JobType /\ k.kind = "remember" /\ k.mem = m /\ k.apr = 0 /\ k.how = "ok"
      /\ k.after = n
  BY <1>2, <1>3, IdleType DEF JobType, Kinds
<1> HIDE DEF k
<1>6. JobAt("create", k)'
  BY <1>2, <1>3, <1>5 DEF JobAt, Dispatched, AtCreate, Newborn
<1>7. lock' = lock /\ lock # h
  BY <1>1, AtStep DEF Remember
<1>8. Arrives(h)
  BY <1>4, <1>5, <1>6, <1>7, Arrive DEF Steps
<1> QED
  BY <1>1, <1>8, StepQuiet DEF Remember

(* A change of status asked for by a request that is no approval's. *)
LEMMA FlipStep ==
  ASSUME NEW h, Before(h), NEW m \in Memories, NEW kind \in {"promote", "forget", "retire"},
         NEW status \in Statuses,
         StartFlip(h, [Idle EXCEPT !.kind = kind, !.mem = m], status),
         status = CASE kind = "promote" -> "working" [] kind = "retire" -> "retired"
                    [] OTHER -> "forgotten",
         UNCHANGED <<note, commits, rows, txns, held, lock>>, pc[h] = "idle", SameWorld
  PROVE  Stepped(h)
<1> DEFINE k == [Idle EXCEPT !.kind = kind, !.mem = m]
<1>1. kind \in Kinds
  BY DEF Kinds
<1>2. k \in JobType /\ k.kind = kind /\ k.mem = m /\ k.apr = 0 /\ k.how = "ok"
  BY <1>1, RequestJob
<1> HIDE DEF k
<1>3. Dispatched(k)' /\ Changing(k) /\ status = Goal(k)
  BY <1>2 DEF Dispatched, Changing, Goal
<1>4. lock' # h
  BY AtStep
<1>5. StartFlip(h, k, status)
  BY DEF k
<1>6. Arrives(h)
  BY <1>2, <1>3, <1>4, <1>5, Given, StartFlipArrives DEF Before
<1> QED
  BY <1>6, StepQuiet

LEMMA PromoteStep ==
  ASSUME NEW h, Before(h), NEW m \in Memories, Promote(h, m)
  PROVE  Stepped(h)
<1>1. SameWorld /\ pc[h] = "idle"
  BY Given, Spent DEF Promote, Before
<1>2. CASE StartFlip(h, [Idle EXCEPT !.kind = "promote", !.mem = m], "working") /\ UNCHANGED held
  BY <1>1, <1>2, FlipStep, Zenon DEF Promote, Statuses
<1>3. CASE Hold("promote", m, NoNote, NoNote) /\ UNCHANGED <<pc, job>>
  BY <1>1, <1>3, StepHeld DEF Promote
<1> QED
  BY <1>2, <1>3 DEF Promote

LEMMA ForgetStep ==
  ASSUME NEW h, Before(h), NEW m \in Memories, Forget(h, m)
  PROVE  Stepped(h)
<1>1. SameWorld /\ pc[h] = "idle"
  BY Given, Spent DEF Forget, Before
<1>2. CASE StartFlip(h, [Idle EXCEPT !.kind = "forget", !.mem = m], "forgotten") /\ UNCHANGED held
  BY <1>1, <1>2, FlipStep, Zenon DEF Forget, Statuses
<1>3. CASE Hold("forget", m, NoNote, NoNote) /\ UNCHANGED <<pc, job>>
  BY <1>1, <1>3, StepHeld DEF Forget
<1> QED
  BY <1>2, <1>3 DEF Forget

LEMMA RetireStep ==
  ASSUME NEW h, Before(h), NEW m \in Memories, Retire(h, m)
  PROVE  Stepped(h)
<1>1. SameWorld /\ pc[h] = "idle"
  BY Given, Spent DEF Retire, Before
<1>2. CASE StartFlip(h, [Idle EXCEPT !.kind = "retire", !.mem = m], "retired") /\ UNCHANGED held
  BY <1>1, <1>2, FlipStep, Zenon DEF Retire, Statuses
<1>3. CASE Hold("retire", m, NoNote, NoNote) /\ UNCHANGED <<pc, job>>
  BY <1>1, <1>3, StepHeld DEF Retire
<1> QED
  BY <1>2, <1>3 DEF Retire

LEMMA Revised ==
  ASSUME NEW n \in Notes, NEW b \in Bodies
  PROVE  Edit(n, [n EXCEPT !.body = b])
BY DEF Edit, Notes

LEMMA ReviseStep ==
  ASSUME NEW h, Before(h), NEW m \in Memories, NEW b \in left.bodies, Revise(h, m, b)
  PROVE  Stepped(h)
<1>1. SameWorld /\ pc[h] = "idle"
  BY Given, Spent DEF Revise, Before
<1> PICK n : n = NoteOf(m)
  OBVIOUS
<1>2. n \in Notes /\ b \in Bodies
  BY Given, NoteOfHad DEF Revise, Before, LeftType
<1> PICK a : a = [n EXCEPT !.body = b]
  OBVIOUS
<1>3. Edit(n, a) /\ a \in Notes
  BY <1>2, Revised DEF Edit
<1>4. CASE Hold("revise", m, n, a) /\ UNCHANGED <<pc, job>>
  BY <1>1, <1>2, <1>3, <1>4, StepHeld DEF Revise
<1> DEFINE k == [Idle EXCEPT !.kind = "revise", !.mem = m, !.expected = n, !.after = a]
<1>5. CASE Begin(h, "flip", k) /\ UNCHANGED held
  <2>1. /\ k \in JobType /\ k.kind = "revise" /\ k.mem = m /\ k.apr = 0 /\ k.how = "ok"
        /\ k.expected = n /\ k.after = a
    BY <1>2, <1>3, IdleType DEF JobType, Kinds
  <2> HIDE DEF k
  <2>2. JobAt("flip", k)'
    BY <1>2, <1>3, <2>1 DEF JobAt, Dispatched, AtFlip, Changing, Edit
  <2>3. lock' # h
    BY <1>1, AtStep DEF Revise
  <2>4. Arrives(h)
    BY <1>5, <2>1, <2>2, <2>3, Arrive DEF Steps
  <2> QED
    BY <1>1, <1>5, <2>4, StepQuiet DEF Revise
<1> QED
  BY <1>4, <1>5 DEF Revise
(* What a person approved, landed. *)
LEMMA DoneLanded ==
  ASSUME NEW j \in JobType, Dispatched(j)', j.apr # 0, held' \in Seq(HeldType),
         j.kind = "revise" \/ j.kind \in {"promote", "retire", "forget"},
         j.kind = "revise" => j.after \in NotesHad(j.mem)',
         j.kind # "revise" => Had(j.mem, Goal(j))'
  PROVE  Landed(j.apr)'
<1>1. /\ j.apr \in DOMAIN held' /\ held'[j.apr].op = j.kind /\ held'[j.apr].mem = j.mem
      /\ j.kind = "revise" => held'[j.apr].after = j.after
  BY DEF Dispatched
<1>2. j.kind # "revise" => Goal(j) = Target[j.kind]
  BY DEF Goal, Target
<1>3. CASE j.kind = "revise"
  BY <1>1, <1>3 DEF Landed
<1>4. CASE j.kind # "revise"
  BY <1>1, <1>2, <1>4 DEF Landed, Had
<1> QED
  BY <1>3, <1>4

LEMMA RowHad ==
  ASSUME RowNeverAhead, NEW m \in Memories, rows[m] # NoRow, rows[m].status # "reverted"
  PROVE  Had(m, rows[m].status)
BY DEF RowNeverAhead, Had

LEMMA ApproveStep ==
  ASSUME NEW h, Before(h), NEW a \in DOMAIN held, Approve(h, a)
  PROVE  Stepped(h)
<1> PICK op : op = held[a]
  OBVIOUS
<1> DEFINE m == op.mem
           k == [Idle EXCEPT !.kind = op.op, !.mem = m, !.apr = a]
<1>1. SameWorld /\ pc[h] = "idle" /\ lock' # h
  BY Given, Spent, AtStep DEF Approve, Before
<1>2. op \in HeldType /\ a \in Nat /\ a # 0
  BY DEF Before, IInv, TypeOK
<1>3. /\ m \in Memories /\ op.op \in {"promote", "forget", "retire", "revise"}
      /\ op.op \in Kinds
  BY <1>2 DEF HeldType, Kinds
<1>4. op.op = "revise" => Edit(op.expected, op.after)
  BY DEF Before, IInv, HeldInv
<1>5. k \in JobType /\ k.kind = op.op /\ k.mem = m /\ k.apr = a /\ k.how = "ok"
  BY <1>2, <1>3, IdleType DEF JobType
<1>6. UNCHANGED <<note, commits, rows, txns, held, lock>>
  BY DEF Approve
<1>7. /\ \A n : NotesHad(n)' = NotesHad(n)
      /\ \A n, s : Had(n, s)' = Had(n, s)
  BY <1>6 DEF NotesHad, Had
<1> USE <1>1, <1>6
<1>8. CASE op.op = "revise"
           /\ Begin(h, "flip", [k EXCEPT !.expected = op.expected, !.after = op.after])
  <2> DEFINE l == [k EXCEPT !.expected = op.expected, !.after = op.after]
  <2>1. op.expected \in Notes /\ op.after \in Notes
    BY <1>4, <1>8 DEF Edit
  <2>2. /\ l \in JobType /\ l.expected = op.expected /\ l.after = op.after /\ l.kind = op.op
        /\ l.mem = m /\ l.apr = a /\ l.how = "ok"
    <3> HIDE DEF k
    <3> QED
      BY <1>5, <2>1 DEF JobType
  <2> HIDE DEF l, k
  <2>3. JobAt("flip", l)'
    BY <1>3, <1>4, <1>8, <2>1, <2>2 DEF JobAt, Dispatched, AtFlip, Changing, Edit
  <2>4. Begin(h, "flip", l)
    BY <1>8 DEF l
  <2> QED
    BY <2>2, <2>3, <2>4, Arrive, StepQuiet DEF Steps
<1>9. op.op # "revise" => Dispatched(k)'
  BY <1>5 DEF Dispatched
<1>10. ASSUME op.op # "revise", NEW how \in {"ok", "stale", "error"}, Ended(h, k, how),
              how = "ok" => Had(m, Goal(k))
       PROVE  Stepped(h)
  <2> HIDE DEF k
  <2>1. held' \in Seq(HeldType)
    BY DEF Before, IInv, TypeOK
  <2>2. how = "ok" => Landed(k.apr)'
    BY <1>2, <1>3, <1>5, <1>7, <1>9, <1>10, <2>1, DoneLanded
  <2>3. Arrives(h)
    BY <1>5, <1>9, <1>10, <2>2, EndedArrives
  <2> QED
    BY <2>3, StepQuiet
<1>11. ASSUME op.op # "revise", NEW status \in Statuses, status = Goal(k), StartFlip(h, k, status)
       PROVE  Stepped(h)
  <2> HIDE DEF k
  <2>1. Changing(k)
    BY <1>3, <1>5 DEF Changing
  <2>2. Arrives(h)
    BY <1>5, <1>9, <1>11, <2>1, Given, StartFlipArrives DEF Before
  <2> QED
    BY <2>2, StepQuiet
<1>12. CASE op.op # "revise" /\ rows[m] = NoRow /\ Ended(h, k, "error")
  BY <1>10, <1>12
<1>13. CASE op.op = "promote" /\ rows[m] # NoRow /\ StartFlip(h, k, "canonical")
  <2>1. "canonical" = Goal(k)
    BY <1>2, <1>5, <1>13 DEF Goal
  <2> QED
    BY <1>11, <1>13, <2>1 DEF Statuses
<1>14. CASE op.op = "forget" /\ rows[m] # NoRow
            /\ IF rows[m].status = "forgotten" THEN Ended(h, k, "ok")
               ELSE StartFlip(h, k, "forgotten")
  <2>1. "forgotten" = Goal(k)
    BY <1>5, <1>14 DEF Goal
  <2>2. rows[m].status = "forgotten" => Had(m, "forgotten")
    BY <1>3, <1>14, RowHad DEF Before, IInv
  <2> QED
    BY <1>10, <1>11, <1>14, <2>1, <2>2 DEF Statuses
<1>15. CASE op.op = "retire" /\ rows[m] # NoRow
            /\ CASE rows[m].status = "retired" -> Ended(h, k, "ok")
                 [] rows[m].status \in {"scratch", "forgotten", "reverted"} -> Ended(h, k, "stale")
                 [] OTHER -> StartFlip(h, k, "retired")
  <2>1. "retired" = Goal(k)
    BY <1>5, <1>15 DEF Goal
  <2>2. rows[m].status = "retired" => Had(m, "retired")
    BY <1>3, <1>15, RowHad DEF Before, IInv
  <2>3. CASE rows[m].status = "retired"
    BY <1>10, <1>15, <2>1, <2>2, <2>3
  <2>4. CASE rows[m].status \in {"scratch", "forgotten", "reverted"}
    BY <1>10, <1>15, <2>4
  <2>5. CASE rows[m].status \notin {"retired", "scratch", "forgotten", "reverted"}
    BY <1>11, <1>15, <2>1, <2>5 DEF Statuses
  <2> QED
    BY <2>3, <2>4, <2>5
<1> QED
  <2> HIDE DEF Stepped
  <2> QED
    BY <1>8, <1>12, <1>13, <1>14, <1>15 DEF Approve

LEMMA RejectStep ==
  ASSUME NEW h, Before(h), NEW a \in DOMAIN held, Reject(h, a)
  PROVE  Stepped(h)
<1>1. SameWorld /\ pc[h] = "idle"
  BY Given, Spent DEF Reject, Before
<1>2. held' = [held EXCEPT ![a].state = "rejected"]
  BY DEF Reject
<1>3. held \in Seq(HeldType)
  BY DEF Before, IInv, TypeOK
<1>4. held[a] \in HeldType
  BY <1>3
<1>5. [held[a] EXCEPT !.state = "rejected"] \in HeldType
  BY <1>4 DEF HeldType
<1>6. held' \in Seq(HeldType) /\ DOMAIN held' = DOMAIN held
  BY <1>2, <1>3, <1>5
<1>7. \A i \in DOMAIN held :
        /\ held'[i].op = held[i].op /\ held'[i].mem = held[i].mem
        /\ held'[i].expected = held[i].expected /\ held'[i].after = held[i].after
        /\ held'[i].state \in {held[i].state, "rejected"}
  BY <1>2, <1>3, <1>4 DEF HeldType
<1>8. Grows /\ Data'
  BY <1>6, <1>7, Given, HeldData DEF Reject, Before
<1> QED
  BY <1>1, <1>8, StaysIdle, LockKept DEF Reject, Stepped
LEMMA SweepListStep ==
  ASSUME NEW h, Before(h), SweepList(h)
  PROVE  Stepped(h)
<1>1. SameWorld /\ pc[h] = "idle" /\ lock' # h
  BY Given, Spent, AtStep DEF SweepList, Before
<1>2. PICK R \in SUBSET Memories : Begin(h, "sweep", [Idle EXCEPT !.kind = "sweep", !.rest = R])
  BY DEF SweepList
<1> DEFINE k == [Idle EXCEPT !.kind = "sweep", !.rest = R]
<1>3. k \in JobType /\ k.apr = 0
  BY SweepJob
<1> HIDE DEF k
<1>4. JobAt("sweep", k)'
  BY <1>3 DEF JobAt, Dispatched
<1>5. Begin(h, "sweep", k)
  BY <1>2 DEF k
<1> QED
  BY <1>1, <1>3, <1>4, <1>5, Arrive, StepQuiet DEF SweepList, Steps

(* The queue of an undo names rows of the journal. *)
LEMMA SessionQueueRows ==
  ASSUME txns \in Seq(TxnType)
  PROVE  SessionQueue \in Seq(DOMAIN txns)
<1> DEFINE S == {i \in DOMAIN txns : txns[i].status = "applied" /\ txns[i].op # "revert"}
<1>1. S \in SUBSET (1..Len(txns)) /\ Len(txns) \in Nat /\ DOMAIN txns = 1..Len(txns)
  OBVIOUS
<1>2. SessionQueue = NewestFirst(S)
  BY DEF SessionQueue
<1> HIDE DEF S
<1>3. NewestFirst(S) \in Seq(S)
  BY <1>1, NewestFirstLists
<1>4. S \subseteq DOMAIN txns
  BY <1>1
<1> QED
  BY <1>2, <1>3, <1>4, SeqMonotonic

LEMMA UndoStartStep ==
  ASSUME NEW h, Before(h), NEW q \in Seq(DOMAIN txns), UndoStart(h, q)
  PROVE  Stepped(h)
<1>1. SameWorld /\ pc[h] = "idle"
  BY Given, Spent DEF UndoStart, Before
<1>2. DOMAIN txns \subseteq Nat
  BY DEF Before, IInv, TypeOK
<1> PICK p : p = q
  OBVIOUS
<1>3. p \in Seq(Nat) /\ \A i \in DOMAIN p : p[i] \in DOMAIN txns
  BY <1>2, SeqMonotonic
<1> DEFINE k == [Idle EXCEPT !.kind = "undo", !.queue = p]
<1>4. k \in JobType /\ k.kind = "undo" /\ k.apr = 0 /\ k.queue = p
  BY <1>3, UndoJob
<1>5. Begin(h, "undo", k) /\ lock = NoHost /\ lock' = h /\ UNCHANGED <<note, commits, rows, txns, held>>
  BY DEF UndoStart
<1> HIDE DEF k
<1>6. JobAt("undo", k)'
  BY <1>3, <1>4, <1>5 DEF JobAt, Dispatched, AtUndo
<1>7. Arrives(h)
  BY <1>4, <1>5, <1>6, Arrive DEF Steps
<1>8. OthersLock(h) /\ lock' \in Hosts \cup {NoHost}
  BY <1>5, SentinelAssumption DEF OthersLock, Before
<1> QED
  BY <1>1, <1>5, <1>7, <1>8, Given, QuietData DEF Stepped, Before

LEMMA StartReindexStep ==
  ASSUME NEW h, Before(h), StartReindex(h)
  PROVE  Stepped(h)
<1>1. SameWorld /\ pc[h] = "idle" /\ lock' # h
  <2>1. CASE UNCHANGED left
    BY <2>1, Given, Unspent, AtStep DEF StartReindex, Before
  <2>2. CASE Spend(h, "reindex")
    BY <2>2, Given, Spent, AtStep DEF StartReindex, Before
  <2> QED
    BY <2>1, <2>2 DEF StartReindex
<1> PICK R : R = InPlace("Memory")
  OBVIOUS
<1>2. R \in SUBSET Memories /\ "Memory" \in Places
  BY DEF InPlace, Places
<1> DEFINE k == [Idle EXCEPT !.kind = "Memory", !.rest = R]
<1>3. k \in JobType /\ k.kind = "Memory" /\ k.apr = 0
  BY <1>2, WalkJob
<1>4. Begin(h, "walk", k)
  BY DEF StartReindex
<1> HIDE DEF k
<1>5. JobAt("walk", k)'
  BY <1>2, <1>3 DEF JobAt, Dispatched
<1> QED
  BY <1>1, <1>3, <1>4, <1>5, Arrive, StepQuiet DEF StartReindex, Steps

LEMMA RequestStep ==
  ASSUME NEW h, Before(h), Request(h)
  PROVE  Stepped(h)
<1>1. \A m \in left.memories : m \in Memories
  BY Given DEF Before, LeftType
<1>2. CASE \E m \in left.memories, b \in left.bodies : Remember(h, m, b) \/ Revise(h, m, b)
  BY <1>1, <1>2, RememberStep, ReviseStep
<1>3. CASE \E m \in left.memories : Promote(h, m) \/ Forget(h, m) \/ Retire(h, m)
  BY <1>1, <1>3, PromoteStep, ForgetStep, RetireStep
<1>4. CASE \E a \in DOMAIN held : Approve(h, a) \/ Reject(h, a)
  BY <1>4, ApproveStep, RejectStep
<1>5. CASE SweepList(h)
  BY <1>5, SweepListStep
<1>6. CASE \E i \in DOMAIN txns : UndoStart(h, <<i>>)
  <2>1. \A i \in DOMAIN txns : <<i>> \in Seq(DOMAIN txns)
    OBVIOUS
  <2> QED
    BY <1>6, <2>1, UndoStartStep
<1>7. CASE UndoStart(h, SessionQueue)
  <2>1. txns \in Seq(TxnType)
    BY DEF Before, IInv, TypeOK
  <2> QED
    BY <1>7, <2>1, SessionQueueRows, UndoStartStep
<1>8. CASE StartReindex(h)
  BY <1>8, StartReindexStep
<1> QED
  BY <1>2, <1>3, <1>4, <1>5, <1>6, <1>7, <1>8 DEF Request
-----------------------------------------------------------------------------
(* Steps of a request that is under way. *)
LEMMA Working ==
  ASSUME NEW h, Before(h), left' = left, lock' = lock, pc[h] \notin {"undo", "compensate"}
  PROVE  SameWorld /\ lock' # h /\ OthersLock(h) /\ lock' \in Hosts \cup {NoHost}
BY Given, Unspent, AtStep, LockKept DEF Before

LEMMA CreateStep ==
  ASSUME NEW h, Before(h), CreateNote(h)
  PROVE  Stepped(h)
<1> PICK j : j = job[h]
  OBVIOUS
<1>1. j \in JobType /\ JobAt("create", j)
  BY AtStep DEF CreateNote
<1>2. /\ j.mem \in Memories /\ j.kind = "remember" /\ Newborn(j.after) /\ j.how = "ok" /\ j.apr = 0
  BY <1>1 DEF JobAt, AtCreate
<1>3. SameWorld /\ lock' # h /\ OthersLock(h) /\ lock' \in Hosts \cup {NoHost}
  BY Working DEF CreateNote
<1> DEFINE r == [op |-> "create", mem |-> j.mem, before |-> note[j.mem], after |-> j.after]
           t == [commit |-> Len(commits) + 1, op |-> "create", mem |-> NoMem, status |-> "applied"]
           k == [j EXCEPT !.commit = Len(commits) + 1]
<1>4. r \in CommitType /\ t \in TxnType /\ Len(commits) + 1 \in Nat
  BY <1>2, Given DEF CommitType, TxnType, Ops, Newborn, Before, Data
<1>5. /\ commits' = Append(commits, r) /\ txns' = Append(txns, t)
      /\ note' = [note EXCEPT ![r.mem] = r.after] /\ UNCHANGED <<rows, held>>
      /\ Begin(h, "insert", k)
  BY DEF CreateNote, Applied
<1>6. /\ r.mem = j.mem /\ r.after = j.after /\ r.before = note[r.mem]
      /\ t.commit = Len(commits) + 1 /\ t.mem = NoMem
  OBVIOUS
<1>7. r.after # NoNote /\ r.after.place # "Archive"
  BY <1>2, NoNoteAssumption DEF Newborn
<1> PICK c : c = Len(commits) + 1
  OBVIOUS
<1> HIDE DEF r, t
<1>8. /\ Grows /\ Data' /\ j.after \in NotesHad(j.mem)'
      /\ c \in DOMAIN commits' /\ commits'[c] = r
  BY <1>4, <1>5, <1>6, <1>7, CommitData, Given DEF Before
<1>9. k = [j EXCEPT !.commit = c]
  OBVIOUS
<1>10. /\ k \in JobType /\ k.commit = c
       /\ k.kind = j.kind /\ k.mem = j.mem /\ k.apr = j.apr /\ k.how = j.how /\ k.after = j.after
  BY <1>1, <1>4 DEF JobType
<1> PICK l : l = k
  OBVIOUS
<1> HIDE DEF k
<1>11. Committed(l)' /\ AtCreate(l)'
  BY <1>2, <1>6, <1>8, <1>10 DEF Committed, AtCreate, Newborn
<1>12. JobAt("insert", l)'
  BY <1>2, <1>8, <1>10, <1>11 DEF JobAt, Dispatched, AtInsert
<1>13. Arrives(h)
  BY <1>3, <1>5, <1>10, <1>12, Arrive DEF Steps
<1> QED
  BY <1>3, <1>8, <1>13 DEF Stepped

LEMMA InsertStep ==
  ASSUME NEW h, Before(h), InsertRow(h)
  PROVE  Stepped(h)
<1> PICK j : j = job[h]
  OBVIOUS
<1>1. j \in JobType /\ JobAt("insert", j)
  BY AtStep DEF InsertRow
<1>2. /\ j.mem \in Memories /\ j.kind = "remember" /\ j.how = "ok" /\ j.apr = 0
      /\ j.after \in NotesHad(j.mem) /\ j.after.status = "scratch" /\ Committed(j)
  BY <1>1 DEF JobAt, AtInsert, AtCreate, Newborn
<1>3. SameWorld /\ lock' # h /\ OthersLock(h) /\ lock' \in Hosts \cup {NoHost}
  BY Working DEF InsertRow
<1>4. /\ rows' = [rows EXCEPT ![j.mem] = [place |-> "Memory", status |-> "scratch"]]
      /\ UNCHANGED <<note, commits, txns, held>>
  BY DEF InsertRow
<1>5. [place |-> "Memory", status |-> "scratch"] \in MemoryRows
  BY DEF MemoryRows, Places, Statuses
<1>6. rows' \in [Memories -> MemoryRows \cup {NoRow}]
  BY <1>2, <1>4, <1>5, Given DEF Before, Data
<1>7. Grows /\ Data'
  <2>1. \A m \in Memories :
          \/ rows'[m] \in {NoRow, rows[m]}
          \/ \E n \in NotesHad(m) : rows'[m].status \in {n.status, "reverted"}
    BY <1>2, <1>4, Given DEF Before, Data
  <2>2. txns \in Seq(TxnType) /\ TxnInv
    BY Given DEF Before, Data
  <2> QED
    BY <1>4, <1>6, <2>1, <2>2, RowData, Given DEF Before, TxnInv
<1>8. Begin(h, "link", j)
  BY DEF InsertRow, Goto
<1>9. AtLink(j)
  BY <1>2 DEF AtLink
<1>10. JobAt("link", j)
  BY <1>2, <1>9 DEF JobAt, Dispatched
<1>11. JobAt("link", j)'
  BY <1>1, <1>7, <1>10, JobKept, Given DEF Before
<1>12. Arrives(h)
  BY <1>1, <1>3, <1>8, <1>11, Arrive DEF Steps
<1> QED
  BY <1>3, <1>7, <1>12 DEF Stepped

LEMMA LinkStep ==
  ASSUME NEW h, Before(h), LinkTransaction(h)
  PROVE  Stepped(h)
<1> PICK j : j = job[h]
  OBVIOUS
<1>1. j \in JobType /\ JobAt("link", j)
  BY AtStep DEF LinkTransaction
<1>2. AtLink(j) /\ Dispatched(j)
  BY <1>1 DEF JobAt
<1>3. SameWorld /\ lock' # h /\ OthersLock(h) /\ lock' \in Hosts \cup {NoHost}
  BY Working DEF LinkTransaction
<1>4. UNCHANGED <<note, commits, rows, held>>
  BY DEF LinkTransaction
<1>5. txns' = [i \in DOMAIN txns |->
                IF txns[i].commit = j.commit THEN [txns[i] EXCEPT !.mem = j.mem] ELSE txns[i]]
  BY DEF LinkTransaction
<1>6. txns \in Seq(TxnType) /\ TxnInv /\ j.mem \in Memories
  BY <1>2, Given DEF Before, Data, AtLink
<1>7. \A t \in TxnType : LET u == [t EXCEPT !.mem = j.mem] IN
        u \in TxnType /\ u.commit = t.commit /\ u.mem = j.mem
  BY <1>6 DEF TxnType
<1>8. DOMAIN txns' = DOMAIN txns /\ \A i \in DOMAIN txns :
        /\ txns'[i] \in TxnType /\ txns'[i].commit = txns[i].commit
        /\ txns'[i].mem = IF txns[i].commit = j.commit THEN j.mem ELSE txns[i].mem
  BY <1>5, <1>6, <1>7
<1>9. txns' \in Seq(TxnType)
  <2>1. DOMAIN txns = 1..Len(txns) /\ Len(txns) \in Nat
    BY <1>6
  <2>2. txns' \in [1..Len(txns) -> TxnType]
    BY <1>5, <1>8, <2>1
  <2> QED
    BY <2>1, <2>2, SeqDef
<1>10. Grows /\ Data'
  <2>1. \A i \in DOMAIN txns' :
          /\ txns'[i].commit \in DOMAIN commits
          /\ txns'[i].mem \in {NoMem, commits[txns'[i].commit].mem}
    BY <1>2, <1>6, <1>8 DEF TxnInv, AtLink, Committed
  <2>2. rows' \in [Memories -> MemoryRows \cup {NoRow}]
    BY <1>4, Given DEF Before, Data
  <2> QED
    BY <1>4, <1>8, <1>9, <2>1, <2>2, RowData, Given DEF Before
<1>11. \A s, k : k \in JobType /\ JobAt(s, k) => JobAt(s, k)'
  BY <1>6, <1>10, JobKept
<1>12. AfterLink(h)
  BY DEF LinkTransaction
<1>13. CASE j.kind \in {"promote", "retire"}
  <2>1. Begin(h, "mirror", j)
    BY <1>12, <1>13 DEF AfterLink, Goto
  <2>2. AtMirror(j)
    BY <1>2, <1>13 DEF AtLink, AtMirror
  <2>3. JobAt("mirror", j)
    BY <1>2, <2>2 DEF JobAt
  <2> QED
    BY <1>1, <1>3, <1>10, <1>11, <2>1, <2>3, Arrive DEF Stepped, Steps
<1>14. CASE j.kind \in {"forget", "sweep"} /\ j.how = "flipped"
  <2>1. Begin(h, "archive", j)
    BY <1>12, <1>14 DEF AfterLink, Goto
  <2>2. AtArchive(j)
    BY <1>2, <1>14 DEF AtLink, AtArchive
  <2>3. JobAt("archive", j)
    BY <1>2, <2>2 DEF JobAt
  <2> QED
    BY <1>1, <1>3, <1>10, <1>11, <2>1, <2>3, Arrive DEF Stepped, Steps
<1>15. CASE /\ j.kind \notin {"promote", "retire"}
            /\ ~(j.kind \in {"forget", "sweep"} /\ j.how = "flipped")
  <2>1. Ended(h, j, "ok")
    BY <1>12, <1>15 DEF AfterLink
  <2>2. ASSUME j.apr # 0 PROVE Landed(j.apr)
    <3>1. held[j.apr] \in HeldType
      BY <1>2, <2>2, Given DEF Dispatched, Before, Data
    <3>2. j.kind \in {"revise", "forget"}
      BY <1>2, <1>15, <2>2, <3>1 DEF Dispatched, HeldType
    <3>3. CASE j.kind = "revise"
      BY <1>2, <2>2, <3>3 DEF AtLink, Done, Dispatched, Landed
    <3>4. CASE j.kind = "forget"
      BY <1>2, <1>15, <2>2, <3>4 DEF AtLink, Had, Dispatched, Landed, Target
    <3> QED
      BY <3>2, <3>3, <3>4
  <2>3. j.apr # 0 => Landed(j.apr)'
    BY <1>4, <2>2 DEF Landed, NotesHad
  <2>4. Dispatched(j)'
    BY <1>2, <1>4 DEF Dispatched
  <2>5. Arrives(h)
    BY <1>1, <1>3, <2>1, <2>3, <2>4, EndedArrives
  <2> QED
    BY <1>3, <1>10, <2>5 DEF Stepped
<1> QED
  BY <1>13, <1>14, <1>15
LEMMA ApplyPatchStep ==
  ASSUME NEW h, Before(h), ApplyPatch(h)
  PROVE  Stepped(h)
<1> PICK j : j = job[h]
  OBVIOUS
<1> DEFINE m == j.mem
           fits == IsAt(m, j.expected.place) /\ note[m] = j.expected
<1>1. j \in JobType /\ JobAt("flip", j)
  BY AtStep DEF ApplyPatch
<1>2. AtFlip(j) /\ Dispatched(j)
  BY <1>1 DEF JobAt
<1>3. SameWorld /\ lock' # h /\ OthersLock(h) /\ lock' \in Hosts \cup {NoHost}
  BY Working DEF ApplyPatch
<1>4. /\ m \in Memories /\ j.after \in Notes /\ j.expected \in Notes
      /\ j.after.place = j.expected.place /\ j.how = "ok"
      /\ j.kind \in {"promote", "forget", "retire", "revise", "sweep"}
  BY <1>2 DEF AtFlip, Changing
<1>5. CASE fits
  <2> DEFINE r == [op |-> "revise", mem |-> m, before |-> note[m], after |-> j.after]
             t == [commit |-> Len(commits) + 1, op |-> "revise", mem |-> NoMem,
                   status |-> "applied"]
  <2>1. /\ commits' = Append(commits, r) /\ txns' = Append(txns, t)
        /\ note' = [note EXCEPT ![r.mem] = r.after] /\ UNCHANGED <<rows, held>>
        /\ IF j.kind = "revise" /\ j.apr # 0 THEN Ended(h, j, "ok")
           ELSE Begin(h, "link", [j EXCEPT !.commit = Len(commits) + 1, !.how = "flipped"])
    BY <1>5 DEF ApplyPatch, Applied
  <2>2. r \in CommitType /\ t \in TxnType /\ Len(commits) + 1 \in Nat
    BY <1>4, Given DEF CommitType, TxnType, Ops, Before, Data
  <2>3. /\ r.mem = m /\ r.after = j.after /\ r.before = note[r.mem]
        /\ t.commit = Len(commits) + 1 /\ t.mem = NoMem
    OBVIOUS
  <2>4. r.after.place = "Archive" => Had(m, "forgotten")
    BY <1>4, <1>5, <2>3, NoNoteAssumption, Given DEF Before, Data, HistoryInv, NoteInv, ArchiveInv
  <2> PICK c : c = Len(commits) + 1
    OBVIOUS
  <2> HIDE DEF r, t
  <2>5. /\ Grows /\ Data' /\ j.after \in NotesHad(m)'
        /\ c \in DOMAIN commits' /\ commits'[c] = r
    <3>1. r.after # NoNote
      BY <1>4, <2>3, NoNoteAssumption
    <3> QED
      BY <2>1, <2>2, <2>3, <2>4, <3>1, CommitData, Given DEF Before
  <2>6. Done(j)'
    BY <1>2, <2>5 DEF Done, AtFlip, Goal
  <2>7. CASE j.kind = "revise" /\ j.apr # 0
    <3>1. Dispatched(j)' /\ held' \in Seq(HeldType)
      BY <1>2, <2>1, <2>5 DEF Dispatched, Data
    <3>2. Landed(j.apr)'
      BY <1>1, <2>5, <2>7, <3>1, DoneLanded
    <3>3. Arrives(h)
      BY <1>1, <1>3, <2>1, <2>7, <3>1, <3>2, EndedArrives
    <3> QED
      BY <1>3, <2>5, <3>3 DEF Stepped
  <2>8. CASE ~(j.kind = "revise" /\ j.apr # 0)
    <3> DEFINE k == [j EXCEPT !.commit = c, !.how = "flipped"]
    <3>1. Begin(h, "link", k)
      BY <2>1, <2>8
    <3>2. /\ k \in JobType /\ k.commit = c /\ k.how = "flipped"
          /\ k.kind = j.kind /\ k.mem = m /\ k.apr = j.apr /\ k.after = j.after
      BY <1>1, <2>2 DEF JobType, Outcome
    <3> HIDE DEF k
    <3>3. Done(k)'
      BY <2>6, <3>2 DEF Done, Goal
    <3>4. Committed(k)'
      BY <2>3, <2>5, <3>2 DEF Committed
    <3>5. AtLink(k)'
      BY <1>4, <3>2, <3>3, <3>4 DEF AtLink, Changing
    <3>6. JobAt("link", k)'
      BY <1>2, <2>1, <3>2, <3>5 DEF JobAt, Dispatched
    <3>7. Arrives(h)
      BY <1>3, <3>1, <3>2, <3>6, Arrive DEF Steps
    <3> QED
      BY <1>3, <2>5, <3>7 DEF Stepped
  <2> QED
    BY <2>7, <2>8
<1>6. CASE ~fits
  <2>1. PICK how \in {"stale", "error"} : Ended(h, j, how)
    BY <1>6 DEF ApplyPatch
  <2>2. UNCHANGED <<note, commits, rows, txns, held, lock>>
    BY <1>6 DEF ApplyPatch
  <2>3. Dispatched(j)'
    BY <1>2, <2>2 DEF Dispatched
  <2>4. Arrives(h)
    BY <1>1, <1>3, <2>1, <2>3, EndedArrives
  <2> QED
    BY <1>3, <2>2, <2>4, StepQuiet
<1> QED
  BY <1>5, <1>6

LEMMA ArchiveStep ==
  ASSUME NEW h, Before(h), ArchiveNote(h)
  PROVE  Stepped(h)
<1> PICK j : j = job[h]
  OBVIOUS
<1> DEFINE m == j.mem
           found == j.after.place = "Memory" /\ IsAt(m, "Memory")
<1>1. j \in JobType /\ JobAt("archive", j)
  BY AtStep DEF ArchiveNote
<1>2. AtArchive(j) /\ Dispatched(j)
  BY <1>1 DEF JobAt
<1>3. SameWorld /\ lock' # h /\ OthersLock(h) /\ lock' \in Hosts \cup {NoHost}
  BY Working DEF ArchiveNote
<1>4. m \in Memories /\ j.kind \in {"forget", "sweep"} /\ Had(m, "forgotten")
  BY <1>2 DEF AtArchive, Done, Had, Goal
<1>5. CASE found
  <2> PICK n : n = note[m]
    OBVIOUS
  <2> DEFINE a == [n EXCEPT !.place = "Archive"]
             r == [op |-> "forget", mem |-> m, before |-> note[m], after |-> a]
             t == [commit |-> Len(commits) + 1, op |-> "forget", mem |-> NoMem,
                   status |-> "applied"]
             k == [j EXCEPT !.commit = Len(commits) + 1, !.how = "archived"]
  <2>1. n \in Notes
    BY <1>4, <1>5, Given DEF IsAt, Before, Data
  <2>2. a \in Notes
    BY <2>1 DEF Notes, Places
  <2>3. /\ commits' = Append(commits, r) /\ txns' = Append(txns, t)
        /\ note' = [note EXCEPT ![r.mem] = r.after] /\ UNCHANGED <<rows, held>>
        /\ Begin(h, "mirror", k)
    BY <1>5 DEF ArchiveNote, Applied
  <2> HIDE DEF a
  <2>4. r \in CommitType /\ t \in TxnType /\ Len(commits) + 1 \in Nat
    BY <1>4, <2>2, Given DEF CommitType, TxnType, Ops, Before, Data
  <2>5. /\ r.mem = m /\ r.before = note[r.mem]
        /\ t.commit = Len(commits) + 1 /\ t.mem = NoMem
    OBVIOUS
  <2> PICK c : c = Len(commits) + 1
    OBVIOUS
  <2>6. /\ k \in JobType /\ k.commit = c /\ k.how = "archived"
        /\ k.kind = j.kind /\ k.mem = m /\ k.apr = j.apr /\ k.after = j.after
    <3> HIDE DEF r, t
    <3> QED
      BY <1>1, <2>4 DEF JobType, Outcome
  <2> PICK l : l = k
    OBVIOUS
  <2> HIDE DEF r, t, k
  <2>7. /\ Grows /\ Data' /\ c \in DOMAIN commits' /\ commits'[c] = r
    BY <1>4, <2>3, <2>4, <2>5, CommitData, Given DEF Before
  <2>8. Had(m, "forgotten")'
    BY <1>4, <2>7, NotesKept
  <2>9. Committed(l)'
    BY <2>5, <2>6, <2>7 DEF Committed
  <2>10. AtMirror(l)'
    BY <1>4, <2>6, <2>8, <2>9 DEF AtMirror
  <2>11. JobAt("mirror", l)'
    BY <1>2, <1>4, <2>3, <2>6, <2>10 DEF JobAt, Dispatched
  <2>12. Arrives(h)
    BY <1>3, <2>3, <2>6, <2>11, Arrive DEF Steps
  <2> QED
    BY <1>3, <2>7, <2>12 DEF Stepped
<1>6. CASE ~found
  <2>1. Ended(h, j, "error")
    BY <1>6 DEF ArchiveNote
  <2>2. UNCHANGED <<note, commits, rows, txns, held, lock>>
    BY <1>6 DEF ArchiveNote
  <2>3. Dispatched(j)'
    BY <1>2, <2>2 DEF Dispatched
  <2>4. Arrives(h)
    BY <1>1, <1>3, <2>1, <2>3, EndedArrives
  <2> QED
    BY <1>3, <2>2, <2>4, StepQuiet
<1> QED
  BY <1>5, <1>6
LEMMA MirrorStep ==
  ASSUME NEW h, Before(h), MirrorRow(h)
  PROVE  Stepped(h)
<1> PICK j : j = job[h]
  OBVIOUS
<1> DEFINE m == j.mem
<1>1. j \in JobType /\ JobAt("mirror", j)
  BY AtStep DEF MirrorRow
<1>2. AtMirror(j) /\ Dispatched(j)
  BY <1>1 DEF JobAt
<1>3. SameWorld /\ lock' # h /\ OthersLock(h) /\ lock' \in Hosts \cup {NoHost}
  BY Working DEF MirrorRow
<1>4. UNCHANGED <<note, commits, txns, held>> /\ m \in Memories
  BY <1>2 DEF MirrorRow, AtMirror
<1>5. rows \in [Memories -> MemoryRows \cup {NoRow}] /\ txns \in Seq(TxnType) /\ TxnInv
  BY Given DEF Before, Data
<1>6. PICK row \in MemoryRows \cup {NoRow} :
        /\ rows' = [rows EXCEPT ![m] = row]
        /\ row # NoRow => \E n \in NotesHad(m) : row.status \in {n.status, "reverted"}
  <2>1. CASE rows[m] = NoRow
    <3>1. rows' = [rows EXCEPT ![m] = NoRow]
      BY <1>4, <1>5, <2>1 DEF MirrorRow
    <3> QED
      BY <3>1
  <2>2. CASE rows[m] # NoRow /\ j.how = "archived"
    <3> DEFINE row == [place |-> "Archive", status |-> "forgotten"]
    <3>1. rows' = [rows EXCEPT ![m] = row]
      BY <2>2 DEF MirrorRow
    <3>2. row \in MemoryRows
      BY DEF MemoryRows, Places, Statuses
    <3>3. \E n \in NotesHad(m) : row.status = n.status
      BY <1>2, <2>2 DEF AtMirror, Had
    <3> HIDE DEF row
    <3> QED
      BY <3>1, <3>2, <3>3
  <2>3. CASE rows[m] # NoRow /\ j.how # "archived"
    <3> DEFINE row == [rows[m] EXCEPT !.status = j.after.status]
    <3>1. rows' = [rows EXCEPT ![m] = row]
      BY <2>3 DEF MirrorRow
    <3>2. j.after \in NotesHad(m) /\ rows[m] \in MemoryRows
      BY <1>2, <1>4, <1>5, <2>3 DEF AtMirror, Done
    <3>3. j.after \in Notes
      BY <1>1, <3>2, NoNoteAssumption DEF JobType, NotesHad
    <3>4. row \in MemoryRows /\ row.status = j.after.status
      BY <3>2, <3>3 DEF MemoryRows, Notes
    <3> QED
      BY <3>1, <3>2, <3>4
  <2> QED
    BY <2>1, <2>2, <2>3
<1>7. Grows /\ Data'
  <2>1. rows' \in [Memories -> MemoryRows \cup {NoRow}]
    BY <1>4, <1>5, <1>6
  <2>2. \A n \in Memories : rows'[n] = IF n = m THEN row ELSE rows[n]
    BY <1>4, <1>5, <1>6
  <2>3. \A n \in Memories :
          \/ rows'[n] \in {NoRow, rows[n]}
          \/ \E x \in NotesHad(n) : rows'[n].status \in {x.status, "reverted"}
    BY <1>6, <2>2
  <2> QED
    BY <1>4, <1>5, <2>1, <2>3, RowData, Given DEF Before, TxnInv
<1>8. \A s, k : k \in JobType /\ JobAt(s, k) => JobAt(s, k)'
  BY <1>5, <1>7, JobKept
<1>9. CASE j.how = "archived"
  <2>1. Begin(h, "link", j)
    BY <1>9 DEF MirrorRow, Goto
  <2>2. AtLink(j)
    BY <1>2, <1>9 DEF AtMirror, AtLink
  <2>3. JobAt("link", j)
    BY <1>2, <2>2 DEF JobAt
  <2> QED
    BY <1>1, <1>3, <1>7, <1>8, <2>1, <2>3, Arrive DEF Stepped, Steps
<1>10. CASE j.how # "archived"
  <2>1. Ended(h, j, "ok")
    BY <1>10 DEF MirrorRow
  <2>2. Had(j.mem, Goal(j)) /\ j.kind \in {"promote", "retire"}
    BY <1>2, <1>10 DEF AtMirror, Done, Had
  <2>3. Had(j.mem, Goal(j))'
    BY <1>4, <2>2 DEF Had, NotesHad, Goal
  <2>4. Dispatched(j)' /\ held' \in Seq(HeldType)
    BY <1>2, <1>4, <1>7 DEF Dispatched, Data
  <2>5. j.apr # 0 => Landed(j.apr)'
    BY <1>1, <2>2, <2>3, <2>4, DoneLanded
  <2>6. Arrives(h)
    BY <1>1, <1>3, <2>1, <2>4, <2>5, EndedArrives
  <2> QED
    BY <1>3, <1>7, <2>6 DEF Stepped
<1> QED
  BY <1>9, <1>10

LEMMA ResolveStep ==
  ASSUME NEW h, Before(h), ResolveApproval(h)
  PROVE  Stepped(h)
<1> PICK j : j = job[h]
  OBVIOUS
<1>1. j \in JobType /\ JobAt("resolve", j)
  BY AtStep DEF ResolveApproval
<1>2. AtResolve(j) /\ j.apr \in DOMAIN held
  BY <1>1 DEF JobAt, AtResolve, Dispatched
<1>3. SameWorld /\ lock' # h /\ OthersLock(h) /\ lock' \in Hosts \cup {NoHost}
  BY Working DEF ResolveApproval
<1>4. held \in Seq(HeldType) /\ held[j.apr] \in HeldType
  BY <1>2, Given DEF Before, Data
<1>5. Grows /\ Data'
  <2>1. CASE j.how = "error"
    BY <2>1, QuietData, Given DEF ResolveApproval, Before
  <2>2. CASE j.how # "error"
    <3> DEFINE s == Outcomes[j.how]
    <3>1. s \in {"approved", "stale"} /\ (s = "approved" => Landed(j.apr))
      BY <1>2, <2>2 DEF AtResolve, Outcomes
    <3>2. held' = [held EXCEPT ![j.apr].state = s]
      BY <2>2 DEF ResolveApproval
    <3> HIDE DEF s
    <3>3. [held[j.apr] EXCEPT !.state = s] \in HeldType
      BY <1>4, <3>1 DEF HeldType
    <3>4. held' \in Seq(HeldType) /\ DOMAIN held' = DOMAIN held
      BY <1>2, <1>4, <3>2, <3>3
    <3>5. \A i \in DOMAIN held :
            /\ held'[i].op = held[i].op /\ held'[i].mem = held[i].mem
            /\ held'[i].expected = held[i].expected /\ held'[i].after = held[i].after
            /\ held'[i].state = IF i = j.apr THEN s ELSE held[i].state
      BY <1>2, <1>4, <3>2 DEF HeldType
    <3> QED
      BY <3>1, <3>4, <3>5, HeldData, Given DEF ResolveApproval, Before
  <2> QED
    BY <2>1, <2>2
<1>6. Arrives(h)
  BY <1>3, ArriveIdle DEF ResolveApproval
<1> QED
  BY <1>3, <1>5, <1>6 DEF Stepped

LEMMA SweepNextStep ==
  ASSUME NEW h, Before(h), SweepNext(h)
  PROVE  Stepped(h)
<1> PICK l : l = job[h]
  OBVIOUS
<1>1. l \in JobType
  BY AtStep
<1>2. SameWorld /\ lock' # h /\ OthersLock(h) /\ lock' \in Hosts \cup {NoHost}
  BY Working DEF SweepNext
<1>3. UNCHANGED <<note, commits, rows, txns, lock>>
  BY DEF SweepNext
<1>4. CASE Begin(h, "idle", Idle) /\ UNCHANGED held
  BY <1>2, <1>3, <1>4, ArriveIdle, StepQuiet
<1>5. ASSUME NEW m \in l.rest,
        LET j == [Idle EXCEPT !.kind = "sweep", !.mem = m, !.rest = l.rest \ {m}] IN
          \/ Ended(h, j, "ok") /\ UNCHANGED held
          \/ Hold("forget", m, NoNote, NoNote) /\ Ended(h, j, "ok")
          \/ StartFlip(h, j, "forgotten") /\ UNCHANGED held
      PROVE  Stepped(h)
  <2> DEFINE j == [Idle EXCEPT !.kind = "sweep", !.mem = m, !.rest = l.rest \ {m}]
  <2>1. m \in Memories /\ l.rest \ {m} \in SUBSET Memories
    BY <1>1 DEF JobType
  <2>2. j \in JobType /\ j.kind = "sweep" /\ j.mem = m /\ j.apr = 0 /\ j.how = "ok"
    BY <2>1, SweepJob
  <2>3. \/ Ended(h, j, "ok") /\ UNCHANGED held
        \/ Hold("forget", m, NoNote, NoNote) /\ Ended(h, j, "ok")
        \/ StartFlip(h, j, "forgotten") /\ UNCHANGED held
    BY <1>5
  <2> HIDE DEF j
  <2>4. Dispatched(j)' /\ Changing(j) /\ "forgotten" = Goal(j) /\ "forgotten" \in Statuses
    BY <2>1, <2>2 DEF Dispatched, Changing, Goal, Statuses
  <2>5. CASE Ended(h, j, "ok")
    <3>1. Arrives(h)
      BY <1>2, <2>2, <2>4, <2>5, EndedArrives
    <3>2. CASE UNCHANGED held
      BY <1>2, <1>3, <3>1, <3>2, StepQuiet
    <3>3. CASE Hold("forget", m, NoNote, NoNote)
      <4>1. Grows /\ Data'
        BY <1>3, <2>1, <3>3, HoldData, Given DEF Before
      <4> QED
        BY <1>2, <3>1, <4>1 DEF Stepped
    <3> QED
      BY <2>3, <2>5, <3>2, <3>3, <1>2, <1>3, <2>2, <2>4, StepQuiet, StartFlipArrives, Given DEF Before
  <2>6. CASE StartFlip(h, j, "forgotten") /\ UNCHANGED held
    <3>1. Arrives(h)
      BY <1>2, <1>3, <2>2, <2>4, <2>6, StartFlipArrives, Given DEF Before
    <3> QED
      BY <1>2, <1>3, <2>6, <3>1, StepQuiet
  <2> QED
    BY <2>3, <2>5, <2>6
<1> QED
  BY <1>4, <1>5 DEF SweepNext
-----------------------------------------------------------------------------
(* Undo. *)

(* What git makes of a revert: of the whole file, if it was created or     *)
(* removed, and otherwise of each field.                                   *)
Whole(base, theirs, ours, after) ==
  /\ NoNote \in {base, theirs} /\ ours = base /\ after = theirs
Fieldwise(base, theirs, ours, after) ==
  /\ base \in Notes /\ theirs \in Notes /\ ours \in Notes /\ after \in Notes /\ after # ours
  /\ after.place = IF ours.place = base.place THEN theirs.place ELSE ours.place
  /\ after.status = IF ours.status = base.status THEN theirs.status ELSE ours.status
  /\ ours.place \in {base.place, theirs.place} \/ base.place = theirs.place

LEMMA Reverted ==
  ASSUME NEW c \in DOMAIN commits, commits[c] \in CommitType,
         NEW ours \in Notes \cup {NoNote}, NEW after \in RevertResults(c, ours)
  PROVE  \/ Whole(commits[c].after, commits[c].before, ours, after)
         \/ Fieldwise(commits[c].after, commits[c].before, ours, after)
<1> PICK base, theirs : base = commits[c].after /\ theirs = commits[c].before
  OBVIOUS
<1>1. base \in Notes \cup {NoNote} /\ theirs \in Notes \cup {NoNote}
  BY DEF CommitType
<1>2. CASE NoNote \in {base, theirs}
  BY <1>2 DEF RevertResults, Whole
<1>3. CASE NoNote \notin {base, theirs}
  <2>1. base \in Notes /\ theirs \in Notes
    BY <1>1, <1>3
  <2>2. DOMAIN base = {"place", "status", "body"}
    BY <2>1 DEF Notes
  <2>3. ours # NoNote
    BY <1>3 DEF RevertResults
  <2>4. /\ after = [f \in DOMAIN base |-> IF ours[f] = base[f] THEN theirs[f] ELSE ours[f]]
        /\ after # ours
        /\ \A f \in DOMAIN base : ~(base[f] # theirs[f] /\ ours[f] # base[f] /\ ours[f] # theirs[f])
    BY <1>3, <2>3 DEF RevertResults
  <2>5. after = [place |-> IF ours.place = base.place THEN theirs.place ELSE ours.place,
                 status |-> IF ours.status = base.status THEN theirs.status ELSE ours.status,
                 body |-> IF ours.body = base.body THEN theirs.body ELSE ours.body]
    BY <2>2, <2>4
  <2>6. ours \in Notes
    BY <2>3
  <2>7. after \in Notes
    BY <2>1, <2>5, <2>6 DEF Notes
  <2>8. ours.place \in {base.place, theirs.place} \/ base.place = theirs.place
    BY <2>2, <2>4
  <2> QED
    BY <2>1, <2>4, <2>5, <2>6, <2>7, <2>8 DEF Fieldwise
<1> QED
  BY <1>2, <1>3

LEMMA QueueHead ==
  ASSUME NEW j \in JobType, AtUndo(j), j.queue # <<>>, txns \in Seq(TxnType), TxnInv
  PROVE  /\ Head(j.queue) \in DOMAIN txns
         /\ txns[Head(j.queue)] \in TxnType
         /\ txns[Head(j.queue)].commit \in DOMAIN commits
         /\ Tail(j.queue) \in Seq(Nat)
         /\ \A i \in DOMAIN Tail(j.queue) : Tail(j.queue)[i] \in DOMAIN txns
<1>1. j.queue \in Seq(Nat)
  BY DEF JobType
<1>2. 1 \in DOMAIN j.queue /\ Head(j.queue) = j.queue[1]
  BY <1>1
<1>3. Head(j.queue) \in DOMAIN txns
  BY <1>2 DEF AtUndo
<1>4. \A i \in DOMAIN Tail(j.queue) : i + 1 \in DOMAIN j.queue /\ Tail(j.queue)[i] = j.queue[i + 1]
  BY <1>1
<1> QED
  BY <1>1, <1>3, <1>4 DEF AtUndo, TxnInv

LEMMA UndoRevertStep ==
  ASSUME NEW h, Before(h), UndoRevert(h)
  PROVE  Stepped(h)
<1> PICK j : j = job[h]
  OBVIOUS
<1>1. j \in JobType /\ JobAt("undo", j) /\ pc[h] = "undo"
  BY AtStep, Zenon DEF UndoRevert
<1>2. AtUndo(j) /\ j.apr = 0
  BY <1>1 DEF JobAt
<1>3. left' = left /\ SameWorld /\ UNCHANGED <<rows, txns, held>>
  BY Given, Unspent, Zenon DEF UndoRevert, Before
<1>4. lock = h
  BY <1>1, Given DEF Before, IInv, TypeOK
<1> DEFINE t == txns[Head(j.queue)]
           m == commits[t.commit].mem
           results == IF j.queue = <<>> \/ t.status = "reverted" THEN {}
                      ELSE RevertResults(t.commit, note[m])
<1>5. ASSUME NEW after \in results,
             commits' = Append(commits, [op |-> "revert", mem |-> m, before |-> note[m],
                                         after |-> after]),
             note' = [note EXCEPT ![m] = after],
             Begin(h, "compensate", [j EXCEPT !.commit = Len(commits) + 1]),
             UNCHANGED lock
      PROVE  Stepped(h)
  <2>1. j.queue # <<>> /\ after \in RevertResults(t.commit, note[m])
    BY <1>5, Zenon
  <2>2. t.commit \in DOMAIN commits /\ Head(j.queue) \in DOMAIN txns /\ t \in TxnType
    BY <1>1, <1>2, <2>1, QueueHead, Given, Zenon DEF Before, Data
  <2>3. commits[t.commit] \in CommitType
    BY <2>2, Given DEF Before, Data
  <2>4. m \in Memories /\ note[m] \in Notes \cup {NoNote}
    BY <2>3, Given, Zenon DEF CommitType, Before, Data
  <2> PICK d : d = t.commit
    OBVIOUS
  <2> PICK base, theirs, ours : base = commits[d].after /\ theirs = commits[d].before /\ ours = note[m]
    OBVIOUS
  <2>5. Whole(base, theirs, ours, after) \/ Fieldwise(base, theirs, ours, after)
    BY <2>1, <2>2, <2>3, <2>4, Reverted
  <2>6. theirs \in NotesHad(m) \cup {NoNote} /\ ours \in NotesHad(m) \cup {NoNote}
    BY <2>2, <2>4, Given DEF Before, Data, HistoryInv, NoteInv, BeforeInv
  <2>7. theirs \in Notes \cup {NoNote} /\ after \in Notes \cup {NoNote}
    BY <2>3, <2>5, Zenon DEF Whole, Fieldwise, CommitType
  <2>8. after # NoNote /\ after.place = "Archive" => Had(m, "forgotten")
    <3> SUFFICES ASSUME after # NoNote, after.place = "Archive" PROVE Had(m, "forgotten")
      BY Zenon
    <3>1. \/ theirs # NoNote /\ theirs.place = "Archive"
          \/ ours # NoNote /\ ours.place = "Archive"
      <4>1. CASE Whole(base, theirs, ours, after)
        BY <4>1, Zenon DEF Whole
      <4>2. CASE Fieldwise(base, theirs, ours, after)
        <5>1. theirs # NoNote /\ ours # NoNote
          BY <4>2, NoNoteAssumption, Zenon DEF Fieldwise
        <5>2. after.place \in {theirs.place, ours.place}
          BY <4>2, Zenon DEF Fieldwise
        <5> QED
          BY <5>1, <5>2, Zenon
      <4> QED
        BY <2>5, <4>1, <4>2, Zenon
    <3> QED
      BY <2>4, <2>6, <3>1, Given, Zenon DEF Before, Data, HistoryInv, ArchiveInv
  <2> PICK n : n = m
    OBVIOUS
  <2> DEFINE r == [op |-> "revert", mem |-> n, before |-> ours, after |-> after]
             u == [commit |-> Len(commits) + 1, op |-> "revert", mem |-> NoMem,
                   status |-> "applied"]
             k == [j EXCEPT !.commit = Len(commits) + 1]
  <2>9. r \in CommitType /\ u \in TxnType /\ Len(commits) + 1 \in Nat
    <3>1. n \in Memories /\ ours \in Notes \cup {NoNote} /\ commits \in Seq(CommitType)
      BY <2>4, Given, Zenon DEF Before, Data
    <3> HIDE DEF m, t, results
    <3>2. Len(commits) + 1 \in Nat
      BY <3>1
    <3> QED
      BY <2>7, <3>1, <3>2 DEF CommitType, TxnType, Ops
  <2>10. /\ r.mem = n /\ r.after = after /\ r.before = note[r.mem]
         /\ u.commit = Len(commits) + 1 /\ u.mem = NoMem
    OBVIOUS
  <2>11. /\ commits' = Append(commits, r) /\ note' = [note EXCEPT ![r.mem] = r.after]
         /\ Begin(h, "compensate", k)
    BY <1>5, Zenon
  <2> PICK c : c = Len(commits) + 1
    OBVIOUS
  <2>12. /\ k \in JobType /\ k.commit = c /\ k.kind = j.kind /\ k.apr = 0 /\ k.queue = j.queue
    <3> HIDE DEF r, u, t, m
    <3> QED
      BY <1>1, <1>2, <2>9 DEF JobType
  <2> PICK l : l = k
    BY Zenon
  <2> HIDE DEF r, u, k, results
  <2>13. /\ Grows /\ Data' /\ c \in DOMAIN commits' /\ commits'[c] = r
    BY <1>3, <2>8, <2>9, <2>10, <2>11, CommitData, Given, Zenon DEF Before
  <2>14. AtUndo(l)'
    BY <1>2, <1>3, <2>12 DEF AtUndo
  <2>15. commits'[txns'[Head(j.queue)].commit].mem = n
    BY <1>3, <2>2, <2>13 DEF Grows
  <2>16. AtCompensate(l)'
    BY <2>1, <2>10, <2>12, <2>13, <2>14, <2>15 DEF AtCompensate
  <2>17. JobAt("compensate", l)'
    BY <2>12, <2>16 DEF JobAt, Dispatched
  <2>18. Arrives(h)
    BY <1>4, <1>5, <2>11, <2>12, <2>17, Arrive, Zenon DEF Steps
  <2>19. OthersLock(h) /\ lock' \in Hosts \cup {NoHost}
    BY <1>5, LockKept, Zenon
  <2> QED
    BY <1>3, <2>13, <2>18, <2>19 DEF Stepped
<1>6. CASE lock' = NoHost /\ Begin(h, "idle", Idle) /\ UNCHANGED <<note, commits>>
  <2>1. Grows /\ Data'
    BY <1>3, <1>6, QuietData, Given DEF Before
  <2>2. lock' # h
    BY <1>6, SentinelAssumption DEF Before
  <2>3. OthersLock(h)
    BY <1>4, <1>6, SentinelAssumption DEF OthersLock
  <2> QED
    BY <1>3, <1>6, <2>1, <2>2, <2>3, ArriveIdle DEF Stepped
<1> QED
  BY <1>5, <1>6, Zenon DEF UndoRevert

LEMMA CompensateStep ==
  ASSUME NEW h, Before(h), CompensateJournal(h)
  PROVE  Stepped(h)
<1> PICK j : j = job[h]
  OBVIOUS
<1>1. j \in JobType /\ JobAt("compensate", j) /\ pc[h] = "compensate"
  BY AtStep DEF CompensateJournal
<1>2. AtCompensate(j) /\ AtUndo(j) /\ j.apr = 0
  BY <1>1 DEF JobAt, AtCompensate
<1>3. SameWorld /\ UNCHANGED <<note, commits, held, lock>>
  BY Given, Unspent DEF CompensateJournal, Before
<1>4. lock = h
  BY <1>1, Given DEF Before, IInv, TypeOK
<1>5. txns \in Seq(TxnType) /\ TxnInv /\ rows \in [Memories -> MemoryRows \cup {NoRow}]
  BY Given DEF Before, Data
<1> PICK i : i = Head(j.queue)
  OBVIOUS
<1>6. /\ i \in DOMAIN txns /\ txns[i] \in TxnType /\ Tail(j.queue) \in Seq(Nat)
      /\ \A k \in DOMAIN Tail(j.queue) : Tail(j.queue)[k] \in DOMAIN txns
  BY <1>1, <1>2, <1>5, QueueHead DEF AtCompensate
<1> PICK m : m = txns[i].mem
  OBVIOUS
<1>7. /\ m \in Memories \cup {NoMem} /\ m \in {NoMem, commits[txns[i].commit].mem}
      /\ j.commit \in DOMAIN commits /\ j.commit \in Nat
      /\ commits[j.commit].mem = commits[txns[i].commit].mem
  BY <1>1, <1>2, <1>5, <1>6 DEF TxnType, TxnInv, AtCompensate, JobType
<1> DEFINE marked == [txns EXCEPT ![i].status = "reverted"]
           t == [commit |-> j.commit, op |-> "revert", mem |-> m, status |-> "applied"]
<1>8. txns' = Append(marked, t)
  BY Zenon DEF CompensateJournal
<1>9. /\ marked \in Seq(TxnType) /\ DOMAIN marked = DOMAIN txns
      /\ \A k \in DOMAIN txns : marked[k].commit = txns[k].commit /\ marked[k].mem = txns[k].mem
  <2>1. \A u \in TxnType : LET v == [u EXCEPT !.status = "reverted"] IN
          v \in TxnType /\ v.commit = u.commit /\ v.mem = u.mem
    BY DEF TxnType
  <2>2. marked = [txns EXCEPT ![i] = [txns[i] EXCEPT !.status = "reverted"]]
    OBVIOUS
  <2> QED
    BY <1>5, <1>6, <2>1, <2>2
<1>10. t \in TxnType /\ t.commit = j.commit /\ t.mem = m
  BY <1>7 DEF TxnType, Ops
<1> HIDE DEF marked, t
<1>11. /\ txns' \in Seq(TxnType)
       /\ \A k \in DOMAIN txns : k \in DOMAIN txns' /\ txns'[k].commit = txns[k].commit
       /\ \A k \in DOMAIN txns' : (k \in DOMAIN txns /\ txns'[k] = marked[k]) \/ txns'[k] = t
  <2>1. /\ Append(marked, t) \in Seq(TxnType)
        /\ DOMAIN Append(marked, t) = DOMAIN marked \cup {Len(marked) + 1}
        /\ \A k \in DOMAIN marked : k \in DOMAIN Append(marked, t) /\ Append(marked, t)[k] = marked[k]
        /\ Append(marked, t)[Len(marked) + 1] = t
    BY <1>9, <1>10, Appended
  <2> QED
    BY <1>8, <1>9, <2>1
<1>12. \A k \in DOMAIN txns' :
         /\ txns'[k].commit \in DOMAIN commits
         /\ txns'[k].mem \in {NoMem, commits[txns'[k].commit].mem}
  <2> TAKE k \in DOMAIN txns'
  <2>1. CASE k \in DOMAIN txns /\ txns'[k] = marked[k]
    <3>1. txns'[k].commit = txns[k].commit /\ txns'[k].mem = txns[k].mem
      BY <1>9, <2>1
    <3> QED
      BY <1>5, <2>1, <3>1 DEF TxnInv
  <2>2. CASE txns'[k] = t
    BY <1>7, <1>10, <2>2
  <2> QED
    BY <1>11, <2>1, <2>2
<1>13. /\ rows' \in [Memories -> MemoryRows \cup {NoRow}]
       /\ \A n \in Memories :
            \/ rows'[n] \in {NoRow, rows[n]}
            \/ \E x \in NotesHad(n) : rows'[n].status \in {x.status, "reverted"}
  <2>1. CASE m = NoMem \/ rows[m] = NoRow
    <3>1. rows' = rows
      BY <2>1, Zenon DEF CompensateJournal
    <3> QED
      BY <1>5, <3>1
  <2>2. CASE m # NoMem /\ rows[m] # NoRow
    <3> DEFINE row == [rows[m] EXCEPT !.status = DerivedStatus(m)]
    <3>1. rows' = [rows EXCEPT ![m] = row]
      BY <2>2, Zenon DEF CompensateJournal
    <3>2. m \in Memories /\ rows[m] \in MemoryRows
      BY <1>5, <1>7, <2>2
    <3>3. \E n \in NotesHad(m) : rows[m].status \in {n.status, "reverted"}
      BY <2>2, <3>2, Given DEF Before, Data, RowNeverAhead
    <3>4. \E x \in NotesHad(m) : x \in Notes /\ DerivedStatus(m) \in {x.status, "reverted"}
      <4>1. NotesHad(m) \subseteq Notes
        <5>1. commits \in Seq(CommitType)
          BY Given DEF Before, Data
        <5>2. \A k \in DOMAIN commits : commits[k].after \in Notes \cup {NoNote}
          <6>1. \A k \in DOMAIN commits : commits[k] \in CommitType
            BY <5>1
          <6> QED
            BY <6>1, Zenon DEF CommitType
        <5> QED
          BY <5>2 DEF NotesHad
      <4>2. CASE NoteOf(m) = NoNote
        BY <3>3, <4>1, <4>2 DEF DerivedStatus
      <4>3. CASE NoteOf(m) # NoNote
        <5>1. NoteOf(m) = note[m] /\ note[m] \in NotesHad(m)
          BY <3>2, <4>3, NoteOfHad, Given DEF Before
        <5> QED
          BY <4>1, <4>3, <5>1, Zenon DEF DerivedStatus
      <4> QED
        BY <4>2, <4>3
    <3>5. row \in MemoryRows /\ row.status = DerivedStatus(m)
      BY <3>2, <3>4, Zenon DEF MemoryRows, Notes
    <3> HIDE DEF row
    <3> QED
      BY <1>5, <3>1, <3>2, <3>4, <3>5
  <2> QED
    BY <2>1, <2>2
<1>14. Grows /\ Data'
  BY <1>3, <1>11, <1>12, <1>13, RowData, Given DEF Before
<1> PICK q : q = Tail(j.queue)
  OBVIOUS
<1> DEFINE k == [j EXCEPT !.queue = q]
<1>15. k \in JobType /\ k.queue = q /\ k.apr = 0
  BY <1>1, <1>2, <1>6 DEF JobType
<1>16. Begin(h, "undo", k)
  BY Zenon DEF CompensateJournal
<1> HIDE DEF k
<1>17. JobAt("undo", k)'
  BY <1>6, <1>11, <1>15 DEF JobAt, Dispatched, AtUndo
<1>18. Arrives(h)
  BY <1>3, <1>4, <1>15, <1>16, <1>17, Arrive DEF Steps
<1> QED
  BY <1>3, <1>14, <1>18, LockKept DEF Stepped
-----------------------------------------------------------------------------
(* Reindex. *)

LEMMA ParseStep ==
  ASSUME NEW h, Before(h), ParseNote(h)
  PROVE  Stepped(h)
<1> PICK j : j = job[h]
  OBVIOUS
<1>1. j \in JobType /\ JobAt("walk", j) /\ pc[h] = "walk"
  BY AtStep DEF ParseNote
<1>2. j.apr = 0 /\ j.kind \in Places /\ j.rest \in SUBSET Memories
  BY <1>1 DEF JobAt, JobType
<1>3. SameWorld /\ lock' # h /\ OthersLock(h) /\ lock' \in Hosts \cup {NoHost}
  BY Working DEF ParseNote
<1>4. UNCHANGED <<note, commits, rows, txns, held, lock>>
  BY DEF ParseNote
<1>5. ASSUME NEW m \in j.rest,
             LET k == [j EXCEPT !.rest = j.rest \ {m}] IN
               IF IsAt(m, j.kind) /\ m \notin j.seen
               THEN Begin(h, "upsert", [k EXCEPT !.mem = m, !.expected = note[m]])
               ELSE Begin(h, "walk", k)
      PROVE  Arrives(h)
  <2> PICK n : n = note[m]
    OBVIOUS
  <2> PICK k : k = [j EXCEPT !.rest = j.rest \ {m}]
    OBVIOUS
  <2> PICK l : l = [k EXCEPT !.mem = m, !.expected = n]
    OBVIOUS
  <2>1. k \in JobType /\ k.kind = j.kind /\ k.apr = 0
    BY <1>1, <1>2 DEF JobType
  <2>2. \/ IsAt(m, j.kind) /\ Begin(h, "upsert", l)
        \/ Begin(h, "walk", k)
    BY <1>5
  <2>3. CASE Begin(h, "walk", k)
    <3>1. JobAt("walk", k)'
      BY <1>2, <2>1 DEF JobAt, Dispatched
    <3> QED
      BY <1>3, <2>1, <2>3, <3>1, Arrive DEF Steps
  <2>4. CASE IsAt(m, j.kind) /\ Begin(h, "upsert", l)
    <3>1. m \in Memories /\ n \in Notes /\ n \in NotesHad(m)
      BY <1>2, <2>4, Given DEF Before, Data, HistoryInv, NoteInv, IsAt
    <3>2. l \in JobType /\ l.mem = m /\ l.expected = n /\ l.kind = j.kind /\ l.apr = 0
      BY <2>1, <3>1 DEF JobType
    <3>3. n \in NotesHad(m)'
      BY <1>4, <3>1 DEF NotesHad
    <3>4. AtUpsert(l)'
      BY <1>2, <3>1, <3>2, <3>3 DEF AtUpsert
    <3>5. JobAt("upsert", l)'
      BY <3>2, <3>4 DEF JobAt, Dispatched
    <3> QED
      BY <1>3, <2>4, <3>2, <3>5, Arrive DEF Steps
  <2> QED
    BY <2>2, <2>3, <2>4
<1>6. ASSUME Begin(h, "walk", [j EXCEPT !.kind = "Archive", !.rest = InPlace("Archive")])
      PROVE  Arrives(h)
  <2> PICK R : R = InPlace("Archive")
    OBVIOUS
  <2>1. R \in SUBSET Memories /\ "Archive" \in Places
    BY DEF InPlace, Places
  <2> PICK k : k = [j EXCEPT !.kind = "Archive", !.rest = R]
    OBVIOUS
  <2>2. k \in JobType /\ k.kind = "Archive" /\ k.apr = 0
    BY <1>1, <1>2, <2>1 DEF JobType, Kinds
  <2>3. Begin(h, "walk", k)
    BY <1>6
  <2>4. JobAt("walk", k)'
    BY <2>1, <2>2 DEF JobAt, Dispatched
  <2> QED
    BY <1>3, <2>2, <2>3, <2>4, Arrive DEF Steps
<1>7. ASSUME Begin(h, "replay", Idle)
      PROVE  Arrives(h)
  <2> PICK k : k = Idle
    OBVIOUS
  <2>1. k \in JobType /\ k.apr = 0 /\ Begin(h, "replay", k)
    BY <1>7, IdleType
  <2>2. JobAt("replay", k)'
    BY <2>1 DEF JobAt, Dispatched
  <2> QED
    BY <1>3, <2>1, <2>2, Arrive DEF Steps
<1>8. \/ \E m \in j.rest :
           LET k == [j EXCEPT !.rest = j.rest \ {m}] IN
             IF IsAt(m, j.kind) /\ m \notin j.seen
             THEN Begin(h, "upsert", [k EXCEPT !.mem = m, !.expected = note[m]])
             ELSE Begin(h, "walk", k)
      \/ Begin(h, "walk", [j EXCEPT !.kind = "Archive", !.rest = InPlace("Archive")])
      \/ Begin(h, "replay", Idle)
  BY Zenon DEF ParseNote
<1>9. Arrives(h)
  BY <1>5, <1>6, <1>7, <1>8, Zenon
<1> QED
  BY <1>3, <1>4, <1>9, StepQuiet

LEMMA UpsertStep ==
  ASSUME NEW h, Before(h), UpsertMemory(h)
  PROVE  Stepped(h)
<1> PICK j : j = job[h]
  OBVIOUS
<1>1. j \in JobType /\ JobAt("upsert", j) /\ pc[h] = "upsert"
  BY AtStep DEF UpsertMemory
<1>2. /\ j.apr = 0 /\ j.kind \in Places /\ j.mem \in Memories /\ j.expected \in NotesHad(j.mem)
      /\ j.seen \in SUBSET Memories
  BY <1>1 DEF JobAt, AtUpsert, JobType
<1>3. SameWorld /\ lock' # h /\ OthersLock(h) /\ lock' \in Hosts \cup {NoHost}
  BY Working DEF UpsertMemory
<1>4. UNCHANGED <<note, commits, txns, held, lock>>
  BY DEF UpsertMemory
<1>5. rows \in [Memories -> MemoryRows \cup {NoRow}] /\ txns \in Seq(TxnType) /\ TxnInv
  BY Given DEF Before, Data
<1> DEFINE row == [place |-> j.expected.place, status |-> j.expected.status]
<1>6. rows' = [rows EXCEPT ![j.mem] = row]
  BY DEF UpsertMemory
<1>7. row \in MemoryRows /\ row.status = j.expected.status
  <2>1. j.expected \in Notes
    BY <1>1, <1>2 DEF JobType, NotesHad
  <2> QED
    BY <2>1 DEF Notes, MemoryRows
<1> HIDE DEF row
<1>8. Grows /\ Data'
  <2>1. rows' \in [Memories -> MemoryRows \cup {NoRow}]
    BY <1>2, <1>5, <1>6, <1>7
  <2>2. \A m \in Memories :
          \/ rows'[m] \in {NoRow, rows[m]}
          \/ \E n \in NotesHad(m) : rows'[m].status \in {n.status, "reverted"}
    BY <1>2, <1>5, <1>6, <1>7
  <2> QED
    BY <1>4, <1>5, <2>1, <2>2, RowData, Given DEF Before, TxnInv
<1> PICK S : S = j.seen \cup {j.mem}
  OBVIOUS
<1> DEFINE k == [j EXCEPT !.mem = NoMem, !.expected = NoNote, !.seen = S]
<1>9. k \in JobType /\ k.kind = j.kind /\ k.apr = 0
  BY <1>1, <1>2 DEF JobType
<1>10. Begin(h, "walk", k)
  BY DEF UpsertMemory
<1> HIDE DEF k
<1>11. JobAt("walk", k)'
  BY <1>2, <1>9 DEF JobAt, Dispatched
<1>12. Arrives(h)
  BY <1>3, <1>9, <1>10, <1>11, Arrive DEF Steps
<1> QED
  BY <1>3, <1>8, <1>12 DEF Stepped

LEMMA ReplayStep ==
  ASSUME NEW h, Before(h), ReplayCommits(h)
  PROVE  Stepped(h)
<1>1. SameWorld /\ lock' # h /\ OthersLock(h) /\ lock' \in Hosts \cup {NoHost}
  BY Working, Zenon DEF ReplayCommits
<1>2. UNCHANGED <<note, commits, rows, held, lock>> /\ Begin(h, "idle", Idle)
  BY Zenon DEF ReplayCommits
<1>3. /\ commits \in Seq(CommitType) /\ txns \in Seq(TxnType) /\ TxnInv
      /\ rows \in [Memories -> MemoryRows \cup {NoRow}]
  BY Given DEF Before, Data
<1> DEFINE S == {c \in DOMAIN commits \ {txns[i].commit : i \in DOMAIN txns} :
                   commits[c].op # "revert"}
<1> PICK missing : missing = NewestFirst(S)
  OBVIOUS
<1> DEFINE added == [i \in DOMAIN missing |->
                       [commit |-> missing[i], op |-> commits[missing[i]].op,
                        mem |-> NoMem, status |-> "applied"]]
<1>4. txns' = txns \o added
  BY Zenon DEF ReplayCommits
<1>5. S \in SUBSET (1..Len(commits)) /\ Len(commits) \in Nat
  BY <1>3
<1>6. S \subseteq DOMAIN commits
  OBVIOUS
<1> HIDE DEF S
<1>7. missing \in Seq(S)
  BY <1>5, NewestFirstLists
<1>8. Len(missing) \in Nat /\ DOMAIN missing = 1..Len(missing)
      /\ \A i \in DOMAIN missing : missing[i] \in DOMAIN commits
  BY <1>6, <1>7
<1>9. \A c \in DOMAIN commits :
        [commit |-> c, op |-> commits[c].op, mem |-> NoMem, status |-> "applied"] \in TxnType
  <2> SUFFICES ASSUME NEW c \in DOMAIN commits
               PROVE  [commit |-> c, op |-> commits[c].op, mem |-> NoMem, status |-> "applied"]
                        \in TxnType
    OBVIOUS
  <2>1. c \in Nat /\ commits[c] \in CommitType
    BY <1>3
  <2> QED
    BY <2>1 DEF TxnType, CommitType
<1>10. /\ DOMAIN added = DOMAIN missing
       /\ \A i \in DOMAIN added : /\ added[i] \in TxnType /\ added[i].mem = NoMem
                                  /\ added[i].commit \in DOMAIN commits
  BY <1>8, <1>9
<1>11. added \in Seq(TxnType)
  <2>1. added \in [1..Len(missing) -> TxnType]
    BY <1>8, <1>10
  <2> HIDE DEF added
  <2> QED
    BY <1>8, <2>1, SeqDef
<1> HIDE DEF added
<1>12. /\ txns' \in Seq(TxnType)
       /\ \A i \in DOMAIN txns : i \in DOMAIN txns' /\ txns'[i] = txns[i]
       /\ \A i \in DOMAIN txns' : i \in DOMAIN txns \/
            \E k \in DOMAIN added : txns'[i] = added[k]
  <2> HIDE DEF TxnType
  <2>1. Len(txns) \in Nat /\ Len(added) \in Nat /\ DOMAIN txns = 1..Len(txns)
        /\ DOMAIN added = 1..Len(added)
    BY <1>3, <1>11
  <2>2. txns' \in Seq(TxnType) /\ Len(txns') = Len(txns) + Len(added)
        /\ DOMAIN txns' = 1..Len(txns')
    BY <1>3, <1>4, <1>11
  <2>3. \A i \in DOMAIN txns' :
          txns'[i] = IF i <= Len(txns) THEN txns[i] ELSE added[i - Len(txns)]
    BY <1>3, <1>4, <1>11
  <2> QED
    BY <2>1, <2>2, <2>3
<1>13. Grows /\ Data'
  <2>1. \A i \in DOMAIN txns' :
          /\ txns'[i].commit \in DOMAIN commits
          /\ txns'[i].mem \in {NoMem, commits[txns'[i].commit].mem}
    BY <1>3, <1>10, <1>12 DEF TxnInv
  <2> QED
    BY <1>2, <1>3, <1>12, <2>1, RowData, Given DEF Before
<1>14. Arrives(h)
  BY <1>1, <1>2, ArriveIdle
<1> QED
  BY <1>1, <1>13, <1>14 DEF Stepped

-----------------------------------------------------------------------------
(* The whole system. *)

LEMMA HostStep ==
  ASSUME NEW h, Before(h), Step(h)
  PROVE  Stepped(h)
BY CreateStep, InsertStep, LinkStep, ApplyPatchStep, ArchiveStep, MirrorStep, ResolveStep,
   SweepNextStep, UndoRevertStep, CompensateStep, ParseStep, UpsertStep, ReplayStep
   DEF Step

LEMMA CrashStep ==
  ASSUME NEW h, Before(h), Crash(h)
  PROVE  Stepped(h)
<1>1. SameWorld
  BY Given DEF Crash, Spend, SameWorld, LeftType, Before
<1>2. UNCHANGED <<note, commits, rows, txns, held>> /\ Begin(h, "idle", Idle)
  BY DEF Crash
<1>3. lock' # h /\ OthersLock(h) /\ lock' \in Hosts \cup {NoHost}
  <2>1. lock \in Hosts \cup {NoHost} /\ lock' = IF lock = h THEN NoHost ELSE lock
    BY Given DEF Crash, Before
  <2> QED
    BY <2>1, SentinelAssumption DEF OthersLock, Before
<1>4. Arrives(h)
  BY <1>2, <1>3, ArriveIdle
<1> QED
  BY <1>1, <1>2, <1>3, <1>4, Given, QuietData DEF Stepped, Before

LEMMA SteppedKeeps ==
  ASSUME NEW h, Before(h), Stepped(h)
  PROVE  IInv'
<1>1. /\ pc' \in [Hosts -> Steps] /\ job' \in [Hosts -> JobType]
      /\ \A g \in Hosts : (lock' = g) <=> (pc'[g] \in {"undo", "compensate"})
      /\ IdleInv' /\ JobInv'
  BY JobsStep, Given DEF Stepped, SameWorld, Before
<1>2. Data' /\ left' \in LeftType /\ lock' \in Hosts \cup {NoHost}
  BY DEF Stepped, SameWorld
<1> QED
  BY <1>1, <1>2 DEF IInv, TypeOK, Data, LeftType

(* The journal is lost only while every host is idle. *)
LEMMA LossKeeps ==
  ASSUME IInv, LoseJournal
  PROVE  IInv'
<1>1. /\ left.loss > 0 /\ left' = [left EXCEPT !.loss = @ - 1]
      /\ rows' = [m \in Memories |-> NoRow] /\ txns' = <<>> /\ held' = <<>>
      /\ UNCHANGED <<note, commits, lock, pc, job>> /\ AllIdle
  BY DEF LoseJournal
<1>2. left' \in LeftType /\ left'.hosts = left.hosts
  BY <1>1, Given DEF LeftType
<1>3. \A h \in Hosts : pc[h] = "idle" /\ job[h] = Idle
  BY <1>1 DEF IInv, IdleInv, AllIdle
<1>4. \A m : NotesHad(m)' = NotesHad(m)
  BY <1>1 DEF NotesHad
<1>5. TypeOK'
  <2>1. rows' \in [Memories -> MemoryRows \cup {NoRow}]
    BY <1>1
  <2>2. txns' \in Seq(TxnType) /\ held' \in Seq(HeldType)
    BY <1>1
  <2>3. \A h \in Hosts : (lock' = h) <=> (pc'[h] \in {"undo", "compensate"})
    BY <1>1 DEF IInv, TypeOK
  <2> QED
    BY <1>1, <1>2, <2>1, <2>2, <2>3 DEF IInv, TypeOK, LeftType
<1>6. HistoryInv'
  BY <1>1, <1>4 DEF IInv, HistoryInv, NoteInv, BeforeInv, ArchiveInv, Had
<1>7. IdleInv'
  BY <1>1, <1>2 DEF IInv, IdleInv
<1>8. TxnInv' /\ HeldInv' /\ RowNeverAhead' /\ ApprovedMeansLanded'
  BY <1>1 DEF TxnInv, HeldInv, RowNeverAhead, ApprovedMeansLanded
<1>9. JobInv'
  <2>1. JobAt("idle", Idle)'
    BY IdleType DEF JobAt, Dispatched
  <2> QED
    BY <1>1, <1>3, <2>1 DEF JobInv
<1> QED
  BY <1>5, <1>6, <1>7, <1>8, <1>9 DEF IInv

LEMMA InitHolds == Init => IInv
<1> SUFFICES ASSUME Init PROVE IInv
  OBVIOUS
<1>1. /\ note = [m \in Memories |-> NoNote] /\ commits = <<>>
      /\ rows = [m \in Memories |-> NoRow] /\ txns = <<>> /\ held = <<>> /\ lock = NoHost
      /\ pc = [h \in Hosts |-> "idle"] /\ job = [h \in Hosts |-> Idle] /\ left \in Worlds
  BY DEF Init
<1>2. left \in LeftType
  BY <1>1, WorldsAssumption DEF LeftType
<1>3. TypeOK
  BY <1>1, <1>2, IdleType, SentinelAssumption DEF TypeOK, Steps, LeftType
<1>4. IdleInv /\ TxnInv /\ HeldInv /\ RowNeverAhead /\ ApprovedMeansLanded
  BY <1>1 DEF IdleInv, TxnInv, HeldInv, RowNeverAhead, ApprovedMeansLanded
<1>5. HistoryInv
  BY <1>1 DEF HistoryInv, NoteInv, BeforeInv, ArchiveInv, NotesHad
<1>6. JobInv
  <2>1. JobAt("idle", Idle)
    BY IdleType DEF JobAt, Dispatched
  <2> QED
    BY <1>1, <2>1 DEF JobInv
<1> QED
  BY <1>3, <1>4, <1>5, <1>6 DEF IInv

LEMMA NextKeeps == IInv /\ [Next]_vars => IInv'
<1> SUFFICES ASSUME IInv, [Next]_vars PROVE IInv'
  OBVIOUS
<1>1. ASSUME NEW h \in left.hosts, Request(h) \/ Step(h) \/ Crash(h)
      PROVE  IInv'
  <2>1. Before(h)
    BY Given DEF Before, LeftType
  <2> QED
    BY <1>1, <2>1, RequestStep, HostStep, CrashStep, SteppedKeeps
<1>2. CASE UNCHANGED vars
  <2>1. \A m : NotesHad(m)' = NotesHad(m)
    BY <1>2 DEF vars, NotesHad
  <2>2. TypeOK'
    BY <1>2 DEF vars, IInv, TypeOK
  <2>3. Data'
    BY <1>2, QuietData, Given DEF vars
  <2>4. JobInv'
    <3>1. Grows
      BY <1>2, QuietData, Given DEF vars
    <3> SUFFICES ASSUME NEW g \in Hosts PROVE JobAt(pc[g], job[g])'
      BY DEF JobInv
    <3> PICK p, j : p = pc[g] /\ j = job[g]
      OBVIOUS
    <3>2. j \in JobType /\ JobAt(p, j)
      BY Given DEF TypeOK, JobInv
    <3>3. JobAt(p, j)'
      BY <3>1, <3>2, JobKept, Given
    <3> QED
      BY <1>2, <3>3 DEF vars
  <2>5. IdleInv'
    BY <1>2 DEF vars, IInv, IdleInv
  <2> QED
    BY <2>2, <2>3, <2>4, <2>5 DEF IInv, Data
<1> QED
  BY <1>1, <1>2, LossKeeps DEF Next

THEOREM Inductive == Spec => []IInv
BY InitHolds, NextKeeps, PTL DEF Spec

-----------------------------------------------------------------------------
(* For any hosts and memories, and in any world: hosts that race, die and   *)
(* lose the journal, approvals served late or never, undos and reindexes.   *)

(* Everything has its type, and the vault lock is held exactly by a host    *)
(* that undoes.                                                            *)
THEOREM Types == Spec => []TypeOK
<1>1. IInv => TypeOK
  BY DEF IInv
<1> QED
  BY <1>1, Inductive, PTL

(* A row of the memories table never gives a status that no commit of its  *)
(* note ever had: the mirror statements, the upserts of a reindex and the  *)
(* compensation of an undo follow the ledger, whoever came between.        *)
THEOREM RowsFollow == Spec => []RowNeverAhead
<1>1. IInv => RowNeverAhead
  BY DEF IInv
<1> QED
  BY <1>1, Inductive, PTL

(* An approval that is marked approved did what the person approved: some   *)
(* commit of the note has the status, or the very content, it asked for.    *)
THEOREM ApprovalsLanded == Spec => []ApprovedMeansLanded
<1>1. IInv => ApprovedMeansLanded
  BY DEF IInv
<1> QED
  BY <1>1, Inductive, PTL

-----------------------------------------------------------------------------
(* A reindex by the only host of a world, which may have died before, and   *)
(* whose journal may have been lost: s is its step and j its locals.        *)
Walking(s, j) ==
  /\ s \in {"walk", "upsert"} => \A m \in j.seen : Healed(m)
  /\ s = "walk" /\ j.kind = "Memory" =>
       \A m \in Memories : IsAt(m, "Memory") => Healed(m) \/ m \in j.rest
  /\ s = "walk" /\ j.kind = "Archive" =>
       \A m \in Memories : Healed(m) \/ (m \in j.rest /\ IsAt(m, "Archive"))
  /\ s = "upsert" =>
       /\ note[j.mem] = j.expected
       /\ j.kind = "Memory" =>
            \A m \in Memories \ {j.mem} : IsAt(m, "Memory") => Healed(m) \/ m \in j.rest
       /\ j.kind = "Archive" =>
            \A m \in Memories \ {j.mem} : Healed(m) \/ (m \in j.rest /\ IsAt(m, "Archive"))
  /\ s = "replay" => \A m \in Memories : Healed(m)

WalkInv == \A h \in Hosts : left.hosts = {h} => Walking(pc[h], job[h])

LEMMA WalkElsewhere ==
  ASSUME NEW h, Before(h), Request(h) \/ Step(h) \/ Crash(h),
         ~StartReindex(h), ~ParseNote(h), ~UpsertMemory(h)
  PROVE  pc'[h] \notin {"walk", "upsert", "replay"}
<1>1. h \in Hosts /\ pc \in [Hosts -> Steps]
  BY Given DEF Before, TypeOK
<1>2. \A s, j : Begin(h, s, j) => pc'[h] = s
  BY <1>1 DEF Begin
<1>3. \A s : Goto(h, s) => pc'[h] = s
  BY <1>2 DEF Goto
<1>4. \A j, how : Ended(h, j, how) => pc'[h] \in {"resolve", "sweep", "idle"}
  BY <1>2 DEF Ended
<1>5. \A j, status : StartFlip(h, j, status) =>
        pc'[h] \in {"resolve", "sweep", "idle", "archive", "mirror", "flip"}
  BY <1>2, <1>4 DEF StartFlip
<1>6. \A b : Spend(h, b) /\ UNCHANGED pc => pc'[h] = "idle"
  BY DEF Spend
<1>7. CASE Request(h)
  <2>1. ASSUME NEW m, Promote(h, m) \/ Forget(h, m) \/ Retire(h, m)
        PROVE  pc'[h] \notin {"walk", "upsert", "replay"}
    BY <1>5, <1>6, <2>1 DEF Promote, Forget, Retire
  <2>2. ASSUME NEW m, NEW b, Remember(h, m, b) \/ Revise(h, m, b)
        PROVE  pc'[h] \notin {"walk", "upsert", "replay"}
    BY <1>2, <1>6, <2>2 DEF Remember, Revise
  <2>3. ASSUME NEW a, Approve(h, a) PROVE pc'[h] \notin {"walk", "upsert", "replay"}
    BY <1>2, <1>4, <1>5, <2>3 DEF Approve
  <2>4. ASSUME NEW a, Reject(h, a) PROVE pc'[h] \notin {"walk", "upsert", "replay"}
    BY <1>6, <2>4 DEF Reject
  <2>5. ASSUME NEW q, UndoStart(h, q) PROVE pc'[h] \notin {"walk", "upsert", "replay"}
    BY <1>2, <2>5 DEF UndoStart
  <2>6. ASSUME SweepList(h) PROVE pc'[h] \notin {"walk", "upsert", "replay"}
    BY <1>2, <2>6 DEF SweepList
  <2> QED
    BY <1>7, <2>1, <2>2, <2>3, <2>4, <2>5, <2>6 DEF Request
<1>8. CASE \/ CreateNote(h) \/ InsertRow(h) \/ LinkTransaction(h) \/ ApplyPatch(h)
           \/ ArchiveNote(h) \/ MirrorRow(h)
  BY <1>2, <1>3, <1>4, <1>8
     DEF CreateNote, InsertRow, LinkTransaction, AfterLink, ApplyPatch, ArchiveNote, MirrorRow
<1>9. CASE \/ ResolveApproval(h) \/ SweepNext(h) \/ UndoRevert(h) \/ CompensateJournal(h)
           \/ ReplayCommits(h) \/ Crash(h)
  BY <1>2, <1>4, <1>5, <1>9, Zenon
     DEF ResolveApproval, SweepNext, UndoRevert, CompensateJournal, ReplayCommits, Crash
<1> QED
  BY <1>7, <1>8, <1>9 DEF Step

LEMMA WalkStarts ==
  ASSUME NEW h, Before(h), StartReindex(h)
  PROVE  Walking(pc[h], job[h])'
<1> PICK j : j = [Idle EXCEPT !.kind = "Memory", !.rest = InPlace("Memory")]
  OBVIOUS
<1>1. /\ pc'[h] = "walk" /\ job'[h] = j /\ UNCHANGED <<note, rows>>
      /\ j.kind = "Memory" /\ j.rest = InPlace("Memory") /\ j.seen = {}
  BY Given DEF StartReindex, Begin, Before, TypeOK, Idle
<1>2. Walking("walk", j)'
  BY <1>1 DEF Walking, InPlace, IsAt
<1> QED
  BY <1>1, <1>2

LEMMA WalkParses ==
  ASSUME NEW h, Before(h), Walking(pc[h], job[h]), ParseNote(h)
  PROVE  Walking(pc[h], job[h])'
<1> PICK j : j = job[h]
  OBVIOUS
<1>1. /\ j \in JobType /\ Walking("walk", j) /\ UNCHANGED <<note, rows>>
      /\ j.kind \in Places /\ note \in [Memories -> Notes \cup {NoNote}]
  BY AtStep, Given DEF ParseNote, Before, JobAt, TypeOK
<1>2. \A m : (Healed(m)' <=> Healed(m)) /\ \A p : IsAt(m, p)' <=> IsAt(m, p)
  BY <1>1 DEF Healed, RowTellsNote, IsAt
<1>3. ASSUME NEW s, NEW k, Begin(h, s, k), Walking(s, k)'
      PROVE  Walking(pc[h], job[h])'
  <2>1. pc'[h] = s /\ job'[h] = k
    BY <1>3, Given DEF Begin, Before, TypeOK
  <2> QED
    BY <1>3, <2>1
<1>4. CASE \E m \in j.rest : Begin(h, "walk", [j EXCEPT !.rest = j.rest \ {m}])
                           /\ ~(IsAt(m, j.kind) /\ m \notin j.seen)
  <2> PICK m \in j.rest : /\ Begin(h, "walk", [j EXCEPT !.rest = j.rest \ {m}])
                          /\ ~(IsAt(m, j.kind) /\ m \notin j.seen)
    BY <1>4
  <2> PICK k : k = [j EXCEPT !.rest = j.rest \ {m}]
    OBVIOUS
  <2>1. k.kind = j.kind /\ k.seen = j.seen /\ k.rest = j.rest \ {m}
    BY <1>1 DEF JobType
  <2>2. IsAt(m, j.kind) => Healed(m)
    BY <1>1 DEF Walking
  <2>3. Walking("walk", k)'
    BY <1>1, <1>2, <2>1, <2>2 DEF Walking
  <2> QED
    BY <1>3, <2>3
<1>5. CASE \E m \in j.rest :
             /\ Begin(h, "upsert", [[j EXCEPT !.rest = j.rest \ {m}] EXCEPT !.mem = m, !.expected = note[m]])
             /\ IsAt(m, j.kind)
  <2> PICK m \in j.rest :
             /\ Begin(h, "upsert", [[j EXCEPT !.rest = j.rest \ {m}] EXCEPT !.mem = m, !.expected = note[m]])
             /\ IsAt(m, j.kind)
    BY <1>5
  <2> PICK n : n = note[m]
    OBVIOUS
  <2> PICK k : k = [[j EXCEPT !.rest = j.rest \ {m}] EXCEPT !.mem = m, !.expected = n]
    OBVIOUS
  <2>1. /\ k.kind = j.kind /\ k.seen = j.seen /\ k.rest = j.rest \ {m} /\ k.mem = m /\ k.expected = n
    BY <1>1 DEF JobType
  <2>2. Walking("upsert", k)'
    BY <1>1, <1>2, <2>1 DEF Walking
  <2> QED
    BY <1>3, <2>2
<1>6. CASE /\ j.rest = {} /\ j.kind = "Memory"
           /\ Begin(h, "walk", [j EXCEPT !.kind = "Archive", !.rest = InPlace("Archive")])
  <2> PICK R : R = InPlace("Archive")
    OBVIOUS
  <2> PICK k : k = [j EXCEPT !.kind = "Archive", !.rest = R]
    OBVIOUS
  <2>1. k.kind = "Archive" /\ k.seen = j.seen /\ k.rest = R
    BY <1>1 DEF JobType
  <2>2. \A m \in Memories : note[m] = NoNote \/ IsAt(m, "Memory") \/ IsAt(m, "Archive")
    BY <1>1 DEF IsAt, Notes, Places
  <2>3. \A m \in Memories : Healed(m) \/ (m \in R /\ IsAt(m, "Archive"))
    BY <1>1, <1>6, <2>2 DEF Walking, Healed, InPlace
  <2>4. Walking("walk", k)'
    BY <1>1, <1>2, <2>1, <2>3 DEF Walking
  <2> QED
    BY <1>3, <1>6, <2>4
<1>7. CASE j.rest = {} /\ j.kind = "Archive" /\ Begin(h, "replay", Idle)
  <2>1. Walking("replay", Idle)'
    BY <1>1, <1>2, <1>7 DEF Walking
  <2> QED
    BY <1>3, <1>7, <2>1
<1> QED
  BY <1>4, <1>5, <1>6, <1>7 DEF ParseNote

LEMMA WalkWrites ==
  ASSUME NEW h, Before(h), Walking(pc[h], job[h]), UpsertMemory(h)
  PROVE  Walking(pc[h], job[h])'
<1> PICK j : j = job[h]
  OBVIOUS
<1> PICK m, n : m = j.mem /\ n = j.expected
  OBVIOUS
<1> PICK k : k = [j EXCEPT !.mem = NoMem, !.expected = NoNote, !.seen = j.seen \cup {m}]
  OBVIOUS
<1>1. /\ j \in JobType /\ Walking("upsert", j) /\ note' = note /\ AtUpsert(j)
      /\ rows \in [Memories -> MemoryRows \cup {NoRow}]
      /\ rows' = [rows EXCEPT ![m] = [place |-> n.place, status |-> n.status]]
      /\ Begin(h, "walk", k)
  BY AtStep, Given DEF UpsertMemory, Before, JobAt, TypeOK
<1>2. m \in Memories /\ note[m] = n /\ j.kind \in Places
  BY <1>1 DEF Walking, AtUpsert
<1>3. k.kind = j.kind /\ k.rest = j.rest /\ k.seen = j.seen \cup {m}
  BY <1>1 DEF JobType
<1>4. Healed(m)'
  BY <1>1, <1>2 DEF Healed, RowTellsNote
<1>5. \A l \in Memories \ {m} : rows'[l] = rows[l] /\ (Healed(l)' <=> Healed(l))
  BY <1>1 DEF Healed, RowTellsNote
<1>6. \A l, p : IsAt(l, p)' <=> IsAt(l, p)
  BY <1>1 DEF IsAt
<1>7. \A l \in j.seen : l \in Memories
  BY <1>1 DEF JobType
<1>8. Walking("walk", k)'
  BY <1>1, <1>2, <1>3, <1>4, <1>5, <1>6, <1>7 DEF Walking
<1>9. pc'[h] = "walk" /\ job'[h] = k
  BY <1>1, Given DEF Begin, Before, TypeOK
<1> QED
  BY <1>8, <1>9

LEMMA WalkKeeps == IInv /\ WalkInv /\ [Next]_vars => WalkInv'
<1> SUFFICES ASSUME IInv, WalkInv, [Next]_vars, NEW h \in Hosts, left'.hosts = {h}
             PROVE  Walking(pc[h], job[h])'
  BY DEF WalkInv
<1>1. left'.hosts = left.hosts
  <2>1. ASSUME NEW g, Before(g), Request(g) \/ Step(g) \/ Crash(g) PROVE left'.hosts = left.hosts
    BY <2>1, RequestStep, HostStep, CrashStep DEF Stepped, SameWorld
  <2>2. LoseJournal => left'.hosts = left.hosts
    BY Given DEF LoseJournal, LeftType
  <2>3. \A g \in left.hosts : Before(g)
    BY Given DEF Before, LeftType
  <2> QED
    BY <2>1, <2>2, <2>3 DEF Next, vars
<1>2. left.hosts = {h} /\ Before(h) /\ Walking(pc[h], job[h])
  BY <1>1 DEF WalkInv, Before
<1>3. pc'[h] \notin {"walk", "upsert", "replay"} => Walking(pc[h], job[h])'
  BY DEF Walking
<1>4. CASE Request(h) \/ Step(h) \/ Crash(h)
  BY <1>2, <1>3, <1>4, WalkElsewhere, WalkStarts, WalkParses, WalkWrites
<1>5. CASE LoseJournal
  BY <1>3, <1>5 DEF LoseJournal, AllIdle
<1>6. CASE UNCHANGED vars
  <2> PICK s, j : s = pc[h] /\ j = job[h]
    OBVIOUS
  <2>1. \A m : (Healed(m)' <=> Healed(m)) /\ \A p : IsAt(m, p)' <=> IsAt(m, p)
    BY <1>6 DEF vars, Healed, RowTellsNote, IsAt
  <2>2. Walking(s, j)'
    BY <1>2, <1>6, <2>1 DEF vars, Walking
  <2> QED
    BY <1>6, <2>2 DEF vars
<1> QED
  BY <1>2, <1>4, <1>5, <1>6 DEF Next

(* Where one host works, a reindex that runs to its end leaves a true row    *)
(* for every note, whatever deaths and losses of the journal made of the    *)
(* rows before it began.                                                    *)
THEOREM Heals == Spec => ReindexHeals
<1>1. Init => WalkInv
  BY DEF Init, WalkInv, Walking
<1>2. IInv /\ WalkInv /\ [Next]_vars =>
        [\A h \in Hosts :
           left.hosts = {h} /\ pc[h] = "replay" /\ pc'[h] = "idle" /\ left.crash = left'.crash =>
             \A m \in Memories : Healed(m)']_vars
  <2> SUFFICES ASSUME IInv, WalkInv, Next, NEW h \in Hosts, left.hosts = {h},
                      pc[h] = "replay", pc'[h] = "idle", left.crash = left'.crash
               PROVE  \A m \in Memories : Healed(m)'
    BY DEF vars
  <2>1. \A m \in Memories : Healed(m)
    BY DEF WalkInv, Walking
  <2>2. UNCHANGED <<note, rows>>
    <3>1. ~Crash(h)
      BY Given DEF Crash, LeftType
    <3>2. ~LoseJournal
      BY DEF LoseJournal, AllIdle
    <3>3. \A g \in left.hosts : g = h
      OBVIOUS
    <3>4. ~Request(h)
      BY DEF Request, Remember, Revise, Promote, Forget, Retire, Approve, Reject, SweepList,
             UndoStart, StartReindex, Spend
    <3>5. Step(h)
      BY <3>1, <3>2, <3>3, <3>4 DEF Next
    <3>6. ReplayCommits(h)
      BY <3>5 DEF Step, CreateNote, InsertRow, LinkTransaction, ApplyPatch, ArchiveNote, MirrorRow,
                  ResolveApproval, SweepNext, UndoRevert, CompensateJournal, ParseNote,
                  UpsertMemory
    <3> QED
      BY <3>6, Zenon DEF ReplayCommits
  <2> QED
    BY <2>1, <2>2 DEF Healed, RowTellsNote
<1> QED
  BY <1>1, <1>2, InitHolds, NextKeeps, WalkKeeps, PTL DEF Spec, ReindexHeals

-----------------------------------------------------------------------------
(***************************************************************************)
(* Calm worlds, where one host works, never dies and keeps its journal,    *)
(* for any number of memories and requests: rows follow their notes,       *)
(* canonical notes change only with consent or by undo, and the store      *)
(* implements MemoryLife.  There is then one host to speak of; s is its    *)
(* step and j its locals.                                                  *)
(***************************************************************************)

(* A row says what its note says, or that there is none; it may still say  *)
(* something else of a forgotten note that was brought back.               *)
Told(m) == rows[m] # NoRow =>
  /\ note[m] = NoNote => rows[m].status = "reverted"
  /\ note[m] # NoNote /\ rows[m].place = note[m].place =>
       \/ rows[m].status = note[m].status
       \/ note[m].place = "Archive" /\ note[m].status = "forgotten" /\ BroughtBack(m)

Placed(m) == rows[m] # NoRow /\ ~BroughtBack(m) =>
  rows[m].place = IF note[m] = NoNote THEN "Memory" ELSE note[m].place

(* A note is born, and born again by undo, as scratch memory; what is in    *)
(* the archive is forgotten or was brought back; every commit but a revert *)
(* has a row.                                                              *)
BirthInv == \A i \in DOMAIN commits :
  /\ commits[i].before = NoNote => Newborn(commits[i].after)
  /\ commits[i].after = NoNote => Newborn(commits[i].before)
ArchivedInv == \A m \in Memories :
  note[m] # NoNote /\ note[m].place = "Archive" => note[m].status = "forgotten" \/ BroughtBack(m)
RecordedInv == \A c \in DOMAIN commits :
  commits[c].op # "revert" => \E i \in DOMAIN txns : txns[i].commit = c

(* A transaction without a memory changed neither place nor status, unless *)
(* the host is about to link it: undoing it leaves the row true.           *)
Unlinked(i) == txns[i].mem = NoMem =>
  Edit(commits[txns[i].commit].before, commits[txns[i].commit].after)
Linking(s, j) == s \in {"insert", "link"} \/ (s = "mirror" /\ j.how = "archived")
LinkedInv(s, j) == \A i \in DOMAIN txns :
  Unlinked(i) \/ (Linking(s, j) /\ j.commit = txns[i].commit)

(* Where a row may be behind its note. *)
Behind(s, j, m) ==
  \/ j.mem = m /\ s \in {"archive", "mirror"}
  \/ j.mem = m /\ s = "link" /\ j.how = "flipped" /\ j.kind # "revise"
  \/ s = "compensate" /\ m = txns[Head(j.queue)].mem
TellInv(s, j) == \A m \in Memories : Told(m) \/ Behind(s, j, m)
PlaceInv(s, j) == \A m \in Memories :
  Placed(m) \/ (s = "mirror" /\ j.how = "archived" /\ j.mem = m)

(* What the host knows of the note, which nobody changes behind its back.  *)
Landing(j) ==
  /\ rows[j.mem] # NoRow /\ note[j.mem] = j.after /\ rows[j.mem].place = j.after.place
  /\ j.kind \in {"forget", "sweep"} /\ j.after.place = "Archive" => BroughtBack(j.mem)

(* The status a request finds where it asked. *)
From(j) ==
  /\ j.apr = 0 => j.expected.status # "canonical"
  /\ j.kind = "promote" /\ j.apr = 0 => j.expected.status = "scratch" \/ BroughtBack(j.mem)
  /\ j.kind = "retire" =>
       j.expected.status \in {"working", "canonical"} \/ BroughtBack(j.mem)

CalmFlip(j) ==
  /\ From(j)
  /\ j.kind # "revise" =>
       /\ rows[j.mem] # NoRow /\ note[j.mem] = j.expected
       /\ rows[j.mem].place = j.expected.place
       /\ j.after.status # j.expected.status

CalmCompensate(j) ==
  LET r == commits[j.commit]
      c == commits[txns[Head(j.queue)].commit] IN
  /\ note[r.mem] = r.after
  /\ Whole(c.after, c.before, r.before, r.after) \/ Fieldwise(c.after, c.before, r.before, r.after)

CalmAt(s, j) ==
  /\ s = "create" =>
       /\ note[j.mem] = NoNote /\ rows[j.mem] = NoRow
       /\ \A i \in DOMAIN commits : commits[i].mem # j.mem
  /\ s = "insert" => note[j.mem] = j.after
  /\ s = "flip" => CalmFlip(j)
  /\ s = "link" /\ j.how = "flipped" /\ j.kind # "revise" => Landing(j)
  /\ s = "archive" => Landing(j)
  /\ s = "mirror" =>
       IF j.how = "archived"
       THEN note[j.mem] # NoNote /\ note[j.mem].place = "Archive" /\ note[j.mem].status = "forgotten"
       ELSE Landing(j)
  /\ s \in {"undo", "compensate"} => j.kind = "undo"
  /\ s = "compensate" => CalmCompensate(j)
  /\ s = "upsert" => note[j.mem] = j.expected

Lasting == BirthInv /\ ArchivedInv /\ RecordedInv
CalmAll(s, j) ==
  Lasting /\ LinkedInv(s, j) /\ TellInv(s, j) /\ PlaceInv(s, j) /\ CalmAt(s, j)

Alone(h) == left.hosts = {h} /\ left.crash = 0 /\ left.loss = 0
CalmInv == left.calm => \E h \in Hosts : Alone(h) /\ CalmAll(pc[h], job[h])

-----------------------------------------------------------------------------
(* When no row is behind its note. *)
Settled ==
  /\ Lasting
  /\ \A i \in DOMAIN txns : Unlinked(i)
  /\ \A m \in Memories : Told(m) /\ Placed(m)

LEMMA CalmSettled ==
  ASSUME NEW s, NEW j, CalmAll(s, j),
         s \in {"idle", "create", "flip", "resolve", "sweep", "undo", "walk", "upsert", "replay"}
  PROVE  Settled
BY DEF CalmAll, Settled, LinkedInv, Linking, TellInv, Behind, PlaceInv

LEMMA SettledAll ==
  ASSUME NEW s, NEW j, Settled', CalmAt(s, j)'
  PROVE  CalmAll(s, j)'
BY DEF CalmAll, Settled, LinkedInv, TellInv, PlaceInv

LEMMA NothingMoved ==
  ASSUME UNCHANGED <<note, commits, rows, txns>>
  PROVE  /\ Lasting => Lasting'
         /\ \A m : BroughtBack(m)' = BroughtBack(m) /\ (Told(m) => Told(m)') /\ (Placed(m) => Placed(m)')
         /\ Settled => Settled'
<1>1. \A m : BroughtBack(m)' = BroughtBack(m)
  BY DEF BroughtBack
<1>2. \A m : (Told(m) => Told(m)') /\ (Placed(m) => Placed(m)')
  BY <1>1 DEF Told, Placed
<1>3. Lasting => Lasting'
  BY <1>1 DEF Lasting, BirthInv, Newborn, ArchivedInv, RecordedInv
<1>4. \A i : Unlinked(i) => Unlinked(i)'
  BY DEF Unlinked, Edit
<1> QED
  BY <1>1, <1>2, <1>3, <1>4 DEF Settled

CalmArrives(h) == \E s, j : Begin(h, s, j) /\ CalmAll(s, j)'

LEMMA AtRest ==
  ASSUME Settled', NEW h, NEW s \in {"idle", "resolve", "sweep", "walk", "replay"}, NEW j,
         Begin(h, s, j)
  PROVE  CalmArrives(h)
<1>1. CalmAt(s, j)'
  BY DEF CalmAt
<1> QED
  BY <1>1, SettledAll DEF CalmArrives

LEMMA CalmEnded ==
  ASSUME Settled', NEW h, NEW j, NEW how, Ended(h, j, how)
  PROVE  CalmArrives(h)
<1>1. PICK s, k : s \in {"idle", "resolve", "sweep"} /\ Begin(h, s, k)
  BY DEF Ended
<1> QED
  BY <1>1, AtRest

(* A change of status that starts from what the row says. *)
Asked(j) ==
  /\ j \in JobType /\ j.mem \in Memories /\ j.kind # "revise" /\ j.how = "ok"
  /\ j.kind \in {"forget", "sweep"} => rows[j.mem].status # "forgotten"
  /\ j.apr = 0 => rows[j.mem].status # "canonical"
  /\ j.kind = "promote" /\ j.apr = 0 => rows[j.mem].status = "scratch"
  /\ j.kind = "retire" => rows[j.mem].status \in {"working", "canonical"}

LEMMA CalmStartFlip ==
  ASSUME TypeOK, NoteInv, Settled, UNCHANGED <<note, commits, rows, txns>>,
         NEW h, NEW j, Asked(j), NEW status \in Statuses, StartFlip(h, j, status),
         j.kind \in {"forget", "sweep"} => status = "forgotten"
  PROVE  CalmArrives(h)
<1> PICK n : n = NoteOf(j.mem)
  OBVIOUS
<1>1. Settled' /\ j.mem \in Memories
  BY NothingMoved DEF Asked
<1>2. CASE n = NoNote
  BY <1>1, <1>2, CalmEnded DEF StartFlip
<1>3. ASSUME n # NoNote
      PROVE  /\ n = note[j.mem] /\ n \in Notes /\ rows[j.mem] # NoRow /\ rows[j.mem].place = n.place
             /\ \/ rows[j.mem].status = n.status
                \/ n.place = "Archive" /\ n.status = "forgotten" /\ BroughtBack(j.mem)
  <2>1. n = note[j.mem] /\ n \in Notes /\ rows[j.mem] # NoRow /\ rows[j.mem].place = n.place
    BY <1>1, <1>3, NoteOfHad
  <2> QED
    BY <1>1, <1>3, <2>1 DEF Settled, Told
<1>4. BroughtBack(j.mem) = BroughtBack(j.mem)'
  BY NothingMoved
<1>5. CASE n # NoNote /\ n.status = status
  <2> DEFINE s == IF j.kind \in {"forget", "sweep"} THEN "archive" ELSE "mirror"
  <2> PICK k : k = [j EXCEPT !.after = n]
    OBVIOUS
  <2>1. Begin(h, s, k)
    BY <1>5 DEF StartFlip
  <2>2. k.after = n /\ k.kind = j.kind /\ k.mem = j.mem /\ k.how = "ok"
    BY <1>3, <1>5 DEF Asked, JobType
  <2>3. Landing(k)
    BY <1>3, <1>5, <2>2 DEF Landing, Asked
  <2>4. Landing(k)'
    BY <1>4, <2>2, <2>3 DEF Landing
  <2>5. s \in {"archive", "mirror"}
    OBVIOUS
  <2> HIDE DEF s
  <2>6. CalmAt(s, k)'
    BY <2>2, <2>4, <2>5 DEF CalmAt
  <2> QED
    BY <1>1, <2>1, <2>6, SettledAll DEF CalmArrives
<1>6. CASE n # NoNote /\ n.status # status
  <2> PICK a : a = [n EXCEPT !.status = status]
    OBVIOUS
  <2> PICK k : k = [j EXCEPT !.expected = n, !.after = a]
    OBVIOUS
  <2>1. Begin(h, "flip", k)
    BY <1>6 DEF StartFlip
  <2>2. a.status = status
    BY <1>3, <1>6 DEF Notes
  <2>3. k.after = a /\ k.expected = n /\ k.kind = j.kind /\ k.mem = j.mem /\ k.apr = j.apr
    BY <1>3, <1>6 DEF Asked, JobType
  <2>4. From(k)
    BY <1>3, <1>6, <2>3 DEF From, Asked
  <2>5. CalmFlip(k)'
    BY <1>3, <1>4, <1>6, <2>2, <2>3, <2>4 DEF CalmFlip, From
  <2>6. CalmAt("flip", k)'
    BY <2>5 DEF CalmAt
  <2> QED
    BY <1>1, <2>1, <2>6, SettledAll DEF CalmArrives
<1> QED
  BY <1>2, <1>5, <1>6

-----------------------------------------------------------------------------
(* Requests change no note, no row and no transaction. *)
CalmBefore(h) == Before(h) /\ CalmAll(pc[h], job[h])

LEMMA CalmStays ==
  ASSUME NEW h, CalmBefore(h), pc[h] = "idle", UNCHANGED <<note, commits, rows, txns, pc, job>>
  PROVE  CalmArrives(h)
<1>1. Begin(h, "idle", job[h])
  BY DEF Begin, CalmBefore, Before, IInv, TypeOK
<1>2. Settled'
  BY CalmSettled, NothingMoved DEF CalmBefore
<1> QED
  BY <1>1, <1>2, AtRest

LEMMA CalmRemember ==
  ASSUME NEW h, CalmBefore(h), NEW m \in Memories, NEW b, Remember(h, m, b)
  PROVE  CalmArrives(h)
<1>1. Settled' /\ UNCHANGED <<note, commits, rows, txns>>
  BY CalmSettled, NothingMoved DEF Remember, Spend, CalmBefore
<1> PICK n : n = [place |-> "Memory", status |-> "scratch", body |-> b]
  OBVIOUS
<1> PICK k : k = [Idle EXCEPT !.kind = "remember", !.mem = m, !.after = n]
  OBVIOUS
<1>2. Begin(h, "create", k) /\ k.mem = m
  BY DEF Remember, Idle
<1>3. \A i \in DOMAIN commits : commits[i].mem # m
  BY DEF Remember
<1>4. NotesHad(m) = {}
  BY <1>3 DEF NotesHad
<1>5. note[m] = NoNote /\ rows[m] = NoRow
  BY <1>4 DEF CalmBefore, Before, IInv, HistoryInv, NoteInv, RowNeverAhead
<1>6. CalmAt("create", k)'
  BY <1>1, <1>2, <1>3, <1>5 DEF CalmAt
<1> QED
  BY <1>1, <1>2, <1>6, SettledAll DEF CalmArrives

LEMMA CalmFlipRequest ==
  ASSUME NEW h, CalmBefore(h), pc[h] = "idle", NEW m \in Memories,
         NEW kind \in {"promote", "forget", "retire"}, NEW status \in Statuses,
         StartFlip(h, [Idle EXCEPT !.kind = kind, !.mem = m], status),
         kind = "forget" => status = "forgotten" /\ rows[m].status # "forgotten",
         rows[m].status # "canonical",
         kind = "promote" => rows[m].status = "scratch",
         kind = "retire" => rows[m].status = "working",
         UNCHANGED <<note, commits, rows, txns>>
  PROVE  CalmArrives(h)
<1> PICK k : k = [Idle EXCEPT !.kind = kind, !.mem = m]
  OBVIOUS
<1>1. kind \in Kinds
  BY DEF Kinds
<1>2. k \in JobType /\ k.kind = kind /\ k.mem = m /\ k.apr = 0 /\ k.how = "ok"
  BY <1>1, RequestJob
<1>3. Asked(k) /\ (k.kind \in {"forget", "sweep"} => status = "forgotten")
  BY <1>2 DEF Asked
<1>4. TypeOK /\ NoteInv /\ Settled
  BY Given, CalmSettled DEF CalmBefore, Before
<1> QED
  BY <1>3, <1>4, CalmStartFlip

LEMMA CalmPromote ==
  ASSUME NEW h, CalmBefore(h), NEW m \in Memories, Promote(h, m)
  PROVE  CalmArrives(h)
<1>1. pc[h] = "idle" /\ UNCHANGED <<note, commits, rows, txns>>
  BY DEF Promote, Spend
<1> QED
  BY <1>1, CalmFlipRequest, CalmStays, Zenon DEF Promote, Statuses

LEMMA CalmForget ==
  ASSUME NEW h, CalmBefore(h), NEW m \in Memories, Forget(h, m)
  PROVE  CalmArrives(h)
<1>1. pc[h] = "idle" /\ UNCHANGED <<note, commits, rows, txns>>
  BY DEF Forget, Spend
<1> QED
  BY <1>1, CalmFlipRequest, CalmStays, Zenon DEF Forget, Statuses

LEMMA CalmRetire ==
  ASSUME NEW h, CalmBefore(h), NEW m \in Memories, Retire(h, m)
  PROVE  CalmArrives(h)
<1>1. pc[h] = "idle" /\ UNCHANGED <<note, commits, rows, txns>>
  BY DEF Retire, Spend
<1> QED
  BY <1>1, CalmFlipRequest, CalmStays, Zenon DEF Retire, Statuses

LEMMA CalmRevise ==
  ASSUME NEW h, CalmBefore(h), NEW m \in Memories, NEW b, Revise(h, m, b)
  PROVE  CalmArrives(h)
<1>1. pc[h] = "idle" /\ UNCHANGED <<note, commits, rows, txns>>
  BY DEF Revise, Spend
<1>2. Settled /\ Settled'
  BY <1>1, CalmSettled, NothingMoved DEF CalmBefore
<1> PICK n : n = NoteOf(m)
  OBVIOUS
<1> PICK a : a = [n EXCEPT !.body = b]
  OBVIOUS
<1> PICK k : k = [Idle EXCEPT !.kind = "revise", !.mem = m, !.expected = n, !.after = a]
  OBVIOUS
<1>3. CASE UNCHANGED <<pc, job>>
  BY <1>1, <1>3, CalmStays
<1>4. CASE rows[m].status # "canonical" /\ Begin(h, "flip", k)
  <2>1. k.expected = n /\ k.kind = "revise" /\ k.mem = m /\ k.apr = 0
    BY DEF Idle
  <2>2. n.status # "canonical"
    <3>1. n # NoNote
      BY DEF Revise
    <3>2. n = note[m] /\ rows[m] # NoRow /\ rows[m].place = n.place
      BY <3>1, NoteOfHad, Given DEF CalmBefore, Before
    <3> QED
      BY <1>2, <1>4, <3>1, <3>2 DEF Settled, Told
  <2>3. CalmAt("flip", k)'
    BY <2>1, <2>2 DEF CalmAt, CalmFlip, From
  <2> QED
    BY <1>2, <1>4, <2>3, SettledAll DEF CalmArrives
<1> QED
  BY <1>3, <1>4 DEF Revise

LEMMA CalmApprove ==
  ASSUME NEW h, CalmBefore(h), NEW a \in DOMAIN held, Approve(h, a)
  PROVE  CalmArrives(h)
<1>1. pc[h] = "idle" /\ UNCHANGED <<note, commits, rows, txns>>
  BY DEF Approve, Spend
<1>2. Settled /\ Settled' /\ TypeOK /\ NoteInv
  BY <1>1, CalmSettled, NothingMoved, Given DEF CalmBefore, Before
<1> PICK op : op = held[a]
  OBVIOUS
<1>3. op \in HeldType /\ a \in Nat /\ a # 0
  BY <1>2 DEF TypeOK
<1> PICK k : k = [Idle EXCEPT !.kind = op.op, !.mem = op.mem, !.apr = a]
  OBVIOUS
<1>4. k \in JobType /\ k.kind = op.op /\ k.mem = op.mem /\ k.apr = a /\ k.how = "ok"
  BY <1>3, IdleType DEF JobType, Kinds, HeldType
<1>5. op.mem \in Memories /\ op.op \in {"promote", "forget", "retire", "revise"}
  BY <1>3 DEF HeldType
<1>6. ASSUME NEW how, Ended(h, k, how) PROVE CalmArrives(h)
  BY <1>2, <1>6, CalmEnded
<1>7. CASE op.op = "revise" /\ Begin(h, "flip", [k EXCEPT !.expected = op.expected, !.after = op.after])
  <2> PICK l : l = [k EXCEPT !.expected = op.expected, !.after = op.after]
    OBVIOUS
  <2>1. l.kind = "revise" /\ l.apr = a
    BY <1>4, <1>7 DEF JobType
  <2>2. CalmAt("flip", l)'
    BY <1>3, <2>1 DEF CalmAt, CalmFlip, From
  <2> QED
    BY <1>2, <1>7, <2>2, SettledAll DEF CalmArrives
<1>8. CASE op.op = "promote" /\ StartFlip(h, k, "canonical")
  <2>1. Asked(k)
    BY <1>3, <1>4, <1>5, <1>8 DEF Asked
  <2> QED
    BY <1>1, <1>2, <1>4, <1>8, <2>1, CalmStartFlip DEF Statuses
<1>9. CASE op.op = "forget" /\ rows[op.mem].status # "forgotten" /\ StartFlip(h, k, "forgotten")
  <2>1. Asked(k)
    BY <1>3, <1>4, <1>5, <1>9 DEF Asked
  <2> QED
    BY <1>1, <1>2, <1>4, <1>9, <2>1, CalmStartFlip DEF Statuses
<1>10. CASE /\ op.op = "retire" /\ rows[op.mem].status \in {"working", "canonical"}
            /\ StartFlip(h, k, "retired")
  <2>1. Asked(k)
    BY <1>3, <1>4, <1>5, <1>10 DEF Asked
  <2> QED
    BY <1>1, <1>2, <1>4, <1>10, <2>1, CalmStartFlip DEF Statuses
<1>11. rows[op.mem] # NoRow => rows[op.mem].status \in Statuses \cup {"reverted"}
  BY <1>2, <1>5 DEF TypeOK, MemoryRows
<1>12. \/ op.op = "revise" /\ Begin(h, "flip", [k EXCEPT !.expected = op.expected, !.after = op.after])
       \/ \E how : Ended(h, k, how)
       \/ op.op = "promote" /\ StartFlip(h, k, "canonical")
       \/ op.op = "forget" /\ rows[op.mem].status # "forgotten" /\ StartFlip(h, k, "forgotten")
       \/ op.op = "retire" /\ rows[op.mem].status \in {"working", "canonical"} /\ StartFlip(h, k, "retired")
  <2> DEFINE m == op.mem
  <2>1. \/ op.op = "revise" /\ Begin(h, "flip", [k EXCEPT !.expected = op.expected, !.after = op.after])
        \/ Ended(h, k, "error")
        \/ op.op = "promote" /\ StartFlip(h, k, "canonical")
        \/ op.op = "forget" /\ IF rows[m].status = "forgotten" THEN Ended(h, k, "ok")
                               ELSE StartFlip(h, k, "forgotten")
        \/ /\ op.op = "retire" /\ rows[m] # NoRow
           /\ CASE rows[m].status = "retired" -> Ended(h, k, "ok")
                [] rows[m].status \in {"scratch", "forgotten", "reverted"} -> Ended(h, k, "stale")
                [] OTHER -> StartFlip(h, k, "retired")
    BY DEF Approve
  <2>2. CASE /\ op.op = "retire" /\ rows[m] # NoRow
             /\ CASE rows[m].status = "retired" -> Ended(h, k, "ok")
                  [] rows[m].status \in {"scratch", "forgotten", "reverted"} -> Ended(h, k, "stale")
                  [] OTHER -> StartFlip(h, k, "retired")
    <3>1. CASE rows[m].status = "retired"
      BY <2>2, <3>1
    <3>2. CASE rows[m].status \in {"scratch", "forgotten", "reverted"}
      BY <2>2, <3>2
    <3>3. CASE rows[m].status \notin {"retired", "scratch", "forgotten", "reverted"}
      BY <1>11, <2>2, <3>3 DEF Statuses
    <3> QED
      BY <3>1, <3>2, <3>3
  <2> QED
    BY <2>1, <2>2
<1> QED
  BY <1>6, <1>7, <1>8, <1>9, <1>10, <1>12

LEMMA CalmRequest ==
  ASSUME NEW h, CalmBefore(h), Request(h)
  PROVE  CalmArrives(h)
<1>1. \A m \in left.memories : m \in Memories
  BY Given DEF CalmBefore, Before, LeftType
<1>2. CASE \E m \in left.memories, b \in left.bodies : Remember(h, m, b) \/ Revise(h, m, b)
  BY <1>1, <1>2, CalmRemember, CalmRevise
<1>3. CASE \E m \in left.memories : Promote(h, m) \/ Forget(h, m) \/ Retire(h, m)
  BY <1>1, <1>3, CalmPromote, CalmForget, CalmRetire
<1>4. CASE \E a \in DOMAIN held : Approve(h, a) \/ Reject(h, a)
  <2>1. ASSUME NEW a, Reject(h, a) PROVE CalmArrives(h)
    BY <2>1, CalmStays DEF Reject, Spend
  <2> QED
    BY <1>4, <2>1, CalmApprove
<1>5. ASSUME pc[h] = "idle", UNCHANGED <<note, commits, rows, txns>>,
             NEW s \in {"sweep", "walk"}, NEW j, Begin(h, s, j)
      PROVE  CalmArrives(h)
  BY <1>5, CalmSettled, NothingMoved, AtRest DEF CalmBefore
<1>6. CASE SweepList(h)
  BY <1>5, <1>6 DEF SweepList, Spend
<1>7. CASE StartReindex(h)
  BY <1>5, <1>7 DEF StartReindex
<1>8. ASSUME NEW q, UndoStart(h, q) PROVE CalmArrives(h)
  <2> PICK k : k = [Idle EXCEPT !.kind = "undo", !.queue = q]
    OBVIOUS
  <2>1. /\ pc[h] = "idle" /\ UNCHANGED <<note, commits, rows, txns>>
        /\ Begin(h, "undo", k) /\ k.kind = "undo"
    BY <1>8 DEF UndoStart, Spend, Idle
  <2>2. Settled'
    BY <2>1, CalmSettled, NothingMoved DEF CalmBefore
  <2>3. CalmAt("undo", k)'
    BY <2>1 DEF CalmAt
  <2> QED
    BY <2>1, <2>2, <2>3, SettledAll DEF CalmArrives
<1> QED
  BY <1>2, <1>3, <1>4, <1>6, <1>7, <1>8 DEF Request

-----------------------------------------------------------------------------
(* Steps that change no note. *)
LEMMA CalmHere ==
  ASSUME NEW h, CalmBefore(h)
  PROVE  /\ job[h] \in JobType /\ JobAt(pc[h], job[h]) /\ CalmAll(pc[h], job[h])
         /\ Data /\ TypeOK /\ NoteInv /\ TxnInv
BY Given, AtStep DEF CalmBefore, Before

(* Where only rows and the journal's account of commits change. *)
LEMMA LastingKept ==
  ASSUME Lasting, Grows, UNCHANGED <<note, commits>>
  PROVE  Lasting' /\ \A m : BroughtBack(m)' = BroughtBack(m)
<1>1. \A m : BroughtBack(m)' = BroughtBack(m)
  BY DEF BroughtBack
<1>2. RecordedInv'
  BY DEF Lasting, RecordedInv, Grows
<1>3. BirthInv' /\ ArchivedInv'
  BY <1>1 DEF Lasting, BirthInv, Newborn, ArchivedInv
<1> QED
  BY <1>1, <1>2, <1>3 DEF Lasting

LEMMA OtherRows ==
  ASSUME UNCHANGED <<note, commits>>, NEW m, rows'[m] = rows[m]
  PROVE  (Told(m) => Told(m)') /\ (Placed(m) => Placed(m)')
<1>1. BroughtBack(m)' = BroughtBack(m)
  BY DEF BroughtBack
<1> QED
  BY <1>1 DEF Told, Placed

LEMMA CalmInsert ==
  ASSUME NEW h, CalmBefore(h), InsertRow(h)
  PROVE  CalmArrives(h)
<1> PICK j : j = job[h]
  OBVIOUS
<1>1. /\ j \in JobType /\ JobAt("insert", j) /\ CalmAll("insert", j) /\ Data
      /\ Begin(h, "link", j) /\ UNCHANGED <<note, commits, txns>>
      /\ rows' = [rows EXCEPT ![j.mem] = [place |-> "Memory", status |-> "scratch"]]
  BY CalmHere DEF InsertRow, Goto
<1>2. /\ j.mem \in Memories /\ j.how = "ok" /\ note[j.mem] = j.after
      /\ j.after # NoNote /\ j.after.place = "Memory" /\ j.after.status = "scratch"
  BY <1>1, NoNoteAssumption DEF JobAt, AtInsert, AtCreate, Newborn, CalmAll, CalmAt
<1>3. Grows
  BY <1>1 DEF Grows, InsertRow
<1>4. Lasting' /\ CalmAt("link", j)'
  BY <1>1, <1>2, <1>3, LastingKept DEF CalmAll, CalmAt
<1>5. rows'[j.mem].place = "Memory" /\ rows'[j.mem].status = "scratch"
      /\ \A m \in Memories \ {j.mem} : rows'[m] = rows[m]
  BY <1>1, <1>2 DEF Data
<1>6. \A m \in Memories : Told(m)' /\ Placed(m)'
  <2>1. Told(j.mem)' /\ Placed(j.mem)'
    BY <1>1, <1>2, <1>5 DEF Told, Placed
  <2>2. ASSUME NEW m \in Memories \ {j.mem} PROVE Told(m)' /\ Placed(m)'
    <3>1. Told(m) /\ Placed(m)
      BY <1>1 DEF CalmAll, TellInv, Behind, PlaceInv
    <3> QED
      BY <1>1, <1>5, <3>1, OtherRows
  <2> QED
    BY <2>1, <2>2
<1>7. LinkedInv("link", j)'
  BY <1>1 DEF CalmAll, LinkedInv, Linking, Unlinked, Edit
<1> QED
  BY <1>1, <1>4, <1>6, <1>7 DEF CalmArrives, CalmAll, TellInv, PlaceInv

LEMMA CalmLink ==
  ASSUME NEW h, CalmBefore(h), LinkTransaction(h)
  PROVE  CalmArrives(h)
<1> PICK j : j = job[h]
  OBVIOUS
<1>1. /\ j \in JobType /\ JobAt("link", j) /\ CalmAll("link", j) /\ Data
      /\ AfterLink(h) /\ UNCHANGED <<note, commits, rows>>
      /\ txns' = [i \in DOMAIN txns |->
                    IF txns[i].commit = j.commit THEN [txns[i] EXCEPT !.mem = j.mem] ELSE txns[i]]
  BY CalmHere DEF LinkTransaction
<1>2. j.mem \in Memories /\ AtLink(j)
  BY <1>1 DEF JobAt, AtLink
<1>3. DOMAIN txns' = DOMAIN txns /\ \A i \in DOMAIN txns :
        /\ txns'[i].commit = txns[i].commit
        /\ txns'[i].mem = IF txns[i].commit = j.commit THEN j.mem ELSE txns[i].mem
  <2>1. \A t \in TxnType : LET u == [t EXCEPT !.mem = j.mem] IN
          u.commit = t.commit /\ u.mem = j.mem
    BY DEF TxnType
  <2> QED
    BY <1>1, <2>1 DEF Data
<1>4. Grows
  BY <1>1, <1>3 DEF Grows, LinkTransaction
<1>5. Lasting' /\ \A m : BroughtBack(m)' = BroughtBack(m)
  BY <1>1, <1>4, LastingKept DEF CalmAll
<1>6. \A i \in DOMAIN txns' : Unlinked(i)'
  <2> SUFFICES ASSUME NEW i \in DOMAIN txns', txns'[i].mem = NoMem
               PROVE  Edit(commits'[txns'[i].commit].before, commits'[txns'[i].commit].after)
    BY DEF Unlinked, Edit
  <2>1. i \in DOMAIN txns /\ txns[i].mem = NoMem /\ txns[i].commit # j.commit
    BY <1>2, <1>3, SentinelAssumption
  <2>2. Unlinked(i)
    BY <1>1, <2>1 DEF CalmAll, LinkedInv
  <2> QED
    BY <1>1, <1>3, <2>1, <2>2 DEF Unlinked
<1>7. \A m \in Memories : (Told(m) => Told(m)') /\ Placed(m)'
  BY <1>1, OtherRows DEF CalmAll, PlaceInv
<1>8. \A m \in Memories : Told(m) \/ (j.mem = m /\ j.how = "flipped" /\ j.kind # "revise")
  BY <1>1 DEF CalmAll, TellInv, Behind
<1>9. CASE j.how = "flipped" /\ j.kind # "revise"
  <2>1. Landing(j)
    BY <1>1, <1>9 DEF CalmAll, CalmAt
  <2>2. Landing(j)'
    BY <1>1, <1>5, <2>1 DEF Landing
  <2>3. PICK s \in {"archive", "mirror"} : Begin(h, s, j)
    BY <1>1, <1>2, <1>9 DEF AtLink, AfterLink, Goto, Changing
  <2>4. CalmAt(s, j)'
    BY <1>9, <2>2, <2>3 DEF CalmAt
  <2>5. LinkedInv(s, j)' /\ PlaceInv(s, j)'
    BY <1>6, <1>7 DEF LinkedInv, PlaceInv
  <2>6. TellInv(s, j)'
    BY <1>7, <1>8, <2>3 DEF TellInv, Behind
  <2> QED
    BY <1>5, <2>3, <2>4, <2>5, <2>6 DEF CalmArrives, CalmAll
<1>10. CASE ~(j.how = "flipped" /\ j.kind # "revise")
  <2>1. Settled'
    BY <1>5, <1>6, <1>7, <1>8, <1>10 DEF Settled
  <2>2. Ended(h, j, "ok")
    BY <1>1, <1>2, <1>10 DEF AtLink, AfterLink, Changing
  <2> QED
    BY <2>1, <2>2, CalmEnded
<1> QED
  BY <1>9, <1>10

LEMMA CalmMirror ==
  ASSUME NEW h, CalmBefore(h), MirrorRow(h)
  PROVE  CalmArrives(h)
<1> PICK j : j = job[h]
  OBVIOUS
<1> PICK m : m = j.mem
  OBVIOUS
<1>1. /\ j \in JobType /\ JobAt("mirror", j) /\ CalmAll("mirror", j) /\ Data
      /\ UNCHANGED <<note, commits, txns, held>>
  BY CalmHere DEF MirrorRow
<1>2. m \in Memories /\ AtMirror(j)
  BY <1>1 DEF JobAt, AtMirror
<1>3. Grows
  BY <1>1 DEF Grows
<1>4. Lasting' /\ \A n : BroughtBack(n)' = BroughtBack(n)
  BY <1>1, <1>3, LastingKept DEF CalmAll
<1>5. \A i : Unlinked(i)' = Unlinked(i)
  BY <1>1 DEF Unlinked, Edit
<1>6. ASSUME NEW n \in Memories \ {m}, rows'[n] = rows[n]
      PROVE  Told(n)' /\ Placed(n)'
  <2>1. Told(n) /\ Placed(n)
    BY <1>1, <1>6 DEF CalmAll, TellInv, Behind, PlaceInv
  <2> QED
    BY <1>1, <1>6, <2>1, OtherRows
<1>7. CASE j.how = "archived"
  <2>1. note[m] # NoNote /\ note[m].place = "Archive" /\ note[m].status = "forgotten"
    BY <1>1, <1>7 DEF CalmAll, CalmAt
  <2>2. Begin(h, "link", j)
    BY <1>7 DEF MirrorRow, Goto
  <2>3. \/ rows[m] = NoRow /\ rows' = rows
        \/ rows' = [rows EXCEPT ![m] = [place |-> "Archive", status |-> "forgotten"]]
    BY <1>7 DEF MirrorRow
  <2>4. /\ \A n \in Memories \ {m} : rows'[n] = rows[n]
        /\ rows'[m] = NoRow \/ (rows'[m].place = "Archive" /\ rows'[m].status = "forgotten")
    BY <1>1, <1>2, <2>3 DEF Data
  <2>5. Told(m)' /\ Placed(m)'
    BY <1>1, <2>1, <2>4 DEF Told, Placed
  <2>6. \A n \in Memories : Told(n)' /\ Placed(n)'
    BY <1>6, <2>4, <2>5
  <2>7. LinkedInv("link", j)'
    BY <1>1, <1>5, <1>7 DEF CalmAll, LinkedInv, Linking
  <2>8. CalmAt("link", j)'
    BY <1>7 DEF CalmAt
  <2> QED
    BY <1>4, <2>2, <2>6, <2>7, <2>8 DEF CalmArrives, CalmAll, TellInv, PlaceInv
<1>8. CASE j.how # "archived"
  <2>1. Landing(j)
    BY <1>1, <1>8 DEF CalmAll, CalmAt
  <2>2. Ended(h, j, "ok") /\ rows' = [rows EXCEPT ![m].status = j.after.status]
    BY <1>8, <2>1 DEF MirrorRow, Landing
  <2>3. rows[m] \in MemoryRows
    BY <1>1, <1>2, <2>1 DEF Data, Landing
  <2>4. /\ \A n \in Memories \ {m} : rows'[n] = rows[n]
        /\ rows'[m].place = rows[m].place /\ rows'[m].status = j.after.status
    BY <1>1, <1>2, <2>2, <2>3 DEF Data, MemoryRows
  <2>5. Told(m)' /\ Placed(m)'
    <3>1. j.after \in NotesHad(m)
      BY <1>2, <1>8 DEF AtMirror, Done
    <3>2. note[m] = j.after /\ note[m] # NoNote /\ rows[m].place = note[m].place
      BY <2>1, <3>1 DEF Landing, NotesHad
    <3> QED
      BY <1>1, <2>4, <3>2 DEF Told, Placed
  <2>6. \A n \in Memories : Told(n)' /\ Placed(n)'
    BY <1>6, <2>4, <2>5
  <2>7. \A i \in DOMAIN txns' : Unlinked(i)'
    BY <1>1, <1>5, <1>8 DEF CalmAll, LinkedInv, Linking
  <2> QED
    BY <1>4, <2>2, <2>6, <2>7, CalmEnded DEF Settled
<1> QED
  BY <1>7, <1>8

(* The row of an undone transaction's memory is read from the note; a       *)
(* transaction that has no memory changed nothing that a row tells.        *)
LEMMA CalmCompensateStep ==
  ASSUME NEW h, CalmBefore(h), CompensateJournal(h)
  PROVE  CalmArrives(h)
<1> PICK j : j = job[h]
  OBVIOUS
<1> PICK i : i = Head(j.queue)
  OBVIOUS
<1> PICK m : m = txns[i].mem
  OBVIOUS
<1>1. /\ j \in JobType /\ JobAt("compensate", j) /\ CalmAll("compensate", j) /\ Data
      /\ UNCHANGED <<note, commits, held>> /\ TypeOK /\ NoteInv /\ TxnInv
  BY CalmHere DEF CompensateJournal
<1>2. /\ i \in DOMAIN txns /\ txns[i] \in TxnType /\ txns[i].commit \in DOMAIN commits
      /\ j.commit \in DOMAIN commits
      /\ commits[j.commit].mem = commits[txns[i].commit].mem
  BY <1>1, QueueHead DEF JobAt, AtCompensate, Data
<1> PICK c, r : c = commits[txns[i].commit] /\ r = commits[j.commit]
  OBVIOUS
<1>3. /\ note[r.mem] = r.after
      /\ Whole(c.after, c.before, r.before, r.after) \/ Fieldwise(c.after, c.before, r.before, r.after)
  BY <1>1 DEF CalmAll, CalmAt, CalmCompensate
<1>4. /\ m \in {NoMem, r.mem} /\ r.mem = c.mem /\ r.mem \in Memories
      /\ r.before \in Notes \cup {NoNote} /\ r.after \in Notes \cup {NoNote}
  <2>1. r \in CommitType
    BY <1>1, <1>2 DEF Data
  <2> QED
    BY <1>1, <1>2, <2>1 DEF TxnInv, CommitType
<1> DEFINE marked == [txns EXCEPT ![i].status = "reverted"]
           t == [commit |-> j.commit, op |-> "revert", mem |-> m, status |-> "applied"]
<1>5. txns' = Append(marked, t)
  BY DEF CompensateJournal
<1>6. /\ marked \in Seq(TxnType) /\ DOMAIN marked = DOMAIN txns
      /\ \A k \in DOMAIN txns : marked[k].commit = txns[k].commit /\ marked[k].mem = txns[k].mem
  <2>1. \A u \in TxnType : LET v == [u EXCEPT !.status = "reverted"] IN
          v \in TxnType /\ v.commit = u.commit /\ v.mem = u.mem
    BY DEF TxnType
  <2>2. marked = [txns EXCEPT ![i] = [txns[i] EXCEPT !.status = "reverted"]]
    OBVIOUS
  <2>3. txns \in Seq(TxnType)
    BY <1>1 DEF Data
  <2> QED
    BY <1>2, <2>1, <2>2, <2>3
<1>7. t \in TxnType /\ t.commit = j.commit /\ t.mem = m
  <2>1. j.commit \in Nat /\ m \in Memories \cup {NoMem}
    BY <1>1, <1>2 DEF JobType, TxnType
  <2> QED
    BY <2>1 DEF TxnType, Ops
<1> HIDE DEF marked, t
<1>8. /\ \A k \in DOMAIN txns :
           k \in DOMAIN txns' /\ txns'[k].commit = txns[k].commit /\ txns'[k].mem = txns[k].mem
      /\ \A k \in DOMAIN txns' : k \in DOMAIN txns \/ txns'[k] = t
  <2>1. /\ DOMAIN Append(marked, t) = DOMAIN marked \cup {Len(marked) + 1}
        /\ \A k \in DOMAIN marked : k \in DOMAIN Append(marked, t) /\ Append(marked, t)[k] = marked[k]
        /\ Append(marked, t)[Len(marked) + 1] = t
    BY <1>6, <1>7, Appended
  <2> QED
    BY <1>5, <1>6, <2>1
<1>9. Grows
  BY <1>1, <1>8 DEF Grows
<1>10. Lasting' /\ \A n : BroughtBack(n)' = BroughtBack(n)
  BY <1>1, <1>9, LastingKept DEF CalmAll
<1>11. \A k \in DOMAIN txns : Unlinked(k)
  BY <1>1 DEF CalmAll, LinkedInv, Linking
<1>12. \A k \in DOMAIN txns' : Unlinked(k)'
  <2> SUFFICES ASSUME NEW k \in DOMAIN txns', txns'[k].mem = NoMem
               PROVE  Edit(commits[txns'[k].commit].before, commits[txns'[k].commit].after)
    BY <1>1 DEF Unlinked, Edit
  <2>1. CASE k \in DOMAIN txns
    BY <1>8, <1>11, <2>1 DEF Unlinked
  <2>2. CASE txns'[k] = t
    <3>1. m = NoMem /\ txns'[k].commit = j.commit
      BY <1>7, <2>2
    <3>2. Edit(c.before, c.after)
      BY <1>2, <1>11, <3>1 DEF Unlinked
    <3>3. Fieldwise(c.after, c.before, r.before, r.after)
      BY <1>3, <3>2, NoNoteAssumption, Zenon DEF Whole, Edit
    <3> QED
      BY <3>1, <3>2, <3>3, Zenon DEF Fieldwise, Edit
  <2> QED
    BY <1>8, <2>1, <2>2
<1>13. \A n \in Memories : n = m \/ Told(n)
  BY <1>1 DEF CalmAll, TellInv, Behind
<1>14. \A n \in Memories : Placed(n)
  BY <1>1 DEF CalmAll, PlaceInv
<1>15. \A n \in Memories : Told(n)' /\ Placed(n)'
  <2>1. CASE m = NoMem \/ rows[m] = NoRow
    <3>1. rows' = rows
      BY <2>1, Zenon DEF CompensateJournal
    <3>2. \A n \in Memories : Told(n)
      BY <1>13, <2>1, SentinelAssumption DEF Told
    <3> QED
      BY <1>1, <1>14, <3>1, <3>2, OtherRows
  <2>2. CASE m # NoMem /\ rows[m] # NoRow
    <3>1. m \in Memories /\ rows[m] \in MemoryRows
      BY <1>1, <1>4, <2>2 DEF Data
    <3>2. rows' = [rows EXCEPT ![m] = [rows[m] EXCEPT !.status = DerivedStatus(m)]]
      BY <2>2, Zenon DEF CompensateJournal
    <3>3. /\ \A n \in Memories \ {m} : rows'[n] = rows[n]
          /\ rows'[m].place = rows[m].place /\ rows'[m].status = DerivedStatus(m)
      BY <1>1, <3>1, <3>2, Zenon DEF Data, MemoryRows
    <3>4. Told(m)'
      <4>1. note[m] = NoNote => DerivedStatus(m) = "reverted"
        BY DEF DerivedStatus, NoteOf, IsAt
      <4>2. note[m] # NoNote /\ rows[m].place = note[m].place => DerivedStatus(m) = note[m].status
        BY <2>2 DEF DerivedStatus, NoteOf, IsAt
      <4> QED
        BY <1>1, <3>3, <4>1, <4>2, Zenon DEF Told
    <3>5. Placed(m)'
      BY <1>1, <1>10, <1>14, <2>2, <3>1, <3>3 DEF Placed
    <3> QED
      BY <1>1, <1>13, <1>14, <3>3, <3>4, <3>5, OtherRows
  <2> QED
    BY <2>1, <2>2
<1>16. Settled'
  BY <1>10, <1>12, <1>15 DEF Settled
<1> PICK q : q = Tail(j.queue)
  OBVIOUS
<1> PICK k : k = [j EXCEPT !.queue = q]
  OBVIOUS
<1>17. Begin(h, "undo", k)
  BY DEF CompensateJournal
<1>18. k.kind = "undo"
  BY <1>1 DEF JobType, CalmAll, CalmAt
<1>19. CalmAt("undo", k)'
  BY <1>18 DEF CalmAt
<1> QED
  BY <1>16, <1>17, <1>19, SettledAll DEF CalmArrives

LEMMA CalmUpsert ==
  ASSUME NEW h, CalmBefore(h), UpsertMemory(h)
  PROVE  CalmArrives(h)
<1> PICK j : j = job[h]
  OBVIOUS
<1> PICK m : m = j.mem
  OBVIOUS
<1>1. /\ j \in JobType /\ JobAt("upsert", j) /\ CalmAll("upsert", j) /\ Data
      /\ UNCHANGED <<note, commits, txns, held>>
  BY CalmHere DEF UpsertMemory
<1>2. m \in Memories /\ note[m] = j.expected /\ j.expected # NoNote
  BY <1>1 DEF JobAt, AtUpsert, CalmAll, CalmAt, NotesHad
<1>3. Settled
  BY <1>1, CalmSettled
<1>4. Grows
  BY <1>1 DEF Grows
<1>5. Lasting' /\ \A n : BroughtBack(n)' = BroughtBack(n)
  BY <1>1, <1>4, LastingKept DEF CalmAll
<1>6. rows' = [rows EXCEPT ![m] = [place |-> j.expected.place, status |-> j.expected.status]]
  BY DEF UpsertMemory
<1>7. /\ \A n \in Memories \ {m} : rows'[n] = rows[n]
      /\ rows'[m].place = j.expected.place /\ rows'[m].status = j.expected.status
  BY <1>1, <1>2, <1>6 DEF Data
<1>8. Told(m)' /\ Placed(m)'
  BY <1>1, <1>2, <1>7 DEF Told, Placed
<1>9. \A n \in Memories : Told(n)' /\ Placed(n)'
  BY <1>1, <1>3, <1>7, <1>8, OtherRows DEF Settled
<1>10. \A i \in DOMAIN txns' : Unlinked(i)'
  BY <1>1, <1>3 DEF Settled, Unlinked, Edit
<1>11. \E k : Begin(h, "walk", k)
  BY DEF UpsertMemory
<1> QED
  BY <1>5, <1>9, <1>10, <1>11, AtRest DEF Settled

(* Nothing is missing from the journal. *)
LEMMA CalmReplay ==
  ASSUME NEW h, CalmBefore(h), ReplayCommits(h)
  PROVE  CalmArrives(h)
<1>1. /\ CalmAll("replay", job[h]) /\ Data
      /\ UNCHANGED <<note, commits, rows>> /\ Begin(h, "idle", Idle)
  BY CalmHere, Zenon DEF ReplayCommits
<1> DEFINE S == {c \in DOMAIN commits \ {txns[i].commit : i \in DOMAIN txns} :
                   commits[c].op # "revert"}
<1>2. S = {}
  BY <1>1 DEF CalmAll, Lasting, RecordedInv
<1> PICK missing : missing = NewestFirst(S)
  OBVIOUS
<1>3. txns' = txns \o [i \in DOMAIN missing |->
                        [commit |-> missing[i], op |-> commits[missing[i]].op,
                         mem |-> NoMem, status |-> "applied"]]
  BY Zenon DEF ReplayCommits
<1>4. missing = <<>>
  <2>1. S \in SUBSET (1..0)
    BY <1>2
  <2> HIDE DEF S
  <2> QED
    BY <1>2, <2>1, NewestFirstLists
<1> HIDE DEF S
<1>5. txns' = txns
  <2> DEFINE added == [i \in DOMAIN missing |->
                        [commit |-> missing[i], op |-> commits[missing[i]].op,
                         mem |-> NoMem, status |-> "applied"]]
  <2>1. DOMAIN missing = {} /\ DOMAIN added = {}
    BY <1>4
  <2>2. added = <<>>
    BY <1>4, <2>1
  <2>3. txns' = txns \o added
    BY <1>3
  <2> HIDE DEF added
  <2>4. txns \o <<>> = txns
    BY <1>1 DEF Data
  <2> QED
    BY <2>2, <2>3, <2>4
<1>6. Settled'
  BY <1>1, <1>5, CalmSettled, NothingMoved
<1> QED
  BY <1>1, <1>6, AtRest

LEMMA CalmParse ==
  ASSUME NEW h, CalmBefore(h), ParseNote(h)
  PROVE  CalmArrives(h)
<1> PICK j : j = job[h]
  OBVIOUS
<1>1. /\ j \in JobType /\ CalmAll("walk", j) /\ UNCHANGED <<note, commits, rows, txns>>
  BY CalmHere DEF ParseNote
<1>2. Settled'
  BY <1>1, CalmSettled, NothingMoved
<1>3. ASSUME NEW m, NEW k \in JobType, Begin(h, "upsert", [k EXCEPT !.mem = m, !.expected = note[m]])
      PROVE  CalmArrives(h)
  <2> PICK n : n = note[m]
    OBVIOUS
  <2> PICK l : l = [k EXCEPT !.mem = m, !.expected = n]
    OBVIOUS
  <2>1. l.mem = m /\ l.expected = n
    BY <1>3 DEF JobType
  <2>2. CalmAt("upsert", l)'
    BY <1>1, <2>1 DEF CalmAt
  <2> QED
    BY <1>2, <1>3, <2>2, SettledAll DEF CalmArrives
<1>4. ASSUME NEW s \in {"walk", "replay"}, NEW k, Begin(h, s, k)
      PROVE  CalmArrives(h)
  BY <1>2, <1>4, AtRest
<1>5. \/ \E m \in j.rest :
           LET k == [j EXCEPT !.rest = j.rest \ {m}] IN
             IF IsAt(m, j.kind) /\ m \notin j.seen
             THEN Begin(h, "upsert", [k EXCEPT !.mem = m, !.expected = note[m]])
             ELSE Begin(h, "walk", k)
      \/ Begin(h, "walk", [j EXCEPT !.kind = "Archive", !.rest = InPlace("Archive")])
      \/ Begin(h, "replay", Idle)
  BY Zenon DEF ParseNote
<1>6. \A m : [j EXCEPT !.rest = j.rest \ {m}] \in JobType
  BY <1>1 DEF JobType
<1> QED
  BY <1>3, <1>4, <1>5, <1>6

LEMMA CalmSweepNext ==
  ASSUME NEW h, CalmBefore(h), SweepNext(h)
  PROVE  CalmArrives(h)
<1> PICK l : l = job[h]
  OBVIOUS
<1>1. /\ l \in JobType /\ CalmAll("sweep", l) /\ UNCHANGED <<note, commits, rows, txns>>
      /\ TypeOK /\ NoteInv
  BY CalmHere DEF SweepNext
<1>2. Settled /\ Settled'
  BY <1>1, CalmSettled, NothingMoved
<1>3. CASE Begin(h, "idle", Idle)
  BY <1>2, <1>3, AtRest
<1>4. ASSUME NEW j, Ended(h, j, "ok") PROVE CalmArrives(h)
  BY <1>2, <1>4, CalmEnded
<1>5. ASSUME NEW m \in l.rest, rows[m] # NoRow, rows[m].status \notin {"forgotten", "canonical"},
             StartFlip(h, [Idle EXCEPT !.kind = "sweep", !.mem = m, !.rest = l.rest \ {m}], "forgotten")
      PROVE  CalmArrives(h)
  <2> PICK j : j = [Idle EXCEPT !.kind = "sweep", !.mem = m, !.rest = l.rest \ {m}]
    OBVIOUS
  <2>1. m \in Memories /\ l.rest \ {m} \in SUBSET Memories
    BY <1>1 DEF JobType
  <2>2. j \in JobType /\ j.kind = "sweep" /\ j.mem = m /\ j.apr = 0 /\ j.how = "ok"
    <3>1. \A R \in SUBSET Memories, n \in Memories :
            LET k == [Idle EXCEPT !.kind = "sweep", !.mem = n, !.rest = R] IN
            k \in JobType /\ k.kind = "sweep" /\ k.mem = n /\ k.apr = 0 /\ k.how = "ok"
      BY SweepJob
    <3>2. LET k == [Idle EXCEPT !.kind = "sweep", !.mem = m, !.rest = l.rest \ {m}] IN
          k \in JobType /\ k.kind = "sweep" /\ k.mem = m /\ k.apr = 0 /\ k.how = "ok"
      BY <2>1, <3>1, Zenon
    <3> QED
      BY <3>2
  <2>3. Asked(j)
    BY <1>5, <2>1, <2>2 DEF Asked
  <2> QED
    BY <1>1, <1>2, <1>5, <2>3, CalmStartFlip DEF Statuses
<1> QED
  BY <1>3, <1>4, <1>5 DEF SweepNext

LEMMA CalmResolve ==
  ASSUME NEW h, CalmBefore(h), ResolveApproval(h)
  PROVE  CalmArrives(h)
<1>1. /\ CalmAll("resolve", job[h]) /\ UNCHANGED <<note, commits, rows, txns>>
      /\ Begin(h, "idle", Idle)
  BY CalmHere DEF ResolveApproval
<1> QED
  BY <1>1, CalmSettled, NothingMoved, AtRest

-----------------------------------------------------------------------------
(* Commits.  r is the new one. *)
ComesBack(r) ==
  /\ NoNote \notin {r.before, r.after} /\ r.before.place = "Archive"
  /\ r.after.place = "Memory" \/ r.after.status # "forgotten"

Committing(r) ==
  /\ r \in CommitType /\ commits' = Append(commits, r)
  /\ r.before = note[r.mem] /\ note' = [note EXCEPT ![r.mem] = r.after]
  /\ rows' = rows

LEMMA CommitAdded ==
  ASSUME commits \in Seq(CommitType), NEW r, Committing(r)
  PROVE  /\ DOMAIN commits' = DOMAIN commits \cup {Len(commits) + 1}
         /\ \A i \in DOMAIN commits : i \in DOMAIN commits' /\ commits'[i] = commits[i]
         /\ commits'[Len(commits) + 1] = r
BY Appended DEF Committing

LEMMA BringsBack ==
  ASSUME commits \in Seq(CommitType), NEW r, Committing(r), NEW m
  PROVE  BroughtBack(m)' <=> BroughtBack(m) \/ (m = r.mem /\ ComesBack(r))
<1> DEFINE L == Len(commits) + 1
<1>1. /\ DOMAIN commits' = DOMAIN commits \cup {L}
      /\ \A i \in DOMAIN commits : commits'[i] = commits[i]
      /\ commits'[L] = r
  BY Appended DEF Committing
<1> HIDE DEF L
<1>2. BroughtBack(m)' <=> \E i \in DOMAIN commits' : commits'[i].mem = m /\ ComesBack(commits'[i])
  BY DEF BroughtBack, ComesBack
<1>3. BroughtBack(m) <=> \E i \in DOMAIN commits : commits[i].mem = m /\ ComesBack(commits[i])
  BY DEF BroughtBack, ComesBack
<1> QED
  BY <1>1, <1>2, <1>3

LEMMA CommitLasts ==
  ASSUME Lasting, Data, NEW r, Committing(r), Grows,
         r.before = NoNote => Newborn(r.after),
         r.after = NoNote => Newborn(r.before),
         r.op = "revert" \/ \E i \in DOMAIN txns' : txns'[i].commit = Len(commits) + 1,
         r.after # NoNote /\ r.after.place = "Archive" /\ r.after.status # "forgotten"
           => ComesBack(r) \/ BroughtBack(r.mem)
  PROVE  Lasting'
<1> DEFINE L == Len(commits) + 1
<1>1. commits \in Seq(CommitType) /\ r \in CommitType /\ r.mem \in Memories
  BY DEF Data, Committing, CommitType
<1>2. /\ DOMAIN commits' = DOMAIN commits \cup {L}
      /\ \A i \in DOMAIN commits : commits'[i] = commits[i]
      /\ commits'[L] = r
  BY <1>1, Appended DEF Committing
<1>3. \A m : BroughtBack(m)' <=> BroughtBack(m) \/ (m = r.mem /\ ComesBack(r))
  BY <1>1, BringsBack
<1>4. BirthInv'
  <2> HIDE DEF L
  <2>1. \A i \in DOMAIN commits' :
          /\ commits'[i].before = NoNote => Newborn(commits'[i].after)
          /\ commits'[i].after = NoNote => Newborn(commits'[i].before)
    BY <1>2 DEF Lasting, BirthInv
  <2> QED
    BY <2>1 DEF BirthInv, Newborn
<1>5. RecordedInv'
  <2> SUFFICES ASSUME NEW c \in DOMAIN commits', commits'[c].op # "revert"
               PROVE  \E i \in DOMAIN txns' : txns'[i].commit = c
    BY DEF RecordedInv
  <2>1. CASE c \in DOMAIN commits
    <3>1. PICK i \in DOMAIN txns : txns[i].commit = c
      BY <1>2, <2>1 DEF Lasting, RecordedInv
    <3> QED
      BY <3>1 DEF Grows
  <2>2. CASE c = L
    BY <1>2, <2>2
  <2> QED
    BY <1>2, <2>1, <2>2
<1>6. ArchivedInv'
  <2> SUFFICES ASSUME NEW m \in Memories, note'[m] # NoNote, note'[m].place = "Archive"
               PROVE  note'[m].status = "forgotten" \/ BroughtBack(m)'
    BY DEF ArchivedInv
  <2>1. CASE m # r.mem
    <3>1. note'[m] = note[m]
      BY <2>1 DEF Committing, Data
    <3> QED
      BY <1>3, <3>1 DEF Lasting, ArchivedInv
  <2>2. CASE m = r.mem
    <3>1. note'[m] = r.after
      BY <2>2 DEF Committing, Data
    <3> QED
      BY <1>3, <2>2, <3>1
  <2> QED
    BY <2>1, <2>2
<1> QED
  BY <1>4, <1>5, <1>6 DEF Lasting

(* The other memories' rows stay true, and its own if only the body changed. *)
LEMMA CommitTells ==
  ASSUME Data, NEW r, Committing(r), NEW m \in Memories,
         m # r.mem \/ Edit(r.before, r.after)
  PROVE  (Told(m) => Told(m)') /\ (Placed(m) => Placed(m)')
<1>1. commits \in Seq(CommitType) /\ note \in [Memories -> Notes \cup {NoNote}]
      /\ r.mem \in Memories
  BY DEF Data, Committing, CommitType
<1>2. BroughtBack(m) => BroughtBack(m)'
  BY <1>1, BringsBack
<1>3. \/ note'[m] = note[m]
      \/ /\ note[m] # NoNote /\ note'[m] # NoNote
         /\ note'[m].place = note[m].place /\ note'[m].status = note[m].status
  BY <1>1, NoNoteAssumption DEF Committing, Edit
<1>4. rows'[m] = rows[m]
  BY DEF Committing
<1> QED
  BY <1>2, <1>3, <1>4 DEF Told, Placed

LEMMA UnlinkedKept ==
  ASSUME Grows, TxnInv, NEW i \in DOMAIN txns, txns'[i] = txns[i], Unlinked(i)
  PROVE  Unlinked(i)'
BY DEF Grows, TxnInv, Unlinked, Edit

(* A locked apply, as a commit and its row. *)
Recording(r, L) ==
  /\ Committing(r) /\ Grows
  /\ \A i \in DOMAIN txns : i \in DOMAIN txns' /\ txns'[i] = txns[i]
  /\ \A i \in DOMAIN txns' : i \in DOMAIN txns \/ txns'[i].commit = L
  /\ \E i \in DOMAIN txns' : txns'[i].commit = L
  /\ L \in DOMAIN commits' /\ commits'[L] = r

LEMMA AppliedCommits ==
  ASSUME Data, NEW h, NEW op \in Ops, NEW m \in Memories, NEW after \in Notes,
         Applied(h, op, m, after), UNCHANGED <<rows, held>>
  PROVE  \E r : /\ r.op = op /\ r.mem = m /\ r.after = after /\ r.before = note[m]
                /\ Recording(r, Len(commits) + 1)
<1> PICK L : L = Len(commits) + 1
  OBVIOUS
<1> DEFINE r == [op |-> op, mem |-> m, before |-> note[m], after |-> after]
           t == [commit |-> L, op |-> op, mem |-> NoMem, status |-> "applied"]
<1>1. commits' = Append(commits, r) /\ txns' = Append(txns, t) /\ note' = [note EXCEPT ![m] = after]
  BY DEF Applied
<1>2. r.op = op /\ r.mem = m /\ r.after = after /\ r.before = note[m] /\ t.commit = L
  OBVIOUS
<1>3. commits \in Seq(CommitType) /\ txns \in Seq(TxnType) /\ note[m] \in Notes \cup {NoNote}
  BY DEF Data
<1>4. r \in CommitType /\ t \in TxnType
  <2>1. L \in Nat
    BY <1>3
  <2> QED
    BY <1>3, <2>1 DEF CommitType, TxnType
<1> HIDE DEF r, t
<1>5. Committing(r)
  BY <1>1, <1>2, <1>4 DEF Committing
<1>6. /\ DOMAIN commits' = DOMAIN commits \cup {L}
      /\ \A i \in DOMAIN commits : commits'[i] = commits[i]
      /\ commits'[L] = r
  BY <1>1, <1>3, <1>4, Appended
<1>7. /\ DOMAIN Append(txns, t) = DOMAIN txns \cup {Len(txns) + 1}
      /\ \A i \in DOMAIN txns : i \in DOMAIN Append(txns, t) /\ Append(txns, t)[i] = txns[i]
      /\ Append(txns, t)[Len(txns) + 1] = t
  BY <1>3, <1>4, Appended
<1>8. /\ \A i \in DOMAIN txns : i \in DOMAIN txns' /\ txns'[i] = txns[i]
      /\ \A i \in DOMAIN txns' : i \in DOMAIN txns \/ txns'[i].commit = L
      /\ \E i \in DOMAIN txns' : txns'[i].commit = L
  BY <1>1, <1>2, <1>7
<1>9. Grows
  BY <1>6, <1>8 DEF Grows
<1>10. Recording(r, L)
  BY <1>5, <1>6, <1>8, <1>9 DEF Recording
<1> QED
  BY <1>2, <1>10

LEMMA CalmCreate ==
  ASSUME NEW h, CalmBefore(h), CreateNote(h)
  PROVE  CalmArrives(h)
<1> PICK j : j = job[h]
  OBVIOUS
<1>1. /\ j \in JobType /\ JobAt("create", j) /\ CalmAll("create", j) /\ Data /\ TxnInv
      /\ UNCHANGED <<rows, held>>
  BY CalmHere DEF CreateNote
<1>2. j.mem \in Memories /\ j.after \in Notes /\ Newborn(j.after) /\ j.how = "ok"
  BY <1>1 DEF JobAt, AtCreate, Newborn
<1>3. note[j.mem] = NoNote /\ rows[j.mem] = NoRow
  BY <1>1 DEF CalmAll, CalmAt
<1> PICK L : L = Len(commits) + 1
  OBVIOUS
<1> PICK k : k = [j EXCEPT !.commit = L]
  OBVIOUS
<1>4. Applied(h, "create", j.mem, j.after) /\ Begin(h, "insert", k)
  BY DEF CreateNote
<1>5. k.mem = j.mem /\ k.after = j.after /\ k.how = "ok" /\ k.commit = L
  BY <1>1, <1>2 DEF JobType
<1>6. PICK r : /\ r.op = "create" /\ r.mem = j.mem /\ r.after = j.after /\ r.before = NoNote
               /\ Recording(r, L)
  <2>1. "create" \in Ops
    BY DEF Ops
  <2>2. \E r : /\ r.op = "create" /\ r.mem = j.mem /\ r.after = j.after /\ r.before = note[j.mem]
               /\ Recording(r, Len(commits) + 1)
    BY <1>1, <1>2, <1>4, <2>1, AppliedCommits
  <2> QED
    BY <1>3, <2>2
<1>7. Lasting'
  <2>1. r.after.place # "Archive" /\ r.after # NoNote
    BY <1>2, <1>6, NoNoteAssumption DEF Newborn
  <2> QED
    BY <1>1, <1>2, <1>6, <2>1, CommitLasts DEF Recording, CalmAll
<1>8. \A m \in Memories : Told(m)' /\ Placed(m)'
  <2>1. Told(j.mem)' /\ Placed(j.mem)'
    BY <1>1, <1>3 DEF Told, Placed
  <2>2. \A m \in Memories : Told(m) /\ Placed(m)
    BY <1>1 DEF CalmAll, TellInv, PlaceInv, Behind
  <2> QED
    BY <1>1, <1>6, <2>1, <2>2, CommitTells DEF Recording
<1>9. LinkedInv("insert", k)'
  <2>1. \A i \in DOMAIN txns : Unlinked(i)
    BY <1>1 DEF CalmAll, LinkedInv, Linking
  <2> QED
    BY <1>1, <1>5, <1>6, <2>1, UnlinkedKept DEF Recording, LinkedInv, Linking
<1>10. CalmAt("insert", k)'
  <2>1. note'[j.mem] = j.after
    BY <1>1, <1>2, <1>6 DEF Recording, Committing, Data
  <2> QED
    BY <1>5, <2>1 DEF CalmAt
<1> QED
  BY <1>4, <1>7, <1>8, <1>9, <1>10 DEF CalmArrives, CalmAll, TellInv, PlaceInv

LEMMA CalmApplyPatch ==
  ASSUME NEW h, CalmBefore(h), ApplyPatch(h)
  PROVE  CalmArrives(h)
<1> PICK j : j = job[h]
  OBVIOUS
<1> PICK m : m = j.mem
  OBVIOUS
<1>1. /\ j \in JobType /\ JobAt("flip", j) /\ CalmAll("flip", j) /\ Data /\ TxnInv
      /\ UNCHANGED <<rows, held>> /\ Settled
  BY CalmHere, CalmSettled DEF ApplyPatch
<1>2. /\ m \in Memories /\ j.after \in Notes /\ j.expected \in Notes
      /\ j.after.place = j.expected.place
      /\ IF j.kind = "revise" THEN Edit(j.expected, j.after) ELSE j.after.status = Goal(j)
  BY <1>1 DEF JobAt, AtFlip, Changing
<1>3. CalmFlip(j)
  BY <1>1 DEF CalmAll, CalmAt
<1>4. CASE \E how : Ended(h, j, how) /\ UNCHANGED <<note, commits, txns>>
  BY <1>1, <1>4, NothingMoved, CalmEnded
<1>5. CASE /\ note[m] = j.expected /\ Applied(h, "revise", m, j.after)
           /\ IF j.kind = "revise" /\ j.apr # 0 THEN Ended(h, j, "ok")
              ELSE Begin(h, "link", [j EXCEPT !.commit = Len(commits) + 1, !.how = "flipped"])
  <2> PICK L : L = Len(commits) + 1
    OBVIOUS
  <2>1. PICK r : /\ r.op = "revise" /\ r.mem = m /\ r.after = j.after /\ r.before = j.expected
                 /\ Recording(r, L)
    <3>1. "revise" \in Ops
      BY DEF Ops
    <3>2. \E r : /\ r.op = "revise" /\ r.mem = m /\ r.after = j.after /\ r.before = note[m]
                 /\ Recording(r, Len(commits) + 1)
      BY <1>1, <1>2, <1>5, <3>1, AppliedCommits
    <3> QED
      BY <1>5, <3>2
  <2>2. r.before # NoNote /\ r.after # NoNote
    BY <1>2, <2>1, NoNoteAssumption
  <2>3. r.before.place = "Archive" /\ r.before.status # "forgotten" => BroughtBack(m)
    BY <1>1, <1>2, <1>5, <2>1, <2>2 DEF CalmAll, Lasting, ArchivedInv
  <2>4. Lasting'
    <3>1. r.after.place = "Archive" /\ r.after.status # "forgotten" => ComesBack(r)
      BY <1>2, <2>1, <2>2 DEF ComesBack
    <3> QED
      BY <1>1, <2>1, <2>2, <3>1, CommitLasts DEF Recording, CalmAll
  <2>5. note'[m] = j.after
    BY <1>1, <1>2, <2>1 DEF Recording, Committing, Data
  <2>6. \A i \in DOMAIN txns : Unlinked(i)'
    BY <1>1, <2>1, UnlinkedKept DEF Recording, Settled
  <2>7. \A n \in Memories : n # m => Told(n)'
    BY <1>1, <2>1, CommitTells DEF Recording, Settled
  <2>8. BroughtBack(m) => BroughtBack(m)'
    BY <1>1, <2>1, BringsBack DEF Recording, Data
  <2>9. \A n \in Memories : Placed(n)'
    <3>1. Placed(m)'
      BY <1>1, <1>2, <1>5, <2>1, <2>2, <2>5, <2>8 DEF Settled, Placed
    <3> QED
      BY <1>1, <2>1, <3>1, CommitTells DEF Recording, Settled
  <2>10. CASE j.kind = "revise"
    <3>1. Edit(r.before, r.after)
      BY <1>2, <2>1, <2>10
    <3>2. Told(m)'
      BY <1>1, <1>2, <2>1, <3>1, CommitTells DEF Recording, Settled
    <3>3. CASE j.apr # 0
      <4>1. \A i \in DOMAIN txns' : Unlinked(i)'
        BY <2>1, <2>6, <3>1 DEF Recording, Unlinked, Edit
      <4> QED
        BY <1>5, <2>4, <2>7, <2>9, <2>10, <3>2, <3>3, <4>1, CalmEnded DEF Settled
    <3>4. CASE j.apr = 0
      <4> PICK k : k = [j EXCEPT !.commit = L, !.how = "flipped"]
        OBVIOUS
      <4>1. Begin(h, "link", k) /\ k.commit = L /\ k.kind = "revise"
        BY <1>1, <1>5, <2>10, <3>4 DEF JobType
      <4>2. CalmAt("link", k)'
        BY <4>1 DEF CalmAt
      <4>3. LinkedInv("link", k)'
        BY <2>1, <2>6, <4>1 DEF Recording, LinkedInv, Linking
      <4> QED
        BY <2>4, <2>7, <2>9, <3>2, <4>1, <4>2, <4>3 DEF CalmArrives, CalmAll, TellInv, PlaceInv
    <3> QED
      BY <3>3, <3>4
  <2>11. CASE j.kind # "revise"
    <3> PICK k : k = [j EXCEPT !.commit = L, !.how = "flipped"]
      OBVIOUS
    <3>1. /\ Begin(h, "link", k) /\ k.commit = L /\ k.kind = j.kind /\ k.how = "flipped"
          /\ k.mem = m /\ k.after = j.after
      BY <1>1, <1>5, <2>11 DEF JobType
    <3>2. j.kind \in {"forget", "sweep"} /\ j.after.place = "Archive" => BroughtBack(m)'
      <4>1. j.kind \in {"forget", "sweep"} => j.after.status = "forgotten"
        BY <1>2, <2>11 DEF Goal
      <4> QED
        BY <1>2, <1>3, <2>1, <2>3, <2>8, <2>11, <4>1 DEF CalmFlip
    <3>3. Landing(k)'
      BY <1>1, <1>2, <1>3, <2>5, <2>11, <3>1, <3>2 DEF Landing, CalmFlip
    <3>4. CalmAt("link", k)'
      BY <3>3 DEF CalmAt
    <3>5. LinkedInv("link", k)'
      BY <2>1, <2>6, <3>1 DEF Recording, LinkedInv, Linking
    <3>6. TellInv("link", k)'
      BY <2>7, <2>11, <3>1 DEF TellInv, Behind
    <3> QED
      BY <2>4, <2>9, <3>1, <3>4, <3>5, <3>6 DEF CalmArrives, CalmAll, PlaceInv
  <2> QED
    BY <2>10, <2>11
<1> QED
  BY <1>4, <1>5 DEF ApplyPatch

LEMMA CalmArchive ==
  ASSUME NEW h, CalmBefore(h), ArchiveNote(h)
  PROVE  CalmArrives(h)
<1> PICK j : j = job[h]
  OBVIOUS
<1> PICK m : m = j.mem
  OBVIOUS
<1>1. /\ j \in JobType /\ JobAt("archive", j) /\ CalmAll("archive", j) /\ Data /\ TxnInv
      /\ UNCHANGED <<rows, held>>
  BY CalmHere DEF ArchiveNote
<1>2. /\ m \in Memories /\ j.kind \in {"forget", "sweep"} /\ j.after \in NotesHad(m)
      /\ j.after.status = "forgotten" /\ Landing(j)
  BY <1>1 DEF JobAt, AtArchive, Done, Goal, CalmAll, CalmAt
<1>3. j.after \in Notes /\ note[m] = j.after
  BY <1>1, <1>2 DEF JobType, NotesHad, Landing
<1>4. CASE Ended(h, j, "error") /\ UNCHANGED <<note, commits, txns>> /\ ~(j.after.place = "Memory")
  <2>1. j.after.place = "Archive" /\ BroughtBack(m)
    BY <1>2, <1>3, <1>4 DEF Notes, Places, Landing
  <2>2. Told(m)
    BY <1>2, <1>3, <2>1, NoNoteAssumption DEF Told
  <2>3. Settled
    BY <1>1, <2>2 DEF CalmAll, Settled, LinkedInv, Linking, TellInv, Behind, PlaceInv
  <2> QED
    BY <1>1, <1>4, <2>3, NothingMoved, CalmEnded
<1>5. CASE /\ j.after.place = "Memory"
           /\ Applied(h, "forget", m, [note[m] EXCEPT !.place = "Archive"])
           /\ Begin(h, "mirror", [j EXCEPT !.commit = Len(commits) + 1, !.how = "archived"])
  <2> PICK L : L = Len(commits) + 1
    OBVIOUS
  <2> PICK a : a = [note[m] EXCEPT !.place = "Archive"]
    OBVIOUS
  <2> PICK k : k = [j EXCEPT !.commit = L, !.how = "archived"]
    OBVIOUS
  <2>1. a \in Notes /\ a.place = "Archive" /\ a.status = "forgotten"
    BY <1>2, <1>3, <1>5 DEF Notes, Places
  <2>2. Begin(h, "mirror", k) /\ k.commit = L /\ k.how = "archived" /\ k.mem = m
    BY <1>1, <1>5 DEF JobType
  <2>3. PICK r : /\ r.op = "forget" /\ r.mem = m /\ r.after = a /\ r.before = j.after
                 /\ Recording(r, L)
    <3>1. "forget" \in Ops /\ Applied(h, "forget", m, a)
      BY <1>5 DEF Ops
    <3>2. \E r : /\ r.op = "forget" /\ r.mem = m /\ r.after = a /\ r.before = note[m]
                 /\ Recording(r, Len(commits) + 1)
      BY <1>1, <1>2, <2>1, <3>1, AppliedCommits
    <3> QED
      BY <1>3, <3>2
  <2>4. Lasting'
    BY <1>1, <1>3, <2>1, <2>3, NoNoteAssumption, CommitLasts DEF Recording, CalmAll
  <2>5. note'[m] = a
    BY <1>1, <1>2, <2>3 DEF Recording, Committing, Data
  <2>6. CalmAt("mirror", k)'
    <3>1. note'[k.mem] = a /\ a # NoNote /\ k.how = "archived"
      BY <2>1, <2>2, <2>5, NoNoteAssumption
    <3> QED
      BY <2>1, <3>1 DEF CalmAt
  <2>7. LinkedInv("mirror", k)'
    <3>1. \A i \in DOMAIN txns : Unlinked(i)
      BY <1>1 DEF CalmAll, LinkedInv, Linking
    <3>2. \A i \in DOMAIN txns : Unlinked(i)'
      BY <1>1, <2>3, <3>1, UnlinkedKept DEF Recording
    <3> QED
      BY <2>2, <2>3, <3>2 DEF Recording, LinkedInv, Linking
  <2>8. \A n \in Memories : n # m => Told(n)' /\ Placed(n)'
    <3>1. \A n \in Memories : n # m => Told(n) /\ Placed(n)
      BY <1>1 DEF CalmAll, TellInv, PlaceInv, Behind
    <3> QED
      BY <1>1, <2>3, <3>1, CommitTells DEF Recording
  <2>9. TellInv("mirror", k)' /\ PlaceInv("mirror", k)'
    BY <2>2, <2>8 DEF TellInv, PlaceInv, Behind
  <2> QED
    BY <2>2, <2>4, <2>6, <2>7, <2>9 DEF CalmArrives, CalmAll
<1>6. j.after.place = "Memory" => IsAt(m, "Memory")
  BY <1>3, NoNoteAssumption DEF IsAt
<1> QED
  BY <1>4, <1>5, <1>6 DEF ArchiveNote

(* What a revert makes of the note, given the commit it reverts. *)
LEMMA RevertKeeps ==
  ASSUME Data, Lasting, NEW d \in DOMAIN commits, NEW r, Committing(r), r.mem = commits[d].mem,
         NEW base, NEW theirs, base = commits[d].after, theirs = commits[d].before,
         \/ Whole(base, theirs, r.before, r.after)
         \/ Fieldwise(base, theirs, r.before, r.after)
  PROVE  /\ r.before = NoNote => Newborn(r.after)
         /\ r.after = NoNote => Newborn(r.before)
         /\ r.after # NoNote /\ r.after.place = "Archive" /\ r.after.status # "forgotten"
              => ComesBack(r) \/ BroughtBack(r.mem)
         /\ Placed(r.mem) => Placed(r.mem)'
         /\ Edit(theirs, base) => Edit(r.before, r.after)
<1> PICK ours, after, m : ours = r.before /\ after = r.after /\ m = r.mem
  OBVIOUS
<1>1. m \in Memories /\ commits \in Seq(CommitType) /\ rows' = rows
      /\ note[m] = ours /\ note'[m] = after
  BY DEF Committing, CommitType, Data
<1>2. /\ theirs = NoNote => Newborn(base)
      /\ base = NoNote => Newborn(theirs)
  BY DEF Lasting, BirthInv
<1>3. BroughtBack(m)' <=> BroughtBack(m) \/ ComesBack(r)
  BY <1>1, BringsBack
<1>4. CASE Whole(base, theirs, ours, after)
  <2>1. ours = base /\ after = theirs /\ (theirs = NoNote \/ base = NoNote)
    BY <1>4 DEF Whole
  <2>2. /\ ours = NoNote => Newborn(after)
        /\ after = NoNote => Newborn(ours)
    BY <1>2, <2>1
  <2>3. after # NoNote => after.place = "Memory" /\ ours = NoNote
    BY <1>2, <2>1 DEF Newborn
  <2>4. Placed(m) => Placed(m)'
    <3> SUFFICES ASSUME Placed(m), rows[m] # NoRow, ~BroughtBack(m)'
                 PROVE  rows[m].place = IF after = NoNote THEN "Memory" ELSE after.place
      BY <1>1 DEF Placed
    <3>1. rows[m].place = IF ours = NoNote THEN "Memory" ELSE ours.place
      BY <1>1, <1>3 DEF Placed
    <3> QED
      BY <2>2, <2>3, <3>1, NoNoteAssumption DEF Newborn
  <2>5. ~Edit(theirs, base)
    BY <2>1, NoNoteAssumption DEF Edit
  <2> QED
    BY <2>2, <2>3, <2>4, <2>5
<1>5. CASE Fieldwise(base, theirs, ours, after)
  <2>1. /\ base \in Notes /\ theirs \in Notes /\ ours \in Notes /\ after \in Notes
        /\ NoNote \notin {base, theirs, ours, after}
    BY <1>5, NoNoteAssumption DEF Fieldwise
  <2>2. ours.place = "Memory" /\ after.place = "Archive" => BroughtBack(m)
    <3>1. ours.place = "Memory" /\ after.place = "Archive"
            => theirs.place = "Archive" /\ base.place = "Memory"
      BY <1>5 DEF Fieldwise
    <3>2. theirs.place = "Archive" /\ base.place = "Memory" => BroughtBack(m)
      BY <2>1 DEF BroughtBack
    <3> QED
      BY <3>1, <3>2
  <2>3. ours.place = "Archive" /\ (after.place = "Memory" \/ after.status # "forgotten") => ComesBack(r)
    BY <2>1 DEF ComesBack
  <2>4. ours.place \in Places /\ after.place \in Places
    BY <2>1 DEF Notes
  <2>5. after.place = "Archive" /\ after.status # "forgotten" => ComesBack(r) \/ BroughtBack(m)
    BY <2>2, <2>3, <2>4 DEF Places
  <2>6. Placed(m) => Placed(m)'
    <3> SUFFICES ASSUME Placed(m), rows[m] # NoRow, ~BroughtBack(m)'
                 PROVE  rows[m].place = after.place
      BY <1>1, <2>1 DEF Placed
    <3>1. rows[m].place = ours.place
      BY <1>1, <1>3, <2>1 DEF Placed
    <3> QED
      BY <1>3, <2>2, <2>3, <2>4, <3>1 DEF Places
  <2>7. Edit(theirs, base) => Edit(ours, after)
    BY <1>5 DEF Edit, Fieldwise
  <2> QED
    BY <2>1, <2>5, <2>6, <2>7
<1> QED
  BY <1>4, <1>5

(* A commit of the history is a commit.                                    *)
LEMMA CommitTyped ==
  ASSUME NEW s \in Seq(CommitType), NEW i \in DOMAIN s
  PROVE  s[i] \in CommitType
  OBVIOUS

LEMMA CalmUndoRevert ==
  ASSUME NEW h, CalmBefore(h), UndoRevert(h)
  PROVE  CalmArrives(h)
<1> PICK j : j = job[h]
  OBVIOUS
<1> PICK i : i = Head(j.queue)
  OBVIOUS
<1> PICK d : d = txns[i].commit
  OBVIOUS
<1> PICK m : m = commits[d].mem
  OBVIOUS
<1>1. /\ j \in JobType /\ JobAt("undo", j) /\ CalmAll("undo", j) /\ Data /\ TxnInv
      /\ UNCHANGED <<rows, txns, held>> /\ Settled
  BY CalmHere, CalmSettled, Zenon DEF UndoRevert
<1>2. CASE Begin(h, "idle", Idle) /\ UNCHANGED <<note, commits>>
  BY <1>1, <1>2, NothingMoved, AtRest
<1>3. ASSUME j.queue # <<>>, NEW after \in RevertResults(d, note[m]),
             commits' = Append(commits, [op |-> "revert", mem |-> m, before |-> note[m],
                                         after |-> after]),
             note' = [note EXCEPT ![m] = after],
             Begin(h, "compensate", [j EXCEPT !.commit = Len(commits) + 1])
      PROVE  CalmArrives(h)
  <2> PICK L : L = Len(commits) + 1
    OBVIOUS
  <2> PICK k : k = [j EXCEPT !.commit = L]
    OBVIOUS
  <2> PICK ours, base, theirs :
        ours = note[m] /\ base = commits[d].after /\ theirs = commits[d].before
    BY Zenon
  <2> PICK r : r = [op |-> "revert", mem |-> m, before |-> ours, after |-> after]
    BY Zenon
  <2>1. i \in DOMAIN txns /\ d \in DOMAIN commits
    BY <1>1, <1>3, QueueHead, Zenon DEF JobAt, Data
  <2>2. commits[d] \in CommitType /\ commits \in Seq(CommitType)
    <3>1. commits \in Seq(CommitType)
      BY <1>1, Zenon DEF Data
    <3> QED
      BY <2>1, <3>1, CommitTyped
  <2>3. m \in Memories /\ ours \in Notes \cup {NoNote}
    BY <1>1, <2>2, Zenon DEF CommitType, Data
  <2>4. Whole(base, theirs, ours, after) \/ Fieldwise(base, theirs, ours, after)
    BY <1>3, <2>1, <2>2, <2>3, Reverted, Zenon
  <2>5. r.op = "revert" /\ r.mem = m /\ r.before = ours /\ r.after = after
    BY Zenon
  <2>6. r \in CommitType
    <3>1. after \in Notes \cup {NoNote}
      BY <2>2, <2>4, Zenon DEF Whole, Fieldwise, CommitType
    <3> QED
      BY <2>3, <3>1, Zenon DEF CommitType, Ops
  <2>7. Committing(r)
    BY <1>1, <1>3, <2>5, <2>6, Zenon DEF Committing
  <2>8. /\ \A e \in DOMAIN commits : e \in DOMAIN commits' /\ commits'[e] = commits[e]
        /\ commits'[L] = r
    BY <2>2, <2>7, CommitAdded, Zenon
  <2>9. Grows
    BY <1>1, <2>8, Zenon DEF Grows
  <2>10. /\ r.before = NoNote => Newborn(r.after)
         /\ r.after = NoNote => Newborn(r.before)
         /\ r.after # NoNote /\ r.after.place = "Archive" /\ r.after.status # "forgotten"
              => ComesBack(r) \/ BroughtBack(r.mem)
         /\ Placed(m) => Placed(m)'
         /\ Edit(theirs, base) => Edit(ours, after)
    BY <1>1, <2>1, <2>4, <2>5, <2>7, RevertKeeps, Zenon DEF CalmAll
  <2>11. Lasting'
    BY <1>1, <2>5, <2>7, <2>9, <2>10, CommitLasts, Zenon DEF CalmAll
  <2>12. Begin(h, "compensate", k) /\ k.commit = L /\ k.queue = j.queue /\ k.kind = "undo"
    BY <1>1, <1>3, Zenon DEF JobType, CalmAll, CalmAt
  <2>13. LinkedInv("compensate", k)'
    BY <1>1, <2>9, UnlinkedKept, Zenon DEF Settled, LinkedInv
  <2>14. PlaceInv("compensate", k)'
    BY <1>1, <2>5, <2>7, <2>10, CommitTells, Zenon DEF Settled, PlaceInv
  <2>15. TellInv("compensate", k)'
    <3>1. CASE txns[i].mem = m
      BY <1>1, <2>5, <2>7, <2>12, <3>1, CommitTells, Zenon DEF Settled, TellInv, Behind
    <3>2. CASE txns[i].mem # m
      <4>1. Edit(theirs, base)
        BY <1>1, <2>1, <3>2, Zenon DEF Settled, Unlinked, TxnInv
      <4> QED
        BY <1>1, <2>5, <2>7, <2>10, <4>1, CommitTells, Zenon DEF Settled, TellInv
    <3> QED
      BY <3>1, <3>2, Zenon
  <2>16. CalmCompensate(k)'
    <3>1. note'[m] = after
      BY <1>1, <1>3, <2>3, Zenon DEF Data
    <3>2. commits'[k.commit] = r /\ commits'[txns'[Head(k.queue)].commit] = commits[d]
      BY <1>1, <2>1, <2>8, <2>12
    <3>3. commits[d].after = base /\ commits[d].before = theirs
      BY Zenon
    <3> QED
      BY <2>4, <2>5, <3>1, <3>2, <3>3, Zenon DEF CalmCompensate
  <2>17. CalmAt("compensate", k)'
    BY <2>12, <2>16, Zenon DEF CalmAt
  <2> QED
    BY <2>11, <2>12, <2>13, <2>14, <2>15, <2>17, Zenon DEF CalmArrives, CalmAll
<1> QED
  BY <1>2, <1>3, Zenon DEF UndoRevert

-----------------------------------------------------------------------------
(* The whole of a calm world. *)
LEMMA CalmStep ==
  ASSUME NEW h, CalmBefore(h), Step(h)
  PROVE  CalmArrives(h)
BY CalmCreate, CalmInsert, CalmLink, CalmApplyPatch, CalmArchive, CalmMirror, CalmResolve,
   CalmSweepNext, CalmUndoRevert, CalmCompensateStep, CalmParse, CalmUpsert, CalmReplay
   DEF Step

LEMMA CalmStutter ==
  ASSUME UNCHANGED vars, NEW s, NEW j, CalmAll(s, j)
  PROVE  CalmAll(s, j)'
<1>1. /\ Lasting'
      /\ \A m : BroughtBack(m)' = BroughtBack(m) /\ (Told(m) => Told(m)') /\ (Placed(m) => Placed(m)')
  BY NothingMoved DEF vars, CalmAll
<1>2. UNCHANGED <<note, commits, rows, txns>>
  BY DEF vars
<1>3. LinkedInv(s, j)'
  BY <1>2 DEF CalmAll, LinkedInv, Unlinked, Edit
<1>4. TellInv(s, j)' /\ PlaceInv(s, j)'
  BY <1>1, <1>2 DEF CalmAll, TellInv, Behind, PlaceInv
<1>5. Landing(j) => Landing(j)'
  BY <1>1, <1>2 DEF Landing
<1>6. CalmFlip(j) => CalmFlip(j)'
  BY <1>1, <1>2 DEF CalmFlip, From
<1>7. CalmCompensate(j) => CalmCompensate(j)'
  BY <1>2, Zenon DEF CalmCompensate
<1>8. CalmAt(s, j)'
  BY <1>2, <1>5, <1>6, <1>7 DEF CalmAll, CalmAt
<1> QED
  BY <1>1, <1>3, <1>4, <1>8 DEF CalmAll

LEMMA CalmInit ==
  ASSUME Init
  PROVE  CalmInv
<1>1. /\ note = [m \in Memories |-> NoNote] /\ commits = <<>> /\ txns = <<>>
      /\ rows = [m \in Memories |-> NoRow] /\ pc = [h \in Hosts |-> "idle"] /\ left \in Worlds
  BY DEF Init
<1>2. left.calm => \E h \in Hosts : Alone(h)
  BY <1>1, WorldsAssumption DEF Alone
<1>3. Settled
  BY <1>1 DEF Settled, Lasting, BirthInv, ArchivedInv, RecordedInv, Told, Placed
<1>4. \A h \in Hosts : CalmAll(pc[h], job[h])
  BY <1>1, <1>3 DEF CalmAll, Settled, LinkedInv, TellInv, PlaceInv, CalmAt
<1> QED
  BY <1>2, <1>4 DEF CalmInv

(* Only the one host takes steps. *)
LEMMA CalmActor ==
  ASSUME IInv, left.calm, NEW h \in Hosts, Alone(h), CalmAll(pc[h], job[h]), [Next]_vars
  PROVE  \/ CalmBefore(h) /\ (Request(h) \/ Step(h))
         \/ UNCHANGED vars
<1>1. Before(h) /\ CalmBefore(h)
  BY DEF Before, CalmBefore, Alone
<1>2. \A g \in left.hosts : g = h
  BY DEF Alone
<1>3. ~Crash(h) /\ ~LoseJournal
  BY DEF Crash, LoseJournal, Alone
<1> QED
  BY <1>1, <1>2, <1>3 DEF Next

LEMMA CalmWorld ==
  ASSUME IInv, [Next]_vars
  PROVE  left'.calm = left.calm
<1>1. ASSUME NEW h, Before(h), Request(h) \/ Step(h) \/ Crash(h) PROVE left'.calm = left.calm
  BY <1>1, RequestStep, HostStep, CrashStep DEF Stepped, SameWorld
<1>2. LoseJournal => left'.calm = left.calm
  BY Given DEF LoseJournal, LeftType
<1>3. \A h \in left.hosts : Before(h)
  BY Given DEF Before, LeftType
<1> QED
  BY <1>1, <1>2, <1>3 DEF Next, vars

LEMMA CalmKeeps == IInv /\ CalmInv /\ [Next]_vars => CalmInv'
<1> SUFFICES ASSUME IInv, CalmInv, [Next]_vars, left'.calm PROVE CalmInv'
  BY DEF CalmInv
<1>1. left.calm
  BY CalmWorld
<1>2. PICK h \in Hosts : Alone(h) /\ CalmAll(pc[h], job[h])
  BY <1>1 DEF CalmInv
<1>3. CASE UNCHANGED vars
  <2>1. pc'[h] = pc[h] /\ job'[h] = job[h] /\ Alone(h)'
    BY <1>2, <1>3 DEF vars, Alone
  <2>2. CalmAll(pc[h], job[h])'
    BY <1>2, <1>3, <2>1, CalmStutter
  <2> QED
    BY <2>1, <2>2 DEF CalmInv
<1>4. CASE CalmBefore(h) /\ (Request(h) \/ Step(h))
  <2>1. CalmArrives(h) /\ SameWorld
    BY <1>4, CalmRequest, CalmStep, RequestStep, HostStep DEF CalmBefore, Stepped
  <2>2. PICK s, j : Begin(h, s, j) /\ CalmAll(s, j)'
    BY <2>1 DEF CalmArrives
  <2>3. pc'[h] = s /\ job'[h] = j
    BY <2>2, Given DEF Begin, TypeOK
  <2>4. CalmAll(pc[h], job[h])'
    BY <2>2, <2>3
  <2>5. Alone(h)'
    BY <1>2, <2>1, Given DEF Alone, SameWorld, LeftType
  <2> QED
    BY <2>4, <2>5 DEF CalmInv
<1> QED
  BY <1>1, <1>2, <1>3, <1>4, CalmActor

THEOREM CalmInductive == Spec => [](IInv /\ CalmInv)
BY InitHolds, CalmInit, NextKeeps, CalmKeeps, PTL DEF Spec

(* In a calm world whatever was done to a memory, by requests, approvals,  *)
(* sweeps, undos and reindexes, its row says what its note says once        *)
(* nothing is under way; in any world a row is never ahead of the note.     *)
THEOREM RowsMirror == Spec => []RowMirrorsNote
<1>1. IInv /\ CalmInv => RowMirrorsNote
  <2> SUFFICES ASSUME IInv, CalmInv, left.calm, AllIdle,
                      NEW m \in Memories, rows[m] # NoRow, ~BroughtBack(m)
               PROVE  RowTellsNote(m)
    BY DEF IInv, RowMirrorsNote
  <2>1. Told(m) /\ Placed(m)
    BY CalmSettled DEF CalmInv, AllIdle, Settled
  <2>2. rows[m] \in MemoryRows
    BY Given DEF Data
  <2>3. rows[m] = [place |-> rows[m].place, status |-> rows[m].status]
    BY <2>2 DEF MemoryRows
  <2> QED
    BY <2>1, <2>3 DEF Told, Placed, RowTellsNote
<1> QED
  BY <1>1, CalmInductive, PTL

-----------------------------------------------------------------------------
(* What may change a note in a calm world: r is the commit, j the locals of *)
(* the host that makes it.                                                 *)
Birth(r) ==
  /\ r.before = NoNote /\ Newborn(r.after)
  /\ \A i \in DOMAIN commits : commits[i].mem # r.mem
Flip(r, j) ==
  /\ From(j) /\ Changing(j) /\ r.mem = j.mem /\ r.before = j.expected
  /\ r.before \in Notes /\ r.after \in Notes
  /\ IF j.kind = "revise" THEN Edit(r.before, r.after)
     ELSE r.after.status = Goal(j) /\ r.after.status # r.before.status
Burial(r) ==
  /\ r.before \in Notes /\ r.after \in Notes
  /\ r.before.place = "Memory" /\ r.before.status = "forgotten" /\ r.after.status = "forgotten"
Undoing(r, j) ==
  /\ j.kind = "undo"
  /\ \E d \in DOMAIN commits :
       /\ r.mem = commits[d].mem
       /\ \/ Whole(commits[d].after, commits[d].before, r.before, r.after)
          \/ Fieldwise(commits[d].after, commits[d].before, r.before, r.after)
Cause(r, j) == Birth(r) \/ Flip(r, j) \/ Burial(r) \/ Undoing(r, j)

CalmChange(h) ==
  \/ UNCHANGED <<note, commits>>
  \/ /\ pc'[h] # pc[h] /\ left' = left
     /\ \E r : Committing(r) /\ Cause(r, job[h])

LEMMA ChangeByCreate ==
  ASSUME NEW h, CalmBefore(h), CreateNote(h)
  PROVE  CalmChange(h)
<1> PICK j : j = job[h]
  OBVIOUS
<1>1. /\ JobAt("create", j) /\ CalmAll("create", j) /\ Data /\ TypeOK
      /\ UNCHANGED <<rows, held, left>> /\ pc[h] = "create"
      /\ Applied(h, "create", j.mem, j.after) /\ pc' = [pc EXCEPT ![h] = "insert"]
  BY CalmHere DEF CreateNote, Begin
<1>2. /\ j.mem \in Memories /\ Newborn(j.after) /\ j.after \in Notes /\ "create" \in Ops
      /\ note[j.mem] = NoNote /\ \A i \in DOMAIN commits : commits[i].mem # j.mem
  BY <1>1 DEF JobAt, AtCreate, Newborn, Ops, CalmAll, CalmAt
<1>3. PICK r : /\ r.op = "create" /\ r.mem = j.mem /\ r.after = j.after /\ r.before = note[j.mem]
               /\ Recording(r, Len(commits) + 1)
  BY <1>1, <1>2, AppliedCommits
<1>4. Committing(r) /\ Cause(r, j)
  BY <1>2, <1>3 DEF Recording, Cause, Birth
<1>5. pc'[h] = "insert"
  BY <1>1 DEF TypeOK, CalmBefore, Before
<1> QED
  BY <1>1, <1>4, <1>5 DEF CalmChange

LEMMA ChangeByFlip ==
  ASSUME NEW h, CalmBefore(h), ApplyPatch(h)
  PROVE  CalmChange(h)
<1> PICK j : j = job[h]
  OBVIOUS
<1>1. /\ JobAt("flip", j) /\ CalmAll("flip", j) /\ Data /\ TypeOK
      /\ UNCHANGED <<rows, held, left>> /\ pc[h] = "flip"
  BY CalmHere DEF ApplyPatch
<1>2. /\ j.mem \in Memories /\ j.after \in Notes /\ j.expected \in Notes /\ Changing(j)
      /\ IF j.kind = "revise" THEN Edit(j.expected, j.after)
         ELSE j.after.status = Goal(j) /\ j.after.status # j.expected.status
      /\ "revise" \in Ops /\ From(j)
  BY <1>1 DEF JobAt, AtFlip, Changing, Ops, CalmAll, CalmAt, CalmFlip
<1>3. CASE UNCHANGED <<note, commits>>
  BY <1>3 DEF CalmChange
<1>4. CASE /\ note[j.mem] = j.expected /\ Applied(h, "revise", j.mem, j.after)
           /\ \E s, k : s \in {"resolve", "sweep", "idle", "link"} /\ Begin(h, s, k)
  <2>1. PICK r : /\ r.op = "revise" /\ r.mem = j.mem /\ r.after = j.after /\ r.before = note[j.mem]
                 /\ Recording(r, Len(commits) + 1)
    BY <1>1, <1>2, <1>4, AppliedCommits
  <2>2. Committing(r) /\ Cause(r, j)
    BY <1>2, <1>4, <2>1 DEF Recording, Cause, Flip
  <2>3. pc'[h] # "flip"
    BY <1>1, <1>4 DEF Begin, TypeOK, CalmBefore, Before
  <2> QED
    BY <1>1, <2>2, <2>3 DEF CalmChange
<1> QED
  BY <1>3, <1>4 DEF ApplyPatch, Ended

LEMMA ChangeByArchive ==
  ASSUME NEW h, CalmBefore(h), ArchiveNote(h)
  PROVE  CalmChange(h)
<1> PICK j : j = job[h]
  OBVIOUS
<1>1. /\ j \in JobType /\ JobAt("archive", j) /\ CalmAll("archive", j) /\ Data /\ TypeOK
      /\ UNCHANGED <<rows, held>> /\ left' = left /\ pc[h] = "archive"
  BY CalmHere DEF ArchiveNote
<1> PICK m : m = j.mem
  OBVIOUS
<1> PICK n : n = note[m]
  OBVIOUS
<1>2. /\ m \in Memories /\ n \in Notes /\ n.status = "forgotten" /\ n = j.after
      /\ "forget" \in Ops
  <2>1. /\ j.mem \in Memories /\ j.kind \in {"forget", "sweep"} /\ j.after \in NotesHad(j.mem)
        /\ j.after.status = "forgotten" /\ Landing(j)
    BY <1>1 DEF JobAt, AtArchive, Done, Goal, CalmAll, CalmAt
  <2> QED
    BY <1>1, <2>1 DEF JobType, NotesHad, Landing, Ops
<1>3. CASE UNCHANGED <<note, commits>>
  BY <1>3 DEF CalmChange
<1>4. CASE /\ j.after.place = "Memory"
           /\ Applied(h, "forget", m, [n EXCEPT !.place = "Archive"])
           /\ pc' = [pc EXCEPT ![h] = "mirror"]
  <2> PICK a : a = [n EXCEPT !.place = "Archive"]
    OBVIOUS
  <2>1. a \in Notes /\ a.status = "forgotten" /\ Applied(h, "forget", m, a)
    BY <1>2, <1>4 DEF Notes, Places
  <2>2. PICK r : /\ r.op = "forget" /\ r.mem = m /\ r.after = a /\ r.before = note[m]
                 /\ Recording(r, Len(commits) + 1)
    <3>1. /\ Data /\ "forget" \in Ops /\ m \in Memories /\ a \in Notes
          /\ Applied(h, "forget", m, a) /\ UNCHANGED <<rows, held>>
      BY <1>1, <1>2, <2>1
    <3> QED
      BY <3>1, AppliedCommits
  <2>3. Committing(r) /\ Cause(r, j)
    BY <1>2, <1>4, <2>1, <2>2, ZenonT(30) DEF Recording, Cause, Burial
  <2>4. pc'[h] = "mirror"
    BY <1>1, <1>4 DEF TypeOK, CalmBefore, Before
  <2> QED
    BY <1>1, <2>3, <2>4 DEF CalmChange
<1> QED
  BY <1>3, <1>4 DEF ArchiveNote, Begin

LEMMA ChangeByUndo ==
  ASSUME NEW h, CalmBefore(h), UndoRevert(h)
  PROVE  CalmChange(h)
<1> PICK j : j = job[h]
  OBVIOUS
<1> PICK d : d = txns[Head(j.queue)].commit
  OBVIOUS
<1> PICK m : m = commits[d].mem
  OBVIOUS
<1>1. /\ j \in JobType /\ JobAt("undo", j) /\ CalmAll("undo", j) /\ Data /\ TypeOK /\ TxnInv
      /\ UNCHANGED <<rows, left>> /\ pc[h] = "undo" /\ j.kind = "undo"
  BY CalmHere, Zenon DEF UndoRevert, CalmAll, CalmAt
<1>2. CASE UNCHANGED <<note, commits>>
  BY <1>2 DEF CalmChange
<1>3. ASSUME j.queue # <<>>, NEW after \in RevertResults(d, note[m]),
             commits' = Append(commits, [op |-> "revert", mem |-> m, before |-> note[m],
                                         after |-> after]),
             note' = [note EXCEPT ![m] = after],
             pc' = [pc EXCEPT ![h] = "compensate"]
      PROVE  CalmChange(h)
  <2> PICK ours : ours = note[m]
    BY Zenon
  <2> PICK r : r = [op |-> "revert", mem |-> m, before |-> ours, after |-> after]
    BY Zenon
  <2>1. d \in DOMAIN commits
    BY <1>1, <1>3, QueueHead, Zenon DEF JobAt, Data
  <2>2. commits[d] \in CommitType
    <3>1. commits \in Seq(CommitType)
      BY <1>1, Zenon DEF Data
    <3> QED
      BY <2>1, <3>1, CommitTyped
  <2>3. m \in Memories /\ ours \in Notes \cup {NoNote}
    BY <1>1, <2>2, Zenon DEF CommitType, Data
  <2>4. \/ Whole(commits[d].after, commits[d].before, ours, after)
        \/ Fieldwise(commits[d].after, commits[d].before, ours, after)
    BY <1>3, <2>1, <2>2, <2>3, Reverted, Zenon
  <2>5. r.op = "revert" /\ r.mem = m /\ r.before = ours /\ r.after = after
    OBVIOUS
  <2>6. r \in CommitType
    <3>1. after \in Notes \cup {NoNote}
      BY <2>2, <2>4, Zenon DEF Whole, Fieldwise, CommitType
    <3> QED
      BY <2>3, <3>1, Zenon DEF CommitType, Ops
  <2>7. Committing(r)
    BY <1>1, <1>3, <2>5, <2>6, Zenon DEF Committing
  <2>8. Cause(r, j)
    BY <1>1, <2>1, <2>4, <2>5, Zenon DEF Cause, Undoing
  <2>9. pc'[h] = "compensate"
    BY <1>1, <1>3, Zenon DEF TypeOK, CalmBefore, Before
  <2> QED
    BY <1>1, <2>7, <2>8, <2>9, Zenon DEF CalmChange
<1> QED
  BY <1>2, <1>3, Zenon DEF UndoRevert, Begin

LEMMA Changers ==
  ASSUME NEW h, CalmBefore(h), Request(h) \/ Step(h)
  PROVE  CalmChange(h)
<1>1. CASE Request(h)
  <2>1. UNCHANGED <<note, commits>>
    BY <1>1, Zenon DEF Request, Remember, Revise, Promote, Forget, Retire, Approve, Reject, SweepList,
                UndoStart, StartReindex
  <2> QED
    BY <2>1 DEF CalmChange
<1>2. CASE \/ InsertRow(h) \/ LinkTransaction(h) \/ MirrorRow(h) \/ ResolveApproval(h)
           \/ SweepNext(h) \/ CompensateJournal(h)
           \/ ParseNote(h) \/ UpsertMemory(h) \/ ReplayCommits(h)
  <2>1. UNCHANGED <<note, commits>>
    BY <1>2, Zenon DEF InsertRow, LinkTransaction, MirrorRow, ResolveApproval, SweepNext,
                CompensateJournal, ParseNote, UpsertMemory, ReplayCommits
  <2> QED
    BY <2>1 DEF CalmChange
<1> QED
  BY <1>1, <1>2, ChangeByCreate, ChangeByFlip, ChangeByArchive, ChangeByUndo DEF Step

(* In a calm world a canonical note changes only in a request that serves   *)
(* an approval, or in an undo: what revise, forget, retire and the sweep    *)
(* read of the row before they begin is still true of the note when the     *)
(* broker has the lock.                                                     *)
THEOREM GateKept == Spec => CanonicalGate
<1>1. IInv /\ CalmInv /\ [Next]_vars => [left.calm => GatedStep]_vars
  <2> SUFFICES ASSUME IInv, CalmInv, [Next]_vars, left.calm, NEW m \in Memories, CanonicalStep(m)
               PROVE  \E h \in Hosts : pc'[h] # pc[h] /\ (job[h].apr # 0 \/ job[h].kind = "undo")
    BY DEF GatedStep
  <2>1. PICK h \in Hosts : Alone(h) /\ CalmAll(pc[h], job[h])
    BY DEF CalmInv
  <2>2. note'[m] # note[m] /\ note[m] # NoNote /\ note[m].status = "canonical"
    BY DEF CanonicalStep, Changes
  <2>3. CalmChange(h)
    BY <2>1, <2>2, CalmActor, Changers DEF vars
  <2>4. PICK r : Committing(r) /\ Cause(r, job[h]) /\ pc'[h] # pc[h]
    BY <2>2, <2>3 DEF CalmChange
  <2>5. r.mem = m /\ r.before = note[m]
    BY <2>2, <2>4, Given DEF Committing, Data
  <2>6. job[h].apr # 0 \/ job[h].kind = "undo"
    BY <2>2, <2>4, <2>5 DEF Cause, Birth, Flip, From, Burial, Undoing
  <2> QED
    BY <2>4, <2>6
<1> QED
  BY <1>1, CalmInductive, PTL DEF Spec, CanonicalGate

-----------------------------------------------------------------------------
(* The store implements MemoryLife. *)
Says(n) == IF n = NoNote THEN "none" ELSE n.status
Said(m) ==
  {Says(commits[i].after) : i \in {k \in DOMAIN commits : commits[k].mem = m}}
  \cup {Says(commits[i].before) : i \in {k \in DOMAIN commits : commits[k].mem = m}}

(* What a calm world shows of itself, and that no other shows anything. *)
Shows ==
  /\ left.calm =>
       /\ LifeStatus = [m \in Memories |-> Says(note[m])]
       /\ LifeHad = [m \in Memories |-> Said(m)]
       /\ LifeRestored = {m \in Memories : BroughtBack(m)}
  /\ ~left.calm =>
       /\ LifeStatus = [m \in Memories |-> "none"]
       /\ LifeHad = [m \in Memories |-> {}]
       /\ LifeRestored = {}

LEMMA ShownNow == Shows
<1>1. CASE left.calm
  <2>1. \A n : StatusOf(n) = Says(n)
    BY <1>1 DEF StatusOf, Says
  <2>2. \A m : History(m) = {k \in DOMAIN commits : commits[k].mem = m}
    BY <1>1 DEF History
  <2>3. \A m : {StatusOf(commits[i].after) : i \in History(m)}
               \cup {StatusOf(commits[i].before) : i \in History(m)} = Said(m)
    BY <2>1, <2>2 DEF Said
  <2> QED
    BY <1>1, <2>1, <2>3 DEF Shows, LifeStatus, LifeHad, LifeRestored
<1>2. CASE ~left.calm
  <2>1. \A n : StatusOf(n) = "none"
    BY <1>2 DEF StatusOf
  <2>2. \A m : History(m) = {}
    BY <1>2 DEF History
  <2>3. \A m : {StatusOf(commits[i].after) : i \in History(m)}
               \cup {StatusOf(commits[i].before) : i \in History(m)} = {}
    BY <2>2
  <2> QED
    BY <1>2, <2>1, <2>3 DEF Shows, LifeStatus, LifeHad, LifeRestored
<1> QED
  BY <1>1, <1>2

LEMMA ShownNext == Shows'
BY ShownNow, PTL

LEMMA SaidGrows ==
  ASSUME commits \in Seq(CommitType), NEW r, Committing(r), NEW m
  PROVE  Said(m)' = IF m = r.mem THEN Said(m) \cup {Says(r.before), Says(r.after)} ELSE Said(m)
<1> DEFINE L == Len(commits) + 1
<1>1. /\ DOMAIN commits' = DOMAIN commits \cup {L}
      /\ \A i \in DOMAIN commits : commits'[i] = commits[i]
      /\ commits'[L] = r
  BY CommitAdded
<1> HIDE DEF L
<1>2. \A s : s \in Said(m)' <=> \E i \in DOMAIN commits' :
        commits'[i].mem = m /\ s \in {Says(commits'[i].after), Says(commits'[i].before)}
  BY DEF Said, Says
<1>3. \A s : s \in Said(m) <=> \E i \in DOMAIN commits :
        commits[i].mem = m /\ s \in {Says(commits[i].after), Says(commits[i].before)}
  BY DEF Said
<1>4. \A s : s \in Said(m)' <=> s \in Said(m) \/ (m = r.mem /\ s \in {Says(r.before), Says(r.after)})
  BY <1>1, <1>2, <1>3
<1> QED
  BY <1>4

(* A note that is there, and what it was before and after a commit, count   *)
(* among what was said of it.                                              *)
LEMMA SaidOf ==
  ASSUME HistoryInv, NEW m \in Memories
  PROVE  /\ note[m] # NoNote => Says(note[m]) \in Said(m)
         /\ note[m] # NoNote /\ note[m].place = "Archive" => "forgotten" \in Said(m)
         /\ \A d \in DOMAIN commits : commits[d].mem = m =>
              Says(commits[d].after) \in Said(m) /\ Says(commits[d].before) \in Said(m)
<1>1. \A n \in NotesHad(m) : n # NoNote /\ n.status \in Said(m)
  BY DEF NotesHad, Said, Says
<1>2. note[m] # NoNote => note[m] \in NotesHad(m)
  BY DEF HistoryInv, NoteInv
<1>3. note[m] # NoNote /\ note[m].place = "Archive" => "forgotten" \in Said(m)
  <2>1. Had(m, "forgotten") => "forgotten" \in Said(m)
    BY <1>1 DEF Had
  <2> QED
    BY <1>2, <2>1 DEF HistoryInv, ArchiveInv
<1>4. \A d \in DOMAIN commits : commits[d].mem = m =>
        Says(commits[d].after) \in Said(m) /\ Says(commits[d].before) \in Said(m)
  BY DEF Said
<1> QED
  BY <1>1, <1>2, <1>3, <1>4 DEF Says

LEMMA RestoredGrows ==
  ASSUME Data, NEW r, Committing(r)
  PROVE  LET was == {m \in Memories : BroughtBack(m)} IN
         /\ {m \in Memories : BroughtBack(m)'} = IF ComesBack(r) THEN was \cup {r.mem} ELSE was
         /\ ComesBack(r) => "forgotten" \in Said(r.mem)
<1>1. r.mem \in Memories /\ commits \in Seq(CommitType)
  BY DEF Committing, CommitType, Data
<1>2. \A m : BroughtBack(m)' <=> BroughtBack(m) \/ (m = r.mem /\ ComesBack(r))
  BY <1>1, BringsBack
<1>3. ComesBack(r) => "forgotten" \in Said(r.mem)
  BY <1>1, SaidOf DEF ComesBack, Committing, Data
<1> QED
  BY <1>1, <1>2, <1>3

(* A change of a note in a calm world, as a step of its life. *)
LEMMA ChangeLives ==
  ASSUME Data, Lasting, left.calm, left' = left, NEW r, NEW j, Committing(r), Cause(r, j)
  PROVE  [Life!Next]_(Life!vars)
<1> PICK m, was, will : m = r.mem /\ was = Says(r.before) /\ will = Says(r.after)
  OBVIOUS
<1>1. /\ m \in Memories /\ commits \in Seq(CommitType) /\ HistoryInv /\ note[m] = r.before
      /\ r.before \in Notes \cup {NoNote} /\ r.after \in Notes \cup {NoNote}
  BY DEF Committing, CommitType, Data
<1> PICK had, back : had = Said(m) /\ back = {n \in Memories : BroughtBack(n)}
  OBVIOUS
<1>2. /\ LifeStatus = [n \in Memories |-> Says(note[n])] /\ LifeStatus[m] = was
      /\ LifeHad = [n \in Memories |-> Said(n)] /\ LifeHad[m] = had
      /\ LifeRestored = back /\ (m \in back <=> BroughtBack(m))
  <2>1. Shows
    BY ShownNow
  <2> QED
    BY <1>1, <2>1 DEF Shows
<1>3. LifeStatus' = [LifeStatus EXCEPT ![m] = will]
  <2>1. \A n \in Memories : Says(note[n])' = IF n = m THEN will ELSE Says(note[n])
    BY <1>1 DEF Committing, Says, Data
  <2>2. LifeStatus' = [n \in Memories |-> Says(note[n])']
    BY ShownNext DEF Shows
  <2> QED
    BY <1>2, <2>1, <2>2
<1>4. LifeHad' = [LifeHad EXCEPT ![m] = had \cup {was, will}]
  <2>1. \A n \in Memories : Said(n)' = IF n = m THEN had \cup {was, will} ELSE Said(n)
    BY <1>1, SaidGrows
  <2>2. LifeHad' = [n \in Memories |-> Said(n)']
    BY ShownNext DEF Shows
  <2> QED
    BY <1>2, <2>1, <2>2
<1>5. /\ LifeRestored' = IF ComesBack(r) THEN back \cup {m} ELSE back
      /\ ComesBack(r) => "forgotten" \in had
  <2>1. LifeRestored' = {n \in Memories : BroughtBack(n)'}
    BY ShownNext DEF Shows
  <2> QED
    BY <2>1, RestoredGrows
<1>6. was # "none" => was \in had
  BY <1>1, SaidOf DEF Says
<1>7. Life!BringBack(m)
  BY <1>2, <1>5 DEF Life!BringBack
<1>8. ASSUME will = was, was \in had, ComesBack(r) => BroughtBack(m)
      PROVE  UNCHANGED Life!vars
  BY <1>2, <1>3, <1>4, <1>5, <1>8, ZenonT(30) DEF Life!vars
<1>9. CASE Birth(r)
  <2>1. was = "none" /\ will = "scratch" /\ had = {} /\ ~ComesBack(r)
    <3>1. {k \in DOMAIN commits : commits[k].mem = m} = {}
      BY <1>9 DEF Birth
    <3>2. had = {}
      BY <3>1 DEF Said
    <3>3. will = "scratch"
      BY <1>9, NoNoteAssumption DEF Birth, Newborn, Says
    <3> QED
      BY <1>9, <3>2, <3>3 DEF Birth, Says, ComesBack
  <2>2. Life!Create(m)
    BY <1>2, <1>3, <1>4, <1>5, <2>1 DEF Life!Create
  <2> QED
    BY <1>1, <2>2 DEF Life!Next
<1>10. CASE Flip(r, j)
  <2>1. /\ r.before # NoNote /\ r.after # NoNote
        /\ was = r.before.status /\ will = r.after.status /\ was \in Statuses /\ was \in had
    BY <1>6, <1>10, NoNoteAssumption DEF Flip, Says, Notes, Statuses
  <2>2. CASE j.kind = "revise"
    <3>1. will = was
      BY <1>10, <2>1, <2>2 DEF Flip, Edit
    <3>2. ComesBack(r) => BroughtBack(m)
      <4>1. ComesBack(r) => r.before.place = "Archive" /\ r.before.status # "forgotten"
        BY <1>10, <2>2 DEF Flip, Edit, ComesBack
      <4> QED
        BY <1>1, <2>1, <4>1 DEF Lasting, ArchivedInv
    <3> QED
      BY <1>8, <2>1, <3>1, <3>2
  <2>3. CASE j.kind # "revise"
    <3>1. will = Goal(j) /\ will # was /\ j.kind \in {"promote", "forget", "retire", "sweep"}
      BY <1>10, <2>1, <2>3 DEF Flip, Changing
    <3>2. /\ j.kind = "promote" /\ j.apr = 0 => was = "scratch" \/ BroughtBack(m)
          /\ j.kind = "retire" => was \in {"working", "canonical"} \/ BroughtBack(m)
      BY <1>10, <2>1 DEF Flip, From
    <3>3. will \in {"working", "canonical", "retired", "forgotten"}
      BY <3>1 DEF Goal
    <3>4. Life!Allowed(m, will)
      BY <1>2, <2>1, <3>1, <3>2 DEF Life!Allowed, Goal, Statuses
    <3>5. LifeHad' = [LifeHad EXCEPT ![m] = had \cup {will}]
      BY <1>4, <2>1
    <3>6. Life!Change(m)
      BY <1>2, <1>3, <1>7, <3>3, <3>4, <3>5 DEF Life!Change
    <3> QED
      BY <1>1, <3>6 DEF Life!Next
  <2> QED
    BY <2>2, <2>3
<1>11. CASE Burial(r)
  <2>1. will = was /\ was # "none" /\ ~ComesBack(r)
    BY <1>11, NoNoteAssumption DEF Burial, Says, ComesBack
  <2> QED
    BY <1>6, <1>8, <2>1
<1>12. CASE Undoing(r, j)
  <2>1. PICK d \in DOMAIN commits :
          /\ m = commits[d].mem
          /\ \/ Whole(commits[d].after, commits[d].before, r.before, r.after)
             \/ Fieldwise(commits[d].after, commits[d].before, r.before, r.after)
    BY <1>12 DEF Undoing
  <2>2. Says(commits[d].after) \in had /\ Says(commits[d].before) \in had
    BY <1>1, <2>1, SaidOf
  <2>3. was \in had /\ will \in had
    <3>1. CASE Whole(commits[d].after, commits[d].before, r.before, r.after)
      BY <2>2, <3>1 DEF Whole
    <3>2. CASE Fieldwise(commits[d].after, commits[d].before, r.before, r.after)
      <4>1. /\ was = r.before.status /\ will = r.after.status /\ was # "none"
            /\ Says(commits[d].before) = commits[d].before.status
        BY <3>2, NoNoteAssumption DEF Fieldwise, Says, Notes, Statuses
      <4> QED
        BY <1>6, <2>2, <3>2, <4>1 DEF Fieldwise
    <3> QED
      BY <2>1, <3>1, <3>2
  <2>4. UNCHANGED LifeHad
    BY <1>2, <1>4, <2>3, SMTT(30)
  <2>5. Life!GoBack(m)
    BY <1>2, <1>3, <1>7, <2>3, <2>4 DEF Life!GoBack
  <2> QED
    BY <1>1, <2>5 DEF Life!Next
<1> QED
  BY <1>9, <1>10, <1>11, <1>12 DEF Cause

LEMMA NothingShown ==
  ASSUME UNCHANGED <<note, commits>>, left'.calm = left.calm
  PROVE  UNCHANGED Life!vars
BY DEF Life!vars, LifeStatus, LifeHad, LifeRestored, StatusOf, History, BroughtBack

LEMMA LifeStep == IInv /\ CalmInv /\ [Next]_vars => [Life!Next]_(Life!vars)
<1> SUFFICES ASSUME IInv, CalmInv, [Next]_vars PROVE [Life!Next]_(Life!vars)
  OBVIOUS
<1>1. left'.calm = left.calm
  BY CalmWorld
<1>2. CASE ~left.calm
  BY <1>1, <1>2, ShownNow, ShownNext DEF Shows, Life!vars
<1>3. CASE left.calm
  <2>1. PICK h \in Hosts : Alone(h) /\ CalmAll(pc[h], job[h])
    BY <1>3 DEF CalmInv
  <2>2. CASE UNCHANGED <<note, commits>>
    BY <1>1, <2>2, NothingShown
  <2>3. CASE ~UNCHANGED <<note, commits>>
    <3>1. CalmChange(h)
      BY <1>3, <2>1, <2>3, CalmActor, Changers DEF vars
    <3>2. PICK r : Committing(r) /\ Cause(r, job[h]) /\ left' = left
      BY <2>3, <3>1 DEF CalmChange
    <3> QED
      BY <1>3, <2>1, <3>2, ChangeLives, Given DEF CalmAll
  <2> QED
    BY <2>2, <2>3
<1> QED
  BY <1>2, <1>3

(* The store implements MemoryLife: in a calm world the status of a note    *)
(* moves only as the transition table, an approval or an undo allows,       *)
(* however many commits, journal writes and reindexes that takes.           *)
THEOREM Implements == Spec => ImplementsLife
<1>1. Init => Life!Init
  <2> SUFFICES ASSUME Init PROVE Life!Init
    OBVIOUS
  <2>1. commits = <<>> /\ note = [m \in Memories |-> NoNote]
    BY DEF Init
  <2> QED
    BY <2>1 DEF Life!Init, LifeStatus, LifeHad, LifeRestored, StatusOf, History, BroughtBack
<1> QED
  BY <1>1, LifeStep, CalmInductive, PTL DEF Spec, ImplementsLife, Life!Spec
=============================================================================
