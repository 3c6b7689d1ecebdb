--------------------------- MODULE ConflictsProofs ---------------------------
(***************************************************************************)
(* Proofs about contradictions, citations and the conflicts table, for any *)
(* number of hosts, memories, texts and requests: that no contradiction is *)
(* left unsaid where memories are only written, that a closed row stays    *)
(* closed, that the edges are what the notes cite and a death is flagged   *)
(* in a calm world, and that a sweep nobody disturbs leaves nothing out.   *)
(***************************************************************************)
EXTENDS ConflictsProperties, SequenceTheorems, TLAPS

(* What a world promises stays so.                                         *)
Bounds == {"write", "promote", "undo", "crash", "rebuild", "close", "scan"}

LeftInv ==
  /\ left \in [hosts : SUBSET Hosts, memories : SUBSET Memories, texts : SUBSET Texts,
               established : SUBSET Memories, calm : BOOLEAN, written : BOOLEAN,
               write : Nat, promote : Nat, undo : Nat, crash : Nat, rebuild : Nat, close : Nat,
               scan : Nat]
  /\ left.calm => (\E h \in Hosts : left.hosts = {h}) /\ left.crash = 0
  /\ left.written => left.promote = 0 /\ left.undo = 0 /\ left.crash = 0 /\ left.rebuild = 0

(* A host of no behaviour is always idle. *)
IdleInv == \A h \in Hosts : h \notin left.hosts => pc[h] = "idle"

(* What was never written has neither file nor row nor history; what has a *)
(* file or a history has a row; a history is forgotten with its note.      *)
Unborn(m) == notes[m] = NoNote /\ rows[m] = NoRow /\ past[m] = <<>>
BornInv ==
  /\ \A m \in fresh : Unborn(m)
  /\ \A m \in Memories : /\ notes[m] # NoNote => rows[m] # NoRow
                         /\ notes[m] = NoNote => past[m] = <<>>

(* No note cites itself, and undo brings back what cites the same.         *)
Cites(m, n) == n # NoNote /\ notes[m] # NoNote => n.cites = notes[m].cites
PastInv == \A m \in Memories :
  /\ notes[m] # NoNote => m \notin notes[m].cites
  /\ \A i \in 1..Len(past[m]) : /\ past[m][i] = NoNote => i = Len(past[m])
                                /\ Cites(m, past[m][i])

(* What each host has in hand.                                             *)
Making(m, j) ==
  /\ m \notin fresh /\ Unborn(m)
  /\ j.after # NoNote /\ j.after.status = "scratch"
  /\ j.todo = j.after.cites /\ m \notin j.after.cites

JobAt(s, j) ==
  /\ s \notin {"idle", "resolved", "dismissed", "audit", "rescan"} => j.mem \in Memories
  /\ s = "create" => Making(j.mem, j)
  /\ s \in {"create", "relate"} => j.kind = "distill"
  /\ s = "relate" => j.mem \notin j.todo
  /\ s = "patch" =>
       /\ j.kind = "revise" /\ j.after # NoNote
       /\ j.after.cites = j.before.cites /\ j.after.status = j.before.status
  /\ s = "audit" <=> j.kind = "audit"
  /\ s = "flag" => j.kind \in {"retired", "forgotten"}
  /\ s = "stale" => j.kind = "revise"
  /\ j.kind = "revise" => j.before # NoNote

JobInv == \A h \in Hosts : JobAt(pc[h], job[h])

(* Two hosts do not make the same memory.                                  *)
MakersInv == \A g, h \in Hosts :
  pc[g] = "create" /\ pc[h] = "create" /\ job[g].mem = job[h].mem => g = h

IInv == TypeOK /\ LeftInv /\ IdleInv /\ BornInv /\ PastInv /\ JobInv /\ MakersInv

(* A contradiction without its rows is one that a host is about to check.  *)
Checking(m) == \E h \in Hosts : pc[h] = "check" /\ job[h].mem = m
SaidInv == left.written =>
  \A m, p \in Memories : AtOdds(m, p) =>
    RowsOf(m, p) \subseteq DOMAIN conflicts \/ Checking(m) \/ Checking(p)

(* With one host, an edge that is missing is one that it is about to add,  *)
(* and a memory whose death it is about to flag is as dead as it says.     *)
Cited(d, s) == notes[d] # NoNote /\ s \in notes[d].cites
Adding(h, d, s) == pc[h] = "relate" /\ job[h].mem = d /\ s \in job[h].todo
CalmInv == left.calm => \E h \in Hosts :
  /\ left.hosts = {h}
  /\ \A d, s \in Memories : Cited(d, s) <=> <<d, s>> \in relations \/ Adding(h, d, s)
  /\ pc[h] = "flag" => Status(job[h].mem) = job[h].kind

(* A sweep has left nothing out of what it has been through.               *)
Dangling(e) == Status(e[1]) \notin Dead \cup {"missing"} /\ DeadNow(e[2])
SweepInv == \A h \in Hosts : left.hosts = {h} =>
  /\ pc[h] = "audit" =>
       \A e \in relations \ job[h].todo : Dangling(e) => FlagOf(e[1], e[2])
  /\ pc[h] = "rescan" =>
       \A m, p \in Memories : AtOdds(m, p) /\ ~({m, p} \subseteq job[h].todo) =>
         RowsOf(m, p) \subseteq DOMAIN conflicts

-----------------------------------------------------------------------------
(* Types of what the actions are built from.                               *)

LEMMA IdleJob == IsJob(Idle) /\ JobAt("idle", Idle)
BY DEF IsJob, Idle, JobAt

(* The fields of a job stay the same six, however many are set.            *)
Shape(j) ==
  j = [kind |-> j.kind, mem |-> j.mem, before |-> j.before, after |-> j.after,
       todo |-> j.todo, key |-> j.key]
Fields == {"kind", "mem", "before", "after", "todo", "key"}

LEMMA ShapeKept ==
  ASSUME NEW i, Shape(i), NEW f \in Fields, NEW v
  PROVE  Shape([i EXCEPT ![f] = v])
<1>1. Shape([i EXCEPT !.kind = v]) /\ Shape([i EXCEPT !.mem = v])
  BY DEF Shape
<1>2. Shape([i EXCEPT !.before = v]) /\ Shape([i EXCEPT !.after = v])
  BY DEF Shape
<1>3. Shape([i EXCEPT !.todo = v]) /\ Shape([i EXCEPT !.key = v])
  BY DEF Shape
<1> QED
  BY <1>1, <1>2, <1>3 DEF Fields

LEMMA Shapes ==
  ASSUME NEW i, Shape(i), NEW a, NEW b, NEW c, NEW d
  PROVE  /\ Shape([i EXCEPT !.kind = a, !.mem = b])
         /\ Shape([i EXCEPT !.kind = a, !.todo = b])
         /\ Shape([i EXCEPT !.kind = a, !.key = b])
         /\ Shape([i EXCEPT !.kind = a, !.mem = b, !.todo = c, !.after = d])
         /\ Shape([i EXCEPT !.kind = a, !.mem = b, !.before = c, !.after = d])
<1> DEFINE k == [i EXCEPT !["kind"] = a]
           m == [k EXCEPT !["mem"] = b]
           t == [m EXCEPT !["todo"] = c]
           x == [m EXCEPT !["before"] = c]
<1>1. Shape(k)
  BY ShapeKept DEF Fields
<1> HIDE DEF k
<1>2. Shape(m) /\ Shape([k EXCEPT !["todo"] = b]) /\ Shape([k EXCEPT !["key"] = b])
  BY <1>1, ShapeKept DEF Fields
<1> HIDE DEF m
<1>3. Shape(t) /\ Shape(x)
  BY <1>2, ShapeKept DEF Fields
<1> HIDE DEF t, x
<1>4. Shape([t EXCEPT !["after"] = d]) /\ Shape([x EXCEPT !["after"] = d])
  BY <1>3, ShapeKept DEF Fields
<1>5. /\ Shape([i EXCEPT !.kind = a, !.mem = b]) /\ Shape([i EXCEPT !.kind = a, !.todo = b])
      /\ Shape([i EXCEPT !.kind = a, !.key = b])
  BY <1>2 DEF k, m
<1>6. Shape([i EXCEPT !.kind = a, !.mem = b, !.todo = c, !.after = d])
  BY <1>4 DEF k, m, t
<1>7. Shape([i EXCEPT !.kind = a, !.mem = b, !.before = c, !.after = d])
  BY <1>4 DEF k, m, x
<1> QED
  BY <1>5, <1>6, <1>7

LEMMA IdleFields ==
  /\ Shape(Idle)
  /\ Idle.kind = "none" /\ Idle.mem = NoMem /\ Idle.before = NoNote /\ Idle.after = NoNote
  /\ Idle.todo = {}
BY DEF Idle, Shape

LEMMA WorldsType == left \in Worlds => LeftInv
<1> SUFFICES ASSUME left \in Worlds PROVE LeftInv
  OBVIOUS
<1>1. left.written => left.promote = 0 /\ left.undo = 0 /\ left.crash = 0 /\ left.rebuild = 0
  <2>1. left.written => {left.promote, left.undo, left.crash, left.rebuild} = {0}
    BY WorldsAssumption
  <2> QED
    BY <2>1
<1>2. left.calm => (\E h \in Hosts : left.hosts = {h}) /\ left.crash = 0
  BY WorldsAssumption
<1> QED
  BY <1>1, <1>2, WorldsAssumption DEF LeftInv

LEMMA InitialInv == Init => IInv
<1> SUFFICES ASSUME Init PROVE IInv
  OBVIOUS
<1> USE WorldsAssumption, NothingAssumption DEF Init
<1> USE DEF Notes, MemoryRows, Statuses, Live
<1>1. LeftInv
  BY WorldsType
<1>2. PICK t \in left.texts, s \in [left.established -> Live] :
       /\ notes = [m \in Memories |-> IF m \in left.established
                     THEN [status |-> s[m], text |-> t, cites |-> {}] ELSE NoNote]
       /\ rows = [m \in Memories |-> IF m \in left.established
                     THEN [status |-> s[m], supersedes |-> NoMem] ELSE NoRow]
  OBVIOUS
<1>3. TypeOK
  <2>1. t \in Texts /\ left.memories \subseteq Memories /\ left.established \subseteq Memories
    BY <1>1 DEF LeftInv
  <2>2. notes \in [Memories -> Notes \cup {NoNote}] /\ rows \in [Memories -> MemoryRows \cup {NoRow}]
    BY <1>2, <2>1
  <2>3. past \in [Memories -> Seq(Notes \cup {NoNote})] /\ DOMAIN conflicts = {}
    BY DEF EmptyTable
  <2>4. pc \in [Hosts -> Steps] /\ job = [h \in Hosts |-> job[h]] /\ \A h \in Hosts : IsJob(job[h])
    BY IdleJob DEF Steps
  <2> QED
    BY <2>1, <2>2, <2>3, <2>4 DEF TypeOK
<1>4. IdleInv
  BY DEF IdleInv
<1>5. BornInv
  BY <1>2 DEF BornInv, Unborn
<1>6. PastInv
  BY <1>2 DEF PastInv, Cites
<1>7. JobInv /\ MakersInv
  BY IdleJob DEF JobInv, MakersInv
<1> QED
  BY <1>1, <1>3, <1>4, <1>5, <1>6, <1>7 DEF IInv

(* A step spends its budget, or leaves it; no world changes its kind.      *)
Fixed ==
  /\ left'.hosts = left.hosts /\ left'.memories = left.memories /\ left'.texts = left.texts
  /\ left'.calm = left.calm /\ left'.written = left.written

LEMMA SpendLeft ==
  ASSUME LeftInv, NEW b \in Bounds, left[b] > 0, left' = [left EXCEPT ![b] = @ - 1]
  PROVE  /\ LeftInv' /\ Fixed
         /\ left.written => b \notin {"promote", "undo", "crash", "rebuild"}
         /\ left.calm => b # "crash"
         /\ left'.crash # left.crash <=> b = "crash"
<1>1. left' \in [hosts : SUBSET Hosts, memories : SUBSET Memories, texts : SUBSET Texts,
               established : SUBSET Memories, calm : BOOLEAN, written : BOOLEAN,
               write : Nat, promote : Nat, undo : Nat, crash : Nat, rebuild : Nat, close : Nat,
               scan : Nat]
  BY DEF LeftInv, Bounds
<1>2. Fixed
  BY DEF Fixed, LeftInv, Bounds
<1>3. /\ left.written => b \notin {"promote", "undo", "crash", "rebuild"}
      /\ left.calm => b # "crash"
  BY DEF LeftInv
<1>4. /\ \A x \in Bounds \ {b} : left'[x] = left[x]
      /\ left'.crash # left.crash <=> b = "crash"
  BY DEF LeftInv, Bounds
<1>5. LeftInv'
  BY <1>1, <1>2, <1>3, <1>4 DEF LeftInv, Fixed, Bounds
<1> QED
  BY <1>2, <1>3, <1>4, <1>5

LEMMA SameLeft == LeftInv /\ UNCHANGED left => LeftInv' /\ Fixed
BY DEF LeftInv, Fixed

(* What a host does next changes nothing for the others, unless what they  *)
(* make is born meanwhile.                                                 *)
LEMMA Moves ==
  ASSUME IInv, NEW h \in left.hosts, left'.hosts = left.hosts, NEW s \in Steps, NEW j, IsJob(j),
         Goto(h, s, j), JobAt(s, j)',
         \A g \in Hosts, x \in Memories :
           g # h /\ pc[g] = "create" /\ job[g].mem = x => Unborn(x)' /\ x \notin fresh'
  PROVE  /\ pc' \in [Hosts -> Steps]
         /\ job' = [g \in Hosts |-> job'[g]] /\ \A g \in Hosts : IsJob(job'[g])
         /\ IdleInv' /\ JobInv'
         /\ pc'[h] = s /\ job'[h] = j
         /\ \A g \in Hosts \ {h} : pc'[g] = pc[g] /\ job'[g] = job[g]
<1>1. h \in Hosts
  BY DEF IInv, LeftInv
<1>2. /\ pc' \in [Hosts -> Steps]
      /\ job' = [g \in Hosts |-> job'[g]]
      /\ pc'[h] = s /\ job'[h] = j
      /\ \A g \in Hosts \ {h} : pc'[g] = pc[g] /\ job'[g] = job[g]
  BY <1>1 DEF IInv, TypeOK, Goto
<1>3. \A g \in Hosts : IsJob(job'[g])
  BY <1>2 DEF IInv, TypeOK
<1>4. IdleInv'
  BY <1>2 DEF IInv, IdleInv
<1>5. ASSUME NEW g \in Hosts PROVE JobAt(pc[g], job[g])' 
  <2>1. CASE g = h
    BY <2>1, <1>2
  <2>2. CASE g # h
    <3>1. JobAt(pc[g], job[g]) /\ pc'[g] = pc[g] /\ job'[g] = job[g]
      BY <1>2, <2>2 DEF IInv, JobInv
    <3>2. ASSUME pc[g] = "create" PROVE Making(job[g].mem, job[g])'
      <4>1. PICK x \in Memories : x = job[g].mem
        BY <3>1, <3>2 DEF JobAt
      <4>2. Unborn(x)' /\ x \notin fresh' /\ job'[g].mem = x
        BY <2>2, <3>1, <3>2, <4>1
      <4> QED
        BY <3>1, <3>2, <4>2 DEF Making, JobAt
    <3> QED
      BY <3>1, <3>2 DEF JobAt
  <2> QED
    BY <2>1, <2>2
<1> QED
  BY <1>2, <1>3, <1>4, <1>5 DEF JobInv

-----------------------------------------------------------------------------
(* The rows that are inserted.                                             *)

ConflictsType == \A k \in DOMAIN conflicts :
  IsKey(k) /\ conflicts[k] \in {"open", "resolved", "dismissed"}

LEMMA InsertedType ==
  ASSUME ConflictsType, NEW keys, \A k \in keys : IsKey(k), conflicts' = Inserted(keys)
  PROVE  ConflictsType' /\ DOMAIN conflicts' = DOMAIN conflicts \cup keys
BY DEF ConflictsType, Inserted

LEMMA Sides ==
  ASSUME NEW a \in Memories, NEW b \in Memories, a # b
  PROVE  /\ {Lower(a, b), Upper(a, b)} = {a, b} /\ Lower(a, b) < Upper(a, b)
         /\ a < b => Lower(a, b) = a /\ Upper(a, b) = b /\ Lower(b, a) = a /\ Upper(b, a) = b
BY MemoriesAssumption DEF Lower, Upper

LEMMA StaleKeyType ==
  ASSUME NEW d \in Memories, NEW s \in Memories, d # s, NEW status
  PROVE  IsKey(StaleKey(d, s, status))
BY Sides DEF StaleKey, IsKey, Kinds

LEMMA DetectKinds ==
  ASSUME NEW a, NEW b, NEW c \in Detect(a, b)
  PROVE  c.kind \in Kinds
<1> DEFINE values == {[kind |-> "value-conflict", detail |-> <<a.fact.value, b.fact.value>>] :
          x \in IF ( /\ "unparseable" \notin {a.fact.type, b.fact.type}
                    /\ a.fact.type = b.fact.type) /\ a.fact.value # b.fact.value
               THEN {1} ELSE {}}
            claims == {[kind |-> "negation-conflict", detail |-> <<"contradicted by negation">>] :
          x \in IF {a.claim, b.claim} = {"is", "is not"} THEN {1} ELSE {}}
<1>1. Detect(a, b) = values \cup claims
  BY DEF Detect
<1>2. ASSUME NEW v \in values PROVE v.kind = "value-conflict"
  <2>1. v = [kind |-> "value-conflict", detail |-> <<a.fact.value, b.fact.value>>]
    OBVIOUS
  <2> HIDE DEF values
  <2> QED
    BY <2>1
<1>3. ASSUME NEW v \in claims PROVE v.kind = "negation-conflict"
  <2>1. v = [kind |-> "negation-conflict", detail |-> <<"contradicted by negation">>]
    OBVIOUS
  <2> HIDE DEF claims
  <2> QED
    BY <2>1
<1> HIDE DEF values, claims
<1> QED
  BY <1>1, <1>2, <1>3 DEF Kinds

LEMMA ContradictionsType ==
  ASSUME NEW m \in Memories
  PROVE  \A k \in Contradictions(m) : IsKey(k)
<1> SUFFICES ASSUME NEW k \in Contradictions(m) PROVE IsKey(k)
  OBVIOUS
<1>1. PICK p \in ComparisonSet(m) : 
        k \in {[kind |-> c.kind, lo |-> Lower(m, p), hi |-> Upper(m, p), detail |-> c.detail] :
            c \in Detect(notes[Lower(m, p)].text, notes[Upper(m, p)].text)}
  BY DEF Contradictions
<1>2. PICK c \in Detect(notes[Lower(m, p)].text, notes[Upper(m, p)].text) :
        k = [kind |-> c.kind, lo |-> Lower(m, p), hi |-> Upper(m, p), detail |-> c.detail]
  BY <1>1
<1>3. c.kind \in Kinds
  BY DetectKinds
<1>4. p \in Memories /\ p # m
  BY DEF ComparisonSet
<1> QED
  BY <1>2, <1>3, <1>4, Sides DEF IsKey

LEMMA CheckedType ==
  ASSUME ConflictsType, NEW m \in Memories, conflicts' = Checked(m)
  PROVE  ConflictsType' /\ DOMAIN conflicts \subseteq DOMAIN conflicts'
<1>1. CASE HasRow(m) /\ notes[m] # NoNote
  BY <1>1, InsertedType, ContradictionsType DEF Checked
<1>2. CASE ~(HasRow(m) /\ notes[m] # NoNote)
  BY <1>2 DEF Checked, ConflictsType
<1> QED
  BY <1>1, <1>2

LEMMA FlaggedType ==
  ASSUME ConflictsType, relations \subseteq Edges, NEW s, NEW status, conflicts' = Flagged(s, status)
  PROVE  /\ ConflictsType' /\ DOMAIN conflicts \subseteq DOMAIN conflicts'
         /\ \A d \in Citing(s) : StaleKey(d, s, status) \in DOMAIN conflicts'
<1> DEFINE keys == {StaleKey(d, s, status) : d \in Citing(s)}
<1>1. \A d \in Citing(s) : d \in Memories /\ s \in Memories /\ d # s
  BY DEF Citing, Edges
<1>2. \A k \in keys : IsKey(k)
  BY <1>1, StaleKeyType
<1>3. conflicts' = Inserted(keys)
  BY DEF Flagged
<1>4. \A d \in Citing(s) : StaleKey(d, s, status) \in keys
  OBVIOUS
<1> HIDE DEF keys
<1> QED
  BY <1>2, <1>3, <1>4, InsertedType

(* Lineage goes both ways: what is not in the lineage of a memory is in a  *)
(* set closed without it, and so is the memory in its complement.          *)
LEMMA LineageIsMutual ==
  ASSUME NEW a \in Memories, NEW b \in Memories, b \notin Lineage(a)
  PROVE  a \notin Lineage(b)
<1>1. PICK S \in SUBSET Memories : a \in S /\ ChainClosed(S) /\ b \notin S
  BY DEF Lineage
<1>2. ChainClosed(Memories \ S)
  BY <1>1 DEF ChainClosed
<1> QED
  BY <1>1, <1>2 DEF Lineage

(* A row that did not exist can only add to a lineage.                     *)
LEMMA LineageGrows ==
  ASSUME NEW a \in Memories, \A m \in Memories : HasRow(m) =>
           HasRow(m)' /\ rows'[m].supersedes = rows[m].supersedes
  PROVE  Lineage(a) \subseteq Lineage(a)'
<1>1. ASSUME NEW S \in SUBSET Memories, ChainClosed(S)' PROVE ChainClosed(S)
  BY <1>1 DEF ChainClosed, Supersedes
<1> QED
  BY <1>1 DEF Lineage

(* The check of one of two memories at odds says so.                       *)
LEMMA CheckSays ==
  ASSUME NEW a \in Memories, NEW b \in Memories, AtOdds(a, b), NEW m \in {a, b},
         conflicts' = Checked(m)
  PROVE  RowsOf(a, b) \subseteq DOMAIN conflicts'
<1> DEFINE p == IF m = a THEN b ELSE a
<1>1. a < b /\ a # b
  BY MemoriesAssumption DEF AtOdds
<1>2. Lower(m, p) = a /\ Upper(m, p) = b
  BY <1>1, Sides
<1>3. p \in ComparisonSet(m) /\ notes[p] # NoNote /\ HasRow(m) /\ notes[m] # NoNote
  <2>1. p \in Memories \ {m} /\ Status(p) \in Live /\ Status(m) \in Live
    BY <1>1 DEF AtOdds
  <2>2. p \notin Lineage(m)
    BY LineageIsMutual DEF AtOdds
  <2> QED
    BY <2>1, <2>2 DEF ComparisonSet, AtOdds, Status, Live
<1>4. RowsOf(a, b) = {[kind |-> c.kind, lo |-> Lower(m, p), hi |-> Upper(m, p), detail |-> c.detail] :
                        c \in Detect(notes[Lower(m, p)].text, notes[Upper(m, p)].text)}
  BY <1>2 DEF RowsOf
<1>5. RowsOf(a, b) \subseteq Contradictions(m)
  <2> HIDE DEF p
  <2> QED
    BY <1>3, <1>4 DEF Contradictions
<1> QED
  BY <1>3, <1>5 DEF Checked, Inserted

-----------------------------------------------------------------------------
(* What becomes of the files, their rows and their histories.              *)

VaultType ==
  /\ fresh \subseteq Memories
  /\ notes \in [Memories -> Notes \cup {NoNote}]
  /\ rows \in [Memories -> MemoryRows \cup {NoRow}]
  /\ past \in [Memories -> Seq(Notes \cup {NoNote})]
VaultInv == VaultType /\ BornInv /\ PastInv

LEMMA Parts == IInv <=>
  /\ VaultInv /\ LeftInv /\ IdleInv /\ JobInv /\ MakersInv
  /\ relations \subseteq Edges /\ ConflictsType
  /\ pc \in [Hosts -> Steps]
  /\ job = [h \in Hosts |-> job[h]] /\ \A h \in Hosts : IsJob(job[h])
BY DEF IInv, TypeOK, VaultInv, VaultType, ConflictsType

LEMMA PushType ==
  ASSUME NEW s \in Seq(Notes \cup {NoNote}), NEW n \in Notes \cup {NoNote}
  PROVE  /\ <<n>> \o s \in Seq(Notes \cup {NoNote}) /\ <<n>> \o s # <<>>
         /\ Len(<<n>> \o s) = Len(s) + 1
         /\ (<<n>> \o s)[1] = n
         /\ \A i \in 2..Len(s) + 1 : (<<n>> \o s)[i] = s[i - 1]
OBVIOUS

LEMMA PopType ==
  ASSUME NEW s \in Seq(Notes \cup {NoNote}), s # <<>>
  PROVE  /\ Tail(s) \in Seq(Notes \cup {NoNote}) /\ Head(s) = s[1] /\ Head(s) \in Notes \cup {NoNote}
         /\ Len(s) \in Nat /\ Len(s) >= 1
         /\ Len(Tail(s)) = Len(s) - 1
         /\ Len(s) = 1 => Tail(s) = <<>>
         /\ \A i \in 1..Len(s) - 1 : Tail(s)[i] = s[i + 1]
<1>1. /\ Head(s) \in Notes \cup {NoNote} /\ Tail(s) \in Seq(Notes \cup {NoNote})
      /\ Len(Tail(s)) = Len(s) - 1
      /\ \A i \in 1..Len(Tail(s)) : Tail(s)[i] = s[i + 1]
  BY HeadTailProperties
<1>2. Len(s) \in Nat /\ Len(s) >= 1 /\ Head(s) = s[1]
  BY EmptySeq
<1>3. ASSUME Len(s) = 1 PROVE Tail(s) = <<>>
  <2>1. Tail(s) \in Seq(Notes \cup {NoNote}) /\ Len(Tail(s)) = 0
    BY <1>1, <1>3
  <2> QED
    BY <2>1, EmptySeq
<1> QED
  BY <1>1, <1>2, <1>3

(* A note that exists is written again; what it cites stays.               *)
LEMMA Rewritten ==
  ASSUME VaultInv, NEW m \in Memories, notes[m] # NoNote, NEW n \in Notes, n.cites = notes[m].cites,
         fresh' = fresh, notes' = [notes EXCEPT ![m] = n],
         rows' = rows \/ rows' = [rows EXCEPT ![m].status = n.status],
         past' = [past EXCEPT ![m] = <<notes[m]>> \o @] \/ past' = [past EXCEPT ![m] = <<>>]
  PROVE  /\ VaultInv'
         /\ \A x \in Memories : Unborn(x) => Unborn(x)'
         /\ \A x \in Memories : HasRow(x)' = HasRow(x)
         /\ \A x \in Memories : HasRow(x) => rows'[x].supersedes = rows[x].supersedes
<1> USE NothingAssumption
<1>1. rows[m] \in MemoryRows
  BY DEF VaultInv, VaultType, BornInv
<1>2. /\ rows' \in [Memories -> MemoryRows \cup {NoRow}]
      /\ \A x \in Memories \ {m} : rows'[x] = rows[x]
      /\ rows'[m] \in MemoryRows /\ rows'[m].supersedes = rows[m].supersedes
  <2>1. CASE rows' = rows
    BY <1>1, <2>1 DEF VaultInv, VaultType
  <2>2. CASE rows' = [rows EXCEPT ![m].status = n.status]
    <3> DEFINE r == [rows[m] EXCEPT !.status = n.status]
    <3>1. n.status \in Statuses
      BY DEF Notes
    <3>2. r \in MemoryRows /\ r.supersedes = rows[m].supersedes
      BY <1>1, <3>1 DEF MemoryRows
    <3>3. rows' = [rows EXCEPT ![m] = r]
      BY <2>2
    <3> HIDE DEF r
    <3> QED
      BY <3>2, <3>3 DEF VaultInv, VaultType
  <2> QED
    BY <2>1, <2>2
<1>3. notes' \in [Memories -> Notes \cup {NoNote}] /\ notes'[m] = n /\ n # NoNote
      /\ \A x \in Memories \ {m} : notes'[x] = notes[x]
  BY DEF VaultInv, VaultType
<1>4. /\ past' \in [Memories -> Seq(Notes \cup {NoNote})]
      /\ \A x \in Memories \ {m} : past'[x] = past[x]
      /\ past'[m] = <<notes[m]>> \o past[m] \/ past'[m] = <<>>
  <2>1. past[m] \in Seq(Notes \cup {NoNote}) /\ notes[m] \in Notes \cup {NoNote}
    BY DEF VaultInv, VaultType
  <2>2. <<notes[m]>> \o past[m] \in Seq(Notes \cup {NoNote})
    BY <2>1, PushType
  <2>3. past \in [Memories -> Seq(Notes \cup {NoNote})]
    BY DEF VaultInv, VaultType
  <2> HIDE DEF Notes
  <2>4. CASE past' = [past EXCEPT ![m] = <<notes[m]>> \o @]
    BY <2>2, <2>3, <2>4
  <2>5. CASE past' = [past EXCEPT ![m] = <<>>]
    BY <2>3, <2>5
  <2> QED
    BY <2>4, <2>5
<1>5. VaultType'
  BY <1>2, <1>3, <1>4 DEF VaultInv, VaultType
<1>6. BornInv'
  <2>1. m \notin fresh'
    BY DEF VaultInv, BornInv, Unborn
  <2>2. rows'[m] # NoRow /\ notes'[m] # NoNote
    BY <1>2, <1>3
  <2>3. \A x \in Memories \ {m} : notes'[x] = notes[x] /\ rows'[x] = rows[x] /\ past'[x] = past[x]
    BY <1>2, <1>3, <1>4
  <2> QED
    BY <2>1, <2>2, <2>3, <1>5 DEF VaultInv, BornInv, Unborn, VaultType
<1>7. PastInv'
  <2>1. ASSUME NEW x \in Memories \ {m}
        PROVE  /\ notes'[x] # NoNote => x \notin notes'[x].cites
               /\ \A i \in 1..Len(past'[x]) : /\ past'[x][i] = NoNote => i = Len(past'[x])
                                              /\ Cites(x, past[x][i])'
    BY <1>3, <1>4 DEF VaultInv, PastInv, Cites
  <2>2. m \notin notes'[m].cites
    BY <1>3 DEF VaultInv, PastInv
  <2>3. ASSUME NEW i \in 1..Len(past'[m])
        PROVE  (past'[m][i] = NoNote => i = Len(past'[m])) /\ Cites(m, past[m][i])'
    <3>1. CASE past'[m] = <<>>
      BY <3>1
    <3>2. CASE past'[m] = <<notes[m]>> \o past[m]
      <4>1. past[m] \in Seq(Notes \cup {NoNote}) /\ notes[m] \in Notes \cup {NoNote}
        BY DEF VaultInv, VaultType
      <4>2. /\ Len(past'[m]) = Len(past[m]) + 1 /\ Len(past[m]) \in Nat
            /\ past'[m][1] = notes[m]
            /\ \A k \in 2..Len(past[m]) + 1 : past'[m][k] = past[m][k - 1]
        BY <3>2, <4>1, PushType
      <4>3. CASE i = 1
        BY <1>3, <4>2, <4>3 DEF Cites
      <4>4. CASE i # 1
        <5>1. i - 1 \in 1..Len(past[m]) /\ past'[m][i] = past[m][i - 1]
          BY <4>2, <4>4
        <5>2. (past[m][i - 1] = NoNote => i - 1 = Len(past[m])) /\ Cites(m, past[m][i - 1])
          BY <5>1 DEF VaultInv, PastInv
        <5> QED
          BY <1>3, <4>2, <5>1, <5>2 DEF Cites
      <4> QED
        BY <4>3, <4>4
    <3> QED
      BY <1>4, <3>1, <3>2
  <2> QED
    BY <2>1, <2>2, <2>3 DEF PastInv
<1> QED
  BY <1>1, <1>2, <1>3, <1>4, <1>5, <1>6, <1>7, ZenonT(30) DEF VaultInv, Unborn, HasRow

(* A memory is born.                                                       *)
LEMMA Created ==
  ASSUME VaultInv, NEW m \in Memories, Unborn(m), NEW n \in Notes, m \notin n.cites,
         NEW r \in MemoryRows,
         fresh' = fresh \ {m}, notes' = [notes EXCEPT ![m] = n], rows' = [rows EXCEPT ![m] = r],
         past' = [past EXCEPT ![m] = <<NoNote>>]
  PROVE  /\ VaultInv'
         /\ \A x \in Memories \ {m} : Unborn(x) => Unborn(x)'
         /\ \A x \in Memories : HasRow(x) => HasRow(x)' /\ rows'[x] = rows[x]
<1> USE NothingAssumption
<1>1. /\ notes' \in [Memories -> Notes \cup {NoNote}] /\ notes'[m] = n /\ n # NoNote
      /\ rows' \in [Memories -> MemoryRows \cup {NoRow}] /\ rows'[m] = r /\ r # NoRow
      /\ past' \in [Memories -> Seq(Notes \cup {NoNote})] /\ past'[m] = <<NoNote>>
      /\ \A x \in Memories \ {m} : notes'[x] = notes[x] /\ rows'[x] = rows[x] /\ past'[x] = past[x]
  BY DEF VaultInv, VaultType
<1>2. VaultType'
  BY <1>1 DEF VaultInv, VaultType
<1>3. BornInv'
  BY <1>1 DEF VaultInv, BornInv, Unborn
<1>4. PastInv'
  BY <1>1 DEF VaultInv, PastInv, Cites
<1> QED
  BY <1>1, <1>2, <1>3, <1>4 DEF VaultInv, Unborn, HasRow

(* Undo takes the history one step back.                                   *)
LEMMA Undone ==
  ASSUME VaultInv, NEW m \in Memories, past[m] # <<>>,
         fresh' = fresh, notes' = [notes EXCEPT ![m] = Head(past[m])],
         past' = [past EXCEPT ![m] = Tail(@)],
         rows' = [rows EXCEPT ![m].status = IF Head(past[m]) = NoNote THEN "reverted"
                                            ELSE Head(past[m]).status]
  PROVE  /\ VaultInv'
         /\ \A x \in Memories : Unborn(x) => Unborn(x)'
         /\ notes[m] # NoNote
         /\ Head(past[m]) # NoNote => Head(past[m]).cites = notes[m].cites
<1> USE NothingAssumption
<1>1. past[m] \in Seq(Notes \cup {NoNote}) /\ notes[m] # NoNote /\ rows[m] \in MemoryRows
  BY DEF VaultInv, VaultType, BornInv
<1>2. /\ Tail(past[m]) \in Seq(Notes \cup {NoNote})
      /\ Head(past[m]) = past[m][1] /\ Head(past[m]) \in Notes \cup {NoNote}
      /\ Len(past[m]) \in Nat /\ Len(past[m]) >= 1
      /\ Len(Tail(past[m])) = Len(past[m]) - 1
      /\ Len(past[m]) = 1 => Tail(past[m]) = <<>>
      /\ \A i \in 1..Len(past[m]) - 1 : Tail(past[m])[i] = past[m][i + 1]
  BY <1>1, PopType
<1>3. 1 \in 1..Len(past[m])
  BY <1>2
<1>4. /\ Head(past[m]) = NoNote => Len(past[m]) = 1
      /\ Head(past[m]) # NoNote => Head(past[m]).cites = notes[m].cites
  BY <1>1, <1>2, <1>3 DEF VaultInv, PastInv, Cites
<1>5. /\ notes' \in [Memories -> Notes \cup {NoNote}] /\ notes'[m] = Head(past[m])
      /\ past' \in [Memories -> Seq(Notes \cup {NoNote})] /\ past'[m] = Tail(past[m])
      /\ \A x \in Memories \ {m} : notes'[x] = notes[x] /\ past'[x] = past[x]
  BY <1>2 DEF VaultInv, VaultType
<1>6. /\ rows' \in [Memories -> MemoryRows \cup {NoRow}] /\ rows'[m] # NoRow
      /\ \A x \in Memories \ {m} : rows'[x] = rows[x]
  BY <1>1, <1>2 DEF VaultInv, VaultType, MemoryRows, Notes, Statuses, Dead
<1>7. VaultType'
  BY <1>5, <1>6 DEF VaultInv, VaultType
<1>8. BornInv'
  BY <1>1, <1>2, <1>4, <1>5, <1>6 DEF VaultInv, BornInv, Unborn
<1>9. PastInv'
  <2>1. ASSUME NEW x \in Memories \ {m}
        PROVE  /\ notes'[x] # NoNote => x \notin notes'[x].cites
               /\ \A i \in 1..Len(past'[x]) : /\ past'[x][i] = NoNote => i = Len(past'[x])
                                              /\ Cites(x, past[x][i])'
    BY <1>5 DEF VaultInv, PastInv, Cites
  <2>2. notes'[m] # NoNote => m \notin notes'[m].cites
    BY <1>1, <1>4, <1>5 DEF VaultInv, PastInv
  <2>3. ASSUME NEW i \in 1..Len(past'[m])
        PROVE  (past'[m][i] = NoNote => i = Len(past'[m])) /\ Cites(m, past[m][i])'
    <3>1. i + 1 \in 1..Len(past[m]) /\ past'[m][i] = past[m][i + 1] /\ Len(past'[m]) = Len(past[m]) - 1
      BY <1>2, <1>5
    <3>2. (past[m][i + 1] = NoNote => i + 1 = Len(past[m])) /\ Cites(m, past[m][i + 1])
      BY <3>1 DEF VaultInv, PastInv
    <3> QED
      BY <1>1, <1>4, <1>5, <3>1, <3>2 DEF Cites
  <2> QED
    BY <2>1, <2>2, <2>3 DEF PastInv
<1> QED
  BY <1>1, <1>4, <1>5, <1>6, <1>7, <1>8, <1>9 DEF VaultInv, Unborn

-----------------------------------------------------------------------------
(* Every step keeps the types and what each host has in hand.              *)

Turns(h, s, j) ==
  /\ pc'[h] = s /\ job'[h] = j
  /\ \A g \in Hosts \ {h} : pc'[g] = pc[g] /\ job'[g] = job[g]

LEMMA Acts ==
  ASSUME IInv, NEW h \in left.hosts, LeftInv', Fixed, VaultInv', relations' \subseteq Edges,
         ConflictsType', NEW s \in Steps, NEW j, IsJob(j), Goto(h, s, j), JobAt(s, j)',
         fresh' \subseteq fresh,
         \A g \in Hosts, x \in Memories : g # h /\ pc[g] = "create" /\ job[g].mem = x =>
           Unborn(x)' /\ (s = "create" => x # j.mem)
  PROVE  IInv' /\ Turns(h, s, j)
<1>1. \A g \in Hosts, x \in Memories :
        g # h /\ pc[g] = "create" /\ job[g].mem = x => Unborn(x)' /\ x \notin fresh'
  BY DEF IInv, JobInv, JobAt, Making
<1>2. left'.hosts = left.hosts
  BY DEF Fixed
<1>3. /\ pc' \in [Hosts -> Steps]
      /\ job' = [g \in Hosts |-> job'[g]] /\ \A g \in Hosts : IsJob(job'[g])
      /\ IdleInv' /\ JobInv' /\ Turns(h, s, j)
  BY <1>1, <1>2, Moves DEF Turns
<1>4. MakersInv'
  <2>1. ASSUME NEW f \in Hosts, NEW g \in Hosts, pc'[f] = "create", pc'[g] = "create",
               job'[f].mem = job'[g].mem
        PROVE  f = g
    <3>1. CASE f # h /\ g # h
      BY <1>3, <2>1, <3>1 DEF Turns, IInv, MakersInv
    <3>2. ASSUME NEW k \in Hosts, k # h, pc'[k] = "create", pc'[h] = "create",
                 job'[k].mem = job'[h].mem
          PROVE  FALSE
      <4>1. pc[k] = "create" /\ s = "create" /\ job[k].mem = j.mem
        BY <1>3, <3>2 DEF Turns
      <4>2. job[k].mem \in Memories
        BY <4>1 DEF IInv, JobInv, JobAt
      <4> QED
        BY <3>2, <4>1, <4>2
    <3> QED
      BY <2>1, <3>1, <3>2
  <2> QED
    BY <2>1 DEF MakersInv
<1>5. \A g \in Hosts : IsJob(job[g])'
  BY <1>3 DEF IsJob
<1>6. IInv'
  BY <1>3, <1>4, <1>5 DEF IInv, TypeOK, VaultInv, VaultType, ConflictsType
<1> QED
  BY <1>3, <1>6

(* A step that writes no memory.                                           *)
LEMMA Quiet ==
  ASSUME IInv, NEW h \in left.hosts, LeftInv', Fixed, UNCHANGED <<fresh, notes, rows, past>>,
         relations' \subseteq Edges, ConflictsType',
         NEW s \in Steps \ {"create"}, NEW j, IsJob(j), JobAt(s, j), Goto(h, s, j)
  PROVE  IInv' /\ Turns(h, s, j)
<1>1. VaultInv'
  BY Parts DEF VaultInv, VaultType, BornInv, PastInv, Unborn, Cites
<1>2. JobAt(s, j)'
  BY DEF JobAt
<1>3. \A g \in Hosts, x \in Memories : g # h /\ pc[g] = "create" /\ job[g].mem = x =>
        Unborn(x)' /\ (s = "create" => x # j.mem)
  BY DEF IInv, JobInv, JobAt, Making, Unborn
<1> QED
  BY <1>1, <1>2, <1>3, Acts

(* What a step starts from.                                                *)
LEMMA Given ==
  ASSUME IInv, NEW h \in left.hosts
  PROVE  /\ h \in Hosts /\ IsJob(job[h]) /\ JobAt(pc[h], job[h]) /\ pc[h] \in Steps
         /\ relations \subseteq Edges /\ ConflictsType /\ VaultInv /\ LeftInv
BY Parts DEF LeftInv, JobInv

LEMMA Spent ==
  ASSUME IInv, NEW h, NEW b \in Bounds, Spend(h, b)
  PROVE  LeftInv' /\ Fixed /\ pc[h] = "idle"
BY SpendLeft DEF Spend, IInv

LEMMA SameConflicts == ConflictsType /\ UNCHANGED conflicts => ConflictsType'
BY DEF ConflictsType

LEMMA CrashActs == ASSUME IInv, NEW h \in left.hosts, Crash(h) PROVE IInv' /\ Turns(h, "idle", Idle)
<1>1. LeftInv' /\ Fixed
  BY SpendLeft DEF Crash, IInv, Bounds
<1> QED
  BY <1>1, Given, IdleJob, Quiet, SameConflicts DEF Crash, Done, Steps

LEMMA DistillRelateActs ==
  ASSUME IInv, NEW h \in left.hosts, DistillRelate(h)
  PROVE  /\ IInv'
         /\ \/ \E s \in job[h].todo : /\ relations' = relations \cup {<<job[h].mem, s>>}
                                      /\ Turns(h, "relate", [job[h] EXCEPT !.todo = @ \ {s}])
            \/ job[h].todo = {} /\ UNCHANGED relations /\ Turns(h, "check", job[h])
<1>1. LeftInv' /\ Fixed /\ ConflictsType'
  BY SameLeft, Given, SameConflicts DEF DistillRelate, IInv
<1>2. /\ IsJob(job[h]) /\ job[h].mem \in Memories /\ job[h].kind = "distill"
      /\ job[h].mem \notin job[h].todo
  BY Given DEF DistillRelate, JobAt
<1>3. CASE \E s \in job[h].todo :
             /\ relations' = relations \cup {<<job[h].mem, s>>}
             /\ Goto(h, "relate", [job[h] EXCEPT !.todo = @ \ {s}])
  <2>1. PICK s \in job[h].todo :
             /\ relations' = relations \cup {<<job[h].mem, s>>}
             /\ Goto(h, "relate", [job[h] EXCEPT !.todo = @ \ {s}])
    BY <1>3
  <2>2. relations' \subseteq Edges
    BY <1>2, <2>1, Given DEF IsJob, Edges
  <2> DEFINE j == [job[h] EXCEPT !.todo = @ \ {s}]
  <2>3. IsJob(j) /\ JobAt("relate", j)
    BY <1>2 DEF IsJob, JobAt
  <2> HIDE DEF j
  <2>4. IInv' /\ Turns(h, "relate", j)
    BY <1>1, <2>1, <2>2, <2>3, Quiet DEF DistillRelate, Steps, j
  <2> QED
    BY <2>1, <2>4 DEF j
<1>4. CASE job[h].todo = {} /\ Goto(h, "check", job[h]) /\ UNCHANGED relations
  <2>1. JobAt("check", job[h])
    BY <1>2 DEF JobAt
  <2> QED
    BY <1>1, <1>2, <1>4, <2>1, Given, Quiet DEF DistillRelate, Steps
<1> QED
  BY <1>3, <1>4 DEF DistillRelate

LEMMA CheckActs ==
  ASSUME IInv, NEW h \in left.hosts, Check(h)
  PROVE  /\ IInv' /\ DOMAIN conflicts \subseteq DOMAIN conflicts'
         /\ conflicts' = Checked(job[h].mem) /\ job[h].mem \in Memories
         /\ Turns(h, "stale", job[h]) \/ Turns(h, "idle", Idle)
<1>1. LeftInv' /\ Fixed /\ IsJob(job[h]) /\ job[h].mem \in Memories
  BY SameLeft, Given DEF Check, IInv, JobAt
<1>2. ConflictsType' /\ DOMAIN conflicts \subseteq DOMAIN conflicts'
  BY <1>1, CheckedType, Given DEF Check
<1>3. CASE job[h].kind = "revise"
  <2>1. JobAt("stale", job[h])
    BY <1>1, <1>3, Given DEF JobAt, Check
  <2> QED
    BY <1>1, <1>2, <1>3, <2>1, Given, Quiet DEF Check, Steps
<1>4. CASE job[h].kind # "revise"
  BY <1>1, <1>2, <1>4, Given, Quiet, IdleJob DEF Check, Steps, Done
<1> QED
  BY <1>3, <1>4

LEMMA StalenessActs ==
  ASSUME IInv, NEW h \in left.hosts, CheckSourceStaleness(h)
  PROVE  /\ IInv' /\ DOMAIN conflicts \subseteq DOMAIN conflicts' /\ Turns(h, "idle", Idle)
<1>1. LeftInv' /\ Fixed
  BY SameLeft DEF CheckSourceStaleness, IInv
<1>2. conflicts' = conflicts \/ conflicts' = Flagged(job[h].mem, Status(job[h].mem))
  BY DEF CheckSourceStaleness
<1>3. ConflictsType' /\ DOMAIN conflicts \subseteq DOMAIN conflicts'
  BY <1>2, Given, FlaggedType, SameConflicts
<1> QED
  BY <1>1, <1>3, Given, Quiet, IdleJob DEF CheckSourceStaleness, Steps, Done

LEMMA FlagActs ==
  ASSUME IInv, NEW h \in left.hosts, FlagCitingDistillations(h)
  PROVE  /\ IInv' /\ DOMAIN conflicts \subseteq DOMAIN conflicts' /\ Turns(h, "idle", Idle)
         /\ notes[job[h].mem] # NoNote => \A d \in Citing(job[h].mem) :
              StaleKey(d, job[h].mem, job[h].kind) \in DOMAIN conflicts'
<1>1. LeftInv' /\ Fixed
  BY SameLeft DEF FlagCitingDistillations, IInv
<1>2. /\ notes[job[h].mem] = NoNote => conflicts' = conflicts
      /\ notes[job[h].mem] # NoNote => conflicts' = Flagged(job[h].mem, job[h].kind)
  BY DEF FlagCitingDistillations
<1>3. /\ ConflictsType' /\ DOMAIN conflicts \subseteq DOMAIN conflicts'
      /\ notes[job[h].mem] # NoNote => \A d \in Citing(job[h].mem) :
              StaleKey(d, job[h].mem, job[h].kind) \in DOMAIN conflicts'
  BY <1>2, Given, FlaggedType, SameConflicts
<1> QED
  BY <1>1, <1>3, Given, Quiet, IdleJob DEF FlagCitingDistillations, Steps, Done

LEMMA TransitionReadActs ==
  ASSUME IInv, NEW h \in left.hosts, NEW k, NEW next \in {"resolved", "dismissed"},
         TransitionRead(h, k, next)
  PROVE  IInv' /\ pc[h] = "idle" /\ \E j : Turns(h, next, j)
<1>1. LeftInv' /\ Fixed /\ pc[h] = "idle"
  BY Spent DEF TransitionRead, Bounds
<1> DEFINE j == [Idle EXCEPT !.kind = "close", !.key = <<k>>]
<1>2. IsJob(j) /\ JobAt(next, j)
  <2>1. /\ j.kind = "close" /\ j.mem = NoMem /\ j.before = NoNote /\ j.after = NoNote
        /\ j.todo = {}
    BY IdleFields DEF Shape
  <2>2. Shape(j)
    BY IdleFields, Shapes
  <2> HIDE DEF j
  <2> QED
    BY <2>1, <2>2 DEF JobAt, IsJob, Shape
<1> HIDE DEF j
<1>3. Goto(h, next, j)
  BY DEF TransitionRead, j
<1> QED
  BY <1>1, <1>2, <1>3, Given, Quiet, SameConflicts DEF TransitionRead, Steps

LEMMA TransitionWriteActs ==
  ASSUME IInv, NEW h \in left.hosts, TransitionWrite(h)
  PROVE  /\ IInv' /\ DOMAIN conflicts \subseteq DOMAIN conflicts' /\ Turns(h, "idle", Idle)
<1>1. LeftInv' /\ Fixed
  BY SameLeft DEF TransitionWrite, IInv
<1>2. ConflictsType' /\ DOMAIN conflicts \subseteq DOMAIN conflicts'
  BY Given DEF TransitionWrite, ConflictsType
<1> QED
  BY <1>1, <1>2, Given, Quiet, IdleJob DEF TransitionWrite, Steps, Done

LEMMA AuditStartActs ==
  ASSUME IInv, NEW h \in left.hosts, AuditStart(h)
  PROVE  /\ IInv' /\ pc[h] = "idle"
         /\ \E j : j.todo = relations /\ Turns(h, "audit", j)
<1>1. LeftInv' /\ Fixed /\ pc[h] = "idle"
  BY Spent DEF AuditStart, Bounds
<1> DEFINE j == [Idle EXCEPT !.kind = "audit", !.todo = relations]
<1>2. IsJob(j) /\ JobAt("audit", j) /\ j.todo = relations
  <2>1. /\ j.kind = "audit" /\ j.mem = NoMem /\ j.before = NoNote /\ j.after = NoNote
        /\ j.todo = relations
    BY IdleFields DEF Shape
  <2>2. Shape(j)
    BY IdleFields, Shapes
  <2> HIDE DEF j
  <2> QED
    BY <2>1, <2>2, Given DEF JobAt, IsJob, Shape
<1> HIDE DEF j
<1>3. Goto(h, "audit", j)
  BY DEF AuditStart, j
<1> QED
  BY <1>1, <1>2, <1>3, Given, Quiet, SameConflicts DEF AuditStart, Steps

LEMMA RescanStartActs ==
  ASSUME IInv, NEW h \in left.hosts, RescanStart(h)
  PROVE  /\ IInv' /\ pc[h] = "idle"
         /\ \E j : /\ j.todo = {m \in Memories : HasRow(m) /\ Status(m) \notin Dead}
                   /\ Turns(h, "rescan", j)
<1>1. LeftInv' /\ Fixed /\ pc[h] = "idle"
  BY Spent DEF RescanStart, Bounds
<1> DEFINE S == {m \in Memories : HasRow(m) /\ Status(m) \notin Dead}
           j == [Idle EXCEPT !.kind = "rescan", !.todo = S]
<1>2. IsJob(j) /\ JobAt("rescan", j) /\ j.todo = S
  <2>1. S \subseteq Memories
    OBVIOUS
  <2> HIDE DEF S
  <2> QED
    <3>1. /\ j.kind = "rescan" /\ j.mem = NoMem /\ j.before = NoNote /\ j.after = NoNote
          /\ j.todo = S
      BY IdleFields DEF Shape
    <3>2. Shape(j)
      BY IdleFields, Shapes
    <3> HIDE DEF j
    <3> QED
      BY <2>1, <3>1, <3>2 DEF JobAt, IsJob, Shape
<1>3. Goto(h, "rescan", j)
  BY DEF RescanStart
<1> HIDE DEF S, j
<1>4. IInv' /\ Turns(h, "rescan", j)
  BY <1>1, <1>2, <1>3, Given, Quiet, SameConflicts DEF RescanStart, Steps
<1> QED
  BY <1>1, <1>2, <1>4 DEF S

(* What the audit asks of an edge, and the row that it adds.               *)
LEMMA AuditEdgeActs ==
  ASSUME IInv, NEW h \in left.hosts, AuditEdge(h)
  PROVE  /\ IInv' /\ DOMAIN conflicts \subseteq DOMAIN conflicts'
         /\ \/ \E e \in job[h].todo :
                 /\ Dangling(e) => StaleKey(e[1], e[2], Status(e[2])) \in DOMAIN conflicts'
                 /\ \E j : j.todo = job[h].todo \ {e} /\ Turns(h, "audit", j)
            \/ job[h].todo = {} /\ UNCHANGED conflicts /\ Turns(h, "idle", Idle)
<1>1. LeftInv' /\ Fixed /\ relations' \subseteq Edges
  BY SameLeft, Given DEF AuditEdge, IInv
<1>2. IsJob(job[h]) /\ job[h].kind = "audit" /\ job[h].todo \subseteq Edges
  BY Given DEF AuditEdge, JobAt, IsJob
<1>3. ASSUME NEW e \in job[h].todo,
             conflicts' = IF Dangling(e) THEN Inserted({StaleKey(e[1], e[2], Status(e[2]))})
                          ELSE conflicts,
             Goto(h, "audit", [job[h] EXCEPT !.todo = @ \ {e}])
      PROVE  /\ IInv' /\ DOMAIN conflicts \subseteq DOMAIN conflicts'
             /\ Dangling(e) => StaleKey(e[1], e[2], Status(e[2])) \in DOMAIN conflicts'
             /\ \E j : j.todo = job[h].todo \ {e} /\ Turns(h, "audit", j)
  <2>1. IsKey(StaleKey(e[1], e[2], Status(e[2])))
    BY <1>2, StaleKeyType DEF Edges
  <2>2. /\ ConflictsType' /\ DOMAIN conflicts \subseteq DOMAIN conflicts'
        /\ Dangling(e) => StaleKey(e[1], e[2], Status(e[2])) \in DOMAIN conflicts'
    <3> DEFINE k == StaleKey(e[1], e[2], Status(e[2]))
    <3> HIDE DEF k
    <3>1. ConflictsType /\ IsKey(k) /\ conflicts' = IF Dangling(e) THEN Inserted({k}) ELSE conflicts
      BY <1>3, <2>1, Given DEF k
    <3>2. CASE Dangling(e)
      <4>1. \A x \in {k} : IsKey(x)
        BY <3>1
      <4>2. ConflictsType' /\ DOMAIN conflicts' = DOMAIN conflicts \cup {k}
        BY <3>1, <3>2, <4>1, InsertedType
      <4> QED
        BY <4>2 DEF k
    <3>3. CASE ~Dangling(e)
      BY <3>1, <3>3, SameConflicts
    <3> QED
      BY <3>2, <3>3
  <2> DEFINE j == [job[h] EXCEPT !.todo = @ \ {e}]
  <2>3. IsJob(j) /\ JobAt("audit", j) /\ j.todo = job[h].todo \ {e}
    BY <1>2 DEF IsJob, JobAt
  <2> HIDE DEF j
  <2>4. Goto(h, "audit", j)
    BY <1>3 DEF j
  <2>5. IInv' /\ Turns(h, "audit", j)
    BY <1>1, <2>2, <2>3, <2>4, Quiet DEF AuditEdge, Steps
  <2> QED
    BY <2>2, <2>3, <2>5
<1>4. CASE \E e \in job[h].todo :
             /\ conflicts' = IF Dangling(e) THEN Inserted({StaleKey(e[1], e[2], Status(e[2]))})
                             ELSE conflicts
             /\ Goto(h, "audit", [job[h] EXCEPT !.todo = @ \ {e}])
  BY <1>3, <1>4
<1>5. CASE job[h].todo = {} /\ Done(h) /\ UNCHANGED conflicts
  BY <1>1, <1>5, Given, Quiet, IdleJob, SameConflicts DEF AuditEdge, Steps, Done
<1> QED
  BY <1>4, <1>5 DEF AuditEdge, Dangling, DeadNow

LEMMA RescanMemoryActs ==
  ASSUME IInv, NEW h \in left.hosts, RescanMemory(h)
  PROVE  /\ IInv' /\ DOMAIN conflicts \subseteq DOMAIN conflicts'
         /\ \/ \E m \in job[h].todo : /\ m \in Memories /\ conflicts' = Checked(m)
                                      /\ \E j : j.todo = job[h].todo \ {m} /\ Turns(h, "rescan", j)
            \/ job[h].todo = {} /\ UNCHANGED conflicts /\ Turns(h, "idle", Idle)
<1>1. LeftInv' /\ Fixed /\ relations' \subseteq Edges
  BY SameLeft, Given DEF RescanMemory, IInv
<1>2. IsJob(job[h]) /\ job[h].kind # "audit" /\ job[h].todo \subseteq Memories
  BY Given DEF RescanMemory, JobAt, IsJob
<1>3. ASSUME NEW m \in job[h].todo, conflicts' = Checked(m),
             Goto(h, "rescan", [job[h] EXCEPT !.todo = @ \ {m}])
      PROVE  /\ IInv' /\ DOMAIN conflicts \subseteq DOMAIN conflicts'
             /\ \E j : j.todo = job[h].todo \ {m} /\ Turns(h, "rescan", j)
  <2>1. ConflictsType' /\ DOMAIN conflicts \subseteq DOMAIN conflicts'
    BY <1>2, <1>3, Given, CheckedType
  <2> DEFINE j == [job[h] EXCEPT !.todo = @ \ {m}]
  <2>2. IsJob(j) /\ JobAt("rescan", j) /\ j.todo = job[h].todo \ {m}
    BY <1>2, Given, SMTT(30) DEF IsJob, JobAt, RescanMemory
  <2> HIDE DEF j
  <2>3. Goto(h, "rescan", j)
    BY <1>3 DEF j
  <2>4. IInv' /\ Turns(h, "rescan", j)
    BY <1>1, <2>1, <2>2, <2>3, Quiet DEF RescanMemory, Steps
  <2> QED
    BY <2>1, <2>2, <2>4
<1>4. CASE \E m \in job[h].todo :
             /\ conflicts' = Checked(m)
             /\ Goto(h, "rescan", [job[h] EXCEPT !.todo = @ \ {m}])
  BY <1>2, <1>3, <1>4
<1>5. CASE job[h].todo = {} /\ Done(h) /\ UNCHANGED conflicts
  BY <1>1, <1>5, Given, Quiet, IdleJob, SameConflicts DEF RescanMemory, Steps, Done
<1> QED
  BY <1>4, <1>5 DEF RescanMemory

LEMMA RememberActs ==
  ASSUME IInv, NEW h \in left.hosts, NEW m \in left.memories, NEW t \in left.texts,
         NEW sup \in left.memories \cup {NoMem}, Remember(h, m, t, sup)
  PROVE  /\ IInv' /\ pc[h] = "idle" /\ Unborn(m) /\ m \in Memories
         /\ \E j : Turns(h, "check", j)
<1>1. LeftInv' /\ Fixed /\ pc[h] = "idle"
  BY Spent DEF Remember, Bounds
<1>2. /\ m \in Memories /\ t \in Texts /\ sup \in Memories \cup {NoMem} /\ VaultInv /\ Unborn(m)
      /\ h \in Hosts
  BY Given DEF LeftInv, Remember, VaultInv, BornInv
<1> DEFINE n == [status |-> "scratch", text |-> t, cites |-> {}]
           r == [status |-> "scratch", supersedes |-> sup]
           j == [Idle EXCEPT !.kind = "remember", !.mem = m]
<1>3. n \in Notes /\ m \notin n.cites /\ r \in MemoryRows
  BY <1>2 DEF Notes, MemoryRows, Statuses
<1>4. /\ j.kind = "remember" /\ j.mem = m /\ j.before = NoNote /\ j.after = NoNote /\ j.todo = {}
      /\ Shape(j)
  <2>1. Shape(j)
    BY IdleFields, Shapes
  <2> QED
    BY <2>1, IdleFields DEF Shape
<1>5. /\ notes' = [notes EXCEPT ![m] = n] /\ rows' = [rows EXCEPT ![m] = r]
      /\ past' = [past EXCEPT ![m] = <<NoNote>>]
      /\ fresh' = fresh \ {m} /\ Goto(h, "check", j) /\ UNCHANGED <<relations, conflicts>>
  BY DEF Remember
<1> HIDE DEF n, r, j
<1>6. VaultInv' /\ \A x \in Memories \ {m} : Unborn(x) => Unborn(x)'
  BY <1>2, <1>3, <1>5, Created
<1>7. IsJob(j) /\ JobAt("check", j)'
  BY <1>2, <1>4 DEF IsJob, JobAt, Shape
<1>8. \A g \in Hosts, x \in Memories : g # h /\ pc[g] = "create" /\ job[g].mem = x => Unborn(x)'
  <2> SUFFICES ASSUME NEW g \in Hosts, pc[g] = "create" PROVE Unborn(job[g].mem) /\ job[g].mem # m
    BY <1>6
  <2> QED
    BY DEF IInv, JobInv, JobAt, Making, Remember
<1>9. relations' \subseteq Edges /\ ConflictsType'
  BY <1>5, Given, SameConflicts
<1> HIDE DEF Remember
<1>10. IInv' /\ Turns(h, "check", j)
  BY <1>1, <1>5, <1>6, <1>7, <1>8, <1>9, Acts DEF Steps
<1> QED
  BY <1>1, <1>2, <1>10

LEMMA DistillBeginActs ==
  ASSUME IInv, NEW h \in left.hosts, NEW m \in left.memories, NEW t \in left.texts,
         NEW sources \in SUBSET left.memories, DistillBegin(h, m, t, sources)
  PROVE  IInv' /\ pc[h] = "idle" /\ \E j : Turns(h, "create", j)
<1>1. LeftInv' /\ Fixed /\ pc[h] = "idle"
  BY Spent DEF DistillBegin, Bounds
<1>2. /\ m \in Memories /\ t \in Texts /\ sources \subseteq Memories /\ VaultInv /\ Unborn(m)
      /\ h \in Hosts
  BY Given DEF LeftInv, DistillBegin, VaultInv, BornInv
<1> DEFINE n == [status |-> "scratch", text |-> t, cites |-> sources]
           j == [Idle EXCEPT !.kind = "distill", !.mem = m, !.todo = sources, !.after = n]
<1>3. /\ n \in Notes /\ n.status = "scratch" /\ n.cites = sources /\ n # NoNote
  BY <1>2, NothingAssumption DEF Notes, Statuses
<1>4. /\ j.kind = "distill" /\ j.mem = m /\ j.before = NoNote /\ j.after = n /\ j.todo = sources
      /\ Shape(j)
  <2>1. Shape(j)
    BY IdleFields, Shapes
  <2> QED
    BY <2>1, IdleFields DEF Shape
<1>5. /\ fresh' = fresh \ {m} /\ Goto(h, "create", j)
      /\ UNCHANGED <<notes, rows, relations, conflicts, past>>
  BY DEF DistillBegin
<1>6. m \notin sources
  BY <1>2 DEF DistillBegin, Unborn, Status, HasRow, Citable
<1> HIDE DEF n, j
<1>7. VaultInv'
  BY <1>2, <1>5 DEF VaultInv, VaultType, BornInv, PastInv, Unborn, Cites
<1>8. IsJob(j)
  BY <1>2, <1>3, <1>4 DEF IsJob, Shape
<1>9. Making(m, j)'
  BY <1>2, <1>3, <1>4, <1>5, <1>6 DEF Making, Unborn
<1>10. JobAt("create", j)'
  BY <1>2, <1>4, <1>9 DEF JobAt
<1>11. \A g \in Hosts, x \in Memories : g # h /\ pc[g] = "create" /\ job[g].mem = x =>
         Unborn(x)' /\ x # j.mem
  BY <1>4, <1>5 DEF IInv, JobInv, JobAt, Making, DistillBegin, Unborn
<1>12. relations' \subseteq Edges /\ ConflictsType'
  BY <1>5, Given, SameConflicts
<1>13. IInv' /\ Turns(h, "create", j)
  BY <1>1, <1>5, <1>7, <1>8, <1>10, <1>11, <1>12, Acts DEF Steps
<1> QED
  BY <1>1, <1>13

LEMMA DistillCreateActs ==
  ASSUME IInv, NEW h \in left.hosts, DistillCreate(h)
  PROVE  /\ IInv' /\ pc[h] = "create" /\ Turns(h, "relate", job[h])
         /\ job[h].mem \in Memories /\ Making(job[h].mem, job[h]) /\ job[h].after \in Notes
<1>1. LeftInv' /\ Fixed /\ pc[h] = "create" /\ h \in Hosts
  BY SameLeft, Given DEF DistillCreate, IInv
<1>2. /\ IsJob(job[h]) /\ job[h].mem \in Memories /\ job[h].kind = "distill"
      /\ Making(job[h].mem, job[h]) /\ job[h].after \in Notes
  BY <1>1, Given DEF JobAt, IsJob, Making
<1>0. PICK j : j = job[h]
  OBVIOUS
<1>3. PICK m \in Memories : j = job[h] /\ m = job[h].mem
  BY <1>2, <1>0
<1> DEFINE r == [status |-> "scratch", supersedes |-> NoMem]
<1>4. /\ notes' = [notes EXCEPT ![m] = j.after] /\ rows' = [rows EXCEPT ![m] = r]
      /\ past' = [past EXCEPT ![m] = <<NoNote>>]
      /\ Goto(h, "relate", j) /\ UNCHANGED <<fresh, relations, conflicts>>
  BY <1>3 DEF DistillCreate
<1>5. r \in MemoryRows
  BY DEF MemoryRows, Statuses
<1> HIDE DEF r
<1>6. fresh' = fresh \ {m} /\ Unborn(m) /\ m \notin j.after.cites /\ VaultInv
  BY <1>2, <1>3, <1>4, Given DEF Making
<1>7. VaultInv' /\ \A x \in Memories \ {m} : Unborn(x) => Unborn(x)'
  BY <1>2, <1>3, <1>4, <1>5, <1>6, Created
<1>8. IsJob(j) /\ JobAt("relate", j)'
  BY <1>2, <1>3 DEF JobAt, Making
<1>9. \A g \in Hosts, x \in Memories : g # h /\ pc[g] = "create" /\ job[g].mem = x => Unborn(x)'
  <2> SUFFICES ASSUME NEW g \in Hosts, g # h, pc[g] = "create"
               PROVE  Unborn(job[g].mem) /\ job[g].mem # m
    BY <1>7
  <2>1. Unborn(job[g].mem)
    BY DEF IInv, JobInv, JobAt, Making
  <2>2. job[g].mem # m
    BY <1>1, <1>3 DEF IInv, MakersInv
  <2> QED
    BY <2>1, <2>2
<1>10. relations' \subseteq Edges /\ ConflictsType'
  BY <1>4, Given, SameConflicts
<1>11. IInv' /\ Turns(h, "relate", j)
  BY <1>1, <1>4, <1>7, <1>8, <1>9, <1>10, Acts DEF Steps
<1> QED
  BY <1>1, <1>2, <1>3, <1>11

LEMMA ReviseBeginActs ==
  ASSUME IInv, NEW h \in left.hosts, NEW m \in left.memories, NEW t \in left.texts,
         ReviseBegin(h, m, t)
  PROVE  IInv' /\ pc[h] = "idle" /\ \E j : Turns(h, "patch", j)
<1>1. LeftInv' /\ Fixed /\ pc[h] = "idle"
  BY Spent DEF ReviseBegin, Bounds
<1>2. /\ m \in Memories /\ t \in Texts /\ notes[m] \in Notes /\ h \in Hosts
  BY Given DEF LeftInv, ReviseBegin, VaultInv, VaultType
<1> DEFINE n == [notes[m] EXCEPT !.text = t]
           j == [Idle EXCEPT !.kind = "revise", !.mem = m, !.before = notes[m], !.after = n]
<1>3. n \in Notes /\ n.status = notes[m].status /\ n.cites = notes[m].cites
  BY <1>2 DEF Notes
<1>4. /\ j.kind = "revise" /\ j.mem = m /\ j.before = notes[m] /\ j.after = n /\ j.todo = {}
      /\ Shape(j)
  <2>1. Shape(j)
    BY IdleFields, Shapes
  <2> QED
    BY <2>1, IdleFields DEF Shape
<1>5. Goto(h, "patch", j) /\ UNCHANGED <<fresh, notes, rows, relations, conflicts, past>>
  BY DEF ReviseBegin
<1> HIDE DEF n, j
<1>6. IsJob(j)
  BY <1>2, <1>3, <1>4 DEF IsJob, Shape
<1>7. JobAt("patch", j)
  BY <1>2, <1>3, <1>4, NothingAssumption DEF JobAt
<1>8. relations' \subseteq Edges /\ ConflictsType'
  BY <1>5, Given, SameConflicts
<1>9. IInv' /\ Turns(h, "patch", j)
  BY <1>1, <1>5, <1>6, <1>7, <1>8, Quiet DEF Steps
<1> QED
  BY <1>1, <1>9

LEMMA RevisePatchActs ==
  ASSUME IInv, NEW h \in left.hosts, RevisePatch(h)
  PROVE  /\ IInv'
         /\ \/ /\ Turns(h, "check", job[h]) /\ job[h].mem \in Memories
               /\ notes[job[h].mem] # NoNote /\ notes[job[h].mem] = job[h].before
               /\ job[h].after # NoNote /\ job[h].after.cites = job[h].before.cites
            \/ Turns(h, "idle", Idle) /\ UNCHANGED notes
<1>1. LeftInv' /\ Fixed /\ h \in Hosts
  BY SameLeft, Given DEF RevisePatch, IInv
<1>2. /\ IsJob(job[h]) /\ job[h].mem \in Memories /\ job[h].kind = "revise"
      /\ job[h].before # NoNote /\ job[h].after \in Notes /\ job[h].after # NoNote
      /\ job[h].after.cites = job[h].before.cites
  BY Given DEF RevisePatch, JobAt, IsJob
<1>3. ConflictsType' /\ relations' \subseteq Edges
  BY Given, SameConflicts DEF RevisePatch
<1>4. CASE notes[job[h].mem] = job[h].before
  <2>1. PICK j : j = job[h]
    OBVIOUS
  <2>2. PICK m \in Memories : m = j.mem
    BY <1>2, <2>1
  <2>3. /\ notes' = [notes EXCEPT ![m] = j.after] /\ rows' = rows /\ fresh' = fresh
        /\ past' = [past EXCEPT ![m] = <<notes[m]>> \o @] /\ Goto(h, "check", j)
    BY <1>4, <2>1, <2>2 DEF RevisePatch
  <2>4. VaultInv' /\ \A x \in Memories : Unborn(x) => Unborn(x)'
    <3>1. VaultInv /\ notes[m] # NoNote /\ j.after \in Notes /\ j.after.cites = notes[m].cites
      BY <1>2, <1>4, <2>1, <2>2, Given
    <3> QED
      BY <2>3, <3>1, Rewritten
  <2>5. IsJob(j) /\ JobAt("check", j)'
    BY <1>2, <2>1 DEF JobAt
  <2>6. \A g \in Hosts, x \in Memories : g # h /\ pc[g] = "create" /\ job[g].mem = x => Unborn(x)'
    BY <2>4 DEF IInv, JobInv, JobAt, Making
  <2>7. IInv' /\ Turns(h, "check", j)
    BY <1>1, <1>3, <2>3, <2>4, <2>5, <2>6, Acts DEF Steps
  <2> QED
    BY <1>2, <1>4, <2>1, <2>7
<1>5. CASE notes[job[h].mem] # job[h].before
  <2>1. Goto(h, "idle", Idle) /\ UNCHANGED <<fresh, notes, rows, past>>
    BY <1>5 DEF RevisePatch, Done
  <2> QED
    BY <1>1, <1>3, <2>1, IdleJob, Quiet DEF Steps
<1> QED
  BY <1>4, <1>5

(* A change of status, by a host that goes on to flag it or not.           *)
LEMMA StatusActs ==
  ASSUME IInv, NEW h \in left.hosts, LeftInv', Fixed, NEW m \in Memories, notes[m] # NoNote,
         NEW status \in Statuses,
         fresh' = fresh, notes' = [notes EXCEPT ![m] = [@ EXCEPT !.status = status]],
         rows' = [rows EXCEPT ![m].status = status],
         past' = [past EXCEPT ![m] = <<notes[m]>> \o @] \/ past' = [past EXCEPT ![m] = <<>>],
         UNCHANGED <<relations, conflicts>>,
         NEW s \in {"idle", "flag"}, NEW j, IsJob(j), JobAt(s, j), Goto(h, s, j)
  PROVE  IInv' /\ Turns(h, s, j)
<1> DEFINE n == [notes[m] EXCEPT !.status = status]
<1>1. n \in Notes /\ n.status = status /\ n.cites = notes[m].cites
  <2>1. notes[m] \in Notes
    BY Given DEF VaultInv, VaultType
  <2> QED
    BY <2>1 DEF Notes
<1>2. notes' = [notes EXCEPT ![m] = n] /\ rows' = [rows EXCEPT ![m].status = n.status]
  BY <1>1
<1> HIDE DEF n
<1>3. VaultInv' /\ \A x \in Memories : Unborn(x) => Unborn(x)'
  BY <1>1, <1>2, Given, Rewritten
<1>4. \A g \in Hosts, x \in Memories : g # h /\ pc[g] = "create" /\ job[g].mem = x => Unborn(x)'
  BY <1>3 DEF IInv, JobInv, JobAt, Making
<1>5. JobAt(s, j)' /\ relations' \subseteq Edges /\ ConflictsType'
  BY Given, SameConflicts DEF JobAt
<1> QED
  BY <1>3, <1>4, <1>5, Acts DEF Steps

LEMMA PromoteActs ==
  ASSUME IInv, NEW h \in left.hosts, NEW m \in left.memories, Promote(h, m)
  PROVE  IInv' /\ pc[h] = "idle" /\ m \in Memories /\ UNCHANGED <<pc, job>>
<1>1. LeftInv' /\ Fixed /\ pc[h] = "idle" /\ m \in Memories /\ h \in Hosts
  BY Spent, Given DEF Promote, Bounds, LeftInv
<1> DEFINE status == IF Status(m) = "scratch" THEN "working" ELSE "canonical"
<1>2. status \in Statuses
  BY DEF Statuses, Live
<1>3. [notes[m] EXCEPT !.status = status].status = status
  BY <1>1, Given DEF Promote, VaultInv, VaultType, Notes
<1>4. /\ fresh' = fresh /\ notes' = [notes EXCEPT ![m] = [@ EXCEPT !.status = status]]
      /\ rows' = [rows EXCEPT ![m].status = status]
      /\ past' = [past EXCEPT ![m] = <<notes[m]>> \o @]
      /\ notes[m] # NoNote /\ UNCHANGED <<relations, conflicts, pc, job>>
  BY <1>1, <1>3 DEF Promote, Land
<1> HIDE DEF status
<1>5. IsJob(job[h]) /\ JobAt("idle", job[h]) /\ Goto(h, "idle", job[h])
  <2>1. pc = [pc EXCEPT ![h] = "idle"] /\ job = [job EXCEPT ![h] = job[h]]
    BY <1>1 DEF IInv, TypeOK
  <2> QED
    BY <1>1, <1>4, <2>1, Given DEF Goto
<1>6. PICK j : j = job[h]
  OBVIOUS
<1>7. IInv'
  BY <1>1, <1>2, <1>4, <1>5, <1>6, StatusActs
<1> QED
  BY <1>1, <1>4, <1>7

(* The end of a memory, and what its host has to flag then.                *)
LEMMA RetireActs ==
  ASSUME IInv, NEW h \in left.hosts, NEW m \in left.memories, Retire(h, m)
  PROVE  /\ IInv' /\ pc[h] = "idle" /\ m \in Memories /\ notes[m] # NoNote
         /\ notes' = [notes EXCEPT ![m] = [@ EXCEPT !.status = "retired"]]
         /\ rows' = [rows EXCEPT ![m].status = "retired"]
         /\ \E j : j.kind = "retired" /\ j.mem = m /\ Turns(h, "flag", j)
<1>1. LeftInv' /\ Fixed /\ pc[h] = "idle" /\ m \in Memories /\ h \in Hosts
  BY Spent, Given DEF Retire, Bounds, LeftInv
<1> DEFINE j == [Idle EXCEPT !.kind = "retired", !.mem = m]
<1>2. /\ j.kind = "retired" /\ j.mem = m /\ j.before = NoNote /\ j.after = NoNote /\ j.todo = {}
      /\ Shape(j)
  <2>1. Shape(j)
    BY IdleFields, Shapes
  <2> QED
    BY <2>1, IdleFields DEF Shape
<1>3. [notes[m] EXCEPT !.status = "retired"].status = "retired"
  BY <1>1, Given DEF Retire, VaultInv, VaultType, Notes
<1>4. /\ fresh' = fresh /\ notes' = [notes EXCEPT ![m] = [@ EXCEPT !.status = "retired"]]
      /\ rows' = [rows EXCEPT ![m].status = "retired"]
      /\ past' = [past EXCEPT ![m] = <<notes[m]>> \o @]
      /\ notes[m] # NoNote /\ UNCHANGED <<relations, conflicts>> /\ Goto(h, "flag", j)
  BY <1>1, <1>3 DEF Retire, Land
<1> HIDE DEF j
<1>5. IsJob(j) /\ JobAt("flag", j)
  BY <1>1, <1>2 DEF IsJob, JobAt, Shape
<1>6. "retired" \in Statuses
  BY DEF Statuses, Dead
<1>7. IInv' /\ Turns(h, "flag", j)
  BY <1>1, <1>4, <1>5, <1>6, StatusActs
<1> QED
  BY <1>1, <1>2, <1>4, <1>7

LEMMA ForgetActs ==
  ASSUME IInv, NEW h \in left.hosts, NEW m \in left.memories, Forget(h, m)
  PROVE  /\ IInv' /\ pc[h] = "idle" /\ m \in Memories /\ notes[m] # NoNote
         /\ notes' = [notes EXCEPT ![m] = [@ EXCEPT !.status = "forgotten"]]
         /\ rows' = [rows EXCEPT ![m].status = "forgotten"]
         /\ \E j : j.kind = "forgotten" /\ j.mem = m /\ Turns(h, "flag", j)
<1>1. LeftInv' /\ Fixed /\ pc[h] = "idle" /\ m \in Memories /\ h \in Hosts
  BY Spent, Given DEF Forget, Bounds, LeftInv
<1> DEFINE j == [Idle EXCEPT !.kind = "forgotten", !.mem = m]
<1>2. /\ j.kind = "forgotten" /\ j.mem = m /\ j.before = NoNote /\ j.after = NoNote /\ j.todo = {}
      /\ Shape(j)
  <2>1. Shape(j)
    BY IdleFields, Shapes
  <2> QED
    BY <2>1, IdleFields DEF Shape
<1>3. /\ fresh' = fresh /\ notes' = [notes EXCEPT ![m] = [@ EXCEPT !.status = "forgotten"]]
      /\ rows' = [rows EXCEPT ![m].status = "forgotten"]
      /\ past' = [past EXCEPT ![m] = <<>>]
      /\ notes[m] # NoNote /\ UNCHANGED <<relations, conflicts>> /\ Goto(h, "flag", j)
  BY <1>1 DEF Forget
<1> HIDE DEF j
<1>4. IsJob(j) /\ JobAt("flag", j)
  BY <1>1, <1>2 DEF IsJob, JobAt, Shape
<1>5. "forgotten" \in Statuses
  BY DEF Statuses, Dead
<1>6. IInv' /\ Turns(h, "flag", j)
  BY <1>1, <1>3, <1>4, <1>5, StatusActs
<1> QED
  BY <1>1, <1>2, <1>3, <1>6

(* What happens between the steps of the hosts.                            *)
LEMMA Beside ==
  ASSUME IInv, LeftInv', Fixed, VaultInv', relations' \subseteq Edges, ConflictsType',
         fresh' \subseteq fresh, UNCHANGED <<pc, job>>,
         \A g \in Hosts, x \in Memories : pc[g] = "create" /\ job[g].mem = x => Unborn(x)'
  PROVE  IInv'
<1>1. JobInv'
  <2> SUFFICES ASSUME NEW g \in Hosts PROVE JobAt(pc[g], job[g])'
    BY DEF JobInv
  <2>1. JobAt(pc[g], job[g])
    BY DEF IInv, JobInv
  <2>2. ASSUME pc[g] = "create" PROVE Making(job[g].mem, job[g])'
    <3>1. PICK x \in Memories : x = job[g].mem
      BY <2>1, <2>2 DEF JobAt
    <3>2. Unborn(x)' /\ x \notin fresh'
      BY <2>1, <2>2, <3>1 DEF JobAt, Making
    <3> QED
      BY <2>1, <2>2, <3>1, <3>2 DEF JobAt, Making
  <2> QED
    BY <2>1, <2>2 DEF JobAt
<1>2. MakersInv' /\ IdleInv'
  BY DEF IInv, MakersInv, IdleInv, Fixed
<1>3. \A g \in Hosts : IsJob(job[g])'
  BY DEF IInv, TypeOK
<1>4. pc' \in [Hosts -> Steps] /\ job' = [g \in Hosts |-> job'[g]]
  BY DEF IInv, TypeOK
<1> QED
  BY <1>1, <1>2, <1>3, <1>4 DEF IInv, TypeOK, VaultInv, VaultType, ConflictsType

LEMMA UndoActs ==
  ASSUME IInv, NEW h \in left.hosts, NEW m \in left.memories, Undo(h, m)
  PROVE  /\ IInv' /\ pc[h] = "idle" /\ m \in Memories /\ UNCHANGED <<pc, job>>
         /\ notes[m] # NoNote
         /\ Head(past[m]) # NoNote => Head(past[m]).cites = notes[m].cites
<1>1. LeftInv' /\ Fixed /\ pc[h] = "idle" /\ m \in Memories
  BY Spent, Given DEF Undo, Bounds, LeftInv
<1>2. /\ fresh' = fresh /\ past[m] # <<>> /\ notes' = [notes EXCEPT ![m] = Head(past[m])]
      /\ past' = [past EXCEPT ![m] = Tail(@)]
      /\ rows' = [rows EXCEPT ![m].status = IF Head(past[m]) = NoNote THEN "reverted"
                                            ELSE Head(past[m]).status]
      /\ relations' \subseteq relations /\ UNCHANGED <<conflicts, pc, job>>
  BY DEF Undo
<1>3. /\ VaultInv' /\ \A x \in Memories : Unborn(x) => Unborn(x)'
      /\ notes[m] # NoNote
      /\ Head(past[m]) # NoNote => Head(past[m]).cites = notes[m].cites
  BY <1>1, <1>2, Given, Undone
<1>4. \A g \in Hosts, x \in Memories : pc[g] = "create" /\ job[g].mem = x => Unborn(x)'
  BY <1>3 DEF IInv, JobInv, JobAt, Making
<1>5. relations' \subseteq Edges /\ ConflictsType'
  BY <1>2, Given, SameConflicts
<1>6. IInv'
  BY <1>1, <1>2, <1>3, <1>4, <1>5, Beside
<1> QED
  BY <1>1, <1>2, <1>3, <1>6

LEMMA RebuildActs ==
  ASSUME IInv, Rebuild
  PROVE  /\ IInv' /\ AllIdle /\ UNCHANGED <<notes, pc, job>> /\ DOMAIN conflicts' = {}
         /\ \A d, s \in Memories : Cited(d, s) <=> <<d, s>> \in relations'
<1> USE NothingAssumption
<1>1. LeftInv' /\ Fixed /\ AllIdle
  BY SpendLeft DEF Rebuild, IInv, Bounds
<1>2. VaultInv /\ fresh' = fresh /\ UNCHANGED <<notes, pc, job>>
  BY Parts DEF Rebuild
<1>3. \A m \in Memories :
        /\ past'[m] = <<>>
        /\ notes[m] = NoNote => rows'[m] = NoRow
        /\ notes[m] # NoNote => rows'[m] \in MemoryRows
  <2> TAKE m \in Memories
  <2>1. notes[m] # NoNote => notes[m] \in Notes /\ rows[m] \in MemoryRows
    BY <1>2 DEF VaultInv, VaultType, BornInv
  <2> QED
    BY <2>1 DEF Rebuild, Notes, MemoryRows
<1>4. /\ rows' \in [Memories -> MemoryRows \cup {NoRow}]
      /\ past' \in [Memories -> Seq(Notes \cup {NoNote})]
  <2>1. rows' = [m \in Memories |-> rows'[m]]
    BY DEF Rebuild
  <2>2. \A m \in Memories : rows'[m] \in MemoryRows \cup {NoRow}
    BY <1>3
  <2>3. past' = [m \in Memories |-> <<>>] /\ <<>> \in Seq(Notes \cup {NoNote})
    BY EmptySeq DEF Rebuild
  <2> QED
    BY <2>1, <2>2, <2>3
<1>5. VaultInv'
  <2>1. VaultType'
    BY <1>2, <1>4 DEF VaultInv, VaultType
  <2>2. BornInv'
    BY <1>2, <1>3 DEF VaultInv, VaultType, BornInv, Unborn
  <2>3. \A m \in Memories : Len(past'[m]) = 0
    BY <1>3
  <2>4. PastInv'
    BY <1>2, <2>3 DEF VaultInv, PastInv
  <2> QED
    BY <2>1, <2>2, <2>4 DEF VaultInv
<1>6. ConflictsType' /\ DOMAIN conflicts' = {}
  BY DEF Rebuild, ConflictsType, EmptyTable
<1>7. \A e : e \in relations' <=>
        \E m \in Memories : notes[m] # NoNote /\ \E s \in notes[m].cites : e = <<m, s>>
  BY DEF Rebuild
<1>8. relations' \subseteq Edges
  <2>1. \A m \in Memories : notes[m] # NoNote =>
          notes[m].cites \subseteq Memories /\ m \notin notes[m].cites
    BY <1>2 DEF VaultInv, VaultType, PastInv, Notes
  <2> QED
    BY <1>7, <2>1 DEF Edges
<1>9. \A d, s \in Memories : Cited(d, s) <=> <<d, s>> \in relations'
  BY <1>7 DEF Cited
<1>10. IInv'
  BY <1>1, <1>2, <1>5, <1>6, <1>8, Beside DEF AllIdle
<1> QED
  BY <1>1, <1>2, <1>6, <1>9, <1>10

LEMMA Inductive == IInv /\ [Next]_vars => IInv'
<1> SUFFICES ASSUME IInv, [Next]_vars PROVE IInv'
  OBVIOUS
<1>1. ASSUME NEW h \in left.hosts, Request(h) PROVE IInv'
  BY <1>1, RememberActs, DistillBeginActs, ReviseBeginActs, PromoteActs, RetireActs, ForgetActs,
     UndoActs, TransitionReadActs, AuditStartActs, RescanStartActs DEF Request
<1>2. ASSUME NEW h \in left.hosts, Step(h) PROVE IInv'
  BY <1>2, DistillCreateActs, DistillRelateActs, RevisePatchActs, CheckActs, StalenessActs,
     FlagActs, TransitionWriteActs, AuditEdgeActs, RescanMemoryActs DEF Step
<1>3. ASSUME UNCHANGED vars PROVE IInv'
  BY <1>3 DEF vars, IInv, TypeOK, LeftInv, IdleInv, BornInv, Unborn, PastInv, Cites, JobInv,
     JobAt, Making, MakersInv
<1> QED
  BY <1>1, <1>2, <1>3, CrashActs, RebuildActs DEF Next

(* Everything has its type, in every behaviour of every world.             *)
THEOREM Types == Spec => []TypeOK
<1>1. Spec => []IInv
  BY InitialInv, Inductive, PTL DEF Spec
<1>2. IInv => TypeOK
  BY DEF IInv
<1> QED
  BY <1>1, <1>2, PTL

(* No step, of a check, a flag, an audit, a rescan or a person, opens again *)
(* what a person has closed.                                               *)
THEOREM ClosedForGood == Spec => ClosedStaysClosed
<1>1. ASSUME [Next]_vars
      PROVE  \A k \in DOMAIN conflicts \cap DOMAIN conflicts' :
               conflicts[k] # "open" => conflicts'[k] # "open"
  <2> SUFFICES ASSUME NEW k \in DOMAIN conflicts \cap DOMAIN conflicts', conflicts[k] # "open"
               PROVE  conflicts'[k] # "open"
    OBVIOUS
  <2>1. ASSUME NEW keys, conflicts' = Inserted(keys) PROVE conflicts'[k] # "open"
    BY <2>1 DEF Inserted
  <2>2. ASSUME conflicts' = conflicts PROVE conflicts'[k] # "open"
    BY <2>2
  <2>3. ASSUME NEW h, TransitionWrite(h) PROVE conflicts'[k] # "open"
    BY <2>3 DEF TransitionWrite
  <2>4. ASSUME NEW m, conflicts' = Checked(m) PROVE conflicts'[k] # "open"
    BY <2>1, <2>2, <2>4 DEF Checked
  <2>5. ASSUME NEW h, Step(h) PROVE conflicts'[k] # "open"
    <3>1. ASSUME Check(h) \/ RescanMemory(h) PROVE conflicts'[k] # "open"
      BY <2>2, <2>4, <3>1 DEF Check, RescanMemory
    <3>2. ASSUME CheckSourceStaleness(h) \/ FlagCitingDistillations(h)
          PROVE  conflicts'[k] # "open"
      BY <2>1, <2>2, <3>2 DEF CheckSourceStaleness, FlagCitingDistillations, Flagged
    <3>3. ASSUME AuditEdge(h) PROVE conflicts'[k] # "open"
      BY <2>1, <2>2, <3>3 DEF AuditEdge
    <3>4. ASSUME DistillCreate(h) \/ DistillRelate(h) \/ RevisePatch(h)
          PROVE  conflicts'[k] # "open"
      BY <2>2, <3>4 DEF DistillCreate, DistillRelate, RevisePatch
    <3> QED
      BY <2>3, <2>5, <3>1, <3>2, <3>3, <3>4 DEF Step
  <2>6. ASSUME NEW h, Request(h) \/ Crash(h) PROVE conflicts'[k] # "open"
    BY <2>2, <2>6 DEF Request, Crash, Remember, DistillBegin, ReviseBegin, Promote, Retire, Forget,
       Undo, TransitionRead, AuditStart, RescanStart
  <2>7. ASSUME Rebuild PROVE FALSE
    BY <2>7 DEF Rebuild, EmptyTable
  <2> QED
    BY <1>1, <2>2, <2>5, <2>6, <2>7 DEF Next, vars
<1> QED
  BY <1>1, PTL DEF Spec, ClosedStaysClosed

-----------------------------------------------------------------------------
(* No contradiction is left unsaid.                                        *)

(* A row stays, with what it supersedes; a memory gains no life, and its   *)
(* text stays.                                                             *)
Kept(x) == HasRow(x) => HasRow(x)' /\ rows'[x].supersedes = rows[x].supersedes
Meek(x) == Status(x)' \in Live /\ notes'[x] # NoNote =>
  Status(x) \in Live /\ notes[x] # NoNote /\ notes'[x].text = notes[x].text

LEMMA OddsBefore ==
  ASSUME NEW a \in Memories, NEW b \in Memories, AtOdds(a, b)', \A x \in Memories : Kept(x),
         Meek(a), Meek(b)
  PROVE  AtOdds(a, b) /\ RowsOf(a, b)' = RowsOf(a, b)
<1>1. b \notin Lineage(a)
  BY LineageGrows DEF AtOdds, Kept
<1>2. /\ notes[a] # NoNote /\ notes[b] # NoNote /\ {Status(a), Status(b)} \subseteq Live /\ a < b
      /\ notes'[a].text = notes[a].text /\ notes'[b].text = notes[b].text
  BY DEF AtOdds, Meek
<1>3. Detect(notes[a].text, notes[b].text)' = Detect(notes[a].text, notes[b].text)
  BY <1>2 DEF Detect
<1>4. Detect(notes[a].text, notes[b].text) # {}
  BY <1>3 DEF AtOdds
<1> QED
  BY <1>1, <1>2, <1>3, <1>4 DEF AtOdds, RowsOf

LEMMA SaidStays ==
  ASSUME SaidInv, Fixed, \A x \in Memories : Kept(x) /\ (Meek(x) \/ Checking(x)'),
         DOMAIN conflicts \subseteq DOMAIN conflicts',
         \A x \in Memories : Checking(x) => Checking(x)'
  PROVE  SaidInv'
<1> SUFFICES ASSUME left'.written, NEW a \in Memories, NEW b \in Memories, AtOdds(a, b)',
                    ~Checking(a)', ~Checking(b)'
             PROVE  (RowsOf(a, b) \subseteq DOMAIN conflicts \/ Checking(a) \/ Checking(b))'
  BY DEF SaidInv
<1>1. AtOdds(a, b) /\ RowsOf(a, b)' = RowsOf(a, b)
  BY OddsBefore
<1>2. RowsOf(a, b) \subseteq DOMAIN conflicts \/ Checking(a) \/ Checking(b)
  BY <1>1 DEF SaidInv, Fixed
<1> QED
  BY <1>1, <1>2

LEMMA StillChecking ==
  ASSUME NEW h \in Hosts, NEW s, NEW j, Turns(h, s, j), pc[h] # "check"
  PROVE  \A x \in Memories : Checking(x) => Checking(x)'
BY DEF Checking, Turns

LEMMA Untouched ==
  ASSUME UNCHANGED <<notes, rows>>
  PROVE  \A x \in Memories : Kept(x) /\ Meek(x)
BY DEF Kept, Meek, HasRow, Status

LEMMA FixedAlways == IInv /\ [Next]_vars => Fixed
<1> SUFFICES ASSUME IInv, [Next]_vars PROVE Fixed
  OBVIOUS
<1>1. UNCHANGED left => Fixed
  BY DEF Fixed
<1>2. ASSUME NEW b \in Bounds, left[b] > 0, left' = [left EXCEPT ![b] = @ - 1] PROVE Fixed
  BY <1>2, SpendLeft DEF IInv
<1>3. ASSUME NEW h, Request(h) PROVE Fixed
  <2>1. \E b \in Bounds : Spend(h, b)
    BY <1>3 DEF Request, Remember, DistillBegin, ReviseBegin, Promote, Retire, Forget, Undo,
       TransitionRead, AuditStart, RescanStart, Bounds
  <2> QED
    BY <2>1, <1>2 DEF Spend
<1>4. ASSUME NEW h, Step(h) PROVE UNCHANGED left
  BY <1>4 DEF Step, DistillCreate, DistillRelate, RevisePatch, Check, CheckSourceStaleness,
     FlagCitingDistillations, TransitionWrite, AuditEdge, RescanMemory
<1>5. ASSUME NEW h, Crash(h) PROVE Fixed
  BY <1>2, <1>5 DEF Crash, Bounds
<1>6. ASSUME Rebuild PROVE Fixed
  BY <1>2, <1>6 DEF Rebuild, Bounds
<1> QED
  BY <1>1, <1>3, <1>4, <1>5, <1>6 DEF Next, vars

(* What a written world never spends.                                      *)
LEMMA WrittenOnly ==
  ASSUME IInv, left.written
  PROVE  /\ ~Rebuild
         /\ \A h : ~Crash(h)
         /\ \A h, m : ~Promote(h, m) /\ ~Undo(h, m)
BY DEF IInv, LeftInv, Rebuild, Crash, Promote, Undo, Spend

LEMMA SaidInitially == Init => SaidInv
<1> SUFFICES ASSUME Init, NEW a \in Memories, NEW b \in Memories, AtOdds(a, b) PROVE FALSE
  BY DEF SaidInv
<1>1. PICK t \in left.texts, s \in [left.established -> Live] :
       /\ notes = [m \in Memories |-> IF m \in left.established
                     THEN [status |-> s[m], text |-> t, cites |-> {}] ELSE NoNote]
       /\ rows = [m \in Memories |-> IF m \in left.established
                     THEN [status |-> s[m], supersedes |-> NoMem] ELSE NoRow]
  BY DEF Init
<1>2. notes[a].text = t /\ notes[b].text = t
  BY <1>1 DEF AtOdds
<1>3. Detect(t, t) # {}
  BY <1>2 DEF AtOdds
<1>4. Detect(t, t) = {}
  <2>1. {t.claim, t.claim} # {"is", "is not"}
    <3>1. ASSUME NEW c, {c, c} = {"is", "is not"} PROVE FALSE
      <4>1. "is" \in {c, c} /\ "is not" \in {c, c}
        BY <3>1
      <4> QED
        BY <4>1
    <3> QED
      BY <3>1
  <2> QED
    BY <2>1 DEF Detect
<1> QED
  BY <1>3, <1>4

LEMMA RequestSaid ==
  ASSUME IInv, SaidInv, Fixed, left.written, NEW h \in left.hosts, Request(h)
  PROVE  SaidInv'
<1>1. h \in Hosts
  BY Given
<1>2. ASSUME pc[h] = "idle", \E s, j : Turns(h, s, j)
      PROVE  \A x \in Memories : Checking(x) => Checking(x)'
  BY <1>1, <1>2, StillChecking
<1>3. ASSUME UNCHANGED <<notes, rows, conflicts>>, pc[h] = "idle", \E s, j : Turns(h, s, j)
      PROVE  SaidInv'
  BY <1>2, <1>3, Untouched, SaidStays
<1>4. ASSUME NEW m \in left.memories, NEW t \in left.texts, NEW sup \in left.memories \cup {NoMem},
             Remember(h, m, t, sup)
      PROVE  SaidInv'
  <2>1. Unborn(m) /\ m \in Memories /\ pc[h] = "idle" /\ \E j : Turns(h, "check", j)
    BY <1>4, RememberActs
  <2>2. /\ \A x \in Memories \ {m} : notes'[x] = notes[x] /\ rows'[x] = rows[x]
        /\ rows'[m] = [status |-> "scratch", supersedes |-> sup] /\ UNCHANGED conflicts
    BY <1>4, <2>1, Given DEF Remember, VaultInv, VaultType
  <2>3. \A x \in Memories \ {m} : Kept(x) /\ Meek(x)
    BY <2>2 DEF Kept, Meek, HasRow, Status
  <2>4. Kept(m) /\ Meek(m)
    BY <2>1, <2>2 DEF Kept, Meek, HasRow, Status, Unborn, Live
  <2> QED
    BY <1>2, <2>1, <2>2, <2>3, <2>4, SaidStays
<1>5. ASSUME NEW m \in left.memories, NEW t \in left.texts, NEW S \in SUBSET left.memories,
             DistillBegin(h, m, t, S)
      PROVE  SaidInv'
  BY <1>3, <1>5, DistillBeginActs DEF DistillBegin
<1>6. ASSUME NEW m \in left.memories, NEW t \in left.texts, ReviseBegin(h, m, t) PROVE SaidInv'
  BY <1>3, <1>6, ReviseBeginActs DEF ReviseBegin
<1>7. ASSUME NEW m \in left.memories, NEW status \in Dead, notes[m] # NoNote, pc[h] = "idle",
             \E j : Turns(h, "flag", j),
             notes' = [notes EXCEPT ![m] = [@ EXCEPT !.status = status]],
             rows' = [rows EXCEPT ![m].status = status], UNCHANGED conflicts
      PROVE  SaidInv'
  <2>1. /\ m \in Memories /\ rows[m] \in MemoryRows
        /\ \A x \in Memories \ {m} : notes'[x] = notes[x] /\ rows'[x] = rows[x]
        /\ rows'[m] = [rows[m] EXCEPT !.status = status]
    BY <1>7, Given DEF VaultInv, VaultType, BornInv, LeftInv
  <2>2. /\ rows'[m] # NoRow /\ rows'[m].status = status
        /\ rows'[m].supersedes = rows[m].supersedes
    BY <2>1, NothingAssumption DEF MemoryRows, Statuses
  <2>3. \A x \in Memories \ {m} : Kept(x) /\ Meek(x)
    BY <2>1 DEF Kept, Meek, HasRow, Status
  <2>4. Kept(m) /\ Meek(m)
    BY <2>2 DEF Kept, Meek, HasRow, Status, Live, Dead
  <2> QED
    BY <1>2, <1>7, <2>3, <2>4, SaidStays
<1>8. ASSUME NEW m \in left.memories, Retire(h, m) PROVE SaidInv'
  <2>1. UNCHANGED conflicts /\ "retired" \in Dead
    BY <1>8 DEF Retire, Dead
  <2> QED
    BY <1>7, <1>8, <2>1, RetireActs
<1>9. ASSUME NEW m \in left.memories, Forget(h, m) PROVE SaidInv'
  <2>1. UNCHANGED conflicts /\ "forgotten" \in Dead
    BY <1>9 DEF Forget, Dead
  <2> QED
    BY <1>7, <1>9, <2>1, ForgetActs
<1>10. ASSUME NEW k, NEW next \in {"resolved", "dismissed"}, TransitionRead(h, k, next)
       PROVE  SaidInv'
  BY <1>3, <1>10, TransitionReadActs DEF TransitionRead
<1>11. ASSUME AuditStart(h) \/ RescanStart(h) PROVE SaidInv'
  <2>1. UNCHANGED <<notes, rows, conflicts>>
    BY <1>11 DEF AuditStart, RescanStart
  <2>2. pc[h] = "idle" /\ \E s, j : Turns(h, s, j)
    BY <1>11, AuditStartActs, RescanStartActs
  <2> QED
    BY <1>3, <2>1, <2>2
<1> QED
  BY <1>4, <1>5, <1>6, <1>8, <1>9, <1>10, <1>11, WrittenOnly DEF Request

LEMMA StepSaid ==
  ASSUME IInv, SaidInv, Fixed, left.written, NEW h \in left.hosts, Step(h)
  PROVE  SaidInv'
<1>1. h \in Hosts
  BY Given
<1>2. ASSUME UNCHANGED <<notes, rows>>, DOMAIN conflicts \subseteq DOMAIN conflicts',
             pc[h] # "check", \E s, j : Turns(h, s, j)
      PROVE  SaidInv'
  <2>1. \A x \in Memories : Checking(x) => Checking(x)'
    BY <1>1, <1>2, StillChecking
  <2> QED
    BY <1>2, <2>1, Untouched, SaidStays
<1>3. ASSUME DistillCreate(h) PROVE SaidInv'
  <2>1. PICK m \in Memories : m = job[h].mem
    BY <1>3, DistillCreateActs
  <2>2. /\ Unborn(m) /\ pc[h] = "create" /\ \E s, j : Turns(h, s, j)
    BY <1>3, <2>1, DistillCreateActs DEF Making
  <2>3. /\ \A x \in Memories \ {m} : notes'[x] = notes[x] /\ rows'[x] = rows[x]
        /\ rows'[m] = [status |-> "scratch", supersedes |-> NoMem] /\ UNCHANGED conflicts
    BY <1>3, <2>1, Given DEF DistillCreate, VaultInv, VaultType
  <2>4. \A x \in Memories \ {m} : Kept(x) /\ Meek(x)
    BY <2>3 DEF Kept, Meek, HasRow, Status
  <2>5. Kept(m) /\ Meek(m)
    BY <2>2, <2>3 DEF Kept, Meek, HasRow, Status, Unborn, Live
  <2>6. \A x \in Memories : Checking(x) => Checking(x)'
    BY <1>1, <2>2, StillChecking
  <2> QED
    BY <2>3, <2>4, <2>5, <2>6, SaidStays
<1>4. ASSUME RevisePatch(h) PROVE SaidInv'
  <2>1. UNCHANGED <<rows, conflicts>> /\ pc[h] = "patch" /\ \A x \in Memories : Kept(x)
    BY <1>4 DEF RevisePatch, Kept, HasRow
  <2>2. CASE Turns(h, "idle", Idle) /\ UNCHANGED notes
    BY <1>2, <2>1, <2>2
  <2>3. CASE Turns(h, "check", job[h]) /\ job[h].mem \in Memories /\ notes[job[h].mem] = job[h].before
    <3>1. PICK m \in Memories : m = job[h].mem
      BY <2>3
    <3>2. \A x \in Memories \ {m} : notes'[x] = notes[x]
      BY <1>4, <3>1, Given DEF RevisePatch, VaultInv, VaultType
    <3>3. \A x \in Memories \ {m} : Meek(x)
      BY <2>1, <3>2 DEF Meek, Status, HasRow
    <3>4. Checking(m)'
      BY <1>1, <2>3, <3>1 DEF Checking, Turns
    <3>5. \A x \in Memories : Checking(x) => Checking(x)'
      BY <1>1, <2>1, <2>3, StillChecking
    <3> QED
      BY <2>1, <3>3, <3>4, <3>5, SaidStays
  <2> QED
    BY <1>4, <2>2, <2>3, RevisePatchActs
<1>5. ASSUME Check(h) PROVE SaidInv'
  <2>1. PICK m \in Memories : m = job[h].mem /\ conflicts' = Checked(m)
    BY <1>5, CheckActs
  <2>2. /\ UNCHANGED <<notes, rows>> /\ DOMAIN conflicts \subseteq DOMAIN conflicts'
        /\ \E s, j : Turns(h, s, j)
    BY <1>5, CheckActs DEF Check
  <2>3. \A x \in Memories \ {m} : Checking(x) => Checking(x)'
    BY <1>1, <2>1, <2>2 DEF Checking, Turns
  <2> SUFFICES ASSUME left'.written, NEW a \in Memories, NEW b \in Memories, AtOdds(a, b)'
               PROVE  (RowsOf(a, b) \subseteq DOMAIN conflicts \/ Checking(a) \/ Checking(b))'
    BY DEF SaidInv
  <2>4. AtOdds(a, b) /\ RowsOf(a, b)' = RowsOf(a, b)
    BY <2>2, Untouched, OddsBefore
  <2>5. CASE m \in {a, b}
    BY <2>1, <2>4, <2>5, CheckSays
  <2>6. CASE m \notin {a, b}
    BY <2>2, <2>3, <2>4, <2>6 DEF SaidInv
  <2> QED
    BY <2>5, <2>6
<1>6. ASSUME DistillRelate(h) PROVE SaidInv'
  BY <1>2, <1>6, DistillRelateActs DEF DistillRelate
<1>7. ASSUME CheckSourceStaleness(h) \/ FlagCitingDistillations(h) \/ TransitionWrite(h)
      PROVE  SaidInv'
  <2>1. UNCHANGED <<notes, rows>> /\ pc[h] # "check"
    BY <1>7 DEF CheckSourceStaleness, FlagCitingDistillations, TransitionWrite
  <2>2. DOMAIN conflicts \subseteq DOMAIN conflicts' /\ \E s, j : Turns(h, s, j)
    BY <1>7, StalenessActs, FlagActs, TransitionWriteActs
  <2> QED
    BY <1>2, <2>1, <2>2
<1>8. ASSUME AuditEdge(h) \/ RescanMemory(h) PROVE SaidInv'
  <2>1. UNCHANGED <<notes, rows>> /\ pc[h] # "check"
    BY <1>8 DEF AuditEdge, RescanMemory
  <2>2. DOMAIN conflicts \subseteq DOMAIN conflicts' /\ \E s, j : Turns(h, s, j)
    BY <1>8, AuditEdgeActs, RescanMemoryActs
  <2> QED
    BY <1>2, <2>1, <2>2
<1> QED
  BY <1>3, <1>4, <1>5, <1>6, <1>7, <1>8 DEF Step

(* Where memories are only written, remembered, distilled, revised,        *)
(* retired or forgotten, by any number of hosts at once, two live memories *)
(* that contradict each other have their rows as soon as no host is about  *)
(* to check: of two hosts, the one that checks last sees both notes, and   *)
(* sees the same contradiction whichever of the two it checks, since       *)
(* lineage goes both ways.                                                 *)
THEOREM NothingUnsaid == Spec => []ContradictionFlagged
<1>1. IInv /\ SaidInv /\ [Next]_vars => SaidInv'
  <2> SUFFICES ASSUME IInv, SaidInv, [Next]_vars PROVE SaidInv'
    OBVIOUS
  <2>1. Fixed
    BY FixedAlways
  <2>2. CASE UNCHANGED vars
    BY <2>2 DEF vars, SaidInv, AtOdds, RowsOf, Lineage, ChainClosed, Supersedes, HasRow, Status,
       Checking
  <2>3. CASE ~left.written
    BY <2>1, <2>3 DEF SaidInv, Fixed
  <2> QED
    BY <2>1, <2>2, <2>3, RequestSaid, StepSaid, WrittenOnly DEF Next
<1>2. IInv /\ SaidInv => ContradictionFlagged
  BY DEF SaidInv, ContradictionFlagged, Checking, AllIdle
<1> QED
  BY <1>1, <1>2, InitialInv, Inductive, SaidInitially, PTL DEF Spec

-----------------------------------------------------------------------------
(* What one host that never dies keeps of citations and deaths.            *)

EdgesTold(h) == \A d, s \in Memories : Cited(d, s) <=> <<d, s>> \in relations \/ Adding(h, d, s)
FlagTold(h) == pc[h] = "flag" => Status(job[h].mem) = job[h].kind

LEMMA SameEdges ==
  ASSUME NEW h, EdgesTold(h), pc[h] # "relate", pc'[h] # "relate", UNCHANGED relations,
         \A d \in Memories : \/ notes'[d] = notes[d]
                             \/ /\ notes[d] # NoNote /\ notes'[d] # NoNote
                                /\ notes'[d].cites = notes[d].cites
  PROVE  EdgesTold(h)'
BY DEF EdgesTold, Adding, Cited

LEMMA RequestTold ==
  ASSUME IInv, NEW h \in left.hosts, EdgesTold(h), Request(h)
  PROVE  EdgesTold(h)' /\ FlagTold(h)'
<1> USE NothingAssumption
<1>1. h \in Hosts /\ VaultInv
  BY Given
<1>2. ASSUME UNCHANGED <<notes, relations>>, pc[h] = "idle", 
             pc'[h] \notin {"relate", "flag"}
      PROVE  EdgesTold(h)' /\ FlagTold(h)'
  BY <1>2, SameEdges DEF FlagTold
<1>3. ASSUME NEW m \in left.memories, NEW t \in left.texts, NEW sup \in left.memories \cup {NoMem},
             Remember(h, m, t, sup)
      PROVE  EdgesTold(h)' /\ FlagTold(h)'
  <2>1. Unborn(m) /\ m \in Memories /\ pc[h] = "idle" /\ pc'[h] = "check" /\ UNCHANGED relations
    BY <1>3, RememberActs DEF Turns, Remember
  <2>2. /\ \A x \in Memories \ {m} : notes'[x] = notes[x]
        /\ notes'[m] = [status |-> "scratch", text |-> t, cites |-> {}]
    BY <1>1, <1>3, <2>1 DEF Remember, VaultInv, VaultType
  <2>3. notes'[m].cites = {}
    BY <2>2
  <2> QED
    BY <2>1, <2>2, <2>3 DEF EdgesTold, FlagTold, Adding, Cited, Unborn
<1>4. ASSUME NEW m \in left.memories, NEW t \in left.texts, NEW S \in SUBSET left.memories,
             DistillBegin(h, m, t, S)
      PROVE  EdgesTold(h)' /\ FlagTold(h)'
  BY <1>2, <1>4, DistillBeginActs DEF DistillBegin, Turns
<1>5. ASSUME NEW m \in left.memories, NEW t \in left.texts, ReviseBegin(h, m, t)
      PROVE  EdgesTold(h)' /\ FlagTold(h)'
  BY <1>2, <1>5, ReviseBeginActs DEF ReviseBegin, Turns
<1>6. ASSUME NEW m \in Memories, NEW status \in Statuses, notes[m] # NoNote,
             notes' = [notes EXCEPT ![m] = [@ EXCEPT !.status = status]]
      PROVE  \A d \in Memories : \/ notes'[d] = notes[d]
                                 \/ /\ notes[d] # NoNote /\ notes'[d] # NoNote
                                    /\ notes'[d].cites = notes[d].cites
  <2>1. notes[m] \in Notes /\ notes'[m] = [notes[m] EXCEPT !.status = status]
    BY <1>1, <1>6 DEF VaultInv, VaultType
  <2>2. notes'[m] \in Notes /\ notes'[m].cites = notes[m].cites
    BY <2>1 DEF Notes
  <2>3. \A d \in Memories \ {m} : notes'[d] = notes[d]
    BY <1>1, <1>6 DEF VaultInv, VaultType
  <2> QED
    BY <1>6, <2>2, <2>3
<1>7. ASSUME NEW m \in left.memories, Promote(h, m) PROVE EdgesTold(h)' /\ FlagTold(h)'
  <2>1. /\ m \in Memories /\ pc[h] = "idle" /\ UNCHANGED <<pc, relations>> /\ notes[m] # NoNote
    BY <1>7, PromoteActs DEF Promote
  <2>2. notes[m] \in Notes
    BY <1>1, <2>1 DEF VaultInv, VaultType
  <2>3. \E status \in {"working", "canonical"} :
          notes' = [notes EXCEPT ![m] = [notes[m] EXCEPT !.status = status]]
    BY <1>7 DEF Promote, Land
  <2>4. PICK status \in {"working", "canonical"} :
          notes' = [notes EXCEPT ![m] = [@ EXCEPT !.status = status]]
    BY <2>3
  <2>5. status \in Statuses
    BY DEF Statuses, Live
  <2> QED
    BY <1>6, <2>1, <2>4, <2>5, SameEdges DEF FlagTold
<1>8. ASSUME NEW m \in Memories, NEW status \in {"retired", "forgotten"}, notes[m] # NoNote,
             notes' = [notes EXCEPT ![m] = [@ EXCEPT !.status = status]],
             rows' = [rows EXCEPT ![m].status = status], pc[h] = "idle", UNCHANGED relations,
             NEW j, j.kind = status, j.mem = m, Turns(h, "flag", j)
      PROVE  EdgesTold(h)' /\ FlagTold(h)'
  <2>1. status \in Statuses
    BY DEF Statuses, Dead
  <2>2. pc'[h] = "flag" /\ job'[h] = j
    BY <1>8 DEF Turns
  <2>3. EdgesTold(h)'
    BY <1>6, <1>8, <2>1, <2>2, SameEdges
  <2>4. rows[m] \in MemoryRows /\ rows'[m] = [rows[m] EXCEPT !.status = status]
    BY <1>1, <1>8 DEF VaultInv, VaultType, BornInv
  <2>5. rows'[m] \in MemoryRows /\ rows'[m].status = status
    BY <2>1, <2>4 DEF MemoryRows
  <2>6. Status(m)' = status
    BY <2>5 DEF Status, HasRow
  <2> QED
    BY <1>8, <2>2, <2>3, <2>6 DEF FlagTold
<1>9. ASSUME NEW m \in left.memories, Retire(h, m) PROVE EdgesTold(h)' /\ FlagTold(h)'
  <2>1. UNCHANGED relations
    BY <1>9 DEF Retire
  <2> QED
    BY <1>8, <1>9, <2>1, RetireActs
<1>10. ASSUME NEW m \in left.memories, Forget(h, m) PROVE EdgesTold(h)' /\ FlagTold(h)'
  <2>1. UNCHANGED relations
    BY <1>10 DEF Forget
  <2> QED
    BY <1>8, <1>10, <2>1, ForgetActs
<1>11. ASSUME NEW m \in left.memories, Undo(h, m) PROVE EdgesTold(h)' /\ FlagTold(h)'
  <2>1. /\ m \in Memories /\ pc[h] = "idle" /\ UNCHANGED pc /\ notes[m] # NoNote
        /\ Head(past[m]) # NoNote => Head(past[m]).cites = notes[m].cites
    BY <1>11, UndoActs
  <2>2. /\ \A x \in Memories \ {m} : notes'[x] = notes[x]
        /\ notes'[m] = Head(past[m])
    BY <1>1, <1>11, <2>1 DEF Undo, VaultInv, VaultType
  <2>3. CASE Head(past[m]) # NoNote
    <3>1. UNCHANGED relations
      BY <1>11, <2>3 DEF Undo
    <3> QED
      BY <2>1, <2>2, <2>3, <3>1, SameEdges DEF FlagTold
  <2>4. CASE Head(past[m]) = NoNote
    <3>1. relations' = {e \in relations : e[1] # m}
      BY <1>11, <2>4 DEF Undo
    <3>2. \A d, s \in Memories : <<d, s>> \in relations' <=> <<d, s>> \in relations /\ d # m
      BY <3>1
    <3> QED
      BY <2>1, <2>2, <2>4, <3>2 DEF EdgesTold, FlagTold, Adding, Cited
  <2> QED
    BY <2>3, <2>4
<1>12. ASSUME NEW k, NEW next \in {"resolved", "dismissed"}, TransitionRead(h, k, next)
       PROVE  EdgesTold(h)' /\ FlagTold(h)'
  BY <1>2, <1>12, TransitionReadActs DEF TransitionRead, Turns
<1>13. ASSUME AuditStart(h) \/ RescanStart(h) PROVE EdgesTold(h)' /\ FlagTold(h)'
  <2>1. UNCHANGED <<notes, relations>>
    BY <1>13 DEF AuditStart, RescanStart
  <2>2. pc[h] = "idle" /\ pc'[h] \in {"audit", "rescan"}
    BY <1>13, AuditStartActs, RescanStartActs DEF Turns
  <2> QED
    BY <1>2, <2>1, <2>2
<1> QED
  BY <1>3, <1>4, <1>5, <1>7, <1>9, <1>10, <1>11, <1>12, <1>13 DEF Request

LEMMA StepTold ==
  ASSUME IInv, NEW h \in left.hosts, EdgesTold(h), Step(h)
  PROVE  EdgesTold(h)' /\ FlagTold(h)'
<1> USE NothingAssumption
<1>1. h \in Hosts /\ VaultInv /\ IsJob(job[h]) /\ JobAt(pc[h], job[h])
  BY Given
<1>2. ASSUME UNCHANGED <<notes, relations>>, pc[h] # "relate", pc'[h] \notin {"relate", "flag"}
      PROVE  EdgesTold(h)' /\ FlagTold(h)'
  BY <1>2, SameEdges DEF FlagTold
<1>3. ASSUME DistillCreate(h) PROVE EdgesTold(h)' /\ FlagTold(h)'
  <2>1. PICK j : j = job[h]
    OBVIOUS
  <2>2. PICK m \in Memories : m = j.mem
    BY <1>3, <2>1, DistillCreateActs
  <2>3. /\ Unborn(m) /\ pc[h] = "create" /\ pc'[h] = "relate" /\ job'[h] = j
        /\ j.after \in Notes /\ j.todo = j.after.cites
    BY <1>3, <2>1, <2>2, DistillCreateActs DEF Making, Turns
  <2>4. /\ \A x \in Memories \ {m} : notes'[x] = notes[x]
        /\ notes'[m] = j.after /\ UNCHANGED relations
    BY <1>1, <1>3, <2>1, <2>2 DEF DistillCreate, VaultInv, VaultType
  <2> QED
    BY <2>2, <2>3, <2>4 DEF EdgesTold, FlagTold, Adding, Cited, Unborn
<1>4. ASSUME DistillRelate(h) PROVE EdgesTold(h)' /\ FlagTold(h)'
  <2>1. pc[h] = "relate" /\ UNCHANGED notes /\ job[h].mem \in Memories
    BY <1>1, <1>4 DEF DistillRelate, JobAt
  <2>2. CASE \E s \in job[h].todo : /\ relations' = relations \cup {<<job[h].mem, s>>}
                                    /\ Turns(h, "relate", [job[h] EXCEPT !.todo = @ \ {s}])
    <3>1. PICK s \in job[h].todo : /\ relations' = relations \cup {<<job[h].mem, s>>}
                                   /\ Turns(h, "relate", [job[h] EXCEPT !.todo = @ \ {s}])
      BY <2>2
    <3>2. /\ pc'[h] = "relate" /\ job'[h].mem = job[h].mem /\ job'[h].todo = job[h].todo \ {s}
      BY <1>1, <3>1 DEF Turns, IsJob
    <3>3. \A d, x \in Memories :
            (<<d, x>> \in relations \/ Adding(h, d, x)) <=> (<<d, x>> \in relations \/ Adding(h, d, x))'
      BY <2>1, <3>1, <3>2 DEF Adding
    <3> QED
      BY <2>1, <3>2, <3>3 DEF EdgesTold, FlagTold, Cited
  <2>3. CASE job[h].todo = {} /\ UNCHANGED relations /\ Turns(h, "check", job[h])
    BY <2>1, <2>3 DEF EdgesTold, FlagTold, Adding, Cited, Turns
  <2> QED
    BY <1>4, <2>2, <2>3, DistillRelateActs
<1>5. ASSUME RevisePatch(h) PROVE EdgesTold(h)' /\ FlagTold(h)'
  <2>1. UNCHANGED relations /\ pc[h] = "patch"
    BY <1>5 DEF RevisePatch
  <2>2. CASE Turns(h, "idle", Idle) /\ UNCHANGED notes
    BY <1>2, <2>1, <2>2 DEF Turns
  <2>3. CASE /\ Turns(h, "check", job[h]) /\ job[h].mem \in Memories
             /\ notes[job[h].mem] # NoNote /\ notes[job[h].mem] = job[h].before
             /\ job[h].after # NoNote /\ job[h].after.cites = job[h].before.cites
    <3>1. PICK m \in Memories : m = job[h].mem
      BY <2>3
    <3>2. PICK n : n = job[h].after
      OBVIOUS
    <3>3. notes' = [notes EXCEPT ![m] = n]
      BY <1>5, <2>3, <3>1, <3>2 DEF RevisePatch, Turns, Done, Goto
    <3>4. notes'[m] = n /\ \A d \in Memories \ {m} : notes'[d] = notes[d]
      BY <1>1, <3>3 DEF VaultInv, VaultType
    <3>5. pc'[h] = "check"
      BY <2>3 DEF Turns
    <3> QED
      BY <2>1, <2>3, <3>1, <3>2, <3>4, <3>5, SameEdges DEF FlagTold
  <2> QED
    BY <1>5, <2>2, <2>3, RevisePatchActs
<1>6. ASSUME Check(h) PROVE EdgesTold(h)' /\ FlagTold(h)'
  <2>1. UNCHANGED <<notes, relations>> /\ pc[h] = "check"
    BY <1>6 DEF Check
  <2>2. pc'[h] \in {"stale", "idle"}
    BY <1>6, CheckActs DEF Turns
  <2> QED
    BY <1>2, <2>1, <2>2
<1>7. ASSUME CheckSourceStaleness(h) \/ FlagCitingDistillations(h) \/ TransitionWrite(h)
      PROVE  EdgesTold(h)' /\ FlagTold(h)'
  <2>1. UNCHANGED <<notes, relations>> /\ pc[h] # "relate"
    BY <1>7 DEF CheckSourceStaleness, FlagCitingDistillations, TransitionWrite
  <2>2. pc'[h] = "idle"
    BY <1>7, StalenessActs, FlagActs, TransitionWriteActs DEF Turns
  <2> QED
    BY <1>2, <2>1, <2>2
<1>8. ASSUME AuditEdge(h) \/ RescanMemory(h) PROVE EdgesTold(h)' /\ FlagTold(h)'
  <2>1. UNCHANGED <<notes, relations>> /\ pc[h] # "relate"
    BY <1>8 DEF AuditEdge, RescanMemory
  <2>2. pc'[h] \in {"idle", "audit", "rescan"}
    BY <1>8, AuditEdgeActs, RescanMemoryActs DEF Turns
  <2> QED
    BY <1>2, <2>1, <2>2
<1> QED
  BY <1>3, <1>4, <1>5, <1>6, <1>7, <1>8 DEF Step

LEMMA CalmInitially == Init => CalmInv
<1> SUFFICES ASSUME Init, left.calm PROVE CalmInv
  BY DEF CalmInv
<1>1. PICK h \in Hosts : left.hosts = {h}
  BY WorldsType DEF Init, LeftInv
<1>2. PICK t \in left.texts, s \in [left.established -> Live] :
       /\ notes = [m \in Memories |-> IF m \in left.established
                     THEN [status |-> s[m], text |-> t, cites |-> {}] ELSE NoNote]
       /\ rows = [m \in Memories |-> IF m \in left.established
                     THEN [status |-> s[m], supersedes |-> NoMem] ELSE NoRow]
  BY DEF Init
<1>3. \A d \in Memories : notes[d] # NoNote => notes[d].cites = {}
  BY <1>2
<1>4. pc[h] = "idle" /\ relations = {}
  BY DEF Init
<1> QED
  BY <1>1, <1>3, <1>4 DEF CalmInv, Cited, Adding

LEMMA CalmStays == IInv /\ CalmInv /\ [Next]_vars => CalmInv'
<1> SUFFICES ASSUME IInv, CalmInv, [Next]_vars, left.calm PROVE CalmInv'
  BY FixedAlways DEF CalmInv, Fixed
<1>1. PICK h \in Hosts : left.hosts = {h} /\ EdgesTold(h) /\ FlagTold(h)
  BY DEF CalmInv, EdgesTold, FlagTold
<1>2. left'.hosts = {h}
  BY <1>1, FixedAlways DEF Fixed
<1>3. EdgesTold(h)' /\ FlagTold(h)'
  <2>1. ~Crash(h)
    BY DEF Crash, IInv, LeftInv
  <2>2. CASE UNCHANGED vars
    BY <1>1, <2>2 DEF vars, EdgesTold, FlagTold, Adding, Cited, Status, HasRow
  <2>3. CASE Rebuild
    <3>1. /\ AllIdle /\ UNCHANGED <<notes, pc, job>>
          /\ \A d, s \in Memories : Cited(d, s) <=> <<d, s>> \in relations'
      BY <2>3, RebuildActs
    <3>2. \A d, s \in Memories : Cited(d, s)' <=> Cited(d, s)
      BY <3>1 DEF Cited
    <3> QED
      BY <3>1, <3>2 DEF EdgesTold, FlagTold, Adding, AllIdle
  <2> QED
    BY <1>1, <2>1, <2>2, <2>3, RequestTold, StepTold DEF Next
<1> QED
  BY <1>2, <1>3 DEF CalmInv, EdgesTold, FlagTold

(* In a calm world the edges are what the notes cite: an edge that is      *)
(* missing is one the only host is about to add, and undo takes a note and *)
(* its edges together.                                                     *)
THEOREM EdgesAreCitations == Spec => []RelationsTellCitations
<1>1. IInv /\ CalmInv => RelationsTellCitations
  <2> SUFFICES ASSUME IInv, CalmInv, left.calm, AllIdle, NEW d \in Memories
               PROVE  {e[2] : e \in {r \in relations : r[1] = d}}
                        = (IF notes[d] = NoNote THEN {} ELSE notes[d].cites)
    BY DEF RelationsTellCitations
  <2>1. PICK h \in Hosts : EdgesTold(h)
    BY DEF CalmInv, EdgesTold
  <2>2. \A s \in Memories : Cited(d, s) <=> <<d, s>> \in relations
    BY <2>1 DEF EdgesTold, Adding, AllIdle
  <2>3. /\ \A e \in relations : e[2] \in Memories /\ e = <<e[1], e[2]>>
        /\ notes[d] # NoNote => notes[d].cites \subseteq Memories
    BY DEF IInv, TypeOK, Edges, Notes
  <2>4. ASSUME NEW x
        PROVE  x \in {e[2] : e \in {r \in relations : r[1] = d}}
                 <=> x \in Memories /\ <<d, x>> \in relations
    <3>1. ASSUME NEW r \in relations, r[1] = d, x = r[2]
          PROVE  x \in Memories /\ <<d, x>> \in relations
      BY <2>3, <3>1
    <3>2. ASSUME <<d, x>> \in relations
          PROVE  \E r \in relations : r[1] = d /\ x = r[2]
      <4>1. <<d, x>>[1] = d /\ <<d, x>>[2] = x
        OBVIOUS
      <4> QED
        BY <3>2, <4>1
    <3> QED
      BY <3>1, <3>2
  <2>5. ASSUME NEW x
        PROVE  x \in (IF notes[d] = NoNote THEN {} ELSE notes[d].cites)
                 <=> x \in Memories /\ <<d, x>> \in relations
    BY <2>2, <2>3 DEF Cited
  <2> QED
    BY <2>4, <2>5
<1> QED
  BY <1>1, InitialInv, Inductive, CalmInitially, CalmStays, PTL DEF Spec

(* A death is flagged on every distillation that cites the memory: the     *)
(* host that wrote it knows the status and all the edges when it flags.    *)
THEOREM DeathsAreFlagged == Spec => DeathFlagged
<1>1. ASSUME IInv, CalmInv, [Next]_vars, left.calm, NEW s \in Memories, NEW h \in Hosts,
             pc[h] = "flag", job[h].mem = s, pc'[h] = "idle",
             NEW d \in Memories, Cited(d, s), notes[s] # NoNote
      PROVE  FlagOf(d, s)'
  <2>1. left.hosts = {h} /\ EdgesTold(h) /\ FlagTold(h)
    BY <1>1 DEF CalmInv, EdgesTold, FlagTold, IInv, IdleInv
  <2>2. FlagCitingDistillations(h)
    <3>1. \A b \in Bounds : ~Spend(h, b)
      BY <1>1 DEF Spend
    <3>2. ~Request(h)
      BY <3>1 DEF Request, Remember, DistillBegin, ReviseBegin, Promote, Retire, Forget, Undo,
         TransitionRead, AuditStart, RescanStart, Bounds
    <3>3. ~Crash(h) /\ ~Rebuild
      BY <1>1 DEF Crash, IInv, LeftInv, Rebuild, AllIdle
    <3>4. Step(h) => FlagCitingDistillations(h)
      BY <1>1 DEF Step, DistillCreate, DistillRelate, RevisePatch, Check, CheckSourceStaleness,
         TransitionWrite, AuditEdge, RescanMemory
    <3> QED
      BY <1>1, <2>1, <3>2, <3>3, <3>4 DEF Next, vars
  <2>3. <<d, s>> \in relations
    BY <1>1, <2>1 DEF EdgesTold, Adding
  <2>4. d \in Citing(s)
    <3>1. <<d, s>>[1] = d /\ <<d, s>>[2] = s
      OBVIOUS
    <3> QED
      BY <2>3, <3>1 DEF Citing
  <2>5. StaleKey(d, s, job[h].kind) \in DOMAIN conflicts'
    BY <1>1, <2>1, <2>2, <2>4, FlagActs
  <2>6. Status(s)' = Status(s) /\ Status(s) = job[h].kind
    BY <1>1, <2>1, <2>2 DEF FlagTold, FlagCitingDistillations, Status, HasRow
  <2>7. LET k == StaleKey(d, s, job[h].kind)
        IN  k.kind = "stale-source" /\ k.detail[1] = d /\ k.detail[2] = s /\ k.detail[3] = job[h].kind
    BY DEF StaleKey
  <2> QED
    BY <2>5, <2>6, <2>7 DEF FlagOf
<1>2. IInv /\ CalmInv /\ [Next]_vars =>
        (left.calm => \A s \in Memories, h \in Hosts :
           pc[h] = "flag" /\ job[h].mem = s /\ pc'[h] = "idle" =>
             \A d \in Memories : notes[d] # NoNote /\ s \in notes[d].cites /\ notes[s] # NoNote =>
               FlagOf(d, s)')
  BY <1>1 DEF Cited
<1> QED
  BY <1>2, InitialInv, Inductive, CalmInitially, CalmStays, PTL DEF Spec, DeathFlagged

-----------------------------------------------------------------------------
(* What a sweep that nobody disturbs leaves behind.                        *)

LEMMA StaleKeyFlags == \A d, s : StaleKey(d, s, Status(s)) \in DOMAIN conflicts => FlagOf(d, s)
<1> SUFFICES ASSUME NEW d, NEW s, StaleKey(d, s, Status(s)) \in DOMAIN conflicts
             PROVE  FlagOf(d, s)
  OBVIOUS
<1>1. LET k == StaleKey(d, s, Status(s))
      IN  k.kind = "stale-source" /\ k.detail[1] = d /\ k.detail[2] = s /\ k.detail[3] = Status(s)
  BY DEF StaleKey
<1> QED
  BY <1>1 DEF FlagOf

(* A sweep changes neither memories nor edges, and takes no row away.      *)
LEMMA SweepFrame ==
  ASSUME UNCHANGED <<notes, rows, relations>>, DOMAIN conflicts \subseteq DOMAIN conflicts'
  PROVE  /\ \A e : Dangling(e)' <=> Dangling(e)
         /\ \A d, s : FlagOf(d, s) => FlagOf(d, s)'
         /\ \A s : Status(s)' = Status(s) /\ ContentId(s)' = ContentId(s)
         /\ \A m, p : (AtOdds(m, p)' <=> AtOdds(m, p)) /\ RowsOf(m, p)' = RowsOf(m, p)
<1>1. \A s : Status(s)' = Status(s) /\ ContentId(s)' = ContentId(s)
  BY DEF Status, HasRow, ContentId
<1>2. \A d, s : FlagOf(d, s) => FlagOf(d, s)'
  BY <1>1 DEF FlagOf
<1>3. \A e : Dangling(e)' <=> Dangling(e)
  BY <1>1 DEF Dangling, DeadNow
<1>4. \A m, p : (AtOdds(m, p)' <=> AtOdds(m, p)) /\ RowsOf(m, p)' = RowsOf(m, p)
  <2>1. \A m : Lineage(m)' = Lineage(m)
    BY DEF Lineage, ChainClosed, Supersedes, HasRow
  <2>2. \A m, p : Detect(notes[m].text, notes[p].text)' = Detect(notes[m].text, notes[p].text)
    OBVIOUS
  <2> QED
    BY <1>1, <2>1, <2>2 DEF AtOdds, RowsOf
<1> QED
  BY <1>1, <1>2, <1>3, <1>4

(* Where there is one host, only its sweep takes a step of a sweep.        *)
LEMMA OnlySweep ==
  ASSUME IInv, [Next]_vars, NEW h \in Hosts, left.hosts = {h}, ~UNCHANGED vars,
         {pc[h], pc'[h]} \cap {"audit", "rescan"} # {}
  PROVE  \/ AuditStart(h) \/ AuditEdge(h) \/ RescanStart(h) \/ RescanMemory(h) \/ Crash(h)
<1>1. h \in left.hosts
  OBVIOUS
<1>2. ~Rebuild
  BY DEF Rebuild, AllIdle
<1>3. ASSUME NEW s, NEW j, Turns(h, s, j), s \notin {"audit", "rescan"},
             pc[h] \notin {"audit", "rescan"}
      PROVE  FALSE
  BY <1>3 DEF Turns
<1>4. ASSUME Request(h), ~AuditStart(h), ~RescanStart(h) PROVE FALSE
  <2>1. pc[h] = "idle"
    BY <1>4 DEF Request, Remember, DistillBegin, ReviseBegin, Promote, Retire, Forget, Undo,
       TransitionRead, Spend
  <2>2. pc'[h] \notin {"audit", "rescan"}
    <3>1. ASSUME NEW m \in left.memories, NEW t \in left.texts,
                 NEW sup \in left.memories \cup {NoMem}, Remember(h, m, t, sup)
          PROVE  pc'[h] = "check"
      BY <1>1, <3>1, RememberActs DEF Turns
    <3>2. ASSUME NEW m \in left.memories, NEW t \in left.texts, NEW S \in SUBSET left.memories,
                 DistillBegin(h, m, t, S)
          PROVE  pc'[h] = "create"
      BY <1>1, <3>2, DistillBeginActs DEF Turns
    <3>3. ASSUME NEW m \in left.memories, NEW t \in left.texts, ReviseBegin(h, m, t)
          PROVE  pc'[h] = "patch"
      BY <1>1, <3>3, ReviseBeginActs DEF Turns
    <3>4. ASSUME NEW m \in left.memories, Promote(h, m) \/ Undo(h, m) PROVE pc'[h] = "idle"
      BY <2>1, <3>4 DEF Promote, Undo
    <3>5. ASSUME NEW m \in left.memories, Retire(h, m) \/ Forget(h, m) PROVE pc'[h] = "flag"
      BY <1>1, <3>5, RetireActs, ForgetActs DEF Turns
    <3>6. ASSUME NEW k, NEW next \in {"resolved", "dismissed"}, TransitionRead(h, k, next)
          PROVE  pc'[h] = next
      BY <1>1, <3>6, TransitionReadActs DEF Turns
    <3> QED
      BY <1>4, <3>1, <3>2, <3>3, <3>4, <3>5, <3>6 DEF Request
  <2> QED
    BY <2>1, <2>2
<1>5. ASSUME Step(h), ~AuditEdge(h), ~RescanMemory(h) PROVE FALSE
  <2>1. pc[h] \notin {"audit", "rescan"}
    BY <1>5 DEF Step, DistillCreate, DistillRelate, RevisePatch, Check, CheckSourceStaleness,
       FlagCitingDistillations, TransitionWrite
  <2>2. pc'[h] \notin {"audit", "rescan"}
    BY <1>1, <1>5, DistillCreateActs, DistillRelateActs, RevisePatchActs, CheckActs,
       StalenessActs, FlagActs, TransitionWriteActs DEF Step, Turns
  <2> QED
    BY <2>1, <2>2
<1> QED
  BY <1>1, <1>2, <1>4, <1>5 DEF Next

LEMMA SweepStays == IInv /\ SweepInv /\ [Next]_vars => SweepInv'
<1> SUFFICES ASSUME IInv, SweepInv, [Next]_vars, NEW h \in Hosts, left'.hosts = {h}
             PROVE  /\ pc'[h] = "audit" =>
                         \A e \in relations' \ job'[h].todo : Dangling(e)' => FlagOf(e[1], e[2])'
                    /\ pc'[h] = "rescan" =>
                         \A m, p \in Memories : AtOdds(m, p)' /\ ~({m, p} \subseteq job'[h].todo) =>
                           RowsOf(m, p)' \subseteq DOMAIN conflicts'
  BY DEF SweepInv
<1>1. left.hosts = {h} /\ h \in left.hosts
  BY FixedAlways DEF Fixed
<1>2. /\ pc[h] = "audit" => \A e \in relations \ job[h].todo : Dangling(e) => FlagOf(e[1], e[2])
      /\ pc[h] = "rescan" =>
           \A m, p \in Memories : AtOdds(m, p) /\ ~({m, p} \subseteq job[h].todo) =>
             RowsOf(m, p) \subseteq DOMAIN conflicts
  BY <1>1 DEF SweepInv
<1>3. CASE UNCHANGED vars
  <2>1. UNCHANGED <<notes, rows, relations, conflicts, pc, job>>
    BY <1>3 DEF vars
  <2> QED
    BY <1>2, <2>1, SweepFrame
<1>4. CASE AuditStart(h)
  BY <1>1, <1>4, AuditStartActs DEF Turns, AuditStart
<1>5. CASE AuditEdge(h)
  <2>1. /\ UNCHANGED <<notes, rows, relations>> /\ pc[h] = "audit"
        /\ DOMAIN conflicts \subseteq DOMAIN conflicts'
    BY <1>1, <1>5, AuditEdgeActs DEF AuditEdge
  <2>2. CASE pc'[h] = "idle"
    BY <2>2
  <2>3. ASSUME NEW e \in job[h].todo, NEW j, j.todo = job[h].todo \ {e}, Turns(h, "audit", j),
               Dangling(e) => StaleKey(e[1], e[2], Status(e[2])) \in DOMAIN conflicts'
        PROVE  \A x \in relations' \ job'[h].todo : Dangling(x)' => FlagOf(x[1], x[2])'
    <3> SUFFICES ASSUME NEW x \in relations, x \notin job[h].todo \/ x = e, Dangling(x)
                 PROVE  FlagOf(x[1], x[2])'
      BY <2>1, <2>3, SweepFrame DEF Turns
    <3>1. CASE x \notin job[h].todo
      BY <1>2, <2>1, <3>1, SweepFrame
    <3>2. CASE x = e
      <4>1. StaleKey(x[1], x[2], Status(x[2]))' = StaleKey(x[1], x[2], Status(x[2]))
        BY <2>1, SweepFrame DEF StaleKey
      <4>2. StaleKey(x[1], x[2], Status(x[2]))' \in DOMAIN conflicts'
        BY <2>3, <3>2, <4>1
      <4>3. (\A d, s : StaleKey(d, s, Status(s)) \in DOMAIN conflicts => FlagOf(d, s))'
        BY StaleKeyFlags, PTL
      <4> QED
        BY <4>2, <4>3
    <3> QED
      BY <3>1, <3>2
  <2>4. CASE pc'[h] = "audit"
    BY <1>1, <1>5, <2>3, <2>4, AuditEdgeActs DEF Turns
  <2> QED
    BY <1>1, <1>5, <2>2, <2>4, AuditEdgeActs DEF Turns
<1>6. CASE RescanStart(h)
  <2>1. UNCHANGED <<notes, rows, relations, conflicts>>
    BY <1>6 DEF RescanStart
  <2>2. PICK j : j.todo = {m \in Memories : HasRow(m) /\ Status(m) \notin Dead} /\ Turns(h, "rescan", j)
    BY <1>1, <1>6, RescanStartActs
  <2>3. \A m, p \in Memories : AtOdds(m, p) => {m, p} \subseteq j.todo
    BY <2>2 DEF AtOdds, Status, Live, Dead
  <2> QED
    BY <2>1, <2>2, <2>3, SweepFrame DEF Turns
<1>7. CASE RescanMemory(h)
  <2>1. /\ UNCHANGED <<notes, rows, relations>> /\ pc[h] = "rescan"
        /\ DOMAIN conflicts \subseteq DOMAIN conflicts'
    BY <1>1, <1>7, RescanMemoryActs DEF RescanMemory
  <2>2. ASSUME NEW x \in Memories, conflicts' = Checked(x), NEW j, j.todo = job[h].todo \ {x},
               Turns(h, "rescan", j)
        PROVE  \A m, p \in Memories : AtOdds(m, p)' /\ ~({m, p} \subseteq job'[h].todo) =>
                 RowsOf(m, p)' \subseteq DOMAIN conflicts'
    <3> SUFFICES ASSUME NEW m \in Memories, NEW p \in Memories, AtOdds(m, p),
                        ~({m, p} \subseteq job[h].todo) \/ x \in {m, p}
                 PROVE  RowsOf(m, p) \subseteq DOMAIN conflicts'
      BY <2>1, <2>2, SweepFrame DEF Turns
    <3>1. CASE x \in {m, p}
      BY <2>2, <3>1, CheckSays
    <3>2. CASE ~({m, p} \subseteq job[h].todo)
      BY <1>2, <2>1, <3>2
    <3> QED
      BY <3>1, <3>2
  <2>3. CASE pc'[h] = "rescan"
    BY <1>1, <1>7, <2>2, <2>3, RescanMemoryActs DEF Turns
  <2>4. CASE pc'[h] = "idle"
    BY <2>4
  <2> QED
    BY <1>1, <1>7, <2>3, <2>4, RescanMemoryActs DEF Turns
<1>8. CASE Crash(h)
  BY <1>1, <1>8, CrashActs DEF Turns
<1>9. CASE pc'[h] \notin {"audit", "rescan"}
  BY <1>9
<1> QED
  BY <1>1, <1>3, <1>4, <1>5, <1>6, <1>7, <1>8, <1>9, OnlySweep

(* A sweep that ends without dying, where nobody else writes, has found    *)
(* all there was to find: every edge, or every memory, has been through    *)
(* it, and none that it has been through has changed since.                *)
THEOREM SweepsAreComplete == Spec => SweepsFind
<1>1. Init => SweepInv
  BY DEF Init, SweepInv
<1>2. ASSUME IInv, SweepInv, [Next]_vars, NEW h \in Hosts, left.hosts = {h}
      PROVE  /\ Completes(h, "audit") =>
                  \A e \in relations : Status(e[1]) \in Live \cup {"scratch"} /\ DeadNow(e[2]) =>
                    FlagOf(e[1], e[2])
             /\ Completes(h, "rescan") =>
                  \A m, p \in Memories : AtOdds(m, p) => RowsOf(m, p) \subseteq DOMAIN conflicts
  <2>1. /\ pc[h] = "audit" => \A e \in relations \ job[h].todo : Dangling(e) => FlagOf(e[1], e[2])
        /\ pc[h] = "rescan" =>
             \A m, p \in Memories : AtOdds(m, p) /\ ~({m, p} \subseteq job[h].todo) =>
               RowsOf(m, p) \subseteq DOMAIN conflicts
    BY <1>2 DEF SweepInv
  <2>2. ASSUME NEW sweep \in {"audit", "rescan"}, Completes(h, sweep) PROVE job[h].todo = {}
    <3>1. pc[h] = sweep /\ pc'[h] = "idle" /\ left'.crash = left.crash /\ h \in left.hosts
      BY <1>2, <2>2 DEF Completes
    <3>2. ~UNCHANGED vars
      BY <3>1 DEF vars
    <3>3. ~Crash(h)
      BY <1>2, <3>1, SpendLeft DEF Crash, IInv, Bounds
    <3>4. ~AuditStart(h) /\ ~RescanStart(h)
      BY <3>1 DEF AuditStart, RescanStart, Spend
    <3>5. AuditEdge(h) \/ RescanMemory(h)
      BY <1>2, <3>1, <3>2, <3>3, <3>4, OnlySweep
    <3> QED
      BY <1>2, <3>1, <3>5, AuditEdgeActs, RescanMemoryActs DEF Turns
  <2>3. \A e : Status(e[1]) \in Live \cup {"scratch"} /\ DeadNow(e[2]) => Dangling(e)
    BY DEF Dangling, Live, Dead
  <2> QED
    BY <2>1, <2>2, <2>3 DEF Completes
<1>3. IInv /\ SweepInv /\ [Next]_vars =>
        \A h \in Hosts : left.hosts = {h} =>
          /\ Completes(h, "audit") =>
               \A e \in relations : Status(e[1]) \in Live \cup {"scratch"} /\ DeadNow(e[2]) =>
                 FlagOf(e[1], e[2])
          /\ Completes(h, "rescan") =>
               \A m, p \in Memories : AtOdds(m, p) => RowsOf(m, p) \subseteq DOMAIN conflicts
  BY <1>2
<1> QED
  BY <1>1, <1>3, InitialInv, Inductive, SweepStays, PTL DEF Spec, SweepsFind
=============================================================================
